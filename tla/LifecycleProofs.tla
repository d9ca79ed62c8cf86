---------------------------- MODULE LifecycleProofs ----------------------------
(***************************************************************************)
(* The request lifecycle implements the admission controller, whose        *)
(* theorems therefore hold in it, and keeps its own promises: for any      *)
(* number of requests, slots and nodes.                                    *)
(***************************************************************************)
EXTENDS RequestLifecycle, AdmissionProofs

\* What Admission sees of a step: a step of its own, or nothing.
LEMMA StepIsAdmissionStep == [LNext]_allVars => [Next]_vars
<1> SUFFICES ASSUME [LNext]_allVars PROVE [Next]_vars
  OBVIOUS
<1>1. ASSUME NEW r \in Requests, AdmissionStep(r) PROVE Step(r)
  BY <1>1 DEF AdmissionStep, Step
<1>2. ASSUME NEW r \in Requests, CloseLease(r) PROVE Step(r)
  BY <1>2 DEF CloseLease, Step
<1>3. ASSUME NEW r \in Requests, HandlerStep(r), ~CloseLease(r)
      PROVE  UNCHANGED vars
  BY <1>3 DEF HandlerStep, AnswerWithoutGraph, Submit, InvokeInline, ReceiveResult,
              AwaitTimeout, CancelFuture, GraceEnds
<1>4. ASSUME NEW r \in Requests, GraphStep(r) \/ DeadlinePasses(r)
      PROVE  UNCHANGED vars
  BY <1>4 DEF GraphStep, EnterNode, StopGraph, GraphEnds, DeadlinePasses
<1>5. StartGraph \/ AllSettled \/ UNCHANGED allVars => UNCHANGED vars
  BY DEF StartGraph, AllSettled, allVars
<1> QED
  BY <1>1, <1>2, <1>3, <1>4, <1>5 DEF LNext, Next

\* Whatever deadlines, graphs and the executor do, the leases of the requests
\* are those of a run of the admission controller.
THEOREM LifecycleImplementsAdmission == LSpec => Spec
<1>1. LInit => Init
  BY DEF LInit
<1> QED
  BY <1>1, StepIsAdmissionStep, PTL DEF LSpec, Spec

-----------------------------------------------------------------------------
(***************************************************************************)
(* The inductive invariant                                                 *)
(***************************************************************************)
LTypes ==
  /\ handler \in [Requests -> HandlerStates]
  /\ graph \in [Requests -> GraphStates]
  /\ backlog \in Seq(Requests)
  /\ node \in [Requests -> Nat]
  /\ expired \in [Requests -> BOOLEAN]
  /\ cancelled \in [Requests -> BOOLEAN]
  /\ status \in [Requests -> {"none", "response", "error", "504"}]

\* Where the handler of a request is tells what its graph may be.
HandlerMatchesGraph ==
  \A r \in Requests :
    /\ pc[r] # "running" => handler[r] \in {"invoke", "answered"}
    /\ status[r] # "none" <=> handler[r] = "answered"
    /\ handler[r] = "invoke" => graph[r] = "none"
    /\ graph[r] = "none" => node[r] = 0
    /\ handler[r] \in {"grace", "answered"} => graph[r] # "pending"
    /\ handler[r] = "inline" => graph[r] # "pending" /\ expired[r] /\ node[r] = 0

OnWorkers == {r \in Requests : OnPool(r)}

WorkersBounded == Cardinality(OnWorkers) <= MaxActive

LInv == IInv /\ LTypes /\ HandlerMatchesGraph /\ WorkersBounded

LEMMA LInitEstablishes == LInit => LInv
<1> SUFFICES ASSUME LInit PROVE LInv
  OBVIOUS
<1>1. IInv
  BY InitEstablishes DEF LInit
<1>2. LTypes
  BY DEF LInit, LTypes, HandlerStates, GraphStates
<1>3. HandlerMatchesGraph
  BY DEF LInit, HandlerMatchesGraph
<1>4. WorkersBounded
  <2>1. OnWorkers = {}
    BY DEF LInit, OnWorkers, OnPool
  <2> QED
    BY <2>1, FS_EmptySet, LimitsAssumption DEF WorkersBounded
<1> QED
  BY <1>1, <1>2, <1>3, <1>4 DEF LInv

\* No step of Admission but Close takes a caller out of its run.
LEMMA OnlyCloseLeavesRunning ==
  ASSUME IInv, NEW r \in Requests, AdmissionStep(r),
         NEW q \in Requests, pc[q] = "running"
  PROVE  pc'[q] = "running"
<1>1. pc \in [Requests -> Places]
  BY DEF IInv, TypeOK
<1>2. CASE Acquire(r)
  BY <1>1, <1>2 DEF Acquire, AcquireFast, AcquireQueueFull, AcquireEnqueue, Goto
<1>3. CASE ExpireBeforeWait(r) \/ BeginWait(r) \/ WakeGranted(r) \/ WaitTimeout(r)
  BY <1>1, <1>3 DEF ExpireBeforeWait, BeginWait, WakeGranted, WaitTimeout, Goto
<1>4. CASE RemoveWaiter(r) \/ Release(r) \/ GrantWaiter(r) \/ EndRelease(r) \/ Leave(r)
  BY <1>1, <1>4 DEF RemoveWaiter, Release, GrantWaiter, EndRelease, Leave, Goto
<1> QED
  BY <1>2, <1>3, <1>4 DEF AdmissionStep

\* The steps of Admission leave the rest of the lifecycle alone, and only a
\* handler that has its answer is closed.
LEMMA AdmissionStepKeeps ==
  ASSUME LInv, NEW r \in Requests, AdmissionStep(r) \/ CloseLease(r)
  PROVE  LTypes' /\ HandlerMatchesGraph' /\ WorkersBounded'
<1>1. UNCHANGED lifecycleVars
  BY DEF AdmissionStep, CloseLease
<1>2. ASSUME NEW q \in Requests, pc[q] = "running", pc'[q] # "running"
      PROVE  handler[q] = "answered"
  <2>1. CloseLease(r)
    BY <1>2, OnlyCloseLeavesRunning DEF LInv
  <2>2. pc \in [Requests -> Places]
    BY DEF LInv, IInv, TypeOK
  <2> QED
    BY <1>2, <2>1, <2>2 DEF CloseLease, Close, InHandler, Goto
<1>3. LTypes'
  BY <1>1 DEF LInv, LTypes, lifecycleVars
<1>4. HandlerMatchesGraph'
  BY <1>1, <1>2 DEF LInv, HandlerMatchesGraph, lifecycleVars
<1>5. WorkersBounded'
  BY <1>1 DEF LInv, WorkersBounded, OnWorkers, OnPool, lifecycleVars
<1> QED
  BY <1>3, <1>4, <1>5

\* A step that starts no graph on the pool keeps the bound of the workers.
LEMMA NoStartKeepsBound ==
  ASSUME LInv, OnWorkers' \subseteq OnWorkers
  PROVE  WorkersBounded'
<1>1. IsFiniteSet(OnWorkers)
  BY RequestsAssumption, FS_Subset DEF OnWorkers
<1>2. /\ Cardinality(OnWorkers') <= Cardinality(OnWorkers)
      /\ Cardinality(OnWorkers') \in Nat /\ Cardinality(OnWorkers) \in Nat
  BY <1>1, FS_Subset, FS_CardinalityType
<1> QED
  BY <1>2, LimitsAssumption DEF LInv, WorkersBounded

LEMMA HandlerStepKeeps ==
  ASSUME LInv, NEW r \in Requests, HandlerStep(r), ~CloseLease(r)
  PROVE  LTypes' /\ HandlerMatchesGraph' /\ WorkersBounded'
<1> USE DEF LInv, LTypes, HandlerMatchesGraph, HandlerStates, GraphStates, InHandler,
            Answer, Finished, vars
<1>1. CASE AnswerWithoutGraph(r)
  <2>1. LTypes' /\ HandlerMatchesGraph'
    BY <1>1 DEF AnswerWithoutGraph
  <2>2. OnWorkers' \subseteq OnWorkers
    BY <1>1 DEF AnswerWithoutGraph, OnWorkers, OnPool
  <2> QED
    BY <2>1, <2>2, NoStartKeepsBound
<1>2. CASE Submit(r)
  <2>1. backlog' \in Seq(Requests)
    BY <1>2, AppendProperties DEF Submit
  <2>2. LTypes'
    BY <1>2, <2>1 DEF Submit
  <2>3. HandlerMatchesGraph'
    BY <1>2 DEF Submit
  <2>4. OnWorkers' \subseteq OnWorkers
    BY <1>2 DEF Submit, OnWorkers, OnPool
  <2> QED
    BY <2>2, <2>3, <2>4, NoStartKeepsBound
<1>3. CASE InvokeInline(r)
  <2>1. LTypes' /\ HandlerMatchesGraph'
    BY <1>3 DEF InvokeInline
  <2>2. OnWorkers' \subseteq OnWorkers
    BY <1>3 DEF InvokeInline, OnWorkers, OnPool
  <2> QED
    BY <2>1, <2>2, NoStartKeepsBound
<1>4. CASE ReceiveResult(r)
  <2>1. PICK code \in {"response", "error"} :
          /\ graph[r] \in Finished
          /\ Answer(r, code)
          /\ UNCHANGED <<vars, graph, backlog, node, expired, cancelled>>
    BY <1>4 DEF ReceiveResult
  <2>2. pc[r] = "running"
    BY <1>4 DEF ReceiveResult
  <2>3. LTypes'
    BY <2>1
  <2>4. HandlerMatchesGraph'
    BY <2>1, <2>2
  <2>5. OnWorkers' \subseteq OnWorkers
    BY <2>1 DEF OnWorkers, OnPool
  <2> QED
    BY <2>3, <2>4, <2>5, NoStartKeepsBound
<1>5. CASE AwaitTimeout(r)
  <2>1. LTypes' /\ HandlerMatchesGraph'
    BY <1>5 DEF AwaitTimeout
  <2>2. OnWorkers' \subseteq OnWorkers
    BY <1>5 DEF AwaitTimeout, OnWorkers, OnPool
  <2> QED
    BY <2>1, <2>2, NoStartKeepsBound
<1>6. CASE CancelFuture(r)
  <2>1. LTypes'
    BY <1>6 DEF CancelFuture
  <2>2. CASE graph[r] = "pending"
    <3>1. HandlerMatchesGraph'
      BY <1>6, <2>2 DEF CancelFuture
    <3>2. OnWorkers' \subseteq OnWorkers
      BY <1>6, <2>2 DEF CancelFuture, OnWorkers, OnPool
    <3> QED
      BY <2>1, <3>1, <3>2, NoStartKeepsBound
  <2>3. CASE graph[r] # "pending"
    <3>1. HandlerMatchesGraph'
      BY <1>6, <2>3 DEF CancelFuture
    <3>2. OnWorkers' \subseteq OnWorkers
      BY <1>6, <2>3 DEF CancelFuture, OnWorkers, OnPool
    <3> QED
      BY <2>1, <3>1, <3>2, NoStartKeepsBound
  <2> QED
    BY <2>2, <2>3
<1>7. CASE GraceEnds(r)
  <2>1. LTypes' /\ HandlerMatchesGraph'
    BY <1>7 DEF GraceEnds
  <2>2. OnWorkers' \subseteq OnWorkers
    BY <1>7 DEF GraceEnds, OnWorkers, OnPool
  <2> QED
    BY <2>1, <2>2, NoStartKeepsBound
<1> QED
  BY <1>1, <1>2, <1>3, <1>4, <1>5, <1>6, <1>7 DEF HandlerStep

LEMMA DeadlinePassesKeeps ==
  ASSUME LInv, NEW r \in Requests, DeadlinePasses(r)
  PROVE  LTypes' /\ HandlerMatchesGraph' /\ WorkersBounded'
<1> USE DEF LInv, DeadlinePasses, vars
<1>1. LTypes' /\ HandlerMatchesGraph'
  BY DEF LTypes, HandlerMatchesGraph
<1>2. WorkersBounded'
  BY DEF WorkersBounded, OnWorkers, OnPool
<1> QED
  BY <1>1, <1>2

\* A graph that runs on the HTTP thread stops at its first cancellation point.
LEMMA GraphStepKeeps ==
  ASSUME LInv, NEW r \in Requests, GraphStep(r)
  PROVE  LTypes' /\ HandlerMatchesGraph' /\ WorkersBounded'
<1> USE DEF LInv, LTypes, HandlerMatchesGraph, HandlerStates, GraphStates, vars
<1>1. CASE EnterNode(r)
  <2>1. handler[r] # "inline"
    BY <1>1 DEF EnterNode, MustStop, SeesDeadline, OnPool
  <2>2. LTypes' /\ HandlerMatchesGraph'
    BY <1>1, <2>1 DEF EnterNode
  <2>3. WorkersBounded'
    BY <1>1 DEF EnterNode, WorkersBounded, OnWorkers, OnPool
  <2> QED
    BY <2>2, <2>3
<1>2. CASE StopGraph(r) \/ GraphEnds(r)
  <2>1. PICK end \in Finished :
          /\ graph[r] = "running"
          /\ graph' = [graph EXCEPT ![r] = end]
          /\ UNCHANGED <<vars, handler, backlog, node, expired, cancelled, status>>
    BY <1>2 DEF StopGraph, GraphEnds, Finished
  <2>2. LTypes'
    BY <2>1 DEF Finished
  <2>3. HandlerMatchesGraph'
    BY <2>1 DEF Finished
  <2>4. OnWorkers' \subseteq OnWorkers
    BY <2>1 DEF OnWorkers, OnPool, Finished
  <2> QED
    BY <2>2, <2>3, <2>4, NoStartKeepsBound
<1> QED
  BY <1>1, <1>2 DEF GraphStep

\* A worker takes one item, and only if there is a worker for it.
LEMMA StartGraphKeeps ==
  ASSUME LInv, StartGraph
  PROVE  LTypes' /\ HandlerMatchesGraph' /\ WorkersBounded'
<1> DEFINE r == Head(backlog)
<1> USE DEF LInv, LTypes, HandlerMatchesGraph, HandlerStates, GraphStates, vars
<1>1. r \in Requests /\ backlog' \in Seq(Requests)
  BY DEF StartGraph
<1>2. /\ graph' = [graph EXCEPT ![r] = "running"] /\ graph[r] = "pending"
      \/ graph' = graph
  BY DEF StartGraph
<1>3. LTypes' /\ HandlerMatchesGraph'
  <2>1. LTypes'
    BY <1>1, <1>2 DEF StartGraph
  <2>2. CASE graph' = graph
    BY <2>2 DEF StartGraph
  <2>3. CASE graph' = [graph EXCEPT ![r] = "running"] /\ graph[r] = "pending"
    <3> HIDE DEF r
    <3>1. r \in Requests
      BY <1>1
    <3> QED
      BY <2>3, <3>1 DEF StartGraph
  <2> QED
    BY <1>2, <2>1, <2>2, <2>3
<1>4. OnWorkers' \subseteq OnWorkers \cup {r}
  BY <1>1, <1>2 DEF StartGraph, OnWorkers, OnPool
<1>5. IsFiniteSet(OnWorkers) /\ Cardinality(OnWorkers) \in Nat
  BY RequestsAssumption, FS_Subset, FS_CardinalityType DEF OnWorkers
<1>6. /\ IsFiniteSet(OnWorkers \cup {r})
      /\ Cardinality(OnWorkers \cup {r}) <= Cardinality(OnWorkers) + 1
  <2> SUFFICES ASSUME NEW S, NEW x, IsFiniteSet(S), Cardinality(S) \in Nat
               PROVE  /\ IsFiniteSet(S \cup {x})
                      /\ Cardinality(S \cup {x}) <= Cardinality(S) + 1
    BY <1>5
  <2>1. /\ IsFiniteSet(S \cup {x})
        /\ \/ Cardinality(S \cup {x}) = Cardinality(S)
           \/ Cardinality(S \cup {x}) = Cardinality(S) + 1
    BY FS_AddElement
  <2> QED
    BY <2>1
<1>7. /\ Cardinality(OnWorkers') <= Cardinality(OnWorkers \cup {r})
      /\ Cardinality(OnWorkers') \in Nat
      /\ Cardinality(OnWorkers \cup {r}) \in Nat
  BY <1>4, <1>6, FS_Subset, FS_CardinalityType
<1>8. Cardinality(OnWorkers) < MaxActive
  BY DEF StartGraph, WorkerFree, OnWorkers
<1>9. WorkersBounded'
  BY <1>5, <1>6, <1>7, <1>8, LimitsAssumption DEF WorkersBounded
<1> QED
  BY <1>3, <1>9

LEMMA LStepKeeps == LInv /\ [LNext]_allVars => LInv'
<1> SUFFICES ASSUME LInv, [LNext]_allVars PROVE LInv'
  OBVIOUS
<1>1. IInv'
  BY StepIsAdmissionStep, StepKeeps DEF LInv
<1>2. ASSUME NEW r \in Requests, AdmissionStep(r)
      PROVE  LInv'
  BY <1>1, <1>2, AdmissionStepKeeps DEF LInv
<1>3. ASSUME NEW r \in Requests, HandlerStep(r)
      PROVE  LInv'
  BY <1>1, <1>3, AdmissionStepKeeps, HandlerStepKeeps DEF LInv
<1>4. ASSUME NEW r \in Requests, GraphStep(r)
      PROVE  LInv'
  BY <1>1, <1>4, GraphStepKeeps DEF LInv
<1>5. ASSUME NEW r \in Requests, DeadlinePasses(r)
      PROVE  LInv'
  BY <1>1, <1>5, DeadlinePassesKeeps DEF LInv
<1>6. CASE StartGraph
  BY <1>1, <1>6, StartGraphKeeps DEF LInv
<1>7. CASE AllSettled \/ UNCHANGED allVars
  <2>1. UNCHANGED vars /\ UNCHANGED lifecycleVars
    BY <1>7 DEF AllSettled, allVars
  <2>2. LTypes'
    BY <2>1 DEF LInv, LTypes, lifecycleVars
  <2>3. HandlerMatchesGraph'
    BY <2>1 DEF LInv, HandlerMatchesGraph, lifecycleVars, vars
  <2>4. WorkersBounded'
    BY <2>1 DEF LInv, WorkersBounded, OnWorkers, OnPool, lifecycleVars
  <2> QED
    BY <1>1, <2>2, <2>3, <2>4 DEF LInv
<1> QED
  BY <1>2, <1>3, <1>4, <1>5, <1>6, <1>7 DEF LNext

THEOREM LifecycleInvariant == LSpec => []LInv
  BY LInitEstablishes, LStepKeeps, PTL DEF LSpec

-----------------------------------------------------------------------------
(***************************************************************************)
(* What follows                                                            *)
(***************************************************************************)

\* A queued run that timed out is cancelled for good (_invoke_graph).
THEOREM NothingStartsAfterItsAnswer == LSpec => []NoStartAfterAnswer
<1>1. LInv => NoStartAfterAnswer
  BY DEF LInv, HandlerMatchesGraph, NoStartAfterAnswer
<1> QED
  BY <1>1, LifecycleInvariant, PTL

\* Graphs that outlive their lease are on the workers of the shared executor,
\* which are as many as there are slots.
THEOREM AbandonedGraphsAreBounded == LSpec => []AbandonedGraphsBounded
<1>1. LInv => AbandonedGraphsBounded
  <2> SUFFICES ASSUME LInv PROVE AbandonedGraphsBounded
    OBVIOUS
  <2> DEFINE Abandoned == {r \in Requests : graph[r] = "running" /\ lease[r] # "open"}
  <2>1. Abandoned \subseteq OnWorkers
    BY DEF LInv, IInv, LeaseMatchesCaller, HandlerMatchesGraph, OnWorkers, OnPool
  <2>2. IsFiniteSet(OnWorkers)
    BY RequestsAssumption, FS_Subset DEF OnWorkers
  <2>3. /\ Cardinality(Abandoned) <= Cardinality(OnWorkers)
        /\ Cardinality(Abandoned) \in Nat /\ Cardinality(OnWorkers) \in Nat
    BY <2>1, <2>2, FS_Subset, FS_CardinalityType
  <2> QED
    BY <2>3, LimitsAssumption DEF LInv, WorkersBounded, AbandonedGraphsBounded
<1> QED
  BY <1>1, LifecycleInvariant, PTL

\* A request whose deadline has passed in the queue enters no node.
THEOREM LateRequestsEnterNoNode == LSpec => []LateRequestEntersNoNode
<1>1. LInv => LateRequestEntersNoNode
  BY DEF LInv, HandlerMatchesGraph, LateRequestEntersNoNode
<1> QED
  BY <1>1, LifecycleInvariant, PTL
===============================================================================

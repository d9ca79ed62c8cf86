--------------------------- MODULE RequestLifecycle ---------------------------
(***************************************************************************)
(* One workflow request from the HTTP route to its answer: admission       *)
(* (Admission.tla), the deadline, the harness's _invoke_graph, the shared  *)
(* invoke executor and the graph thread (api/routes.py, api/app.py,        *)
(* orchestration/harness.py, deadline.py).                                 *)
(*                                                                         *)
(* Admission's callers are the HTTP worker threads; the graph of a request *)
(* runs on a pool thread, or on the HTTP thread itself when the deadline   *)
(* has already passed.  The request-scoped deadline is a context variable  *)
(* of the HTTP thread: ThreadPoolExecutor.submit does not copy the         *)
(* context, so a graph on a pool thread sees no deadline.                  *)
(***************************************************************************)
EXTENDS Admission

CONSTANT MaxNodes   \* cooperative cancellation points of one graph run

ASSUME NodesAssumption == MaxNodes \in Nat

VARIABLES
  handler,    \* where the HTTP thread of an admitted request is
  graph,      \* the request's graph execution (the state of its future)
  backlog,    \* the executor's work queue
  node,       \* nodes the graph has entered
  expired,    \* the request's deadline has passed
  cancelled,  \* deadline.cancel() has been called
  status      \* how the request was answered

lifecycleVars == <<handler, graph, backlog, node, expired, cancelled, status>>
allVars == <<vars, lifecycleVars>>

\* "invoke": in run_workflow, before the graph; "inline": graph.invoke on this
\* thread; "await": in future.result(timeout); "cancelling": the timeout fired;
\* "grace": in future.result(grace); "answered": the finally blocks remain.
HandlerStates == {"invoke", "inline", "await", "cancelling", "grace", "answered"}

\* "none", the four states of a Future, and the two ways a graph can stop by
\* an exception: ExecutionCancelled at a cancellation point, or any other.
GraphStates == {"none", "pending", "running", "done", "stopped", "failed",
                "cancelled"}

Finished == {"done", "stopped", "failed"}

LInit ==
  /\ Init
  /\ handler = [r \in Requests |-> "invoke"]
  /\ graph = [r \in Requests |-> "none"]
  /\ backlog = <<>>
  /\ node = [r \in Requests |-> 0]
  /\ expired = [r \in Requests |-> FALSE]
  /\ cancelled = [r \in Requests |-> FALSE]
  /\ status = [r \in Requests |-> "none"]

InHandler(r, place) == pc[r] = "running" /\ handler[r] = place

\* The handler leaves run_func with an answer.
Answer(r, code) ==
  /\ handler' = [handler EXCEPT ![r] = "answered"]
  /\ status' = [status EXCEPT ![r] = code]

-----------------------------------------------------------------------------
(***************************************************************************)
(* _run_with_admission: acquire, and the finally block that closes the     *)
(* lease once the handler has its answer.                                  *)
(***************************************************************************)
AdmissionStep(r) ==
  /\ \/ Acquire(r)
     \/ ExpireBeforeWait(r)
     \/ BeginWait(r)
     \/ WakeGranted(r)
     \/ WaitTimeout(r)
     \/ RemoveWaiter(r)
     \/ Release(r)
     \/ GrantWaiter(r)
     \/ EndRelease(r)
     \/ Leave(r)
  /\ UNCHANGED lifecycleVars

CloseLease(r) ==
  /\ InHandler(r, "answered")
  /\ Close(r)
  /\ UNCHANGED lifecycleVars

\* The deadline is fixed before acquire, so it may pass in the admission queue.
\* Nothing reads it once the request has its answer.
DeadlinePasses(r) ==
  /\ pc[r] \notin {"start", "full", "timeout"}
  /\ handler[r] # "answered"
  /\ ~expired[r]
  /\ expired' = [expired EXCEPT ![r] = TRUE]
  /\ UNCHANGED <<vars, handler, graph, backlog, node, cancelled, status>>

(***************************************************************************)
(* run_workflow and _invoke_graph.  The timeout is the time that remains   *)
(* until the deadline; a timeout of zero means "run without one".          *)
(***************************************************************************)

\* An unsupported preset, or a failure before the graph is invoked.
AnswerWithoutGraph(r) ==
  /\ InHandler(r, "invoke")
  /\ \E code \in {"response", "error"} : Answer(r, code)
  /\ UNCHANGED <<vars, graph, backlog, node, expired, cancelled>>

Submit(r) ==
  /\ InHandler(r, "invoke")
  /\ ~expired[r]
  /\ graph' = [graph EXCEPT ![r] = "pending"]
  /\ backlog' = Append(backlog, r)
  /\ handler' = [handler EXCEPT ![r] = "await"]
  /\ UNCHANGED <<vars, node, expired, cancelled, status>>

InvokeInline(r) ==
  /\ InHandler(r, "invoke")
  /\ expired[r]
  /\ graph' = [graph EXCEPT ![r] = "running"]
  /\ handler' = [handler EXCEPT ![r] = "inline"]
  /\ UNCHANGED <<vars, backlog, node, expired, cancelled, status>>

\* The graph's result or exception reaches the handler: a response (provider
\* errors and ExecutionCancelled become failure responses) or an HTTP error.
ReceiveResult(r) ==
  /\ \/ InHandler(r, "await")
     \/ InHandler(r, "inline")
  /\ graph[r] \in Finished
  /\ \/ Answer(r, "response")
     \/ graph[r] = "failed" /\ Answer(r, "error")
  /\ UNCHANGED <<vars, graph, backlog, node, expired, cancelled>>

\* future.result raises TimeoutError; the harness cancels the deadline.
AwaitTimeout(r) ==
  /\ InHandler(r, "await")
  /\ expired[r]
  /\ graph[r] \notin Finished
  /\ cancelled' = [cancelled EXCEPT ![r] = TRUE]
  /\ handler' = [handler EXCEPT ![r] = "cancelling"]
  /\ UNCHANGED <<vars, graph, backlog, node, expired, status>>

\* Faulty variant: the future is not cancelled.
KeepFuture(r) ==
  /\ InHandler(r, "cancelling")
  /\ handler' = [handler EXCEPT ![r] = "grace"]
  /\ UNCHANGED <<vars, graph, backlog, node, expired, cancelled, status>>

\* future.cancel(): only a future that has not started is cancelled.
CancelFuture(r) ==
  /\ InHandler(r, "cancelling")
  /\ handler' = [handler EXCEPT ![r] = "grace"]
  /\ \/ /\ graph[r] = "pending"
        /\ graph' = [graph EXCEPT ![r] = "cancelled"]
     \/ graph[r] # "pending" /\ UNCHANGED graph
  /\ UNCHANGED <<vars, backlog, node, expired, cancelled, status>>

\* Faulty variant: the handler waits in the grace period for the graph alone.
GraceUntilExit(r) ==
  /\ InHandler(r, "grace")
  /\ graph[r] # "running"
  /\ Answer(r, "504")
  /\ UNCHANGED <<vars, graph, backlog, node, expired, cancelled>>

\* The grace period ends because the graph exits or because its time is over.
GraceEnds(r) ==
  /\ InHandler(r, "grace")
  /\ Answer(r, "504")
  /\ UNCHANGED <<vars, graph, backlog, node, expired, cancelled>>

(***************************************************************************)
(* The executor (one worker per admission slot) and the graph.             *)
(***************************************************************************)
OnPool(r) == graph[r] = "running" /\ handler[r] # "inline"

\* Faulty variant: a worker thread for every work item.
WorkerAlwaysFree == TRUE

WorkerFree == Cardinality({r \in Requests : OnPool(r)}) < MaxActive

\* A free worker takes the oldest work item; one whose future was cancelled is
\* dropped.
StartGraph ==
  /\ backlog # <<>>
  /\ WorkerFree
  /\ backlog' = Tail(backlog)
  /\ LET r == Head(backlog) IN
       \/ /\ graph[r] = "pending"
          /\ graph' = [graph EXCEPT ![r] = "running"]
       \/ graph[r] = "cancelled" /\ UNCHANGED graph
  /\ UNCHANGED <<vars, handler, node, expired, cancelled, status>>

\* Faulty variant: no thread that runs a graph has the deadline bound.
SeesNoDeadline(r) == FALSE

\* get_current_deadline() in the thread that runs the graph.
SeesDeadline(r) == ~OnPool(r)

\* raise_if_cancelled
MustStop(r) == SeesDeadline(r) /\ (cancelled[r] \/ expired[r])

\* A node's cancellation point: the graph goes on, or raises ExecutionCancelled.
EnterNode(r) ==
  /\ graph[r] = "running"
  /\ ~MustStop(r)
  /\ node[r] < MaxNodes
  /\ node' = [node EXCEPT ![r] = @ + 1]
  /\ UNCHANGED <<vars, handler, graph, backlog, expired, cancelled, status>>

StopGraph(r) ==
  /\ graph[r] = "running"
  /\ MustStop(r)
  /\ graph' = [graph EXCEPT ![r] = "stopped"]
  /\ UNCHANGED <<vars, handler, backlog, node, expired, cancelled, status>>

\* The run is complete, or a node raised.
GraphEnds(r) ==
  /\ graph[r] = "running"
  /\ node[r] > 0
  /\ \E end \in {"done", "failed"} : graph' = [graph EXCEPT ![r] = end]
  /\ UNCHANGED <<vars, handler, backlog, node, expired, cancelled, status>>

-----------------------------------------------------------------------------
HandlerStep(r) ==
  \/ AnswerWithoutGraph(r)
  \/ Submit(r)
  \/ InvokeInline(r)
  \/ ReceiveResult(r)
  \/ AwaitTimeout(r)
  \/ CancelFuture(r)
  \/ GraceEnds(r)
  \/ CloseLease(r)

GraphStep(r) == EnterNode(r) \/ StopGraph(r) \/ GraphEnds(r)

\* Every request has been answered and every graph has ended.
AllSettled ==
  /\ \A r \in Requests :
       /\ pc[r] \in {"finished", "full", "timeout"}
       /\ graph[r] # "running"
  /\ backlog = <<>>
  /\ UNCHANGED allVars

LNext ==
  \/ \E r \in Requests :
       AdmissionStep(r) \/ HandlerStep(r) \/ GraphStep(r) \/ DeadlinePasses(r)
  \/ StartGraph
  \/ AllSettled

LSpec == LInit /\ [][LNext]_allVars

(***************************************************************************)
(* Fairness: time passes, handlers run, critical sections end, and the     *)
(* lock is given to a release if it is free again and again.  A graph on   *)
(* the HTTP thread reaches its next cancellation point; one on a pool      *)
(* thread may hang for ever.  A request has finitely many of these steps,  *)
(* so it is enough that some request takes one while any can.              *)
(***************************************************************************)
GoesOn(r) ==
  \/ DeadlinePasses(r)
  \/ HandlerStep(r)
  \/ handler[r] = "inline" /\ GraphStep(r)
  \/ (GrantWaiter(r) \/ EndRelease(r)) /\ UNCHANGED lifecycleVars

LFairness ==
  /\ WF_allVars(\E r \in Requests : GoesOn(r))
  /\ SF_allVars(\E r \in Requests : Release(r) /\ UNCHANGED lifecycleVars)

LFairSpec == LSpec /\ LFairness

-----------------------------------------------------------------------------
(***************************************************************************)
(* Properties                                                              *)
(***************************************************************************)

\* No graph starts once its request has been answered: a run that timed out
\* while it was queued behind busy workers is cancelled for good
\* (future.cancel in _invoke_graph).
NoStartAfterAnswer ==
  \A r \in Requests : status[r] # "none" => graph[r] # "pending"

\* However many requests time out, at most max_active of their graphs go on
\* running after the slot was given to somebody else: they keep the workers of
\* the shared executor, and later runs wait in its backlog.
AbandonedGraphsBounded ==
  Cardinality({r \in Requests : graph[r] = "running" /\ lease[r] # "open"})
    <= MaxActive

\* A request whose deadline passed in the admission queue is run on the HTTP
\* thread without a timeout, but enters no node: its first cancellation point
\* sees the expired deadline.
LateRequestEntersNoNode ==
  \A r \in Requests : handler[r] = "inline" => node[r] = 0

\* Every admitted request gives its slot back, even if its graph hangs on a
\* pool thread (timeout and grace period of _invoke_graph, finally of the route):
\* a request is admitted once at most, so there is always a later moment when
\* nobody has a slot.
SlotAlwaysReturned ==
  []<>(\A r \in Requests : pc[r] \notin {"running", "releasing", "granting"})

\* After deadline.cancel() the graph stops at its next cancellation point: what
\* the comment on the timeout path of _invoke_graph says.
CancellationIsSeen ==
  [][\A r \in Requests : cancelled[r] => node'[r] = node[r]]_allVars
=============================================================================

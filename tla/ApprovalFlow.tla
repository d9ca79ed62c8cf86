----------------------------- MODULE ApprovalFlow -----------------------------
(***************************************************************************)
(* Runs and approval resumes of one durable thread                         *)
(* (orchestration/harness.py: run_workflow, resume_workflow).              *)
(*                                                                         *)
(* The Go backend may repeat a run of the thread, and it resumes a run     *)
(* with the decisions of a reviewer, naming the version of the checkpoint  *)
(* it was shown.  Nothing serializes the calls of one thread: a graph that *)
(* was abandoned by its timeout, a repeated run and several resumes write  *)
(* checkpoints side by side.  What each of them reads, compares and writes *)
(* is therefore a step of its own.                                         *)
(*                                                                         *)
(* `log` is the thread's checkpoint table: the version of a checkpoint is  *)
(* its position (CheckpointStore.tla: versions count up by one), the last  *)
(* one is what get_state returns.                                          *)
(***************************************************************************)
EXTENDS Naturals, Sequences, SequencesExt, FiniteSets

CONSTANTS
  Runs,        \* calls of run_workflow on the thread
  Resumes,     \* calls of resume_workflow on the thread
  Tools,       \* tool_call_ids
  Proposals,   \* the sets of tools a graph may propose
  Decisions,   \* lists of decided tool_call_ids the backend may send
  QueueEnabled \* the process-local tool queue is configured

ASSUME FlowAssumption ==
  /\ Runs \cap Resumes = {}
  /\ Proposals \subseteq SUBSET Tools
  /\ \A p \in Proposals : IsFiniteSet(p)
  /\ Decisions \subseteq Seq(Tools)
  /\ QueueEnabled \in BOOLEAN

VARIABLES
  log,       \* the checkpoints, oldest first
  run,       \* where each run is
  memory,    \* the channels of a running graph
  reply,     \* what run_workflow answered
  enqueued,  \* tools handed to the asynchronous queue
  resume,    \* where each resume is
  request,   \* its request
  seen,      \* the snapshot it read first, and that snapshot's version
  base,      \* the checkpoint update_state writes upon
  answer     \* what resume_workflow answered

vars == <<log, run, memory, reply, enqueued, resume, request, seen, base, answer>>
runVars == <<run, memory, reply, enqueued>>
resumeVars == <<resume, request, seen, base, answer>>

NoDecisions == <<>>

\* A checkpoint: who wrote it, and the channels resume_workflow looks at; the
\* channel "request" is missing until the first step of the first run.
Checkpoint(writer, present, tools, decided) ==
  [writer |-> writer, request |-> present, tools |-> tools, decided |-> decided]

NoCheckpoint == Checkpoint("nobody", FALSE, {}, NoDecisions)

Latest == IF log = <<>> THEN NoCheckpoint ELSE Last(log)

\* _checkpoint_contract: the version of the latest checkpoint.
Version == Len(log)

NoReply == [status |-> "none", version |-> 0, tools |-> {}]

NoRequest == [expected |-> 0, decisions |-> NoDecisions, names |-> "run"]

Init ==
  /\ log = <<>>
  /\ run = [w \in Runs |-> "new"]
  /\ memory = [w \in Runs |-> NoCheckpoint]
  /\ reply = [w \in Runs |-> NoReply]
  /\ enqueued = {}
  /\ resume = [r \in Resumes |-> "new"]
  /\ request = [r \in Resumes |-> NoRequest]
  /\ seen = [r \in Resumes |-> [version |-> 0, checkpoint |-> NoCheckpoint]]
  /\ base = [r \in Resumes |-> NoCheckpoint]
  /\ answer = [r \in Resumes |-> NoReply]

-----------------------------------------------------------------------------
(***************************************************************************)
(* run_workflow                                                            *)
(***************************************************************************)

\* graph.invoke on a thread with checkpoints: the channels the input does not
\* set keep what the thread's last checkpoint holds, and a checkpoint of the
\* input is written before the first node.
StartRun(w) ==
  /\ run[w] = "new"
  /\ run' = [run EXCEPT ![w] = "graph"]
  /\ memory' = [memory EXCEPT ![w] = [Latest EXCEPT !.writer = w]]
  /\ log' = Append(log, [Latest EXCEPT !.writer = w])
  /\ UNCHANGED <<reply, enqueued, resumeVars>>

\* The channels after propose_tools and the nodes around it.
Propose(w, tools) ==
  [memory[w] EXCEPT !.request = TRUE, !.tools = tools]

\* Faulty variant: the graph's last writes are not in a checkpoint yet when it
\* returns.
RunGraphUnsaved(w) ==
  /\ run[w] \in {"graph", "abandoned"}
  /\ \E tools \in Proposals : memory' = [memory EXCEPT ![w] = Propose(w, tools)]
  /\ log' = Append(log, memory[w])
  /\ run' = [run EXCEPT ![w] = IF @ = "graph" THEN "ran" ELSE "over"]
  /\ UNCHANGED <<reply, enqueued, resumeVars>>

RunGraph(w) ==
  /\ run[w] \in {"graph", "abandoned"}
  /\ \E tools \in Proposals :
       /\ memory' = [memory EXCEPT ![w] = Propose(w, tools)]
       /\ log' = Append(log, memory'[w])
  /\ run' = [run EXCEPT ![w] = IF @ = "graph" THEN "ran" ELSE "over"]
  /\ UNCHANGED <<reply, enqueued, resumeVars>>

\* A provider error, a cancellation, or the timeout of _invoke_graph, after which
\* the graph runs on: the answer names no checkpoint.
RunFails(w) ==
  /\ run[w] = "graph"
  /\ \E place \in {"over", "abandoned"} : run' = [run EXCEPT ![w] = place]
  /\ reply' = [reply EXCEPT ![w].status = "failed"]
  /\ UNCHANGED <<log, memory, enqueued, resumeVars>>

\* _enqueue_proposals, when the graph returns.
EnqueueProposals(w) ==
  /\ run[w] = "ran"
  /\ enqueued' = IF QueueEnabled THEN enqueued \cup memory[w].tools ELSE enqueued
  /\ run' = [run EXCEPT ![w] = "reporting"]
  /\ UNCHANGED <<log, memory, reply, resumeVars>>

Status(tools) == IF tools = {} THEN "ready" ELSE "requires_action"

\* The contract is read from the thread, the proposals from the graph's result.
RespondRun(w) ==
  /\ run[w] = "reporting"
  /\ reply' = [reply EXCEPT ![w] =
       [status |-> Status(memory[w].tools), version |-> Version,
        tools |-> memory[w].tools]]
  /\ run' = [run EXCEPT ![w] = "over"]
  /\ UNCHANGED <<log, memory, enqueued, resumeVars>>

-----------------------------------------------------------------------------
(***************************************************************************)
(* resume_workflow                                                         *)
(***************************************************************************)

\* The versions of the contracts the backend holds.
Known == {reply[w].version : w \in Runs} \cup {answer[r].version : r \in Resumes}

Goto(r, place) == resume' = [resume EXCEPT ![r] = place]

Reject(r, status) ==
  /\ Goto(r, "over")
  /\ answer' = [answer EXCEPT ![r].status = status]

\* The backend sends a resume: with a version it was told, and decisions,
\* execution id and approval id that may or may not be those of the run.  (An id
\* bound to another version is a foreign one.)
SendResume(r) ==
  /\ resume[r] = "new"
  /\ \E v \in Known, d \in Decisions, n \in {"run", "other", "other_approval"} :
       request' = [request EXCEPT ![r] = [expected |-> v, decisions |-> d, names |-> n]]
  /\ Goto(r, "sent")
  /\ UNCHANGED <<log, runVars, seen, base, answer>>

\* _resume_execution_id_matches: the run's own id, or the same id bound to the
\* expected version.
ExecutionIdMatches(r) == request[r].names # "other"

\* The snapshot, and the checks on the request it holds.
ReadSnapshot(r) ==
  /\ resume[r] = "sent"
  /\ \/ /\ Latest.request /\ ExecutionIdMatches(r)
        /\ seen' = [seen EXCEPT ![r] = [version |-> Version, checkpoint |-> Latest]]
        /\ Goto(r, "comparing")
        /\ UNCHANGED answer
     \/ /\ ~Latest.request \/ ~ExecutionIdMatches(r)
        /\ Reject(r, "conflict")
        /\ UNCHANGED seen
  /\ UNCHANGED <<log, runVars, request, base>>

\* Faulty variants: a version that is older than the checkpoint is accepted; a
\* tool may be decided twice.
VersionNotAhead(r) == request[r].expected <= Version

CoversRepeatedly(decisions, tools) ==
  /\ tools # {}
  /\ Len(decisions) = Cardinality(tools)
  /\ Range(decisions) \subseteq tools

\* checkpoint_version == expected_checkpoint_version
VersionMatches(r) == request[r].expected = Version

\* _validate_resume_decisions: one decision for each pending tool.
Covers(decisions, tools) ==
  /\ tools # {}
  /\ Len(decisions) = Cardinality(tools)
  /\ Range(decisions) \subseteq tools
  /\ IsInjective(decisions)

\* _pending_approval of the snapshot's proposals against the request.
DecisionsFit(r) ==
  /\ request[r].names # "other_approval"
  /\ Covers(request[r].decisions, seen[r].checkpoint.tools)

\* The version is that of a second read; the proposals are those of the first.
Compare(r) ==
  /\ resume[r] = "comparing"
  /\ \/ VersionMatches(r) /\ DecisionsFit(r) /\ Goto(r, "updating") /\ UNCHANGED answer
     \/ ~VersionMatches(r) /\ Reject(r, "version_conflict")
     \/ VersionMatches(r) /\ ~DecisionsFit(r) /\ Reject(r, "conflict")
  /\ UNCHANGED <<log, runVars, request, seen, base>>

\* update_state: the latest checkpoint is read once more ...
ReadBase(r) ==
  /\ resume[r] = "updating"
  /\ base' = [base EXCEPT ![r] = Latest]
  /\ Goto(r, "writing")
  /\ UNCHANGED <<log, runVars, request, seen, answer>>

\* ... and written again with the decisions, as if approval_gate had run.
WriteDecisions(r) ==
  /\ resume[r] = "writing"
  /\ log' = Append(log, Checkpoint(r, base[r].request, base[r].tools,
                                   request[r].decisions))
  /\ Goto(r, "reporting")
  /\ UNCHANGED <<runVars, request, seen, base, answer>>

\* Faulty variant: the answer names the version the request expected.
RespondOldVersion(r) ==
  /\ resume[r] = "reporting"
  /\ answer' = [answer EXCEPT ![r] = [status |-> Status({}),
                                      version |-> request[r].expected, tools |-> {}]]
  /\ Goto(r, "over")
  /\ UNCHANGED <<log, runVars, request, seen, base>>

\* The second contract; the response carries no proposals.
RespondResume(r) ==
  /\ resume[r] = "reporting"
  /\ answer' = [answer EXCEPT ![r] = [status |-> Status({}), version |-> Version,
                                      tools |-> {}]]
  /\ Goto(r, "over")
  /\ UNCHANGED <<log, runVars, request, seen, base>>

-----------------------------------------------------------------------------
RunStep(w) == StartRun(w) \/ RunGraph(w) \/ RunFails(w) \/ EnqueueProposals(w)
                \/ RespondRun(w)

ResumeStep(r) == ReadSnapshot(r) \/ Compare(r) \/ ReadBase(r) \/ WriteDecisions(r)
                   \/ RespondResume(r)

Next ==
  \/ \E w \in Runs : RunStep(w)
  \/ \E r \in Resumes : SendResume(r) \/ ResumeStep(r)

Spec == Init /\ [][Next]_vars

-----------------------------------------------------------------------------
(***************************************************************************)
(* Properties                                                              *)
(***************************************************************************)
WrittenBy(i, r) == log[i].writer = r

\* The decisions that reach a checkpoint are one for each tool that was pending
\* at the version the reviewer was shown, whatever other calls did meanwhile
\* (the checks of resume_workflow on two reads of the thread).
DecisionsCoverShownTools ==
  \A i \in DOMAIN log, r \in Resumes : WrittenBy(i, r) =>
    /\ request[r].expected \in DOMAIN log
    /\ Len(request[r].decisions) = Cardinality(log[request[r].expected].tools)
    /\ Range(request[r].decisions) = log[request[r].expected].tools

\* A version is resumed twice only by calls that overlap: the second one has
\* read the thread before the decisions of the first were written.
ResumedOnceUnlessConcurrent ==
  \A i, j \in DOMAIN log, q, r \in Resumes :
    (i < j /\ WrittenBy(i, q) /\ WrittenBy(j, r)
       /\ request[q].expected = request[r].expected)
      => seen[r].version < i

\* The version of a resume's answer is that of its decisions or of a later
\* checkpoint, so it can never be mistaken for the one before the approval.
AnswerIsNotOlderThanDecisions ==
  \A r \in Resumes : answer[r].status = "ready" =>
    \E i \in 1 .. answer[r].version : WrittenBy(i, r)

\* The last checkpoint of a call.
LastOf(i, a) == WrittenBy(i, a) /\ \A j \in DOMAIN log : j > i => ~WrittenBy(j, a)

\* The proposals of a run's answer come from its graph, the version from the thread,
\* where others may have written in between.  The version still covers the run's
\* last checkpoint, which holds exactly those proposals, and if it is another
\* call's, with other tools, no decisions on the answer's tools are ever accepted
\* for it: what the reviewer was asked about is what resume_workflow compares.
AnswerNamesItsProposals ==
  \A w \in Runs : LET v == reply[w].version IN v > 0 =>
    /\ \E i \in 1 .. v : LastOf(i, w) /\ log[i].tools = reply[w].tools
    /\ \A j \in DOMAIN log, r \in Resumes :
         WrittenBy(j, r) /\ request[r].expected = v
           /\ Range(request[r].decisions) = reply[w].tools
         => log[v].tools = reply[w].tools

\* The queue is given approved writes only: "approved write-tool proposals
\* produced by a workflow run are enqueued".
WritesFollowApproval ==
  enqueued \subseteq UNION {Range(log[i].decided) : i \in DOMAIN log}
=============================================================================

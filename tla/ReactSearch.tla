----------------------------- MODULE ReactSearch -------------------------------
(***************************************************************************)
(* bounded_react_search (nodes/synthesis.py): the loop in which the        *)
(* searcher and the risk analyst ask the Go tool bridge for evidence, with *)
(* its early termination, and what the harness makes of a role's trace     *)
(* (orchestration/harness.py).  It follows the retrieval of RetrievalLoop, *)
(* whose reranked chunks it starts from, and makes its calls as RetryCall  *)
(* describes.                                                              *)
(*                                                                         *)
(* In a parallel group the searcher runs on a thread of its own and a      *)
(* sibling's failure sets the group's event at any moment                  *)
(* (WorkflowGraph.tla).  The scores are exact: goal_score is counted in    *)
(* units of 1/100000, evidence_sufficiency in 1/3000, citation_coverage in *)
(* 1/6000 and the round confidence in 1/100000.  Citable chunks have       *)
(* different snippets, so there are as many snippets as citations.         *)
(***************************************************************************)
EXTENDS RetrievalLoop

CONSTANTS
  RiskText,       \* chunks whose snippet has one of the risk keywords
  IterationCaps,  \* values of request.max_iterations for the role; 0: none
  LoopMaxSteps,   \* loop_max_steps (5)
  GoalThreshold   \* early_termination_goal_threshold in thousandths (700)

ASSUME SearchAssumption ==
  /\ RiskText \subseteq Chunks
  /\ IterationCaps \subseteq Nat
  /\ LoopMaxSteps \in Nat
  /\ GoalThreshold \in 0..1000

VARIABLES
  search,  \* the state of the loop
  cancel,  \* branch_cancel_event is set
  late,    \* attempts begun after that, for the properties
  loop     \* the role's LoopTrace: budget and stop reason

searchVars == <<search, cancel, late, loop>>
evidenceVars == <<retrievalVars, searchVars>>

NoSearch ==
  [role |-> "none", cap |-> 0, early |-> FALSE, grouped |-> FALSE,
   iteration |-> 0, found |-> 0, cited |-> {}, rounds |-> <<>>, failed |-> {},
   end |-> ""]
NoLoop == [max |-> 0, used |-> 0, stop |-> ""]

EvidenceInit ==
  /\ RetrievalInit
  /\ search = NoSearch
  /\ cancel = FALSE
  /\ late = 0
  /\ loop = NoLoop

At(n) == node = n /\ call = NoCall
KeepRetrieval ==
  UNCHANGED <<configured, request, plan, attempts, gathered, selected, context,
              sufficient>>

-----------------------------------------------------------------------------
\* A role's search begins.  Of the retrieval only the chunks and the preset
\* are read again; the rest is forgotten.
StartRole ==
  /\ At("decompose")
  /\ node' = "search"
  /\ \E role \in {"searcher", "risk_analyst"}, cap \in IterationCaps,
        early, grouped \in BOOLEAN :
       /\ role = "risk_analyst" => ~grouped
       /\ search' = [NoSearch EXCEPT !.role = role, !.cap = cap,
                                     !.early = early, !.grouped = grouped]
  /\ request' = [CHOOSE r \in Requests : TRUE EXCEPT !.preset = request.preset]
  /\ plan' = <<>>
  /\ attempts' = <<>>
  /\ gathered' = {}
  /\ sufficient' = FALSE
  /\ UNCHANGED <<configured, call, selected, context, cancel, late, loop>>

DefaultCap == IF search.role = "searcher" THEN 3 ELSE 2
RequestedCap == IF search.cap = 0 THEN DefaultCap ELSE search.cap

\* max_iterations, clamped to 1..3
Iterations == Least(RequestedCap, 3)

\* Faulty variant: the branch's event is not passed on.
NeverStops == FALSE

\* _check_cancelled: no deadline is bound to the thread, so the branch's event
\* is all there is.
MustStop == cancel

\* select_chunks
Selectable ==
  LET transcripts == {c \in context : TypeOf[c] = "meeting_transcript"}
      risky == IF search.role = "risk_analyst" THEN context \cap RiskText ELSE {}
      preferred == IF risky # {} THEN risky
                   ELSE IF transcripts # {} THEN transcripts ELSE context
  IN  AtMost(IF search.iteration = 1 THEN 5 ELSE 4, preferred)

-----------------------------------------------------------------------------
(***************************************************************************)
(* Early termination                                                       *)
(***************************************************************************)
Has(s, type) == type \in TypesOf(s.cited)
If(condition, points) == IF condition THEN points ELSE 0

\* _compute_goal_achievement
GoalScore(s) ==
  LET types == TypesOf(s.cited)
      bonus == IF s.role = "risk_analyst"
                 THEN If(Has(s, "meeting_transcript"), 200)
                        + If(types \cap {"conversation", "message"} # {}, 100)
                 ELSE If(Has(s, "knowledge"), 150)
                        + If(Has(s, "meeting_transcript"), 150)
  IN  (Least(s.found, 5) * 80 + Least(Cardinality(types), 4) * 50 + bonus)
        * (100 - 15 * (s.iteration - 1))

\* _compute_evidence_sufficiency and _compute_citation_coverage against their
\* thresholds of 0.8
EvidenceSuffices(s) == Least(s.found, 3) * 600 + Least(s.found, 3) * 400 >= 2400
CoverageSuffices(s) ==
  (Least(s.found, 3) + Least(Cardinality(TypesOf(s.cited)), 3)) * 1000 >= 4800
GoalReached(s) == GoalScore(s) >= GoalThreshold * 100

\* should_terminate_early; the roles before this one are complete, and no node
\* before it sets unresolved_approval or safety_blocked.
QualityGate(s) == EvidenceSuffices(s) /\ CoverageSuffices(s) /\ GoalReached(s)

\* _compute_round_confidence
RoundConfidence(s) ==
  LET base == 350 + s.found * 100 + If(Has(s, "meeting_transcript"), 150)
                + If(Has(s, "knowledge"), 100)
  IN  Least(base * <<100, 90, 81>>[s.iteration], 95000)

\* The last two rounds differ by less than 0.05.
Plateau(s) ==
  LET n == Len(s.rounds)
      a == s.rounds[n]
      b == s.rounds[n - 1]
  IN  n >= 2 /\ a - b < 5000 /\ b - a < 5000

\* _inline_checkagent_should_stop
InlineCheckStops(s) ==
  LET types == TypesOf(s.cited)
  IN  /\ s.cited # {}
      /\ request.preset = "risk_review" =>
           types \cap {"meeting_transcript", "conversation", "message"} # {}
      /\ request.preset = "meeting_brief" => "meeting_transcript" \in types
      /\ s.found >= 3 /\ Cardinality(types) >= 2

\* How an iteration leaves the loop; "" goes on.
Trigger(s) ==
  LET gate == s.early /\ QualityGate(s)
  IN  CASE gate /\ GoalReached(s) -> "goal_achieved"
        [] gate /\ ~GoalReached(s) /\ Plateau(s) -> "confidence_plateau"
        [] gate /\ ~GoalReached(s) /\ ~Plateau(s) /\ s.iteration >= 2
             /\ InlineCheckStops(s) -> "checkagent_early_stop"
        [] OTHER ->
             IF s.role = "searcher" /\ s.iteration >= 2 /\ s.found > 0
               THEN "citation_satisfied"
             ELSE IF s.iteration = Iterations THEN "max_iterations" ELSE ""

\* What an iteration has found is noted and the loop is left or goes on.
Observe(chunks, failed) ==
  LET cites == chunks \cap Citable
      s == [search EXCEPT !.found = @ + Cardinality(cites),
                          !.cited = @ \cup cites,
                          !.failed = IF failed THEN @ \cup {search.iteration}
                                     ELSE @]
      r == [s EXCEPT !.rounds = IF s.early THEN Append(@, RoundConfidence(s))
                                ELSE @]
  IN  /\ search' = [r EXCEPT !.end = Trigger(r)]
      /\ node' = IF Trigger(r) = "" THEN "search" ELSE "respond"

-----------------------------------------------------------------------------
(***************************************************************************)
(* The loop                                                                *)
(***************************************************************************)
\* ExecutionCancelled leaves the search without a result.
SearchCancelled ==
  /\ search' = [search EXCEPT !.end = "cancelled"]
  /\ node' = "END"

\* The top of an iteration, with the check there and the one before the call.
BeginIteration ==
  /\ At("search")
  /\ IF MustStop
       THEN SearchCancelled
       ELSE /\ search' = [search EXCEPT !.iteration = @ + 1]
            /\ node' = "tool_call"
  /\ KeepRetrieval
  /\ UNCHANGED <<call, cancel, late, loop>>

SendRequest ==
  /\ At("tool_call")
  /\ "tool_bridge" \in configured
  /\ Request("tool_bridge")
  /\ node' = "tool_answer"
  /\ late' = IF cancel THEN late + 1 ELSE late
  /\ KeepRetrieval
  /\ UNCHANGED <<search, cancel, loop>>

SearchRetries ==
  /\ node = "tool_answer"
  /\ Retry
  /\ late' = IF cancel THEN late + 1 ELSE late
  /\ KeepRetrieval
  /\ UNCHANGED <<node, search, cancel, loop>>

\* The bridge answers: the check after the call, then its chunks or, without
\* any, those of the context.
ToolAnswers ==
  /\ node = "tool_answer"
  /\ EndCall
  /\ IF MustStop
       THEN SearchCancelled
       ELSE \E reply \in Replies, local \in Selectable :
              Observe(IF reply = {} THEN local ELSE reply, FALSE)
  /\ KeepRetrieval
  /\ UNCHANGED <<cancel, late, loop>>

\* A ToolBridgeError leaves out the check after the call.
ToolFails ==
  /\ node = "tool_answer"
  /\ EndCall
  /\ \E local \in Selectable : Observe(local, TRUE)
  /\ KeepRetrieval
  /\ UNCHANGED <<cancel, late, loop>>

\* The client is not configured and returns None.
NoToolAnswer ==
  /\ At("tool_call")
  /\ "tool_bridge" \notin configured
  /\ IF MustStop THEN SearchCancelled
                 ELSE \E local \in Selectable : Observe(local, FALSE)
  /\ KeepRetrieval
  /\ UNCHANGED <<call, cancel, late, loop>>

SiblingFails ==
  /\ search.grouped
  /\ search.end = ""
  /\ ~cancel
  /\ cancel' = TRUE
  /\ KeepRetrieval
  /\ UNCHANGED <<node, call, search, late, loop>>

-----------------------------------------------------------------------------
(***************************************************************************)
(* The harness's view of the search                                        *)
(***************************************************************************)
\* _role_max_steps, at least 1
RoleMaxSteps == IF LoopMaxSteps = 0 THEN 1 ELSE Least(RequestedCap, LoopMaxSteps)

\* _loop_stop_reason; a step has confidence 0.6 with two citations.
LoopStop ==
  IF search.failed # {} THEN "tool_error"
  ELSE IF search.iteration >= RoleMaxSteps THEN "max_iterations"
  ELSE IF Cardinality(search.cited) >= 2 THEN "confidence_reached"
  ELSE "completed"

Respond ==
  /\ At("respond")
  /\ loop' = [max |-> RoleMaxSteps, used |-> search.iteration, stop |-> LoopStop]
  /\ node' = "END"
  /\ KeepRetrieval
  /\ UNCHANGED <<call, search, cancel, late>>

Ended == node = "END" /\ UNCHANGED evidenceVars

EvidenceNext ==
  \/ RetrievalNext /\ UNCHANGED searchVars
  \/ StartRole \/ BeginIteration \/ SendRequest \/ SearchRetries
  \/ ToolAnswers \/ ToolFails \/ NoToolAnswer
  \/ SiblingFails \/ Respond \/ Ended

EvidenceSpec == EvidenceInit /\ [][EvidenceNext]_evidenceVars

-----------------------------------------------------------------------------
(***************************************************************************)
(* Properties                                                              *)
(***************************************************************************)
\* No service's failure takes the evidence from a request that carries
\* chunks: an attempt without hits is one the bridge answered with nothing.
FallbackKeepsEvidence ==
  request.chunks # {} =>
    \A i \in DOMAIN attempts : attempts[i].hit \/ attempts[i].via = "tool_bridge"

\* What the run is billed for stays within what it was given: the retrieval
\* within its max_steps, although its plan may be longer, and a role's loop
\* within the budget the harness computes for it independently.
BudgetsRespected ==
  /\ Len(attempts) <= MaxSteps
  /\ loop.used <= loop.max

\* Once its group is cancelled a search begins no more attempts than one call
\* has, however many iterations it has left: the call that was under way, or
\* the one it had decided to make, is its last.
CancelledBranchWindsDown == late <= MaxAttempts
=============================================================================

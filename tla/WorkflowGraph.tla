---------------------------- MODULE WorkflowGraph -----------------------------
(***************************************************************************)
(* One run of the workflow graph (dag.py): retrieval, the agent roles with *)
(* the optional role router and the optional parallel searcher and memory  *)
(* branches (nodes/role_router.py, nodes/parallel_roles.py), the two-tier  *)
(* review with its revision loop (nodes/check.py) and the approval gate.   *)
(*                                                                         *)
(* The graph thread runs one node after the other; only the branches of a  *)
(* parallel group run beside it.  Texts are abstracted to what the checks  *)
(* ask of them: whether a result carries citations and risk flags, and     *)
(* whether every claim of the summary is supported.  A graph on a pool     *)
(* thread has no deadline (RequestLifecycle.tla), so nodes are not         *)
(* cancelled here.                                                         *)
(***************************************************************************)
EXTENDS Naturals, Sequences, FiniteSets

CONSTANTS
  MaxQualityRetries,  \* max_quality_retries
  Estimate,           \* estimate_role_tokens of the two parallel roles
  Budgets             \* the values of parallel_role_token_budget considered

RoleOrder == <<"searcher", "memory_agent", "synthesize", "risk_analyst">>
Roles == {RoleOrder[i] : i \in DOMAIN RoleOrder}
ParallelRoles == {"searcher", "memory_agent"}   \* PARALLEL_ELIGIBLE_ROLES

ASSUME GraphAssumption ==
  /\ MaxQualityRetries \in Nat
  /\ Estimate \in [ParallelRoles -> Nat]
  /\ Budgets \subseteq Nat

VARIABLES
  settings,   \* enable_role_router, enable_parallel_roles, the token budget
  request,    \* preset, routed intent, whether write tools are allowed
  node,       \* the node to run next; "END"; "FAILED" once a node has raised
  evidence,   \* evidence_pack (does it cite anything) and context_sufficiency
  allocation, \* role_allocation.roles; empty while it is None
  results,    \* role_results
  merged,     \* what merge keeps of them: citations and risk_flags
  grounded,   \* grounding_check_result
  proposals,  \* proposed_tool_calls
  critic,     \* critic_result
  retries,    \* critic_retries
  output,     \* output_decision
  mode,       \* how parallel_roles executes its group
  branch,     \* the state of each branch
  delta,      \* the result each branch has computed
  collected,  \* the roles whose deltas the graph thread has, as they arrived
  reserved,   \* the roles that hold a share of the GroupReservation
  cancel      \* the group's cancel_event

groupVars == <<mode, branch, delta, collected, reserved, cancel>>
reviewVars == <<proposals, critic, retries, output>>
vars == <<settings, request, node, evidence, allocation, results, merged,
          grounded, reviewVars, groupVars>>

-----------------------------------------------------------------------------
(***************************************************************************)
(* Requests and role allocation                                            *)
(***************************************************************************)
Presets == {"meeting_brief", "react_general", "risk_review",
            "follow_up_planner", "context_qa"}

\* route_request_intent: two presets fix the intent, the text decides otherwise.
IntentsOf(preset) ==
  CASE preset = "risk_review" -> {"risk"}
    [] preset = "context_qa" -> {"consult"}
    [] OTHER -> {"chat", "consult", "risk"}

PresetRoles(preset) ==
  CASE preset = "meeting_brief" -> Roles
    [] preset = "risk_review" -> Roles \ {"memory_agent"}
    [] preset = "context_qa" -> {"searcher", "synthesize"}
    [] OTHER -> Roles \ {"risk_analyst"}

\* Faulty variant: the intent alone adds the risk analyst.
RiskOnIntentOnly == request.intent = "risk"

\* The router's other conditions (unresolved_approval, safety_blocked and
\* risk_flags) are set by no node before it.
RiskIsMandatory ==
  \/ request.preset = "risk_review"
  \/ request.intent = "risk"
  \/ request.writes

\* The canonical order, restricted to a set of roles.
OrderedSubset(S) ==
  LET at(i) == IF RoleOrder[i] \in S THEN <<RoleOrder[i]>> ELSE <<>>
  IN  at(1) \o at(2) \o at(3) \o at(4)

\* The refinement of the "chat" intent applies to lists of more than three
\* roles, which its two presets never have.
RefinedRoles ==
  LET roles == PresetRoles(request.preset)
                 \cup (IF request.intent = "risk" THEN {"risk_analyst"} ELSE {})
  IN  IF /\ request.intent = "chat"
         /\ request.preset \in {"react_general", "follow_up_planner"}
         /\ Cardinality(roles) > 3
        THEN roles \cap {"searcher", "synthesize"}
        ELSE roles

AllocatedRoles ==
  OrderedSubset(RefinedRoles
                  \cup (IF RiskIsMandatory THEN {"risk_analyst"} ELSE {}))

\* The static chain is the canonical order.
RoleList == IF allocation = <<>> THEN RoleOrder ELSE allocation

\* next_role_after, with its "merge" when no role is left.
NextRoleAfter(role) ==
  LET later == {i \in DOMAIN RoleList :
                  i > 1 /\ RoleList[i - 1] = role}
  IN  IF later = {} THEN "merge" ELSE RoleList[CHOOSE i \in later : TRUE]

RouteFirst(roles) ==
  IF settings.parallel /\ ParallelRoles \subseteq {roles[i] : i \in DOMAIN roles}
    THEN "parallel_roles"
    ELSE roles[1]

-----------------------------------------------------------------------------
NoDelta == [role |-> "none", cited |-> FALSE, flagged |-> FALSE]

Init ==
  /\ settings \in [router : BOOLEAN, parallel : BOOLEAN, budget : Budgets]
  /\ request \in [preset : Presets, intent : {"none"}, writes : BOOLEAN]
  /\ node = "collect_context"
  /\ evidence = [cited |-> FALSE, sufficient |-> FALSE]
  /\ allocation = <<>>
  /\ results = <<>>
  /\ merged = [cited |-> FALSE, flagged |-> FALSE]
  /\ grounded = TRUE
  /\ proposals = {}
  /\ critic = [passed |-> FALSE, grounded |-> TRUE, sufficient |-> FALSE]
  /\ retries = 0
  /\ output = [verdict |-> "accept", l1 |-> "", l2 |-> "", revisions |-> 0]
  /\ mode = "idle"
  /\ branch = [r \in ParallelRoles |-> "none"]
  /\ delta = [r \in ParallelRoles |-> NoDelta]
  /\ collected = <<>>
  /\ reserved = {}
  /\ cancel = FALSE

At(n) == node = n /\ mode = "idle"

(***************************************************************************)
(* collect_context .. evidence_pack: planning routes the intent, and the   *)
(* reranked chunks either can be cited or cannot.                          *)
(***************************************************************************)
Retrieve ==
  /\ At("collect_context")
  /\ node' = "sufficiency_gate"
  /\ \E intent \in IntentsOf(request.preset), cited \in BOOLEAN :
       /\ request' = [request EXCEPT !.intent = intent]
       /\ evidence' = [evidence EXCEPT !.cited = cited]
  /\ UNCHANGED <<settings, allocation, results, merged, grounded, reviewVars,
                 groupVars>>

\* evaluate_context_sufficiency: no citation, no sufficiency; the source types
\* and the confidence may still be wanting.
SufficiencyGate ==
  /\ At("sufficiency_gate")
  /\ node' = "decompose"
  /\ \E sufficient \in {FALSE, evidence.cited} :
       evidence' = [evidence EXCEPT !.sufficient = sufficient]
  /\ UNCHANGED <<settings, request, allocation, results, merged, grounded,
                 reviewVars, groupVars>>

Decompose ==
  /\ At("decompose")
  /\ node' = IF settings.router THEN "role_router" ELSE "searcher"
  /\ UNCHANGED <<settings, request, evidence, allocation, results, merged,
                 grounded, reviewVars, groupVars>>

RouteRoles ==
  /\ At("role_router")
  /\ allocation' = AllocatedRoles
  /\ node' = RouteFirst(AllocatedRoles)
  /\ UNCHANGED <<settings, request, evidence, results, merged, grounded,
                 reviewVars, groupVars>>

-----------------------------------------------------------------------------
(***************************************************************************)
(* The roles.  A search cites what the context or the tool bridge gives    *)
(* it; memory chunks and the synthesis cite the reranked context only.     *)
(***************************************************************************)
Result(role, cited, flagged) == [role |-> role, cited |-> cited, flagged |-> flagged]

SearchResults == {Result("searcher", cited, FALSE) : cited \in BOOLEAN}

MemoryResults ==
  {Result("memory_agent", cited, FALSE) : cited \in {FALSE, evidence.cited}}

SynthesisResults == {Result("synthesize", evidence.cited, FALSE)}

\* Flags come from the snippets found and from the context.
RiskResults ==
  {Result("risk_analyst", cited, flagged) : cited, flagged \in BOOLEAN}

ResultsOf(role) ==
  CASE role = "searcher" -> SearchResults
    [] role = "memory_agent" -> MemoryResults
    [] role = "synthesize" -> SynthesisResults
    [] role = "risk_analyst" -> RiskResults

RunRole(role) ==
  /\ At(role)
  /\ role \in Roles
  /\ \E r \in ResultsOf(role) : results' = Append(results, r)
  /\ node' = NextRoleAfter(role)
  /\ UNCHANGED <<settings, request, evidence, allocation, merged, grounded,
                 reviewVars, groupVars>>

\* A ProviderError from the synthesis, which calls the provider only with
\* sufficient context: the run is answered with a failure response.
ProviderFails ==
  /\ At("synthesize")
  /\ evidence.sufficient
  /\ node' = "FAILED"
  /\ UNCHANGED <<settings, request, evidence, allocation, results, merged,
                 grounded, reviewVars, groupVars>>

-----------------------------------------------------------------------------
(***************************************************************************)
(* execute_parallel_roles: both roles at once when the token budget holds  *)
(* both, one after the other otherwise.                                    *)
(***************************************************************************)
TokensOf(S) == (IF "searcher" \in S THEN Estimate["searcher"] ELSE 0)
                 + (IF "memory_agent" \in S THEN Estimate["memory_agent"] ELSE 0)

\* Faulty variant: acquire does not look at the budget.
FitsAlways(role) == TRUE

\* GroupReservation.acquire
Fits(role) == TokensOf(reserved) + Estimate[role] <= settings.budget

InGroup(m) == node = "parallel_roles" /\ mode = m
graphVars == <<settings, request, evidence, allocation, results, merged,
               grounded, reviewVars>>

SubmitBoth ==
  /\ InGroup("idle")
  /\ TokensOf(ParallelRoles) <= settings.budget
  /\ mode' = "parallel"
  /\ reserved' = ParallelRoles
  /\ branch' = [r \in ParallelRoles |-> "submitted"]
  /\ UNCHANGED <<graphVars, node, delta, collected, cancel>>

RunInTurn ==
  /\ InGroup("idle")
  /\ TokensOf(ParallelRoles) > settings.budget
  /\ mode' = "sequential"
  /\ UNCHANGED <<graphVars, node, branch, delta, collected, reserved, cancel>>

\* The next role of the sequential loop, once the one before it is collected.
Due(role) ==
  /\ branch[role] = "none"
  /\ role = "searcher" \/ branch["searcher"] = "collected"

AcquireInTurn(role) ==
  /\ InGroup("sequential")
  /\ Due(role)
  /\ Fits(role)
  /\ reserved' = reserved \cup {role}
  /\ branch' = [branch EXCEPT ![role] = "running"]
  /\ UNCHANGED <<graphVars, node, mode, delta, collected, cancel>>

\* GroupBudgetExceeded leaves the node; its finally releases the reservation.
BudgetExceeded(role) ==
  /\ InGroup("sequential")
  /\ Due(role)
  /\ ~Fits(role)
  /\ reserved' = {}
  /\ mode' = "idle"
  /\ node' = "FAILED"
  /\ UNCHANGED <<graphVars, branch, delta, collected, cancel>>

\* A pool thread takes the branch; one that finds the event set raises.
BranchStarts(role) ==
  /\ branch[role] = "submitted"
  /\ branch' = [branch EXCEPT ![role] = IF cancel THEN "raised" ELSE "running"]
  /\ UNCHANGED <<graphVars, node, mode, delta, collected, reserved, cancel>>

\* The role's work ends: with a result, or, once the group is cancelled, with
\* ExecutionCancelled.
BranchReturns(role) ==
  /\ branch[role] = "running"
  /\ IF cancel
       THEN /\ branch' = [branch EXCEPT ![role] = "raised"]
            /\ UNCHANGED delta
       ELSE /\ branch' = [branch EXCEPT ![role] = "returned"]
            /\ \E r \in ResultsOf(role) : delta' = [delta EXCEPT ![role] = r]
  /\ UNCHANGED <<graphVars, node, mode, collected, reserved, cancel>>

BranchRaises(role) ==
  /\ branch[role] = "running"
  /\ branch' = [branch EXCEPT ![role] = "raised"]
  /\ UNCHANGED <<graphVars, node, mode, delta, collected, reserved, cancel>>

\* as_completed hands over a result: release_role, deltas.append.
Collect(role) ==
  /\ mode \in {"parallel", "sequential"}
  /\ branch[role] = "returned"
  /\ branch' = [branch EXCEPT ![role] = "collected"]
  /\ collected' = Append(collected, role)
  /\ reserved' = reserved \ {role}
  /\ UNCHANGED <<graphVars, node, mode, delta, cancel>>

\* ... or an exception: the event is set first,
CollectFailure(role) ==
  /\ mode \in {"parallel", "sequential"}
  /\ branch[role] = "raised"
  /\ cancel' = TRUE
  /\ mode' = "cancelling"
  /\ UNCHANGED <<graphVars, node, branch, delta, collected, reserved>>

\* then the futures are cancelled (which stops only those that have not
\* started),
CancelFutures ==
  /\ InGroup("cancelling")
  /\ branch' = [r \in ParallelRoles |->
                  IF branch[r] = "submitted" THEN "cancelled" ELSE branch[r]]
  /\ mode' = "waiting"
  /\ UNCHANGED <<graphVars, node, delta, collected, reserved, cancel>>

\* Faulty variant: the group waits until every branch has ended, as the
\* context manager of the executor would.
GiveUpWhenDone ==
  /\ InGroup("waiting")
  /\ \A r \in ParallelRoles : branch[r] # "running"
  /\ collected' = <<>>
  /\ reserved' = {}
  /\ mode' = "idle"
  /\ node' = "FAILED"
  /\ UNCHANGED <<graphVars, branch, delta, cancel>>

\* and after the grace period, whether or not a branch still runs, the deltas
\* are dropped, the reservation is released and the exception goes on.
GiveUp ==
  /\ InGroup("waiting")
  /\ collected' = <<>>
  /\ reserved' = {}
  /\ mode' = "idle"
  /\ node' = "FAILED"
  /\ UNCHANGED <<graphVars, branch, delta, cancel>>

\* Faulty variant: the deltas are merged as they arrived.
MergeAsArrived == [i \in DOMAIN collected |-> delta[collected[i]]]

\* merge_role_deltas: in canonical order, whatever the order of arrival.
MergeRoleDeltas ==
  LET arrived == {collected[i] : i \in DOMAIN collected}
      order == OrderedSubset(arrived)
  IN  [i \in DOMAIN order |-> delta[order[i]]]

\* The results of roles outside the group, in their order.
OtherResults ==
  LET others == {i \in DOMAIN results : results[i].role \notin ParallelRoles}
      nth(k) == CHOOSE i \in others : Cardinality({j \in others : j <= i}) = k
  IN  [k \in 1 .. Cardinality(others) |-> results[nth(k)]]

\* Faulty variant: the group goes on with what it has when one branch has raised.
FinishGroupPartial ==
  /\ mode \in {"parallel", "sequential"}
  /\ \A r \in ParallelRoles : branch[r] \in {"collected", "raised"}
  /\ \E r \in ParallelRoles : branch[r] = "collected"
  /\ results' = OtherResults \o MergeRoleDeltas
  /\ reserved' = {}
  /\ mode' = "idle"
  /\ node' = NextRoleAfter("memory_agent")
  /\ UNCHANGED <<settings, request, evidence, allocation, merged, grounded,
                 reviewVars, branch, delta, collected, cancel>>

FinishGroup ==
  /\ mode \in {"parallel", "sequential"}
  /\ \A r \in ParallelRoles : branch[r] = "collected"
  /\ results' = OtherResults \o MergeRoleDeltas
  /\ reserved' = {}
  /\ mode' = "idle"
  /\ node' = NextRoleAfter("memory_agent")
  /\ UNCHANGED <<settings, request, evidence, allocation, merged, grounded,
                 reviewVars, branch, delta, collected, cancel>>

-----------------------------------------------------------------------------
(***************************************************************************)
(* merge, grounding_check, memory_reflection, propose_tools, critic_check  *)
(***************************************************************************)
HasResult(P(_)) == \E i \in DOMAIN results : P(results[i])

\* Faulty variant: only the last result's findings are kept.
MergeLast ==
  /\ At("merge")
  /\ node' = "grounding_check"
  /\ LET last == results[Len(results)] IN
       merged' = [cited |-> last.cited, flagged |-> last.flagged]
  /\ UNCHANGED <<settings, request, evidence, allocation, results, grounded,
                 reviewVars, groupVars>>

Merge ==
  /\ At("merge")
  /\ node' = "grounding_check"
  /\ merged' = [cited |-> HasResult(LAMBDA r : r.cited),
                flagged |-> HasResult(LAMBDA r : r.flagged)]
  /\ UNCHANGED <<settings, request, evidence, allocation, results, grounded,
                 reviewVars, groupVars>>

\* check_grounding: one citation is enough; without any, every claim has to be
\* supported (or the check is disabled).
GroundingCheck ==
  /\ At("grounding_check")
  /\ node' = "propose_tools"
  /\ \E supported \in BOOLEAN : grounded' = (merged.cited \/ supported)
  /\ UNCHANGED <<settings, request, evidence, allocation, results, merged,
                 reviewVars, groupVars>>

Proposal(tool) == [tool |-> tool, approval |-> TRUE]

\* workflow_tool_proposals, with the memory write that reflect_and_plan_memory
\* recommends for every sufficient run that has a summary (and all have).
WorkflowToolProposals ==
  CASE request.preset = "context_qa" -> {}
    [] request.preset = "follow_up_planner" ->
         {Proposal("message"), Proposal("task"), Proposal("memory")}
    [] OTHER -> {Proposal("message"), Proposal("memory")}

\* Faulty variant: proposals in spite of insufficient context.
ProposeRegardless ==
  /\ At("propose_tools")
  /\ node' = "critic_check"
  /\ proposals' = WorkflowToolProposals
  /\ UNCHANGED <<settings, request, evidence, allocation, results, merged,
                 grounded, critic, retries, output, groupVars>>

ProposeTools ==
  /\ At("propose_tools")
  /\ node' = "critic_check"
  /\ proposals' = IF evidence.sufficient THEN WorkflowToolProposals ELSE {}
  /\ UNCHANGED <<settings, request, evidence, allocation, results, merged,
                 grounded, critic, retries, output, groupVars>>

\* The retrieval budget is kept by retrieval_loop, which slices the plan.
CriticCheck ==
  /\ At("critic_check")
  /\ node' = "quality_check"
  /\ critic' = [passed |-> grounded /\ \A p \in proposals : p.approval,
                grounded |-> grounded, sufficient |-> evidence.sufficient]
  /\ UNCHANGED <<settings, request, evidence, allocation, results, merged,
                 grounded, proposals, retries, output, groupVars>>

-----------------------------------------------------------------------------
(***************************************************************************)
(* The review: quality_check (L1), safety_check (L2)                       *)
(***************************************************************************)
BudgetSpent == retries >= MaxQualityRetries

QualityDecision ==
  IF BudgetSpent \/ critic.passed THEN "pass"
  ELSE IF ~critic.sufficient THEN "revise"
  ELSE IF ~critic.grounded THEN "escalate"
  ELSE "revise"

\* _accumulate_quality
AccumulateQuality(decision) ==
  [output EXCEPT
     !.l1 = decision,
     !.revisions = IF decision = "revise" THEN @ + 1 ELSE @,
     !.verdict = CASE decision = "escalate" -> "escalate"
                   [] decision = "pass" -> "accept"
                   [] OTHER -> @]

RouteQuality(decision) ==
  IF decision = "revise" THEN "synthesize" ELSE "safety_check"

\* A spent budget passes the draft without an entry in the output decision.
QualityCheck ==
  /\ At("quality_check")
  /\ output' = IF BudgetSpent THEN output ELSE AccumulateQuality(QualityDecision)
  /\ retries' = IF QualityDecision = "revise" THEN retries + 1 ELSE retries
  /\ node' = RouteQuality(QualityDecision)
  /\ UNCHANGED <<settings, request, evidence, allocation, results, merged,
                 grounded, proposals, critic, groupVars>>

SafetyDecision ==
  IF (\E p \in proposals : ~p.approval) \/ merged.flagged
    THEN "escalate"
    ELSE "pass"

SafetyCheck ==
  /\ At("safety_check")
  /\ node' = "approval_gate"
  /\ output' = [output EXCEPT !.l2 = SafetyDecision,
                  !.verdict = IF SafetyDecision = "escalate" THEN "escalate"
                                                             ELSE @]
  /\ UNCHANGED <<settings, request, evidence, allocation, results, merged,
                 grounded, proposals, critic, retries, groupVars>>

\* approval_gate and finalize only trace; the caller of the run waits for the
\* approval, not the graph.
Finalize ==
  /\ At("approval_gate")
  /\ node' = "END"
  /\ UNCHANGED <<graphVars, groupVars>>

-----------------------------------------------------------------------------
NodeStep ==
  \/ Retrieve
  \/ SufficiencyGate
  \/ Decompose
  \/ RouteRoles
  \/ \E role \in Roles : RunRole(role)
  \/ ProviderFails
  \/ Merge
  \/ GroundingCheck
  \/ ProposeTools
  \/ CriticCheck
  \/ QualityCheck
  \/ SafetyCheck
  \/ Finalize

GroupStep ==
  \/ SubmitBoth
  \/ RunInTurn
  \/ \E role \in ParallelRoles :
       \/ AcquireInTurn(role)
       \/ BudgetExceeded(role)
       \/ Collect(role)
       \/ CollectFailure(role)
  \/ CancelFutures
  \/ GiveUp
  \/ FinishGroup

BranchStep(role) == BranchStarts(role) \/ BranchReturns(role) \/ BranchRaises(role)

\* The run is over; a branch that outlived its group may still end.
Ended ==
  /\ node \in {"END", "FAILED"}
  /\ \A r \in ParallelRoles : branch[r] \notin {"submitted", "running"}
  /\ UNCHANGED vars

Next ==
  \/ NodeStep
  \/ GroupStep
  \/ \E role \in ParallelRoles : BranchStep(role)
  \/ Ended

Spec == Init /\ [][Next]_vars

(***************************************************************************)
(* Fairness: the graph thread runs, and branches end, since their loops    *)
(* are bounded and the calls of the tool bridge have timeouts.  Of a       *)
(* branch that is being cancelled nothing is assumed: the grace period is  *)
(* there for one that does not react.                                      *)
(***************************************************************************)
FairSpec ==
  /\ Spec
  /\ WF_vars(NodeStep \/ GroupStep)
  /\ \A role \in ParallelRoles : WF_vars(~cancel /\ BranchStep(role))

-----------------------------------------------------------------------------
(***************************************************************************)
(* Properties                                                              *)
(***************************************************************************)
\* The roles a revision runs again: those from synthesize on.
Revised == OrderedSubset({RoleList[i] : i \in DOMAIN RoleList} \ ParallelRoles)

ExpectedRoles ==
  LET first == Len(RoleList)
      again == Len(Revised)
  IN  [i \in 1 .. first + retries * again |->
         IF i <= first THEN RoleList[i]
                       ELSE Revised[((i - first - 1) % again) + 1]]

AfterRoles == {"merge", "grounding_check", "propose_tools", "critic_check",
               "quality_check", "safety_check", "approval_gate", "END"}

\* When the roles are done, role_results holds the allocated roles once, in
\* canonical order, and those a revision repeats once more per revision: the
\* branches' order of arrival, the skipped roles and the re-entry at
\* synthesize leave no gap, no duplicate and no other order.
ResultsFollowAllocation ==
  node \in AfterRoles => [i \in DOMAIN results |-> results[i].role] = ExpectedRoles

\* No run that needs the risk analyst (required_roles) reaches the approval
\* gate without its result, whatever was routed, skipped, run in parallel or
\* revised.
MandatoryRoleRan ==
  node \in {"approval_gate", "END"} /\
    (request.preset = "risk_review" \/ request.intent = "risk" \/ request.writes)
    => HasResult(LAMBDA r : r.role = "risk_analyst")

\* A risk flag of any pass is escalated at the end, also when a later revision
\* of the same run found none.
FlaggedRunEscalated ==
  node = "END" /\ HasResult(LAMBDA r : r.flagged) => output.verdict = "escalate"

\* With a revision budget, a run that ends "accept" with proposed writes is
\* grounded: the writes of runs whose grounding fails are suppressed or escalated,
\* although a spent budget accepts any draft.  (A budget of 0 is spent from the
\* start: quality_check then passes every draft.)
AcceptedWriteIsGrounded ==
  MaxQualityRetries > 0 /\ node = "END" /\ proposals # {} /\ output.verdict = "accept"
    => grounded

\* Branches that run at the same time fit the token budget together, those a
\* failed group leaves behind included.
RunningWithinBudget ==
  TokensOf({r \in ParallelRoles : branch[r] = "running"}) <= settings.budget

\* A group one of whose branches raised or was cancelled leaves nothing behind:
\* neither its delta nor its sibling's, whichever was collected first, is in
\* role_results, and the run does not go on.  As long as the group runs, exactly
\* the branches it has not collected hold their shares of the reservation, and
\* no group leaves one held (release_role, deltas.clear, release in finally).
FailedGroupLeavesNothing ==
  /\ (\E r \in ParallelRoles : branch[r] \in {"raised", "cancelled"}) =>
       /\ node \in {"parallel_roles", "FAILED"}
       /\ ~HasResult(LAMBDA x : x.role \in ParallelRoles)
  /\ reserved = IF mode = "idle" THEN {}
                ELSE {r \in ParallelRoles : branch[r] \notin {"none", "collected"}}

\* Every run ends: the revision loop is bounded, and a failed group waits for
\* a branch that does not react to its cancellation no longer than the grace
\* period (_cancel_group, executor.shutdown(wait=False)).
EveryRunEnds == <>(node \in {"END", "FAILED"})
=============================================================================

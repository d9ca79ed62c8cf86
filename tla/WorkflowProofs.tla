---------------------------- MODULE WorkflowProofs ----------------------------
(***************************************************************************)
(* Proofs about WorkflowGraph, for every revision budget, every estimate   *)
(* of the parallel roles and every token budget.                           *)
(*                                                                         *)
(* Three invariants, each on top of the one before: GroupInv is about the  *)
(* branches of the parallel group, RolesInv about role_results, ReviewInv  *)
(* about what the nodes after the roles know of them.  LeftoverInv, about  *)
(* what a failed group leaves behind, rests on GroupInv alone.             *)
(***************************************************************************)
EXTENDS WorkflowGraph, SequenceTheorems, FiniteSetTheorems, TLAPS

ResultSet == [role : Roles, cited : BOOLEAN, flagged : BOOLEAN]
BranchStates == {"none", "submitted", "running", "returned", "raised", "cancelled",
                 "collected"}
Modes == {"idle", "parallel", "sequential", "cancelling", "waiting"}

EarlyNodes == {"collect_context", "sufficiency_gate", "decompose", "role_router"}

-----------------------------------------------------------------------------
(***************************************************************************)
(* Role lists                                                              *)
(***************************************************************************)

LEMMA RolesAre == Roles = {"searcher", "memory_agent", "synthesize", "risk_analyst"}
<1>1. DOMAIN RoleOrder = 1 .. 4
  BY DEF RoleOrder
<1>2. 1 .. 4 = {1, 2, 3, 4}
  OBVIOUS
<1>3. /\ RoleOrder[1] = "searcher" /\ RoleOrder[2] = "memory_agent"
      /\ RoleOrder[3] = "synthesize" /\ RoleOrder[4] = "risk_analyst"
  BY DEF RoleOrder
<1> QED
  BY <1>1, <1>2, <1>3 DEF Roles

\* The lists a run may follow.
Basic == <<"searcher", "synthesize">>
WithMemory == <<"searcher", "memory_agent", "synthesize">>
WithRisk == <<"searcher", "synthesize", "risk_analyst">>
WithBoth == <<"searcher", "memory_agent", "synthesize", "risk_analyst">>

RoleLists == {Basic, WithMemory, WithRisk, WithBoth}

LEMMA ListsSpelled ==
  /\ Basic \in Seq(Roles) /\ Len(Basic) = 2
  /\ Basic[1] = "searcher" /\ Basic[2] = "synthesize"
  /\ WithMemory \in Seq(Roles) /\ Len(WithMemory) = 3
  /\ WithMemory[1] = "searcher" /\ WithMemory[2] = "memory_agent"
  /\ WithMemory[3] = "synthesize"
  /\ WithRisk \in Seq(Roles) /\ Len(WithRisk) = 3
  /\ WithRisk[1] = "searcher" /\ WithRisk[2] = "synthesize"
  /\ WithRisk[3] = "risk_analyst"
  /\ WithBoth \in Seq(Roles) /\ Len(WithBoth) = 4
  /\ WithBoth[1] = "searcher" /\ WithBoth[2] = "memory_agent"
  /\ WithBoth[3] = "synthesize" /\ WithBoth[4] = "risk_analyst"
BY RolesAre DEF Basic, WithMemory, WithRisk, WithBoth

\* Sequences of two to four elements that agree on each are equal.
LEMMA SameElements ==
  ASSUME NEW S, NEW s \in Seq(S), NEW t \in Seq(S), Len(s) = Len(t),
         Len(s) \in {2, 3, 4}, s[1] = t[1], s[2] = t[2],
         Len(s) > 2 => s[3] = t[3], Len(s) > 3 => s[4] = t[4]
  PROVE  s = t
<1>1. \A i \in 1 .. Len(s) : i = 1 \/ i = 2 \/ (i = 3 /\ Len(s) > 2) \/ (i = 4 /\ Len(s) > 3)
  OBVIOUS
<1>2. \A i \in 1 .. Len(s) : s[i] = t[i]
  BY <1>1
<1> QED
  BY <1>2, SeqEqual

LEMMA Joined ==
  ASSUME NEW S, NEW a \in S, NEW b \in S, NEW p \in Seq(S), NEW q \in Seq(S),
         Len(p) \in {0, 1}, Len(q) \in {0, 1}
  PROVE  LET u == <<a>> \o p \o <<b>> \o q
         IN  /\ u \in Seq(S)
             /\ Len(u) = 2 + Len(p) + Len(q)
             /\ u[1] = a
             /\ Len(p) = 1 => u[2] = p[1] /\ u[3] = b /\ (Len(q) = 1 => u[4] = q[1])
             /\ Len(p) = 0 => u[2] = b /\ (Len(q) = 1 => u[3] = q[1])
<1> DEFINE x == <<a>>
           y == x \o p
           z == y \o <<b>>
           u == z \o q
           k == Len(p)
           l == Len(q)
<1>1. x \in Seq(S) /\ Len(x) = 1 /\ x[1] = a /\ <<b>> \in Seq(S) /\ Len(<<b>>) = 1
      /\ <<b>>[1] = b
  OBVIOUS
<1>2. k \in {0, 1} /\ l \in {0, 1}
  OBVIOUS
<1> HIDE DEF x, k, l
<1>3. y \in Seq(S) /\ Len(y) = 1 + k /\ y[1] = a /\ (k = 1 => y[2] = p[1])
  BY <1>1, <1>2, ConcatProperties DEF k
<1> HIDE DEF y
<1>4. z \in Seq(S) /\ Len(z) = 2 + k /\ z[1] = a /\ (k = 1 => z[2] = p[1]) /\ z[2 + k] = b
  BY <1>1, <1>2, <1>3, ConcatProperties
<1> HIDE DEF z
<1>5. /\ u \in Seq(S) /\ Len(u) = 2 + k + l /\ u[1] = a /\ (k = 1 => u[2] = p[1])
      /\ u[2 + k] = b /\ (l = 1 => u[3 + k] = q[1])
  BY <1>2, <1>4, ConcatProperties DEF l
<1> QED
  BY <1>2, <1>5 DEF x, y, z, k, l

\* The canonical order of a set with the two roles every preset has.
LEMMA OrderedWithBoth ==
  ASSUME NEW S, "searcher" \in S, "synthesize" \in S
  PROVE  OrderedSubset(S) =
           IF "memory_agent" \in S
             THEN IF "risk_analyst" \in S THEN WithBoth ELSE WithMemory
             ELSE IF "risk_analyst" \in S THEN WithRisk ELSE Basic
<1> DEFINE p == IF "memory_agent" \in S THEN <<"memory_agent">> ELSE <<>>
           q == IF "risk_analyst" \in S THEN <<"risk_analyst">> ELSE <<>>
           u == OrderedSubset(S)
<1>1. /\ RoleOrder[1] = "searcher" /\ RoleOrder[2] = "memory_agent"
      /\ RoleOrder[3] = "synthesize" /\ RoleOrder[4] = "risk_analyst"
  BY DEF RoleOrder
<1>2. u = <<"searcher">> \o p \o <<"synthesize">> \o q
  <2> DEFINE at(i) == IF RoleOrder[i] \in S THEN <<RoleOrder[i]>> ELSE <<>>
  <2>1. u = at(1) \o at(2) \o at(3) \o at(4)
    BY DEF OrderedSubset
  <2>2. at(1) = <<"searcher">> /\ at(2) = p /\ at(3) = <<"synthesize">> /\ at(4) = q
    BY <1>1
  <2> HIDE DEF at, p, q, u
  <2> QED
    BY <2>1, <2>2
<1>3. ASSUME NEW r \in Roles
      PROVE  LET s == IF r \in S THEN <<r>> ELSE <<>>
             IN  /\ s \in Seq(Roles)
                 /\ r \in S => Len(s) = 1 /\ s[1] = r
                 /\ r \notin S => Len(s) = 0
  <2>1. CASE r \in S
    BY <2>1
  <2>2. CASE r \notin S
    BY <2>2
  <2> QED
    BY <2>1, <2>2
<1>4. /\ p \in Seq(Roles) /\ q \in Seq(Roles)
      /\ "memory_agent" \in S => Len(p) = 1 /\ p[1] = "memory_agent"
      /\ "memory_agent" \notin S => Len(p) = 0
      /\ "risk_analyst" \in S => Len(q) = 1 /\ q[1] = "risk_analyst"
      /\ "risk_analyst" \notin S => Len(q) = 0
      /\ "searcher" \in Roles /\ "synthesize" \in Roles
  BY <1>3, RolesAre
<1> HIDE DEF p, q, u
<1>5. /\ u \in Seq(Roles)
      /\ Len(u) = 2 + Len(p) + Len(q)
      /\ u[1] = "searcher"
      /\ Len(p) = 1 => u[2] = p[1] /\ u[3] = "synthesize" /\ (Len(q) = 1 => u[4] = q[1])
      /\ Len(p) = 0 => u[2] = "synthesize" /\ (Len(q) = 1 => u[3] = q[1])
  BY <1>2, <1>4, Joined
<1>6. CASE "memory_agent" \in S /\ "risk_analyst" \in S
  <2>0. Len(p) = 1 /\ p[1] = "memory_agent" /\ Len(q) = 1 /\ q[1] = "risk_analyst"
    BY <1>4, <1>6
  <2>1. /\ Len(u) = 4 /\ u[1] = "searcher" /\ u[2] = "memory_agent"
        /\ u[3] = "synthesize" /\ u[4] = "risk_analyst"
    BY <1>5, <2>0
  <2>2. /\ Len(WithBoth) = 4 /\ WithBoth[1] = "searcher" /\ WithBoth[2] = "memory_agent"
        /\ WithBoth[3] = "synthesize" /\ WithBoth[4] = "risk_analyst"
    BY ListsSpelled
  <2>3. WithBoth \in Seq(Roles)
    BY ListsSpelled
  <2>4. u = WithBoth
    BY <1>5, <2>1, <2>2, <2>3, SameElements
  <2> QED
    BY <1>6, <2>4 DEF u
<1>7. CASE "memory_agent" \in S /\ "risk_analyst" \notin S
  <2>0. Len(p) = 1 /\ p[1] = "memory_agent" /\ Len(q) = 0
    BY <1>4, <1>7
  <2>1. /\ Len(u) = 3 /\ u[1] = "searcher"
        /\ u[2] = "memory_agent" /\ u[3] = "synthesize"
    BY <1>5, <2>0
  <2>2. /\ Len(WithMemory) = 3 /\ WithMemory[1] = "searcher"
        /\ WithMemory[2] = "memory_agent" /\ WithMemory[3] = "synthesize"
    BY ListsSpelled
  <2>3. WithMemory \in Seq(Roles)
    BY ListsSpelled
  <2>4. u = WithMemory
    BY <1>5, <2>1, <2>2, <2>3, SameElements
  <2> QED
    BY <1>7, <2>4 DEF u
<1>8. CASE "memory_agent" \notin S /\ "risk_analyst" \in S
  <2>0. Len(p) = 0 /\ Len(q) = 1 /\ q[1] = "risk_analyst"
    BY <1>4, <1>8
  <2>1. /\ Len(u) = 3 /\ u[1] = "searcher"
        /\ u[2] = "synthesize" /\ u[3] = "risk_analyst"
    BY <1>5, <2>0
  <2>2. /\ Len(WithRisk) = 3 /\ WithRisk[1] = "searcher"
        /\ WithRisk[2] = "synthesize" /\ WithRisk[3] = "risk_analyst"
    BY ListsSpelled
  <2>3. WithRisk \in Seq(Roles)
    BY ListsSpelled
  <2>4. u = WithRisk
    BY <1>5, <2>1, <2>2, <2>3, SameElements
  <2> QED
    BY <1>8, <2>4 DEF u
<1>9. CASE "memory_agent" \notin S /\ "risk_analyst" \notin S
  <2>0. Len(p) = 0 /\ Len(q) = 0
    BY <1>4, <1>9
  <2>1. /\ Len(u) = 2 /\ u[1] = "searcher"
        /\ u[2] = "synthesize"
    BY <1>5, <2>0
  <2>2. /\ Len(Basic) = 2 /\ Basic[1] = "searcher"
        /\ Basic[2] = "synthesize"
    BY ListsSpelled
  <2>3. Basic \in Seq(Roles)
    BY ListsSpelled
  <2>4. u = Basic
    BY <1>5, <2>1, <2>2, <2>3, SameElements
  <2> QED
    BY <1>9, <2>4 DEF u
<1> QED
  BY <1>6, <1>7, <1>8, <1>9

\* What the router allocates; a mandatory risk analyst is the last of it.
LEMMA AllocatedIsList ==
  /\ AllocatedRoles \in RoleLists
  /\ RiskIsMandatory => AllocatedRoles[Len(AllocatedRoles)] = "risk_analyst"
<1> DEFINE S == RefinedRoles \cup (IF RiskIsMandatory THEN {"risk_analyst"} ELSE {})
<1>1. \A preset : "searcher" \in PresetRoles(preset) /\ "synthesize" \in PresetRoles(preset)
  BY RolesAre DEF PresetRoles
<1>2. "searcher" \in S /\ "synthesize" \in S
  BY <1>1 DEF RefinedRoles
<1>3. RiskIsMandatory => "risk_analyst" \in S
  OBVIOUS
<1>4. AllocatedRoles = OrderedSubset(S)
  BY DEF AllocatedRoles
<1> HIDE DEF S
<1>5. AllocatedRoles \in RoleLists
  BY <1>2, <1>4, OrderedWithBoth DEF RoleLists
<1>6. ASSUME RiskIsMandatory PROVE AllocatedRoles[Len(AllocatedRoles)] = "risk_analyst"
  BY <1>2, <1>3, <1>4, <1>6, OrderedWithBoth, ListsSpelled
<1> QED
  BY <1>5, <1>6

\* A run follows one of these lists.
ListKnown == allocation = <<>> \/ allocation \in RoleLists

LEMMA RoleListKnown ==
  ASSUME ListKnown
  PROVE  /\ RoleList \in RoleLists
         /\ \A i \in DOMAIN RoleList : RoleList[i] \in Roles
<1>1. RoleList \in RoleLists
  BY DEF ListKnown, RoleList, RoleLists, RoleOrder, WithBoth
<1>2. ASSUME NEW s \in RoleLists PROVE \A i \in DOMAIN s : s[i] \in Roles
  <2>1. s \in Seq(Roles)
    BY ListsSpelled DEF RoleLists
  <2> QED
    BY <2>1
<1> QED
  BY <1>1, <1>2

LEMMA NextRoleKnown ==
  ASSUME ListKnown, NEW role
  PROVE  NextRoleAfter(role) \in Roles \cup {"merge"}
BY RoleListKnown DEF NextRoleAfter

-----------------------------------------------------------------------------
(***************************************************************************)
(* The parallel group                                                      *)
(***************************************************************************)
GroupTypes ==
  /\ settings \in [router : BOOLEAN, parallel : BOOLEAN, budget : Budgets]
  /\ evidence \in [cited : BOOLEAN, sufficient : BOOLEAN]
  /\ mode \in Modes
  /\ branch \in [ParallelRoles -> BranchStates]
  /\ delta \in [ParallelRoles -> ResultSet \cup {NoDelta}]
  /\ collected \in Seq(ParallelRoles)
  /\ reserved \in SUBSET ParallelRoles

\* Only the node of the group executes one.
GroupAtItsNode == mode # "idle" => node = "parallel_roles"

\* Either the budget holds both roles, or none was handed to a pool thread and the
\* second began after the first was collected.
OneAtATime ==
  \/ TokensOf(ParallelRoles) <= settings.budget
  \/ /\ \A r \in ParallelRoles : branch[r] # "submitted"
     /\ branch["memory_agent"] = "none" \/ branch["searcher"] = "collected"

\* While the group collects, the graph thread has the deltas of exactly the
\* collected branches.
Collecting ==
  node \in EarlyNodes \/ (node = "parallel_roles" /\ mode \in {"idle", "parallel", "sequential"})

CollectedMatches ==
  Collecting =>
    {collected[i] : i \in DOMAIN collected} = {r \in ParallelRoles : branch[r] = "collected"}

\* No branch has begun before the group.
NoneBegan ==
  node \in EarlyNodes \/ (node = "parallel_roles" /\ mode = "idle")
    => \A r \in ParallelRoles : branch[r] = "none"

\* What a branch has computed is a result of its role.
DeltasAreResults ==
  \A r \in ParallelRoles : branch[r] \in {"returned", "collected"} =>
    delta[r] \in ResultSet /\ delta[r].role = r

GroupInv ==
  /\ GroupTypes
  /\ ListKnown
  /\ GroupAtItsNode
  /\ OneAtATime
  /\ CollectedMatches
  /\ NoneBegan
  /\ DeltasAreResults
  /\ RunningWithinBudget

LEMMA TokensMonotone ==
  ASSUME NEW S, NEW T, S \subseteq T
  PROVE  /\ TokensOf(S) \in Nat /\ TokensOf(T) \in Nat
         /\ TokensOf(S) <= TokensOf(T)
<1>1. Estimate["searcher"] \in Nat /\ Estimate["memory_agent"] \in Nat
  BY GraphAssumption DEF ParallelRoles
<1> QED
  BY <1>1 DEF TokensOf

LEMMA TokensOfOne ==
  ASSUME NEW r \in ParallelRoles, NEW S \in SUBSET ParallelRoles, S \subseteq {r}
  PROVE  TokensOf(S) <= Estimate[r]
<1>1. Estimate["searcher"] \in Nat /\ Estimate["memory_agent"] \in Nat
  BY GraphAssumption DEF ParallelRoles
<1>2. r = "searcher" \/ r = "memory_agent"
  BY DEF ParallelRoles
<1>3. CASE r = "searcher"
  <2>1. "memory_agent" \notin S
    BY <1>3
  <2> QED
    BY <1>1, <1>3, <2>1 DEF TokensOf
<1>4. CASE r = "memory_agent"
  <2>1. "searcher" \notin S
    BY <1>4
  <2> QED
    BY <1>1, <1>4, <2>1 DEF TokensOf
<1> QED
  BY <1>2, <1>3, <1>4

LEMMA ResultIsResult ==
  ASSUME NEW role \in Roles, NEW cited \in BOOLEAN, NEW flagged \in BOOLEAN
  PROVE  Result(role, cited, flagged) \in ResultSet /\ Result(role, cited, flagged).role = role
BY DEF Result, ResultSet

\* A result of a role is a result.
LEMMA ResultsAreResults ==
  ASSUME evidence \in [cited : BOOLEAN, sufficient : BOOLEAN], NEW role \in Roles,
         NEW r \in ResultsOf(role)
  PROVE  r \in ResultSet /\ r.role = role
<1>1. role \in {"searcher", "memory_agent", "synthesize", "risk_analyst"}
  BY RolesAre
<1>2. evidence.cited \in BOOLEAN
  OBVIOUS
<1>3. \E cited, flagged \in BOOLEAN : r = Result(role, cited, flagged)
  <2>1. CASE role = "searcher"
    <3>1. r \in SearchResults
      BY <2>1 DEF ResultsOf
    <3> QED
      BY <2>1, <3>1 DEF SearchResults
  <2>2. CASE role = "memory_agent"
    <3>1. r \in MemoryResults
      BY <2>2 DEF ResultsOf
    <3> QED
      BY <1>2, <2>2, <3>1 DEF MemoryResults
  <2>3. CASE role = "synthesize"
    <3>1. r \in SynthesisResults
      BY <2>3 DEF ResultsOf
    <3> QED
      BY <1>2, <2>3, <3>1 DEF SynthesisResults
  <2>4. CASE role = "risk_analyst"
    <3>1. r \in RiskResults
      BY <2>4 DEF ResultsOf
    <3> QED
      BY <2>4, <3>1 DEF RiskResults
  <2> QED
    BY <1>1, <2>1, <2>2, <2>3, <2>4
<1> QED
  BY <1>3, ResultIsResult

LEMMA GroupInit == Init => GroupInv
<1> SUFFICES ASSUME Init PROVE GroupInv
  OBVIOUS
<1>1. GroupTypes
  <2>1. collected \in Seq(ParallelRoles)
    BY EmptySeq DEF Init
  <2>2. evidence \in [cited : BOOLEAN, sufficient : BOOLEAN]
    BY DEF Init
  <2>3. branch \in [ParallelRoles -> BranchStates]
    BY DEF Init, BranchStates
  <2> QED
    BY <2>1, <2>2, <2>3 DEF Init, GroupTypes, Modes
<1>2. \A r \in ParallelRoles : branch[r] = "none"
  BY DEF Init
<1>3. ListKnown /\ GroupAtItsNode /\ NoneBegan /\ DeltasAreResults
  BY <1>2 DEF Init, ListKnown, GroupAtItsNode, NoneBegan, DeltasAreResults
<1>4. OneAtATime
  BY <1>2 DEF OneAtATime, ParallelRoles
<1>5. CollectedMatches
  <2>1. collected = <<>>
    BY DEF Init
  <2>2. DOMAIN collected = {}
    BY <2>1
  <2>3. {collected[i] : i \in DOMAIN collected} = {}
    BY <2>2
  <2>4. {r \in ParallelRoles : branch[r] = "collected"} = {}
    BY <1>2
  <2> QED
    BY <2>3, <2>4 DEF CollectedMatches
<1>6. RunningWithinBudget
  <2>1. {r \in ParallelRoles : branch[r] = "running"} = {}
    BY <1>2
  <2>2. settings.budget \in Nat
    BY <1>1, GraphAssumption DEF GroupTypes
  <2>3. TokensOf({}) = 0
    BY DEF TokensOf
  <2>4. TokensOf({}) <= settings.budget
    BY <2>2, <2>3
  <2> QED
    BY <2>1, <2>4 DEF RunningWithinBudget
<1> QED
  BY <1>1, <1>3, <1>4, <1>5, <1>6 DEF GroupInv

\* A node that leaves the group alone and does not lead back before it.
LEMMA GroupAside ==
  ASSUME GroupInv, ListKnown', UNCHANGED <<settings, groupVars>>,
         evidence' \in [cited : BOOLEAN, sufficient : BOOLEAN],
         mode = "idle",
         node' \in EarlyNodes \cup {"parallel_roles"} => node \in EarlyNodes
  PROVE  GroupInv'
<1> USE DEF GroupInv, groupVars
<1>1. GroupTypes'
  BY DEF GroupTypes
<1>2. GroupAtItsNode'
  BY DEF GroupAtItsNode
<1>3. OneAtATime'
  BY DEF OneAtATime
<1>4. CollectedMatches'
  BY DEF CollectedMatches, Collecting
<1>5. NoneBegan'
  BY DEF NoneBegan
<1>6. DeltasAreResults'
  BY DEF DeltasAreResults
<1>7. RunningWithinBudget'
  BY DEF RunningWithinBudget
<1> QED
  BY <1>1, <1>2, <1>3, <1>4, <1>5, <1>6, <1>7

LEMMA GroupNodeStep == GroupInv /\ NodeStep => GroupInv'
<1> SUFFICES ASSUME GroupInv, NodeStep PROVE GroupInv'
  OBVIOUS
<1> USE DEF At
<1>0. /\ evidence \in [cited : BOOLEAN, sufficient : BOOLEAN]
      /\ ListKnown
  BY DEF GroupInv, GroupTypes
<1>1. ASSUME ListKnown, UNCHANGED allocation PROVE ListKnown'
  BY <1>1 DEF ListKnown
<1>2. \A role \in Roles : role \notin EarlyNodes \cup {"parallel_roles"}
  BY RolesAre DEF EarlyNodes
<1>3. CASE Retrieve
  BY <1>0, <1>1, <1>3, GroupAside DEF Retrieve, EarlyNodes
<1>4. CASE SufficiencyGate
  BY <1>0, <1>1, <1>4, GroupAside DEF SufficiencyGate, EarlyNodes
<1>5. CASE Decompose
  BY <1>0, <1>1, <1>5, GroupAside DEF Decompose, EarlyNodes
<1>6. CASE RouteRoles
  <2>1. ListKnown'
    BY <1>6, AllocatedIsList DEF RouteRoles, ListKnown
  <2> QED
    BY <1>0, <1>6, <2>1, GroupAside DEF RouteRoles, EarlyNodes
<1>7. ASSUME NEW role \in Roles, RunRole(role) PROVE GroupInv'
  <2>1. node' \notin EarlyNodes \cup {"parallel_roles"}
    BY <1>0, <1>2, <1>7, NextRoleKnown DEF RunRole, EarlyNodes
  <2> QED
    BY <1>0, <1>1, <1>7, <2>1, GroupAside DEF RunRole
<1>8. CASE ProviderFails
  BY <1>0, <1>1, <1>8, GroupAside DEF ProviderFails, EarlyNodes
<1>9. CASE Merge
  BY <1>0, <1>1, <1>9, GroupAside DEF Merge, EarlyNodes
<1>10. CASE GroundingCheck
  BY <1>0, <1>1, <1>10, GroupAside DEF GroundingCheck, EarlyNodes
<1>11. CASE ProposeTools
  BY <1>0, <1>1, <1>11, GroupAside DEF ProposeTools, EarlyNodes
<1>12. CASE CriticCheck
  BY <1>0, <1>1, <1>12, GroupAside DEF CriticCheck, EarlyNodes
<1>13. CASE QualityCheck
  BY <1>0, <1>1, <1>13, GroupAside DEF QualityCheck, RouteQuality, EarlyNodes
<1>14. CASE SafetyCheck
  BY <1>0, <1>1, <1>14, GroupAside DEF SafetyCheck, EarlyNodes
<1>15. CASE Finalize
  BY <1>0, <1>1, <1>15, GroupAside DEF Finalize, graphVars, EarlyNodes
<1> QED
  BY <1>3, <1>4, <1>5, <1>6, <1>7, <1>8, <1>9, <1>10, <1>11, <1>12, <1>13, <1>14, <1>15
     DEF NodeStep

LEMMA BudgetIsNat == GroupTypes => settings.budget \in Nat
BY GraphAssumption DEF GroupTypes

\* Branches that end free their share.
LEMMA RunningShrinks ==
  ASSUME GroupInv, UNCHANGED settings,
         \A r \in ParallelRoles : branch'[r] = "running" => branch[r] = "running"
  PROVE  RunningWithinBudget'
<1> DEFINE S == {r \in ParallelRoles : branch'[r] = "running"}
           T == {r \in ParallelRoles : branch[r] = "running"}
<1>1. TokensOf(S) \in Nat /\ TokensOf(T) \in Nat /\ TokensOf(S) <= TokensOf(T)
  BY TokensMonotone
<1>2. TokensOf(T) <= settings.budget /\ settings.budget \in Nat
  BY BudgetIsNat DEF GroupInv, RunningWithinBudget
<1>3. TokensOf(S) <= settings.budget
  <2> HIDE DEF S, T
  <2> QED
    BY <1>1, <1>2
<1> QED
  BY <1>3 DEF RunningWithinBudget

\* A budget that holds both roles holds whatever runs.
LEMMA BothFit ==
  ASSUME GroupInv, UNCHANGED settings, TokensOf(ParallelRoles) <= settings.budget
  PROVE  RunningWithinBudget'
<1> DEFINE S == {r \in ParallelRoles : branch'[r] = "running"}
<1>1. /\ TokensOf(S) \in Nat /\ TokensOf(ParallelRoles) \in Nat
      /\ TokensOf(S) <= TokensOf(ParallelRoles)
  BY TokensMonotone
<1>2. settings.budget \in Nat
  BY BudgetIsNat DEF GroupInv
<1>3. TokensOf(S) <= settings.budget
  <2> HIDE DEF S
  <2> QED
    BY <1>1, <1>2
<1> QED
  BY <1>3 DEF RunningWithinBudget

LEMMA GroupGroupStep == GroupInv /\ GroupStep => GroupInv'
<1> SUFFICES ASSUME GroupInv, GroupStep PROVE GroupInv'
  OBVIOUS
<1> USE DEF graphVars, InGroup
<1>a. /\ GroupTypes /\ ListKnown /\ GroupAtItsNode /\ OneAtATime /\ CollectedMatches
      /\ NoneBegan /\ DeltasAreResults /\ RunningWithinBudget
  BY DEF GroupInv
<1>b. ParallelRoles = {"searcher", "memory_agent"}
  BY DEF ParallelRoles
<1>c. "parallel_roles" \notin EarlyNodes /\ "FAILED" \notin EarlyNodes
  BY DEF EarlyNodes
<1>d. UNCHANGED settings /\ UNCHANGED evidence /\ ListKnown'
  BY <1>a DEF GroupStep, SubmitBoth, RunInTurn, AcquireInTurn, BudgetExceeded, Collect,
     CollectFailure, CancelFutures, GiveUp, FinishGroup, ListKnown
<1>1. CASE SubmitBoth
  <2>1. GroupTypes'
    BY <1>a, <1>1 DEF GroupTypes, SubmitBoth, Modes, BranchStates
  <2>2. GroupAtItsNode'
    BY <1>1 DEF GroupAtItsNode, SubmitBoth
  <2>3. OneAtATime'
    BY <1>1 DEF OneAtATime, SubmitBoth
  <2>4. CollectedMatches'
    <3>1. \A r \in ParallelRoles : branch[r] = "none" /\ branch'[r] = "submitted"
      BY <1>a, <1>1 DEF NoneBegan, SubmitBoth
    <3>2. {collected[i] : i \in DOMAIN collected} = {r \in ParallelRoles : branch[r] = "collected"}
      BY <1>a, <1>1 DEF CollectedMatches, Collecting, SubmitBoth
    <3>3. /\ {r \in ParallelRoles : branch[r] = "collected"} = {}
          /\ {r \in ParallelRoles : branch'[r] = "collected"} = {}
      BY <3>1
    <3>4. collected' = collected
      BY <1>1 DEF SubmitBoth
    <3> QED
      BY <3>2, <3>3, <3>4 DEF CollectedMatches
  <2>5. NoneBegan'
    BY <1>1, <1>c DEF NoneBegan, SubmitBoth
  <2>6. DeltasAreResults'
    BY <1>1 DEF DeltasAreResults, SubmitBoth
  <2>7. RunningWithinBudget'
    BY <1>1, <1>d, BothFit DEF SubmitBoth
  <2> QED
    BY <1>d, <2>1, <2>2, <2>3, <2>4, <2>5, <2>6, <2>7 DEF GroupInv
<1>2. CASE RunInTurn
  <2>1. GroupTypes'
    BY <1>a, <1>2 DEF GroupTypes, RunInTurn, Modes
  <2>2. GroupAtItsNode'
    BY <1>2 DEF GroupAtItsNode, RunInTurn
  <2>3. OneAtATime'
    BY <1>a, <1>2 DEF OneAtATime, RunInTurn
  <2>4. CollectedMatches'
    BY <1>a, <1>2 DEF CollectedMatches, Collecting, RunInTurn
  <2>5. NoneBegan'
    BY <1>2, <1>c DEF NoneBegan, RunInTurn
  <2>6. DeltasAreResults'
    BY <1>a, <1>2 DEF DeltasAreResults, RunInTurn
  <2>7. RunningWithinBudget'
    BY <1>2, <1>d, RunningShrinks DEF RunInTurn
  <2> QED
    BY <1>d, <2>1, <2>2, <2>3, <2>4, <2>5, <2>6, <2>7 DEF GroupInv
<1>3. ASSUME NEW role \in ParallelRoles, AcquireInTurn(role) PROVE GroupInv'
  <2>0. /\ branch' = [branch EXCEPT ![role] = "running"]
        /\ branch \in [ParallelRoles -> BranchStates]
        /\ branch[role] = "none" /\ node' = node /\ mode' = mode /\ mode = "sequential"
        /\ node = "parallel_roles" /\ collected' = collected /\ delta' = delta
    BY <1>a, <1>3 DEF AcquireInTurn, Due, GroupTypes
  <2>1. GroupTypes'
    BY <1>a, <1>3, <2>0 DEF GroupTypes, AcquireInTurn, BranchStates
  <2>2. GroupAtItsNode'
    BY <2>0 DEF GroupAtItsNode
  <2>3. OneAtATime'
    BY <1>a, <1>b, <1>3, <2>0 DEF OneAtATime, AcquireInTurn, Due
  <2>4. CollectedMatches'
    <3>1. \A r \in ParallelRoles : (branch'[r] = "collected") <=> (branch[r] = "collected")
      BY <2>0
    <3> QED
      BY <1>a, <2>0, <3>1 DEF CollectedMatches, Collecting
  <2>5. NoneBegan'
    BY <2>0, <1>c DEF NoneBegan
  <2>6. DeltasAreResults'
    BY <1>a, <2>0 DEF DeltasAreResults
  <2>7. RunningWithinBudget'
    <3>1. CASE TokensOf(ParallelRoles) <= settings.budget
      BY <3>1, <1>d, BothFit
    <3>2. CASE ~(TokensOf(ParallelRoles) <= settings.budget)
      <4> DEFINE S == {r \in ParallelRoles : branch'[r] = "running"}
      <4>1. \A r \in ParallelRoles : r # role => branch[r] # "running"
        BY <1>a, <1>b, <1>3, <3>2, <2>0 DEF OneAtATime, AcquireInTurn, Due
      <4>2. S \subseteq {role} /\ S \in SUBSET ParallelRoles
        BY <2>0, <4>1
      <4>3. TokensOf(S) \in Nat /\ TokensOf(reserved) \in Nat
        BY TokensMonotone
      <4>4. TokensOf(S) <= Estimate[role]
        BY <4>2, TokensOfOne
      <4>5. TokensOf(reserved) + Estimate[role] <= settings.budget
        BY <1>3 DEF AcquireInTurn, Fits
      <4>6. Estimate[role] \in Nat /\ settings.budget \in Nat
        BY <1>a, BudgetIsNat, GraphAssumption
      <4>7. TokensOf(S) <= settings.budget
        <5> HIDE DEF S
        <5> QED
          BY <4>3, <4>4, <4>5, <4>6
      <4> QED
        BY <4>7, <1>d DEF RunningWithinBudget
    <3> QED
      BY <3>1, <3>2
  <2> QED
    BY <1>d, <2>1, <2>2, <2>3, <2>4, <2>5, <2>6, <2>7 DEF GroupInv
<1>4. ASSUME NEW role \in ParallelRoles, BudgetExceeded(role) PROVE GroupInv'
  <2>0. node' = "FAILED" /\ mode' = "idle" /\ reserved' = {}
        /\ UNCHANGED <<branch, delta, collected>>
    BY <1>4 DEF BudgetExceeded
  <2>1. GroupTypes'
    BY <1>a, <1>d, <2>0 DEF GroupTypes, Modes
  <2>2. GroupAtItsNode' /\ CollectedMatches' /\ NoneBegan'
    BY <1>c, <2>0 DEF GroupAtItsNode, CollectedMatches, Collecting, NoneBegan
  <2>3. OneAtATime' /\ DeltasAreResults'
    BY <1>a, <1>d, <2>0 DEF OneAtATime, DeltasAreResults
  <2>4. RunningWithinBudget'
    BY <2>0, <1>d, RunningShrinks
  <2> QED
    BY <1>d, <2>1, <2>2, <2>3, <2>4 DEF GroupInv
<1>5. ASSUME NEW role \in ParallelRoles, Collect(role) PROVE GroupInv'
  <2>0. /\ branch' = [branch EXCEPT ![role] = "collected"]
        /\ branch \in [ParallelRoles -> BranchStates]
        /\ branch[role] = "returned" /\ node' = node /\ mode' = mode
        /\ mode \in {"parallel", "sequential"} /\ delta' = delta
        /\ node = "parallel_roles"
        /\ collected' = Append(collected, role) /\ collected \in Seq(ParallelRoles)
    BY <1>a, <1>5 DEF Collect, GroupTypes, GroupAtItsNode
  <2>1. GroupTypes'
    <3>1. collected' \in Seq(ParallelRoles)
      BY <2>0, AppendProperties
    <3>2. branch' \in [ParallelRoles -> BranchStates]
      BY <2>0 DEF BranchStates
    <3>3. UNCHANGED <<settings, evidence, mode, delta>> /\ reserved' \subseteq reserved
      BY <1>5 DEF Collect
    <3> QED
      BY <1>a, <3>1, <3>2, <3>3 DEF GroupTypes
  <2>2. GroupAtItsNode'
    BY <2>0 DEF GroupAtItsNode
  <2>3. OneAtATime'
    BY <1>a, <1>b, <1>d, <2>0 DEF OneAtATime
  <2>4. CollectedMatches'
    <3>1. {collected'[i] : i \in DOMAIN collected'}
            = {collected[i] : i \in DOMAIN collected} \cup {role}
      <4>1. /\ DOMAIN collected' = 1 .. Len(collected) + 1 /\ Len(collected) \in Nat
            /\ DOMAIN collected = 1 .. Len(collected)
            /\ \A i \in 1 .. Len(collected) : collected'[i] = collected[i]
            /\ collected'[Len(collected) + 1] = role
        BY <2>0, AppendProperties
      <4>2. 1 .. Len(collected) + 1 = (1 .. Len(collected)) \cup {Len(collected) + 1}
        BY <4>1
      <4> DEFINE c == collected'
                 n == Len(collected)
                 m == n + 1
                 old == 1 .. n
      <4>3. /\ DOMAIN c = old \cup {m} /\ DOMAIN collected = old
            /\ \A i \in old : c[i] = collected[i]
            /\ c[m] = role
        BY <4>1, <4>2
      <4> HIDE DEF c, n, m, old
      <4>4. {c[i] : i \in DOMAIN c} = {collected[i] : i \in DOMAIN collected} \cup {role}
        BY <4>3
      <4> QED
        BY <4>4 DEF c
    <3>2. {r \in ParallelRoles : branch'[r] = "collected"}
            = {r \in ParallelRoles : branch[r] = "collected"} \cup {role}
      BY <2>0
    <3>3. {collected[i] : i \in DOMAIN collected} = {r \in ParallelRoles : branch[r] = "collected"}
      BY <1>a, <2>0 DEF CollectedMatches, Collecting
    <3> QED
      BY <3>1, <3>2, <3>3 DEF CollectedMatches
  <2>5. NoneBegan'
    BY <1>c, <2>0 DEF NoneBegan
  <2>6. DeltasAreResults'
    BY <1>a, <2>0 DEF DeltasAreResults
  <2>7. RunningWithinBudget'
    <3>1. \A r \in ParallelRoles : branch'[r] = "running" => branch[r] = "running"
      BY <2>0
    <3> QED
      BY <3>1, <1>d, RunningShrinks
  <2> QED
    BY <1>d, <2>1, <2>2, <2>3, <2>4, <2>5, <2>6, <2>7 DEF GroupInv
<1>6. ASSUME NEW role \in ParallelRoles, CollectFailure(role) PROVE GroupInv'
  <2>0. /\ mode' = "cancelling" /\ node' = node /\ node = "parallel_roles"
        /\ UNCHANGED <<branch, delta, collected, reserved>>
    BY <1>a, <1>6 DEF CollectFailure, GroupAtItsNode
  <2>1. GroupTypes'
    BY <1>a, <1>d, <2>0 DEF GroupTypes, Modes
  <2>2. GroupAtItsNode' /\ CollectedMatches' /\ NoneBegan'
    BY <1>c, <2>0 DEF GroupAtItsNode, CollectedMatches, Collecting, NoneBegan
  <2>3. OneAtATime' /\ DeltasAreResults'
    BY <1>a, <1>d, <2>0 DEF OneAtATime, DeltasAreResults
  <2>4. RunningWithinBudget'
    BY <2>0, <1>d, RunningShrinks
  <2> QED
    BY <1>d, <2>1, <2>2, <2>3, <2>4 DEF GroupInv
<1>7. CASE CancelFutures
  <2>0. /\ mode' = "waiting" /\ node' = node /\ node = "parallel_roles"
        /\ UNCHANGED <<delta, collected, reserved>>
        /\ branch' = [r \in ParallelRoles |->
                        IF branch[r] = "submitted" THEN "cancelled" ELSE branch[r]]
        /\ branch \in [ParallelRoles -> BranchStates]
    BY <1>a, <1>7 DEF CancelFutures, GroupTypes
  <2>1. GroupTypes'
    <3>1. branch' \in [ParallelRoles -> BranchStates]
      BY <2>0 DEF BranchStates
    <3> QED
      BY <1>a, <1>d, <2>0, <3>1 DEF GroupTypes, Modes
  <2>2. GroupAtItsNode' /\ CollectedMatches' /\ NoneBegan'
    BY <1>c, <2>0 DEF GroupAtItsNode, CollectedMatches, Collecting, NoneBegan
  <2>3. OneAtATime' /\ DeltasAreResults'
    BY <1>a, <1>b, <1>d, <2>0 DEF OneAtATime, DeltasAreResults
  <2>4. RunningWithinBudget'
    BY <2>0, <1>d, RunningShrinks
  <2> QED
    BY <1>d, <2>1, <2>2, <2>3, <2>4 DEF GroupInv
<1>8. CASE GiveUp
  <2>0. /\ node' = "FAILED" /\ mode' = "idle" /\ reserved' = {} /\ collected' = <<>>
        /\ UNCHANGED <<branch, delta>>
    BY <1>8 DEF GiveUp
  <2>1. GroupTypes'
    BY <1>a, <1>d, <2>0, EmptySeq DEF GroupTypes, Modes
  <2>2. GroupAtItsNode' /\ CollectedMatches' /\ NoneBegan'
    BY <1>c, <2>0 DEF GroupAtItsNode, CollectedMatches, Collecting, NoneBegan
  <2>3. OneAtATime' /\ DeltasAreResults'
    BY <1>a, <1>d, <2>0 DEF OneAtATime, DeltasAreResults
  <2>4. RunningWithinBudget'
    BY <2>0, <1>d, RunningShrinks
  <2> QED
    BY <1>d, <2>1, <2>2, <2>3, <2>4 DEF GroupInv
<1>9. CASE FinishGroup
  <2>0. /\ node' \notin EarlyNodes \cup {"parallel_roles"} /\ mode' = "idle" /\ reserved' = {}
        /\ UNCHANGED <<branch, delta, collected>>
    <3>1. node' \in Roles \cup {"merge"}
      BY <1>a, <1>9, NextRoleKnown DEF FinishGroup
    <3> QED
      BY <1>9, <3>1, RolesAre DEF FinishGroup, EarlyNodes
  <2>1. GroupTypes'
    BY <1>a, <1>d, <2>0 DEF GroupTypes, Modes
  <2>2. GroupAtItsNode' /\ CollectedMatches' /\ NoneBegan'
    BY <2>0 DEF GroupAtItsNode, CollectedMatches, Collecting, NoneBegan
  <2>3. OneAtATime' /\ DeltasAreResults'
    BY <1>a, <1>d, <2>0 DEF OneAtATime, DeltasAreResults
  <2>4. RunningWithinBudget'
    BY <2>0, <1>d, RunningShrinks
  <2> QED
    BY <1>d, <2>1, <2>2, <2>3, <2>4 DEF GroupInv
<1> QED
  BY <1>1, <1>2, <1>3, <1>4, <1>5, <1>6, <1>7, <1>8, <1>9 DEF GroupStep

LEMMA GroupBranchStep ==
  ASSUME NEW role \in ParallelRoles, GroupInv, BranchStep(role)
  PROVE  GroupInv'
<1>a. /\ GroupTypes /\ ListKnown /\ GroupAtItsNode /\ OneAtATime /\ CollectedMatches
      /\ NoneBegan /\ DeltasAreResults /\ RunningWithinBudget
  BY DEF GroupInv
<1>b. ParallelRoles = {"searcher", "memory_agent"}
  BY DEF ParallelRoles
<1>c. /\ UNCHANGED <<settings, evidence, node, mode, collected, reserved>> /\ ListKnown'
      /\ branch \in [ParallelRoles -> BranchStates] /\ branch[role] \in {"submitted", "running"}
  BY <1>a DEF BranchStep, BranchStarts, BranchReturns, BranchRaises, graphVars, ListKnown,
     GroupTypes
\* Only the branch moves, to a state it has begun in.
<1>d. /\ \E s \in {"running", "returned", "raised"} : branch' = [branch EXCEPT ![role] = s]
      /\ branch'[role] = "running" => branch[role] = "submitted"
  BY <1>c DEF BranchStep, BranchStarts, BranchReturns, BranchRaises
<1>e. \A r \in ParallelRoles :
        /\ r # role => branch'[r] = branch[r]
        /\ (branch'[r] = "collected") <=> (branch[r] = "collected")
        /\ (branch'[r] = "none") <=> (branch[r] = "none")
        /\ branch'[r] = "submitted" => branch[r] = "submitted"
  BY <1>c, <1>d
\* Its result, when it has one, is one of its role.
<1>f. \/ branch'[role] # "returned" /\ delta' = delta
      \/ \E r \in ResultsOf(role) : delta' = [delta EXCEPT ![role] = r]
  BY <1>c DEF BranchStep, BranchStarts, BranchReturns, BranchRaises
<1>g. delta \in [ParallelRoles -> ResultSet \cup {NoDelta}]
  BY <1>a DEF GroupTypes
<1>h. ASSUME NEW r \in ResultsOf(role) PROVE r \in ResultSet /\ r.role = role
  BY <1>a, <1>b, <1>h, RolesAre, ResultsAreResults DEF GroupTypes
<1>1. GroupTypes'
  <2>1. branch' \in [ParallelRoles -> BranchStates]
    BY <1>c, <1>d DEF BranchStates
  <2>2. delta' \in [ParallelRoles -> ResultSet \cup {NoDelta}]
    BY <1>f, <1>g, <1>h
  <2> QED
    BY <1>a, <1>c, <2>1, <2>2 DEF GroupTypes
<1>2. GroupAtItsNode' /\ NoneBegan'
  BY <1>a, <1>c, <1>e DEF GroupAtItsNode, NoneBegan
<1>3. OneAtATime'
  BY <1>a, <1>b, <1>c, <1>e DEF OneAtATime
<1>4. CollectedMatches'
  <2>1. {r \in ParallelRoles : branch'[r] = "collected"}
          = {r \in ParallelRoles : branch[r] = "collected"}
    BY <1>e
  <2> QED
    BY <1>a, <1>c, <2>1 DEF CollectedMatches, Collecting
<1>5. DeltasAreResults'
  <2> SUFFICES ASSUME NEW r \in ParallelRoles, branch'[r] \in {"returned", "collected"}
               PROVE  delta'[r] \in ResultSet /\ delta'[r].role = r
    BY DEF DeltasAreResults
  <2>1. CASE r # role
    <3>1. delta'[r] = delta[r] /\ branch'[r] = branch[r]
      BY <1>e, <1>f, <1>g, <2>1
    <3> QED
      BY <1>a, <3>1 DEF DeltasAreResults
  <2>2. CASE r = role
    <3>1. branch'[role] = "returned"
      BY <1>c, <1>e, <2>2
    <3>2. delta'[role] \in ResultsOf(role)
      BY <1>f, <1>g, <3>1
    <3> QED
      BY <1>h, <2>2, <3>2
  <2> QED
    BY <2>1, <2>2
<1>6. RunningWithinBudget'
  <2>1. CASE TokensOf(ParallelRoles) <= settings.budget
    BY <1>c, <2>1, BothFit
  <2>2. CASE ~(TokensOf(ParallelRoles) <= settings.budget)
    <3>1. branch'[role] # "running"
      BY <1>a, <1>d, <2>2 DEF OneAtATime
    <3>2. \A r \in ParallelRoles : branch'[r] = "running" => branch[r] = "running"
      BY <1>e, <3>1
    <3> QED
      BY <1>c, <3>2, RunningShrinks
  <2> QED
    BY <2>1, <2>2
<1> QED
  BY <1>c, <1>1, <1>2, <1>3, <1>4, <1>5, <1>6 DEF GroupInv

LEMMA GroupStutter == GroupInv /\ UNCHANGED vars => GroupInv'
BY DEF GroupInv, GroupTypes, ListKnown, GroupAtItsNode, OneAtATime, CollectedMatches,
   Collecting, NoneBegan, DeltasAreResults, RunningWithinBudget, vars, groupVars

LEMMA GroupNext == GroupInv /\ [Next]_vars => GroupInv'
<1>1. GroupInv /\ Ended => GroupInv'
  BY GroupStutter DEF Ended
<1> QED
  BY <1>1, GroupNodeStep, GroupGroupStep, GroupBranchStep, GroupStutter DEF Next

\* What the graph thread and the branches keep: no branch begins before its group,
\* a group has the deltas of the branches it collected, and either the token
\* budget holds both roles or one began after the other was collected.
THEOREM GroupInvariant == Spec => []GroupInv
<1>1. Init => GroupInv
  BY GroupInit
<1>2. GroupInv /\ [Next]_vars => GroupInv'
  BY GroupNext
<1> QED
  BY <1>1, <1>2, PTL DEF Spec

\* Branches that run at the same time fit the token budget together, whatever the
\* estimates and the budget are: a group that does not fit as a whole runs its
\* roles in turn.  Those a failed group leaves running are counted.
THEOREM GroupsFitTheBudget == Spec => []RunningWithinBudget
<1>1. GroupInv => RunningWithinBudget
  BY DEF GroupInv
<1> QED
  BY <1>1, GroupInvariant, PTL

-----------------------------------------------------------------------------
(***************************************************************************)
(* What a failed group leaves behind                                       *)
(***************************************************************************)
NoGroupResults == \A i \in DOMAIN results : results[i].role \notin ParallelRoles

\* A branch has begun and its result has not been collected.
Outstanding(r) == branch[r] \notin {"none", "collected"}

SharesHeld ==
  reserved = IF mode = "idle" THEN {} ELSE {r \in ParallelRoles : Outstanding(r)}

\* There are no results before the group has ended, and a run with an
\* outstanding branch is in its group or has failed.
LeftoverInv ==
  /\ node \in EarlyNodes \cup {"parallel_roles"} => results = <<>>
  /\ (\E r \in ParallelRoles : Outstanding(r)) =>
       node \in {"parallel_roles", "FAILED"} /\ NoGroupResults
  /\ SharesHeld

\* Nodes outside the group: no branch is outstanding.
LEMMA LeftoverAside ==
  ASSUME LeftoverInv, UNCHANGED groupVars, node \notin {"parallel_roles", "FAILED"},
         node' \in EarlyNodes \cup {"parallel_roles"} =>
           node \in EarlyNodes /\ results' = results
  PROVE  LeftoverInv'
BY DEF LeftoverInv, SharesHeld, Outstanding, groupVars

LEMMA LeftoverNodeStep == GroupInv /\ LeftoverInv /\ NodeStep => LeftoverInv'
<1> SUFFICES ASSUME GroupInv, LeftoverInv, NodeStep PROVE LeftoverInv'
  OBVIOUS
<1> USE DEF At
<1>2. \A role \in Roles : role \notin EarlyNodes \cup {"parallel_roles", "FAILED"}
  BY RolesAre DEF EarlyNodes
<1>3. CASE Retrieve
  BY <1>3, LeftoverAside DEF Retrieve, EarlyNodes
<1>4. CASE SufficiencyGate
  BY <1>4, LeftoverAside DEF SufficiencyGate, EarlyNodes
<1>5. CASE Decompose
  BY <1>5, LeftoverAside DEF Decompose, EarlyNodes
<1>6. CASE RouteRoles
  BY <1>6, LeftoverAside DEF RouteRoles, EarlyNodes
<1>7. ASSUME NEW role \in Roles, RunRole(role) PROVE LeftoverInv'
  <2>1. node' \notin EarlyNodes \cup {"parallel_roles"}
    BY <1>2, <1>7, NextRoleKnown DEF RunRole, EarlyNodes, GroupInv
  <2> QED
    BY <1>2, <1>7, <2>1, LeftoverAside DEF RunRole
<1>8. CASE ProviderFails
  BY <1>8, LeftoverAside DEF ProviderFails, EarlyNodes
<1>9. CASE Merge
  BY <1>9, LeftoverAside DEF Merge, EarlyNodes
<1>10. CASE GroundingCheck
  BY <1>10, LeftoverAside DEF GroundingCheck, EarlyNodes
<1>11. CASE ProposeTools
  BY <1>11, LeftoverAside DEF ProposeTools, EarlyNodes
<1>12. CASE CriticCheck
  BY <1>12, LeftoverAside DEF CriticCheck, EarlyNodes
<1>13. CASE QualityCheck
  BY <1>13, LeftoverAside DEF QualityCheck, RouteQuality, EarlyNodes
<1>14. CASE SafetyCheck
  BY <1>14, LeftoverAside DEF SafetyCheck, EarlyNodes
<1>15. CASE Finalize
  BY <1>15, LeftoverAside DEF Finalize, graphVars, EarlyNodes
<1> QED
  BY <1>3, <1>4, <1>5, <1>6, <1>7, <1>8, <1>9, <1>10, <1>11, <1>12, <1>13, <1>14, <1>15
     DEF NodeStep

\* Inside the group there are no results yet, so a step that stays there or
\* fails need only keep the shares.
LEMMA LeftoverInside ==
  ASSUME LeftoverInv, node = "parallel_roles", UNCHANGED results,
         node' \in {"parallel_roles", "FAILED"}, SharesHeld'
  PROVE  LeftoverInv'
BY DEF LeftoverInv, EarlyNodes, NoGroupResults

LEMMA LeftoverGroupStep == GroupInv /\ LeftoverInv /\ GroupStep => LeftoverInv'
<1> SUFFICES ASSUME GroupInv, LeftoverInv, GroupStep PROVE LeftoverInv'
  OBVIOUS
<1> USE DEF InGroup, graphVars
<1>0. /\ branch \in [ParallelRoles -> BranchStates] /\ SharesHeld
      /\ mode # "idle" => node = "parallel_roles"
      /\ reserved \in SUBSET ParallelRoles
  BY DEF GroupInv, GroupTypes, LeftoverInv, GroupAtItsNode
<1>1. CASE SubmitBoth
  <2>1. SharesHeld'
    BY <1>0, <1>1 DEF SubmitBoth, SharesHeld, Outstanding
  <2> QED
    BY <1>1, <2>1, LeftoverInside DEF SubmitBoth
<1>2. CASE RunInTurn
  <2>1. \A r \in ParallelRoles : branch[r] = "none"
    BY <1>2 DEF RunInTurn, GroupInv, NoneBegan
  <2>2. SharesHeld'
    BY <1>0, <1>2, <2>1 DEF RunInTurn, SharesHeld, Outstanding
  <2> QED
    BY <1>2, <2>2, LeftoverInside DEF RunInTurn
<1>3. ASSUME NEW role \in ParallelRoles, AcquireInTurn(role) PROVE LeftoverInv'
  <2>1. SharesHeld'
    BY <1>0, <1>3 DEF AcquireInTurn, Due, SharesHeld, Outstanding
  <2> QED
    BY <1>3, <2>1, LeftoverInside DEF AcquireInTurn
<1>4. ASSUME NEW role \in ParallelRoles, BudgetExceeded(role) PROVE LeftoverInv'
  BY <1>4, LeftoverInside DEF BudgetExceeded, SharesHeld
<1>5. ASSUME NEW role \in ParallelRoles, Collect(role) PROVE LeftoverInv'
  <2>1. SharesHeld'
    BY <1>0, <1>5 DEF Collect, SharesHeld, Outstanding
  <2> QED
    BY <1>0, <1>5, <2>1, LeftoverInside DEF Collect
<1>6. ASSUME NEW role \in ParallelRoles, CollectFailure(role) PROVE LeftoverInv'
  <2>1. SharesHeld'
    BY <1>0, <1>6 DEF CollectFailure, SharesHeld, Outstanding
  <2> QED
    BY <1>0, <1>6, <2>1, LeftoverInside DEF CollectFailure
<1>7. CASE CancelFutures
  <2>1. SharesHeld'
    BY <1>0, <1>7 DEF CancelFutures, SharesHeld, Outstanding
  <2> QED
    BY <1>7, <2>1, LeftoverInside DEF CancelFutures
<1>8. CASE GiveUp
  BY <1>8, LeftoverInside DEF GiveUp, SharesHeld
<1>9. CASE FinishGroup
  <2>1. \A r \in ParallelRoles : ~Outstanding(r)'
    BY <1>9 DEF FinishGroup, Outstanding
  <2>2. node' \notin EarlyNodes \cup {"parallel_roles"}
    BY <1>9, NextRoleKnown, RolesAre DEF FinishGroup, GroupInv, EarlyNodes
  <2>3. SharesHeld'
    BY <1>9 DEF FinishGroup, SharesHeld
  <2> QED
    BY <2>1, <2>2, <2>3 DEF LeftoverInv
<1> QED
  BY <1>1, <1>2, <1>3, <1>4, <1>5, <1>6, <1>7, <1>8, <1>9 DEF GroupStep

\* A branch that moves was outstanding and remains so.
LEMMA LeftoverBranchStep ==
  ASSUME NEW role \in ParallelRoles, GroupInv, LeftoverInv, BranchStep(role)
  PROVE  LeftoverInv'
<1>1. branch \in [ParallelRoles -> BranchStates]
  BY DEF GroupInv, GroupTypes
<1>2. \A r \in ParallelRoles : Outstanding(r)' <=> Outstanding(r)
  BY <1>1 DEF BranchStep, BranchStarts, BranchReturns, BranchRaises, Outstanding
<1>3. UNCHANGED <<node, mode, reserved, results>>
  BY DEF BranchStep, BranchStarts, BranchReturns, BranchRaises, graphVars
<1> QED
  BY <1>2, <1>3 DEF LeftoverInv, SharesHeld, NoGroupResults

\* A group that fails takes its deltas and its reservation with it, and its run
\* ends (execute_parallel_roles).
THEOREM FailedGroupsLeaveNothing == Spec => []FailedGroupLeavesNothing
<1>1. Init => LeftoverInv
  <2> SUFFICES ASSUME Init PROVE LeftoverInv
    OBVIOUS
  <2>1. /\ node = "collect_context" /\ results = <<>> /\ mode = "idle" /\ reserved = {}
        /\ \A r \in ParallelRoles : branch[r] = "none"
    BY DEF Init
  <2> QED
    BY <2>1 DEF LeftoverInv, SharesHeld, Outstanding
<1>2. GroupInv /\ LeftoverInv /\ [Next]_vars => LeftoverInv'
  <2> SUFFICES ASSUME GroupInv, LeftoverInv, [Next]_vars PROVE LeftoverInv'
    OBVIOUS
  <2>1. CASE UNCHANGED vars
    BY <2>1 DEF vars, groupVars, LeftoverInv, SharesHeld, Outstanding, NoGroupResults
  <2> QED
    BY <2>1, LeftoverNodeStep, LeftoverGroupStep, LeftoverBranchStep DEF Next, Ended
<1>3. LeftoverInv => FailedGroupLeavesNothing
  <2> SUFFICES ASSUME LeftoverInv PROVE FailedGroupLeavesNothing
    OBVIOUS
  <2>1. \A r \in ParallelRoles :
          branch[r] \in {"raised", "cancelled"} => Outstanding(r)
    BY DEF Outstanding
  <2>2. NoGroupResults => ~HasResult(LAMBDA x : x.role \in ParallelRoles)
    BY DEF NoGroupResults, HasResult
  <2> QED
    BY <2>1, <2>2 DEF LeftoverInv, SharesHeld, Outstanding, FailedGroupLeavesNothing
<1> QED
  BY <1>1, <1>2, <1>3, GroupInvariant, PTL DEF Spec

-----------------------------------------------------------------------------
(***************************************************************************)
(* The passes over the role list                                           *)
(***************************************************************************)
RolesOf(s) == {s[i] : i \in DOMAIN s}

\* How many roles a revision repeats: the last ones of the list.
Repeated(s) == IF s[Len(s)] = "risk_analyst" THEN 2 ELSE 1

LEMMA ListFacts ==
  ASSUME NEW s \in RoleLists
  PROVE  /\ s \in Seq(Roles) /\ Len(s) \in {2, 3, 4} /\ DOMAIN s = 1 .. Len(s)
         /\ s[1] = "searcher"
         /\ \A i, j \in DOMAIN s : s[i] = s[j] => i = j
         /\ "memory_agent" \in RolesOf(s) => s[2] = "memory_agent" /\ Len(s) > 2
         /\ "risk_analyst" \in RolesOf(s) <=> s[Len(s)] = "risk_analyst"
         /\ Repeated(s) \in {1, 2} /\ Repeated(s) < Len(s)
         /\ s[Len(s) - Repeated(s) + 1] = "synthesize"
<1>1. CASE s = Basic
  <2>1. /\ s \in Seq(Roles) /\ Len(s) = 2
        /\ s[1] = "searcher" /\ s[2] = "synthesize"
    BY <1>1, ListsSpelled
  <2>2. DOMAIN s = {1, 2} /\ DOMAIN s = 1 .. Len(s)
    BY <2>1
  <2>3. Repeated(s) = 1
    BY <2>1 DEF Repeated
  <2> QED
    BY <2>1, <2>2, <2>3 DEF RolesOf
<1>2. CASE s = WithMemory
  <2>1. /\ s \in Seq(Roles) /\ Len(s) = 3
        /\ s[1] = "searcher" /\ s[2] = "memory_agent" /\ s[3] = "synthesize"
    BY <1>2, ListsSpelled
  <2>2. DOMAIN s = {1, 2, 3} /\ DOMAIN s = 1 .. Len(s)
    BY <2>1
  <2>3. Repeated(s) = 1
    BY <2>1 DEF Repeated
  <2> QED
    BY <2>1, <2>2, <2>3 DEF RolesOf
<1>3. CASE s = WithRisk
  <2>1. /\ s \in Seq(Roles) /\ Len(s) = 3
        /\ s[1] = "searcher" /\ s[2] = "synthesize" /\ s[3] = "risk_analyst"
    BY <1>3, ListsSpelled
  <2>2. DOMAIN s = {1, 2, 3} /\ DOMAIN s = 1 .. Len(s)
    BY <2>1
  <2>3. Repeated(s) = 2
    BY <2>1 DEF Repeated
  <2> QED
    BY <2>1, <2>2, <2>3 DEF RolesOf
<1>4. CASE s = WithBoth
  <2>1. /\ s \in Seq(Roles) /\ Len(s) = 4
        /\ s[1] = "searcher" /\ s[2] = "memory_agent"
        /\ s[3] = "synthesize" /\ s[4] = "risk_analyst"
    BY <1>4, ListsSpelled
  <2>2. DOMAIN s = {1, 2, 3, 4} /\ DOMAIN s = 1 .. Len(s)
    BY <2>1
  <2>3. Repeated(s) = 2
    BY <2>1 DEF Repeated
  <2> QED
    BY <2>1, <2>2, <2>3 DEF RolesOf
<1> QED
  BY <1>1, <1>2, <1>3, <1>4 DEF RoleLists

LEMMA JoinedFour ==
  ASSUME NEW p \in Seq(Roles), NEW q \in Seq(Roles), NEW r \in Seq(Roles),
         NEW s \in Seq(Roles),
         Len(p) \in {0, 1}, Len(q) \in {0, 1}, Len(r) \in {0, 1}, Len(s) \in {0, 1},
         NEW u, u = p \o q \o r \o s
  PROVE  /\ u \in Seq(Roles)
         /\ Len(u) = Len(p) + Len(q) + Len(r) + Len(s)
         /\ Len(p) = 1 /\ Len(q) = 1 => u[1] = p[1] /\ u[2] = q[1]
         /\ Len(p) = 0 /\ Len(q) = 0 /\ Len(r) = 1 =>
              u[1] = r[1] /\ (Len(s) = 1 => u[2] = s[1])
<1> DEFINE y == p \o q
           z == y \o r
           a == Len(p)
           b == Len(q)
           c == Len(r)
           d == Len(s)
<1>1. a \in {0, 1} /\ b \in {0, 1} /\ c \in {0, 1} /\ d \in {0, 1}
  OBVIOUS
<1> HIDE DEF a, b, c, d
<1>2. y \in Seq(Roles) /\ Len(y) = a + b /\ (a = 1 /\ b = 1 => y[1] = p[1] /\ y[2] = q[1])
  BY <1>1, ConcatProperties DEF a, b
<1> HIDE DEF y
<1>3. /\ z \in Seq(Roles) /\ Len(z) = a + b + c
      /\ a = 1 /\ b = 1 => z[1] = p[1] /\ z[2] = q[1]
      /\ a = 0 /\ b = 0 /\ c = 1 => z[1] = r[1]
  BY <1>1, <1>2, ConcatProperties DEF c
<1>3a. u = z \o s
  BY DEF y, z
<1> HIDE DEF z
<1>4. /\ u \in Seq(Roles) /\ Len(u) = a + b + c + d
      /\ a = 1 /\ b = 1 => u[1] = p[1] /\ u[2] = q[1]
      /\ a = 0 /\ b = 0 /\ c = 1 => u[1] = r[1] /\ (d = 1 => u[2] = s[1])
  BY <1>1, <1>3, <1>3a, ConcatProperties DEF d
<1> QED
  BY <1>4 DEF a, b, c, d

\* The canonical order of the roles of a group, and of those a revision repeats.
LEMMA OrderedPieces ==
  ASSUME NEW S
  PROVE  /\ OrderedSubset(S) \in Seq(Roles)
         /\ "searcher" \in S /\ "memory_agent" \in S /\ "synthesize" \notin S
              /\ "risk_analyst" \notin S
            => /\ Len(OrderedSubset(S)) = 2 /\ OrderedSubset(S)[1] = "searcher"
               /\ OrderedSubset(S)[2] = "memory_agent"
         /\ "searcher" \notin S /\ "memory_agent" \notin S /\ "synthesize" \in S
            => /\ Len(OrderedSubset(S)) = IF "risk_analyst" \in S THEN 2 ELSE 1
               /\ OrderedSubset(S)[1] = "synthesize"
               /\ "risk_analyst" \in S => OrderedSubset(S)[2] = "risk_analyst"
<1> DEFINE at(r) == IF r \in S THEN <<r>> ELSE <<>>
           p == at("searcher")
           q == at("memory_agent")
           r == at("synthesize")
           s == at("risk_analyst")
           u == OrderedSubset(S)
<1>1. u = p \o q \o r \o s
  <2> DEFINE nth(i) == IF RoleOrder[i] \in S THEN <<RoleOrder[i]>> ELSE <<>>
  <2>1. u = nth(1) \o nth(2) \o nth(3) \o nth(4)
    BY DEF OrderedSubset
  <2>2. /\ RoleOrder[1] = "searcher" /\ RoleOrder[2] = "memory_agent"
        /\ RoleOrder[3] = "synthesize" /\ RoleOrder[4] = "risk_analyst"
    BY DEF RoleOrder
  <2>3. nth(1) = p /\ nth(2) = q /\ nth(3) = r /\ nth(4) = s
    BY <2>2
  <2> HIDE DEF nth, p, q, r, s, u
  <2> QED
    BY <2>1, <2>3
<1>2. ASSUME NEW x \in Roles
      PROVE  /\ at(x) \in Seq(Roles)
             /\ x \in S => Len(at(x)) = 1 /\ at(x)[1] = x
             /\ x \notin S => Len(at(x)) = 0
  <2>1. CASE x \in S
    BY <2>1
  <2>2. CASE x \notin S
    BY <2>2
  <2> QED
    BY <2>1, <2>2
<1> HIDE DEF at, u
<1>3. /\ p \in Seq(Roles) /\ Len(p) \in {0, 1}
      /\ "searcher" \in S => Len(p) = 1 /\ p[1] = "searcher"
      /\ "searcher" \notin S => Len(p) = 0
  BY <1>2, RolesAre
<1>4. /\ q \in Seq(Roles) /\ Len(q) \in {0, 1}
      /\ "memory_agent" \in S => Len(q) = 1 /\ q[1] = "memory_agent"
      /\ "memory_agent" \notin S => Len(q) = 0
  BY <1>2, RolesAre
<1>5. /\ r \in Seq(Roles) /\ Len(r) \in {0, 1}
      /\ "synthesize" \in S => Len(r) = 1 /\ r[1] = "synthesize"
      /\ "synthesize" \notin S => Len(r) = 0
  BY <1>2, RolesAre
<1>6. /\ s \in Seq(Roles) /\ Len(s) \in {0, 1}
      /\ "risk_analyst" \in S => Len(s) = 1 /\ s[1] = "risk_analyst"
      /\ "risk_analyst" \notin S => Len(s) = 0
  BY <1>2, RolesAre
<1> HIDE DEF p, q, r, s
<1>7. /\ u \in Seq(Roles)
      /\ Len(u) = Len(p) + Len(q) + Len(r) + Len(s)
      /\ Len(p) = 1 /\ Len(q) = 1 => u[1] = p[1] /\ u[2] = q[1]
      /\ Len(p) = 0 /\ Len(q) = 0 /\ Len(r) = 1 =>
           u[1] = r[1] /\ (Len(s) = 1 => u[2] = s[1])
  <2>1. /\ p \in Seq(Roles) /\ q \in Seq(Roles) /\ r \in Seq(Roles) /\ s \in Seq(Roles)
        /\ Len(p) \in {0, 1} /\ Len(q) \in {0, 1} /\ Len(r) \in {0, 1} /\ Len(s) \in {0, 1}
    BY <1>3, <1>4, <1>5, <1>6
  <2> QED
    BY <1>1, <2>1, JoinedFour
<1>8. ASSUME "searcher" \in S, "memory_agent" \in S, "synthesize" \notin S,
             "risk_analyst" \notin S
      PROVE  Len(u) = 2 /\ u[1] = "searcher" /\ u[2] = "memory_agent"
  <2>1. Len(p) = 1 /\ p[1] = "searcher" /\ Len(q) = 1 /\ q[1] = "memory_agent"
        /\ Len(r) = 0 /\ Len(s) = 0
    BY <1>3, <1>4, <1>5, <1>6, <1>8
  <2> QED
    BY <1>7, <2>1
<1>9. ASSUME "searcher" \notin S, "memory_agent" \notin S, "synthesize" \in S
      PROVE  /\ Len(u) = (IF "risk_analyst" \in S THEN 2 ELSE 1)
             /\ u[1] = "synthesize"
             /\ "risk_analyst" \in S => u[2] = "risk_analyst"
  <2>1. Len(p) = 0 /\ Len(q) = 0 /\ Len(r) = 1 /\ r[1] = "synthesize"
    BY <1>3, <1>4, <1>5, <1>9
  <2>2. CASE "risk_analyst" \in S
    <3>1. Len(s) = 1 /\ s[1] = "risk_analyst"
      BY <1>6, <2>2
    <3> QED
      BY <1>7, <2>1, <2>2, <3>1
  <2>3. CASE "risk_analyst" \notin S
    <3>1. Len(s) = 0
      BY <1>6, <2>3
    <3> QED
      BY <1>7, <2>1, <2>3, <3>1
  <2> QED
    BY <2>2, <2>3
<1> QED
  BY <1>7, <1>8, <1>9 DEF u

\* The roles a revision repeats end the list.
LEMMA RevisedEndsTheList ==
  ASSUME ListKnown
  PROVE  /\ Len(Revised) = Repeated(RoleList)
         /\ \A k \in 1 .. Repeated(RoleList) :
              Revised[k] = RoleList[Len(RoleList) - Repeated(RoleList) + k]
<1> DEFINE s == RoleList
           f == Len(s)
           a == Repeated(s)
           S == {RoleList[i] : i \in DOMAIN RoleList} \ ParallelRoles
<1>1. /\ s \in Seq(Roles) /\ f \in {2, 3, 4} /\ DOMAIN s = 1 .. f
      /\ "risk_analyst" \in RolesOf(s) <=> s[f] = "risk_analyst"
      /\ a \in {1, 2} /\ a < f /\ s[f - a + 1] = "synthesize"
  BY RoleListKnown, ListFacts
<1>2. /\ "searcher" \notin S /\ "memory_agent" \notin S
      /\ ("risk_analyst" \in S) <=> ("risk_analyst" \in RolesOf(s))
      /\ ("synthesize" \in S) <=> ("synthesize" \in RolesOf(s))
  BY DEF ParallelRoles, RolesOf
<1>3. "synthesize" \in S
  BY <1>1, <1>2 DEF RolesOf
<1>4. Revised = OrderedSubset(S)
  BY DEF Revised
<1>5. a = IF s[f] = "risk_analyst" THEN 2 ELSE 1
  BY DEF Repeated
<1> HIDE DEF s, f, a, S
<1>6. /\ Len(Revised) = a
      /\ Revised[1] = "synthesize"
      /\ s[f] = "risk_analyst" => Revised[2] = s[f]
  BY <1>1, <1>2, <1>3, <1>4, <1>5, OrderedPieces
<1>7. \A k \in 1 .. a : Revised[k] = s[f - a + k]
  <2> SUFFICES ASSUME NEW k \in 1 .. a PROVE Revised[k] = s[f - a + k]
    OBVIOUS
  <2>1. CASE k = 1
    BY <1>1, <1>6, <2>1
  <2>2. CASE k = 2
    BY <1>1, <1>5, <1>6, <2>2
  <2> QED
    BY <1>1, <2>1, <2>2
<1> QED
  BY <1>6, <1>7 DEF s, f, a

LEMMA NextInList ==
  ASSUME ListKnown, NEW i \in DOMAIN RoleList
  PROVE  NextRoleAfter(RoleList[i]) =
           IF i < Len(RoleList) THEN RoleList[i + 1] ELSE "merge"
<1> DEFINE s == RoleList
           f == Len(s)
           later == {k \in DOMAIN RoleList : k > 1 /\ RoleList[k - 1] = RoleList[i]}
<1>1. /\ f \in {2, 3, 4} /\ DOMAIN s = 1 .. f
      /\ \A j, k \in DOMAIN s : s[j] = s[k] => j = k
  BY RoleListKnown, ListFacts
<1>2. NextRoleAfter(s[i]) = IF later = {} THEN "merge" ELSE s[CHOOSE k \in later : TRUE]
  BY DEF NextRoleAfter
<1>3. \A k \in later : k = i + 1 /\ i < f
  BY <1>1
<1>4. i < f => i + 1 \in later
  BY <1>1
<1>5. i < f => later = {i + 1}
  BY <1>3, <1>4
<1>6. ~(i < f) => later = {}
  BY <1>3
<1> HIDE DEF later
<1> QED
  BY <1>2, <1>5, <1>6

\* The role of the nth result of a run that has made enough revisions.
Expected(n) ==
  IF n <= Len(RoleList) THEN RoleList[n]
    ELSE Revised[((n - Len(RoleList) - 1) % Len(Revised)) + 1]

\* The ith role of the list, in any pass that runs it.
LEMMA ExpectedInPass ==
  ASSUME ListKnown, NEW i \in DOMAIN RoleList, NEW q \in Nat,
         q > 0 => i > Len(RoleList) - Repeated(RoleList)
  PROVE  Expected(q * Repeated(RoleList) + i) = RoleList[i]
<1> DEFINE s == RoleList
           f == Len(s)
           a == Repeated(s)
           n == q * a + i
<1>1. /\ f \in {2, 3, 4} /\ DOMAIN s = 1 .. f /\ a \in {1, 2} /\ a < f
  BY RoleListKnown, ListFacts
<1>2. /\ Len(Revised) = a
      /\ \A k \in 1 .. a : Revised[k] = s[f - a + k]
  BY RevisedEndsTheList
<1>3. Expected(n) = IF n <= f THEN s[n] ELSE Revised[((n - f - 1) % a) + 1]
  BY <1>2 DEF Expected
<1>4. i \in 1 .. f /\ (q > 0 => i > f - a)
  BY <1>1
<1> HIDE DEF s, f, a
<1>5. CASE q = 0
  <2>1. n = i
    BY <1>1, <1>4, <1>5
  <2> QED
    BY <1>1, <1>3, <1>4, <2>1 DEF s, a
<1>6. CASE q > 0
  <2> DEFINE j == i - (f - a) - 1
  <2>1. j \in 0 .. (a - 1)
    BY <1>1, <1>4, <1>6
  <2>2. n > f /\ n - f - 1 = (q - 1) * a + j /\ q - 1 \in Nat
    <3>1. CASE a = 1
      BY <1>1, <1>4, <1>6, <3>1
    <3>2. CASE a = 2
      BY <1>1, <1>4, <1>6, <3>2
    <3> QED
      BY <1>1, <3>1, <3>2
  <2>3. ((q - 1) * a + j) % a = j
    <3>1. CASE a = 1
      BY <2>1, <2>2, <3>1
    <3>2. CASE a = 2
      BY <2>1, <2>2, <3>2
    <3> QED
      BY <1>1, <3>1, <3>2
  <2>4. n \in Nat
    <3>1. CASE a = 1
      BY <1>1, <1>4, <3>1
    <3>2. CASE a = 2
      BY <1>1, <1>4, <3>2
    <3> QED
      BY <1>1, <3>1, <3>2
  <2> HIDE DEF n
  <2>5. Expected(n) = Revised[j + 1]
    <3>1. ~(n <= f)
      BY <1>1, <2>2, <2>4
    <3>2. (n - f - 1) % a = j
      <4> DEFINE x == (q - 1) * a + j
      <4>1. n - f - 1 = x /\ x % a = j
        BY <2>2, <2>3
      <4> HIDE DEF x
      <4> QED
        BY <4>1
    <3> HIDE DEF j
    <3> QED
      BY <1>3, <3>1, <3>2
  <2>6. Revised[j + 1] = s[f - a + (j + 1)] /\ f - a + (j + 1) = i
    <3>0. i \in Int /\ f \in Int /\ a \in Int
      BY <1>1, <1>4
    <3>1. j + 1 \in 1 .. a
      BY <2>1, <3>0
    <3>2. f - a + (j + 1) = i
      BY <3>0
    <3> HIDE DEF j
    <3> QED
      BY <1>2, <3>1, <3>2
  <2> QED
    BY <2>5, <2>6 DEF n, s, a
<1> QED
  BY <1>5, <1>6

\* How many results there are before the ith role of the current pass.
Before(i) == retries * Repeated(RoleList) + i - 1

\* Each pass starts at synthesize except the first, and adds one result per role.
InPass ==
  node \in Roles =>
    \E i \in DOMAIN RoleList :
      /\ node = RoleList[i]
      /\ Len(results) = Before(i)
      /\ retries > 0 => i > Len(RoleList) - Repeated(RoleList)

PassDone == node \in AfterRoles => Len(results) = Before(Len(RoleList) + 1)

\* The router decides once, before any role has run.
ListIsAllocated ==
  /\ allocation \in {<<>>, AllocatedRoles}
  /\ node \in EarlyNodes => allocation = <<>>
  /\ node = "parallel_roles" => "memory_agent" \in RolesOf(RoleList)

Unstarted ==
  node \in EarlyNodes \cup {"parallel_roles"} => results = <<>> /\ retries = 0

ResultsExpected == \A n \in DOMAIN results : results[n].role = Expected(n)

RolesInv ==
  /\ results \in Seq(ResultSet)
  /\ retries \in Nat
  /\ ListIsAllocated
  /\ Unstarted
  /\ InPass
  /\ PassDone
  /\ ResultsExpected

LEMMA SameList ==
  ASSUME UNCHANGED allocation
  PROVE  /\ RoleList' = RoleList
         /\ \A n \in Nat : Expected(n)' = Expected(n)
<1>1. RoleList' = RoleList
  BY DEF RoleList
<1>2. Revised' = Revised
  BY <1>1 DEF Revised
<1> QED
  BY <1>1, <1>2 DEF Expected

LEMMA PassesAreWhole ==
  ASSUME ListKnown, NEW q \in Nat
  PROVE  /\ q * Repeated(RoleList) \in Nat
         /\ (q + 1) * Repeated(RoleList) = q * Repeated(RoleList) + Repeated(RoleList)
<1>1. Repeated(RoleList) \in {1, 2}
  BY RoleListKnown, ListFacts
<1>2. CASE Repeated(RoleList) = 1
  BY <1>2
<1>3. CASE Repeated(RoleList) = 2
  BY <1>3
<1> QED
  BY <1>1, <1>2, <1>3

LEMMA RolesInit == Init => RolesInv
<1> SUFFICES ASSUME Init PROVE RolesInv
  OBVIOUS
<1>1. results = <<>> /\ retries = 0 /\ allocation = <<>> /\ node = "collect_context"
  BY DEF Init
<1>2. results \in Seq(ResultSet) /\ DOMAIN results = {}
  BY <1>1, EmptySeq
<1>3. node \notin Roles /\ node \notin AfterRoles
  BY <1>1, RolesAre DEF AfterRoles
<1>4. ListIsAllocated /\ Unstarted /\ InPass /\ PassDone
  BY <1>1, <1>3 DEF ListIsAllocated, Unstarted, InPass, PassDone
<1>5. ResultsExpected
  BY <1>2 DEF ResultsExpected
<1> QED
  BY <1>1, <1>2, <1>4, <1>5 DEF RolesInv

\* The nodes, and the steps of the group, that add no result.
LEMMA RolesAside ==
  ASSUME RolesInv, UNCHANGED <<request, allocation, results, retries>>,
         node' \in {node, "FAILED"} \/ (node \in AfterRoles /\ node' \in AfterRoles)
  PROVE  RolesInv'
<1>1. /\ RoleList' = RoleList
      /\ \A n \in Nat : Expected(n)' = Expected(n)
  BY SameList
<1>2. AllocatedRoles' = AllocatedRoles
  BY DEF AllocatedRoles, RefinedRoles, RiskIsMandatory
<1>3. "FAILED" \notin Roles /\ "FAILED" \notin AfterRoles /\ "FAILED" \notin EarlyNodes
  BY RolesAre DEF AfterRoles, EarlyNodes
<1>4. \A n \in AfterRoles : n \notin Roles /\ n \notin EarlyNodes /\ n # "parallel_roles"
  BY RolesAre DEF AfterRoles, EarlyNodes
<1>5. ListIsAllocated'
  BY <1>1, <1>2, <1>3, <1>4 DEF RolesInv, ListIsAllocated
<1>6. Unstarted'
  BY <1>3, <1>4 DEF RolesInv, Unstarted
<1>7. InPass'
  BY <1>1, <1>3, <1>4 DEF RolesInv, InPass, Before
<1>8. PassDone'
  BY <1>1, <1>3, <1>4 DEF RolesInv, PassDone, Before
<1>9. ResultsExpected'
  BY <1>1 DEF RolesInv, ResultsExpected
<1> QED
  BY <1>5, <1>6, <1>7, <1>8, <1>9 DEF RolesInv

\* Before the first role.
LEMMA RolesBegin ==
  ASSUME GroupInv', results' = <<>>, retries' = 0, ListIsAllocated',
         node' \in EarlyNodes \cup {"parallel_roles", RoleList'[1]}
  PROVE  RolesInv'
<1>1. ListKnown'
  BY DEF GroupInv
<1>2. /\ RoleList'[1] = "searcher" /\ 1 \in DOMAIN RoleList'
  <2> DEFINE s == RoleList'
  <2>1. s \in RoleLists
    BY <1>1 DEF ListKnown, RoleList, RoleLists, RoleOrder, WithBoth
  <2>2. s[1] = "searcher" /\ Len(s) \in {2, 3, 4} /\ DOMAIN s = 1 .. Len(s)
    <3> HIDE DEF s
    <3> QED
      BY <2>1, ListFacts
  <2> QED
    BY <2>2
<1>3. results' \in Seq(ResultSet) /\ DOMAIN results' = {} /\ Len(results') = 0
  BY EmptySeq
<1>4. /\ node' \notin AfterRoles
      /\ node' \in Roles => node' = "searcher"
      /\ node' \in EarlyNodes \cup {"parallel_roles", "searcher"}
  BY <1>2, RolesAre DEF AfterRoles, EarlyNodes
<1>5. Unstarted'
  BY DEF Unstarted
<1>6. InPass'
  <2>1. Before(1)' = 0
    <3>1. Repeated(RoleList') \in {1, 2}
      BY DEF Repeated
    <3> QED
      BY <3>1 DEF Before
  <2> QED
    BY <1>2, <1>3, <1>4, <2>1 DEF InPass
<1>7. PassDone' /\ ResultsExpected'
  BY <1>3, <1>4 DEF PassDone, ResultsExpected
<1> QED
  BY <1>3, <1>5, <1>6, <1>7 DEF RolesInv

\* Once a role or a group has added its results up to the ith role, the pass goes on
\* with the next role or is done.
LEMMA PassGoesOn ==
  ASSUME ListKnown, retries \in Nat, UNCHANGED <<allocation, retries>>,
         NEW i \in DOMAIN RoleList, Len(results') = Before(i) + 1,
         retries > 0 => i > Len(RoleList) - Repeated(RoleList),
         node' = NextRoleAfter(RoleList[i])
  PROVE  /\ InPass' /\ PassDone' /\ Unstarted'
         /\ node' \notin EarlyNodes \cup {"parallel_roles"}
<1> DEFINE s == RoleList
           f == Len(s)
           m == retries * Repeated(s)
<1>1. /\ f \in {2, 3, 4} /\ DOMAIN s = 1 .. f /\ s \in Seq(Roles)
      /\ Repeated(s) \in {1, 2}
  BY RoleListKnown, ListFacts
<1>2. RoleList' = s
  BY SameList
<1>3. m \in Nat
  BY PassesAreWhole
<1>4. node' = IF i < f THEN s[i + 1] ELSE "merge"
  BY NextInList
<1>5. Len(results') = m + i
  BY <1>1, <1>3 DEF Before
<1>6. "merge" \in AfterRoles /\ "merge" \notin Roles
  BY RolesAre DEF AfterRoles
<1>7. \A r \in Roles \cup {"merge"} : r \notin EarlyNodes \cup {"parallel_roles"}
  BY RolesAre DEF EarlyNodes
<1>8. \A r \in Roles : r \notin AfterRoles
  BY RolesAre DEF AfterRoles
<1>a. \A k \in Int : Before(k)' = m + k - 1
  BY <1>2 DEF Before
<1> HIDE DEF f, m
<1>9. CASE i < f
  <2>1. i + 1 \in DOMAIN s /\ node' = s[i + 1] /\ node' \in Roles
    BY <1>1, <1>4, <1>9
  <2>2. Before(i + 1)' = m + i
    BY <1>1, <1>3, <1>a
  <2>3. retries' > 0 => i + 1 > Len(RoleList') - Repeated(RoleList')
    BY <1>1, <1>2 DEF f
  <2>4. InPass'
    <3>1. Len(results') = Before(i + 1)'
      BY <1>5, <2>2
    <3> HIDE DEF s
    <3> QED
      BY <1>2, <2>1, <2>3, <3>1 DEF InPass
  <2> QED
    BY <1>7, <1>8, <2>1, <2>4 DEF PassDone, Unstarted
<1>10. CASE ~(i < f)
  <2>1. node' = "merge" /\ i = f
    BY <1>1, <1>4, <1>10
  <2>2. Len(results') = m + (f + 1) - 1
    BY <1>1, <1>3, <1>5, <2>1
  <2>3. PassDone'
    BY <1>2, <2>2 DEF PassDone, Before, f, m
  <2> QED
    BY <1>6, <1>7, <2>1, <2>3 DEF InPass, Unstarted
<1> QED
  BY <1>9, <1>10

\* A role adds its result.
LEMMA RolesRun ==
  ASSUME GroupInv, RolesInv, NEW role \in Roles, RunRole(role)
  PROVE  RolesInv'
<1>1. ListKnown /\ evidence \in [cited : BOOLEAN, sufficient : BOOLEAN]
  BY DEF GroupInv, GroupTypes
<1>2. /\ results \in Seq(ResultSet) /\ retries \in Nat /\ InPass /\ ResultsExpected
      /\ ListIsAllocated
  BY DEF RolesInv
<1>3. node = role /\ UNCHANGED <<request, allocation, retries>>
  BY DEF RunRole, At, reviewVars
<1>4. PICK i \in DOMAIN RoleList :
        /\ role = RoleList[i]
        /\ Len(results) = Before(i)
        /\ retries > 0 => i > Len(RoleList) - Repeated(RoleList)
  BY <1>2, <1>3 DEF InPass
<1>5. PICK r \in ResultsOf(role) : results' = Append(results, r)
  BY DEF RunRole
<1>6. r \in ResultSet /\ r.role = role
  BY <1>1, ResultsAreResults
<1> DEFINE n == Len(results)
           t == results'
<1>7. /\ n \in Nat /\ t \in Seq(ResultSet) /\ Len(t) = n + 1
      /\ \A k \in 1 .. n : t[k] = results[k]
      /\ t[n + 1] = r
      /\ DOMAIN results = 1 .. n /\ DOMAIN t = 1 .. n + 1
  BY <1>2, <1>5, <1>6, AppendProperties
<1>8. Expected(n + 1) = role
  <2>1. /\ retries * Repeated(RoleList) \in Nat
        /\ i \in Nat
    <3>1. DOMAIN RoleList = 1 .. Len(RoleList) /\ Len(RoleList) \in {2, 3, 4}
      BY <1>1, RoleListKnown, ListFacts
    <3>2. retries * Repeated(RoleList) \in Nat
      BY <1>1, <1>2, PassesAreWhole
    <3> QED
      BY <3>1, <3>2
  <2>2. n + 1 = retries * Repeated(RoleList) + i
    <3> DEFINE m == retries * Repeated(RoleList)
    <3>1. n = m + i - 1
      BY <1>4 DEF Before
    <3> HIDE DEF m, n
    <3>2. n + 1 = m + i
      BY <1>7, <2>1, <3>1 DEF m
    <3> QED
      BY <3>2 DEF m
  <2> QED
    BY <1>1, <1>2, <1>4, <2>2, ExpectedInPass
<1>9. ResultsExpected'
  <2>1. \A k \in Nat : Expected(k)' = Expected(k)
    BY <1>3, SameList
  <2>2. \A k \in 1 .. n : t[k].role = Expected(k)
    BY <1>2, <1>7 DEF ResultsExpected
  <2>3. t[n + 1].role = Expected(n + 1)
    BY <1>6, <1>7, <1>8
  <2> HIDE DEF n, t
  <2>4. \A k \in 1 .. n + 1 : k \in Nat /\ (k \in 1 .. n \/ k = n + 1)
    BY <1>7
  <2>5. \A k \in DOMAIN t : t[k].role = Expected(k)'
    BY <1>7, <2>1, <2>2, <2>3, <2>4
  <2> QED
    BY <2>5 DEF ResultsExpected, t
<1>10. /\ InPass' /\ PassDone' /\ Unstarted'
       /\ node' \notin EarlyNodes \cup {"parallel_roles"}
  <2>1. Len(results') = Before(i) + 1
    BY <1>4, <1>7
  <2>2. node' = NextRoleAfter(RoleList[i])
    BY <1>4 DEF RunRole
  <2> QED
    BY <1>1, <1>2, <1>3, <1>4, <2>1, <2>2, PassGoesOn
<1>11. ListIsAllocated'
  BY <1>2, <1>3, <1>10 DEF ListIsAllocated, AllocatedRoles, RefinedRoles, RiskIsMandatory
<1> QED
  BY <1>2, <1>3, <1>7, <1>9, <1>10, <1>11 DEF RolesInv

\* The deltas of a whole group, in canonical order.
LEMMA MergedInOrder ==
  ASSUME GroupInv, \A r \in ParallelRoles : branch[r] = "collected",
         node = "parallel_roles", mode \in {"parallel", "sequential"}
  PROVE  /\ MergeRoleDeltas \in Seq(ResultSet) /\ Len(MergeRoleDeltas) = 2
         /\ MergeRoleDeltas[1].role = "searcher"
         /\ MergeRoleDeltas[2].role = "memory_agent"
<1> DEFINE order == OrderedSubset({collected[i] : i \in DOMAIN collected})
<1>1. ParallelRoles = {"searcher", "memory_agent"}
  BY DEF ParallelRoles
<1>2. {collected[i] : i \in DOMAIN collected} = ParallelRoles
  <2>1. {r \in ParallelRoles : branch[r] = "collected"} = ParallelRoles
    OBVIOUS
  <2> QED
    BY <2>1 DEF GroupInv, CollectedMatches, Collecting
<1>3. /\ order \in Seq(Roles) /\ Len(order) = 2 /\ order[1] = "searcher"
      /\ order[2] = "memory_agent"
  BY <1>1, <1>2, OrderedPieces
<1>4. MergeRoleDeltas = [i \in DOMAIN order |-> delta[order[i]]]
  BY DEF MergeRoleDeltas
<1>5. /\ delta["searcher"] \in ResultSet /\ delta["searcher"].role = "searcher"
      /\ delta["memory_agent"] \in ResultSet /\ delta["memory_agent"].role = "memory_agent"
  BY <1>1 DEF GroupInv, DeltasAreResults
<1> HIDE DEF order
<1>6. DOMAIN order = 1 .. 2 /\ (\A i \in 1 .. 2 : i = 1 \/ i = 2)
  BY <1>3
<1>7. MergeRoleDeltas = [i \in 1 .. 2 |-> delta[order[i]]]
  BY <1>4, <1>6
<1>8. \A i \in 1 .. 2 : delta[order[i]] \in ResultSet
  BY <1>3, <1>5, <1>6
<1>9. MergeRoleDeltas \in Seq(ResultSet) /\ Len(MergeRoleDeltas) = 2
  BY <1>7, <1>8
<1>10. MergeRoleDeltas[1] = delta["searcher"] /\ MergeRoleDeltas[2] = delta["memory_agent"]
  BY <1>3, <1>7
<1> QED
  BY <1>5, <1>9, <1>10

LEMMA NoOtherResults == results = <<>> => OtherResults = <<>>
<1> SUFFICES ASSUME results = <<>> PROVE OtherResults = <<>>
  OBVIOUS
<1> DEFINE others == {i \in DOMAIN results : results[i].role \notin ParallelRoles}
           nth(k) == CHOOSE i \in others : Cardinality({j \in others : j <= i}) = k
<1>1. OtherResults = [k \in 1 .. Cardinality(others) |-> results[nth(k)]]
  BY DEF OtherResults
<1>2. others = {}
  <2>1. DOMAIN results = {}
    BY EmptySeq
  <2> QED
    BY <2>1
<1>3. Cardinality(others) = 0
  BY <1>2, FS_EmptySet
<1> HIDE DEF others, nth
<1>4. OtherResults = [k \in 1 .. 0 |-> results[nth(k)]]
  BY <1>1, <1>3
<1>5. OtherResults \in Seq({}) /\ Len(OtherResults) = 0
  BY <1>4
<1> QED
  BY <1>5, EmptySeq

\* A finished group adds the results of its two roles.
LEMMA RolesFinish ==
  ASSUME GroupInv, RolesInv, FinishGroup
  PROVE  RolesInv'
<1>1. ListKnown /\ node = "parallel_roles"
  BY DEF GroupInv, GroupAtItsNode, FinishGroup
<1>2. /\ results = <<>> /\ retries = 0 /\ "memory_agent" \in RolesOf(RoleList)
      /\ ListIsAllocated
  BY <1>1 DEF RolesInv, Unstarted, ListIsAllocated
<1>3. UNCHANGED <<request, allocation, retries>>
  BY DEF FinishGroup, reviewVars
<1>4. /\ RoleList[1] = "searcher" /\ RoleList[2] = "memory_agent"
      /\ Len(RoleList) > 2 /\ Len(RoleList) \in {2, 3, 4}
      /\ DOMAIN RoleList = 1 .. Len(RoleList) /\ Repeated(RoleList) \in {1, 2}
  BY <1>1, <1>2, RoleListKnown, ListFacts
<1> DEFINE t == results'
<1>5. t = MergeRoleDeltas
  <2>1. MergeRoleDeltas \in Seq(ResultSet)
    BY <1>1, MergedInOrder DEF FinishGroup
  <2>2. t = OtherResults \o MergeRoleDeltas
    BY DEF FinishGroup
  <2> QED
    BY <1>2, <2>1, <2>2, NoOtherResults, ConcatEmptySeq
<1>6. /\ t \in Seq(ResultSet) /\ Len(t) = 2 /\ DOMAIN t = 1 .. 2
      /\ t[1].role = "searcher" /\ t[2].role = "memory_agent"
  BY <1>1, <1>5, MergedInOrder DEF FinishGroup
<1>7. ResultsExpected'
  <2>1. RoleList' = RoleList
    BY <1>3, SameList
  <2>2. Expected(1)' = "searcher" /\ Expected(2)' = "memory_agent"
    BY <1>4, <2>1 DEF Expected
  <2>3. \A k \in 1 .. 2 : k = 1 \/ k = 2
    OBVIOUS
  <2> HIDE DEF t
  <2>4. \A k \in DOMAIN t : t[k].role = Expected(k)'
    BY <1>6, <2>2, <2>3
  <2> QED
    BY <2>4 DEF ResultsExpected, t
<1>8. /\ InPass' /\ PassDone' /\ Unstarted'
      /\ node' \notin EarlyNodes \cup {"parallel_roles"}
  <2>1. 2 \in DOMAIN RoleList
    BY <1>4
  <2>2. Len(results') = Before(2) + 1
    BY <1>2, <1>4, <1>6 DEF Before
  <2>3. node' = NextRoleAfter(RoleList[2])
    BY <1>4 DEF FinishGroup
  <2> QED
    BY <1>1, <1>2, <1>3, <2>1, <2>2, <2>3, PassGoesOn
<1>9. ListIsAllocated'
  BY <1>2, <1>3, <1>8 DEF ListIsAllocated, AllocatedRoles, RefinedRoles, RiskIsMandatory
<1> QED
  BY <1>2, <1>3, <1>6, <1>7, <1>8, <1>9 DEF RolesInv

\* A revision starts a new pass at synthesize.
LEMMA RolesRevise ==
  ASSUME GroupInv, RolesInv, node = "quality_check", node' = "synthesize",
         retries' = retries + 1, UNCHANGED <<request, allocation, results>>
  PROVE  RolesInv'
<1> DEFINE s == RoleList
           f == Len(s)
           a == Repeated(s)
           m == retries * a
           i == f - a + 1
<1>1. /\ f \in {2, 3, 4} /\ DOMAIN s = 1 .. f
      /\ a \in {1, 2} /\ a < f /\ s[i] = "synthesize"
      /\ retries \in Nat
  BY RoleListKnown, ListFacts DEF GroupInv, RolesInv
<1>2. RoleList' = s /\ \A n \in Nat : Expected(n)' = Expected(n)
  BY SameList
<1>3. Len(results) = m + (f + 1) - 1
  BY DEF RolesInv, PassDone, AfterRoles, Before
<1>4. m \in Nat /\ (retries + 1) * a = m + a
  BY <1>1, PassesAreWhole DEF GroupInv
<1>5. node' \in Roles /\ node' \notin AfterRoles /\ node' \notin EarlyNodes \cup {"parallel_roles"}
  BY RolesAre DEF AfterRoles, EarlyNodes
<1>6. InPass'
  <2> HIDE DEF f, a, m, i
  <2>1. i \in DOMAIN s /\ i > f - a
    BY <1>1 DEF i
  <2>2. Len(results') = (retries + 1) * a + i - 1
    <3>1. m + a + i - 1 = m + (f + 1) - 1
      BY <1>1, <1>4 DEF i
    <3>2. Len(results') = m + (f + 1) - 1
      BY <1>3
    <3> QED
      BY <1>4, <3>1, <3>2
  <2>3. \E k \in DOMAIN s : s[k] = "synthesize" /\ Len(results') = (retries + 1) * a + k - 1
                            /\ k > f - a
    BY <1>1, <2>1, <2>2
  <2> HIDE DEF s
  <2>4. \E k \in DOMAIN RoleList' :
          /\ node' = RoleList'[k]
          /\ Len(results') = retries' * Repeated(RoleList') + k - 1
          /\ k > Len(RoleList') - Repeated(RoleList')
    BY <1>2, <2>3 DEF f, a
  <2> QED
    BY <2>4 DEF InPass, Before
<1>7. PassDone' /\ Unstarted'
  BY <1>5 DEF PassDone, Unstarted
<1>8. ResultsExpected'
  <2>1. \A n \in DOMAIN results : n \in Nat
    BY DEF RolesInv
  <2> QED
    BY <1>2, <2>1 DEF RolesInv, ResultsExpected
<1>9. ListIsAllocated'
  BY <1>5 DEF RolesInv, ListIsAllocated, AllocatedRoles, RefinedRoles, RiskIsMandatory
<1> QED
  BY <1>1, <1>6, <1>7, <1>8, <1>9 DEF RolesInv

LEMMA RolesNodeStep == GroupInv /\ GroupInv' /\ RolesInv /\ NodeStep => RolesInv'
<1> SUFFICES ASSUME GroupInv, GroupInv', RolesInv, NodeStep PROVE RolesInv'
  OBVIOUS
<1> USE DEF At, reviewVars
<1>1. /\ node \in EarlyNodes => results = <<>> /\ retries = 0 /\ allocation = <<>>
  BY DEF RolesInv, Unstarted, ListIsAllocated
<1>2. CASE Retrieve
  <2>1. /\ results' = <<>> /\ retries' = 0 /\ allocation' = <<>>
        /\ node' = "sufficiency_gate"
    BY <1>1, <1>2 DEF Retrieve, EarlyNodes
  <2>2. ListIsAllocated'
    BY <2>1 DEF ListIsAllocated
  <2> QED
    BY <2>1, <2>2, RolesBegin DEF EarlyNodes
<1>3. CASE SufficiencyGate
  <2>1. /\ results' = <<>> /\ retries' = 0 /\ allocation' = <<>>
        /\ node' = "decompose"
    BY <1>1, <1>3 DEF SufficiencyGate, EarlyNodes
  <2>2. ListIsAllocated'
    BY <2>1 DEF ListIsAllocated
  <2> QED
    BY <2>1, <2>2, RolesBegin DEF EarlyNodes
<1>4. CASE Decompose
  <2>1. /\ results' = <<>> /\ retries' = 0 /\ allocation' = <<>>
        /\ node' \in {"role_router", "searcher"}
    BY <1>1, <1>4 DEF Decompose, EarlyNodes
  <2>2. ListIsAllocated'
    BY <2>1 DEF ListIsAllocated
  <2>3. RoleList'[1] = "searcher"
    BY <2>1 DEF RoleList, RoleOrder
  <2> QED
    BY <2>1, <2>2, <2>3, RolesBegin DEF EarlyNodes
<1>5. CASE RouteRoles
  <2>1. /\ results' = <<>> /\ retries' = 0 /\ allocation' = AllocatedRoles
        /\ node' = RouteFirst(AllocatedRoles) /\ request' = request
    BY <1>1, <1>5 DEF RouteRoles, EarlyNodes
  <2>2. AllocatedRoles' = AllocatedRoles
    BY <2>1 DEF AllocatedRoles, RefinedRoles, RiskIsMandatory
  <2>3. RoleList' = AllocatedRoles
    <3>1. Len(AllocatedRoles) \in {2, 3, 4}
      BY AllocatedIsList, ListFacts
    <3>2. AllocatedRoles # <<>>
      BY <3>1
    <3> QED
      BY <2>1, <3>2 DEF RoleList
  <2>4. \/ node' = "parallel_roles" /\ "memory_agent" \in RolesOf(AllocatedRoles)
        \/ node' = AllocatedRoles[1]
    BY <2>1 DEF RouteFirst, ParallelRoles, RolesOf
  <2>5. AllocatedRoles[1] = "searcher"
    BY AllocatedIsList, ListFacts
  <2>6. ListIsAllocated'
    BY <2>1, <2>2, <2>3, <2>4, <2>5 DEF ListIsAllocated, EarlyNodes
  <2>7. node' \in EarlyNodes \cup {"parallel_roles", RoleList'[1]}
    BY <2>3, <2>4
  <2> QED
    BY <2>1, <2>6, <2>7, RolesBegin
<1>6. ASSUME NEW role \in Roles, RunRole(role) PROVE RolesInv'
  BY <1>6, RolesRun
<1>7. CASE ProviderFails
  BY <1>7, RolesAside DEF ProviderFails
<1>8. CASE Merge
  BY <1>8, RolesAside DEF Merge, AfterRoles
<1>9. CASE GroundingCheck
  BY <1>9, RolesAside DEF GroundingCheck, AfterRoles
<1>10. CASE ProposeTools
  BY <1>10, RolesAside DEF ProposeTools, AfterRoles
<1>11. CASE CriticCheck
  BY <1>11, RolesAside DEF CriticCheck, AfterRoles
<1>12. CASE QualityCheck
  <2>1. CASE QualityDecision = "revise"
    BY <1>12, <2>1, RolesRevise DEF QualityCheck, RouteQuality
  <2>2. CASE QualityDecision # "revise"
    BY <1>12, <2>2, RolesAside DEF QualityCheck, RouteQuality, AfterRoles
  <2> QED
    BY <2>1, <2>2
<1>13. CASE SafetyCheck
  BY <1>13, RolesAside DEF SafetyCheck, AfterRoles
<1>14. CASE Finalize
  BY <1>14, RolesAside DEF Finalize, graphVars, AfterRoles
<1> QED
  BY <1>2, <1>3, <1>4, <1>5, <1>6, <1>7, <1>8, <1>9, <1>10, <1>11, <1>12, <1>13, <1>14
     DEF NodeStep

LEMMA RolesNext == GroupInv /\ GroupInv' /\ RolesInv /\ [Next]_vars => RolesInv'
<1> SUFFICES ASSUME GroupInv, GroupInv', RolesInv, [Next]_vars PROVE RolesInv'
  OBVIOUS
<1>1. CASE NodeStep
  BY <1>1, RolesNodeStep
<1>2. CASE GroupStep
  <2>1. CASE FinishGroup
    BY <2>1, RolesFinish
  <2>2. CASE ~FinishGroup
    <3>1. UNCHANGED graphVars /\ node' \in {node, "FAILED"}
      BY <1>2, <2>2 DEF GroupStep, SubmitBoth, RunInTurn, AcquireInTurn, BudgetExceeded,
         Collect, CollectFailure, CancelFutures, GiveUp
    <3> QED
      BY <3>1, RolesAside DEF graphVars, reviewVars
  <2> QED
    BY <2>1, <2>2
<1>3. ASSUME NEW role \in ParallelRoles, BranchStep(role) PROVE RolesInv'
  <2>1. UNCHANGED <<graphVars, node>>
    BY <1>3 DEF BranchStep, BranchStarts, BranchReturns, BranchRaises
  <2> QED
    BY <2>1, RolesAside DEF graphVars, reviewVars
<1>4. CASE UNCHANGED vars
  BY <1>4, RolesAside DEF vars, reviewVars
<1> QED
  BY <1>1, <1>2, <1>3, <1>4 DEF Next, Ended

THEOREM RolesInvariant == Spec => []RolesInv
<1>1. Init => RolesInv
  BY RolesInit
<1>2. GroupInv /\ GroupInv' /\ RolesInv /\ [Next]_vars => RolesInv'
  BY RolesNext
<1> QED
  BY <1>1, <1>2, GroupInvariant, PTL DEF Spec

\* When the roles are done, role_results holds the roles of the list once, in
\* canonical order, and those of a revision once more per revision, for every
\* revision budget and every order in which the branches finished.
THEOREM ResultsFollowTheList == Spec => []ResultsFollowAllocation
<1>1. ASSUME GroupInv, RolesInv PROVE ResultsFollowAllocation
  <2> SUFFICES ASSUME node \in AfterRoles
               PROVE  [i \in DOMAIN results |-> results[i].role] = ExpectedRoles
    BY DEF ResultsFollowAllocation
  <2> DEFINE f == Len(RoleList)
             m == retries * Len(Revised)
             n == Len(results)
  <2>1. Len(Revised) = Repeated(RoleList) /\ f \in {2, 3, 4}
        /\ retries * Repeated(RoleList) \in Nat
    BY <1>1, RevisedEndsTheList, RoleListKnown, ListFacts, PassesAreWhole
       DEF GroupInv, RolesInv
  <2>2. n = m + (f + 1) - 1
    BY <1>1, <2>1 DEF RolesInv, PassDone, Before
  <2>3. m \in Nat /\ f \in Nat
    BY <2>1
  <2>4. DOMAIN results = 1 .. n
    BY <1>1 DEF RolesInv
  <2>5. ExpectedRoles = [i \in 1 .. f + m |-> Expected(i)]
    BY DEF ExpectedRoles, Expected
  <2>6. \A i \in DOMAIN results : results[i].role = Expected(i)
    BY <1>1 DEF RolesInv, ResultsExpected
  <2> HIDE DEF f, m, n
  <2>7. n = f + m
    BY <2>2, <2>3
  <2>8. DOMAIN results = 1 .. f + m
    BY <2>4, <2>7
  <2> QED
    BY <2>5, <2>6, <2>8
<1> QED
  BY <1>1, GroupInvariant, RolesInvariant, PTL

\* No run that needs the risk analyst reaches the approval gate without its result.
THEOREM TheRiskAnalystRan == Spec => []MandatoryRoleRan
<1>1. ASSUME GroupInv, RolesInv PROVE MandatoryRoleRan
  <2> SUFFICES ASSUME node \in {"approval_gate", "END"}, RiskIsMandatory
               PROVE  \E i \in DOMAIN results : results[i].role = "risk_analyst"
    BY DEF MandatoryRoleRan, RiskIsMandatory, HasResult
  <2> DEFINE f == Len(RoleList)
             m == retries * Repeated(RoleList)
             n == Len(results)
  <2>1. /\ f \in {2, 3, 4} /\ DOMAIN RoleList = 1 .. f /\ m \in Nat
    BY <1>1, RoleListKnown, ListFacts, PassesAreWhole DEF GroupInv, RolesInv
  <2>2. n = m + (f + 1) - 1
    BY <1>1 DEF RolesInv, PassDone, Before, AfterRoles
  <2>3. RoleList[f] = "risk_analyst"
    <3>1. CASE allocation = <<>>
      BY <3>1 DEF RoleList, RoleOrder
    <3>2. CASE allocation = AllocatedRoles /\ allocation # <<>>
      BY <3>2, AllocatedIsList DEF RoleList
    <3> QED
      BY <1>1, <3>1, <3>2 DEF RolesInv, ListIsAllocated
  <2>4. DOMAIN results = 1 .. n
    BY <1>1 DEF RolesInv
  <2>5. \A i \in DOMAIN results : results[i].role = Expected(i)
    BY <1>1 DEF RolesInv, ResultsExpected
  <2>6. Expected(f) = RoleList[f]
    BY <2>1 DEF Expected
  <2> HIDE DEF f, m, n
  <2>7. f \in DOMAIN results
    BY <2>1, <2>2, <2>4
  <2> QED
    BY <2>3, <2>5, <2>6, <2>7
<1> QED
  BY <1>1, GroupInvariant, RolesInvariant, PTL

-----------------------------------------------------------------------------
(***************************************************************************)
(* The review                                                              *)
(***************************************************************************)
Decided == {"safety_check", "approval_gate", "END"}
Proposed == {"critic_check", "quality_check"} \cup Decided
Merged == {"grounding_check", "propose_tools"} \cup Proposed

ReviewTypes ==
  /\ grounded \in BOOLEAN
  /\ merged \in [cited : BOOLEAN, flagged : BOOLEAN]
  /\ output \in [verdict : {"accept", "escalate"}, l1 : {"", "pass", "revise", "escalate"},
                 l2 : {"", "pass", "escalate"}, revisions : Nat]

\* Merging keeps the flags of every pass.
FlagsMerged ==
  node \in Merged => (merged.flagged <=> \E i \in DOMAIN results : results[i].flagged)

FlagsEscalate ==
  node \in {"approval_gate", "END"} /\ merged.flagged => output.verdict = "escalate"

\* What is proposed needs an approval and has sufficient context.
ProposalsJustified ==
  /\ \A p \in proposals : p.approval = TRUE
  /\ node \in Proposed /\ proposals # {} => evidence.sufficient

\* Only drafts without sufficient context are revised.
SufficientRunsOnce == evidence.sufficient => retries = 0

CriticIsCurrent ==
  node = "quality_check" =>
    critic = [passed |-> grounded, grounded |-> grounded, sufficient |-> evidence.sufficient]

\* A sufficient run that was not escalated is grounded.
UngroundedEscalates ==
  node \in Decided /\ MaxQualityRetries > 0 /\ evidence.sufficient
    /\ output.verdict = "accept" => grounded

ReviewInv ==
  /\ ReviewTypes
  /\ FlagsMerged
  /\ FlagsEscalate
  /\ ProposalsJustified
  /\ SufficientRunsOnce
  /\ CriticIsCurrent
  /\ UngroundedEscalates

LEMMA ReviewInit == Init => ReviewInv
<1> SUFFICES ASSUME Init PROVE ReviewInv
  OBVIOUS
<1>1. /\ node = "collect_context" /\ proposals = {} /\ retries = 0 /\ grounded = TRUE
      /\ merged = [cited |-> FALSE, flagged |-> FALSE]
      /\ output = [verdict |-> "accept", l1 |-> "", l2 |-> "", revisions |-> 0]
  BY DEF Init
<1>2. ReviewTypes
  BY <1>1 DEF ReviewTypes
<1> QED
  BY <1>1, <1>2 DEF ReviewInv, FlagsMerged, FlagsEscalate, ProposalsJustified,
     SufficientRunsOnce, CriticIsCurrent, UngroundedEscalates, Merged, Proposed, Decided

\* The nodes before the review, the roles and the group.
LEMMA ReviewAside ==
  ASSUME ReviewInv, UNCHANGED <<merged, grounded, proposals, output>>, node' \notin Merged,
         SufficientRunsOnce'
  PROVE  ReviewInv'
<1>1. node' \notin Proposed /\ node' \notin Decided /\ node' # "quality_check"
      /\ node' \notin {"approval_gate", "END"}
  BY DEF Merged, Proposed, Decided
<1> QED
  BY <1>1 DEF ReviewInv, ReviewTypes, FlagsMerged, FlagsEscalate, ProposalsJustified,
     CriticIsCurrent, UngroundedEscalates

LEMMA ReviewStutter ==
  ReviewInv /\ UNCHANGED <<node, evidence, results, merged, grounded, proposals, critic,
                           retries, output>>
    => ReviewInv'
<1> SUFFICES ASSUME ReviewInv, UNCHANGED <<node, evidence, results, merged, grounded,
                                            proposals, critic, retries, output>>
             PROVE  ReviewInv'
  OBVIOUS
<1>1. ReviewTypes' /\ FlagsMerged' /\ FlagsEscalate'
  BY DEF ReviewInv, ReviewTypes, FlagsMerged, FlagsEscalate
<1>2. ProposalsJustified' /\ SufficientRunsOnce' /\ UngroundedEscalates'
  BY DEF ReviewInv, ProposalsJustified, SufficientRunsOnce, UngroundedEscalates
<1>3. CriticIsCurrent'
  BY DEF ReviewInv, CriticIsCurrent
<1> QED
  BY <1>1, <1>2, <1>3 DEF ReviewInv

LEMMA ReviewMerge == ReviewInv /\ Merge => ReviewInv'
<1> SUFFICES ASSUME ReviewInv, Merge PROVE ReviewInv'
  OBVIOUS
<1> DEFINE C == \E i \in DOMAIN results : results[i].cited
           F == \E i \in DOMAIN results : results[i].flagged
<1>1. /\ node' = "grounding_check"
      /\ UNCHANGED <<evidence, results, grounded, proposals, critic, retries, output>>
  BY DEF Merge, reviewVars
<1>2. merged' = [cited |-> C, flagged |-> F]
  BY DEF Merge, HasResult
<1>3. C \in BOOLEAN /\ F \in BOOLEAN
  OBVIOUS
<1>4. F <=> (\E i \in DOMAIN results' : results'[i].flagged)
  BY <1>1
<1> HIDE DEF C, F
<1>5. merged' \in [cited : BOOLEAN, flagged : BOOLEAN] /\ merged'.flagged = F
  BY <1>2, <1>3
<1>6. ReviewTypes'
  BY <1>1, <1>5 DEF ReviewInv, ReviewTypes
<1>7. FlagsMerged'
  BY <1>3, <1>4, <1>5 DEF FlagsMerged
<1>8. node' \notin Proposed /\ node' \notin Decided /\ node' # "quality_check"
      /\ node' \notin {"approval_gate", "END"}
  BY <1>1 DEF Proposed, Decided
<1> QED
  BY <1>1, <1>6, <1>7, <1>8 DEF ReviewInv, FlagsEscalate, ProposalsJustified,
     SufficientRunsOnce, CriticIsCurrent, UngroundedEscalates

LEMMA ReviewGrounding == ReviewInv /\ GroundingCheck => ReviewInv'
<1> SUFFICES ASSUME ReviewInv, GroundingCheck PROVE ReviewInv'
  OBVIOUS
<1>1. /\ node = "grounding_check" /\ node' = "propose_tools" /\ grounded' \in BOOLEAN
      /\ UNCHANGED <<evidence, results, merged, proposals, critic, retries, output>>
  BY DEF ReviewInv, ReviewTypes, GroundingCheck, At, reviewVars
<1> QED
  BY <1>1 DEF ReviewInv, ReviewTypes, FlagsMerged, FlagsEscalate, ProposalsJustified,
     SufficientRunsOnce, CriticIsCurrent, UngroundedEscalates, Merged, Proposed, Decided

LEMMA ReviewPropose == ReviewInv /\ ProposeTools => ReviewInv'
<1> SUFFICES ASSUME ReviewInv, ProposeTools PROVE ReviewInv'
  OBVIOUS
<1>1. /\ node = "propose_tools" /\ node' = "critic_check"
      /\ proposals' = IF evidence.sufficient THEN WorkflowToolProposals ELSE {}
      /\ UNCHANGED <<evidence, results, merged, grounded, critic, retries, output>>
  BY DEF ProposeTools, At
<1>2. \A p \in proposals' : p.approval = TRUE
  BY <1>1 DEF WorkflowToolProposals, Proposal
<1>3. proposals' # {} => evidence.sufficient
  BY <1>1
<1> QED
  BY <1>1, <1>2, <1>3 DEF ReviewInv, ReviewTypes, FlagsMerged, FlagsEscalate,
     ProposalsJustified, SufficientRunsOnce, CriticIsCurrent, UngroundedEscalates, Merged,
     Proposed, Decided

LEMMA ReviewCritic == ReviewInv /\ CriticCheck => ReviewInv'
<1> SUFFICES ASSUME ReviewInv, CriticCheck PROVE ReviewInv'
  OBVIOUS
<1>1. /\ node = "critic_check" /\ node' = "quality_check"
      /\ critic' = [passed |-> grounded /\ \A p \in proposals : p.approval,
                    grounded |-> grounded, sufficient |-> evidence.sufficient]
      /\ UNCHANGED <<evidence, results, merged, grounded, proposals, retries, output>>
  BY DEF CriticCheck, At
<1>2. (grounded /\ \A p \in proposals : p.approval) = grounded
  BY DEF ReviewInv, ReviewTypes, ProposalsJustified
<1>3. critic' = [passed |-> grounded, grounded |-> grounded, sufficient |-> evidence.sufficient]
  BY <1>1, <1>2
<1> QED
  BY <1>1, <1>3 DEF ReviewInv, ReviewTypes, FlagsMerged, FlagsEscalate, ProposalsJustified,
     SufficientRunsOnce, CriticIsCurrent, UngroundedEscalates, Merged, Proposed, Decided

LEMMA ReviewQuality ==
  ASSUME GroupInv, RolesInv, ReviewInv, QualityCheck
  PROVE  ReviewInv'
<1>1. /\ node = "quality_check"
      /\ output' = IF BudgetSpent THEN output ELSE AccumulateQuality(QualityDecision)
      /\ retries' = IF QualityDecision = "revise" THEN retries + 1 ELSE retries
      /\ node' = RouteQuality(QualityDecision)
      /\ UNCHANGED <<evidence, results, merged, grounded, proposals, critic>>
  BY DEF QualityCheck, At
<1>2. /\ critic = [passed |-> grounded, grounded |-> grounded, sufficient |-> evidence.sufficient]
      /\ grounded \in BOOLEAN /\ evidence.sufficient \in BOOLEAN
      /\ evidence.sufficient => retries = 0
      /\ ReviewTypes /\ retries \in Nat
  BY <1>1 DEF GroupInv, GroupTypes, RolesInv, ReviewInv, ReviewTypes, SufficientRunsOnce,
     CriticIsCurrent
<1>3. QualityDecision \in {"pass", "revise", "escalate"}
  BY DEF QualityDecision
<1>4. output' \in [verdict : {"accept", "escalate"}, l1 : {"", "pass", "revise", "escalate"},
                   l2 : {"", "pass", "escalate"}, revisions : Nat]
  <2>1. AccumulateQuality(QualityDecision)
          \in [verdict : {"accept", "escalate"}, l1 : {"", "pass", "revise", "escalate"},
               l2 : {"", "pass", "escalate"}, revisions : Nat]
    <3>1. CASE QualityDecision = "pass"
      BY <1>2, <3>1 DEF AccumulateQuality, ReviewTypes
    <3>2. CASE QualityDecision = "revise"
      <4> DEFINE r == output.revisions + 1
                 v == output.verdict
      <4>1. r \in Nat /\ v \in {"accept", "escalate"}
        <5>1. output.revisions \in Nat /\ output.verdict \in {"accept", "escalate"}
          BY <1>2 DEF ReviewTypes
        <5> QED
          BY <5>1
      <4>2. AccumulateQuality(QualityDecision)
              = [output EXCEPT !.l1 = "revise", !.revisions = r, !.verdict = v]
        BY <3>2 DEF AccumulateQuality
      <4> HIDE DEF r, v
      <4> QED
        BY <1>2, <4>1, <4>2 DEF ReviewTypes
    <3>3. CASE QualityDecision = "escalate"
      BY <1>2, <3>3 DEF AccumulateQuality, ReviewTypes
    <3> QED
      BY <1>3, <3>1, <3>2, <3>3
  <2> QED
    BY <1>1, <1>2, <2>1 DEF ReviewTypes
<1>5. evidence.sufficient => QualityDecision # "revise"
  BY <1>2 DEF QualityDecision
<1>6. SufficientRunsOnce'
  BY <1>1, <1>2, <1>5 DEF SufficientRunsOnce
<1>7. ReviewTypes'
  BY <1>1, <1>2, <1>4 DEF ReviewTypes
<1>8. CASE QualityDecision = "revise"
  <2>1. /\ node' = "synthesize" /\ node' \notin Merged /\ node' \notin Proposed
        /\ node' \notin Decided
    BY <1>1, <1>8 DEF RouteQuality, Merged, Proposed, Decided
  <2> QED
    BY <1>1, <1>6, <1>7, <2>1 DEF ReviewInv, FlagsMerged, FlagsEscalate, ProposalsJustified,
       CriticIsCurrent, UngroundedEscalates, Decided
<1>9. CASE QualityDecision # "revise"
  <2>1. node' = "safety_check"
    BY <1>1, <1>9 DEF RouteQuality
  <2>2. UngroundedEscalates'
    <3> SUFFICES ASSUME MaxQualityRetries > 0, evidence.sufficient,
                        output'.verdict = "accept"
                 PROVE  grounded
      BY <1>1 DEF UngroundedEscalates
    <3>1. ~BudgetSpent
      BY <1>2, GraphAssumption DEF BudgetSpent
    <3>2. output' = AccumulateQuality(QualityDecision)
      BY <1>1, <3>1
    <3>3. QualityDecision # "escalate"
      BY <1>2, <3>2 DEF AccumulateQuality, ReviewTypes
    <3>4. QualityDecision = "pass"
      BY <1>3, <1>9, <3>3
    <3> QED
      BY <1>2, <3>1, <3>4 DEF QualityDecision
  <2> QED
    BY <1>1, <1>6, <1>7, <2>1, <2>2 DEF ReviewInv, FlagsMerged, FlagsEscalate,
       ProposalsJustified, CriticIsCurrent, Merged, Proposed, Decided
<1> QED
  BY <1>8, <1>9

LEMMA ReviewSafety == ReviewInv /\ SafetyCheck => ReviewInv'
<1> SUFFICES ASSUME ReviewInv, SafetyCheck PROVE ReviewInv'
  OBVIOUS
<1> DEFINE e == IF SafetyDecision = "escalate" THEN "escalate" ELSE output.verdict
<1>1. /\ node = "safety_check" /\ node' = "approval_gate"
      /\ output' = [output EXCEPT !.l2 = SafetyDecision, !.verdict = e]
      /\ UNCHANGED <<evidence, results, merged, grounded, proposals, critic, retries>>
  BY DEF SafetyCheck, At
<1>2. /\ SafetyDecision \in {"pass", "escalate"}
      /\ merged.flagged => SafetyDecision = "escalate"
  BY DEF SafetyDecision
<1>3. ReviewTypes
  BY DEF ReviewInv
<1>4. /\ output' \in [verdict : {"accept", "escalate"}, l1 : {"", "pass", "revise", "escalate"},
                      l2 : {"", "pass", "escalate"}, revisions : Nat]
      /\ output'.verdict = e
  BY <1>1, <1>2, <1>3 DEF ReviewTypes
<1>5. ReviewTypes'
  BY <1>1, <1>3, <1>4 DEF ReviewTypes
<1>6. FlagsEscalate'
  BY <1>1, <1>2, <1>4 DEF FlagsEscalate
<1>7. UngroundedEscalates'
  BY <1>1, <1>4 DEF ReviewInv, UngroundedEscalates, Decided
<1> QED
  BY <1>1, <1>5, <1>6, <1>7 DEF ReviewInv, FlagsMerged, ProposalsJustified,
     SufficientRunsOnce, CriticIsCurrent, Merged, Proposed, Decided

LEMMA ReviewFinalize == ReviewInv /\ Finalize => ReviewInv'
<1> SUFFICES ASSUME ReviewInv, Finalize PROVE ReviewInv'
  OBVIOUS
<1>1. /\ node = "approval_gate" /\ node' = "END"
      /\ UNCHANGED <<evidence, results, merged, grounded, proposals, critic, retries, output>>
  BY DEF Finalize, At, graphVars, reviewVars
<1> QED
  BY <1>1 DEF ReviewInv, ReviewTypes, FlagsMerged, FlagsEscalate, ProposalsJustified,
     SufficientRunsOnce, CriticIsCurrent, UngroundedEscalates, Merged, Proposed, Decided

LEMMA ReviewNext ==
  ASSUME GroupInv, GroupInv', RolesInv, ReviewInv, [Next]_vars
  PROVE  ReviewInv'
<1> USE DEF At, reviewVars
<1>0. \A n \in EarlyNodes \cup Roles \cup {"parallel_roles", "merge", "FAILED"} : n \notin Merged
  BY RolesAre DEF EarlyNodes, Merged, Proposed, Decided
<1>1. CASE Retrieve
  <2>1. SufficientRunsOnce'
    BY <1>1 DEF Retrieve, GroupInv, GroupTypes, ReviewInv, SufficientRunsOnce
  <2> QED
    BY <1>0, <1>1, <2>1, ReviewAside DEF Retrieve, EarlyNodes
<1>2. CASE SufficiencyGate
  <2>1. SufficientRunsOnce'
    BY <1>2 DEF SufficiencyGate, RolesInv, Unstarted, EarlyNodes, SufficientRunsOnce
  <2> QED
    BY <1>0, <1>2, <2>1, ReviewAside DEF SufficiencyGate, EarlyNodes
<1>3. ASSUME UNCHANGED <<evidence, merged, grounded, proposals, retries, output>>,
             node' \in EarlyNodes \cup Roles \cup {"parallel_roles", "merge", "FAILED"}
      PROVE  ReviewInv'
  BY <1>0, <1>3, ReviewAside DEF ReviewInv, SufficientRunsOnce
<1>4. CASE Decompose
  BY <1>3, <1>4, RolesAre DEF Decompose, EarlyNodes
<1>5. CASE RouteRoles
  <2>1. AllocatedRoles[1] = "searcher"
    BY AllocatedIsList, ListFacts
  <2> QED
    BY <1>3, <1>5, <2>1, RolesAre DEF RouteRoles, RouteFirst
<1>6. ASSUME NEW role \in Roles, RunRole(role) PROVE ReviewInv'
  <2>1. node' \in Roles \cup {"merge"}
    BY <1>6, NextRoleKnown DEF RunRole, GroupInv
  <2> QED
    BY <1>3, <1>6, <2>1 DEF RunRole
<1>7. CASE ProviderFails
  BY <1>3, <1>7 DEF ProviderFails
<1>8. CASE GroupStep
  <2>1. CASE FinishGroup
    <3>1. node' \in Roles \cup {"merge"}
      BY <2>1, NextRoleKnown DEF FinishGroup, GroupInv
    <3> QED
      BY <1>3, <2>1, <3>1 DEF FinishGroup
  <2>2. CASE ~FinishGroup
    <3>1. UNCHANGED graphVars /\ node' \in {node, "FAILED"}
      BY <1>8, <2>2 DEF GroupStep, SubmitBoth, RunInTurn, AcquireInTurn, BudgetExceeded,
         Collect, CollectFailure, CancelFutures, GiveUp
    <3>2. CASE node' = node
      BY <3>1, <3>2, ReviewStutter DEF graphVars
    <3>3. CASE node' = "FAILED"
      BY <1>3, <3>1, <3>3 DEF graphVars
    <3> QED
      BY <3>1, <3>2, <3>3
  <2> QED
    BY <2>1, <2>2
<1>9. ASSUME NEW role \in ParallelRoles, BranchStep(role) PROVE ReviewInv'
  <2>1. UNCHANGED <<graphVars, node>>
    BY <1>9 DEF BranchStep, BranchStarts, BranchReturns, BranchRaises
  <2> QED
    BY <2>1, ReviewStutter DEF graphVars
<1>10. CASE UNCHANGED vars
  BY <1>10, ReviewStutter DEF vars
<1> QED
  BY <1>1, <1>2, <1>4, <1>5, <1>6, <1>7, <1>8, <1>9, <1>10, ReviewMerge, ReviewGrounding,
     ReviewPropose, ReviewCritic, ReviewQuality, ReviewSafety, ReviewFinalize
     DEF Next, NodeStep, Ended

THEOREM ReviewInvariant == Spec => []ReviewInv
<1>1. Init => ReviewInv
  BY ReviewInit
<1>2. GroupInv /\ GroupInv' /\ RolesInv /\ ReviewInv /\ [Next]_vars => ReviewInv'
  BY ReviewNext
<1> QED
  BY <1>1, <1>2, GroupInvariant, RolesInvariant, PTL DEF Spec

\* A risk flag of any pass is escalated at the end of the run.
THEOREM FlagsAreEscalated == Spec => []FlaggedRunEscalated
<1>1. ReviewInv => FlaggedRunEscalated
  BY DEF ReviewInv, FlagsMerged, FlagsEscalate, FlaggedRunEscalated, HasResult, Merged,
     Proposed, Decided
<1> QED
  BY <1>1, ReviewInvariant, PTL

\* With any positive revision budget, a run that ends "accept" with proposed writes
\* is grounded: sufficient context is never revised, so its budget is not spent when
\* the critic sees an ungrounded draft.
THEOREM AcceptedWritesAreGrounded == Spec => []AcceptedWriteIsGrounded
<1>1. ReviewInv => AcceptedWriteIsGrounded
  BY DEF ReviewInv, ProposalsJustified, UngroundedEscalates, AcceptedWriteIsGrounded,
     Proposed, Decided
<1> QED
  BY <1>1, ReviewInvariant, PTL
===============================================================================

------------------------------ MODULE LeasePool ------------------------------
(***************************************************************************)
(* What admission control promises: at most MaxActive leases are out, at   *)
(* most OrgShare of them to one organization, and a request is given a     *)
(* lease at most once and gives it back at most once.  It says nothing of  *)
(* queues, locks or deadlines.  Admission.tla implements it.               *)
(***************************************************************************)
EXTENDS Naturals, FiniteSets

CONSTANTS Requests, OrgOf, MaxActive, OrgShare

VARIABLES
  held,     \* requests whose lease is out
  returned  \* requests that have given their lease back

SameOrg(r) == {q \in held : OrgOf[q] = OrgOf[r]}

Init == held = {} /\ returned = {}

Grant(r) ==
  /\ r \notin held \cup returned
  /\ Cardinality(held) < MaxActive
  /\ Cardinality(SameOrg(r)) < OrgShare
  /\ held' = held \cup {r}
  /\ UNCHANGED returned

Return(r) ==
  /\ r \in held
  /\ held' = held \ {r}
  /\ returned' = returned \cup {r}

Next == \E r \in Requests : Grant(r) \/ Return(r)

Spec == Init /\ [][Next]_<<held, returned>>
=============================================================================

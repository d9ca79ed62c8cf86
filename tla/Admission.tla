------------------------------ MODULE Admission ------------------------------
(***************************************************************************)
(* The bounded admission controller of the agent runtime (admission.py).   *)
(*                                                                         *)
(* Every workflow request calls AdmissionController.acquire once.  It gets *)
(* a lease at once (fast path), is turned away because the waiter deque is *)
(* full, or is queued and sleeps on its event until a release hands it a   *)
(* lease or its deadline passes.  A lease is given back with close().      *)
(*                                                                         *)
(* One action is one critical section of the controller's condition lock,  *)
(* or one step of a caller outside it.  The grant loop of a release is one *)
(* action per iteration, with the lock held, so the unlocked reads of      *)
(* acquire interleave with it as they do in the code.  Nothing ever sets   *)
(* _Waiter.cancelled, so the branches that test it are unreachable and     *)
(* have no action.                                                         *)
(***************************************************************************)
EXTENDS Integers, Sequences, FiniteSets, SequencesExt

CONSTANTS
  Requests,         \* calls of acquire, one per workflow request
  Orgs,             \* organizations
  OrgOf,            \* the organization_id each request passes to acquire
  MaxActive,        \* max_active
  MaxQueued,        \* max_queued
  ConfiguredPerOrg, \* max_active_per_org; 0 stands for "not given"
  NoRequest         \* nobody holds the condition lock

ASSUME RequestsAssumption ==
  /\ IsFiniteSet(Requests)
  /\ OrgOf \in [Requests -> Orgs]
  /\ NoRequest \notin Requests

ASSUME LimitsAssumption ==
  /\ MaxActive \in Nat \ {0}
  /\ MaxQueued \in Nat
  /\ ConfiguredPerOrg \in Nat

\* max_active_per_org or max((max_active + 1) // 2, 1)
MaxActivePerOrg ==
  IF ConfiguredPerOrg # 0
  THEN ConfiguredPerOrg
  ELSE IF (MaxActive + 1) \div 2 > 1 THEN (MaxActive + 1) \div 2 ELSE 1

VARIABLES
  active,     \* _active
  orgActive,  \* _org_active, 0 for an organization without an entry
  waiters,    \* _waiters, the FIFO deque; a waiter is its request
  lock,       \* the holder of _condition
  pc,         \* where each caller is
  lease       \* the AdmissionLease made for each request

vars == <<active, orgActive, waiters, lock, pc, lease>>

(***************************************************************************)
(* "start"      before acquire           "granting"  in the grant loop     *)
(* "enqueued"   queued, lock released    "released"  close() returned      *)
(* "waiting"    in waiter.event.wait     "full"      AdmissionRejected     *)
(* "expired"    about to _remove_waiter                (queue_full)        *)
(* "running"    acquire returned a lease "timeout"   AdmissionRejected     *)
(* "releasing"  closed, before _release                (timeout)           *)
(* "finished"   the caller is done with its lease                          *)
(***************************************************************************)
Places == {"start", "enqueued", "waiting", "expired", "running", "releasing",
           "granting", "released", "finished", "full", "timeout"}

\* No lease yet; made and counted; _closed set but not yet given back; given back.
LeaseStates == {"none", "open", "closed", "returned"}

Goto(r, place) == pc' = [pc EXCEPT ![r] = place]

Queued == Range(waiters)

-----------------------------------------------------------------------------
Init ==
  /\ active = 0
  /\ orgActive = [o \in Orgs |-> 0]
  /\ waiters = <<>>
  /\ lock = NoRequest
  /\ pc = [r \in Requests |-> "start"]
  /\ lease = [r \in Requests |-> "none"]

BelowOrgQuota(o) == orgActive[o] < MaxActivePerOrg

\* Faulty variants of _can_grant: one slot too many; the quota forgotten.
CanGrantOneTooMany(o) == active <= MaxActive /\ BelowOrgQuota(o)
CanGrantAnyOrg(o) == active < MaxActive

\* _can_grant
CanGrant(o) == active < MaxActive /\ BelowOrgQuota(o)

\* _grant, and the same four updates inside _try_grant_waiters
Grant(r) ==
  /\ active' = active + 1
  /\ orgActive' = [orgActive EXCEPT ![OrgOf[r]] = @ + 1]
  /\ lease' = [lease EXCEPT ![r] = "open"]

(***************************************************************************)
(* The critical section of acquire: its three outcomes.                    *)
(***************************************************************************)
AcquireFast(r) ==
  /\ pc[r] = "start"
  /\ lock = NoRequest
  /\ CanGrant(OrgOf[r])
  /\ Grant(r)
  /\ Goto(r, "running")
  /\ UNCHANGED <<waiters, lock>>

AcquireQueueFull(r) ==
  /\ pc[r] = "start"
  /\ lock = NoRequest
  /\ ~CanGrant(OrgOf[r])
  /\ Len(waiters) >= MaxQueued
  /\ Goto(r, "full")
  /\ UNCHANGED <<active, orgActive, waiters, lock, lease>>

AcquireEnqueue(r) ==
  /\ pc[r] = "start"
  /\ lock = NoRequest
  /\ ~CanGrant(OrgOf[r])
  /\ Len(waiters) < MaxQueued
  /\ waiters' = Append(waiters, r)
  /\ Goto(r, "enqueued")
  /\ UNCHANGED <<active, orgActive, lock, lease>>

(***************************************************************************)
(* acquire outside the lock.  Time is abstracted to the choice between     *)
(* "the deadline has passed" and "it has not".                             *)
(***************************************************************************)

\* remaining <= 0: the waiter is given up without a look at its grant.
ExpireBeforeWait(r) ==
  /\ pc[r] = "enqueued"
  /\ Goto(r, "expired")
  /\ UNCHANGED <<active, orgActive, waiters, lock, lease>>

BeginWait(r) ==
  /\ pc[r] = "enqueued"
  /\ Goto(r, "waiting")
  /\ UNCHANGED <<active, orgActive, waiters, lock, lease>>

\* The event was set, or the wait timed out but the grant came before the read.
WakeGranted(r) ==
  /\ pc[r] = "waiting"
  /\ lease[r] = "open"
  /\ Goto(r, "running")
  /\ UNCHANGED <<active, orgActive, waiters, lock, lease>>

\* The wait timed out and waiter.acquired, read without the lock, is false.
WaitTimeout(r) ==
  /\ pc[r] = "waiting"
  /\ lease[r] = "none"
  /\ Goto(r, "expired")
  /\ UNCHANGED <<active, orgActive, waiters, lock, lease>>

\* Faulty variant: the rejected waiter is left in the deque.
RemoveNothing(r) ==
  /\ pc[r] = "expired"
  /\ lock = NoRequest
  /\ Goto(r, "timeout")
  /\ UNCHANGED <<active, orgActive, waiters, lock, lease>>

\* _remove_waiter, best effort: a waiter that was granted is no longer queued.
RemoveWaiter(r) ==
  /\ pc[r] = "expired"
  /\ lock = NoRequest
  /\ \/ \E i \in DOMAIN waiters :
          waiters[i] = r /\ waiters' = RemoveAt(waiters, i)
     \/ r \notin Queued /\ UNCHANGED waiters
  /\ Goto(r, "timeout")
  /\ UNCHANGED <<active, orgActive, lock, lease>>

(***************************************************************************)
(* AdmissionLease.close and _release.                                      *)
(***************************************************************************)

\* Faulty variant: close() without the _closed flag.
CloseEveryTime(r) ==
  /\ pc[r] \in {"running", "released"}
  /\ lease' = [lease EXCEPT ![r] = "closed"]
  /\ Goto(r, "releasing")
  /\ UNCHANGED <<active, orgActive, waiters, lock>>

\* close() tests and sets _closed under the lease's own lock.
Close(r) ==
  /\ pc[r] \in {"running", "released"}
  /\ IF lease[r] = "open"
     THEN /\ lease' = [lease EXCEPT ![r] = "closed"]
          /\ Goto(r, "releasing")
     ELSE /\ Goto(r, "finished")
          /\ UNCHANGED lease
  /\ UNCHANGED <<active, orgActive, waiters, lock>>

\* The caller leaves after one close().
Leave(r) ==
  /\ pc[r] = "released"
  /\ Goto(r, "finished")
  /\ UNCHANGED <<active, orgActive, waiters, lock, lease>>

\* Faulty variant: the organization's count is forgotten.
ReleaseKeepsOrg(r) ==
  /\ pc[r] = "releasing"
  /\ lock = NoRequest
  /\ lock' = r
  /\ active' = active - 1
  /\ lease' = [lease EXCEPT ![r] = "returned"]
  /\ Goto(r, "granting")
  /\ UNCHANGED <<orgActive, waiters>>

\* _release up to the call of _try_grant_waiters.
Release(r) ==
  /\ pc[r] = "releasing"
  /\ lock = NoRequest
  /\ lock' = r
  /\ active' = active - 1
  /\ orgActive' = [orgActive EXCEPT ![OrgOf[r]] = IF @ <= 1 THEN 0 ELSE @ - 1]
  /\ lease' = [lease EXCEPT ![r] = "returned"]
  /\ Goto(r, "granting")
  /\ UNCHANGED waiters

\* Faulty variants: only the head is looked at; any eligible waiter will do.
HeadOnly(i) == i \in DOMAIN waiters /\ i = 1 /\ CanGrant(OrgOf[waiters[i]])
AnyEligible(i) == i \in DOMAIN waiters /\ CanGrant(OrgOf[waiters[i]])

\* The waiter at position i may be granted and no waiter before it may.
FirstEligible(i) ==
  /\ i \in DOMAIN waiters
  /\ CanGrant(OrgOf[waiters[i]])
  /\ \A j \in 1 .. i - 1 : ~BelowOrgQuota(OrgOf[waiters[j]])

\* One iteration of _try_grant_waiters that grants.
GrantWaiter(r) ==
  /\ pc[r] = "granting"
  /\ lock = r
  /\ \E i \in DOMAIN waiters :
       /\ FirstEligible(i)
       /\ Grant(waiters[i])
       /\ waiters' = RemoveAt(waiters, i)
  /\ UNCHANGED <<lock, pc>>

\* Faulty variant: the loop may stop while a waiter is eligible.
EndReleaseEarly(r) ==
  /\ pc[r] = "granting"
  /\ lock = r
  /\ lock' = NoRequest
  /\ Goto(r, "released")
  /\ UNCHANGED <<active, orgActive, waiters, lease>>

\* The loop ends, the lock is released and close() returns.
EndRelease(r) ==
  /\ pc[r] = "granting"
  /\ lock = r
  /\ ~\E i \in DOMAIN waiters : FirstEligible(i)
  /\ lock' = NoRequest
  /\ Goto(r, "released")
  /\ UNCHANGED <<active, orgActive, waiters, lease>>

-----------------------------------------------------------------------------
Acquire(r) == AcquireFast(r) \/ AcquireQueueFull(r) \/ AcquireEnqueue(r)

Step(r) ==
  \/ Acquire(r)
  \/ ExpireBeforeWait(r)
  \/ BeginWait(r)
  \/ WakeGranted(r)
  \/ WaitTimeout(r)
  \/ RemoveWaiter(r)
  \/ Close(r)
  \/ Leave(r)
  \/ Release(r)
  \/ GrantWaiter(r)
  \/ EndRelease(r)

\* Every request has been answered: the only states without a further step.
AllAnswered ==
  /\ \A r \in Requests : pc[r] \in {"finished", "full", "timeout"}
  /\ UNCHANGED vars

Next == (\E r \in Requests : Step(r)) \/ AllAnswered

Spec == Init /\ [][Next]_vars

(***************************************************************************)
(* Fairness: a caller that can run outside the lock eventually runs; one   *)
(* that waits for the lock eventually gets it if it is free again and      *)
(* again (every critical section is finite); the loop that holds the lock  *)
(* runs on.  The caller of a lease closes it: the route does so in a       *)
(* finally block.  Nothing makes a request arrive or its deadline pass.    *)
(***************************************************************************)
Fairness ==
  \A r \in Requests :
    /\ WF_vars(BeginWait(r))
    /\ WF_vars(WakeGranted(r))
    /\ WF_vars(Close(r))
    /\ SF_vars(Release(r))
    /\ WF_vars(GrantWaiter(r))
    /\ WF_vars(EndRelease(r))

FairSpec == Spec /\ Fairness

-----------------------------------------------------------------------------
(***************************************************************************)
(* Properties                                                              *)
(***************************************************************************)

\* The types of the controller's fields and of the callers' positions.
TypeOK ==
  /\ active \in Nat
  /\ orgActive \in [Orgs -> Nat]
  /\ waiters \in Seq(Requests)
  /\ lock \in Requests \cup {NoRequest}
  /\ pc \in [Requests -> Places]
  /\ lease \in [Requests -> LeaseStates]

\* Leases that occupy a slot: made by a grant and not yet given to _release.
Holders == {r \in Requests : lease[r] \in {"open", "closed"}}

HoldersOf(o) == {r \in Holders : OrgOf[r] = o}

\* _active and _org_active count exactly the leases that are out, whatever
\* the order of fast grants, queued grants, timeouts and repeated close()
\* calls (AdmissionController._grant, _release, AdmissionLease.close).
SlotsAccounted ==
  /\ active = Cardinality(Holders)
  /\ \A o \in Orgs : orgActive[o] = Cardinality(HoldersOf(o))

\* Never more runs than max_active, nor than the organization's share, at
\* any moment, the iterations of the grant loop included.
CapacityRespected ==
  /\ active <= MaxActive
  /\ \A o \in Orgs : orgActive[o] <= MaxActivePerOrg

\* Whenever the lock is free, no queued waiter could be admitted: a free slot
\* is never left idle while somebody it could serve sleeps on it
\* (_try_grant_waiters scans past waiters whose organization is at its quota).
WorkConserving ==
  lock = NoRequest => \A w \in Queued : ~CanGrant(OrgOf[w])

\* The deque holds exactly the callers that still wait and have no lease, each
\* once, and never more than max_queued of them.
QueueExact ==
  /\ \A r \in Requests :
       r \in Queued <=> /\ pc[r] \in {"enqueued", "waiting", "expired"}
                        /\ lease[r] = "none"
  /\ \A i, j \in DOMAIN waiters : waiters[i] = waiters[j] => i = j
  /\ Len(waiters) <= MaxQueued

\* Where a caller is tells the state of its lease, and the holder of the lock
\* is the caller in the grant loop.
LeaseMatchesCaller ==
  /\ \A r \in Requests :
       /\ pc[r] \in {"start", "full"} => lease[r] = "none"
       /\ pc[r] \in {"enqueued", "waiting", "expired", "timeout"}
            => lease[r] \in {"none", "open"}
       /\ pc[r] = "running" => lease[r] = "open"
       /\ pc[r] = "releasing" => lease[r] = "closed"
       /\ pc[r] \in {"granting", "released", "finished"}
            => lease[r] = "returned"
  /\ \A r \in Requests : pc[r] = "granting" <=> lock = r

\* While a release holds the lock, what it freed is one slot, or one share of
\* its own organization: no second waiter can be admitted after the first.
OneFreeShare ==
  lock # NoRequest =>
    \/ active >= MaxActive - 1
    \/ \A w \in Queued : BelowOrgQuota(OrgOf[w]) =>
         /\ OrgOf[w] = OrgOf[lock]
         /\ orgActive[OrgOf[w]] = MaxActivePerOrg - 1

\* Those that wait ahead of r: all of the queue for a caller that is not in it.
AheadOf(r) ==
  {waiters[j] : j \in {k \in DOMAIN waiters :
                         \A i \in DOMAIN waiters : waiters[i] = r => k < i}}

\* A grant, on the fast path or from the queue, passes over a waiter that came
\* earlier only if that waiter's organization is at its quota (acquire's fast
\* path does not look at the queue; FIFO rests on WorkConserving).
NoOvertaking ==
  [][\A r \in Requests :
       lease[r] = "none" /\ lease'[r] = "open" =>
         \A w \in AheadOf(r) : ~BelowOrgQuota(OrgOf[w])]_vars

\* _release wakes "the next eligible waiter": one release never admits two,
\* although _try_grant_waiters loops until nobody is eligible.
ReleaseAdmitsOne ==
  [][\A r \in Requests :
       GrantWaiter(r) => ~\E i \in DOMAIN waiters' : FirstEligible(i)']_vars

\* A grant reached a caller that had already given up: the lease nobody closes.
SlotLeaked == \E q \in Requests : pc[q] \in {"expired", "timeout"} /\ lease[q] = "open"

\* Every queued request is admitted in the end unless its own deadline passes:
\* the scan past organizations at their quota starves nobody and no wakeup is
\* lost, whatever the others' deadlines do, as long as no slot has leaked.  (A
\* request calls acquire once: none waits for ever if there is always a later
\* moment when none waits.)
QueuedIsAnswered ==
  []<>((\A r \in Requests : pc[r] \notin {"enqueued", "waiting"}) \/ SlotLeaked)

\* acquire either returns a lease to be closed or raises: a rejected caller
\* must not leave a slot occupied that nobody can give back.
RejectedHoldsNoSlot ==
  \A r \in Requests : pc[r] = "timeout" => r \notin Holders

Returned == {r \in Requests : lease[r] = "returned"}

\* The leases that are out obey the abstract pool.
Pool == INSTANCE LeasePool WITH
  OrgShare <- MaxActivePerOrg,
  held     <- Holders,
  returned <- Returned

\* Admission control implements the lease pool: only the pool's grants and
\* returns are visible through the leases, in any interleaving.
ImplementsLeasePool == Pool!Spec
=============================================================================

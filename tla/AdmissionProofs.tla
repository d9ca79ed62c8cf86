--------------------------- MODULE AdmissionProofs ---------------------------
(***************************************************************************)
(* Proofs about Admission, for every finite set of requests, every         *)
(* assignment of organizations and every value of the limits.              *)
(*                                                                         *)
(* The inductive invariant joins the four safety invariants with two facts *)
(* about the code's control: LeaseMatchesCaller (where a caller is tells   *)
(* the state of its lease) and OneFreeShare (what a release has freed      *)
(* while it holds the lock).                                               *)
(***************************************************************************)
EXTENDS Admission, FiniteSetTheorems, SequenceTheorems, WellFoundedInduction,
        TLAPS

\* The inductive invariant.
IInv ==
  /\ TypeOK
  /\ LeaseMatchesCaller
  /\ QueueExact
  /\ SlotsAccounted
  /\ CapacityRespected
  /\ WorkConserving
  /\ OneFreeShare

-----------------------------------------------------------------------------
(***************************************************************************)
(* Lemmas on the operators.                                                *)
(***************************************************************************)

\* max_active_per_org is a positive number whatever was configured.
LEMMA QuotaType == MaxActivePerOrg \in Nat \ {0}
  BY LimitsAssumption DEF MaxActivePerOrg

\* What remains when position i is deleted from a sequence.
LEMMA RemoveAtShape ==
  ASSUME NEW S, NEW s \in Seq(S), NEW i \in DOMAIN s
  PROVE  /\ RemoveAt(s, i) \in Seq(S)
         /\ Len(RemoveAt(s, i)) = Len(s) - 1
         /\ \A j \in 1 .. Len(s) - 1 :
              RemoveAt(s, i)[j] = IF j < i THEN s[j] ELSE s[j + 1]
  <1> DEFINE a == SubSeq(s, 1, i - 1)
             b == SubSeq(s, i + 1, Len(s))
  <1>1. Len(s) \in Nat /\ i \in 1 .. Len(s)
    OBVIOUS
  <1>2. /\ a \in Seq(S) /\ Len(a) = i - 1
        /\ \A j \in 1 .. i - 1 : a[j] = s[j]
    BY <1>1
  <1>3. /\ b \in Seq(S) /\ Len(b) = Len(s) - i
        /\ \A j \in 1 .. Len(s) - i : b[j] = s[j + i]
    BY <1>1
  <1> DEFINE c == a \o b
  <1> HIDE DEF a, b
  <1>4. /\ c \in Seq(S) /\ Len(c) = Len(a) + Len(b)
        /\ \A j \in 1 .. Len(a) + Len(b) :
             c[j] = IF j <= Len(a) THEN a[j] ELSE b[j - Len(a)]
    BY <1>2, <1>3, ConcatProperties
  <1> HIDE DEF c
  <1>5. Len(c) = Len(s) - 1
    BY <1>1, <1>2, <1>3, <1>4
  <1>6. ASSUME NEW j \in 1 .. Len(s) - 1
        PROVE  c[j] = IF j < i THEN s[j] ELSE s[j + 1]
    <2> j \in Int /\ j \in 1 .. Len(a) + Len(b)
      BY <1>1, <1>2, <1>3
    <2>0. c[j] = IF j <= Len(a) THEN a[j] ELSE b[j - Len(a)]
      BY <1>4
    <2>1. CASE j < i
      <3>1. j <= Len(a) /\ j \in 1 .. i - 1
        BY <1>1, <1>2, <2>1
      <3>2. c[j] = a[j] /\ a[j] = s[j]
        BY <1>2, <2>0, <3>1
      <3>3. QED
        BY <2>1, <3>2
    <2>2. CASE ~(j < i)
      <3>0. ~(j <= Len(a)) /\ Len(a) = i - 1
        BY <1>1, <1>2, <2>2
      <3>1. c[j] = b[j - (i - 1)]
        BY <2>0, <3>0
      <3>2. j - (i - 1) \in 1 .. Len(s) - i /\ j - (i - 1) + i = j + 1
        BY <1>1, <2>2
      <3>3. QED
        BY <1>3, <2>2, <3>1, <3>2
    <2>3. QED
      BY <2>1, <2>2
  <1>7. QED
    BY <1>4, <1>5, <1>6 DEF RemoveAt, a, b, c

\* Deleting position i of a sequence without repetitions deletes its element
\* and leaves no repetition.
LEMMA RemoveAtRange ==
  ASSUME NEW S, NEW s \in Seq(S), NEW i \in DOMAIN s,
         \A j, k \in DOMAIN s : s[j] = s[k] => j = k
  PROVE  /\ Range(RemoveAt(s, i)) = Range(s) \ {s[i]}
         /\ \A j, k \in DOMAIN RemoveAt(s, i) :
              RemoveAt(s, i)[j] = RemoveAt(s, i)[k] => j = k
  <1> DEFINE t == RemoveAt(s, i)
  <1>1. /\ t \in Seq(S) /\ Len(t) = Len(s) - 1
        /\ \A j \in 1 .. Len(s) - 1 : t[j] = IF j < i THEN s[j] ELSE s[j + 1]
    BY RemoveAtShape
  <1>2. DOMAIN s = 1 .. Len(s) /\ DOMAIN t = 1 .. Len(s) - 1 /\ Len(s) \in Nat
    BY <1>1
  <1> HIDE DEF t
  <1> DEFINE p(j) == IF j < i THEN j ELSE j + 1
  <1>3. \A j \in DOMAIN t : p(j) \in DOMAIN s /\ p(j) # i /\ t[j] = s[p(j)]
    BY <1>1, <1>2
  <1>4. \A j, k \in DOMAIN t : p(j) = p(k) => j = k
    BY <1>2
  <1> HIDE DEF p
  <1>5. ASSUME NEW j \in DOMAIN s, j # i
        PROVE  \E k \in DOMAIN t : t[k] = s[j]
    <2>1. CASE j < i
      BY <1>1, <1>2, <2>1
    <2>2. CASE j > i
      <3>1. j - 1 \in DOMAIN t /\ t[j - 1] = s[j]
        BY <1>1, <1>2, <2>2
      <3>2. QED
        BY <3>1
    <2>3. QED
      BY <1>2, <1>5, <2>1, <2>2
  <1>6. Range(t) = Range(s) \ {s[i]}
    BY <1>3, <1>5 DEF Range
  <1>7. \A j, k \in DOMAIN t : t[j] = t[k] => j = k
    BY <1>3, <1>4
  <1>8. QED
    BY <1>6, <1>7 DEF t

\* The counted leases are finitely many, and so are those of one organization.
LEMMA HoldersFinite ==
  /\ IsFiniteSet(Holders)
  /\ \A o : IsFiniteSet(HoldersOf(o))
  BY RequestsAssumption, FS_Subset DEF Holders, HoldersOf

\* A grant counts one more lease, of the request's organization.
LEMMA GrantCounts ==
  ASSUME TypeOK, SlotsAccounted,
         NEW r \in Requests, lease[r] = "none", Grant(r)
  PROVE  /\ SlotsAccounted'
         /\ active' \in Nat /\ orgActive' \in [Orgs -> Nat]
         /\ lease' \in [Requests -> LeaseStates]
  <1>1. OrgOf[r] \in Orgs
    BY RequestsAssumption
  <1>2. Holders' = Holders \cup {r} /\ r \notin Holders
    BY DEF Holders, Grant, TypeOK, LeaseStates
  <1>3. /\ HoldersOf(OrgOf[r])' = HoldersOf(OrgOf[r]) \cup {r}
        /\ r \notin HoldersOf(OrgOf[r])
        /\ \A o \in Orgs : o # OrgOf[r] => HoldersOf(o)' = HoldersOf(o)
    BY <1>2 DEF HoldersOf, Holders
  <1>4. /\ Cardinality(Holders)' = Cardinality(Holders) + 1
        /\ Cardinality(HoldersOf(OrgOf[r]))' = Cardinality(HoldersOf(OrgOf[r])) + 1
    BY <1>2, <1>3, HoldersFinite, FS_AddElement
  <1>5. SlotsAccounted'
    BY <1>1, <1>3, <1>4 DEF SlotsAccounted, Grant, TypeOK
  <1>6. QED
    BY <1>1, <1>5 DEF Grant, TypeOK, LeaseStates

\* A release counts one lease less, of the request's organization.
LEMMA ReleaseCounts ==
  ASSUME TypeOK, SlotsAccounted,
         NEW r \in Requests, lease[r] = "closed", Release(r)
  PROVE  /\ SlotsAccounted'
         /\ active' \in Nat /\ active' = active - 1
         /\ orgActive' = [orgActive EXCEPT ![OrgOf[r]] = @ - 1]
         /\ orgActive' \in [Orgs -> Nat]
         /\ OrgOf[r] \in Orgs
  <1>1. OrgOf[r] \in Orgs
    BY RequestsAssumption
  <1>2. Holders' = Holders \ {r} /\ r \in Holders
    BY DEF Holders, Release, TypeOK, LeaseStates
  <1>3. /\ HoldersOf(OrgOf[r])' = HoldersOf(OrgOf[r]) \ {r}
        /\ r \in HoldersOf(OrgOf[r])
        /\ \A o \in Orgs : o # OrgOf[r] => HoldersOf(o)' = HoldersOf(o)
    BY <1>2 DEF HoldersOf, Holders
  <1>4. /\ Cardinality(Holders)' = Cardinality(Holders) - 1
        /\ Cardinality(HoldersOf(OrgOf[r]))' = Cardinality(HoldersOf(OrgOf[r])) - 1
        /\ Cardinality(Holders)' \in Nat
        /\ Cardinality(HoldersOf(OrgOf[r]))' \in Nat
    <2>1. IsFiniteSet(Holders \ {r}) /\ IsFiniteSet(HoldersOf(OrgOf[r]) \ {r})
      BY HoldersFinite, FS_RemoveElement
    <2>2. QED
      BY <1>2, <1>3, <2>1, HoldersFinite, FS_RemoveElement, FS_CardinalityType
  <1>5. orgActive[OrgOf[r]] = Cardinality(HoldersOf(OrgOf[r]))
        /\ active = Cardinality(Holders)
        /\ orgActive[OrgOf[r]] - 1 \in Nat
    BY <1>1, <1>4 DEF SlotsAccounted, TypeOK
  <1>6. orgActive' = [orgActive EXCEPT ![OrgOf[r]] = @ - 1]
    <2> DEFINE n == orgActive[OrgOf[r]]
    <2>1. n \in Nat /\ n - 1 \in Nat
      BY <1>1, <1>5 DEF TypeOK
    <2>2. (IF n <= 1 THEN 0 ELSE n - 1) = n - 1
      BY <2>1
    <2>3. orgActive' = [orgActive EXCEPT ![OrgOf[r]] = IF n <= 1 THEN 0 ELSE n - 1]
      BY DEF Release
    <2>4. QED
      BY <2>2, <2>3
  <1>7. SlotsAccounted'
    BY <1>1, <1>3, <1>4, <1>5, <1>6 DEF SlotsAccounted, Release, TypeOK
  <1>8. QED
    BY <1>1, <1>4, <1>5, <1>6, <1>7 DEF Release, TypeOK

\* The parts of the invariant that only depend on the slots and the queue are
\* kept by a step that changes neither.
LEMMA SlotsUntouched ==
  ASSUME IInv, UNCHANGED <<active, orgActive, waiters, lock>>,
         Holders' = Holders
  PROVE  SlotsAccounted' /\ CapacityRespected' /\ WorkConserving' /\ OneFreeShare'
  <1>1. \A o : HoldersOf(o)' = HoldersOf(o)
    BY DEF HoldersOf
  <1>2. SlotsAccounted'
    BY <1>1 DEF IInv, SlotsAccounted
  <1>3. QED
    BY <1>2 DEF IInv, CapacityRespected, WorkConserving, OneFreeShare, Queued,
                CanGrant, BelowOrgQuota

-----------------------------------------------------------------------------
(***************************************************************************)
(* The invariant holds initially and every action keeps it.                *)
(***************************************************************************)
LEMMA InitEstablishes == Init => IInv
  <1> SUFFICES ASSUME Init PROVE IInv
    OBVIOUS
  <1>1. TypeOK
    BY DEF Init, TypeOK, Places, LeaseStates
  <1>2. Holders = {} /\ \A o : HoldersOf(o) = {}
    BY DEF Init, Holders, HoldersOf
  <1>3. SlotsAccounted
    BY <1>2, FS_EmptySet DEF SlotsAccounted, Init
  <1>4. CapacityRespected
    BY QuotaType, LimitsAssumption DEF CapacityRespected, Init
  <1>5. QueueExact /\ WorkConserving /\ OneFreeShare
    BY LimitsAssumption DEF Init, QueueExact, WorkConserving, OneFreeShare,
       Queued, Range
  <1>6. LeaseMatchesCaller
    BY RequestsAssumption DEF Init, LeaseMatchesCaller
  <1>7. QED
    BY <1>1, <1>3, <1>4, <1>5, <1>6 DEF IInv

LEMMA AcquireFastKeeps ==
  ASSUME IInv, NEW r \in Requests, AcquireFast(r)
  PROVE  IInv'
  <1> USE DEF IInv
  <1>1. lease[r] = "none" /\ OrgOf[r] \in Orgs
    BY RequestsAssumption DEF AcquireFast, LeaseMatchesCaller
  <1>2. /\ SlotsAccounted' /\ active' \in Nat /\ orgActive' \in [Orgs -> Nat]
        /\ lease' \in [Requests -> LeaseStates]
    BY <1>1, GrantCounts DEF AcquireFast
  <1>3. TypeOK'
    BY <1>2 DEF AcquireFast, Goto, TypeOK, Places
  <1>4. LeaseMatchesCaller'
    BY RequestsAssumption DEF AcquireFast, Goto, Grant, TypeOK, LeaseMatchesCaller
  <1>5. QueueExact'
    BY DEF AcquireFast, Goto, Grant, TypeOK, QueueExact, Queued
  <1>6. CapacityRespected'
    BY <1>1, QuotaType, LimitsAssumption DEF AcquireFast, Grant, CanGrant,
       BelowOrgQuota, CapacityRespected, TypeOK
  <1>7. WorkConserving' /\ OneFreeShare'
    <2>1. \A w \in Queued : w \in Requests /\ OrgOf[w] \in Orgs
      BY RequestsAssumption DEF Queued, Range, TypeOK
    <2>2. QED
      BY <1>1, <2>1, QuotaType, LimitsAssumption DEF AcquireFast, Grant, CanGrant,
         BelowOrgQuota, WorkConserving, OneFreeShare, TypeOK, Queued
  <1>8. QED
    BY <1>2, <1>3, <1>4, <1>5, <1>6, <1>7

\* The callers' steps outside the lock that only move the program counter.
LEMMA WaitingStepKeeps ==
  ASSUME IInv, NEW r \in Requests,
         ExpireBeforeWait(r) \/ BeginWait(r) \/ WakeGranted(r) \/ WaitTimeout(r)
           \/ Leave(r)
  PROVE  IInv'
  <1> USE DEF IInv
  <1> USE DEF ExpireBeforeWait, BeginWait, WakeGranted, WaitTimeout, Leave, Goto
  <1>1. SlotsAccounted' /\ CapacityRespected' /\ WorkConserving' /\ OneFreeShare'
    BY SlotsUntouched DEF Holders
  <1>2. TypeOK'
    BY DEF TypeOK, Places
  <1>3. LeaseMatchesCaller'
    BY RequestsAssumption DEF TypeOK, LeaseMatchesCaller
  <1>4. QueueExact'
    BY DEF TypeOK, LeaseMatchesCaller, QueueExact, Queued
  <1>5. QED
    BY <1>1, <1>2, <1>3, <1>4

LEMMA AcquireQueueFullKeeps ==
  ASSUME IInv, NEW r \in Requests, AcquireQueueFull(r)
  PROVE  IInv'
  <1> USE DEF IInv, AcquireQueueFull, Goto
  <1>1. SlotsAccounted' /\ CapacityRespected' /\ WorkConserving' /\ OneFreeShare'
    BY SlotsUntouched DEF Holders
  <1>2. TypeOK'
    BY DEF TypeOK, Places
  <1>3. LeaseMatchesCaller'
    BY RequestsAssumption DEF TypeOK, LeaseMatchesCaller
  <1>4. QueueExact'
    BY DEF TypeOK, LeaseMatchesCaller, QueueExact, Queued
  <1>5. QED
    BY <1>1, <1>2, <1>3, <1>4

LEMMA AcquireEnqueueKeeps ==
  ASSUME IInv, NEW r \in Requests, AcquireEnqueue(r)
  PROVE  IInv'
  <1> USE DEF IInv, AcquireEnqueue, Goto
  <1>1. TypeOK'
    BY DEF TypeOK, Places
  <1>2. LeaseMatchesCaller'
    BY RequestsAssumption DEF TypeOK, LeaseMatchesCaller
  <1>3. /\ waiters \in Seq(Requests) /\ DOMAIN waiters = 1 .. Len(waiters)
        /\ Len(waiters) \in Nat
        /\ waiters' \in Seq(Requests) /\ Len(waiters') = Len(waiters) + 1
        /\ DOMAIN waiters' = 1 .. Len(waiters) + 1
        /\ waiters'[Len(waiters) + 1] = r
        /\ \A i \in DOMAIN waiters : waiters'[i] = waiters[i]
    BY DEF TypeOK
  <1>4. Queued' = Queued \cup {r} /\ r \notin Queued
    <2>1. r \notin Queued
      BY DEF QueueExact
    <2>2. QED
      BY <1>3, <2>1 DEF Queued, Range
  <1>5. QueueExact'
    <2>1. \A q \in Requests :
            q \in Queued' <=> /\ pc'[q] \in {"enqueued", "waiting", "expired"}
                              /\ lease'[q] = "none"
      BY <1>4 DEF TypeOK, LeaseMatchesCaller, QueueExact
    <2>2. \A i, j \in DOMAIN waiters' : waiters'[i] = waiters'[j] => i = j
      BY <1>3, <1>4 DEF QueueExact, Queued, Range
    <2>3. Len(waiters') <= MaxQueued
      BY <1>3, LimitsAssumption
    <2>4. QED
      BY <2>1, <2>2, <2>3 DEF QueueExact
  <1>6. SlotsAccounted'
    BY DEF SlotsAccounted, Holders, HoldersOf
  <1>7. CapacityRespected' /\ WorkConserving' /\ OneFreeShare'
    BY <1>4 DEF CapacityRespected, WorkConserving, OneFreeShare, CanGrant, BelowOrgQuota
  <1>8. QED
    BY <1>1, <1>2, <1>5, <1>6, <1>7

LEMMA RemoveWaiterKeeps ==
  ASSUME IInv, NEW r \in Requests, RemoveWaiter(r)
  PROVE  IInv'
  <1> USE DEF IInv, RemoveWaiter, Goto
  <1>1. /\ Queued' = Queued \ {r}
        /\ waiters' \in Seq(Requests)
        /\ Len(waiters') <= Len(waiters)
        /\ \A i, j \in DOMAIN waiters' : waiters'[i] = waiters'[j] => i = j
    <2>1. ASSUME NEW i \in DOMAIN waiters, waiters[i] = r,
                 waiters' = RemoveAt(waiters, i)
          PROVE  /\ Queued' = Queued \ {r}
                 /\ waiters' \in Seq(Requests)
                 /\ Len(waiters') <= Len(waiters)
                 /\ \A j, k \in DOMAIN waiters' : waiters'[j] = waiters'[k] => j = k
      <3>1. /\ waiters' \in Seq(Requests)
            /\ Len(waiters') = Len(waiters) - 1
        BY <2>1, RemoveAtShape DEF TypeOK
      <3>2. /\ Range(waiters') = Range(waiters) \ {r}
            /\ \A j, k \in DOMAIN waiters' : waiters'[j] = waiters'[k] => j = k
        BY <2>1, RemoveAtRange DEF TypeOK, QueueExact
      <3>3. Len(waiters) \in Nat
        BY DEF TypeOK
      <3>4. QED
        BY <3>1, <3>2, <3>3 DEF Queued
    <2>2. CASE r \notin Queued /\ UNCHANGED waiters
      BY <2>2 DEF TypeOK, QueueExact, Queued
    <2>3. QED
      BY <2>1, <2>2
  <1>2. TypeOK'
    BY <1>1 DEF TypeOK, Places
  <1>3. LeaseMatchesCaller'
    BY RequestsAssumption DEF TypeOK, LeaseMatchesCaller
  <1>4. QueueExact'
    <2>1. \A q \in Requests :
            q \in Queued' <=> /\ pc'[q] \in {"enqueued", "waiting", "expired"}
                              /\ lease'[q] = "none"
      BY <1>1 DEF TypeOK, QueueExact
    <2>2. Len(waiters') <= MaxQueued
      BY <1>1, LimitsAssumption DEF TypeOK, QueueExact
    <2>3. QED
      BY <1>1, <2>1, <2>2 DEF QueueExact
  <1>5. SlotsAccounted'
    BY DEF SlotsAccounted, Holders, HoldersOf
  <1>6. CapacityRespected' /\ WorkConserving' /\ OneFreeShare'
    BY <1>1 DEF CapacityRespected, WorkConserving, OneFreeShare, CanGrant, BelowOrgQuota
  <1>7. QED
    BY <1>2, <1>3, <1>4, <1>5, <1>6

LEMMA CloseKeeps ==
  ASSUME IInv, NEW r \in Requests, Close(r)
  PROVE  IInv'
  <1> USE DEF IInv, Close, Goto
  <1>1. Holders' = Holders
    BY DEF Holders, TypeOK
  <1>2. SlotsAccounted' /\ CapacityRespected' /\ WorkConserving' /\ OneFreeShare'
    BY <1>1, SlotsUntouched
  <1>3. TypeOK'
    BY DEF TypeOK, Places, LeaseStates
  <1>4. LeaseMatchesCaller'
    BY RequestsAssumption DEF TypeOK, LeaseMatchesCaller
  <1>5. QueueExact'
    BY DEF TypeOK, LeaseMatchesCaller, QueueExact, Queued
  <1>6. QED
    BY <1>2, <1>3, <1>4, <1>5

LEMMA ReleaseKeeps ==
  ASSUME IInv, NEW r \in Requests, Release(r)
  PROVE  IInv'
  <1> USE DEF IInv
  <1>1. /\ SlotsAccounted' /\ active' \in Nat /\ active' = active - 1
        /\ orgActive' = [orgActive EXCEPT ![OrgOf[r]] = @ - 1]
        /\ orgActive' \in [Orgs -> Nat]
        /\ OrgOf[r] \in Orgs
    BY ReleaseCounts DEF Release, LeaseMatchesCaller
  <1>2. TypeOK'
    BY <1>1 DEF Release, Goto, TypeOK, Places, LeaseStates
  <1>3. LeaseMatchesCaller'
    BY RequestsAssumption DEF Release, Goto, TypeOK, LeaseMatchesCaller
  <1>4. QueueExact'
    BY DEF Release, Goto, TypeOK, LeaseMatchesCaller, QueueExact, Queued
  <1>5. CapacityRespected'
    BY <1>1, QuotaType, LimitsAssumption DEF CapacityRespected, TypeOK
  <1>6. WorkConserving'
    BY RequestsAssumption DEF Release, WorkConserving
  <1>7. OneFreeShare'
    <2>1. lock' = r /\ Queued' = Queued
      BY DEF Release, Queued
    <2>2. \A w \in Queued : w \in Requests /\ OrgOf[w] \in Orgs
      BY RequestsAssumption DEF Queued, Range, TypeOK
    <2>3. CASE active = MaxActive
      BY <1>1, <2>3, LimitsAssumption DEF OneFreeShare, TypeOK
    <2>4. CASE active # MaxActive
      <3>1. \A w \in Queued : orgActive[OrgOf[w]] = MaxActivePerOrg
        BY <2>2, <2>4, LimitsAssumption, QuotaType DEF Release, WorkConserving,
           CanGrant, BelowOrgQuota, CapacityRespected, TypeOK
      <3>2. \A w \in Queued : BelowOrgQuota(OrgOf[w])' =>
              /\ OrgOf[w] = OrgOf[r]
              /\ orgActive'[OrgOf[w]] = MaxActivePerOrg - 1
        BY <1>1, <2>2, <3>1, QuotaType DEF BelowOrgQuota, TypeOK
      <3>3. QED
        BY <2>1, <3>2 DEF OneFreeShare
    <2>5. QED
      BY <2>3, <2>4
  <1>8. QED
    BY <1>1, <1>2, <1>3, <1>4, <1>5, <1>6, <1>7

\* One iteration of the grant loop keeps the invariant and leaves nobody
\* eligible for another.
LEMMA GrantWaiterKeeps ==
  ASSUME IInv, NEW r \in Requests, GrantWaiter(r)
  PROVE  /\ IInv'
         /\ \A w \in Queued' : ~CanGrant(OrgOf[w])'
  <1> USE DEF IInv
  <1>1. PICK i \in DOMAIN waiters : /\ FirstEligible(i)
                                    /\ Grant(waiters[i])
                                    /\ waiters' = RemoveAt(waiters, i)
    BY DEF GrantWaiter
  <1> DEFINE q == waiters[i]
  <1>2. q \in Requests /\ q \in Queued /\ lease[q] = "none" /\ OrgOf[q] \in Orgs
    BY RequestsAssumption DEF Queued, Range, TypeOK, QueueExact
  <1>3. /\ SlotsAccounted' /\ active' \in Nat /\ orgActive' \in [Orgs -> Nat]
        /\ lease' \in [Requests -> LeaseStates]
    BY <1>1, <1>2, GrantCounts
  <1>4. /\ waiters' \in Seq(Requests) /\ Len(waiters') = Len(waiters) - 1
        /\ Queued' = Queued \ {q}
        /\ \A j, k \in DOMAIN waiters' : waiters'[j] = waiters'[k] => j = k
    <2>1. waiters' \in Seq(Requests) /\ Len(waiters') = Len(waiters) - 1
      BY <1>1, RemoveAtShape DEF TypeOK
    <2>2. /\ Range(waiters') = Range(waiters) \ {q}
          /\ \A j, k \in DOMAIN waiters' : waiters'[j] = waiters'[k] => j = k
      BY <1>1, RemoveAtRange DEF TypeOK, QueueExact
    <2>3. QED
      BY <2>1, <2>2 DEF Queued
  <1>5. CanGrant(OrgOf[q])
    BY <1>1 DEF FirstEligible
  <1>6. /\ active' = active + 1
        /\ orgActive' = [orgActive EXCEPT ![OrgOf[q]] = @ + 1]
        /\ lease' = [lease EXCEPT ![q] = "open"]
        /\ UNCHANGED <<lock, pc>>
        /\ lock = r
    BY <1>1 DEF Grant, GrantWaiter
  <1> HIDE DEF q
  <1>7. TypeOK'
    BY <1>3, <1>4, <1>6 DEF TypeOK
  <1>8. LeaseMatchesCaller'
    BY <1>2, <1>6 DEF LeaseMatchesCaller, QueueExact, TypeOK
  <1>9. QueueExact'
    <2>1. Len(waiters') <= MaxQueued
      BY <1>4, LimitsAssumption DEF QueueExact, TypeOK
    <2>2. \A p \in Requests :
            p \in Queued' <=> /\ pc'[p] \in {"enqueued", "waiting", "expired"}
                              /\ lease'[p] = "none"
      BY <1>2, <1>4, <1>6 DEF QueueExact, TypeOK
    <2>3. QED
      BY <1>4, <2>1, <2>2 DEF QueueExact
  <1>10. CapacityRespected'
    BY <1>2, <1>5, <1>6, QuotaType, LimitsAssumption DEF CanGrant, BelowOrgQuota,
       CapacityRespected, TypeOK
  <1>11. WorkConserving'
    BY <1>6, RequestsAssumption DEF WorkConserving
  <1>12. \A w \in Queued : w \in Requests /\ OrgOf[w] \in Orgs
    BY RequestsAssumption DEF Queued, Range, TypeOK
  <1>13. \/ active' >= MaxActive
         \/ \A w \in Queued' : ~BelowOrgQuota(OrgOf[w])'
    <2>1. CASE active >= MaxActive - 1
      BY <1>6, <2>1, LimitsAssumption DEF TypeOK
    <2>2. CASE ~(active >= MaxActive - 1)
      <3>1. \A w \in Queued : BelowOrgQuota(OrgOf[w]) =>
              /\ OrgOf[w] = OrgOf[r]
              /\ orgActive[OrgOf[w]] = MaxActivePerOrg - 1
        BY <1>6, <2>2, RequestsAssumption DEF OneFreeShare
      <3>2. OrgOf[q] = OrgOf[r] /\ orgActive[OrgOf[q]] = MaxActivePerOrg - 1
        BY <1>2, <1>5, <3>1 DEF CanGrant
      <3>3. QED
        BY <1>2, <1>4, <1>6, <1>12, <3>1, <3>2, QuotaType DEF BelowOrgQuota, TypeOK
    <2>3. QED
      BY <2>1, <2>2
  <1>14. OneFreeShare'
    BY <1>3, <1>13, LimitsAssumption DEF OneFreeShare
  <1>15. \A w \in Queued' : ~CanGrant(OrgOf[w])'
    BY <1>3, <1>13, LimitsAssumption DEF CanGrant
  <1>16. QED
    BY <1>3, <1>7, <1>8, <1>9, <1>10, <1>11, <1>14, <1>15

\* A queue in which no position is the first eligible one has no eligible waiter.
LEMMA NoFirstNoEligible ==
  ASSUME TypeOK, ~\E i \in DOMAIN waiters : FirstEligible(i)
  PROVE  \A w \in Queued : ~CanGrant(OrgOf[w])
  <1> SUFFICES ASSUME NEW w \in Queued, CanGrant(OrgOf[w])
               PROVE  FALSE
    OBVIOUS
  <1> DEFINE T == {i \in DOMAIN waiters : BelowOrgQuota(OrgOf[waiters[i]])}
  <1>1. DOMAIN waiters = 1 .. Len(waiters) /\ Len(waiters) \in Nat
    BY DEF TypeOK
  <1>2. T \subseteq Nat /\ T # {}
    BY <1>1 DEF Queued, Range, CanGrant
  <1>3. PICK m \in T : \A j \in T : ~(<<j, m>> \in OpToRel(<, Nat))
    BY <1>2, NatLessThanWellFounded, WFMin, Zenon
  <1>4. \A j \in T : ~(j < m)
    BY <1>2, <1>3 DEF OpToRel
  <1>5. FirstEligible(m)
    BY <1>1, <1>4 DEF FirstEligible, CanGrant
  <1>6. QED
    BY <1>5

LEMMA EndReleaseKeeps ==
  ASSUME IInv, NEW r \in Requests, EndRelease(r)
  PROVE  IInv'
  <1> USE DEF IInv
  <1>1. UNCHANGED <<active, orgActive, waiters, lease>> /\ lock' = NoRequest
    BY DEF EndRelease
  <1>2. TypeOK'
    BY DEF EndRelease, Goto, TypeOK, Places
  <1>3. LeaseMatchesCaller'
    BY RequestsAssumption DEF EndRelease, Goto, TypeOK, LeaseMatchesCaller
  <1>4. QueueExact'
    BY DEF EndRelease, Goto, TypeOK, LeaseMatchesCaller, QueueExact, Queued
  <1>5. SlotsAccounted' /\ CapacityRespected'
    BY <1>1 DEF SlotsAccounted, Holders, HoldersOf, CapacityRespected
  <1>6. \A w \in Queued : ~CanGrant(OrgOf[w])
    BY NoFirstNoEligible DEF EndRelease
  <1>7. WorkConserving' /\ OneFreeShare'
    BY <1>1, <1>6 DEF WorkConserving, OneFreeShare, Queued, CanGrant, BelowOrgQuota
  <1>8. QED
    BY <1>2, <1>3, <1>4, <1>5, <1>7

\* Every step keeps the inductive invariant.
LEMMA StepKeeps == IInv /\ [Next]_vars => IInv'
  <1> SUFFICES ASSUME IInv, [Next]_vars PROVE IInv'
    OBVIOUS
  <1>1. ASSUME NEW r \in Requests, Step(r)
        PROVE  IInv'
    BY <1>1, AcquireFastKeeps, AcquireQueueFullKeeps, AcquireEnqueueKeeps,
       WaitingStepKeeps, RemoveWaiterKeeps, CloseKeeps, ReleaseKeeps,
       GrantWaiterKeeps, EndReleaseKeeps DEF Step, Acquire
  <1>2. CASE UNCHANGED vars
    BY <1>2 DEF vars, IInv, TypeOK, LeaseMatchesCaller, QueueExact, SlotsAccounted,
       CapacityRespected, WorkConserving, OneFreeShare, Holders, HoldersOf, Queued,
       CanGrant, BelowOrgQuota
  <1>3. QED
    BY <1>1, <1>2 DEF Next, AllAnswered

-----------------------------------------------------------------------------
(***************************************************************************)
(* The theorems.                                                           *)
(***************************************************************************)

\* The inductive invariant holds in every reachable state of the controller.
THEOREM InvariantHolds == Spec => []IInv
  BY InitEstablishes, StepKeeps, PTL DEF Spec

\* The controller's fields keep their types; _active is never negative.
THEOREM TypeCorrect == Spec => []TypeOK
  <1>1. IInv => TypeOK
    BY DEF IInv
  <1>2. QED
    BY <1>1, InvariantHolds, PTL

\* _active and _org_active count exactly the leases that are out.
THEOREM SlotsAreAccounted == Spec => []SlotsAccounted
  <1>1. IInv => SlotsAccounted
    BY DEF IInv
  <1>2. QED
    BY <1>1, InvariantHolds, PTL

\* Neither the global limit nor an organization's share is ever exceeded.
THEOREM CapacityIsRespected == Spec => []CapacityRespected
  <1>1. IInv => CapacityRespected
    BY DEF IInv
  <1>2. QED
    BY <1>1, InvariantHolds, PTL

\* No free slot is left idle while a waiter it could serve is queued.
THEOREM IsWorkConserving == Spec => []WorkConserving
  <1>1. IInv => WorkConserving
    BY DEF IInv
  <1>2. QED
    BY <1>1, InvariantHolds, PTL

\* The deque holds exactly the undecided waiters, each once, within its bound.
THEOREM QueueIsExact == Spec => []QueueExact
  <1>1. IInv => QueueExact
    BY DEF IInv
  <1>2. QED
    BY <1>1, InvariantHolds, PTL

\* One release admits at most one waiter.
THEOREM ReleaseAdmitsAtMostOne == Spec => ReleaseAdmitsOne
  <1>1. ASSUME IInv, NEW r \in Requests, GrantWaiter(r)
        PROVE  ~\E i \in DOMAIN waiters' : FirstEligible(i)'
    <2>1. \A w \in Queued' : ~CanGrant(OrgOf[w])'
      BY <1>1, GrantWaiterKeeps
    <2>2. QED
      BY <2>1 DEF FirstEligible, Queued, Range
  <1>2. IInv /\ [Next]_vars =>
          [\A r \in Requests :
             GrantWaiter(r) => ~\E i \in DOMAIN waiters' : FirstEligible(i)']_vars
    BY <1>1
  <1>3. QED
    BY <1>2, InvariantHolds, PTL DEF Spec, ReleaseAdmitsOne

\* A grant passes over an earlier waiter only if that waiter's organization is
\* at its quota.
THEOREM NobodyIsOvertaken == Spec => NoOvertaking
  <1> DEFINE Fair(r) ==
        lease[r] = "none" /\ lease'[r] = "open" =>
          \A w \in AheadOf(r) : ~BelowOrgQuota(OrgOf[w])
  <1>1. ASSUME IInv, NEW q \in Requests, Step(q), NEW r \in Requests,
               lease[r] = "none", lease'[r] = "open", NEW w \in AheadOf(r)
        PROVE  ~BelowOrgQuota(OrgOf[w])
    <2>1. CASE AcquireFast(q)
      <3>1. w \in Queued
        BY DEF AheadOf, Queued, Range
      <3>2. QED
        BY <1>1, <2>1, <3>1 DEF AcquireFast, IInv, WorkConserving, CanGrant
    <2>2. CASE GrantWaiter(q)
      <3>1. PICK i \in DOMAIN waiters : FirstEligible(i) /\ Grant(waiters[i])
        BY <2>2 DEF GrantWaiter
      <3>2. r = waiters[i]
        BY <1>1, <3>1 DEF Grant, IInv, TypeOK
      <3>3. PICK j \in DOMAIN waiters : w = waiters[j] /\ j < i
        BY <1>1, <3>2 DEF AheadOf
      <3>4. j \in 1 .. i - 1
        BY <1>1, <3>1, <3>3 DEF IInv, TypeOK
      <3>5. QED
        BY <3>1, <3>3, <3>4 DEF FirstEligible
    <2>3. CASE ~AcquireFast(q) /\ ~GrantWaiter(q)
      BY <1>1, <2>3 DEF Step, Acquire, AcquireQueueFull, AcquireEnqueue,
         ExpireBeforeWait, BeginWait, WakeGranted, WaitTimeout, RemoveWaiter, Close,
         Leave, Release, EndRelease, IInv, TypeOK
    <2>4. QED
      BY <2>1, <2>2, <2>3
  <1>2. IInv /\ [Next]_vars => [\A r \in Requests : Fair(r)]_vars
    <2>1. ASSUME IInv, Next PROVE [\A r \in Requests : Fair(r)]_vars
      <3>1. ASSUME NEW q \in Requests, Step(q) PROVE \A r \in Requests : Fair(r)
        BY <1>1, <2>1, <3>1
      <3>2. CASE AllAnswered
        BY <3>2 DEF AllAnswered
      <3>3. QED
        BY <2>1, <3>1, <3>2 DEF Next
    <2>2. QED
      BY <2>1
  <1>3. QED
    BY <1>2, InvariantHolds, PTL DEF Spec, NoOvertaking

\* A grant of the controller is a grant of the pool.
LEMMA GrantRefines ==
  ASSUME TypeOK, SlotsAccounted, NEW q \in Requests, lease[q] = "none",
         CanGrant(OrgOf[q]), Grant(q)
  PROVE  Pool!Grant(q)
  <1>1. OrgOf[q] \in Orgs
    BY RequestsAssumption
  <1>2. /\ q \notin Holders \cup Returned
        /\ Holders' = Holders \cup {q}
        /\ Returned' = Returned
    BY DEF Grant, Holders, Returned, TypeOK, LeaseStates
  <1>3. Cardinality(Holders) < MaxActive
    BY DEF SlotsAccounted, CanGrant
  <1>4. Cardinality(Pool!SameOrg(q)) < MaxActivePerOrg
    BY <1>1 DEF SlotsAccounted, CanGrant, BelowOrgQuota, HoldersOf, Pool!SameOrg
  <1>5. QED
    BY <1>2, <1>3, <1>4 DEF Pool!Grant, Pool!SameOrg, Pool!Cardinality, Cardinality

\* Admission control implements the abstract lease pool.
THEOREM AdmissionImplementsLeasePool == Spec => ImplementsLeasePool
  <1>1. Init => Pool!Init
    BY DEF Init, Pool!Init, Holders, Returned
  <1>2. IInv /\ [Next]_vars => [Pool!Next]_<<Holders, Returned>>
    <2> SUFFICES ASSUME IInv, [Next]_vars
                 PROVE  Pool!Next \/ UNCHANGED <<Holders, Returned>>
      OBVIOUS
    <2> USE DEF IInv
    <2>1. ASSUME NEW r \in Requests, AcquireFast(r)
          PROVE  Pool!Next
      <3>1. lease[r] = "none" /\ CanGrant(OrgOf[r]) /\ Grant(r)
        BY <2>1 DEF AcquireFast, LeaseMatchesCaller
      <3>2. QED
        BY <3>1, GrantRefines DEF Pool!Next
    <2>2. ASSUME NEW r \in Requests, GrantWaiter(r)
          PROVE  Pool!Next
      <3>1. PICK i \in DOMAIN waiters : FirstEligible(i) /\ Grant(waiters[i])
        BY <2>2 DEF GrantWaiter
      <3>2. /\ waiters[i] \in Requests /\ lease[waiters[i]] = "none"
            /\ CanGrant(OrgOf[waiters[i]])
        BY <3>1 DEF FirstEligible, TypeOK, QueueExact, Queued, Range
      <3>3. QED
        BY <3>1, <3>2, GrantRefines DEF Pool!Next
    <2>3. ASSUME NEW r \in Requests, Release(r)
          PROVE  Pool!Next
      <3>1. Pool!Return(r)
        BY <2>3 DEF Release, LeaseMatchesCaller, TypeOK, Holders, Returned,
           Pool!Return
      <3>2. QED
        BY <3>1 DEF Pool!Next
    <2>4. ASSUME NEW r \in Requests, Step(r), ~AcquireFast(r), ~GrantWaiter(r),
                 ~Release(r)
          PROVE  UNCHANGED <<Holders, Returned>>
      <3>1. CASE Close(r)
        BY <3>1 DEF Close, LeaseMatchesCaller, TypeOK, Holders, Returned
      <3>2. CASE UNCHANGED lease
        BY <3>2 DEF Holders, Returned
      <3>3. QED
        BY <2>4, <3>1, <3>2 DEF Step, Acquire, AcquireQueueFull, AcquireEnqueue,
           ExpireBeforeWait, BeginWait, WakeGranted, WaitTimeout, RemoveWaiter,
           Leave, EndRelease
    <2>5. CASE UNCHANGED vars
      BY <2>5 DEF vars, Holders, Returned
    <2>6. QED
      BY <2>1, <2>2, <2>3, <2>4, <2>5 DEF Next, AllAnswered
  <1>3. QED
    BY <1>1, <1>2, InvariantHolds, PTL DEF Spec, ImplementsLeasePool, Pool!Spec
=============================================================================

--------------------------- MODULE ToolQueueProofs ----------------------------
(***************************************************************************)
(* Proofs about ToolQueue and its history, for any number of producers,    *)
(* keys and worker generations and every limit.                            *)
(*                                                                         *)
(* The lengths of leases and delays are left untyped: nothing below        *)
(* depends on them but that a task is eligible only when both are over.    *)
(***************************************************************************)
EXTENDS ToolQueueHistory, FiniteSetTheorems, SequenceTheorems, TLAPS

Statuses == {"queued", "processing", "done", "dead"}
WorkerStates == {"unborn", "idle", "claiming", "executing", "exited"}

IsTask(x) ==
  x \in [key : Keys, status : Statuses, attempts : Nat,
         lease : {x.lease}, delay : {x.delay}]

IsTable(s) ==
  /\ Len(s) \in Nat
  /\ DOMAIN s = 1 .. Len(s)
  /\ s = [t \in 1 .. Len(s) |-> s[t]]
  /\ \A t \in 1 .. Len(s) : IsTask(s[t])

Types ==
  /\ IsTable(tasks)
  /\ dead \in Seq(Nat)
  /\ worker \in [Workers -> WorkerStates]
  /\ claimed \in [Workers -> Nat]
  /\ current \in Workers
  /\ stopping \in BOOLEAN
  /\ stopping => current < Generations

AtTask(w) == worker[w] \in {"claiming", "executing"}

\* Only the present worker claims; those to come have not begun.
OneClaimer ==
  \A w \in Workers :
    /\ worker[w] = "claiming" => w = current
    /\ w > current => worker[w] = "unborn"
    /\ AtTask(w) => claimed[w] \in Ids

\* What a claim has chosen still fits under its rate limit when it is taken.
ClaimFits == \A w \in Workers : worker[w] = "claiming" => ~Throttled(claimed[w])

\* Until a restart a worker between selection and claim has a queued task.
ClaimIsQueued ==
  current = 1 =>
    \A w \in Workers : worker[w] = "claiming" => tasks[claimed[w]].status = "queued"

DeadAreTasks == \A i \in DOMAIN dead : dead[i] \in Ids

IInv ==
  /\ Types
  /\ OneClaimer
  /\ ClaimFits
  /\ ClaimIsQueued
  /\ DeadAreTasks
  /\ RateCapRespected
  /\ InFlightExact
  /\ DeadLettersExact

-----------------------------------------------------------------------------
(***************************************************************************)
(* The store                                                               *)
(***************************************************************************)

\* A task is appended.
LEMMA AppendTask ==
  ASSUME NEW s, IsTable(s), NEW x, IsTask(x)
  PROVE  /\ IsTable(Append(s, x))
         /\ Len(Append(s, x)) = Len(s) + 1
         /\ \A t \in 1 .. Len(s) : Append(s, x)[t] = s[t]
         /\ Append(s, x)[Len(s) + 1] = x
<1> DEFINE S == {s[t] : t \in 1 .. Len(s)} \cup {x}
           n == Len(s)
<1>1. n \in Nat /\ s = [t \in 1 .. n |-> s[t]]
  BY DEF IsTable
<1>2. s \in [1 .. n -> S]
  BY <1>1
<1>3. s \in Seq(S)
  BY <1>1, <1>2
<1>4. /\ Append(s, x) \in Seq(S)
      /\ Len(Append(s, x)) = n + 1
      /\ \A t \in 1 .. n : Append(s, x)[t] = s[t]
      /\ Append(s, x)[n + 1] = x
  BY <1>3, AppendProperties
<1>5. Append(s, x) \in [1 .. n + 1 -> S]
  BY <1>4, LenProperties
<1>6. Append(s, x) = [t \in 1 .. n + 1 |-> Append(s, x)[t]]
  BY <1>5
<1>7. \A t \in 1 .. n + 1 : t \in 1 .. n \/ t = n + 1
  BY <1>1
<1>8. \A t \in 1 .. n + 1 : IsTask(Append(s, x)[t])
  BY <1>4, <1>7 DEF IsTable
<1> QED
  BY <1>1, <1>4, <1>6, <1>8 DEF IsTable

\* The step changes task c alone, and keeps its key.
Rewrites(c, status, attempts) ==
  /\ IsTable(tasks')
  /\ Len(tasks') = Len(tasks)
  /\ \A t \in Ids \ {c} : tasks'[t] = tasks[t]
  /\ tasks'[c].key = tasks[c].key
  /\ tasks'[c].status = status
  /\ tasks'[c].attempts = attempts

LEMMA IdsOfTable == Types => Ids = 1 .. Len(tasks) /\ Len(tasks) \in Nat
BY DEF Types, IsTable, Ids

LEMMA UpdateTask ==
  ASSUME Types, NEW c \in Ids, NEW x, IsTask(x), x.key = tasks[c].key,
         tasks' = [t \in Ids |-> IF t = c THEN x ELSE tasks[t]]
  PROVE  Rewrites(c, x.status, x.attempts)
<1> DEFINE n == Len(tasks)
<1>1. n \in Nat /\ Ids = 1 .. n
  BY IdsOfTable
<1>2. /\ tasks' = [t \in 1 .. n |-> tasks'[t]]
      /\ tasks'[c] = x
      /\ \A t \in Ids \ {c} : tasks'[t] = tasks[t]
  BY <1>1
<1>3. Len(tasks') = n
  BY <1>1, <1>2
<1>4. \A t \in 1 .. n : IsTask(tasks'[t])
  BY <1>1, <1>2 DEF IsTable, Types
<1>5. IsTable(tasks')
  BY <1>1, <1>2, <1>3, <1>4 DEF IsTable
<1> QED
  BY <1>1, <1>2, <1>3, <1>5 DEF Rewrites

\* store.update of a claimed task.
LEMMA UpdateRewrites ==
  ASSUME IInv, NEW w \in Workers, AtTask(w),
         NEW x, IsTask(x), x.key = Task(w).key, Update(w, x)
  PROVE  Rewrites(claimed[w], x.status, x.attempts)
<1>1. claimed[w] \in Ids
  BY DEF IInv, OneClaimer
<1>2. tasks = [t \in Ids |-> tasks[t]]
  BY IdsOfTable DEF IInv, Types, IsTable
<1>3. tasks' = [t \in Ids |-> IF t = claimed[w] THEN x ELSE tasks[t]]
  BY <1>1, <1>2 DEF Update
<1> QED
  BY <1>1, <1>3, UpdateTask DEF Task, IInv

\* What a worker has claimed is a task of the store.
LEMMA ClaimedTask ==
  ASSUME IInv, NEW w \in Workers, AtTask(w)
  PROVE  claimed[w] \in Ids /\ IsTask(Task(w))
BY IdsOfTable DEF IInv, OneClaimer, Types, IsTable, Task

LEMMA TakeRewrites ==
  ASSUME IInv, NEW w \in Workers, ClaimTake(w)
  PROVE  /\ claimed[w] \in Ids
         /\ Rewrites(claimed[w], "processing", Task(w).attempts)
<1> DEFINE x == [Task(w) EXCEPT !.status = "processing", !.lease = Left(w, VisibilityTimeout)]
<1>1. AtTask(w) /\ claimed[w] \in Ids /\ IsTask(Task(w))
  BY ClaimedTask DEF ClaimTake, AtTask
<1>2. Update(w, x)
  BY DEF ClaimTake
<1>3. /\ IsTask(x)
      /\ x.key = Task(w).key
      /\ x.status = "processing"
      /\ x.attempts = Task(w).attempts
  BY <1>1 DEF IsTask, Statuses
<1> HIDE DEF x
<1> QED
  BY <1>1, <1>2, <1>3, UpdateRewrites

LEMMA CompleteRewrites ==
  ASSUME IInv, NEW w \in Workers, Complete(w)
  PROVE  /\ claimed[w] \in Ids
         /\ Rewrites(claimed[w], "done", Task(w).attempts)
<1> DEFINE x == [Task(w) EXCEPT !.status = "done", !.lease = 0]
<1>1. AtTask(w) /\ claimed[w] \in Ids /\ IsTask(Task(w))
  BY ClaimedTask DEF Complete, AtTask
<1>2. Update(w, x)
  BY DEF Complete
<1>3. /\ IsTask(x)
      /\ x.key = Task(w).key
      /\ x.status = "done"
      /\ x.attempts = Task(w).attempts
  BY <1>1 DEF IsTask, Statuses
<1> HIDE DEF x
<1> QED
  BY <1>1, <1>2, <1>3, UpdateRewrites

LEMMA RetryRewrites ==
  ASSUME IInv, NEW w \in Workers, FailRetry(w)
  PROVE  /\ claimed[w] \in Ids
         /\ Rewrites(claimed[w], "queued", Task(w).attempts + 1)
         /\ Task(w).attempts + 1 < MaxAttempts
<1> DEFINE n == Task(w).attempts + 1
           d == Left(w, Backoff(n))
           x == [Task(w) EXCEPT !.status = "queued", !.lease = 0, !.attempts = n,
                           !.delay = d]
<1>1. AtTask(w) /\ claimed[w] \in Ids /\ IsTask(Task(w))
  BY ClaimedTask DEF FailRetry, AtTask
<1>2. Update(w, x)
  BY DEF FailRetry
<1>3. /\ IsTask(x)
      /\ x.key = Task(w).key
      /\ x.status = "queued"
      /\ x.attempts = n
  <2>1. n \in Nat /\ "queued" \in Statuses
    BY <1>1 DEF IsTask, Statuses
  <2>2. x = [Task(w) EXCEPT !.status = "queued", !.lease = 0, !.attempts = n,
                            !.delay = d]
    OBVIOUS
  <2> HIDE DEF n, d, x
  <2>3. x \in [key : {Task(w).key}, status : {"queued"}, attempts : {n}, lease : {0},
               delay : {d}]
    BY <1>1, <2>1, <2>2 DEF IsTask
  <2> QED
    BY <1>1, <2>1, <2>3 DEF IsTask
<1>4. Task(w).attempts + 1 < MaxAttempts
  BY <1>1, QueueAssumption DEF FailRetry, Exhausted, IsTask
<1> HIDE DEF x
<1> QED
  BY <1>1, <1>2, <1>3, <1>4, UpdateRewrites

LEMMA DeadRewrites ==
  ASSUME IInv, NEW w \in Workers, FailDead(w)
  PROVE  /\ claimed[w] \in Ids
         /\ Rewrites(claimed[w], "dead", Task(w).attempts + 1)
         /\ Task(w).attempts + 1 >= MaxAttempts
<1> DEFINE n == Task(w).attempts + 1
           x == [Task(w) EXCEPT !.status = "dead", !.lease = 0, !.attempts = n]
<1>1. AtTask(w) /\ claimed[w] \in Ids /\ IsTask(Task(w))
  BY ClaimedTask DEF FailDead, AtTask
<1>2. Update(w, x)
  BY DEF FailDead
<1>3. /\ IsTask(x)
      /\ x.key = Task(w).key
      /\ x.status = "dead"
      /\ x.attempts = n
  <2>1. n \in Nat /\ "dead" \in Statuses
    BY <1>1 DEF IsTask, Statuses
  <2>2. x = [Task(w) EXCEPT !.status = "dead", !.lease = 0, !.attempts = n]
    OBVIOUS
  <2> HIDE DEF n, x
  <2>3. x \in [key : {Task(w).key}, status : {"dead"}, attempts : {n}, lease : {0},
               delay : {Task(w).delay}]
    BY <1>1, <2>1, <2>2 DEF IsTask
  <2> QED
    BY <1>1, <2>1, <2>3 DEF IsTask
<1>4. Task(w).attempts + 1 >= MaxAttempts
  BY <1>1, QueueAssumption DEF FailDead, Exhausted, IsTask
<1> HIDE DEF x
<1> QED
  BY <1>1, <1>2, <1>3, <1>4, UpdateRewrites

-----------------------------------------------------------------------------
(***************************************************************************)
(* Tasks in flight                                                         *)
(***************************************************************************)

\* No task gets into "processing".
QuietStep ==
  /\ IsTable(tasks')
  /\ Len(tasks) <= Len(tasks')
  /\ \A t \in Ids : tasks'[t].key = tasks[t].key
  /\ \A t \in Ids' : tasks'[t].status = "processing" =>
       t \in Ids /\ tasks[t].status = "processing"

InFlightTasks(k) == {t \in Ids : tasks[t].status = "processing" /\ RateKey(t) = k}

LEMMA InFlightFinite ==
  ASSUME NEW k, IsTable(tasks)
  PROVE  IsFiniteSet(InFlightTasks(k)) /\ InFlight(k) = Cardinality(InFlightTasks(k))
                                       /\ InFlight(k) \in Nat
<1>1. IsFiniteSet(Ids)
  BY FS_Interval DEF IsTable, Ids
<1>2. IsFiniteSet(InFlightTasks(k))
  BY <1>1, FS_Subset DEF InFlightTasks
<1> QED
  BY <1>2, FS_CardinalityType DEF InFlight, InFlightTasks

LEMMA InFlightFinitePrimed ==
  ASSUME NEW k, IsTable(tasks')
  PROVE  IsFiniteSet(InFlightTasks(k)') /\ InFlight(k)' = Cardinality(InFlightTasks(k)')
                                        /\ InFlight(k)' \in Nat
<1>1. IsFiniteSet(Ids')
  BY FS_Interval DEF IsTable, Ids
<1>2. IsFiniteSet(InFlightTasks(k)')
  BY <1>1, FS_Subset DEF InFlightTasks
<1> QED
  BY <1>2, FS_CardinalityType DEF InFlight, InFlightTasks

LEMMA FewerInFlight ==
  ASSUME Types, QuietStep, NEW k
  PROVE  InFlight(k)' <= InFlight(k) /\ InFlight(k) \in Nat /\ InFlight(k)' \in Nat
<1>1. InFlightTasks(k)' \subseteq InFlightTasks(k)
  BY DEF QuietStep, InFlightTasks, RateKey
<1>2. IsFiniteSet(InFlightTasks(k)) /\ InFlight(k) = Cardinality(InFlightTasks(k))
                                    /\ InFlight(k) \in Nat
  BY InFlightFinite DEF Types
<1>3. InFlight(k)' = Cardinality(InFlightTasks(k)') /\ InFlight(k)' \in Nat
  BY InFlightFinitePrimed DEF QuietStep
<1> QED
  BY <1>1, <1>2, <1>3, FS_Subset

LEMMA QuietKeepsRates ==
  ASSUME IInv, QuietStep
  PROVE  /\ RateCapRespected'
         /\ \A t \in Ids : ~Throttled(t) => ~Throttled(t)'
<1>1. ASSUME NEW k \in {RateKeyOf[q] : q \in Keys} \ {NoRateKey}
      PROVE  InFlight(k)' <= RateLimitMax
  BY FewerInFlight, QueueAssumption DEF IInv, RateCapRespected
<1>2. ASSUME NEW t \in Ids, ~Throttled(t)
      PROVE  ~Throttled(t)'
  <2>1. RateKey(t)' = RateKey(t)
    BY DEF QuietStep, RateKey
  <2>2. InFlight(RateKey(t))' <= InFlight(RateKey(t))
        /\ InFlight(RateKey(t)) \in Nat /\ InFlight(RateKey(t))' \in Nat
    BY <2>1, FewerInFlight DEF IInv
  <2> QED
    BY <1>2, <2>1, <2>2, QueueAssumption DEF Throttled
<1> QED
  BY <1>1, <1>2 DEF RateCapRespected

\* A task taken into "processing" was not throttled.
LEMMA TakeKeepsRates ==
  ASSUME IInv, NEW w \in Workers, ClaimTake(w)
  PROVE  RateCapRespected'
<1> DEFINE c == claimed[w]
<1>1. c \in Ids /\ Rewrites(c, "processing", Task(w).attempts)
  BY TakeRewrites
<1>2. ~Throttled(c)
  BY DEF ClaimTake, IInv, ClaimFits
<1>3. Ids' = Ids
  BY <1>1, IdsOfTable DEF Rewrites, IsTable, IInv, Ids
<1> SUFFICES ASSUME NEW k \in {RateKeyOf[q] : q \in Keys} \ {NoRateKey}
             PROVE  InFlight(k)' <= RateLimitMax
  BY DEF RateCapRespected
<1>4. /\ IsFiniteSet(InFlightTasks(k)) /\ InFlight(k) = Cardinality(InFlightTasks(k))
      /\ InFlight(k) \in Nat
  BY InFlightFinite DEF IInv, Types
<1>5. IsFiniteSet(InFlightTasks(k)') /\ InFlight(k)' = Cardinality(InFlightTasks(k)')
      /\ InFlight(k)' \in Nat
  BY <1>1, InFlightFinitePrimed DEF Rewrites
<1>6. InFlight(k) <= RateLimitMax
  BY DEF IInv, RateCapRespected
<1>7. CASE RateKey(c) # k
  <2>1. InFlightTasks(k)' \subseteq InFlightTasks(k)
    BY <1>1, <1>3, <1>7 DEF InFlightTasks, RateKey, Rewrites
  <2>2. InFlight(k)' <= InFlight(k)
    BY <1>4, <1>5, <2>1, FS_Subset
  <2> QED
    BY <1>4, <1>5, <1>6, <2>2, QueueAssumption
<1>8. CASE RateKey(c) = k
  <2>1. InFlight(k) < RateLimitMax
    BY <1>2, <1>4, <1>8, QueueAssumption DEF Throttled
  <2>2. InFlightTasks(k)' \subseteq InFlightTasks(k) \cup {c}
    BY <1>1, <1>3 DEF InFlightTasks, RateKey, Rewrites
  <2>3. /\ IsFiniteSet(InFlightTasks(k) \cup {c})
        /\ Cardinality(InFlightTasks(k) \cup {c})
             = IF c \in InFlightTasks(k) THEN Cardinality(InFlightTasks(k))
                                         ELSE Cardinality(InFlightTasks(k)) + 1
    BY <1>4, FS_AddElement
  <2>4. InFlight(k)' <= Cardinality(InFlightTasks(k) \cup {c})
    BY <1>5, <2>2, <2>3, FS_Subset
  <2> QED
    BY <1>4, <1>5, <2>1, <2>3, <2>4, QueueAssumption
<1> QED
  BY <1>7, <1>8

-----------------------------------------------------------------------------
(***************************************************************************)
(* The steps                                                               *)
(***************************************************************************)
LEMMA InitEstablishes == Init => IInv
<1> SUFFICES ASSUME Init PROVE IInv
  OBVIOUS
<1>1. Len(tasks) = 0 /\ Ids = {} /\ DOMAIN dead = {}
  BY DEF Init, Ids
<1>2. 1 \in Workers
  BY QueueAssumption DEF Workers
<1>3. Types
  <2>1. IsTable(tasks)
    <3>1. tasks = <<>>
      BY DEF Init
    <3>2. 1 .. 0 = {} /\ DOMAIN <<>> = {} /\ Len(<<>>) = 0
      OBVIOUS
    <3>3. <<>> = [t \in {} |-> <<>>[t]]
      OBVIOUS
    <3> QED
      BY <3>1, <3>2, <3>3 DEF IsTable
  <2>2. worker \in [Workers -> WorkerStates]
    BY DEF Init, WorkerStates
  <2>3. claimed \in [Workers -> Nat] /\ dead \in Seq(Nat)
    BY DEF Init
  <2> QED
    BY <1>2, <2>1, <2>2, <2>3 DEF Init, Types
<1>4. \A w \in Workers : worker[w] \in {"idle", "unborn"} /\ (w > current => worker[w] = "unborn")
  BY <1>2, QueueAssumption DEF Init, Workers
<1>5. OneClaimer /\ ClaimFits /\ ClaimIsQueued
  BY <1>4 DEF OneClaimer, ClaimFits, ClaimIsQueued, AtTask
<1>6. \A k : InFlight(k) = 0
  <2> TAKE k
  <2>1. InFlightTasks(k) = {}
    BY <1>1 DEF InFlightTasks
  <2> QED
    BY <2>1, InFlightFinite, <1>3, FS_EmptySet DEF Types
<1>7. RateCapRespected
  BY <1>6, QueueAssumption DEF RateCapRespected
<1>8. InFlightExact
  BY <1>1, <1>4 DEF InFlightExact
<1>9. DeadLettersExact /\ DeadAreTasks
  BY <1>1 DEF DeadLettersExact, DeadAreTasks
<1> QED
  BY <1>3, <1>5, <1>7, <1>8, <1>9 DEF IInv

\* Before a restart there is one worker.
LEMMA FirstWorkerAlone ==
  ASSUME IInv, current = 1, NEW w \in Workers, worker[w] # "unborn"
  PROVE  w = 1
BY QueueAssumption DEF IInv, OneClaimer, Workers

\* Nothing happens to the tasks and those at work on them.
LEMMA OthersKeep ==
  ASSUME IInv, UNCHANGED <<tasks, dead, worker, claimed, current>>,
         stopping' \in BOOLEAN, stopping' => current < Generations
  PROVE  IInv'
<1>1. Types' /\ OneClaimer'
  BY DEF IInv, Types, OneClaimer, AtTask, Ids
<1>2. \A k : InFlight(k)' = InFlight(k)
  BY DEF InFlight, Ids, RateKey
<1>3. ClaimFits' /\ RateCapRespected'
  BY <1>2 DEF IInv, ClaimFits, RateCapRespected, Throttled, RateKey
<1>4. ClaimIsQueued' /\ DeadAreTasks'
  BY DEF IInv, ClaimIsQueued, DeadAreTasks, Ids
<1>5. InFlightExact' /\ DeadLettersExact'
  BY DEF IInv, InFlightExact, DeadLettersExact, Ids
<1> QED
  BY <1>1, <1>3, <1>4, <1>5 DEF IInv

\* A producer adds a task behind the others.
LEMMA AddKeeps ==
  ASSUME IInv, NEW p \in Producers, Add(p)
  PROVE  IInv'
<1> DEFINE n == Len(tasks)
           x == NewTask(KeyOf[p])
<1>1. /\ UNCHANGED <<dead, worker, claimed, current, stopping>>
      /\ tasks' = Append(tasks, x)
  BY DEF Add
<1>2. IsTask(x) /\ x.status = "queued" /\ x.attempts = 0
  BY QueueAssumption DEF NewTask, IsTask, Statuses
<1>3. /\ IsTable(tasks')
      /\ Len(tasks') = n + 1
      /\ \A t \in 1 .. n : tasks'[t] = tasks[t]
      /\ tasks'[n + 1] = x
  BY <1>1, <1>2, AppendTask DEF IInv, Types
<1>4. n \in Nat /\ Ids = 1 .. n /\ Ids' = 1 .. n + 1 /\ Ids' = Ids \cup {n + 1}
  BY <1>3, IdsOfTable DEF IInv, IsTable, Ids
<1> HIDE DEF n, x
<1>5. QuietStep
  BY <1>2, <1>3, <1>4 DEF QuietStep, n
<1>6. Types'
  BY <1>1, <1>3 DEF IInv, Types
<1>7. OneClaimer'
  BY <1>1, <1>4 DEF IInv, OneClaimer, AtTask
<1>8. RateCapRespected' /\ ClaimFits'
  BY <1>1, <1>5, QuietKeepsRates DEF IInv, ClaimFits, OneClaimer, AtTask
<1>9. ClaimIsQueued'
  BY <1>1, <1>3, <1>4 DEF IInv, ClaimIsQueued, OneClaimer, AtTask
<1>10. DeadAreTasks'
  BY <1>1, <1>4 DEF IInv, DeadAreTasks
<1>11. {t \in Ids' : tasks'[t].status = "processing"}
         = {t \in Ids : tasks[t].status = "processing"}
  BY <1>2, <1>3, <1>4
<1>12. InFlightExact'
  BY <1>1, <1>11 DEF IInv, InFlightExact
<1>13. DeadLettersExact'
  <2> SUFFICES ASSUME current = 1 PROVE DeadLettersExact'
    BY <1>1 DEF DeadLettersExact
  <2>1. n + 1 \notin Ids
    BY <1>4
  <2>2. {i \in DOMAIN dead : dead[i] = n + 1} = {}
    BY <2>1 DEF IInv, DeadAreTasks
  <2>3. Cardinality({i \in DOMAIN dead : dead[i] = n + 1}) = 0
    BY <2>2, FS_EmptySet
  <2>4. 0 < MaxAttempts
    BY QueueAssumption
  <2>5. /\ tasks'[n + 1].attempts = 0
        /\ tasks'[n + 1].status # "dead"
        /\ ~(tasks'[n + 1].attempts >= MaxAttempts)
        /\ tasks'[n + 1].attempts <= MaxAttempts
    BY <1>2, <1>3, <2>4, QueueAssumption
  <2>6. \A t \in Ids' : (t \in Ids /\ tasks'[t] = tasks[t]) \/ t = n + 1
    BY <1>3, <1>4
  <2>7. \A i \in DOMAIN dead : dead[i] \in Ids /\ tasks'[dead[i]] = tasks[dead[i]]
    BY <1>3, <1>4 DEF IInv, DeadAreTasks
  <2> QED
    <3>1. \A t \in Ids' : tasks'[t].attempts <= MaxAttempts
      BY <2>5, <2>6 DEF IInv, DeadLettersExact
    <3>2. \A t \in Ids' : tasks'[t].status = "dead" <=> tasks'[t].attempts >= MaxAttempts
      BY <2>5, <2>6 DEF IInv, DeadLettersExact
    <3>3. \A t \in Ids' : tasks'[t].status = "dead"
             <=> Cardinality({i \in DOMAIN dead : dead[i] = t}) = 1
      BY <2>3, <2>5, <2>6 DEF IInv, DeadLettersExact
    <3>4. \A i \in DOMAIN dead : tasks'[dead[i]].status = "dead"
      BY <2>7 DEF IInv, DeadLettersExact
    <3> QED
      BY <1>1, <3>1, <3>2, <3>3, <3>4 DEF DeadLettersExact
<1> QED
  BY <1>6, <1>7, <1>8, <1>9, <1>10, <1>12, <1>13 DEF IInv

\* The choice of a task changes nothing but the worker's place.
LEMMA SelectKeeps ==
  ASSUME IInv, NEW w \in Workers, ClaimSelect(w)
  PROVE  IInv'
<1>1. /\ UNCHANGED <<tasks, dead, current, stopping>>
      /\ worker[w] = "idle"
      /\ worker' = [worker EXCEPT ![w] = "claiming"]
      /\ w >= current
  BY DEF ClaimSelect, Stopped, IInv, Types, Workers
<1>2. w = current
  BY <1>1, QueueAssumption DEF IInv, Types, OneClaimer, Workers
<1>3. PICK c \in Candidates : claimed' = [claimed EXCEPT ![w] = c]
  BY DEF ClaimSelect
<1>4. c \in Ids /\ c \in Nat /\ Eligible(c) /\ ~Throttled(c)
  BY <1>3, IdsOfTable DEF Candidates, IInv
<1>5. /\ worker'[w] = "claiming" /\ claimed'[w] = c
      /\ \A v \in Workers \ {w} : worker'[v] = worker[v] /\ claimed'[v] = claimed[v]
  BY <1>1, <1>3 DEF IInv, Types
<1>6. Types'
  BY <1>1, <1>3, <1>4 DEF IInv, Types, WorkerStates
<1>7. OneClaimer'
  BY <1>1, <1>2, <1>4, <1>5, QueueAssumption
  DEF IInv, Types, OneClaimer, AtTask, Ids, Workers
<1>8. (\A k : InFlight(k)' = InFlight(k)) /\ (\A t : RateKey(t)' = RateKey(t))
  BY <1>1 DEF InFlight, Ids, RateKey
<1>9. ClaimFits' /\ RateCapRespected'
  BY <1>4, <1>5, <1>8 DEF IInv, ClaimFits, RateCapRespected, Throttled
<1>10. DeadAreTasks' /\ DeadLettersExact'
  BY <1>1 DEF IInv, DeadAreTasks, DeadLettersExact, Ids
<1>11. ASSUME current = 1
       PROVE  /\ \A v \in Workers : worker[v] # "executing" /\ worker'[v] # "executing"
              /\ tasks[c].status = "queued"
              /\ \A t \in Ids : tasks[t].status # "processing"
  <2>1. \A v \in Workers : worker[v] # "executing" /\ worker'[v] # "executing"
    BY <1>1, <1>5, <1>11, FirstWorkerAlone
  <2>2. \A t \in Ids : tasks[t].status # "processing"
    BY <1>11, <2>1 DEF IInv, InFlightExact
  <2> QED
    BY <1>4, <2>1, <2>2 DEF Eligible
<1>12. ClaimIsQueued'
  BY <1>1, <1>5, <1>11 DEF IInv, ClaimIsQueued
<1>13. InFlightExact'
  BY <1>1, <1>11 DEF InFlightExact, Ids
<1> QED
  BY <1>6, <1>7, <1>9, <1>10, <1>12, <1>13 DEF IInv

\* A worker that has selected a task takes it.
LEMMA TakeKeeps ==
  ASSUME IInv, NEW w \in Workers, ClaimTake(w)
  PROVE  IInv'
<1> DEFINE c == claimed[w]
<1>1. c \in Ids /\ Rewrites(c, "processing", Task(w).attempts)
  BY TakeRewrites
<1>2. /\ UNCHANGED <<dead, claimed, current, stopping>>
      /\ worker[w] = "claiming"
      /\ worker' = [worker EXCEPT ![w] = "executing"]
      /\ w = current
  BY DEF ClaimTake, IInv, OneClaimer
<1>3. Ids' = Ids
  BY <1>1, IdsOfTable DEF Rewrites, IsTable, IInv, Ids
<1>4. /\ worker'[w] = "executing"
      /\ \A v \in Workers \ {w} : worker'[v] = worker[v] /\ worker[v] # "claiming"
  BY <1>2 DEF IInv, Types, OneClaimer
<1>5. Types'
  BY <1>1, <1>2 DEF IInv, Types, WorkerStates, Rewrites
<1>6. OneClaimer'
  BY <1>2, <1>3, <1>4 DEF IInv, OneClaimer, AtTask
<1>7. ClaimFits' /\ ClaimIsQueued'
  BY <1>4 DEF ClaimFits, ClaimIsQueued
<1>8. DeadAreTasks'
  BY <1>2, <1>3 DEF IInv, DeadAreTasks
<1>9. RateCapRespected'
  BY TakeKeepsRates
<1>10. ASSUME current = 1
       PROVE  /\ tasks[c].status = "queued"
              /\ \A v \in Workers : worker[v] # "executing"
              /\ \A v \in Workers : worker'[v] = "executing" <=> v = w
              /\ \A t \in Ids : tasks[t].status # "processing"
  <2>1. tasks[c].status = "queued"
    BY <1>2, <1>10 DEF IInv, ClaimIsQueued
  <2>2. \A v \in Workers : worker[v] # "executing"
    BY <1>2, <1>10, FirstWorkerAlone
  <2>3. \A v \in Workers : worker'[v] = "executing" <=> v = w
    BY <1>4, <2>2
  <2> QED
    BY <1>10, <2>1, <2>2, <2>3 DEF IInv, InFlightExact
<1>11. InFlightExact'
  <2> SUFFICES ASSUME current = 1 PROVE InFlightExact'
    BY <1>2 DEF InFlightExact
  <2>1. {t \in Ids' : tasks'[t].status = "processing"} = {c}
    BY <1>1, <1>3, <1>10 DEF Rewrites
  <2>2. {claimed'[v] : v \in {u \in Workers : worker'[u] = "executing"}} = {c}
    BY <1>2, <1>10
  <2> QED
    BY <2>1, <2>2 DEF InFlightExact
<1>12. DeadLettersExact'
  <2> SUFFICES ASSUME current = 1 PROVE DeadLettersExact'
    BY <1>2 DEF DeadLettersExact
  <2>1. /\ tasks[c].status = "queued" /\ tasks'[c].status = "processing"
        /\ tasks'[c].attempts = tasks[c].attempts
    BY <1>1, <1>10 DEF Rewrites, Task
  <2>2. \A t \in Ids : /\ tasks'[t].attempts = tasks[t].attempts
                       /\ tasks'[t].status = "dead" <=> tasks[t].status = "dead"
    BY <1>1, <2>1 DEF Rewrites
  <2> QED
    BY <1>2, <1>3, <2>2 DEF IInv, DeadLettersExact, DeadAreTasks
<1> QED
  BY <1>5, <1>6, <1>7, <1>8, <1>9, <1>11, <1>12 DEF IInv

\* A worker ends its attempt at a task.
LEMMA AttemptEnds ==
  ASSUME IInv, NEW w \in Workers, worker[w] = "executing", claimed[w] \in Ids, Loop(w),
         UNCHANGED <<current, stopping>>,
         NEW status \in {"queued", "done", "dead"}, NEW n,
         Rewrites(claimed[w], status, n), dead' \in Seq(Nat)
  PROVE  /\ Ids' = Ids
         /\ Types' /\ OneClaimer' /\ ClaimFits' /\ ClaimIsQueued'
         /\ RateCapRespected' /\ InFlightExact'
         /\ current = 1 => tasks[claimed[w]].status = "processing"
<1> DEFINE c == claimed[w]
<1>1. Ids' = Ids
  BY IdsOfTable DEF Rewrites, IsTable, IInv, Ids
<1>2. /\ worker'[w] = "idle"
      /\ \A v \in Workers \ {w} : worker'[v] = worker[v] /\ claimed'[v] = claimed[v]
      /\ worker' \in [Workers -> WorkerStates]
      /\ claimed' \in [Workers -> Nat]
  BY DEF Loop, IInv, Types, WorkerStates
<1>3. QuietStep
  <2>1. Len(tasks) <= Len(tasks')
    BY IdsOfTable DEF Rewrites, IInv
  <2>2. \A t \in Ids : tasks'[t].key = tasks[t].key
    BY DEF Rewrites
  <2>3. \A t \in Ids : tasks'[t].status = "processing" => tasks[t].status = "processing"
    BY DEF Rewrites
  <2> QED
    BY <1>1, <2>1, <2>2, <2>3 DEF QuietStep, Rewrites
<1>4. Types'
  BY <1>2, <1>3 DEF IInv, Types, QuietStep
<1>5. OneClaimer'
  BY <1>1, <1>2 DEF IInv, OneClaimer, AtTask
<1>6. RateCapRespected' /\ ClaimFits'
  BY <1>2, <1>3, QuietKeepsRates DEF IInv, ClaimFits, OneClaimer, AtTask
<1>7. ASSUME current = 1
      PROVE  \A v \in Workers : worker[v] \in {"claiming", "executing"} => v = w
  BY <1>7, FirstWorkerAlone
<1>8. ClaimIsQueued'
  BY <1>2, <1>7 DEF ClaimIsQueued
<1>9. ASSUME current = 1
      PROVE  {t \in Ids : tasks[t].status = "processing"} = {c}
  <2>1. {v \in Workers : worker[v] = "executing"} = {w}
    BY <1>7, <1>9
  <2> QED
    BY <1>9, <2>1 DEF IInv, InFlightExact
<1>10. InFlightExact'
  <2> SUFFICES ASSUME current = 1 PROVE InFlightExact'
    BY DEF InFlightExact
  <2>1. {t \in Ids' : tasks'[t].status = "processing"} = {}
    BY <1>1, <1>9 DEF Rewrites
  <2>2. {v \in Workers : worker'[v] = "executing"} = {}
    BY <1>2, <1>7
  <2> QED
    BY <2>1, <2>2 DEF InFlightExact
<1> QED
  BY <1>1, <1>4, <1>5, <1>6, <1>8, <1>9, <1>10

LEMMA CompleteKeeps ==
  ASSUME IInv, NEW w \in Workers, Complete(w)
  PROVE  IInv'
<1> DEFINE c == claimed[w]
<1>1. c \in Ids /\ Rewrites(c, "done", Task(w).attempts)
  BY CompleteRewrites
<1>2. worker[w] = "executing" /\ Loop(w) /\ UNCHANGED <<dead, current, stopping>>
  BY DEF Complete
<1>3. dead' \in Seq(Nat)
  BY <1>2 DEF IInv, Types
<1>4. /\ Ids' = Ids
      /\ Types' /\ OneClaimer' /\ ClaimFits' /\ ClaimIsQueued'
      /\ RateCapRespected' /\ InFlightExact'
      /\ current = 1 => tasks[c].status = "processing"
  BY <1>1, <1>2, <1>3, AttemptEnds
<1>5. DeadAreTasks'
  BY <1>2, <1>4 DEF IInv, DeadAreTasks
<1>6. DeadLettersExact'
  <2> SUFFICES ASSUME current = 1 PROVE DeadLettersExact'
    BY <1>2 DEF DeadLettersExact
  <2>1. \A t \in Ids : /\ tasks'[t].attempts = tasks[t].attempts
                       /\ tasks'[t].status = "dead" <=> tasks[t].status = "dead"
    BY <1>1, <1>4 DEF Rewrites, Task
  <2> QED
    BY <1>2, <1>4, <2>1 DEF IInv, DeadLettersExact, DeadAreTasks
<1> QED
  BY <1>4, <1>5, <1>6 DEF IInv

LEMMA RetryKeeps ==
  ASSUME IInv, NEW w \in Workers, FailRetry(w)
  PROVE  IInv'
<1> DEFINE c == claimed[w]
<1>1. /\ c \in Ids /\ Rewrites(c, "queued", Task(w).attempts + 1)
      /\ Task(w).attempts + 1 < MaxAttempts
  BY RetryRewrites
<1>2. worker[w] = "executing" /\ Loop(w) /\ UNCHANGED <<dead, current, stopping>>
  BY DEF FailRetry
<1>3. dead' \in Seq(Nat)
  BY <1>2 DEF IInv, Types
<1>4. /\ Ids' = Ids
      /\ Types' /\ OneClaimer' /\ ClaimFits' /\ ClaimIsQueued'
      /\ RateCapRespected' /\ InFlightExact'
      /\ current = 1 => tasks[c].status = "processing"
  BY <1>1, <1>2, <1>3, AttemptEnds
<1>5. DeadAreTasks'
  BY <1>2, <1>4 DEF IInv, DeadAreTasks
<1>6. DeadLettersExact'
  <2> SUFFICES ASSUME current = 1 PROVE DeadLettersExact'
    BY <1>2 DEF DeadLettersExact
  <2>1. tasks[c].status = "processing" /\ tasks'[c].status = "queued"
    BY <1>1, <1>4 DEF Rewrites
  <2>2. /\ ~(tasks'[c].attempts >= MaxAttempts)
        /\ tasks'[c].attempts <= MaxAttempts
    <3>1. Task(w).attempts \in Nat
      BY <1>2, ClaimedTask DEF AtTask, IsTask
    <3> QED
      BY <1>1, <3>1, QueueAssumption DEF Rewrites
  <2>3. \A t \in Ids \ {c} : tasks'[t] = tasks[t]
    BY <1>1 DEF Rewrites
  <2>4. /\ \A t \in Ids : tasks'[t].attempts <= MaxAttempts
        /\ \A t \in Ids : tasks'[t].status = "dead" <=> tasks'[t].attempts >= MaxAttempts
        /\ \A t \in Ids : tasks'[t].status = "dead" <=> tasks[t].status = "dead"
    BY <2>1, <2>2, <2>3 DEF IInv, DeadLettersExact
  <2> QED
    BY <1>2, <1>4, <2>4 DEF IInv, DeadLettersExact, DeadAreTasks
<1> QED
  BY <1>4, <1>5, <1>6 DEF IInv

\* A task that was not in the dead-letter queue is listed once.
LEMMA ListedOnce ==
  ASSUME NEW q \in Seq(Nat), NEW c \in Nat, \A i \in DOMAIN q : q[i] # c,
         NEW r, r = Append(q, c)
  PROVE  /\ Cardinality({i \in DOMAIN r : r[i] = c}) = 1
         /\ \A t : t # c => {i \in DOMAIN r : r[i] = t} = {i \in DOMAIN q : q[i] = t}
<1> DEFINE n == Len(q)
<1>1. n \in Nat /\ DOMAIN q = 1 .. n
  BY LenProperties
<1>2. /\ r \in Seq(Nat) /\ Len(r) = n + 1
      /\ \A i \in 1 .. n : r[i] = q[i]
      /\ r[n + 1] = c
  BY AppendProperties
<1>3. DOMAIN r = 1 .. n + 1 /\ 1 .. n + 1 = (1 .. n) \cup {n + 1} /\ n + 1 \notin 1 .. n
  BY <1>1, <1>2, LenProperties
<1> HIDE DEF n
<1>4. {i \in DOMAIN r : r[i] = c} = {n + 1}
  BY <1>1, <1>2, <1>3
<1>5. Cardinality({n + 1}) = 1
  BY FS_Singleton
<1>6. \A t : t # c => {i \in DOMAIN r : r[i] = t} = {i \in DOMAIN q : q[i] = t}
  BY <1>1, <1>2, <1>3
<1> QED
  BY <1>4, <1>5, <1>6

LEMMA DeadKeeps ==
  ASSUME IInv, NEW w \in Workers, FailDead(w)
  PROVE  IInv'
<1> DEFINE c == claimed[w]
<1>1. /\ c \in Ids /\ Rewrites(c, "dead", Task(w).attempts + 1)
      /\ Task(w).attempts + 1 >= MaxAttempts
  BY DeadRewrites
<1>2. /\ worker[w] = "executing" /\ Loop(w) /\ UNCHANGED <<current, stopping>>
      /\ dead' = Append(dead, c)
  BY DEF FailDead
<1>3. dead \in Seq(Nat) /\ c \in Nat
  BY <1>1 DEF IInv, Types
<1>4. dead' \in Seq(Nat)
  BY <1>2, <1>3, AppendProperties
<1>5. /\ Ids' = Ids
      /\ Types' /\ OneClaimer' /\ ClaimFits' /\ ClaimIsQueued'
      /\ RateCapRespected' /\ InFlightExact'
      /\ current = 1 => tasks[c].status = "processing"
  BY <1>1, <1>2, <1>4, AttemptEnds
<1>6. \A i \in DOMAIN dead' : dead'[i] = c \/ \E j \in DOMAIN dead : dead'[i] = dead[j]
  <2>1. DOMAIN dead = 1 .. Len(dead) /\ Len(dead) \in Nat
    BY <1>3, LenProperties
  <2>2. DOMAIN dead' = 1 .. Len(dead) + 1
        /\ dead'[Len(dead) + 1] = c /\ \A i \in 1 .. Len(dead) : dead'[i] = dead[i]
    BY <1>2, <1>3, <1>4, AppendProperties, LenProperties
  <2>3. \A i \in 1 .. Len(dead) + 1 : i \in 1 .. Len(dead) \/ i = Len(dead) + 1
    BY <2>1
  <2> QED
    BY <2>1, <2>2, <2>3
<1>7. DeadAreTasks'
  BY <1>1, <1>5, <1>6 DEF IInv, DeadAreTasks
<1>8. DeadLettersExact'
  <2> SUFFICES ASSUME current = 1 PROVE DeadLettersExact'
    BY <1>2 DEF DeadLettersExact
  <2>1. tasks[c].status = "processing"
    BY <1>5
  <2>2. \A i \in DOMAIN dead : dead[i] # c
    BY <2>1 DEF IInv, DeadLettersExact
  <2>3. /\ Cardinality({i \in DOMAIN dead' : dead'[i] = c}) = 1
        /\ \A t : t # c => {i \in DOMAIN dead' : dead'[i] = t} = {i \in DOMAIN dead : dead[i] = t}
    <3> HIDE DEF c
    <3> DEFINE r == dead'
    <3>1. r = Append(dead, c)
      BY <1>2
    <3> HIDE DEF r
    <3>2. /\ Cardinality({i \in DOMAIN r : r[i] = c}) = 1
          /\ \A t : t # c => {i \in DOMAIN r : r[i] = t} = {i \in DOMAIN dead : dead[i] = t}
      BY <1>3, <2>2, <3>1, ListedOnce
    <3> QED
      BY <3>2 DEF r
  <2>4. /\ tasks'[c].status = "dead"
        /\ tasks'[c].attempts >= MaxAttempts
        /\ tasks'[c].attempts <= MaxAttempts
    <3>1. Task(w).attempts \in Nat
      BY <1>2, ClaimedTask DEF AtTask, IsTask
    <3>2. ~(Task(w).attempts >= MaxAttempts)
      BY <1>1, <2>1 DEF IInv, DeadLettersExact, Task
    <3> QED
      BY <1>1, <3>1, <3>2, QueueAssumption DEF Rewrites
  <2>5. \A t \in Ids \ {c} : tasks'[t] = tasks[t]
    BY <1>1 DEF Rewrites
  <2>6. \A t \in Ids : tasks'[t].attempts <= MaxAttempts
    BY <2>4, <2>5 DEF IInv, DeadLettersExact
  <2>7. \A t \in Ids : tasks'[t].status = "dead" <=> tasks'[t].attempts >= MaxAttempts
    BY <2>4, <2>5 DEF IInv, DeadLettersExact
  <2>8. \A t \in Ids : tasks'[t].status = "dead"
           <=> Cardinality({i \in DOMAIN dead' : dead'[i] = t}) = 1
    BY <2>3, <2>4, <2>5 DEF IInv, DeadLettersExact
  <2>9. \A i \in DOMAIN dead' : tasks'[dead'[i]].status = "dead"
    BY <1>6, <2>2, <2>4, <2>5 DEF IInv, DeadLettersExact, DeadAreTasks
  <2> QED
    BY <1>5, <2>6, <2>7, <2>8, <2>9 DEF DeadLettersExact
<1> QED
  BY <1>5, <1>7, <1>8 DEF IInv

LEMMA ExitKeeps ==
  ASSUME IInv, NEW w \in Workers, Exit(w)
  PROVE  IInv'
<1>1. /\ UNCHANGED <<tasks, dead, claimed, current, stopping>>
      /\ worker[w] = "idle"
      /\ worker' = [worker EXCEPT ![w] = "exited"]
      /\ w <= current
  BY QueueAssumption DEF Exit, Stopped, IInv, Types, OneClaimer, Workers
<1>2. /\ worker'[w] = "exited"
      /\ \A v \in Workers \ {w} : worker'[v] = worker[v]
  BY <1>1 DEF IInv, Types
<1>3. Types'
  BY <1>1 DEF IInv, Types, WorkerStates
<1>4. OneClaimer'
  BY <1>1, <1>2, QueueAssumption DEF IInv, Types, OneClaimer, AtTask, Ids, Workers
<1>5. (\A k : InFlight(k)' = InFlight(k)) /\ (\A t : RateKey(t)' = RateKey(t))
  BY <1>1 DEF InFlight, Ids, RateKey
<1>6. ClaimFits' /\ RateCapRespected'
  BY <1>1, <1>2, <1>5 DEF IInv, ClaimFits, RateCapRespected, Throttled
<1>7. DeadAreTasks' /\ DeadLettersExact'
  BY <1>1 DEF IInv, DeadAreTasks, DeadLettersExact, Ids
<1>8. ClaimIsQueued'
  BY <1>1, <1>2 DEF IInv, ClaimIsQueued
<1>9. {v \in Workers : worker'[v] = "executing"} = {v \in Workers : worker[v] = "executing"}
  BY <1>1, <1>2
<1>10. InFlightExact'
  BY <1>1, <1>9 DEF IInv, InFlightExact, Ids
<1> QED
  BY <1>3, <1>4, <1>6, <1>7, <1>8, <1>10 DEF IInv

\* The next lifespan's worker starts; the one before it has left or is in its
\* executor, so nobody is between selection and claim.
LEMMA RestartKeeps ==
  ASSUME IInv, Restart
  PROVE  IInv'
<1> DEFINE n == current + 1
<1>1. /\ UNCHANGED <<tasks, dead, claimed>>
      /\ current' = n /\ stopping' = FALSE
      /\ worker' = [worker EXCEPT ![n] = "idle"]
      /\ current < Generations
      /\ worker[current] # "claiming"
  BY DEF Restart, IInv, Types
<1>2. n \in Workers /\ n > current /\ n # 1
  BY <1>1, QueueAssumption DEF IInv, Types, Workers
<1>3. /\ worker'[n] = "idle"
      /\ \A v \in Workers \ {n} : worker'[v] = worker[v]
  BY <1>1, <1>2 DEF IInv, Types
<1>4. \A v \in Workers : worker'[v] # "claiming"
  BY <1>1, <1>3 DEF IInv, OneClaimer
<1>5. Types'
  BY <1>1, <1>2 DEF IInv, Types, WorkerStates
<1>6. OneClaimer'
  <2>1. \A v \in Workers : v > n => v > current /\ v # n
    BY <1>1, QueueAssumption DEF Workers, IInv, Types
  <2> QED
    BY <1>1, <1>3, <1>4, <2>1 DEF IInv, OneClaimer, AtTask, Ids
<1>7. RateCapRespected'
  BY <1>1 DEF IInv, RateCapRespected, InFlight, Ids, RateKey
<1>8. ClaimFits' /\ ClaimIsQueued'
  BY <1>4 DEF ClaimFits, ClaimIsQueued
<1>9. DeadAreTasks'
  BY <1>1 DEF IInv, DeadAreTasks, Ids
<1>10. InFlightExact' /\ DeadLettersExact'
  BY <1>1, <1>2 DEF InFlightExact, DeadLettersExact
<1> QED
  BY <1>5, <1>6, <1>7, <1>8, <1>9, <1>10 DEF IInv

\* Time passes: no key, status or number of attempts changes.
LEMMA TickKeepsTask ==
  ASSUME IInv, Tick, NEW t \in Ids
  PROVE  /\ IsTask(tasks'[t])
         /\ tasks'[t].key = tasks[t].key
         /\ tasks'[t].status = tasks[t].status
         /\ tasks'[t].attempts = tasks[t].attempts
<1> DEFINE x == tasks[t]
           l == Less(x.lease)
           d == Less(x.delay)
           y == [x EXCEPT !.lease = l, !.delay = d]
<1>1. IsTask(x)
  BY IdsOfTable DEF IInv, Types, IsTable
<1>2. tasks'[t] = y
  BY DEF Tick
<1>3. y = [x EXCEPT !.lease = l, !.delay = d]
  OBVIOUS
<1> HIDE DEF x, l, d, y
<1>4. y \in [key : {x.key}, status : {x.status}, attempts : {x.attempts}, lease : {l},
             delay : {d}]
  BY <1>1, <1>3 DEF IsTask
<1>5. IsTask(y) /\ y.key = x.key /\ y.status = x.status /\ y.attempts = x.attempts
  BY <1>1, <1>4 DEF IsTask
<1> QED
  BY <1>2, <1>5 DEF x

LEMMA TickKeeps ==
  ASSUME IInv, Tick
  PROVE  IInv'
<1> DEFINE n == Len(tasks)
<1>1. n \in Nat /\ Ids = 1 .. n
  BY IdsOfTable DEF IInv
<1>2. tasks' = [t \in Ids |-> [tasks[t] EXCEPT !.lease = Less(@), !.delay = Less(@)]]
      /\ UNCHANGED <<dead, worker, claimed, current, stopping>>
  BY DEF Tick
<1>3. ASSUME NEW t \in Ids
      PROVE  /\ IsTask(tasks'[t])
             /\ tasks'[t].key = tasks[t].key
             /\ tasks'[t].status = tasks[t].status
             /\ tasks'[t].attempts = tasks[t].attempts
  BY TickKeepsTask
<1>4. DOMAIN tasks' = 1 .. n /\ tasks' = [t \in 1 .. n |-> tasks'[t]]
  BY <1>1, <1>2
<1>5. Len(tasks') = n /\ Ids' = Ids /\ IsTable(tasks')
  <2>1. Len(tasks') = n
    BY <1>1, <1>4
  <2> QED
    BY <1>1, <1>3, <1>4, <2>1 DEF IsTable, Ids
<1>6. QuietStep
  BY <1>1, <1>3, <1>5 DEF QuietStep
<1>7. Types' /\ OneClaimer'
  BY <1>2, <1>5 DEF IInv, Types, OneClaimer, AtTask
<1>8. RateCapRespected' /\ ClaimFits'
  BY <1>2, <1>6, QuietKeepsRates DEF IInv, ClaimFits, OneClaimer, AtTask
<1>9. ClaimIsQueued' /\ DeadAreTasks'
  BY <1>2, <1>3, <1>5 DEF IInv, ClaimIsQueued, OneClaimer, AtTask, DeadAreTasks
<1>10. {t \in Ids' : tasks'[t].status = "processing"}
         = {t \in Ids : tasks[t].status = "processing"}
  BY <1>3, <1>5
<1>11. InFlightExact'
  BY <1>2, <1>10 DEF IInv, InFlightExact
<1>12. DeadLettersExact'
  <2> SUFFICES ASSUME current = 1 PROVE DeadLettersExact'
    BY <1>2 DEF DeadLettersExact
  <2>1. \A t \in Ids' : /\ t \in Ids
                        /\ tasks'[t].attempts = tasks[t].attempts
                        /\ tasks'[t].status = tasks[t].status
    BY <1>3, <1>5
  <2>2. \A i \in DOMAIN dead : tasks'[dead[i]].status = "dead"
    BY <1>3 DEF IInv, DeadLettersExact, DeadAreTasks
  <2>3. /\ \A t \in Ids : tasks[t].attempts <= MaxAttempts
        /\ \A t \in Ids :
             tasks[t].status = "dead" <=> tasks[t].attempts >= MaxAttempts
        /\ \A t \in Ids : tasks[t].status = "dead"
             <=> Cardinality({i \in DOMAIN dead : dead[i] = t}) = 1
    BY DEF IInv, DeadLettersExact
  <2>4. \A t \in Ids' : tasks'[t].status = "dead"
          <=> Cardinality({i \in DOMAIN dead : dead[i] = t}) = 1
    BY <2>1, <2>3
  <2>5. \A t \in Ids' : /\ tasks'[t].attempts <= MaxAttempts
                        /\ tasks'[t].status = "dead" <=> tasks'[t].attempts >= MaxAttempts
    BY <2>1, <2>3
  <2> QED
    BY <1>2, <2>2, <2>4, <2>5 DEF DeadLettersExact
<1> QED
  BY <1>7, <1>8, <1>9, <1>11, <1>12 DEF IInv

LEMMA StepKeeps == IInv /\ [Next]_vars => IInv'
<1> SUFFICES ASSUME IInv, [Next]_vars PROVE IInv'
  OBVIOUS
<1>0. stopping \in BOOLEAN /\ (stopping => current < Generations)
  BY DEF IInv, Types
<1>1. CASE \E p \in Producers : Enqueue(p)
  <2> PICK p \in Producers : Enqueue(p)
    BY <1>1
  <2>1. CASE ReturnExisting(p)
    BY <1>0, <2>1, OthersKeep DEF ReturnExisting
  <2>2. CASE KeyIsNew(p)
    BY <1>0, <2>2, OthersKeep DEF KeyIsNew
  <2>3. CASE Add(p)
    BY <2>3, AddKeeps
  <2> QED
    BY <2>1, <2>2, <2>3 DEF Enqueue
<1>2. CASE \E w \in Workers : WorkerStep(w)
  <2> PICK w \in Workers : WorkerStep(w)
    BY <1>2
  <2> QED
    BY SelectKeeps, TakeKeeps, CompleteKeeps, RetryKeeps, DeadKeeps, ExitKeeps
    DEF WorkerStep, Execute
<1>3. CASE Stop
  BY <1>3, OthersKeep DEF Stop
<1>4. CASE Restart
  BY <1>4, RestartKeeps
<1>5. CASE Tick
  BY <1>5, TickKeeps
<1>6. CASE UNCHANGED vars
  BY <1>0, <1>6, OthersKeep DEF vars
<1> QED
  BY <1>1, <1>2, <1>3, <1>4, <1>5, <1>6 DEF Next

-----------------------------------------------------------------------------
(***************************************************************************)
(* The theorems                                                            *)
(***************************************************************************)

\* The inductive invariant: one worker claims at a time, what it has chosen still
\* fits under the rate limit, and the properties below hold.
THEOREM QueueInvariant == Spec => []IInv
<1> QED
  BY InitEstablishes, StepKeeps, PTL DEF Spec

\* Until a restart a task is dead exactly when its attempts are used up, and then
\* the dead-letter queue lists it once (fail, mark_dead).
THEOREM DeadLettersAreExact == Spec => []DeadLettersExact
<1>1. IInv => DeadLettersExact
  BY DEF IInv
<1> QED
  BY <1>1, QueueInvariant, PTL

\* Until a restart what counts as in flight is what the worker executes (claim).
THEOREM InFlightIsExact == Spec => []InFlightExact
<1>1. IInv => InFlightExact
  BY DEF IInv
<1> QED
  BY <1>1, QueueInvariant, PTL

\* The rate limit holds over every restart, also beside a worker of an earlier
\* lifespan that goes on in its executor (claim).
THEOREM RateLimitHolds == Spec => []RateCapRespected
<1>1. IInv => RateCapRespected
  BY DEF IInv
<1> QED
  BY <1>1, QueueInvariant, PTL

\* Until a restart a settled task is not revived: the one worker rewrites only
\* the task it has, and that task is not settled (claim, complete, fail).
THEOREM OutcomesAreFinal == Spec => OutcomeIsFinal
<1>1. ASSUME IInv, [Next]_vars,
             NEW t \in Ids, current = 1, tasks[t].status \in {"done", "dead"}
      PROVE  tasks'[t].status = tasks[t].status
  <2>1. ASSUME NEW w \in Workers, AtTask(w)
        PROVE  t # claimed[w]
    <3>1. CASE worker[w] = "claiming"
      BY <1>1, <3>1 DEF IInv, ClaimIsQueued
    <3>2. CASE worker[w] = "executing"
      BY <1>1, <3>2 DEF IInv, InFlightExact
    <3> QED
      BY <2>1, <3>1, <3>2 DEF AtTask
  <2>2. ASSUME NEW w \in Workers, AtTask(w), NEW x, Update(w, x)
        PROVE  tasks'[t] = tasks[t]
    <3>1. t # claimed[w]
      BY <2>1, <2>2
    <3>2. tasks' = [tasks EXCEPT ![claimed[w]] = x]
      BY <2>2 DEF Update
    <3> QED
      BY <1>1, <3>1, <3>2 DEF Ids
  <2>3. CASE \E p \in Producers : Enqueue(p)
    <3> PICK p \in Producers : Enqueue(p)
      BY <2>3
    <3>1. CASE ReturnExisting(p) \/ KeyIsNew(p)
      BY <3>1 DEF ReturnExisting, KeyIsNew
    <3>2. CASE Add(p)
      <4>1. IsTask(NewTask(KeyOf[p]))
        BY QueueAssumption DEF NewTask, IsTask, Statuses
      <4> QED
        BY <1>1, <3>2, <4>1, AppendTask, IdsOfTable DEF Add, IInv, Types
    <3> QED
      BY <3>1, <3>2 DEF Enqueue
  <2>4. CASE \E w \in Workers : WorkerStep(w)
    <3> PICK w \in Workers : WorkerStep(w)
      BY <2>4
    <3>1. CASE ClaimSelect(w) \/ Exit(w)
      BY <3>1 DEF ClaimSelect, Exit
    <3>2. CASE ClaimTake(w) \/ Execute(w)
      BY <2>2, <3>2 DEF ClaimTake, Execute, Complete, FailRetry, FailDead, AtTask
    <3> QED
      BY <3>1, <3>2 DEF WorkerStep
  <2>5. CASE Stop \/ Restart \/ UNCHANGED vars
    BY <2>5 DEF Stop, Restart, vars
  <2>6. CASE Tick
    BY <1>1, <2>6, TickKeepsTask
  <2> QED
    BY <1>1, <2>3, <2>4, <2>5, <2>6 DEF Next
<1>2. IInv /\ [Next]_vars =>
        \A t \in Ids : current = 1 /\ tasks[t].status \in {"done", "dead"}
          => tasks'[t].status = tasks[t].status
  BY <1>1
<1> QED
  BY <1>2, QueueInvariant, PTL DEF Spec, OutcomeIsFinal


-----------------------------------------------------------------------------
(***************************************************************************)
(* Overwritten outcomes.  A worker that a restart has left in its executor *)
(* may cost one outcome; it pays with its exit.  What it costs is due when *)
(* the present worker writes to a task settled under its hands.            *)
(***************************************************************************)
LeftBehind == {w \in Workers : w < current /\ worker[w] = "executing"}

Due == IF AtTask(current) /\ Settled(claimed[current]) THEN 1 ELSE 0

HistoryInv ==
  /\ overwritten \in Nat
  /\ overwritten + Cardinality(LeftBehind) + Due <= current - 1

LEMMA LeftBehindFinite ==
  IsFiniteSet(LeftBehind) /\ Cardinality(LeftBehind) \in Nat
<1>1. IsFiniteSet(Workers)
  BY FS_Interval, QueueAssumption DEF Workers
<1>2. IsFiniteSet(LeftBehind)
  BY <1>1, FS_Subset DEF LeftBehind
<1> QED
  BY <1>2, FS_CardinalityType

\* No status changes, and the workers stay where they are.
LEMMA QuietHistory ==
  ASSUME IInv, HistoryInv, overwritten' = overwritten + Cardinality(Lost),
         \A t \in Ids : tasks'[t].status = tasks[t].status,
         UNCHANGED <<worker, claimed, current>>
  PROVE  HistoryInv'
<1>1. Lost = {}
  BY DEF Lost
<1>2. overwritten' = overwritten
  BY <1>1, FS_EmptySet DEF HistoryInv
<1>3. LeftBehind' = LeftBehind
  BY DEF LeftBehind
<1>4. AtTask(current) => claimed[current] \in Ids
  BY DEF IInv, Types, OneClaimer
<1>5. Due' = Due
  BY <1>4 DEF Due, AtTask, Settled
<1> QED
  BY <1>2, <1>3, <1>5 DEF HistoryInv

\* A rewritten task is the only outcome that can be lost.
LEMMA RewriteLoses ==
  ASSUME NEW c \in Ids, NEW status, NEW n, Rewrites(c, status, n)
  PROVE  /\ Cardinality(Lost) \in 0 .. 1
         /\ ~Settled(c) => Cardinality(Lost) = 0
<1>1. Lost \subseteq {c} /\ (~Settled(c) => Lost = {})
  BY DEF Lost, Rewrites
<1>2. Lost = {} \/ Lost = {c}
  BY <1>1
<1> QED
  BY <1>1, <1>2, FS_EmptySet, FS_Singleton

LEMMA SelectHistory ==
  ASSUME IInv, HistoryInv, overwritten' = overwritten + Cardinality(Lost),
         NEW w \in Workers, ClaimSelect(w)
  PROVE  HistoryInv'
<1>1. /\ UNCHANGED <<tasks, current>> /\ worker[w] = "idle"
      /\ worker' = [worker EXCEPT ![w] = "claiming"]
      /\ \E t \in Ids : Eligible(t) /\ claimed' = [claimed EXCEPT ![w] = t]
  BY DEF ClaimSelect, Candidates
<1>2. w = current
  <2>1. w >= current /\ ~(w > current)
    BY QueueAssumption DEF ClaimSelect, Stopped, IInv, Types, OneClaimer, Workers
  <2> QED
    BY <2>1, QueueAssumption DEF IInv, Types, Workers
<1>3. Lost = {} /\ overwritten' = overwritten
  BY <1>1, FS_EmptySet DEF Lost, HistoryInv
<1>4. LeftBehind' = LeftBehind
  BY <1>1 DEF LeftBehind, IInv, Types
<1>5. Due' = 0
  BY <1>1, <1>2 DEF Due, Settled, Eligible, IInv, Types
<1> QED
  BY <1>1, <1>3, <1>4, <1>5, LeftBehindFinite, QueueAssumption
  DEF HistoryInv, Due, IInv, Types, Workers

LEMMA TakeHistory ==
  ASSUME IInv, HistoryInv, overwritten' = overwritten + Cardinality(Lost),
         NEW w \in Workers, ClaimTake(w)
  PROVE  HistoryInv'
<1>1. claimed[w] \in Ids /\ Rewrites(claimed[w], "processing", Task(w).attempts)
  BY TakeRewrites
<1>2. /\ UNCHANGED <<claimed, current>> /\ worker[w] = "claiming"
      /\ worker' = [worker EXCEPT ![w] = "executing"]
      /\ w = current
  BY DEF ClaimTake, IInv, OneClaimer
<1>3. Cardinality(Lost) \in 0 .. 1 /\ (~Settled(claimed[w]) => Cardinality(Lost) = 0)
  BY <1>1, RewriteLoses
<1>4. Due = IF Settled(claimed[w]) THEN 1 ELSE 0
  BY <1>2 DEF Due, AtTask
<1>5. LeftBehind' = LeftBehind
  BY <1>2, QueueAssumption DEF LeftBehind, IInv, Types, Workers
<1>6. Due' = 0
  BY <1>1, <1>2 DEF Due, Settled, Rewrites
<1> QED
  BY <1>2, <1>3, <1>4, <1>5, <1>6, LeftBehindFinite, QueueAssumption
  DEF HistoryInv, IInv, Types, Workers

\* An attempt ends: the present worker's at its own task, or the last one of a
\* worker left behind.
LEMMA ExecuteHistory ==
  ASSUME IInv, HistoryInv, overwritten' = overwritten + Cardinality(Lost),
         NEW w \in Workers, Execute(w)
  PROVE  HistoryInv'
<1> DEFINE c == claimed[w]
<1>1. c \in Ids /\ \E status, n : Rewrites(c, status, n)
  BY CompleteRewrites, RetryRewrites, DeadRewrites DEF Execute
<1>2. worker[w] = "executing" /\ Loop(w) /\ UNCHANGED current
  BY DEF Execute, Complete, FailRetry, FailDead
<1>3. /\ worker'[w] = "idle"
      /\ \A v \in Workers \ {w} : worker'[v] = worker[v] /\ claimed'[v] = claimed[v]
  BY <1>2 DEF Loop, IInv, Types
<1>4. Cardinality(Lost) \in 0 .. 1 /\ (~Settled(c) => Cardinality(Lost) = 0)
  BY <1>1, RewriteLoses
<1>5. current \in Nat /\ current' = current /\ overwritten \in Nat
      /\ current \in Workers
  BY <1>2, QueueAssumption DEF IInv, Types, Workers, HistoryInv
<1>6. w <= current
  BY <1>2, <1>5, QueueAssumption DEF IInv, OneClaimer, Workers
<1>7. CASE w = current
  <2>1. LeftBehind' = LeftBehind
    BY <1>2, <1>3, <1>5, <1>7, QueueAssumption DEF LeftBehind, Workers
  <2>2. Due' = 0 /\ Due = IF Settled(c) THEN 1 ELSE 0
    BY <1>2, <1>3, <1>7 DEF Due, AtTask
  <2> QED
    BY <1>4, <1>5, <2>1, <2>2, LeftBehindFinite DEF HistoryInv
<1>8. CASE w < current
  <2>1. LeftBehind' = LeftBehind \ {w} /\ w \in LeftBehind
    BY <1>2, <1>3, <1>8 DEF LeftBehind
  <2>2. Cardinality(LeftBehind') = Cardinality(LeftBehind) - 1
    BY <2>1, LeftBehindFinite, FS_RemoveElement
  <2>3. AtTask(current)' <=> AtTask(current)
    BY <1>3, <1>5, <1>8 DEF AtTask
  <2>4. claimed'[current] = claimed[current] /\ (AtTask(current) => claimed[current] \in Ids)
    BY <1>3, <1>5, <1>8 DEF IInv, OneClaimer
  <2>5. ASSUME claimed[current] # c
        PROVE  Due' = Due
    <3>1. AtTask(current) => (Settled(claimed[current])' <=> Settled(claimed[current]))
      BY <1>1, <1>5, <2>4, <2>5 DEF Settled, Rewrites
    <3> QED
      BY <1>5, <2>3, <3>1 DEF Due
  <2>6. ASSUME claimed[current] = c
        PROVE  Due' <= 1 /\ (Cardinality(Lost) > 0 /\ Due = 0 => Due' = 0)
    BY <1>4, <1>5, <2>3, <2>6 DEF Due
  <2>7. Due \in 0 .. 1 /\ Due' \in 0 .. 1
    BY DEF Due
  <2>8. Cardinality(Lost) + Due' <= 1 + Due
    BY <1>4, <2>5, <2>6, <2>7
  <2> QED
    BY <1>4, <1>5, <2>2, <2>7, <2>8, LeftBehindFinite DEF HistoryInv
<1> QED
  BY <1>5, <1>6, <1>7, <1>8, QueueAssumption DEF Workers

LEMMA ExitHistory ==
  ASSUME IInv, HistoryInv, overwritten' = overwritten + Cardinality(Lost),
         NEW w \in Workers, Exit(w)
  PROVE  HistoryInv'
<1>1. /\ UNCHANGED <<tasks, claimed, current>> /\ worker[w] = "idle"
      /\ worker' = [worker EXCEPT ![w] = "exited"]
  BY DEF Exit
<1>2. \A v \in Workers : /\ worker'[v] = "executing" <=> worker[v] = "executing"
                         /\ AtTask(v)' <=> AtTask(v)
  BY <1>1 DEF IInv, Types, AtTask
<1>3. Lost = {} /\ overwritten' = overwritten
  BY <1>1, FS_EmptySet DEF Lost, HistoryInv
<1>4. LeftBehind' = LeftBehind
  BY <1>1, <1>2 DEF LeftBehind
<1>5. Due' = Due
  BY <1>1, <1>2 DEF Due, Settled, IInv, Types
<1> QED
  BY <1>1, <1>3, <1>4, <1>5 DEF HistoryInv

\* One more worker may be left behind, and one more outcome may be lost.
LEMMA RestartHistory ==
  ASSUME IInv, HistoryInv, overwritten' = overwritten + Cardinality(Lost), Restart
  PROVE  HistoryInv'
<1>1. /\ UNCHANGED <<tasks, claimed>> /\ current' = current + 1
      /\ worker' = [worker EXCEPT ![current + 1] = "idle"]
      /\ current + 1 \in Workers /\ current \in Nat
  BY QueueAssumption DEF Restart, IInv, Types, Workers
<1>2. \A v \in Workers : /\ v = current + 1 => worker'[v] = "idle"
                         /\ v # current + 1 => worker'[v] = worker[v]
  BY <1>1 DEF IInv, Types
<1>3. overwritten' = overwritten
  <2>1. Lost = {}
    BY <1>1 DEF Lost
  <2> QED
    BY <2>1, FS_EmptySet DEF HistoryInv
<1>4. LeftBehind' \subseteq LeftBehind \cup {current}
  BY <1>1, <1>2, QueueAssumption DEF LeftBehind, Workers
<1>5. /\ Cardinality(LeftBehind') \in Nat
      /\ Cardinality(LeftBehind') <= Cardinality(LeftBehind) + 1
  <2>1. /\ IsFiniteSet(LeftBehind \cup {current})
        /\ Cardinality(LeftBehind \cup {current}) <= Cardinality(LeftBehind) + 1
        /\ Cardinality(LeftBehind \cup {current}) \in Nat
    <3> DEFINE S == LeftBehind
    <3>1. IsFiniteSet(S) /\ Cardinality(S) \in Nat
      BY LeftBehindFinite
    <3> HIDE DEF S
    <3>2. /\ IsFiniteSet(S \cup {current})
          /\ Cardinality(S \cup {current})
               = IF current \in S THEN Cardinality(S) ELSE Cardinality(S) + 1
      BY <3>1, FS_AddElement
    <3>3. /\ Cardinality(S \cup {current}) <= Cardinality(S) + 1
          /\ Cardinality(S \cup {current}) \in Nat
      BY <3>1, <3>2
    <3> QED
      BY <3>2, <3>3 DEF S
  <2>2. /\ Cardinality(LeftBehind') <= Cardinality(LeftBehind \cup {current})
        /\ IsFiniteSet(LeftBehind')
    BY <1>4, <2>1, FS_Subset
  <2> QED
    BY <2>1, <2>2, LeftBehindFinite, FS_CardinalityType
<1>6. Due' = 0 /\ Due \in 0 .. 1
  BY <1>1, <1>2 DEF Due, AtTask
<1> QED
  BY <1>1, <1>3, <1>5, <1>6, LeftBehindFinite DEF HistoryInv

LEMMA HistoryKeeps ==
  IInv /\ HistoryInv /\ [HistoryNext]_historyVars => HistoryInv'
<1> SUFFICES ASSUME IInv, HistoryInv, [HistoryNext]_historyVars PROVE HistoryInv'
  OBVIOUS
<1>0. CASE UNCHANGED historyVars
  BY <1>0 DEF historyVars, vars, HistoryInv, LeftBehind, Due, AtTask, Settled
<1> SUFFICES ASSUME Next, overwritten' = overwritten + Cardinality(Lost)
             PROVE  HistoryInv'
  BY <1>0 DEF HistoryNext
<1>1. CASE \E p \in Producers : Enqueue(p)
  <2> PICK p \in Producers : Enqueue(p)
    BY <1>1
  <2>1. \A t \in Ids : tasks'[t].status = tasks[t].status
    <3>1. CASE ReturnExisting(p) \/ KeyIsNew(p)
      BY <3>1 DEF ReturnExisting, KeyIsNew
    <3>2. CASE Add(p)
      <4>1. IsTask(NewTask(KeyOf[p]))
        BY QueueAssumption DEF NewTask, IsTask, Statuses
      <4> QED
        BY <3>2, <4>1, AppendTask, IdsOfTable DEF Add, IInv, Types
    <3> QED
      BY <3>1, <3>2 DEF Enqueue
  <2>2. UNCHANGED <<worker, claimed, current>>
    BY DEF Enqueue, ReturnExisting, KeyIsNew, Add
  <2> QED
    BY <2>1, <2>2, QuietHistory
<1>2. CASE \E w \in Workers : WorkerStep(w)
  BY <1>2, SelectHistory, TakeHistory, ExecuteHistory, ExitHistory DEF WorkerStep
<1>3. CASE Stop
  BY <1>3, QuietHistory DEF Stop
<1>4. CASE Restart
  BY <1>4, RestartHistory
<1>5. CASE Tick
  BY <1>5, TickKeepsTask, QuietHistory DEF Tick
<1> QED
  BY <1>1, <1>2, <1>3, <1>4, <1>5 DEF Next

\* Over any number of restarts, at most one outcome is lost for each (complete,
\* fail, claim).
THEOREM RestartsCostOneOutcome == HistorySpec => []RestartCostsOneOutcome
<1>1. HistorySpec => Spec
  <2>1. HistoryInit => Init
    BY DEF HistoryInit
  <2>2. [HistoryNext]_historyVars => [Next]_vars
    BY DEF HistoryNext, historyVars
  <2> QED
    BY <2>1, <2>2, PTL DEF HistorySpec, Spec
<1>2. HistoryInit => HistoryInv
  <2> SUFFICES ASSUME HistoryInit PROVE HistoryInv
    OBVIOUS
  <2>1. current = 1 /\ overwritten = 0 /\ worker[1] = "idle"
    BY QueueAssumption DEF HistoryInit, Init, Workers
  <2>2. LeftBehind = {} /\ Due = 0
    BY <2>1, QueueAssumption DEF LeftBehind, Due, AtTask, Workers
  <2> QED
    BY <2>1, <2>2, FS_EmptySet DEF HistoryInv
<1>3. IInv /\ HistoryInv => RestartCostsOneOutcome
  <2>1. IInv => current \in Nat
    BY QueueAssumption DEF IInv, Types, Workers
  <2> QED
    BY <2>1, LeftBehindFinite DEF HistoryInv, Due, RestartCostsOneOutcome
<1> QED
  BY <1>1, <1>2, <1>3, QueueInvariant, HistoryKeeps, PTL DEF HistorySpec
===============================================================================

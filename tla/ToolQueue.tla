------------------------------ MODULE ToolQueue ------------------------------
(***************************************************************************)
(* The asynchronous tool queue and its background worker                   *)
(* (async_tool_queue.py), fed by the HTTP threads (harness                 *)
(* _enqueue_proposals) and drained by the worker that the application      *)
(* lifespan starts and stops (api/app.py).                                 *)
(*                                                                         *)
(* The queue has no lock.  Every read of the store and the write that      *)
(* follows it are therefore separate steps.  The queue is a singleton of   *)
(* the process and outlives the lifespan: a worker whose executor call     *)
(* outlasts the join timeout goes on beside its successor.  A worker that  *)
(* never returns from its executor stands for a crashed one.               *)
(*                                                                         *)
(* Times are kept relative to the clock: `lease` is the time until         *)
(* lease_until, `delay` the time until scheduled_at, `age` the time since  *)
(* the worker read the clock.  lease_owner is empty exactly when           *)
(* lease_until is 0.0, so an expired lease covers both.                    *)
(***************************************************************************)
EXTENDS Naturals, Sequences, FiniteSets

CONSTANTS
  Producers,     \* calls of enqueue, one per thread
  Keys,          \* idempotency keys
  KeyOf,         \* the key of a producer's proposal
  PriorityOf,    \* the priority of a key's proposal (lower is first)
  RateKeyOf,     \* its rate_limit_key
  NoRateKey,     \* the empty rate_limit_key: never throttled
  RateLimitMax,
  MaxAttempts,
  BaseBackoff,
  VisibilityTimeout,
  Generations    \* workers the lifespan starts one after the other

ASSUME QueueAssumption ==
  /\ KeyOf \in [Producers -> Keys]
  /\ PriorityOf \in [Keys -> Nat]
  /\ RateLimitMax \in Nat \ {0}
  /\ MaxAttempts \in Nat \ {0}
  /\ BaseBackoff \in Nat
  /\ VisibilityTimeout \in Nat
  /\ Generations \in Nat \ {0}

VARIABLES
  tasks,     \* the store, in insertion order; a task's id is its position
  byKey,     \* the store's index: the task of a key, 0 for none
  dead,      \* the dead-letter queue
  producer,  \* where each enqueue is
  worker,    \* where each worker is
  claimed,   \* the task a worker has selected or executes
  age,       \* how long ago a worker read the clock
  current,   \* the worker of the present lifespan
  stopping   \* its stop() has been called

vars == <<tasks, byKey, dead, producer, worker, claimed, age, current, stopping>>

Workers == 1 .. Generations
Ids == DOMAIN tasks

NewTask(k) ==
  [key |-> k, status |-> "queued", attempts |-> 0, lease |-> 0, delay |-> 0]

Init ==
  /\ tasks = <<>>
  /\ byKey = [k \in Keys |-> 0]
  /\ dead = <<>>
  /\ producer = [p \in Producers |-> "start"]
  /\ worker = [w \in Workers |-> IF w = 1 THEN "idle" ELSE "unborn"]
  /\ claimed = [w \in Workers |-> 0]
  /\ age = [w \in Workers |-> 0]
  /\ current = 1
  /\ stopping = FALSE

-----------------------------------------------------------------------------
(***************************************************************************)
(* enqueue: look the key up, then add.                                     *)
(***************************************************************************)

\* A known key: enqueue returns the original task.
ReturnExisting(p) ==
  /\ producer[p] = "start"
  /\ byKey[KeyOf[p]] # 0
  /\ producer' = [producer EXCEPT ![p] = "returned"]
  /\ UNCHANGED <<tasks, byKey, dead, worker, claimed, age, current, stopping>>

KeyIsNew(p) ==
  /\ producer[p] = "start"
  /\ byKey[KeyOf[p]] = 0
  /\ producer' = [producer EXCEPT ![p] = "adding"]
  /\ UNCHANGED <<tasks, byKey, dead, worker, claimed, age, current, stopping>>

Add(p) ==
  /\ producer[p] = "adding"
  /\ tasks' = Append(tasks, NewTask(KeyOf[p]))
  /\ byKey' = [byKey EXCEPT ![KeyOf[p]] = Len(tasks) + 1]
  /\ producer' = [producer EXCEPT ![p] = "returned"]
  /\ UNCHANGED <<dead, worker, claimed, age, current, stopping>>

-----------------------------------------------------------------------------
(***************************************************************************)
(* claim                                                                   *)
(***************************************************************************)
\* Faulty variants: the status is not looked at; a task in "processing" is never
\* eligible again.
EligibleAnyStatus(t) == tasks[t].delay = 0 /\ tasks[t].lease = 0

EligibleQueuedOnly(t) == tasks[t].status = "queued" /\ tasks[t].delay = 0

Eligible(t) ==
  /\ tasks[t].status \in {"queued", "processing"}
  /\ tasks[t].delay = 0
  /\ tasks[t].lease = 0

RateKey(t) == RateKeyOf[tasks[t].key]

InFlight(k) ==
  Cardinality({t \in Ids : tasks[t].status = "processing" /\ RateKey(t) = k})

\* Faulty variant: no traffic shaping.
NeverThrottled(t) == FALSE

Throttled(t) ==
  /\ RateKey(t) # NoRateKey
  /\ InFlight(RateKey(t)) >= RateLimitMax

Candidates == {t \in Ids : Eligible(t) /\ ~Throttled(t)}

\* Priority first, then insertion order (list.sort is stable).
Before(t, u) ==
  LET p == PriorityOf[tasks[t].key]
      q == PriorityOf[tasks[u].key]
  IN  p < q \/ (p = q /\ t <= u)

\* Faulty variant: successive workers share one flag, which the next start resets.
StoppedByFlag(w) == stopping

\* Each worker has a _stop of its own.
Stopped(w) == w < current \/ stopping

\* The loop of run reads the clock and claim chooses a task.
ClaimSelect(w) ==
  /\ worker[w] = "idle"
  /\ ~Stopped(w)
  /\ \E t \in Candidates :
       /\ \A u \in Candidates : Before(t, u)
       /\ claimed' = [claimed EXCEPT ![w] = t]
  /\ worker' = [worker EXCEPT ![w] = "claiming"]
  /\ age' = [age EXCEPT ![w] = 0]
  /\ UNCHANGED <<tasks, byKey, dead, producer, current, stopping>>

\* What is left at this moment of a period that began at the worker's clock.
Left(w, period) == IF age[w] < period THEN period - age[w] ELSE 0

\* The task a worker has claimed, and store.update of it.
Task(w) == tasks[claimed[w]]

Update(w, task) == tasks' = [tasks EXCEPT ![claimed[w]] = task]

\* claim writes the lease.
ClaimTake(w) ==
  /\ worker[w] = "claiming"
  /\ Update(w, [Task(w) EXCEPT !.status = "processing",
                               !.lease = Left(w, VisibilityTimeout)])
  /\ worker' = [worker EXCEPT ![w] = "executing"]
  /\ UNCHANGED <<byKey, dead, producer, claimed, age, current, stopping>>

-----------------------------------------------------------------------------
(***************************************************************************)
(* run_once after the executor returned or raised.  Neither complete nor   *)
(* fail looks at the status or the lease.                                  *)
(***************************************************************************)
Loop(w) ==
  /\ worker' = [worker EXCEPT ![w] = "idle"]
  /\ claimed' = [claimed EXCEPT ![w] = 0]
  /\ age' = [age EXCEPT ![w] = 0]

Complete(w) ==
  /\ worker[w] = "executing"
  /\ Update(w, [Task(w) EXCEPT !.status = "done", !.lease = 0])
  /\ Loop(w)
  /\ UNCHANGED <<byKey, dead, producer, current, stopping>>

Exhausted(w) == Task(w).attempts + 1 >= MaxAttempts

Backoff(attempts) == BaseBackoff * 2^(attempts - 1)

\* Faulty variant: a failure counts the attempt but re-queues nothing.
FailKeepsStatus(w) ==
  /\ worker[w] = "executing"
  /\ ~Exhausted(w)
  /\ Update(w, [Task(w) EXCEPT !.attempts = @ + 1])
  /\ Loop(w)
  /\ UNCHANGED <<byKey, dead, producer, current, stopping>>

\* The backoff counts from the clock the worker read before the claim.
FailRetry(w) ==
  /\ worker[w] = "executing"
  /\ ~Exhausted(w)
  /\ Update(w, [Task(w) EXCEPT !.status = "queued", !.lease = 0,
                               !.attempts = @ + 1,
                               !.delay = Left(w, Backoff(Task(w).attempts + 1))])
  /\ Loop(w)
  /\ UNCHANGED <<byKey, dead, producer, current, stopping>>

\* Faulty variant: mark_dead is missing.
FailDeadUnlisted(w) ==
  /\ worker[w] = "executing"
  /\ Exhausted(w)
  /\ Update(w, [Task(w) EXCEPT !.status = "dead", !.lease = 0,
                               !.attempts = @ + 1])
  /\ Loop(w)
  /\ UNCHANGED <<byKey, dead, producer, current, stopping>>

FailDead(w) ==
  /\ worker[w] = "executing"
  /\ Exhausted(w)
  /\ Update(w, [Task(w) EXCEPT !.status = "dead", !.lease = 0,
                               !.attempts = @ + 1])
  /\ dead' = Append(dead, claimed[w])
  /\ Loop(w)
  /\ UNCHANGED <<byKey, producer, current, stopping>>

-----------------------------------------------------------------------------
(***************************************************************************)
(* The lifespan: stop, join with a timeout that outlasts a poll and a      *)
(* claim but not an executor call, and the next start in the same process. *)
(***************************************************************************)
Stop ==
  /\ ~stopping
  /\ current < Generations
  /\ stopping' = TRUE
  /\ UNCHANGED <<tasks, byKey, dead, producer, worker, claimed, age, current>>

Exit(w) ==
  /\ worker[w] = "idle"
  /\ Stopped(w)
  /\ worker' = [worker EXCEPT ![w] = "exited"]
  /\ UNCHANGED <<tasks, byKey, dead, producer, claimed, age, current, stopping>>

Restart ==
  /\ stopping
  /\ worker[current] \in {"exited", "executing"}
  /\ stopping' = FALSE
  /\ current' = current + 1
  /\ worker' = [worker EXCEPT ![current + 1] = "idle"]
  /\ UNCHANGED <<tasks, byKey, dead, producer, claimed, age>>

\* No period is longer than this, so an age need not be counted beyond it.
Horizon == VisibilityTimeout + Backoff(MaxAttempts)

Less(n) == IF n > 0 THEN n - 1 ELSE 0

\* One unit of time passes.
Tick ==
  /\ tasks' = [t \in Ids |-> [tasks[t] EXCEPT !.lease = Less(@), !.delay = Less(@)]]
  /\ age' = [w \in Workers |->
               IF worker[w] \in {"claiming", "executing"} /\ age[w] < Horizon
                 THEN age[w] + 1 ELSE age[w]]
  /\ UNCHANGED <<byKey, dead, producer, worker, claimed, current, stopping>>

-----------------------------------------------------------------------------
Enqueue(p) == ReturnExisting(p) \/ KeyIsNew(p) \/ Add(p)

Execute(w) == Complete(w) \/ FailRetry(w) \/ FailDead(w)

WorkerStep(w) == ClaimSelect(w) \/ ClaimTake(w) \/ Execute(w) \/ Exit(w)

Next ==
  \/ \E p \in Producers : Enqueue(p)
  \/ \E w \in Workers : WorkerStep(w)
  \/ Stop
  \/ Restart
  \/ Tick

Spec == Init /\ [][Next]_vars

(***************************************************************************)
(* Fairness: the clock runs, the worker thread is scheduled, a lifespan    *)
(* that was stopped is started again, and the executor of the present      *)
(* worker returns or raises (the tool bridge has a request timeout).  A    *)
(* worker that was stopped in its executor may never return.               *)
(***************************************************************************)
Fairness ==
  /\ WF_vars(Tick)
  /\ WF_vars(Restart)
  /\ \A w \in Workers :
       /\ WF_vars(ClaimSelect(w) \/ ClaimTake(w) \/ Exit(w))
       /\ WF_vars(~Stopped(w) /\ Execute(w))

FairSpec == Spec /\ Fairness

-----------------------------------------------------------------------------
(***************************************************************************)
(* Properties                                                              *)
(***************************************************************************)

\* Until a lifespan is restarted: a task is given up exactly when its attempts
\* are used up, never later, and then the dead-letter queue lists it once; it
\* lists nothing else (fail).
DeadLettersExact ==
  current = 1 =>
    /\ \A t \in Ids : tasks[t].attempts <= MaxAttempts
    /\ \A t \in Ids :
         tasks[t].status = "dead" <=> tasks[t].attempts >= MaxAttempts
    /\ \A t \in Ids : tasks[t].status = "dead"
         <=> Cardinality({i \in DOMAIN dead : dead[i] = t}) = 1
    /\ \A i \in DOMAIN dead : tasks[dead[i]].status = "dead"

\* Until a restart the task in "processing" is the one the worker executes: the
\* in-flight counts of claim neither leak nor miss work.
InFlightExact ==
  current = 1 =>
    {t \in Ids : tasks[t].status = "processing"}
      = {claimed[w] : w \in {v \in Workers : worker[v] = "executing"}}

\* Until a restart "done" and "dead" are final: nothing revives a settled task,
\* takes it out of the dead-letter queue or runs it again (complete, fail,
\* claim).
OutcomeIsFinal ==
  [][\A t \in Ids : current = 1 /\ tasks[t].status \in {"done", "dead"}
       => tasks'[t].status = tasks[t].status]_vars

\* Per rate_limit_key never more than rate_limit_max tasks are in flight, also
\* while a worker of an earlier lifespan is still at work (claim).
RateCapRespected ==
  \A k \in {RateKeyOf[q] : q \in Keys} \ {NoRateKey} : InFlight(k) <= RateLimitMax

\* A task without a rate limit is done or dead-lettered in the end, also when the
\* worker that has it disappears: its lease expires and it is claimed again.  A
\* task with one need not be: it goes on counting as in flight, and so throttles
\* itself (Throttled).
UnlimitedTaskSettles ==
  \A t \in 1 .. Cardinality(Producers) :
    (t \in Ids /\ RateKey(t) = NoRateKey)
      ~> (t \in Ids /\ tasks[t].status \in {"done", "dead"})
=============================================================================

---------------------------- MODULE ConnectionPool ----------------------------
(***************************************************************************)
(* The bounded pool of checkpoint database connections                     *)
(* (persistence/mysql_pool.py), used by every operation of the MySQL       *)
(* checkpoint saver from any graph thread.                                 *)
(*                                                                         *)
(* Connections are interchangeable, so the queue of free ones is a number. *)
(* What runs under _pool_lock is one step: nobody reads the counter        *)
(* outside it.  The queue is not covered by that lock.                     *)
(***************************************************************************)
EXTENDS Naturals, FiniteSets

CONSTANTS
  Clients,    \* threads that use the saver
  PoolSize,
  MaxFaults   \* how often the connection factory fails (a bound)

ASSUME PoolAssumption ==
  /\ IsFiniteSet(Clients)
  /\ PoolSize \in Nat \ {0}
  /\ MaxFaults \in Nat

VARIABLES
  free,     \* length of _free_connections
  created,  \* _created_connections
  pc,       \* where each client is
  faults    \* failures of the factory so far

vars == <<free, created, pc, faults>>

\* "growing": the queue was empty, the lock comes next; "waiting": in get();
\* "retiring": the connection is closed and has to be replaced.
Places == {"idle", "growing", "waiting", "using", "retiring"}

Init ==
  /\ free = 0
  /\ created = 0
  /\ pc = [c \in Clients |-> "idle"]
  /\ faults = 0

Goto(c, place) == pc' = [pc EXCEPT ![c] = place]

FactoryWorks == UNCHANGED faults

FactoryFails == faults < MaxFaults /\ faults' = faults + 1

-----------------------------------------------------------------------------
(***************************************************************************)
(* _acquire                                                                *)
(***************************************************************************)
GetNowait(c) ==
  /\ pc[c] = "idle"
  /\ free > 0
  /\ free' = free - 1
  /\ Goto(c, "using")
  /\ UNCHANGED <<created, faults>>

QueueEmpty(c) ==
  /\ pc[c] = "idle"
  /\ free = 0
  /\ Goto(c, "growing")
  /\ UNCHANGED <<free, created, faults>>

\* Faulty variant: the limit is not checked under the lock.
GrowUnchecked(c) ==
  /\ pc[c] = "growing"
  /\ created' = created + 1
  /\ FactoryWorks
  /\ Goto(c, "using")
  /\ UNCHANGED free

Grow(c) ==
  /\ pc[c] = "growing"
  /\ created < PoolSize
  /\ created' = created + 1
  /\ FactoryWorks
  /\ Goto(c, "using")
  /\ UNCHANGED free

\* The factory raises after the counter was raised; acquire raises too.
GrowFails(c) ==
  /\ pc[c] = "growing"
  /\ created < PoolSize
  /\ created' = created + 1
  /\ FactoryFails
  /\ Goto(c, "idle")
  /\ UNCHANGED free

PoolExhausted(c) ==
  /\ pc[c] = "growing"
  /\ created >= PoolSize
  /\ Goto(c, "waiting")
  /\ UNCHANGED <<free, created, faults>>

GetWait(c) ==
  /\ pc[c] = "waiting"
  /\ free > 0
  /\ free' = free - 1
  /\ Goto(c, "using")
  /\ UNCHANGED <<created, faults>>

-----------------------------------------------------------------------------
(***************************************************************************)
(* The end of the with block: _release and _retire_and_replenish.          *)
(***************************************************************************)
HasRoom == free < PoolSize

Release(c) ==
  /\ pc[c] = "using"
  /\ HasRoom
  /\ free' = free + 1
  /\ Goto(c, "idle")
  /\ UNCHANGED <<created, faults>>

\* The block raised, the rollback failed or the queue was full.
CloseConnection(c) ==
  /\ pc[c] = "using"
  /\ Goto(c, "retiring")
  /\ UNCHANGED <<free, created, faults>>

\* Faulty variant: nothing replaces the connection.
RetireOnly(c) ==
  /\ pc[c] = "retiring"
  /\ FactoryWorks
  /\ created' = created - 1
  /\ Goto(c, "idle")
  /\ UNCHANGED free

Replenish(c) ==
  /\ pc[c] = "retiring"
  /\ FactoryWorks
  /\ created' = created
  /\ free' = IF HasRoom THEN free + 1 ELSE free
  /\ Goto(c, "idle")

ReplenishFails(c) ==
  /\ pc[c] = "retiring"
  /\ FactoryFails
  /\ created' = created - 1
  /\ Goto(c, "idle")
  /\ UNCHANGED free

-----------------------------------------------------------------------------
Acquire(c) ==
  \/ GetNowait(c)
  \/ QueueEmpty(c)
  \/ Grow(c)
  \/ GrowFails(c)
  \/ PoolExhausted(c)
  \/ GetWait(c)

Finish(c) ==
  \/ Release(c)
  \/ CloseConnection(c)
  \/ Replenish(c)
  \/ ReplenishFails(c)

Next == \E c \in Clients : Acquire(c) \/ Finish(c)

Spec == Init /\ [][Next]_vars

(***************************************************************************)
(* Fairness: a thread that holds or awaits the lock runs on, a with block  *)
(* ends (statements have the server's timeouts), and a thread in get()     *)
(* does not lose every race for a free connection.                         *)
(***************************************************************************)
Fairness ==
  \A c \in Clients :
    /\ WF_vars(Grow(c) \/ GrowFails(c) \/ PoolExhausted(c))
    /\ SF_vars(GetWait(c))
    /\ WF_vars(Finish(c))

FairSpec == Spec /\ Fairness

-----------------------------------------------------------------------------
(***************************************************************************)
(* Properties                                                              *)
(***************************************************************************)
InUse == {c \in Clients : pc[c] \in {"using", "retiring"}}

\* The types of the pool's fields.
TypeOK ==
  /\ free \in Nat
  /\ created \in Nat
  /\ pc \in [Clients -> Places]
  /\ faults \in 0 .. MaxFaults

\* Never more connections than pool_size, those being replaced included, and
\* the counter never misses one: no interleaving of growth and replacement
\* opens a connection too many (_acquire, _retire_and_replenish).
ConnectionsBounded ==
  /\ free + Cardinality(InUse) <= created
  /\ created <= PoolSize

\* An acquire that has to grow the pool or to wait ends, whatever blocks raise
\* and however often connections are replaced, as long as no connect ever fails.
\* After one failed connect it need not: GrowFails keeps the place of the
\* connection it did not open.
AcquireEndsWithoutFaults ==
  [](faults = 0) =>
    \A c \in Clients :
      pc[c] \in {"growing", "waiting"} ~> pc[c] \notin {"growing", "waiting"}
=============================================================================

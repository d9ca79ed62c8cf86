---------------------------- MODULE CheckpointTxn -----------------------------
(***************************************************************************)
(* The MySQL checkpoint saver (checkpoint/mysql.py): direct put and        *)
(* put_writes, and the buffered checkpoint_transaction with its optimistic *)
(* version check, over InnoDB.                                             *)
(*                                                                         *)
(* An actor is a thread that calls the saver with an execution_id.  It may *)
(* open a transaction of its own (then its context variable names it), or  *)
(* be a background thread that reaches the transaction of its execution    *)
(* through the registry.  The statements of a flush and of a direct put    *)
(* are separate steps of one database transaction; what they change is     *)
(* visible at its commit and gone if it fails or the process dies.         *)
(*                                                                         *)
(* InnoDB (external, default REPEATABLE READ): a row read FOR UPDATE,      *)
(* inserted or updated is locked until the end of the transaction; a       *)
(* locking read of a missing checkpoint locks the gap, which keeps others  *)
(* from inserting there; plain reads of one connection see one snapshot;   *)
(* a cycle of waits fails one of its members.                              *)
(***************************************************************************)
EXTENDS CheckpointStore, FiniteSets

CONSTANTS
  Actors,          \* threads that call the saver
  Executions,      \* the ways execution_ids are given to the actors
  Lockers,         \* bound: who takes execution_lock, on which namespace
  NoActor,
  PoolSize,        \* connections of the pool
  MaxCheckpoints,  \* MAX_TRANSACTION_CHECKPOINTS
  MaxCalls,        \* bound: calls of put and put_writes by each actor
  WriteTargets,    \* bound: the checkpoints put_writes is called for
  MaxCrashes,      \* bound: restarts of the process
  DeleteRaces      \* may delete_thread run while a transaction is open

ASSUME TxnAssumption ==
  /\ Executions \subseteq [Actors -> Tasks]
  /\ Lockers \subseteq Actors \X Namespaces
  /\ NoActor \notin Actors
  /\ {PoolSize, MaxCheckpoints, MaxCrashes} \subseteq Nat
  /\ MaxCalls \in [Actors -> Nat]
  /\ WriteTargets \subseteq Namespaces \X (Ids \cup {NoId})
  /\ DeleteRaces \in BOOLEAN

VARIABLES
  executionOf, \* the execution_id each actor passes; never changes
  tx,        \* the _CheckpointTransaction of each actor
  op,        \* the database transaction each actor has in progress
  registry,  \* _transactions_by_execution
  locks,     \* who holds the named lock of execution_lock on each namespace
  calls,     \* calls made by each actor
  crashes,
  erased     \* transactions whose thread was deleted under them

saver == <<tx, op, registry, locks, calls, crashes, erased>>
txnVars == <<store, saver>>

-----------------------------------------------------------------------------
NoSnapshot == [loaded |-> FALSE, base |-> 0, current |-> 0,
               versions |-> [i \in Ids |-> 0]]

\* phase: "none" before and after the block, else the phase of the code.
NoTx == [phase |-> "none",
         snapshots |-> [ns \in Namespaces |-> NoSnapshot],
         checkpoints |-> [k \in Keys |-> 0],
         writes |-> {}]

\* stage of a flush:      "lock" "refs" "insert" "commit"
\* stage of a direct put: "bump" "insert"
NoOp == [kind |-> "none", stage |-> "none", key |-> <<>>, version |-> 0,
         rows |-> {}, gaps |-> {}, threads |-> {}]

TxnInit ==
  /\ Empty
  /\ executionOf \in Executions
  /\ tx = [a \in Actors |-> NoTx]
  /\ op = [a \in Actors |-> NoOp]
  /\ registry = [x \in Tasks |-> NoActor]
  /\ locks = [ns \in Namespaces |-> NoActor]
  /\ calls = [a \in Actors |-> 0]
  /\ crashes = 0
  /\ erased = {}

\* A connection is held by every operation in progress and by every lock of
\* execution_lock.
LocksHeld == {ns \in Namespaces : locks[ns] # NoActor}

ConnectionsInUse ==
  Cardinality({a \in Actors : op[a].kind # "none"}) + Cardinality(LocksHeld)

ConnectionFree == ConnectionsInUse < PoolSize

Idle(a) == op[a].kind = "none"
InBlock(a) == tx[a].phase # "none"

\* _transaction_for: the context variable, else the registry.
TransactionFor(a) == IF InBlock(a) THEN a ELSE registry[executionOf[a]]

Call(a) ==
  /\ Idle(a)
  /\ calls[a] < MaxCalls[a]
  /\ calls' = [calls EXCEPT ![a] = @ + 1]

-----------------------------------------------------------------------------
(***************************************************************************)
(* InnoDB                                                                  *)
(***************************************************************************)

\* The rows and gaps that others keep a from locking or filling.
ThreadHolders(a, ns) == {b \in Actors \ {a} : ns \in op[b].threads}
RowHolders(a, k) == {b \in Actors \ {a} : k \in op[b].rows}
GapHolders(a, ns) == {b \in Actors \ {a} : ns \in op[b].gaps}

\* The checkpoints a is about to insert or overwrite.
Inserts(a) ==
  IF op[a].kind = "put"
    THEN {op[a].key}
    ELSE {k \in Keys : tx[a].checkpoints[k] # 0}

\* The checkpoints outside the buffer that a's pending writes belong to.
ExternalKeys(a) ==
  {w \in {<<w[1], w[2]>> : w \in tx[a].writes} : w \in Keys} \ Inserts(a)

\* The gaps its writes without a checkpoint lock.
UnbackedGaps(a) == {w[1] : w \in {v \in tx[a].writes : v[2] = NoId}}

\* The namespaces whose rows the flush has yet to lock, and the next one:
\* sorted(namespaces.items()).
ToLock(a) ==
  {ns \in Namespaces : tx[a].snapshots[ns].loaded /\ ns \notin op[a].threads}

NextToLock(a) == CHOOSE ns \in ToLock(a) : \A m \in ToLock(a) : ns <= m

\* Who keeps a's next statement waiting.
WaitsFor(a) ==
  CASE op[a].stage = "lock" -> ThreadHolders(a, NextToLock(a))
    [] op[a].stage = "bump" -> ThreadHolders(a, op[a].key[1])
    [] op[a].stage = "refs" -> UNION {RowHolders(a, k) : k \in ExternalKeys(a)}
    [] op[a].stage = "insert" ->
         UNION {RowHolders(a, k) \cup
                  (IF version[k] = 0 THEN GapHolders(a, k[1]) ELSE {})
                  : k \in Inserts(a)}
    [] OTHER -> {}

Runs(a, stage) == op[a].stage = stage /\ WaitsFor(a) = {}

\* A member of a cycle of waits.
Deadlocked(a) ==
  \E S \in SUBSET Actors :
    a \in S /\ \A b \in S : WaitsFor(b) \cap S # {}

-----------------------------------------------------------------------------
(***************************************************************************)
(* checkpoint_transaction                                                  *)
(***************************************************************************)

\* CheckpointExecutionBusy and a nested block of the same execution change
\* nothing: the second thread goes on without a transaction of its own.
Begin(a) ==
  /\ Idle(a)
  /\ ~InBlock(a)
  /\ calls[a] < MaxCalls[a]
  /\ registry[executionOf[a]] = NoActor
  /\ registry' = [registry EXCEPT ![executionOf[a]] = a]
  /\ tx' = [tx EXCEPT ![a] = [NoTx EXCEPT !.phase = "open"]]
  /\ UNCHANGED <<store, op, locks, calls, crashes, erased>>

\* The finally clause: the block is left and deregistered.
LeaveBlock(a) ==
  /\ tx' = [tx EXCEPT ![a] = NoTx]
  /\ registry' = [registry EXCEPT ![executionOf[a]] = NoActor]
  /\ erased' = erased \ {a}

\* The body of the block raises.
Abort(a) ==
  /\ Idle(a)
  /\ tx[a].phase = "open"
  /\ LeaveBlock(a)
  /\ UNCHANGED <<store, op, locks, calls, crashes>>

\* The block ends: sealed before the connection is taken.
Seal(a) ==
  /\ Idle(a)
  /\ tx[a].phase = "open"
  /\ tx' = [tx EXCEPT ![a] = [tx[a] EXCEPT !.phase = "sealed"]]
  /\ UNCHANGED <<store, op, registry, locks, calls, crashes, erased>>

\* _flush_transaction takes the buffer and a connection.
FlushBegin(a) ==
  /\ tx[a].phase = "sealed"
  /\ ConnectionFree
  /\ tx' = [tx EXCEPT ![a] = [tx[a] EXCEPT !.phase = "committing"]]
  /\ op' = [op EXCEPT ![a] =
              [NoOp EXCEPT !.kind = "flush",
                           !.stage = IF ToLock(a) = {} THEN "refs" ELSE "lock"]]
  /\ UNCHANGED <<store, registry, locks, calls, crashes, erased>>

EndFlush(a) ==
  /\ op' = [op EXCEPT ![a] = NoOp]
  /\ LeaveBlock(a)

\* The row is created at the snapshot's version if it is missing.
RowVersion(a, ns) ==
  IF current[ns] = 0 THEN tx[a].snapshots[ns].base ELSE current[ns]

\* Faulty variants: no version check; the rows are read but not locked; a
\* conflict is raised without the rollback.
FlushLockUnchecked(a) ==
  /\ Runs(a, "lock")
  /\ op' = [op EXCEPT ![a].threads = ToLock(a), ![a].stage = "refs"]
  /\ UNCHANGED <<store, tx, registry, erased, locks, calls, crashes>>

FlushLockPlainRead(a) ==
  /\ Runs(a, "lock")
  /\ IF \A ns \in ToLock(a) : RowVersion(a, ns) = tx[a].snapshots[ns].base
       THEN /\ op' = [op EXCEPT ![a].stage = "refs"]
            /\ UNCHANGED <<tx, registry, erased>>
       ELSE EndFlush(a)
  /\ UNCHANGED <<store, locks, calls, crashes>>

FlushLockNoRollback(a) ==
  /\ Runs(a, "lock")
  /\ IF \A ns \in ToLock(a) : RowVersion(a, ns) = tx[a].snapshots[ns].base
       THEN op' = [op EXCEPT ![a].threads = ToLock(a), ![a].stage = "refs"]
       ELSE op' = [op EXCEPT ![a].threads = ToLock(a), ![a].stage = "raised"]
  /\ UNCHANGED <<store, tx, registry, erased, locks, calls, crashes>>

\* INSERT ... ON DUPLICATE KEY, SELECT ... FOR UPDATE: the row is locked, and
\* the snapshot taken at the first put must still be the row's version.
FlushLock(a) ==
  /\ Runs(a, "lock")
  /\ LET ns == NextToLock(a) IN
       IF RowVersion(a, ns) = tx[a].snapshots[ns].base
         THEN /\ op' = [op EXCEPT ![a] =
                          [op[a] EXCEPT
                             !.threads = op[a].threads \cup {ns},
                             !.stage = IF ToLock(a) = {ns} THEN "refs" ELSE "lock"]]
              /\ UNCHANGED <<tx, registry, erased>>
         ELSE EndFlush(a)                     \* CheckpointVersionConflict
  /\ UNCHANGED <<store, locks, calls, crashes>>

\* Every pending write must belong to a checkpoint of the buffer or of the
\* table; the empty id needs none.
FlushRefs(a) ==
  /\ Runs(a, "refs")
  /\ IF \A k \in ExternalKeys(a) : version[k] # 0
       THEN /\ op' = [op EXCEPT ![a] =
                        [op[a] EXCEPT !.stage = "insert",
                                      !.rows = op[a].rows \cup ExternalKeys(a),
                                      !.gaps = UnbackedGaps(a)]]
            /\ UNCHANGED <<tx, registry, erased>>
       ELSE EndFlush(a)      \* "pending writes reference a missing checkpoint"
  /\ UNCHANGED <<store, locks, calls, crashes>>

\* Faulty variant: a connection in autocommit mode.
FlushInsertAutocommit(a) ==
  /\ op[a].kind = "flush"
  /\ Runs(a, "insert")
  /\ version' = [k \in Keys |->
                   IF version[k] = 0 THEN tx[a].checkpoints[k] ELSE version[k]]
  /\ pending' = pending \cup tx[a].writes
  /\ op' = [op EXCEPT ![a].stage = "commit", ![a].rows = @ \cup Inserts(a)]
  /\ UNCHANGED <<current, tx, registry, locks, calls, crashes, erased>>

\* The two executemany statements.
FlushInsert(a) ==
  /\ op[a].kind = "flush"
  /\ Runs(a, "insert")
  /\ op' = [op EXCEPT ![a] =
              [op[a] EXCEPT !.stage = "commit", !.rows = op[a].rows \cup Inserts(a)]]
  /\ UNCHANGED <<store, tx, registry, locks, calls, crashes, erased>>

\* Faulty variant: the UPDATE of current_version is forgotten.
FlushCommitNoUpdate(a) ==
  /\ op[a].kind = "flush"
  /\ op[a].stage = "commit"
  /\ version' = [k \in Keys |->
                   IF version[k] = 0 THEN tx[a].checkpoints[k] ELSE version[k]]
  /\ pending' = pending \cup tx[a].writes
  /\ EndFlush(a)
  /\ UNCHANGED <<current, locks, calls, crashes>>

\* The UPDATE of current_version and the commit.  A checkpoint that is there
\* already keeps its version.
FlushCommit(a) ==
  /\ op[a].kind = "flush"
  /\ op[a].stage = "commit"
  /\ current' = [ns \in Namespaces |->
                   IF tx[a].snapshots[ns].loaded
                     THEN tx[a].snapshots[ns].current
                     ELSE current[ns]]
  /\ version' = [k \in Keys |->
                   IF version[k] = 0 THEN tx[a].checkpoints[k] ELSE version[k]]
  /\ pending' = pending \cup tx[a].writes
  /\ EndFlush(a)
  /\ UNCHANGED <<locks, calls, crashes>>

\* A statement fails, or InnoDB chooses it to break a deadlock: rollback.
OperationFails(a) ==
  /\ op[a].kind # "none"
  /\ IF op[a].kind = "flush"
       THEN EndFlush(a)
       ELSE /\ op' = [op EXCEPT ![a] = NoOp]
            /\ UNCHANGED <<tx, registry, erased>>
  /\ UNCHANGED <<store, locks, calls, crashes>>

-----------------------------------------------------------------------------
(***************************************************************************)
(* put and put_writes into a transaction                                   *)
(***************************************************************************)

\* _load_namespace_snapshot
Load(ns) ==
  [loaded |-> TRUE, base |-> current[ns], current |-> current[ns],
   versions |-> [i \in Ids |-> version[<<ns, i>>]]]

SnapshotOf(t, ns) ==
  IF tx[t].snapshots[ns].loaded THEN tx[t].snapshots[ns] ELSE Load(ns)

BufferedKeys(t) == {k \in Keys : tx[t].checkpoints[k] # 0}

\* A new checkpoint takes the next version of the snapshot; ensure_capacity
\* comes after that and, when it refuses, leaves the snapshot moved on.
PutBuffered(a, k) ==
  LET t    == TransactionFor(a)
      old  == SnapshotOf(t, k[1])
      new  == IF old.versions[k[2]] = 0
                THEN [old EXCEPT
                        !.current = old.current + 1,
                        !.versions = [old.versions EXCEPT ![k[2]] = old.current + 1]]
                ELSE old
      room == Cardinality(BufferedKeys(t) \cup {k}) <= MaxCheckpoints
  IN  /\ Call(a)
      /\ t # NoActor
      /\ tx[t].phase = "open"
      /\ tx[t].snapshots[k[1]].loaded \/ ConnectionFree
      /\ tx' = [tx EXCEPT ![t] =
                  [tx[t] EXCEPT
                     !.snapshots = [tx[t].snapshots EXCEPT ![k[1]] = new],
                     !.checkpoints =
                       IF room THEN [tx[t].checkpoints EXCEPT ![k] = new.versions[k[2]]]
                               ELSE tx[t].checkpoints]]
      /\ UNCHANGED <<store, op, registry, locks, crashes, erased>>

\* No snapshot is taken for writes.
PutWritesBuffered(a, ns, id) ==
  LET t == TransactionFor(a) IN
  /\ Call(a)
  /\ t # NoActor
  /\ tx[t].phase = "open"
  /\ tx' = [tx EXCEPT ![t] =
              [tx[t] EXCEPT !.writes = tx[t].writes \cup {<<ns, id, executionOf[a]>>}]]
  /\ UNCHANGED <<store, op, registry, locks, crashes, erased>>

(***************************************************************************)
(* put, put_writes and delete_thread outside a transaction                 *)
(***************************************************************************)

\* SELECT version ... FOR UPDATE: the row, or the gap where it would be.
PutSelect(a, k) ==
  /\ Call(a)
  /\ TransactionFor(a) = NoActor
  /\ ConnectionFree
  /\ RowHolders(a, k) = {}
  /\ op' = [op EXCEPT ![a] =
              IF version[k] # 0
                THEN [NoOp EXCEPT !.kind = "put", !.stage = "insert", !.key = k,
                                  !.version = version[k], !.rows = {k}]
                ELSE [NoOp EXCEPT !.kind = "put", !.stage = "bump", !.key = k,
                                  !.gaps = {k[1]}]]
  /\ UNCHANGED <<store, tx, registry, locks, crashes, erased>>

\* INSERT ... current_version + 1, read back FOR UPDATE.
PutBump(a) ==
  /\ op[a].kind = "put"
  /\ Runs(a, "bump")
  /\ op' = [op EXCEPT ![a] =
              [op[a] EXCEPT !.stage = "insert",
                            !.threads = {op[a].key[1]},
                            !.version = current[op[a].key[1]] + 1]]
  /\ UNCHANGED <<store, tx, registry, locks, calls, crashes, erased>>

\* INSERT of the checkpoint and the commit.
PutInsert(a) ==
  LET k == op[a].key IN
  /\ op[a].kind = "put"
  /\ Runs(a, "insert")
  /\ current' = [current EXCEPT ![k[1]] =
                   IF k[1] \in op[a].threads THEN op[a].version ELSE @]
  /\ version' = [version EXCEPT ![k] = op[a].version]
  /\ op' = [op EXCEPT ![a] = NoOp]
  /\ UNCHANGED <<pending, tx, registry, locks, calls, crashes, erased>>

\* One statement and its commit.
PutWritesDirect(a, ns, id) ==
  /\ Call(a)
  /\ TransactionFor(a) = NoActor
  /\ ConnectionFree
  /\ pending' = pending \cup {<<ns, id, executionOf[a]>>}
  /\ UNCHANGED <<current, version, tx, op, registry, locks, crashes, erased>>

\* Three deletes and a commit, once no row they delete is locked.  A caller
\* that is not a transaction runs it.
DeleteThread ==
  /\ ConnectionFree
  /\ \A a \in Actors :
       op[a].rows = {} /\ op[a].gaps = {} /\ op[a].threads = {}
  /\ \E ns \in Namespaces : current[ns] # 0
  /\ DeleteRaces \/ \A a \in Actors, ns \in Namespaces :
                      ~tx[a].snapshots[ns].loaded
  /\ Erase
  /\ erased' = erased \cup {a \in Actors :
                              \E ns \in Namespaces : tx[a].snapshots[ns].loaded}
  /\ UNCHANGED <<tx, op, registry, locks, calls, crashes>>

(***************************************************************************)
(* execution_lock, and the process                                         *)
(***************************************************************************)

\* GET_LOCK on a connection that is kept until the lock is released; a lock
\* that is taken raises CheckpointExecutionBusy after the timeout.
LockExecution(a, ns) ==
  /\ <<a, ns>> \in Lockers
  /\ Idle(a)
  /\ ~InBlock(a)
  /\ calls[a] < MaxCalls[a]
  /\ locks[ns] = NoActor
  /\ ConnectionFree
  /\ locks' = [locks EXCEPT ![ns] = a]
  /\ UNCHANGED <<store, tx, op, registry, calls, crashes, erased>>

UnlockExecution(a, ns) ==
  /\ locks[ns] = a
  /\ Idle(a)
  /\ ~InBlock(a)
  /\ locks' = [locks EXCEPT ![ns] = NoActor]
  /\ UNCHANGED <<store, tx, op, registry, calls, crashes, erased>>

\* The holder has something left to do that takes a connection of its own.
NeedsAnother(a) == tx[a].phase = "sealed" \/ calls[a] < MaxCalls[a]

\* Locks of threads that need another connection have taken all of the pool,
\* whose get() has no timeout.
LocksTakeThePool ==
  Cardinality({ns \in LocksHeld : NeedsAnother(locks[ns])}) >= PoolSize

\* The process dies and restarts: buffers and the registry are gone, the server
\* rolls back what was not committed.
Crash ==
  /\ crashes < MaxCrashes
  /\ crashes' = crashes + 1
  /\ tx' = [a \in Actors |-> NoTx]
  /\ op' = [a \in Actors |-> NoOp]
  /\ registry' = [x \in DOMAIN registry |-> NoActor]
  /\ locks' = [ns \in Namespaces |-> NoActor]
  /\ erased' = {}
  /\ UNCHANGED <<store, calls>>

-----------------------------------------------------------------------------
Flush(a) ==
  \/ FlushBegin(a)
  \/ FlushLock(a)
  \/ FlushRefs(a)
  \/ FlushInsert(a)
  \/ FlushCommit(a)

DirectPut(a) == PutBump(a) \/ PutInsert(a)

TxnStep(a) ==
  \/ Begin(a)
  \/ Abort(a)
  \/ Seal(a)
  \/ Flush(a)
  \/ OperationFails(a)
  \/ DirectPut(a)
  \/ \E ns \in Namespaces : LockExecution(a, ns) \/ UnlockExecution(a, ns)
  \/ \E k \in Keys : PutBuffered(a, k) \/ PutSelect(a, k)
  \/ \E t \in WriteTargets :
       PutWritesBuffered(a, t[1], t[2]) \/ PutWritesDirect(a, t[1], t[2])

TxnNext == (\E a \in Actors : TxnStep(a)) \/ DeleteThread \/ Crash

\* A thread that has begun an operation goes on with it whenever InnoDB and the
\* pool let it (both serve their waiters in turn); the block's body ends; a
\* thread that has made its calls leaves its execution_locks; a member of a
\* deadlock is chosen.  Nothing else has to happen: a holder with calls left
\* may be waiting for a connection.
TxnFairness ==
  \A a \in Actors :
    /\ WF_txnVars(Seal(a))
    /\ SF_txnVars(Flush(a))
    /\ SF_txnVars(DirectPut(a))
    /\ WF_txnVars(Deadlocked(a) /\ OperationFails(a))
    /\ \A ns \in Namespaces :
         WF_txnVars(calls[a] = MaxCalls[a] /\ UnlockExecution(a, ns))
===============================================================================

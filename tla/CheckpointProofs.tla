--------------------------- MODULE CheckpointProofs ----------------------------
(***************************************************************************)
(* Proofs about the checkpoint savers, for all threads, executions,        *)
(* namespaces, ids, pool sizes and numbers of calls and crashes: what the  *)
(* commits of CheckpointStore keep, and that both savers implement it, so  *)
(* that they inherit it.                                                   *)
(*                                                                         *)
(* Nothing in the runtime deletes a thread while a transaction is open;    *)
(* the theorems about the savers assume it (~DeleteRaces).                 *)
(***************************************************************************)
EXTENDS Checkpoints, FiniteSetTheorems, WellFoundedInduction, TLAPS

\* The type of the two tables that versions are in.
VersionTypes ==
  /\ current \in [Namespaces -> Nat]
  /\ version \in [Keys -> Nat]

IInv == VersionTypes /\ VersionsOrdered

LEMMA KeyNamespace ==
  ASSUME NEW k \in Keys
  PROVE  k[1] \in Namespaces
BY DEF Keys

LEMMA EmptyIsOrdered == Empty => IInv
<1> SUFFICES ASSUME Empty PROVE IInv
  OBVIOUS
<1>1. VersionTypes
  BY DEF Empty, VersionTypes
<1>2. VersionsOrdered
  BY KeyNamespace DEF Empty, VersionsOrdered
<1> QED
  BY <1>1, <1>2 DEF IInv

LEMMA EraseKeepsOrder == Erase => IInv'
<1> SUFFICES ASSUME Erase PROVE IInv'
  OBVIOUS
<1>1. VersionTypes'
  BY DEF Erase, VersionTypes
<1>2. VersionsOrdered'
  BY KeyNamespace DEF Erase, VersionsOrdered
<1> QED
  BY <1>1, <1>2 DEF IInv

\* A new version is above every version of its namespace, and two new ones
\* differ.
LEMMA CommitKeepsOrder == IInv /\ Commit => IInv'
<1> SUFFICES ASSUME IInv, Commit PROVE IInv'
  OBVIOUS
<1>1. VersionTypes'
  BY DEF Commit, VersionTypes
<1>2. ASSUME NEW k \in Keys
      PROVE  version'[k] <= current'[k[1]]
  <2>1. /\ k[1] \in Namespaces
        /\ current[k[1]] \in Nat /\ current'[k[1]] \in Nat
        /\ version[k] \in Nat /\ version'[k] \in Nat
    BY <1>1, KeyNamespace DEF IInv, VersionTypes
  <2>2. version[k] <= current[k[1]] /\ current[k[1]] <= current'[k[1]]
    BY <2>1 DEF IInv, VersionsOrdered, Commit
  <2>3. version'[k] # version[k] => version'[k] <= current'[k[1]]
    BY DEF Commit
  <2> QED
    BY <2>1, <2>2, <2>3
<1>3. ASSUME NEW j \in Keys, NEW k \in Keys,
             j # k, j[1] = k[1], version'[j] = version'[k]
      PROVE  version'[j] = 0
  <2>1. /\ j[1] \in Namespaces
        /\ current[j[1]] \in Nat
        /\ version[j] \in Nat /\ version[k] \in Nat
        /\ version'[j] \in Nat /\ version'[k] \in Nat
    BY <1>1, KeyNamespace DEF IInv, VersionTypes
  <2>2. version[j] <= current[j[1]] /\ version[k] <= current[j[1]]
    BY <1>3 DEF IInv, VersionsOrdered
  <2>3. version'[j] # version[j] => current[j[1]] < version'[j]
    BY DEF Commit
  <2>4. version'[k] # version[k] => current[j[1]] < version'[k]
    BY <1>3 DEF Commit
  <2>5. ~(version'[j] # version[j] /\ version'[k] # version[k])
    BY <1>3 DEF Commit
  <2>6. version'[j] = version[j] /\ version'[k] = version[k]
    BY <1>3, <2>1, <2>2, <2>3, <2>4, <2>5
  <2> QED
    BY <1>3, <2>6 DEF IInv, VersionsOrdered
<1>4. VersionsOrdered'
  BY <1>2, <1>3 DEF VersionsOrdered
<1> QED
  BY <1>1, <1>4 DEF IInv

\* Whatever a saver commits, as long as it implements the store, every
\* checkpoint of a namespace has a version of its own and the namespace's
\* counter is not behind it: the latest checkpoint is well defined and
\* _load_namespace_snapshot never refuses a namespace.
THEOREM VersionsStayOrdered == StoreSpec => []VersionsOrdered
<1>1. Empty => IInv
  BY EmptyIsOrdered
<1>2. IInv /\ [Commit \/ Erase]_store => IInv'
  <2> SUFFICES ASSUME IInv, [Commit \/ Erase]_store PROVE IInv'
    OBVIOUS
  <2>1. CASE Commit
    BY <2>1, CommitKeepsOrder
  <2>2. CASE Erase
    BY <2>2, EraseKeepsOrder
  <2>3. CASE UNCHANGED store
    BY <2>3 DEF store, IInv, VersionTypes, VersionsOrdered
  <2> QED
    BY <2>1, <2>2, <2>3
<1>3. IInv => VersionsOrdered
  BY DEF IInv
<1> QED
  BY <1>1, <1>2, <1>3, PTL DEF StoreSpec

-----------------------------------------------------------------------------
(***************************************************************************)
(* The transactions of the MySQL saver                                     *)
(***************************************************************************)
Phases == {"none", "open", "sealed", "committing"}
Stages == {"none", "lock", "refs", "insert", "commit", "bump"}

Snapshot == [loaded : BOOLEAN, base : Nat, current : Nat, versions : [Ids -> Nat]]

Buffer == [phase : Phases, snapshots : [Namespaces -> Snapshot],
           checkpoints : [Keys -> Nat], writes : SUBSET WriteKeys]

Operation == [kind : {"none", "flush", "put"}, stage : Stages, key : Keys \cup {<<>>},
              version : Nat, rows : SUBSET Keys, gaps : SUBSET Namespaces,
              threads : SUBSET Namespaces]

TxnTypes ==
  /\ pending \in SUBSET WriteKeys
  /\ executionOf \in [Actors -> Tasks]
  /\ registry \in [Tasks -> Actors \cup {NoActor}]
  /\ tx \in [Actors -> Buffer]
  /\ op \in [Actors -> Operation]

\* Every checkpoint a snapshot knows has a version of its own, and its counter is not
\* behind any of them.
SnapshotOrdered(s) ==
  /\ s.base <= s.current
  /\ \A i \in Ids : s.versions[i] <= s.current
  /\ \A i, j \in Ids : i # j /\ s.versions[i] = s.versions[j] => s.versions[i] = 0

\* As long as the namespace has not moved since, it has what the snapshot had, and
\* nothing of what the transaction has put.
SnapshotMatches(s, ns) ==
  /\ s.base <= current[ns]
  /\ s.base = current[ns] =>
       \A i \in Ids : version[<<ns, i>>] = IF s.versions[i] > s.base THEN 0 ELSE s.versions[i]

\* A transaction puts only into namespaces it has a snapshot of.
BufferConsistent(a) ==
  /\ \A ns \in Namespaces : tx[a].snapshots[ns].loaded =>
       SnapshotOrdered(tx[a].snapshots[ns]) /\ SnapshotMatches(tx[a].snapshots[ns], ns)
  /\ \A k \in Keys : tx[a].checkpoints[k] # 0 =>
       /\ tx[a].snapshots[k[1]].loaded
       /\ tx[a].checkpoints[k] = tx[a].snapshots[k[1]].versions[k[2]]

\* A direct put of a checkpoint that was not there.
FreshPut(a) == op[a].kind = "put" /\ op[a].rows = {}

\* What the statements of a database transaction have established so far.
FlushConsistent(a) ==
  op[a].kind = "flush" =>
    /\ tx[a].phase = "committing"
    /\ op[a].stage \in {"lock", "refs", "insert", "commit"}
    /\ op[a].stage = "lock" => ToLock(a) # {}
    /\ \A ns \in Namespaces :
         tx[a].snapshots[ns].loaded /\ (op[a].stage # "lock" \/ ns \in op[a].threads) =>
           ns \in op[a].threads /\ tx[a].snapshots[ns].base = current[ns]
    /\ op[a].stage = "commit" => Inserts(a) \subseteq op[a].rows

PutConsistent(a) ==
  op[a].kind = "put" =>
    /\ op[a].key \in Keys /\ op[a].stage \in {"bump", "insert"} /\ tx[a].phase = "none"
    /\ op[a].rows = {} =>
         /\ version[op[a].key] = 0
         /\ op[a].gaps = {op[a].key[1]}
         /\ op[a].stage = "insert" =>
              op[a].threads = {op[a].key[1]} /\ op[a].version = current[op[a].key[1]] + 1
    /\ op[a].rows # {} =>
         /\ op[a].stage = "insert" /\ op[a].threads = {}
         /\ op[a].version = version[op[a].key] /\ version[op[a].key] # 0

IdleConsistent(a) ==
  /\ op[a].kind = "none" => op[a] = NoOp
  /\ tx[a].phase = "none" => tx[a] = NoTx
  /\ tx[a].phase \in {"open", "sealed"} => op[a].kind = "none"

ActorConsistent(a) ==
  BufferConsistent(a) /\ FlushConsistent(a) /\ PutConsistent(a) /\ IdleConsistent(a)

\* Rows of threads are locked exclusively, and nobody commits a checkpoint that another
\* found missing and is about to put.
Apart(a, b) ==
  /\ op[a].threads \cap op[b].threads = {}
  /\ op[a].kind = "flush" /\ op[a].stage = "commit" /\ FreshPut(b)
       => op[b].key \notin Inserts(a)

SqliteHasNoTransactions ==
  backend = "sqlite" => \A a \in Actors : tx[a] = NoTx /\ op[a] = NoOp

TxnInv ==
  /\ IInv
  /\ TxnTypes
  /\ \A a \in Actors : ActorConsistent(a)
  /\ \A a, b \in Actors : a # b => Apart(a, b)
  /\ SqliteHasNoTransactions
  /\ erased = {}

-----------------------------------------------------------------------------
\* The empty records.
LEMMA EmptyRecords == NoSnapshot \in Snapshot /\ NoTx \in Buffer /\ NoOp \in Operation
<1>1. NoSnapshot \in Snapshot
  BY DEF NoSnapshot, Snapshot
<1>2. NoTx \in Buffer
  <2> DEFINE snapshots == [ns \in Namespaces |-> NoSnapshot]
             checkpoints == [k \in Keys |-> 0]
  <2>1. snapshots \in [Namespaces -> Snapshot] /\ checkpoints \in [Keys -> Nat]
    BY <1>1
  <2>2. NoTx = [phase |-> "none", snapshots |-> snapshots,
                checkpoints |-> checkpoints, writes |-> {}]
    BY DEF NoTx
  <2> HIDE DEF snapshots, checkpoints
  <2> QED
    BY <2>1, <2>2 DEF Buffer, Phases
<1>3. NoOp \in Operation
  BY DEF NoOp, Operation, Stages
<1> QED
  BY <1>1, <1>2, <1>3

\* A thread without a transaction and without an operation.
LEMMA IdleIsConsistent ==
  ASSUME NEW a \in Actors, tx[a] = NoTx, op[a] = NoOp
  PROVE  ActorConsistent(a)
<1>1. /\ tx[a].phase = "none"
      /\ \A ns \in Namespaces : ~tx[a].snapshots[ns].loaded
      /\ \A k \in Keys : tx[a].checkpoints[k] = 0
  BY DEF NoTx, NoSnapshot
<1>2. op[a].kind = "none"
  BY DEF NoOp
<1> QED
  BY <1>1, <1>2 DEF ActorConsistent, BufferConsistent, FlushConsistent, PutConsistent,
                    IdleConsistent

LEMMA NoOpIsApart ==
  ASSUME NEW a \in Actors, NEW b \in Actors, op[a] = NoOp
  PROVE  Apart(a, b) /\ Apart(b, a)
<1>1. op[a].kind = "none" /\ op[a].threads = {}
  BY DEF NoOp
<1> QED
  BY <1>1 DEF Apart, FreshPut

\* A store that lets a thread keep what it knows: a namespace either stays as it was
\* or gets a higher version, the rows of threads it has locked keep theirs, and so does the
\* checkpoint it is putting.
Undisturbed(b) ==
  /\ \A ns \in Namespaces :
       /\ current[ns] <= current'[ns]
       /\ current'[ns] = current[ns] =>
            \A i \in Ids : version'[<<ns, i>>] = version[<<ns, i>>]
  /\ \A ns \in op[b].threads : current'[ns] = current[ns]
  /\ op[b].kind = "put" => version'[op[b].key] = version[op[b].key]

LEMMA OthersStayConsistent ==
  ASSUME TxnTypes, VersionTypes, VersionTypes', NEW b \in Actors, ActorConsistent(b),
         tx'[b] = tx[b], op'[b] = op[b], Undisturbed(b)
  PROVE  ActorConsistent(b)'
<1>1. tx[b] \in Buffer /\ op[b] \in Operation
  BY DEF TxnTypes
<1>2. BufferConsistent(b)'
  <2>1. ASSUME NEW ns \in Namespaces, tx[b].snapshots[ns].loaded
        PROVE  SnapshotMatches(tx[b].snapshots[ns], ns)'
    <3> DEFINE s == tx[b].snapshots[ns]
    <3>1. s.base \in Nat /\ current[ns] \in Nat /\ current'[ns] \in Nat
      BY <1>1 DEF Buffer, Snapshot, VersionTypes
    <3>2. s.base <= current[ns] /\ current[ns] <= current'[ns]
      BY <2>1 DEF ActorConsistent, BufferConsistent, SnapshotMatches, Undisturbed
    <3>3. s.base <= current'[ns]
      BY <3>1, <3>2
    <3>4. ASSUME s.base = current'[ns], NEW i \in Ids
          PROVE  version'[<<ns, i>>] = IF s.versions[i] > s.base THEN 0 ELSE s.versions[i]
      <4>1. s.base = current[ns] /\ current'[ns] = current[ns]
        BY <3>1, <3>2, <3>4
      <4>2. version'[<<ns, i>>] = version[<<ns, i>>]
        BY <4>1 DEF Undisturbed
      <4>3. version[<<ns, i>>] = IF s.versions[i] > s.base THEN 0 ELSE s.versions[i]
        BY <2>1, <4>1 DEF ActorConsistent, BufferConsistent, SnapshotMatches
      <4> QED
        BY <4>2, <4>3
    <3>5. tx'[b].snapshots[ns] = s
      OBVIOUS
    <3> QED
      BY <3>3, <3>4, <3>5 DEF SnapshotMatches
  <2> QED
    BY <2>1 DEF ActorConsistent, BufferConsistent
<1>3. FlushConsistent(b)'
  BY DEF ActorConsistent, FlushConsistent, Undisturbed, Inserts, ToLock
<1>4. PutConsistent(b)'
  <2> SUFFICES ASSUME op[b].kind = "put" PROVE PutConsistent(b)'
    BY DEF PutConsistent
  <2>1. version'[op[b].key] = version[op[b].key]
    BY DEF Undisturbed
  <2>2. op[b].threads = {op[b].key[1]} => current'[op[b].key[1]] = current[op[b].key[1]]
    BY DEF Undisturbed
  <2>3. PutConsistent(b)
    BY DEF ActorConsistent
  <2> QED
    BY <2>1, <2>2, <2>3 DEF PutConsistent
<1>5. IdleConsistent(b)'
  BY DEF ActorConsistent, IdleConsistent, NoOp, NoTx, NoSnapshot
<1> QED
  BY <1>2, <1>3, <1>4, <1>5 DEF ActorConsistent

\* What is left to show about a step of one thread.
LEMMA StepOfOne ==
  ASSUME TxnInv, NEW a \in Actors, backend = "mysql", backend' = backend,
         IInv', TxnTypes', erased' = {},
         \A b \in Actors \ {a} : tx'[b] = tx[b] /\ op'[b] = op[b] /\ Undisturbed(b),
         ActorConsistent(a)',
         \A b \in Actors \ {a} : Apart(a, b)' /\ Apart(b, a)'
  PROVE  TxnInv'
<1>1. ASSUME NEW b \in Actors PROVE ActorConsistent(b)'
  <2>1. CASE b = a
    BY <2>1
  <2>2. CASE b # a
    BY <2>2, OthersStayConsistent DEF TxnInv, IInv
  <2> QED
    BY <2>1, <2>2
<1>2. ASSUME NEW b \in Actors, NEW c \in Actors, b # c PROVE Apart(b, c)'
  <2>1. CASE b = a \/ c = a
    BY <1>2, <2>1
  <2>2. CASE b # a /\ c # a
    <3>1. Apart(b, c)
      BY <1>2 DEF TxnInv
    <3>2. tx'[b] = tx[b] /\ op'[b] = op[b] /\ op'[c] = op[c]
      BY <2>2
    <3> QED
      BY <3>1, <3>2 DEF Apart, FreshPut, Inserts
  <2> QED
    BY <2>1, <2>2
<1>3. SqliteHasNoTransactions'
  BY DEF SqliteHasNoTransactions
<1> QED
  BY <1>1, <1>2, <1>3 DEF TxnInv

\* The same when the step leaves the tables alone.
LEMMA StoreUnchanged ==
  ASSUME TxnInv, UNCHANGED store
  PROVE  IInv' /\ \A b \in Actors : Undisturbed(b)
<1>1. current' = current /\ version' = version /\ current \in [Namespaces -> Nat]
  BY DEF store, TxnInv, IInv, VersionTypes
<1>2. IInv'
  BY <1>1 DEF TxnInv, IInv, VersionTypes, VersionsOrdered
<1>3. ASSUME NEW b \in Actors PROVE Undisturbed(b)
  BY <1>1 DEF Undisturbed
<1> QED
  BY <1>2, <1>3

\* What the parts of the state are.
LEMMA RecordFields ==
  ASSUME TxnTypes, NEW a \in Actors
  PROVE  /\ tx[a] \in Buffer /\ op[a] \in Operation
         /\ tx[a].phase \in Phases
         /\ tx[a].snapshots \in [Namespaces -> Snapshot]
         /\ tx[a].checkpoints \in [Keys -> Nat]
         /\ tx[a].writes \subseteq WriteKeys
         /\ op[a].stage \in Stages
         /\ op[a].kind \in {"none", "flush", "put"}
         /\ op[a].key \in Keys \cup {<<>>}
         /\ op[a].version \in Nat
         /\ op[a].rows \subseteq Keys
         /\ op[a].gaps \subseteq Namespaces
         /\ op[a].threads \subseteq Namespaces
<1>1. tx[a] \in Buffer /\ op[a] \in Operation
  BY DEF TxnTypes
<1> QED
  BY <1>1 DEF Buffer, Operation

LEMMA StepTypes ==
  ASSUME TxnTypes, NEW a \in Actors, NEW u \in Buffer, NEW o \in Operation,
         tx' = [tx EXCEPT ![a] = u] \/ (tx' = tx /\ u = tx[a]),
         op' = [op EXCEPT ![a] = o] \/ (op' = op /\ o = op[a]),
         pending' \in SUBSET WriteKeys, executionOf' = executionOf,
         registry' \in [Tasks -> Actors \cup {NoActor}]
  PROVE  /\ TxnTypes'
         /\ tx'[a] = u /\ op'[a] = o
         /\ \A b \in Actors \ {a} : tx'[b] = tx[b] /\ op'[b] = op[b]
<1>1. tx \in [Actors -> Buffer] /\ op \in [Actors -> Operation]
  BY DEF TxnTypes
<1>2. /\ tx' \in [Actors -> Buffer] /\ tx'[a] = u
      /\ \A b \in Actors \ {a} : tx'[b] = tx[b]
  BY <1>1
<1>3. /\ op' \in [Actors -> Operation] /\ op'[a] = o
      /\ \A b \in Actors \ {a} : op'[b] = op[b]
  BY <1>1
<1> QED
  BY <1>2, <1>3 DEF TxnTypes

\* The registry stays what it is when a thread enters or leaves its block.
LEMMA RegistryTypes ==
  ASSUME TxnTypes, NEW a \in Actors, NEW r \in Actors \cup {NoActor}
  PROVE  /\ executionOf[a] \in Tasks
         /\ [registry EXCEPT ![executionOf[a]] = r] \in [Tasks -> Actors \cup {NoActor}]
BY DEF TxnTypes

\* A step after which the thread has neither a transaction nor an operation.
LEMMA BecomesIdle ==
  ASSUME TxnInv, NEW a \in Actors, backend = "mysql", backend' = backend,
         executionOf' = executionOf, IInv', pending' \in SUBSET WriteKeys,
         \A b \in Actors \ {a} : Undisturbed(b),
         tx' = [tx EXCEPT ![a] = NoTx] \/ (tx' = tx /\ NoTx = tx[a]),
         op' = [op EXCEPT ![a] = NoOp] \/ (op' = op /\ NoOp = op[a]),
         registry' \in [Tasks -> Actors \cup {NoActor}], erased' = {}
  PROVE  TxnInv'
<1>1. TxnTypes
  BY DEF TxnInv
<1>2. /\ TxnTypes'
      /\ tx'[a] = NoTx /\ op'[a] = NoOp
      /\ \A b \in Actors \ {a} : tx'[b] = tx[b] /\ op'[b] = op[b]
  BY <1>1, EmptyRecords, StepTypes
<1>3. ActorConsistent(a)'
  <2>1. /\ tx'[a].phase = "none"
        /\ \A ns \in Namespaces : ~tx'[a].snapshots[ns].loaded
        /\ \A k \in Keys : tx'[a].checkpoints[k] = 0
    BY <1>2 DEF NoTx, NoSnapshot
  <2>2. op'[a].kind = "none"
    BY <1>2 DEF NoOp
  <2>3. BufferConsistent(a)' /\ FlushConsistent(a)' /\ PutConsistent(a)'
    BY <2>1, <2>2 DEF BufferConsistent, FlushConsistent, PutConsistent
  <2>4. IdleConsistent(a)'
    BY <1>2, <2>1 DEF IdleConsistent, NoOp, NoTx, NoSnapshot
  <2> QED
    BY <2>3, <2>4 DEF ActorConsistent
<1>4. \A b \in Actors \ {a} : Apart(a, b)' /\ Apart(b, a)'
  <2>1. op'[a].kind = "none" /\ op'[a].threads = {}
    BY <1>2 DEF NoOp
  <2> QED
    BY <2>1 DEF Apart, FreshPut
<1> QED
  BY <1>2, <1>3, <1>4, StepOfOne

\* A step that leaves the tables alone.
LEMMA LocalStep ==
  ASSUME TxnInv, NEW a \in Actors, backend = "mysql", backend' = backend,
         executionOf' = executionOf, UNCHANGED store, erased' = {},
         NEW u \in Buffer, NEW o \in Operation,
         tx' = [tx EXCEPT ![a] = u] \/ (tx' = tx /\ u = tx[a]),
         op' = [op EXCEPT ![a] = o] \/ (op' = op /\ o = op[a]),
         registry' \in [Tasks -> Actors \cup {NoActor}],
         ActorConsistent(a)',
         \A b \in Actors \ {a} : Apart(a, b)' /\ Apart(b, a)'
  PROVE  TxnInv'
<1>1. TxnTypes /\ pending' \in SUBSET WriteKeys
  BY DEF TxnInv, TxnTypes, store
<1>2. TxnTypes' /\ \A b \in Actors \ {a} : tx'[b] = tx[b] /\ op'[b] = op[b]
  BY <1>1, StepTypes
<1>3. IInv' /\ \A b \in Actors : Undisturbed(b)
  BY StoreUnchanged
<1> QED
  BY <1>2, <1>3, StepOfOne

-----------------------------------------------------------------------------
(***************************************************************************)
(* The steps of the MySQL saver: one lemma for each                        *)
(***************************************************************************)
MysqlStep == backend = "mysql" /\ UNCHANGED <<executionOf, backend>>

\* The finally clause, with or without an operation that ends with it.
LEMMA LeavingKeepsInv ==
  ASSUME TxnInv, NEW a \in Actors, MysqlStep, LeaveBlock(a),
         op' = [op EXCEPT ![a] = NoOp] \/ (op' = op /\ op[a] = NoOp),
         IInv', pending' \in SUBSET WriteKeys, \A b \in Actors \ {a} : Undisturbed(b)
  PROVE  TxnInv'
<1>1. registry' \in [Tasks -> Actors \cup {NoActor}]
  BY RegistryTypes DEF TxnInv, LeaveBlock
<1>2. erased' = {} /\ tx' = [tx EXCEPT ![a] = NoTx]
  BY DEF TxnInv, LeaveBlock
<1> QED
  BY <1>1, <1>2, BecomesIdle DEF MysqlStep

LEMMA EndFlushKeepsInv ==
  ASSUME TxnInv, NEW a \in Actors, MysqlStep, EndFlush(a), UNCHANGED store
  PROVE  TxnInv'
<1>1. IInv' /\ \A b \in Actors : Undisturbed(b)
  BY StoreUnchanged
<1>2. pending' \in SUBSET WriteKeys
  BY DEF TxnInv, TxnTypes, store
<1> QED
  BY <1>1, <1>2, LeavingKeepsInv DEF EndFlush

\* The operation of a thread that is not in one.
LEMMA IdleOperation ==
  ASSUME TxnInv, NEW a \in Actors, op[a].kind = "none"
  PROVE  op[a] = NoOp
BY DEF TxnInv, ActorConsistent, IdleConsistent

LEMMA BeginKeepsInv ==
  ASSUME TxnInv, NEW a \in Actors, MysqlStep, Begin(a)
  PROVE  TxnInv'
<1> DEFINE u == [NoTx EXCEPT !.phase = "open"]
<1>1. u \in Buffer
  <2>1. u = [phase |-> "open", snapshots |-> NoTx.snapshots,
             checkpoints |-> NoTx.checkpoints, writes |-> NoTx.writes]
    BY DEF NoTx
  <2> QED
    BY <2>1, EmptyRecords DEF Buffer, Phases
<1>2. /\ u.phase = "open"
      /\ \A ns \in Namespaces : ~u.snapshots[ns].loaded
      /\ \A k \in Keys : u.checkpoints[k] = 0
  BY DEF NoTx, NoSnapshot
<1>3. tx' = [tx EXCEPT ![a] = u] /\ op' = op /\ UNCHANGED <<store, erased>>
  BY DEF Begin
<1>4. op[a] = NoOp /\ NoOp.kind = "none"
  BY IdleOperation DEF Begin, Idle, NoOp
<1>5. tx'[a] = u
  BY <1>3 DEF TxnInv, TxnTypes
<1> HIDE DEF u
<1>6. ActorConsistent(a)'
  BY <1>2, <1>3, <1>4, <1>5
  DEF ActorConsistent, BufferConsistent, FlushConsistent, PutConsistent, IdleConsistent
<1>7. \A b \in Actors \ {a} : Apart(a, b)' /\ Apart(b, a)'
  BY <1>3, <1>4 DEF Apart, FreshPut, NoOp
<1>8. registry' \in [Tasks -> Actors \cup {NoActor}]
  BY RegistryTypes DEF TxnInv, Begin
<1> QED
  BY <1>1, <1>3, <1>6, <1>7, <1>8, RecordFields, LocalStep DEF TxnInv, MysqlStep

LEMMA AbortKeepsInv ==
  ASSUME TxnInv, NEW a \in Actors, MysqlStep, Abort(a)
  PROVE  TxnInv'
<1>1. op[a] = NoOp
  BY IdleOperation DEF Abort, Idle
<1>2. IInv' /\ \A b \in Actors : Undisturbed(b)
  BY StoreUnchanged DEF Abort
<1>3. pending' \in SUBSET WriteKeys
  BY DEF TxnInv, TxnTypes, Abort, store
<1> QED
  BY <1>1, <1>2, <1>3, LeavingKeepsInv DEF Abort

LEMMA FailureKeepsInv ==
  ASSUME TxnInv, NEW a \in Actors, MysqlStep, OperationFails(a)
  PROVE  TxnInv'
<1>1. CASE op[a].kind = "flush"
  BY <1>1, EndFlushKeepsInv DEF OperationFails
<1>2. CASE op[a].kind = "put"
  <2>1. tx[a] = NoTx
    BY <1>2 DEF TxnInv, ActorConsistent, PutConsistent, IdleConsistent
  <2>2. IInv' /\ \A b \in Actors : Undisturbed(b)
    BY StoreUnchanged DEF OperationFails
  <2>3. pending' \in SUBSET WriteKeys /\ registry' \in [Tasks -> Actors \cup {NoActor}]
    BY <1>2 DEF TxnInv, TxnTypes, OperationFails, store
  <2>4. op' = [op EXCEPT ![a] = NoOp] /\ tx' = tx /\ erased' = {}
    BY <1>2 DEF OperationFails, TxnInv
  <2> QED
    BY <2>1, <2>2, <2>3, <2>4, BecomesIdle DEF MysqlStep
<1> QED
  BY <1>1, <1>2, RecordFields DEF OperationFails, TxnInv

\* A change of the buffer of a transaction whose block is still running, or has just
\* ended.
LEMMA BufferStep ==
  ASSUME TxnInv, NEW t \in Actors, MysqlStep, tx[t].phase = "open",
         NEW u \in Buffer, u.phase \in {"open", "sealed"},
         tx' = [tx EXCEPT ![t] = u], op' = op, UNCHANGED <<store, registry, erased>>,
         BufferConsistent(t)'
  PROVE  TxnInv'
<1>1. op[t].kind = "none" /\ op[t] = NoOp
  BY IdleOperation DEF TxnInv, ActorConsistent, IdleConsistent
<1>2. tx'[t] = u
  BY DEF TxnInv, TxnTypes
<1>3. ActorConsistent(t)'
  BY <1>1, <1>2 DEF ActorConsistent, FlushConsistent, PutConsistent, IdleConsistent
<1>4. \A b \in Actors \ {t} : Apart(t, b)' /\ Apart(b, t)'
  BY <1>1 DEF Apart, FreshPut, NoOp
<1>5. op[t] \in Operation /\ registry' \in [Tasks -> Actors \cup {NoActor}] /\ erased' = {}
  BY RecordFields DEF TxnInv, TxnTypes
<1> QED
  BY <1>3, <1>4, <1>5, LocalStep DEF MysqlStep

LEMMA SealKeepsInv ==
  ASSUME TxnInv, NEW a \in Actors, MysqlStep, Seal(a)
  PROVE  TxnInv'
<1> DEFINE u == [tx[a] EXCEPT !.phase = "sealed"]
<1>1. /\ u \in Buffer /\ u.phase = "sealed"
      /\ u.snapshots = tx[a].snapshots /\ u.checkpoints = tx[a].checkpoints
  BY RecordFields DEF TxnInv, Buffer, Phases
<1>2. tx' = [tx EXCEPT ![a] = u]
  BY DEF Seal
<1> HIDE DEF u
<1>3. tx'[a] = u
  BY <1>2 DEF TxnInv, TxnTypes
<1>4. BufferConsistent(a)'
  BY <1>1, <1>3 DEF TxnInv, ActorConsistent, BufferConsistent, SnapshotMatches, Seal, store
<1> QED
  BY <1>1, <1>2, <1>4, BufferStep DEF Seal

\* The transaction a call reaches.
LEMMA TransactionIsAnActor ==
  ASSUME TxnTypes, NEW a \in Actors, TransactionFor(a) # NoActor
  PROVE  TransactionFor(a) \in Actors
BY DEF TxnTypes, TransactionFor

\* _load_namespace_snapshot, and the snapshot it has been since.
LEMMA SnapshotIsOrdered ==
  ASSUME TxnInv, NEW t \in Actors, NEW ns \in Namespaces
  PROVE  /\ SnapshotOf(t, ns) \in Snapshot
         /\ SnapshotOf(t, ns).loaded
         /\ SnapshotOrdered(SnapshotOf(t, ns))
         /\ SnapshotMatches(SnapshotOf(t, ns), ns)
<1>1. CASE tx[t].snapshots[ns].loaded
  <2>1. SnapshotOf(t, ns) = tx[t].snapshots[ns]
    BY <1>1 DEF SnapshotOf
  <2>2. tx[t].snapshots[ns] \in Snapshot
    BY RecordFields DEF TxnInv
  <2> QED
    BY <1>1, <2>1, <2>2 DEF TxnInv, ActorConsistent, BufferConsistent
<1>2. CASE ~tx[t].snapshots[ns].loaded
  <2> DEFINE versions == [i \in Ids |-> version[<<ns, i>>]]
             s == Load(ns)
  <2>1. SnapshotOf(t, ns) = s
    BY <1>2 DEF SnapshotOf
  <2>2. /\ current[ns] \in Nat
        /\ \A i \in Ids : <<ns, i>> \in Keys /\ version[<<ns, i>>] \in Nat
    BY DEF TxnInv, IInv, VersionTypes, Keys
  <2>3. versions \in [Ids -> Nat]
    BY <2>2
  <2>4. /\ s.loaded /\ s.base = current[ns] /\ s.current = current[ns]
        /\ s.versions = versions
    BY DEF Load
  <2>5. s = [loaded |-> TRUE, base |-> current[ns], current |-> current[ns],
             versions |-> versions]
    BY DEF Load
  <2> HIDE DEF s
  <2>6. s \in Snapshot
    BY <2>2, <2>3, <2>5 DEF Snapshot
  <2>7. \A i \in Ids : version[<<ns, i>>] <= current[ns]
    BY <2>2 DEF TxnInv, IInv, VersionsOrdered
  <2>8. \A i, j \in Ids : i # j /\ version[<<ns, i>>] = version[<<ns, j>>]
                            => version[<<ns, i>>] = 0
    BY <2>2 DEF TxnInv, IInv, VersionsOrdered
  <2>9. SnapshotOrdered(s)
    BY <2>2, <2>4, <2>7, <2>8 DEF SnapshotOrdered
  <2>10. SnapshotMatches(s, ns)
    <3>1. \A i \in Ids : ~(version[<<ns, i>>] > current[ns])
      BY <2>2, <2>7
    <3> QED
      BY <2>2, <2>4, <3>1 DEF SnapshotMatches
  <2> QED
    BY <2>1, <2>4, <2>6, <2>9, <2>10
<1> QED
  BY <1>1, <1>2

LEMMA SnapshotMoves ==
  ASSUME NEW s \in Snapshot, NEW c \in Nat, NEW v \in [Ids -> Nat]
  PROVE  [s EXCEPT !.current = c, !.versions = v] \in Snapshot
BY DEF Snapshot

\* put gives a checkpoint it does not know the next version, and keeps the one it does.
Numbered(old, i) ==
  IF old.versions[i] = 0
    THEN [old EXCEPT !.current = old.current + 1,
                     !.versions = [old.versions EXCEPT ![i] = old.current + 1]]
    ELSE old

LEMMA PutKeepsSnapshot ==
  ASSUME TxnInv, NEW ns \in Namespaces, NEW i \in Ids, NEW old \in Snapshot, old.loaded,
         SnapshotOrdered(old), SnapshotMatches(old, ns),
         NEW new, new = Numbered(old, i)
  PROVE  /\ new \in Snapshot /\ new.loaded
         /\ SnapshotOrdered(new) /\ SnapshotMatches(new, ns)
         /\ new.versions[i] # 0
         /\ \A j \in Ids : old.versions[j] # 0 => new.versions[j] = old.versions[j]
<1>1. CASE old.versions[i] # 0
  BY <1>1 DEF Numbered
<1>2. CASE old.versions[i] = 0
  <2> DEFINE versions == [old.versions EXCEPT ![i] = old.current + 1]
  <2>1. /\ old.current \in Nat /\ old.base \in Nat /\ old.versions \in [Ids -> Nat]
        /\ old.base <= old.current /\ \A j \in Ids : old.versions[j] <= old.current
        /\ \A j, k \in Ids : j # k /\ old.versions[j] = old.versions[k]
                               => old.versions[j] = 0
    BY DEF Snapshot, SnapshotOrdered
  <2>2. /\ versions \in [Ids -> Nat] /\ versions[i] = old.current + 1
        /\ \A j \in Ids \ {i} : versions[j] = old.versions[j]
    BY <2>1
  <2>3. new = [old EXCEPT !.current = old.current + 1, !.versions = versions]
    BY <1>2 DEF Numbered
  <2> HIDE DEF versions
  <2>4. /\ new.loaded /\ new.base = old.base /\ new.current = old.current + 1
        /\ new.versions = versions
    BY <2>3 DEF Snapshot
  <2>5. new \in Snapshot
    <3>1. old.current + 1 \in Nat
      BY <2>1
    <3>2. [old EXCEPT !.current = old.current + 1, !.versions = versions] \in Snapshot
      BY <2>2, <3>1, SnapshotMoves
    <3> QED
      BY <2>3, <3>2, Zenon
  <2>6. SnapshotOrdered(new)
    <3>1. new.base <= new.current
      BY <2>1, <2>4
    <3>2. \A j \in Ids : new.versions[j] <= new.current
      BY <2>1, <2>2, <2>4
    <3>3. \A j, k \in Ids : j # k /\ new.versions[j] = new.versions[k]
                              => new.versions[j] = 0
      BY <2>1, <2>2, <2>4
    <3> QED
      BY <3>1, <3>2, <3>3 DEF SnapshotOrdered
  <2>7. SnapshotMatches(new, ns)
    <3>1. new.base <= current[ns]
      BY <2>4 DEF SnapshotMatches
    <3>2. ASSUME new.base = current[ns], NEW j \in Ids
          PROVE  version[<<ns, j>>] =
                   IF new.versions[j] > new.base THEN 0 ELSE new.versions[j]
      <4>1. version[<<ns, j>>] =
              IF old.versions[j] > old.base THEN 0 ELSE old.versions[j]
        BY <2>4, <3>2 DEF SnapshotMatches
      <4>2. CASE j # i
        BY <2>2, <2>4, <4>1, <4>2
      <4>3. CASE j = i
        BY <1>2, <2>1, <2>2, <2>4, <4>1, <4>3
      <4> QED
        BY <4>2, <4>3
    <3> QED
      BY <3>1, <3>2 DEF SnapshotMatches
  <2>8. new.versions[i] # 0
    BY <2>1, <2>2, <2>4
  <2>9. \A j \in Ids : old.versions[j] # 0 => new.versions[j] = old.versions[j]
    BY <1>2, <2>2, <2>4
  <2> QED
    BY <2>4, <2>5, <2>6, <2>7, <2>8, <2>9
<1> QED
  BY <1>1, <1>2

LEMMA BufferMoves ==
  ASSUME NEW b \in Buffer, NEW s \in [Namespaces -> Snapshot], NEW c \in [Keys -> Nat],
         NEW w \in SUBSET WriteKeys
  PROVE  /\ [b EXCEPT !.snapshots = s, !.checkpoints = c] \in Buffer
         /\ [b EXCEPT !.writes = w] \in Buffer
BY DEF Buffer

LEMMA PutBufferedKeepsInv ==
  ASSUME TxnInv, NEW a \in Actors, NEW k \in Keys, MysqlStep, PutBuffered(a, k)
  PROVE  TxnInv'
<1>0. PICK t \in Actors : t = TransactionFor(a)
  BY TransactionIsAnActor DEF TxnInv, PutBuffered
<1> DEFINE ns   == k[1]
           old  == SnapshotOf(t, ns)
           new  == Numbered(old, k[2])
           room == Cardinality(BufferedKeys(t) \cup {k}) <= MaxCheckpoints
           snapshots   == [tx[t].snapshots EXCEPT ![ns] = new]
           checkpoints == IF room
                            THEN [tx[t].checkpoints EXCEPT ![k] = new.versions[k[2]]]
                            ELSE tx[t].checkpoints
           u == [tx[t] EXCEPT !.snapshots = snapshots, !.checkpoints = checkpoints]
<1>1. /\ tx[t].phase = "open"
      /\ tx' = [tx EXCEPT ![t] = u]
      /\ UNCHANGED <<store, op, registry, erased>>
  BY <1>0 DEF PutBuffered, Numbered
<1>2. ns \in Namespaces /\ k[2] \in Ids /\ k = <<ns, k[2]>>
  BY DEF Keys
<1> HIDE DEF room
<1>3. /\ old \in Snapshot /\ old.loaded
      /\ SnapshotOrdered(old) /\ SnapshotMatches(old, ns)
  BY <1>2, SnapshotIsOrdered
<1> HIDE DEF old
<1>4. /\ new \in Snapshot /\ new.loaded
      /\ SnapshotOrdered(new) /\ SnapshotMatches(new, ns)
      /\ new.versions[k[2]] # 0
      /\ \A j \in Ids : old.versions[j] # 0 => new.versions[j] = old.versions[j]
  BY <1>2, <1>3, PutKeepsSnapshot
<1>5. tx[t].snapshots[ns].loaded => old = tx[t].snapshots[ns]
  BY DEF SnapshotOf, old
<1> HIDE DEF new
<1>6. /\ tx[t] \in Buffer /\ tx[t].phase = "open"
      /\ tx[t].snapshots \in [Namespaces -> Snapshot]
      /\ tx[t].checkpoints \in [Keys -> Nat]
  BY <1>1, <1>2, RecordFields DEF TxnInv
<1>7. new.versions[k[2]] \in Nat
  BY <1>2, <1>4 DEF Snapshot
<1>8. /\ snapshots \in [Namespaces -> Snapshot] /\ snapshots[ns] = new
      /\ \A m \in Namespaces \ {ns} : snapshots[m] = tx[t].snapshots[m]
  BY <1>2, <1>4, <1>6
<1>9. /\ checkpoints \in [Keys -> Nat]
      /\ checkpoints[k] \in {tx[t].checkpoints[k], new.versions[k[2]]}
      /\ \A j \in Keys \ {k} : checkpoints[j] = tx[t].checkpoints[j]
  BY <1>2, <1>6, <1>7
<1> HIDE DEF snapshots, checkpoints
<1>10. /\ u \in Buffer /\ u.phase = "open"
       /\ u.snapshots = snapshots /\ u.checkpoints = checkpoints
  <2>1. u \in Buffer
    BY <1>6, <1>8, <1>9, BufferMoves DEF Buffer
  <2>2. u.phase = "open" /\ u.snapshots = snapshots /\ u.checkpoints = checkpoints
    BY <1>6 DEF Buffer
  <2> QED
    BY <2>1, <2>2
<1> HIDE DEF u
<1>11. tx'[t] = u
  BY <1>1, <1>2 DEF TxnInv, TxnTypes
<1>12. BufferConsistent(t)
  BY <1>2 DEF TxnInv, ActorConsistent
<1>13. ASSUME NEW m \in Namespaces, snapshots[m].loaded
       PROVE  SnapshotOrdered(snapshots[m]) /\ SnapshotMatches(snapshots[m], m)
  <2>1. CASE m = ns
    BY <1>4, <1>8, <2>1
  <2>2. CASE m # ns
    BY <1>8, <1>12, <1>13, <2>2 DEF BufferConsistent
  <2> QED
    BY <2>1, <2>2
<1>14. ASSUME NEW j \in Keys, checkpoints[j] # 0
       PROVE  /\ snapshots[j[1]].loaded
              /\ checkpoints[j] = snapshots[j[1]].versions[j[2]]
  <2>1. j[1] \in Namespaces /\ j[2] \in Ids /\ j = <<j[1], j[2]>>
    BY DEF Keys
  <2>2. CASE j = k /\ checkpoints[k] = new.versions[k[2]]
    BY <1>4, <1>8, <2>2
  <2>3. CASE checkpoints[j] = tx[t].checkpoints[j]
    <3>1. /\ tx[t].snapshots[j[1]].loaded
          /\ tx[t].checkpoints[j] = tx[t].snapshots[j[1]].versions[j[2]]
      BY <1>12, <1>14, <2>3 DEF BufferConsistent
    <3>2. CASE j[1] # ns
      BY <1>8, <2>1, <2>3, <3>1, <3>2
    <3>3. CASE j[1] = ns
      <4>1. old = tx[t].snapshots[ns] /\ old.versions[j[2]] # 0
        BY <1>5, <1>14, <2>3, <3>1, <3>3
      <4>2. new.versions[j[2]] = old.versions[j[2]]
        BY <1>4, <2>1, <4>1
      <4> QED
        BY <1>4, <1>8, <2>3, <3>1, <3>3, <4>1, <4>2
    <3> QED
      BY <3>2, <3>3
  <2> QED
    BY <1>9, <2>2, <2>3
<1>15. BufferConsistent(t)'
  <2>1. current' = current /\ version' = version
    BY <1>1 DEF store
  <2> QED
    BY <1>10, <1>11, <1>13, <1>14, <2>1 DEF BufferConsistent, SnapshotMatches
<1> QED
  BY <1>1, <1>10, <1>15, BufferStep

LEMMA PutWritesBufferedKeepsInv ==
  ASSUME TxnInv, NEW a \in Actors, NEW w \in WriteTargets, MysqlStep,
         PutWritesBuffered(a, w[1], w[2])
  PROVE  TxnInv'
<1>0. PICK t \in Actors : t = TransactionFor(a)
  BY TransactionIsAnActor DEF TxnInv, PutWritesBuffered
<1> DEFINE writes == tx[t].writes \cup {<<w[1], w[2], executionOf[a]>>}
           u      == [tx[t] EXCEPT !.writes = writes]
<1>1. /\ tx[t].phase = "open"
      /\ tx' = [tx EXCEPT ![t] = u]
      /\ UNCHANGED <<store, op, registry, erased>>
  BY <1>0 DEF PutWritesBuffered
<1>2. /\ tx[t] \in Buffer /\ tx[t].writes \in SUBSET WriteKeys
      /\ BufferConsistent(t)
  BY RecordFields DEF TxnInv, ActorConsistent
<1>3. writes \in SUBSET WriteKeys
  <2>1. <<w[1], w[2], executionOf[a]>> \in WriteKeys
    BY TxnAssumption DEF TxnInv, TxnTypes, WriteKeys
  <2> QED
    BY <1>2, <2>1
<1> HIDE DEF writes
<1>4. /\ u \in Buffer /\ u.phase = "open"
      /\ u.snapshots = tx[t].snapshots /\ u.checkpoints = tx[t].checkpoints
  BY <1>1, <1>2, <1>3 DEF Buffer
<1> HIDE DEF u
<1>5. tx'[t] = u
  BY <1>1 DEF TxnInv, TxnTypes
<1>6. BufferConsistent(t)'
  BY <1>1, <1>2, <1>4, <1>5 DEF BufferConsistent, SnapshotMatches, store
<1> QED
  BY <1>1, <1>4, <1>6, BufferStep

-----------------------------------------------------------------------------
\* A namespace that is left to lock means there is a first one.
LEMMA LeastMember ==
  ASSUME NEW S \in SUBSET Nat, S # {}
  PROVE  \E n \in S : \A m \in S : n <= m
<1> DEFINE R == OpToRel(<, Nat)
<1>1. IsWellFoundedOn(R, Nat)
  BY NatLessThanWellFounded
<1>2. \A m, n \in Nat : m < n => <<m, n>> \in R
  BY DEF OpToRel
<1> HIDE DEF R
<1>3. PICK n \in S : \A m \in S : ~(<<m, n>> \in R)
  BY <1>1, WFMin
<1>4. \A m \in S : ~(m < n)
  BY <1>2, <1>3
<1> QED
  BY <1>4

LEMMA NextIsToLock ==
  ASSUME NEW a \in Actors, ToLock(a) # {}
  PROVE  NextToLock(a) \in ToLock(a)
<1>1. ToLock(a) \in SUBSET Nat
  BY StoreAssumption DEF ToLock
<1>2. \E ns \in ToLock(a) : \A m \in ToLock(a) : ns <= m
  BY <1>1, LeastMember
<1> QED
  BY <1>2 DEF NextToLock

\* The operations a step can leave behind.
LEMMA OperationMoves ==
  ASSUME NEW o \in Operation, NEW s \in Stages
  PROVE  /\ [o EXCEPT !.stage = s] \in Operation
         /\ \A ths \in SUBSET Namespaces :
              [o EXCEPT !.threads = ths, !.stage = s] \in Operation
         /\ \A rs \in SUBSET Keys : [o EXCEPT !.stage = s, !.rows = rs] \in Operation
         /\ \A rs \in SUBSET Keys, gs \in SUBSET Namespaces :
              [o EXCEPT !.stage = s, !.rows = rs, !.gaps = gs] \in Operation
         /\ \A ths \in SUBSET Namespaces, v \in Nat :
              [o EXCEPT !.stage = s, !.threads = ths, !.version = v] \in Operation
         /\ [o EXCEPT !.kind = "flush", !.stage = s] \in Operation
         /\ \A k \in Keys, gs \in SUBSET Namespaces :
              [o EXCEPT !.kind = "put", !.stage = s, !.key = k, !.gaps = gs] \in Operation
         /\ \A k \in Keys, v \in Nat, rs \in SUBSET Keys :
              [o EXCEPT !.kind = "put", !.stage = s, !.key = k, !.version = v, !.rows = rs]
                \in Operation
BY DEF Operation

\* A step of one thread's database transaction.
LEMMA OperationStep ==
  ASSUME TxnInv, NEW a \in Actors, MysqlStep, NEW o \in Operation,
         op' = [op EXCEPT ![a] = o], tx' = tx, UNCHANGED <<store, registry, erased>>,
         FlushConsistent(a)', PutConsistent(a)', IdleConsistent(a)',
         \A b \in Actors \ {a} : Apart(a, b)' /\ Apart(b, a)'
  PROVE  TxnInv'
<1>1. tx[a] \in Buffer /\ BufferConsistent(a)
  BY RecordFields DEF TxnInv, ActorConsistent
<1>2. BufferConsistent(a)'
  BY <1>1 DEF BufferConsistent, SnapshotMatches, store
<1>3. ActorConsistent(a)'
  BY <1>2 DEF ActorConsistent
<1>4. registry' \in [Tasks -> Actors \cup {NoActor}] /\ erased' = {}
  BY DEF TxnInv, TxnTypes
<1> QED
  BY <1>1, <1>3, <1>4, LocalStep DEF MysqlStep

LEMMA FlushBeginKeepsInv ==
  ASSUME TxnInv, NEW a \in Actors, MysqlStep, FlushBegin(a)
  PROVE  TxnInv'
<1> DEFINE s == IF ToLock(a) = {} THEN "refs" ELSE "lock"
           u == [tx[a] EXCEPT !.phase = "committing"]
           o == [NoOp EXCEPT !.kind = "flush", !.stage = s]
<1>1. /\ tx' = [tx EXCEPT ![a] = u] /\ op' = [op EXCEPT ![a] = o]
      /\ UNCHANGED <<store, registry, erased>>
  BY DEF FlushBegin
<1>2. tx[a] \in Buffer /\ tx[a].phase = "sealed" /\ op[a] = NoOp /\ BufferConsistent(a)
  BY RecordFields DEF TxnInv, ActorConsistent, IdleConsistent, FlushBegin
<1>3. /\ u \in Buffer /\ u.phase = "committing"
      /\ u.snapshots = tx[a].snapshots /\ u.checkpoints = tx[a].checkpoints
  BY <1>2 DEF Buffer, Phases
<1>4. s \in Stages /\ s \in {"lock", "refs"}
  BY DEF Stages
<1>5. s = "refs" => \A ns \in Namespaces : ~tx[a].snapshots[ns].loaded
  <2>1. ToLock(a) = {} => \A ns \in Namespaces : ~tx[a].snapshots[ns].loaded
    BY <1>2 DEF ToLock, NoOp
  <2> QED
    BY <2>1
<1> HIDE DEF s, u
<1>6. o \in Operation
  BY <1>4, EmptyRecords, OperationMoves
<1>7. o.kind = "flush" /\ o.stage = s /\ o.threads = {}
  BY DEF NoOp
<1> HIDE DEF o
<1>8. tx'[a] = u /\ op'[a] = o /\ \A b \in Actors \ {a} : op'[b] = op[b] /\ tx'[b] = tx[b]
  BY <1>1 DEF TxnInv, TxnTypes
<1>9. BufferConsistent(a)'
  BY <1>1, <1>2, <1>3, <1>8 DEF BufferConsistent, SnapshotMatches, store
<1>10. FlushConsistent(a)'
  <2>1. o.stage = "lock" => ToLock(a)' # {}
    <3>1. s = "lock" => ToLock(a) # {}
      BY DEF s
    <3>2. ToLock(a)' = ToLock(a)
      BY <1>2, <1>3, <1>7, <1>8 DEF ToLock, NoOp
    <3> QED
      BY <1>7, <3>1, <3>2
  <2> QED
    BY <1>3, <1>4, <1>5, <1>7, <1>8, <2>1 DEF FlushConsistent
<1>11. PutConsistent(a)' /\ IdleConsistent(a)'
  BY <1>3, <1>7, <1>8 DEF PutConsistent, IdleConsistent
<1>12. \A b \in Actors \ {a} : Apart(a, b)' /\ Apart(b, a)'
  BY <1>4, <1>7, <1>8 DEF Apart, FreshPut
<1>13. registry' \in [Tasks -> Actors \cup {NoActor}] /\ erased' = {}
  BY <1>1 DEF TxnInv, TxnTypes
<1>14. ActorConsistent(a)'
  BY <1>9, <1>10, <1>11 DEF ActorConsistent
<1> QED
  BY <1>1, <1>3, <1>6, <1>12, <1>13, <1>14, LocalStep DEF MysqlStep

\* What a thread in some stage is doing.
LEMMA StageKinds ==
  ASSUME TxnInv, NEW a \in Actors
  PROVE  /\ op[a].stage \in {"lock", "refs", "commit"} => op[a].kind = "flush"
         /\ op[a].stage = "bump" => op[a].kind = "put"
         /\ op[a].kind = "flush" => tx[a].phase = "committing"
<1>1. op[a].kind \in {"none", "flush", "put"} /\ ActorConsistent(a)
  BY RecordFields DEF TxnInv
<1>2. op[a].kind = "none" => op[a].stage = "none"
  BY <1>1 DEF ActorConsistent, IdleConsistent, NoOp
<1>3. op[a].kind = "flush" => op[a].stage \in {"lock", "refs", "insert", "commit"}
  BY <1>1 DEF ActorConsistent, FlushConsistent
<1>4. op[a].kind = "put" => op[a].stage \in {"bump", "insert"}
  BY <1>1 DEF ActorConsistent, PutConsistent
<1>5. op[a].kind = "flush" => tx[a].phase = "committing"
  BY <1>1 DEF ActorConsistent, FlushConsistent
<1> QED
  BY <1>1, <1>2, <1>3, <1>4, <1>5

\* What a statement that runs was not kept waiting by.
LEMMA NobodyWaitedFor ==
  ASSUME NEW a \in Actors, WaitsFor(a) = {}
  PROVE  /\ op[a].stage = "lock" => ThreadHolders(a, NextToLock(a)) = {}
         /\ op[a].stage = "bump" => ThreadHolders(a, op[a].key[1]) = {}
         /\ op[a].stage = "insert" =>
              \A k \in Inserts(a) : version[k] = 0 => GapHolders(a, k[1]) = {}
<1>1. op[a].stage = "lock" => WaitsFor(a) = ThreadHolders(a, NextToLock(a))
  BY DEF WaitsFor
<1>2. op[a].stage = "bump" => WaitsFor(a) = ThreadHolders(a, op[a].key[1])
  BY DEF WaitsFor
<1>3. op[a].stage = "insert" =>
        WaitsFor(a) = UNION {RowHolders(a, k) \cup
                               (IF version[k] = 0 THEN GapHolders(a, k[1]) ELSE {})
                               : k \in Inserts(a)}
  BY DEF WaitsFor
<1> QED
  BY <1>1, <1>2, <1>3

LEMMA FlushLockKeepsInv ==
  ASSUME TxnInv, NEW a \in Actors, MysqlStep, FlushLock(a)
  PROVE  TxnInv'
<1> DEFINE ns == NextToLock(a)
           s  == IF ToLock(a) = {ns} THEN "refs" ELSE "lock"
           th == op[a].threads \cup {ns}
           o  == [op[a] EXCEPT !.threads = th, !.stage = s]
<1>1. CASE RowVersion(a, ns) # tx[a].snapshots[ns].base
  <2>1. EndFlush(a) /\ UNCHANGED store
    BY <1>1 DEF FlushLock
  <2> QED
    BY <2>1, EndFlushKeepsInv
<1>2. CASE RowVersion(a, ns) = tx[a].snapshots[ns].base
  <2>1. /\ op' = [op EXCEPT ![a] = o] /\ tx' = tx
        /\ UNCHANGED <<store, registry, erased>>
    BY <1>2 DEF FlushLock
  <2>2. op[a].stage = "lock" /\ WaitsFor(a) = {}
    BY DEF FlushLock, Runs
  <2>3. /\ op[a].kind = "flush" /\ tx[a].phase = "committing"
        /\ op[a] \in Operation /\ op[a].threads \subseteq Namespaces
        /\ tx[a].snapshots \in [Namespaces -> Snapshot]
    BY <2>2, StageKinds, RecordFields DEF TxnInv
  <2>4. BufferConsistent(a) /\ FlushConsistent(a)
    BY DEF TxnInv, ActorConsistent
  <2>5. ThreadHolders(a, ns) = {}
    BY <2>2, NobodyWaitedFor
  <2>6. ns \in ToLock(a) /\ ns \in Namespaces /\ tx[a].snapshots[ns].loaded
    BY <2>2, <2>3, <2>4, NextIsToLock DEF FlushConsistent, ToLock
  <2>7. tx[a].snapshots[ns].base = current[ns]
    <3>1. tx[a].snapshots[ns].base \in Nat /\ current[ns] \in Nat
      BY <2>3, <2>6 DEF Snapshot, TxnInv, IInv, VersionTypes
    <3>2. tx[a].snapshots[ns].base <= current[ns]
      BY <2>4, <2>6 DEF BufferConsistent, SnapshotMatches
    <3> QED
      BY <1>2, <3>1, <3>2 DEF RowVersion
  <2>8. s \in {"refs", "lock"} /\ (s = "lock" <=> ToLock(a) # {ns})
    OBVIOUS
  <2>9. s \in Stages /\ th \in SUBSET Namespaces
    BY <2>3, <2>6 DEF Stages
  <2> HIDE DEF ns, s
  <2>10. o \in Operation
    BY <2>3, <2>9, OperationMoves
  <2>11. o.kind = "flush" /\ o.stage = s /\ o.threads = th /\ o.key = op[a].key
    BY <2>3 DEF Operation
  <2> HIDE DEF o
  <2>12. op'[a] = o /\ \A b \in Actors \ {a} : op'[b] = op[b]
    BY <2>1 DEF TxnInv, TxnTypes
  <2>13. FlushConsistent(a)'
    <3>1. ToLock(a)' = ToLock(a) \ {ns}
      BY <2>1, <2>11, <2>12 DEF ToLock
    <3>2. o.stage = "lock" => ToLock(a)' # {}
      BY <2>6, <2>8, <2>11, <3>1
    <3>3. ASSUME NEW m \in Namespaces, tx[a].snapshots[m].loaded,
                 o.stage # "lock" \/ m \in th
          PROVE  m \in th /\ tx[a].snapshots[m].base = current[m]
      <4>1. m \in th
        BY <2>6, <2>8, <2>11, <3>3 DEF ToLock
      <4>2. CASE m = ns
        BY <2>7, <4>1, <4>2
      <4>3. CASE m \in op[a].threads
        BY <2>3, <2>4, <3>3, <4>1, <4>3 DEF FlushConsistent
      <4> QED
        BY <4>1, <4>2, <4>3
    <3> QED
      BY <2>1, <2>3, <2>8, <2>11, <2>12, <3>2, <3>3 DEF FlushConsistent, store
  <2>14. PutConsistent(a)' /\ IdleConsistent(a)'
    BY <2>1, <2>3, <2>11, <2>12 DEF PutConsistent, IdleConsistent
  <2>15. \A b \in Actors \ {a} : Apart(a, b)' /\ Apart(b, a)'
    <3> SUFFICES ASSUME NEW b \in Actors \ {a} PROVE Apart(a, b)' /\ Apart(b, a)'
      OBVIOUS
    <3>1. op[a].threads \cap op[b].threads = {} /\ ns \notin op[b].threads
      BY <2>5 DEF TxnInv, Apart, ThreadHolders
    <3> QED
      BY <2>8, <2>11, <2>12, <3>1 DEF Apart, FreshPut
  <2> QED
    BY <2>1, <2>10, <2>13, <2>14, <2>15, OperationStep
<1> QED
  BY <1>1, <1>2

LEMMA FlushRefsKeepsInv ==
  ASSUME TxnInv, NEW a \in Actors, MysqlStep, FlushRefs(a)
  PROVE  TxnInv'
<1> DEFINE rows == op[a].rows \cup ExternalKeys(a)
           gaps == UnbackedGaps(a)
           o    == [op[a] EXCEPT !.stage = "insert", !.rows = rows, !.gaps = gaps]
<1>1. CASE EndFlush(a) /\ UNCHANGED store
  BY <1>1, EndFlushKeepsInv
<1>2. CASE /\ op' = [op EXCEPT ![a] = o] /\ tx' = tx
           /\ UNCHANGED <<store, registry, erased>>
  <2>1. op[a].stage = "refs"
    BY DEF FlushRefs, Runs
  <2>2. /\ op[a].kind = "flush" /\ tx[a].phase = "committing"
        /\ op[a] \in Operation /\ op[a].rows \subseteq Keys
        /\ tx[a].writes \subseteq WriteKeys
    BY <2>1, StageKinds, RecordFields DEF TxnInv
  <2>3. rows \in SUBSET Keys /\ gaps \in SUBSET Namespaces
    BY <2>2 DEF ExternalKeys, UnbackedGaps, WriteKeys
  <2> HIDE DEF rows, gaps
  <2>4. o \in Operation
    BY <2>2, <2>3, OperationMoves DEF Stages
  <2>5. /\ o.kind = "flush" /\ o.stage = "insert"
        /\ o.threads = op[a].threads /\ o.key = op[a].key
    BY <2>2 DEF Operation
  <2> HIDE DEF o
  <2>6. op'[a] = o /\ \A b \in Actors \ {a} : op'[b] = op[b]
    BY <1>2 DEF TxnInv, TxnTypes
  <2>7. FlushConsistent(a)'
    <3>1. FlushConsistent(a)
      BY DEF TxnInv, ActorConsistent
    <3> QED
      BY <1>2, <2>1, <2>2, <2>5, <2>6, <3>1 DEF FlushConsistent, store
  <2>8. PutConsistent(a)' /\ IdleConsistent(a)'
    BY <1>2, <2>2, <2>5, <2>6 DEF PutConsistent, IdleConsistent
  <2>9. \A b \in Actors \ {a} : Apart(a, b)' /\ Apart(b, a)'
    <3> SUFFICES ASSUME NEW b \in Actors \ {a} PROVE Apart(a, b)' /\ Apart(b, a)'
      OBVIOUS
    <3>1. op[a].threads \cap op[b].threads = {}
      BY DEF TxnInv, Apart
    <3> QED
      BY <2>5, <2>6, <3>1 DEF Apart, FreshPut
  <2> QED
    BY <1>2, <2>4, <2>7, <2>8, <2>9, OperationStep
<1> QED
  BY <1>1, <1>2 DEF FlushRefs

LEMMA FlushInsertKeepsInv ==
  ASSUME TxnInv, NEW a \in Actors, MysqlStep, FlushInsert(a)
  PROVE  TxnInv'
<1> DEFINE rows == op[a].rows \cup Inserts(a)
           o    == [op[a] EXCEPT !.stage = "commit", !.rows = rows]
<1>1. /\ op' = [op EXCEPT ![a] = o] /\ tx' = tx
      /\ UNCHANGED <<store, registry, erased>>
  BY DEF FlushInsert
<1>2. /\ op[a].kind = "flush" /\ op[a].stage = "insert" /\ WaitsFor(a) = {}
      /\ tx[a].phase = "committing"
      /\ op[a] \in Operation /\ op[a].rows \subseteq Keys
      /\ FlushConsistent(a)
  BY StageKinds, RecordFields DEF TxnInv, ActorConsistent, FlushInsert, Runs
<1>3. Inserts(a) = {k \in Keys : tx[a].checkpoints[k] # 0}
  BY <1>2 DEF Inserts
<1>4. rows \in SUBSET Keys /\ Inserts(a) \subseteq rows
  BY <1>2, <1>3
<1> HIDE DEF rows
<1>5. o \in Operation
  BY <1>2, <1>4, OperationMoves DEF Stages
<1>6. /\ o.kind = "flush" /\ o.stage = "commit"
      /\ o.threads = op[a].threads /\ o.key = op[a].key /\ o.rows = rows
  BY <1>2 DEF Operation
<1> HIDE DEF o
<1>7. op'[a] = o /\ \A b \in Actors \ {a} : op'[b] = op[b]
  BY <1>1 DEF TxnInv, TxnTypes
<1>8. Inserts(a)' = Inserts(a)
  BY <1>1, <1>3, <1>6, <1>7 DEF Inserts
<1>9. FlushConsistent(a)'
  BY <1>1, <1>2, <1>4, <1>6, <1>7, <1>8 DEF FlushConsistent, store
<1>10. PutConsistent(a)' /\ IdleConsistent(a)'
  BY <1>1, <1>2, <1>6, <1>7 DEF PutConsistent, IdleConsistent
<1>11. \A b \in Actors \ {a} : Apart(a, b)' /\ Apart(b, a)'
  <2> SUFFICES ASSUME NEW b \in Actors \ {a} PROVE Apart(a, b)' /\ Apart(b, a)'
    OBVIOUS
  <2>1. op[a].threads \cap op[b].threads = {}
    BY DEF TxnInv, Apart
  <2>2. FreshPut(b) => op[b].key \notin Inserts(a)
    <3> SUFFICES ASSUME FreshPut(b), op[b].key \in Inserts(a) PROVE FALSE
      OBVIOUS
    <3>1. version[op[b].key] = 0 /\ op[b].gaps = {op[b].key[1]}
      BY DEF TxnInv, ActorConsistent, PutConsistent, FreshPut
    <3>2. GapHolders(a, op[b].key[1]) = {}
      BY <1>2, <3>1, NobodyWaitedFor
    <3> QED
      BY <3>1, <3>2 DEF GapHolders
  <2> QED
    BY <1>6, <1>7, <1>8, <2>1, <2>2 DEF Apart, FreshPut
<1> QED
  BY <1>1, <1>5, <1>9, <1>10, <1>11, OperationStep

LEMMA PutSelectKeepsInv ==
  ASSUME TxnInv, NEW a \in Actors, NEW k \in Keys, MysqlStep, PutSelect(a, k)
  PROVE  TxnInv'
<1> DEFINE found   == [NoOp EXCEPT !.kind = "put", !.stage = "insert", !.key = k,
                                   !.version = version[k], !.rows = {k}]
           missing == [NoOp EXCEPT !.kind = "put", !.stage = "bump", !.key = k,
                                   !.gaps = {k[1]}]
           o       == IF version[k] # 0 THEN found ELSE missing
<1>1. /\ op' = [op EXCEPT ![a] = o] /\ tx' = tx
      /\ UNCHANGED <<store, registry, erased>>
      /\ op[a].kind = "none" /\ TransactionFor(a) = NoActor /\ RowHolders(a, k) = {}
  BY DEF PutSelect, Call, Idle
<1>2. tx[a].phase = "none" /\ op[a] = NoOp
  BY <1>1, IdleOperation, TxnAssumption DEF TransactionFor, InBlock
<1>3. k[1] \in Namespaces /\ version[k] \in Nat
  BY KeyNamespace DEF TxnInv, IInv, VersionTypes
<1>4. found \in Operation /\ missing \in Operation
  <2>1. /\ {k} \in SUBSET Keys /\ {k[1]} \in SUBSET Namespaces
        /\ "insert" \in Stages /\ "bump" \in Stages
    BY <1>3 DEF Stages
  <2> QED
    BY <1>3, <2>1, EmptyRecords, OperationMoves
<1>5. /\ found.kind = "put" /\ found.stage = "insert" /\ found.key = k
      /\ found.version = version[k] /\ found.rows = {k} /\ found.threads = {}
  BY DEF NoOp
<1>6. /\ missing.kind = "put" /\ missing.stage = "bump" /\ missing.key = k
      /\ missing.rows = {} /\ missing.gaps = {k[1]} /\ missing.threads = {}
  BY DEF NoOp
<1> HIDE DEF found, missing
<1>7. /\ o \in Operation /\ o.kind = "put" /\ o.key = k /\ o.threads = {}
      /\ o.rows = {} => o = missing /\ version[k] = 0
      /\ o.rows # {} => o = found /\ version[k] # 0
      /\ o.stage \in {"bump", "insert"}
  BY <1>4, <1>5, <1>6
<1> HIDE DEF o
<1>8. op'[a] = o /\ \A b \in Actors \ {a} : op'[b] = op[b]
  BY <1>1 DEF TxnInv, TxnTypes
<1>9. PutConsistent(a)'
  BY <1>1, <1>2, <1>5, <1>6, <1>7, <1>8 DEF PutConsistent, store
<1>10. FlushConsistent(a)' /\ IdleConsistent(a)'
  <2>1. tx[a].phase = "none" => tx[a] = NoTx
    BY DEF TxnInv, ActorConsistent, IdleConsistent
  <2> QED
    BY <1>1, <1>2, <1>7, <1>8, <2>1 DEF FlushConsistent, IdleConsistent, NoTx, NoSnapshot
<1>11. \A b \in Actors \ {a} : Apart(a, b)' /\ Apart(b, a)'
  <2> SUFFICES ASSUME NEW b \in Actors \ {a} PROVE Apart(a, b)' /\ Apart(b, a)'
    OBVIOUS
  <2>1. op[b].kind = "flush" /\ op[b].stage = "commit" => k \notin Inserts(b)
    <3>1. op[b].kind = "flush" /\ op[b].stage = "commit" => Inserts(b) \subseteq op[b].rows
      BY DEF TxnInv, ActorConsistent, FlushConsistent
    <3> QED
      BY <1>1, <3>1 DEF RowHolders
  <2>2. Inserts(b)' = Inserts(b)
    BY <1>1, <1>8 DEF Inserts
  <2> QED
    BY <1>7, <1>8, <2>1, <2>2 DEF Apart, FreshPut
<1> QED
  BY <1>1, <1>7, <1>9, <1>10, <1>11, OperationStep

LEMMA PutBumpKeepsInv ==
  ASSUME TxnInv, NEW a \in Actors, MysqlStep, PutBump(a)
  PROVE  TxnInv'
<1> DEFINE ns == op[a].key[1]
           v  == current[ns] + 1
           o  == [op[a] EXCEPT !.stage = "insert", !.threads = {ns}, !.version = v]
<1>1. /\ op' = [op EXCEPT ![a] = o] /\ tx' = tx
      /\ UNCHANGED <<store, registry, erased>>
      /\ op[a].kind = "put" /\ op[a].stage = "bump" /\ WaitsFor(a) = {}
  BY DEF PutBump, Runs
<1>2. PutConsistent(a) /\ op[a] \in Operation
  BY RecordFields DEF TxnInv, ActorConsistent
<1>3. /\ op[a].key \in Keys /\ op[a].rows = {} /\ op[a].gaps = {ns}
      /\ version[op[a].key] = 0 /\ tx[a].phase = "none"
  BY <1>1, <1>2 DEF PutConsistent
<1>4. ns \in Namespaces /\ current[ns] \in Nat
  BY <1>3, KeyNamespace DEF TxnInv, IInv, VersionTypes
<1>5. o \in Operation
  <2>1. v \in Nat /\ {ns} \in SUBSET Namespaces /\ "insert" \in Stages
    BY <1>4 DEF Stages
  <2> HIDE DEF ns, v
  <2> QED
    BY <1>2, <2>1, OperationMoves
<1>6. /\ o.kind = "put" /\ o.stage = "insert" /\ o.key = op[a].key /\ o.version = v
      /\ o.rows = {} /\ o.gaps = {ns} /\ o.threads = {ns}
  BY <1>1, <1>2, <1>3 DEF Operation
<1> HIDE DEF o
<1>7. op'[a] = o /\ \A b \in Actors \ {a} : op'[b] = op[b]
  BY <1>1 DEF TxnInv, TxnTypes
<1>8. PutConsistent(a)'
  BY <1>1, <1>3, <1>6, <1>7 DEF PutConsistent, store
<1>9. FlushConsistent(a)' /\ IdleConsistent(a)'
  <2>1. tx[a].phase = "none" => tx[a] = NoTx
    BY DEF TxnInv, ActorConsistent, IdleConsistent
  <2> QED
    BY <1>1, <1>3, <1>6, <1>7, <2>1 DEF FlushConsistent, IdleConsistent, NoTx, NoSnapshot
<1>10. \A b \in Actors \ {a} : Apart(a, b)' /\ Apart(b, a)'
  <2> SUFFICES ASSUME NEW b \in Actors \ {a} PROVE Apart(a, b)' /\ Apart(b, a)'
    OBVIOUS
  <2>1. ns \notin op[b].threads
    BY <1>1, NobodyWaitedFor DEF ThreadHolders
  <2>2. FreshPut(a) /\ Apart(b, a)
    BY <1>1, <1>3 DEF FreshPut, TxnInv
  <2>3. Inserts(b)' = Inserts(b)
    BY <1>1, <1>7 DEF Inserts
  <2> QED
    BY <1>6, <1>7, <2>1, <2>2, <2>3 DEF Apart, FreshPut
<1> QED
  BY <1>1, <1>5, <1>8, <1>9, <1>10, OperationStep

-----------------------------------------------------------------------------
\* What a flush that has inserted its rows knows of the store: its namespaces have not
\* moved, a checkpoint it puts is either new there or has the version it puts it with.
LEMMA FlushIsFresh ==
  ASSUME TxnInv, NEW a \in Actors, op[a].kind = "flush", op[a].stage # "lock"
  PROVE  /\ \A ns \in Namespaces : tx[a].snapshots[ns].loaded =>
              /\ ns \in op[a].threads
              /\ tx[a].snapshots[ns].base = current[ns]
              /\ tx[a].snapshots[ns].current \in Nat
              /\ current[ns] <= tx[a].snapshots[ns].current
         /\ \A k \in Keys : tx[a].checkpoints[k] # 0 =>
              /\ tx[a].snapshots[k[1]].loaded
              /\ tx[a].checkpoints[k] = tx[a].snapshots[k[1]].versions[k[2]]
              /\ tx[a].checkpoints[k] \in Nat
              /\ tx[a].checkpoints[k] <= tx[a].snapshots[k[1]].current
              /\ version[k] = 0 => current[k[1]] < tx[a].checkpoints[k]
              /\ version[k] # 0 => version[k] = tx[a].checkpoints[k]
<1>1. BufferConsistent(a) /\ FlushConsistent(a)
  BY DEF TxnInv, ActorConsistent
<1>2. tx[a].snapshots \in [Namespaces -> Snapshot] /\ tx[a].checkpoints \in [Keys -> Nat]
  BY RecordFields DEF TxnInv
<1>3. ASSUME NEW ns \in Namespaces, tx[a].snapshots[ns].loaded
      PROVE  /\ ns \in op[a].threads
             /\ tx[a].snapshots[ns].base = current[ns]
             /\ tx[a].snapshots[ns].current \in Nat
             /\ current[ns] <= tx[a].snapshots[ns].current
  <2>1. ns \in op[a].threads /\ tx[a].snapshots[ns].base = current[ns]
    BY <1>1, <1>3 DEF FlushConsistent
  <2>2. tx[a].snapshots[ns].base <= tx[a].snapshots[ns].current
    BY <1>1, <1>3 DEF BufferConsistent, SnapshotOrdered
  <2>3. tx[a].snapshots[ns] \in Snapshot
    BY <1>2
  <2> QED
    BY <2>1, <2>2, <2>3 DEF Snapshot
<1>4. ASSUME NEW k \in Keys, tx[a].checkpoints[k] # 0
      PROVE  /\ tx[a].snapshots[k[1]].loaded
             /\ tx[a].checkpoints[k] = tx[a].snapshots[k[1]].versions[k[2]]
             /\ tx[a].checkpoints[k] \in Nat
             /\ tx[a].checkpoints[k] <= tx[a].snapshots[k[1]].current
             /\ version[k] = 0 => current[k[1]] < tx[a].checkpoints[k]
             /\ version[k] # 0 => version[k] = tx[a].checkpoints[k]
  <2> DEFINE ns == k[1]
             s  == tx[a].snapshots[ns]
             v  == tx[a].checkpoints[k]
  <2>1. ns \in Namespaces /\ k[2] \in Ids /\ k = <<ns, k[2]>>
    BY DEF Keys
  <2>2. s.loaded /\ v = s.versions[k[2]] /\ v \in Nat
    BY <1>1, <1>2, <1>4 DEF BufferConsistent
  <2>3. s.base = current[ns] /\ current[ns] \in Nat
    BY <1>3, <2>1, <2>2 DEF TxnInv, IInv, VersionTypes
  <2>4. s.versions[k[2]] <= s.current
    BY <1>1, <2>1, <2>2 DEF BufferConsistent, SnapshotOrdered
  <2>5. version[<<ns, k[2]>>] =
          IF s.versions[k[2]] > s.base THEN 0 ELSE s.versions[k[2]]
    BY <1>1, <2>1, <2>2, <2>3 DEF BufferConsistent, SnapshotMatches
  <2>6. version[k] = IF v > current[ns] THEN 0 ELSE v
    BY <2>1, <2>2, <2>3, <2>5
  <2>7. v # 0
    BY <1>4
  <2> QED
    BY <2>2, <2>3, <2>4, <2>6, <2>7
<1> QED
  BY <1>3, <1>4

LEMMA FlushCommits ==
  ASSUME TxnInv, NEW a \in Actors, FlushCommit(a)
  PROVE  /\ Commit
         /\ pending' \in SUBSET WriteKeys
         /\ \A b \in Actors \ {a} : Undisturbed(b)
         /\ \A k \in BufferedKeys(a) : version'[k] = tx[a].checkpoints[k]
         /\ tx[a].writes \subseteq pending'
         /\ \A ns \in Namespaces : tx[a].snapshots[ns].loaded =>
              current'[ns] = tx[a].snapshots[ns].current
<1>1. op[a].kind = "flush" /\ op[a].stage = "commit"
  BY DEF FlushCommit
<1>2. current' = [ns \in Namespaces |-> IF tx[a].snapshots[ns].loaded
                                          THEN tx[a].snapshots[ns].current
                                          ELSE current[ns]]
  BY DEF FlushCommit
<1>3. version' = [k \in Keys |->
                    IF version[k] = 0 THEN tx[a].checkpoints[k] ELSE version[k]]
  BY DEF FlushCommit
<1>4. /\ \A ns \in Namespaces : tx[a].snapshots[ns].loaded =>
           /\ ns \in op[a].threads
           /\ tx[a].snapshots[ns].base = current[ns]
           /\ tx[a].snapshots[ns].current \in Nat
           /\ current[ns] <= tx[a].snapshots[ns].current
      /\ \A k \in Keys : tx[a].checkpoints[k] # 0 =>
           /\ tx[a].snapshots[k[1]].loaded
           /\ tx[a].checkpoints[k] = tx[a].snapshots[k[1]].versions[k[2]]
           /\ tx[a].checkpoints[k] \in Nat
           /\ tx[a].checkpoints[k] <= tx[a].snapshots[k[1]].current
           /\ version[k] = 0 => current[k[1]] < tx[a].checkpoints[k]
           /\ version[k] # 0 => version[k] = tx[a].checkpoints[k]
    BY <1>1, FlushIsFresh
<1>5. current \in [Namespaces -> Nat] /\ version \in [Keys -> Nat]
  BY DEF TxnInv, IInv, VersionTypes
<1>6. tx[a].checkpoints \in [Keys -> Nat] /\ tx[a].writes \subseteq WriteKeys
  BY RecordFields DEF TxnInv
<1>7. current' \in [Namespaces -> Nat]
  BY <1>2, <1>4, <1>5
<1>8. version' \in [Keys -> Nat]
  BY <1>3, <1>5, <1>6
<1>9. pending' \in SUBSET WriteKeys /\ tx[a].writes \subseteq pending'
  BY <1>6 DEF FlushCommit, TxnInv, TxnTypes
<1>10. \A ns \in Namespaces : current[ns] <= current'[ns]
  BY <1>2, <1>4, <1>5
<1>11. ASSUME NEW k \in Keys, version'[k] # version[k]
       PROVE  /\ version[k] = 0 /\ tx[a].checkpoints[k] # 0
              /\ version'[k] = tx[a].checkpoints[k]
              /\ current[k[1]] < version'[k] /\ version'[k] <= current'[k[1]]
              /\ tx[a].snapshots[k[1]].loaded
  <2>1. version[k] = 0 /\ version'[k] = tx[a].checkpoints[k] /\ tx[a].checkpoints[k] # 0
    BY <1>3, <1>11
  <2>2. k[1] \in Namespaces /\ tx[a].snapshots[k[1]].loaded
    BY <1>4, <2>1, KeyNamespace
  <2>3. current'[k[1]] = tx[a].snapshots[k[1]].current
    BY <1>2, <2>2
  <2> QED
    BY <1>4, <2>1, <2>2, <2>3
<1>12. ASSUME NEW j \in Keys, NEW k \in Keys, j # k, j[1] = k[1],
              version'[j] # version[j], version'[k] # version[k]
       PROVE  version'[j] # version'[k]
  <2> DEFINE s == tx[a].snapshots[k[1]]
  <2>1. /\ j[2] \in Ids /\ k[2] \in Ids /\ k[1] \in Namespaces
        /\ j = <<j[1], j[2]>> /\ k = <<k[1], k[2]>>
    BY DEF Keys
  <2>2. j[2] # k[2]
    BY <1>12, <2>1
  <2>3. /\ version'[j] = s.versions[j[2]] /\ version'[k] = s.versions[k[2]]
        /\ version'[j] # 0 /\ s.loaded
    BY <1>4, <1>11, <1>12
  <2>4. s.versions[j[2]] = s.versions[k[2]] => s.versions[j[2]] = 0
    BY <2>1, <2>2, <2>3 DEF TxnInv, ActorConsistent, BufferConsistent, SnapshotOrdered
  <2> QED
    BY <2>3, <2>4
<1>13. Commit
  BY <1>7, <1>8, <1>9, <1>10, <1>11, <1>12 DEF Commit
<1>14. ASSUME NEW b \in Actors \ {a} PROVE Undisturbed(b)
  <2>1. ASSUME NEW ns \in Namespaces, current'[ns] = current[ns], NEW i \in Ids
        PROVE  version'[<<ns, i>>] = version[<<ns, i>>]
    <3> DEFINE k == <<ns, i>>
    <3>1. k \in Keys /\ k[1] = ns
      BY DEF Keys
    <3>2. /\ version'[k] # version[k] =>
               current[ns] < version'[k] /\ version'[k] <= current'[ns]
          /\ current[ns] \in Nat /\ version'[k] \in Nat
      BY <1>5, <1>8, <1>11, <3>1
    <3> HIDE DEF k
    <3>3. version'[k] = version[k]
      BY <2>1, <3>2
    <3> QED
      BY <3>3 DEF k
  <2>2. \A ns \in op[b].threads : current'[ns] = current[ns]
    <3>1. op[b].threads \subseteq Namespaces /\ op[a].threads \cap op[b].threads = {}
      BY RecordFields DEF TxnInv, Apart
    <3> QED
      BY <1>2, <1>4, <3>1
  <2>3. op[b].kind = "put" => version'[op[b].key] = version[op[b].key]
    <3> SUFFICES ASSUME op[b].kind = "put", version'[op[b].key] # version[op[b].key]
                 PROVE  FALSE
      OBVIOUS
    <3>1. PutConsistent(b) /\ op[b].key \in Keys
      BY DEF TxnInv, ActorConsistent, PutConsistent
    <3>2. version[op[b].key] = 0 /\ tx[a].checkpoints[op[b].key] # 0
      BY <1>11, <3>1
    <3>3. FreshPut(b)
      BY <3>1, <3>2 DEF PutConsistent, FreshPut
    <3>4. op[b].key \notin Inserts(a)
      BY <1>1, <3>3 DEF TxnInv, Apart
    <3> QED
      BY <1>1, <3>1, <3>2, <3>4 DEF Inserts
  <2> QED
    BY <1>10, <2>1, <2>2, <2>3 DEF Undisturbed
<1>15. \A k \in BufferedKeys(a) : version'[k] = tx[a].checkpoints[k]
  BY <1>3, <1>4 DEF BufferedKeys
<1>16. \A ns \in Namespaces : tx[a].snapshots[ns].loaded =>
         current'[ns] = tx[a].snapshots[ns].current
  BY <1>2
<1> QED
  BY <1>9, <1>13, <1>14, <1>15, <1>16

LEMMA FlushCommitKeepsInv ==
  ASSUME TxnInv, NEW a \in Actors, MysqlStep, FlushCommit(a)
  PROVE  TxnInv'
<1>1. /\ Commit /\ pending' \in SUBSET WriteKeys
      /\ \A b \in Actors \ {a} : Undisturbed(b)
  BY FlushCommits
<1>2. IInv'
  BY <1>1, CommitKeepsOrder DEF TxnInv
<1>3. LeaveBlock(a) /\ op' = [op EXCEPT ![a] = NoOp]
  BY DEF FlushCommit, EndFlush
<1> QED
  BY <1>1, <1>2, <1>3, LeavingKeepsInv

LEMMA PutCommits ==
  ASSUME TxnInv, NEW a \in Actors, PutInsert(a)
  PROVE  Commit /\ \A b \in Actors \ {a} : Undisturbed(b)
<1> DEFINE k  == op[a].key
           ns == op[a].key[1]
<1>1. /\ op[a].kind = "put" /\ op[a].stage = "insert" /\ WaitsFor(a) = {}
      /\ current' = [current EXCEPT ![ns] =
                       IF ns \in op[a].threads THEN op[a].version ELSE current[ns]]
      /\ version' = [version EXCEPT ![k] = op[a].version]
      /\ pending' = pending
  BY DEF PutInsert, Runs
<1>2. PutConsistent(a) /\ k \in Keys /\ ns \in Namespaces
  BY <1>1, KeyNamespace DEF TxnInv, ActorConsistent, PutConsistent
<1>3. /\ current \in [Namespaces -> Nat] /\ version \in [Keys -> Nat]
      /\ pending \in SUBSET WriteKeys
  BY DEF TxnInv, TxnTypes, IInv, VersionTypes
<1>4. CASE op[a].rows # {}
  <2>1. op[a].threads = {} /\ op[a].version = version[k]
    BY <1>1, <1>2, <1>4 DEF PutConsistent
  <2>2. current' = current /\ version' = version
    BY <1>1, <1>3, <2>1
  <2>3. UNCHANGED store
    BY <1>1, <2>2 DEF store
  <2>4. Commit
    BY <1>3, <2>2, <1>1 DEF Commit
  <2> QED
    BY <2>3, <2>4, StoreUnchanged
<1>5. CASE op[a].rows = {}
  <2>1. /\ version[k] = 0 /\ op[a].threads = {ns} /\ op[a].version = current[ns] + 1
    BY <1>1, <1>2, <1>5 DEF PutConsistent
  <2> DEFINE v == current[ns] + 1
  <2>2. current' = [current EXCEPT ![ns] = v] /\ version' = [version EXCEPT ![k] = v]
    BY <1>1, <2>1
  <2>3. v \in Nat /\ current[ns] \in Nat /\ current[ns] < v
    BY <1>2, <1>3
  <2>4. /\ current'[ns] = v /\ version'[k] = v
        /\ \A m \in Namespaces \ {ns} : current'[m] = current[m]
        /\ \A j \in Keys \ {k} : version'[j] = version[j]
        /\ current' \in [Namespaces -> Nat] /\ version' \in [Keys -> Nat]
    BY <1>2, <1>3, <2>2, <2>3
  <2> HIDE DEF v
  <2>5. Commit
    <3>1. \A m \in Namespaces : current[m] <= current'[m]
      BY <1>3, <2>3, <2>4
    <3>2. \A j \in Keys : version'[j] # version[j] =>
            current[j[1]] < version'[j] /\ version'[j] <= current'[j[1]]
      BY <2>3, <2>4
    <3>3. \A i, j \in Keys : i # j /\ version'[i] # version[i] /\ version'[j] # version[j]
                               => version'[i] # version'[j]
      BY <2>4
    <3> QED
      BY <1>1, <1>3, <2>4, <3>1, <3>2, <3>3 DEF Commit
  <2>6. ASSUME NEW b \in Actors \ {a} PROVE Undisturbed(b)
    <3>1. \A m \in Namespaces : current[m] <= current'[m]
      BY <1>3, <2>3, <2>4
    <3>2. ASSUME NEW m \in Namespaces, current'[m] = current[m], NEW i \in Ids
          PROVE  version'[<<m, i>>] = version[<<m, i>>]
      <4>1. m # ns
        BY <2>3, <2>4, <3>2
      <4>2. <<m, i>> \in Keys /\ <<m, i>> # k
        BY <4>1 DEF Keys
      <4> QED
        BY <2>4, <4>2
    <3>3. \A m \in op[b].threads : current'[m] = current[m]
      <4>1. op[b].threads \subseteq Namespaces /\ op[a].threads \cap op[b].threads = {}
        BY RecordFields DEF TxnInv, Apart
      <4> QED
        BY <2>1, <2>4, <4>1
    <3>4. op[b].kind = "put" => version'[op[b].key] = version[op[b].key]
      <4> SUFFICES ASSUME op[b].kind = "put" PROVE op[b].key \in Keys \ {k}
        BY <2>4
      <4>1. PutConsistent(b) /\ op[b].key \in Keys
        BY DEF TxnInv, ActorConsistent, PutConsistent
      <4>2. ASSUME op[b].key = k PROVE FALSE
        <5>1. op[b].gaps = {ns}
          BY <2>1, <4>1, <4>2 DEF PutConsistent
        <5>2. GapHolders(a, ns) = {}
          <6>1. k \in Inserts(a)
            BY <1>1 DEF Inserts
          <6> QED
            BY <1>1, <2>1, <6>1, NobodyWaitedFor
        <5> QED
          BY <5>1, <5>2 DEF GapHolders
      <4> QED
        BY <4>1, <4>2
    <3> QED
      BY <3>1, <3>2, <3>3, <3>4 DEF Undisturbed
  <2> QED
    BY <2>5, <2>6
<1> QED
  BY <1>4, <1>5

LEMMA PutInsertKeepsInv ==
  ASSUME TxnInv, NEW a \in Actors, MysqlStep, PutInsert(a)
  PROVE  TxnInv'
<1>1. Commit /\ \A b \in Actors \ {a} : Undisturbed(b)
  BY PutCommits
<1>2. IInv'
  BY <1>1, CommitKeepsOrder DEF TxnInv
<1>3. tx[a] = NoTx
  BY DEF TxnInv, ActorConsistent, PutConsistent, IdleConsistent, PutInsert
<1>4. /\ op' = [op EXCEPT ![a] = NoOp] /\ tx' = tx /\ erased' = {}
      /\ pending' \in SUBSET WriteKeys
      /\ registry' \in [Tasks -> Actors \cup {NoActor}]
  BY DEF PutInsert, TxnInv, TxnTypes
<1> QED
  BY <1>1, <1>2, <1>3, <1>4, BecomesIdle DEF MysqlStep

-----------------------------------------------------------------------------
(***************************************************************************)
(* The other steps                                                         *)
(***************************************************************************)

\* Pending writes, execution_lock and the number of calls are none of its business.
LEMMA UntouchedKeepsInv ==
  ASSUME TxnInv, pending' \in SUBSET WriteKeys,
         UNCHANGED <<current, version, tx, op, executionOf, registry, erased, backend>>
  PROVE  TxnInv'
<1>1. TxnTypes'
  BY DEF TxnInv, TxnTypes
<1>2. IInv'
  BY DEF TxnInv, IInv, VersionTypes, VersionsOrdered
<1>3. ASSUME NEW a \in Actors PROVE ActorConsistent(a)'
  <2>1. Undisturbed(a)
    BY DEF TxnInv, IInv, VersionTypes, Undisturbed
  <2> QED
    BY <1>2, <2>1, OthersStayConsistent DEF TxnInv, IInv
<1>4. ASSUME NEW a \in Actors, NEW b \in Actors, a # b PROVE Apart(a, b)'
  BY <1>4 DEF TxnInv, Apart, FreshPut, Inserts
<1>5. SqliteHasNoTransactions' /\ erased' = {}
  BY DEF TxnInv, SqliteHasNoTransactions
<1> QED
  BY <1>1, <1>2, <1>3, <1>4, <1>5 DEF TxnInv

\* Nobody has a transaction or an operation.
LEMMA AllIdleInv ==
  ASSUME TxnTypes, IInv, erased = {}, \A a \in Actors : tx[a] = NoTx /\ op[a] = NoOp
  PROVE  TxnInv
BY IdleIsConsistent, NoOpIsApart DEF TxnInv, SqliteHasNoTransactions

LEMMA AllIdleAfter ==
  ASSUME TxnTypes', IInv', erased' = {}, \A a \in Actors : tx'[a] = NoTx /\ op'[a] = NoOp
  PROVE  TxnInv'
<1>1. ASSUME NEW a \in Actors PROVE ActorConsistent(a)'
  <2>1. /\ tx'[a].phase = "none" /\ op'[a].kind = "none"
        /\ \A ns \in Namespaces : ~tx'[a].snapshots[ns].loaded
        /\ \A k \in Keys : tx'[a].checkpoints[k] = 0
    BY DEF NoTx, NoSnapshot, NoOp
  <2> QED
    BY <2>1
    DEF ActorConsistent, BufferConsistent, FlushConsistent, PutConsistent, IdleConsistent,
        NoTx, NoOp, NoSnapshot
<1>2. ASSUME NEW a \in Actors, NEW b \in Actors PROVE Apart(a, b)'
  <2>1. op'[a].kind = "none" /\ op'[a].threads = {}
    BY DEF NoOp
  <2> QED
    BY <2>1 DEF Apart
<1> QED
  BY <1>1, <1>2 DEF TxnInv, SqliteHasNoTransactions

LEMMA CrashKeepsInv ==
  ASSUME TxnInv, MysqlStep, Crash
  PROVE  TxnInv'
<1>1. IInv'
  BY DEF Crash, store, TxnInv, IInv, VersionTypes, VersionsOrdered
<1>2. /\ tx' \in [Actors -> Buffer] /\ op' \in [Actors -> Operation]
      /\ \A a \in Actors : tx'[a] = NoTx /\ op'[a] = NoOp
  BY EmptyRecords DEF Crash
<1>3. registry' \in [Tasks -> Actors \cup {NoActor}]
  BY DEF Crash, TxnInv, TxnTypes
<1>4. TxnTypes' /\ erased' = {}
  BY <1>2, <1>3 DEF Crash, MysqlStep, store, TxnInv, TxnTypes
<1> QED
  BY <1>1, <1>2, <1>4, AllIdleAfter

\* delete_thread waits until no row it deletes is locked; unless it races with an open
\* transaction, nobody has a snapshot either.
LEMMA DeleteKeepsInv ==
  ASSUME TxnInv, MysqlStep, DeleteThread, ~DeleteRaces
  PROVE  TxnInv' /\ Erase
<1>1. /\ \A a \in Actors : op[a].rows = {} /\ op[a].gaps = {} /\ op[a].threads = {}
      /\ \A a \in Actors, ns \in Namespaces : ~tx[a].snapshots[ns].loaded
      /\ Erase
      /\ UNCHANGED <<tx, op, registry>>
  BY DEF DeleteThread
<1>2. erased' = {}
  BY <1>1 DEF DeleteThread, TxnInv
<1>3. IInv'
  BY <1>1, EraseKeepsOrder
<1>4. TxnTypes'
  BY <1>1 DEF MysqlStep, Erase, TxnInv, TxnTypes
<1>5. ASSUME NEW a \in Actors PROVE ActorConsistent(a)'
  <2>1. BufferConsistent(a) /\ FlushConsistent(a) /\ PutConsistent(a) /\ IdleConsistent(a)
    BY DEF TxnInv, ActorConsistent
  <2>2. op[a].kind # "put"
    BY <1>1, <2>1 DEF PutConsistent
  <2>3. BufferConsistent(a)'
    BY <1>1, <2>1, KeyNamespace DEF BufferConsistent
  <2>4. FlushConsistent(a)'
    BY <1>1, <2>1 DEF FlushConsistent, Inserts, ToLock
  <2>5. PutConsistent(a)' /\ IdleConsistent(a)'
    BY <1>1, <2>1, <2>2 DEF PutConsistent, IdleConsistent, NoOp, NoTx, NoSnapshot
  <2> QED
    BY <2>3, <2>4, <2>5 DEF ActorConsistent
<1>6. ASSUME NEW a \in Actors, NEW b \in Actors, a # b PROVE Apart(a, b)'
  BY <1>1, <1>6 DEF TxnInv, Apart, FreshPut, Inserts
<1>7. SqliteHasNoTransactions'
  BY <1>1 DEF MysqlStep, SqliteHasNoTransactions
<1> QED
  BY <1>1, <1>2, <1>3, <1>4, <1>5, <1>6, <1>7 DEF TxnInv

\* The SQLite saver: every call is one commit.
LEMMA SqliteCommits ==
  ASSUME TxnInv, SqliteStep, UNCHANGED <<executionOf, backend>>
  PROVE  TxnInv' /\ (Commit \/ Erase)
<1>1. /\ current \in [Namespaces -> Nat] /\ version \in [Keys -> Nat]
      /\ pending \in SUBSET WriteKeys
  BY DEF TxnInv, TxnTypes, IInv, VersionTypes
<1>2. /\ \A a \in Actors : tx'[a] = NoTx /\ op'[a] = NoOp
      /\ UNCHANGED <<tx, op, registry, erased>>
  BY DEF SqliteStep, TxnInv, SqliteHasNoTransactions
<1>3. CASE \E a \in Actors, k \in Keys : SqlitePut(k)
  <2> PICK k \in Keys : SqlitePut(k)
    BY <1>3
  <2> DEFINE ns == k[1]
             v  == current[ns] + 1
  <2>1. ns \in Namespaces /\ v \in Nat /\ current[ns] < v
    BY <1>1, KeyNamespace
  <2>2. current' = [current EXCEPT ![ns] = v]
    BY DEF SqlitePut
  <2>3. version' = [version EXCEPT ![k] = v] /\ pending' = pending
    BY <1>1, <2>1, <2>2 DEF SqlitePut
  <2> HIDE DEF v
  <2>4. /\ current'[ns] = v /\ version'[k] = v
        /\ \A m \in Namespaces \ {ns} : current'[m] = current[m]
        /\ \A j \in Keys \ {k} : version'[j] = version[j]
        /\ current' \in [Namespaces -> Nat] /\ version' \in [Keys -> Nat]
    BY <1>1, <2>1, <2>2, <2>3
  <2>5. \A m \in Namespaces : current[m] <= current'[m]
    BY <1>1, <2>1, <2>4
  <2>6. \A j \in Keys : version'[j] # version[j] =>
          current[j[1]] < version'[j] /\ version'[j] <= current'[j[1]]
    BY <2>1, <2>4
  <2>7. \A i, j \in Keys : i # j /\ version'[i] # version[i] /\ version'[j] # version[j]
                             => version'[i] # version'[j]
    BY <2>4
  <2>8. Commit
    BY <1>1, <2>3, <2>4, <2>5, <2>6, <2>7 DEF Commit
  <2>9. IInv'
    BY <2>8, CommitKeepsOrder DEF TxnInv
  <2>10. TxnTypes' /\ erased' = {}
    BY <1>2, <2>3 DEF TxnInv, TxnTypes
  <2> QED
    BY <1>2, <2>8, <2>9, <2>10, AllIdleAfter
<1>4. CASE \E a \in Actors, w \in WriteTargets :
             SqlitePutWrites(<<w[1], w[2], executionOf[a]>>)
  <2> PICK a \in Actors, w \in WriteTargets :
        SqlitePutWrites(<<w[1], w[2], executionOf[a]>>)
    BY <1>4
  <2>1. <<w[1], w[2], executionOf[a]>> \in WriteKeys
    BY TxnAssumption DEF TxnInv, TxnTypes, WriteKeys
  <2>2. /\ UNCHANGED <<current, version>>
        /\ pending' \in SUBSET WriteKeys
    BY <1>1, <2>1 DEF SqlitePutWrites
  <2>3. Commit
    BY <1>1, <2>2 DEF Commit
  <2> QED
    BY <1>2, <2>2, <2>3, UntouchedKeepsInv
<1>5. CASE SqliteDeleteThread
  <2>1. Erase
    BY <1>5 DEF SqliteDeleteThread
  <2>2. IInv'
    BY <2>1, EraseKeepsOrder
  <2>3. TxnTypes' /\ erased' = {}
    BY <1>2, <2>1 DEF Erase, TxnInv, TxnTypes
  <2> QED
    BY <1>2, <2>1, <2>2, <2>3, AllIdleAfter
<1> QED
  BY <1>3, <1>4, <1>5 DEF SqliteStep

LEMMA DirectWritesCommit ==
  ASSUME TxnInv, NEW a \in Actors, NEW w \in WriteTargets, MysqlStep,
         PutWritesDirect(a, w[1], w[2])
  PROVE  TxnInv' /\ Commit
<1>1. <<w[1], w[2], executionOf[a]>> \in WriteKeys
  BY TxnAssumption DEF TxnInv, TxnTypes, WriteKeys
<1>2. /\ UNCHANGED <<current, version, tx, op, executionOf, registry, erased, backend>>
      /\ pending' \in SUBSET WriteKeys
  BY <1>1 DEF PutWritesDirect, MysqlStep, TxnInv, TxnTypes
<1>3. Commit
  BY <1>2 DEF Commit, TxnInv, IInv, VersionTypes
<1> QED
  BY <1>2, <1>3, UntouchedKeepsInv

-----------------------------------------------------------------------------
\* A thread's step commits or leaves the tables alone, and ends a flush only if it is that
\* flush's own commit, when it changes them.
LEMMA ThreadStep ==
  ASSUME TxnInv, NEW a \in Actors, MysqlStep, TxnStep(a)
  PROVE  /\ TxnInv'
         /\ Commit \/ UNCHANGED store
         /\ \A b \in Actors :
              op[b].kind = "flush" /\ op'[b] # op[b] /\ store' # store => FlushCommit(b)
<1>1. CASE Begin(a)
  BY <1>1, BeginKeepsInv DEF Begin
<1>2. CASE Abort(a)
  BY <1>2, AbortKeepsInv DEF Abort
<1>3. CASE Seal(a)
  BY <1>3, SealKeepsInv DEF Seal
<1>4. CASE FlushBegin(a)
  BY <1>4, FlushBeginKeepsInv DEF FlushBegin
<1>5. CASE FlushLock(a)
  BY <1>5, FlushLockKeepsInv DEF FlushLock
<1>6. CASE FlushRefs(a)
  BY <1>6, FlushRefsKeepsInv DEF FlushRefs
<1>7. CASE FlushInsert(a)
  BY <1>7, FlushInsertKeepsInv DEF FlushInsert
<1>8. CASE FlushCommit(a)
  <2>1. TxnInv' /\ Commit
    BY <1>8, FlushCommitKeepsInv, FlushCommits
  <2>2. op' = [op EXCEPT ![a] = NoOp]
    BY <1>8 DEF FlushCommit, EndFlush
  <2>3. \A b \in Actors : op'[b] # op[b] => b = a
    BY <2>2 DEF TxnInv, TxnTypes
  <2> QED
    BY <1>8, <2>1, <2>3
<1>9. CASE OperationFails(a)
  BY <1>9, FailureKeepsInv DEF OperationFails
<1>10. CASE PutBump(a)
  BY <1>10, PutBumpKeepsInv DEF PutBump
<1>11. CASE PutInsert(a)
  <2>1. TxnInv' /\ Commit
    BY <1>11, PutInsertKeepsInv, PutCommits
  <2>2. op' = [op EXCEPT ![a] = NoOp] /\ op[a].kind = "put"
    BY <1>11 DEF PutInsert
  <2>3. \A b \in Actors : op'[b] # op[b] => b = a
    BY <2>2 DEF TxnInv, TxnTypes
  <2> QED
    BY <2>1, <2>2, <2>3
<1>12. CASE \E ns \in Namespaces : LockExecution(a, ns) \/ UnlockExecution(a, ns)
  <2>1. UNCHANGED <<store, tx, op, registry, erased, executionOf, backend>>
    BY <1>12 DEF LockExecution, UnlockExecution, MysqlStep
  <2>2. pending' \in SUBSET WriteKeys /\ UNCHANGED <<current, version>>
    BY <2>1 DEF store, TxnInv, TxnTypes
  <2> QED
    BY <2>1, <2>2, UntouchedKeepsInv
<1>13. ASSUME NEW k \in Keys, PutBuffered(a, k) \/ PutSelect(a, k)
       PROVE  TxnInv' /\ UNCHANGED store
  BY <1>13, PutBufferedKeepsInv, PutSelectKeepsInv DEF PutBuffered, PutSelect
<1>14. ASSUME NEW w \in WriteTargets, PutWritesBuffered(a, w[1], w[2])
       PROVE  TxnInv' /\ UNCHANGED store
  BY <1>14, PutWritesBufferedKeepsInv DEF PutWritesBuffered
<1>15. ASSUME NEW w \in WriteTargets, PutWritesDirect(a, w[1], w[2])
       PROVE  TxnInv' /\ Commit /\ UNCHANGED op
  BY <1>15, DirectWritesCommit DEF PutWritesDirect
<1> QED
  BY <1>1, <1>2, <1>3, <1>4, <1>5, <1>6, <1>7, <1>8, <1>9, <1>10, <1>11, <1>12, <1>13,
     <1>14, <1>15
  DEF TxnStep, Flush, DirectPut

LEMMA InitInv == Init => TxnInv
<1> SUFFICES ASSUME Init PROVE TxnInv
  OBVIOUS
<1>1. IInv
  BY EmptyIsOrdered DEF Init, TxnInit
<1>2. /\ tx \in [Actors -> Buffer] /\ op \in [Actors -> Operation]
      /\ \A a \in Actors : tx[a] = NoTx /\ op[a] = NoOp
  BY EmptyRecords DEF Init, TxnInit
<1>3. TxnTypes /\ erased = {}
  BY <1>2, TxnAssumption DEF Init, TxnInit, Empty, TxnTypes
<1> QED
  BY <1>1, <1>2, <1>3, AllIdleInv

\* Every step of the program, as the store and the transactions see it.
LEMMA NextStep ==
  ASSUME ~DeleteRaces, TxnInv, [Next]_vars
  PROVE  /\ TxnInv'
         /\ [Commit \/ Erase]_store
         /\ \A b \in Actors :
              op[b].kind = "flush" /\ op'[b] # op[b] /\ store' # store => FlushCommit(b)
<1>1. ASSUME NEW a \in Actors, MysqlStep, TxnStep(a)
      PROVE  /\ TxnInv' /\ [Commit \/ Erase]_store
             /\ \A b \in Actors :
                  op[b].kind = "flush" /\ op'[b] # op[b] /\ store' # store => FlushCommit(b)
  BY <1>1, ThreadStep
<1>2. CASE MysqlStep /\ DeleteThread
  BY <1>2, DeleteKeepsInv DEF DeleteThread
<1>3. CASE MysqlStep /\ Crash
  BY <1>3, CrashKeepsInv DEF Crash
<1>4. CASE SqliteStep /\ UNCHANGED <<executionOf, backend>>
  BY <1>4, SqliteCommits DEF SqliteStep
<1>5. CASE UNCHANGED <<txnVars, executionOf, backend>>
  <2>1. UNCHANGED <<current, version, pending, store, tx, op, registry, erased,
                    executionOf, backend>>
    BY <1>5 DEF txnVars, store, saver
  <2>2. pending' \in SUBSET WriteKeys
    BY <2>1 DEF TxnInv, TxnTypes
  <2> QED
    BY <2>1, <2>2, UntouchedKeepsInv
<1> QED
  BY <1>1, <1>2, <1>3, <1>4, <1>5 DEF Next, TxnNext, Finished, Starved, vars, MysqlStep

-----------------------------------------------------------------------------
\* The inductive invariant: the tables are ordered, every thread's transaction agrees with
\* them, and the locks keep the threads apart.
THEOREM TransactionInvariant == ASSUME ~DeleteRaces PROVE Spec => []TxnInv
<1>1. Init => TxnInv
  BY InitInv
<1>2. TxnInv /\ [Next]_vars => TxnInv'
  BY NextStep
<1> QED
  BY <1>1, <1>2, PTL DEF Spec

\* The MySQL saver with its buffered transactions, and the SQLite saver, implement the
\* store: every step of Checkpoints is one commit of CheckpointStore, the deletion of the
\* thread, or leaves the tables alone.
THEOREM SaversImplementTheStore == ASSUME ~DeleteRaces PROVE Spec => ImplementsStore
<1>1. Init => Empty
  BY DEF Init, TxnInit
<1>2. TxnInv /\ [Next]_vars => [Commit \/ Erase]_store
  BY NextStep
<1> QED
  BY <1>1, <1>2, TransactionInvariant, PTL DEF Spec, ImplementsStore, StoreSpec

\* So what holds of the store holds of the savers: every checkpoint of a namespace has a
\* version of its own, whatever transactions, direct puts, failures and restarts do.
THEOREM SaversKeepVersionsOrdered == ASSUME ~DeleteRaces PROVE Spec => []VersionsOrdered
BY SaversImplementTheStore, VersionsStayOrdered, PTL DEF ImplementsStore

\* A flush past its version check (_flush_transaction) still finds every namespace exactly
\* as the snapshot its transaction took at its first put, until it commits.
THEOREM FlushesSeeTheirSnapshots == ASSUME ~DeleteRaces PROVE Spec => []FlushSeesItsSnapshot
<1>1. TxnInv => FlushSeesItsSnapshot
  <2> SUFFICES ASSUME TxnInv, NEW a \in Actors, NEW ns \in Namespaces,
                      op[a].kind = "flush", op[a].stage # "lock", tx[a].snapshots[ns].loaded
               PROVE  /\ StillCurrent(a, ns)
                      /\ \A i \in Ids :
                           version[<<ns, i>>] =
                             IF tx[a].snapshots[ns].versions[i] > tx[a].snapshots[ns].base
                               THEN 0
                               ELSE tx[a].snapshots[ns].versions[i]
    BY DEF FlushSeesItsSnapshot
  <2>1. tx[a].snapshots[ns].base = current[ns]
    BY FlushIsFresh
  <2>2. SnapshotMatches(tx[a].snapshots[ns], ns)
    BY DEF TxnInv, ActorConsistent, BufferConsistent
  <2> QED
    BY <2>1, <2>2 DEF StillCurrent, SnapshotMatches, TxnInv
<1> QED
  BY <1>1, TransactionInvariant, PTL

\* checkpoint_transaction is atomic: the step that ends a flush and changes the tables
\* commits every checkpoint and write of the transaction and moves every counter.
THEOREM FlushesAreAtomic == ASSUME ~DeleteRaces PROVE Spec => AllOrNothing
<1> DEFINE Whole ==
      \A a \in Actors :
        op[a].kind = "flush" /\ op'[a] # op[a] /\ store' # store =>
          /\ \A k \in BufferedKeys(a) : version'[k] = tx[a].checkpoints[k]
          /\ tx[a].writes \subseteq pending'
          /\ \A ns \in Namespaces : tx[a].snapshots[ns].loaded =>
               current'[ns] = tx[a].snapshots[ns].current
<1>1. TxnInv /\ [Next]_vars => Whole
  BY NextStep, FlushCommits
<1>2. TxnInv /\ [Next]_vars => [Whole]_vars
  BY <1>1
<1> QED
  BY <1>2, TransactionInvariant, PTL DEF Spec, AllOrNothing

-----------------------------------------------------------------------------
(***************************************************************************)
(* Reading                                                                 *)
(***************************************************************************)
LEMMA HighestMember ==
  ASSUME NEW S, S # {}, NEW f \in [S -> Nat], NEW c \in Nat, \A k \in S : f[k] <= c
  PROVE  \E k \in S : \A j \in S : f[j] <= f[k]
<1> DEFINE T == {c - f[k] : k \in S}
<1>1. T \in SUBSET Nat /\ T # {}
  OBVIOUS
<1>2. PICK n \in T : \A m \in T : n <= m
  BY <1>1, LeastMember
<1>3. PICK k \in S : n = c - f[k]
  BY <1>2
<1>4. \A j \in S : c - f[k] <= c - f[j]
  BY <1>2, <1>3
<1> QED
  BY <1>4

\* With versions of their own there are finitely many checkpoints, and "nothing newer"
\* picks what ORDER BY version DESC LIMIT 1 picks.
LEMMA SqliteHeadIsLatest ==
  ASSUME IInv, NEW ns \in Namespaces
  PROVE  SqliteList(ns, 1, Keys) = SqliteLatest(ns)
<1> DEFINE S == Stored(ns)
<1>1. /\ current[ns] \in Nat
      /\ \A k \in S : k \in Keys /\ version[k] \in Nat /\ version[k] <= current[ns]
                      /\ k[2] \in Nat
  BY StoreAssumption DEF IInv, VersionTypes, VersionsOrdered, Stored, Keys
<1>2. \A j, k \in S : j # k => version[j] # version[k]
  BY DEF IInv, VersionsOrdered, Stored
<1>3. IsFiniteSet(S)
  <2> DEFINE f == [k \in S |-> version[k]]
             T == 0 .. current[ns]
  <2>1. f \in Injection(S, T)
    BY <1>1, <1>2 DEF Injection, IsInjective
  <2>2. IsFiniteSet(T)
    BY <1>1, FS_Interval
  <2> QED
    BY <2>1, <2>2, FS_Injection
<1>4. ASSUME NEW k \in S
      PROVE  Cardinality({j \in S : Newer(j, k)}) < 1 <=> \A j \in S \ {k} : Newer(k, j)
  <2> DEFINE N == {j \in S : Newer(j, k)}
  <2>1. IsFiniteSet(N)
    BY <1>3, FS_Subset
  <2>2. Cardinality(N) \in Nat /\ (Cardinality(N) = 0 <=> N = {})
    BY <2>1, FS_CardinalityType, FS_EmptySet
  <2>3. N = {} <=> \A j \in S \ {k} : Newer(k, j)
    BY <1>1, <1>2 DEF Newer
  <2> QED
    BY <2>2, <2>3
<1>5. S \subseteq Keys
  BY DEF Stored
<1> QED
  BY <1>4, <1>5 DEF SqliteList, SqliteLatest

\* The newest row and the newest buffered record of a request.
RowsOf(W) == {k \in W : version[k] # 0}
RecordsOf(a, W) == BufferedKeys(a) \cap W

NewestRow(W) ==
  CHOOSE k \in RowsOf(W) : \A j \in RowsOf(W) \ {k} :
    \/ version[k] > version[j]
    \/ version[k] = version[j] /\ k[2] > j[2]

NewestRecord(a, W) ==
  CHOOSE k \in RecordsOf(a, W) : \A j \in RecordsOf(a, W) \ {k} :
    \/ tx[a].checkpoints[k] > tx[a].checkpoints[j]
    \/ tx[a].checkpoints[k] = tx[a].checkpoints[j] /\ k[2] > j[2]

LEMMA GetTupleCases ==
  ASSUME NEW a \in Actors, NEW W
  PROVE  /\ RecordsOf(a, W) # {}
              /\ (RowsOf(W) = {} \/ tx[a].checkpoints[NewestRecord(a, W)]
                                      >= version[NewestRow(W)])
              => GetTuple(a, W) = [key |-> NewestRecord(a, W), buffered |-> TRUE]
         /\ RowsOf(W) # {}
              /\ (RecordsOf(a, W) = {} \/ ~(tx[a].checkpoints[NewestRecord(a, W)]
                                              >= version[NewestRow(W)]))
              => GetTuple(a, W) = [key |-> NewestRow(W), buffered |-> FALSE]
         /\ RecordsOf(a, W) = {} /\ RowsOf(W) = {} => GetTuple(a, W) = Nothing
BY DEF GetTuple, NewestOf, BufferWins, NewestRow, NewestRecord, RowsOf, RecordsOf

ShownIn(a, ns) == Stored(ns) \cup (BufferedKeys(a) \cap InNamespace(ns))
ShownVersion(a, k) == IF k \in BufferedKeys(a) THEN tx[a].checkpoints[k] ELSE version[k]

NewestShown(a, ns) ==
  CHOOSE k \in ShownIn(a, ns) : \A j \in ShownIn(a, ns) \ {k} :
    \/ ShownVersion(a, k) > ShownVersion(a, j)
    \/ ShownVersion(a, k) = ShownVersion(a, j) /\ k[2] > j[2]

LEMMA ListHeadCases ==
  ASSUME NEW a \in Actors, NEW ns \in Namespaces
  PROVE  ListHead(a, ns) = IF ShownIn(a, ns) = {} THEN Nothing
                                                  ELSE GetTuple(a, {NewestShown(a, ns)})
BY DEF ListHead, NewestOf, ShownIn, ShownVersion, NewestShown

\* In a namespace whose snapshot is current, what the table and the buffer say of a
\* checkpoint is what the snapshot says.
LEMMA KnownVersions ==
  ASSUME TxnInv, NEW a \in Actors, NEW ns \in Namespaces, StillCurrent(a, ns)
  PROVE  /\ tx[a].snapshots[ns].current \in Nat
         /\ \A k \in InNamespace(ns) :
              LET v == tx[a].snapshots[ns].versions[k[2]] IN
              /\ k = <<ns, k[2]>> /\ k[2] \in Ids /\ k \in Keys
              /\ v \in Nat /\ v <= tx[a].snapshots[ns].current
              /\ version[k] # 0 => version[k] = v
              /\ k \in BufferedKeys(a) => tx[a].checkpoints[k] = v /\ v # 0
         /\ \A j, k \in InNamespace(ns) :
              /\ j # k
              /\ tx[a].snapshots[ns].versions[j[2]] = tx[a].snapshots[ns].versions[k[2]]
              => tx[a].snapshots[ns].versions[j[2]] = 0
<1> DEFINE s == tx[a].snapshots[ns]
<1>1. /\ s.loaded /\ s.base = current[ns]
      /\ BufferConsistent(a)
      /\ tx[a].snapshots \in [Namespaces -> Snapshot]
  BY RecordFields DEF TxnInv, ActorConsistent, StillCurrent
<1>2. SnapshotOrdered(s) /\ SnapshotMatches(s, ns)
  BY <1>1 DEF BufferConsistent
<1>3. s.current \in Nat /\ s.versions \in [Ids -> Nat]
  BY <1>1 DEF Snapshot
<1>4. ASSUME NEW k \in InNamespace(ns)
      PROVE  /\ k = <<ns, k[2]>> /\ k[2] \in Ids /\ k \in Keys
             /\ s.versions[k[2]] \in Nat /\ s.versions[k[2]] <= s.current
             /\ version[k] # 0 => version[k] = s.versions[k[2]]
             /\ k \in BufferedKeys(a) =>
                  tx[a].checkpoints[k] = s.versions[k[2]] /\ s.versions[k[2]] # 0
  <2>1. k = <<ns, k[2]>> /\ k[2] \in Ids /\ k \in Keys /\ k[1] = ns
    BY DEF InNamespace, Keys
  <2>2. s.versions[k[2]] \in Nat /\ s.versions[k[2]] <= s.current
    BY <1>2, <1>3, <2>1 DEF SnapshotOrdered
  <2>3. version[<<ns, k[2]>>] = IF s.versions[k[2]] > s.base THEN 0 ELSE s.versions[k[2]]
    BY <1>1, <1>2, <2>1 DEF SnapshotMatches
  <2>4. k \in BufferedKeys(a) =>
          tx[a].checkpoints[k] = s.versions[k[2]] /\ s.versions[k[2]] # 0
    BY <1>1, <2>1 DEF BufferConsistent, BufferedKeys
  <2> QED
    BY <2>1, <2>2, <2>3, <2>4
<1>5. \A j, k \in InNamespace(ns) :
        j # k /\ s.versions[j[2]] = s.versions[k[2]] => s.versions[j[2]] = 0
  <2>1. \A j, k \in InNamespace(ns) : j # k => j[2] # k[2]
    BY <1>4
  <2> QED
    BY <1>2, <1>4, <2>1 DEF SnapshotOrdered
<1> QED
  BY <1>3, <1>4, <1>5

\* Among checkpoints with versions of their own one is above all the others.
LEMMA HighestIsUnique ==
  ASSUME NEW S, S # {}, NEW f \in [S -> Nat], NEW c \in Nat, \A k \in S : f[k] <= c,
         \A j, k \in S : j # k => f[j] # f[k]
  PROVE  \E k \in S : \A j \in S \ {k} : f[k] > f[j]
<1>1. PICK k \in S : \A j \in S : f[j] <= f[k]
  BY HighestMember
<1>2. \A j \in S \ {k} : f[k] > f[j]
  BY <1>1
<1> QED
  BY <1>2

\* So the three choices of a read take the checkpoint the snapshot knows as newest.
LEMMA NewestAreHighest ==
  ASSUME TxnInv, NEW a \in Actors, NEW ns \in Namespaces, StillCurrent(a, ns),
         NEW V, V = tx[a].snapshots[ns].versions,
         NEW W, W = InNamespace(ns)
  PROVE  /\ RowsOf(W) # {} =>
              /\ NewestRow(W) \in RowsOf(W)
              /\ \A j \in RowsOf(W) \ {NewestRow(W)} : V[j[2]] < V[NewestRow(W)[2]]
         /\ RecordsOf(a, W) # {} =>
              /\ NewestRecord(a, W) \in RecordsOf(a, W)
              /\ \A j \in RecordsOf(a, W) \ {NewestRecord(a, W)} :
                   V[j[2]] < V[NewestRecord(a, W)[2]]
         /\ ShownIn(a, ns) # {} =>
              /\ NewestShown(a, ns) \in ShownIn(a, ns)
              /\ \A j \in ShownIn(a, ns) \ {NewestShown(a, ns)} :
                   V[j[2]] < V[NewestShown(a, ns)[2]]
<1> DEFINE c == tx[a].snapshots[ns].current
<1>1. /\ c \in Nat
      /\ \A k \in W :
           /\ k \in Keys /\ V[k[2]] \in Nat /\ V[k[2]] <= c
           /\ version[k] # 0 => version[k] = V[k[2]]
           /\ k \in BufferedKeys(a) => tx[a].checkpoints[k] = V[k[2]] /\ V[k[2]] # 0
      /\ \A j, k \in W : j # k /\ V[j[2]] = V[k[2]] => V[j[2]] = 0
  BY KnownVersions
<1> HIDE DEF c
<1>2. /\ RowsOf(W) \subseteq W /\ RecordsOf(a, W) \subseteq W /\ ShownIn(a, ns) \subseteq W
      /\ \A k \in RowsOf(W) : version[k] = V[k[2]] /\ V[k[2]] # 0
      /\ \A k \in RecordsOf(a, W) : tx[a].checkpoints[k] = V[k[2]] /\ V[k[2]] # 0
      /\ \A k \in ShownIn(a, ns) : ShownVersion(a, k) = V[k[2]] /\ V[k[2]] # 0
  BY <1>1 DEF RowsOf, RecordsOf, ShownIn, ShownVersion, Stored, InNamespace
<1>3. ASSUME NEW S \in SUBSET W, S # {}, \A k \in S : V[k[2]] # 0
      PROVE  \E k \in S : \A j \in S \ {k} : V[k[2]] > V[j[2]]
  <2> DEFINE f == [k \in S |-> V[k[2]]]
  <2>1. f \in [S -> Nat] /\ \A k \in S : f[k] <= c
    BY <1>1
  <2>2. \A j, k \in S : j # k => f[j] # f[k]
    BY <1>1, <1>3
  <2>3. \E k \in S : \A j \in S \ {k} : f[k] > f[j]
    <3> HIDE DEF f
    <3> QED
      BY <1>1, <1>3, <2>1, <2>2, HighestIsUnique
  <2> QED
    BY <2>3
<1>4. ASSUME RowsOf(W) # {}
      PROVE  /\ NewestRow(W) \in RowsOf(W)
             /\ \A j \in RowsOf(W) \ {NewestRow(W)} : V[j[2]] < V[NewestRow(W)[2]]
  <2> DEFINE P(k) == \A j \in RowsOf(W) \ {k} :
                       \/ version[k] > version[j]
                       \/ version[k] = version[j] /\ k[2] > j[2]
  <2>1. PICK k \in RowsOf(W) : \A j \in RowsOf(W) \ {k} : V[k[2]] > V[j[2]]
    BY <1>2, <1>3, <1>4
  <2>2. P(k)
    BY <1>2, <2>1
  <2>3. NewestRow(W) = CHOOSE x \in RowsOf(W) : P(x)
    BY Zenon DEF NewestRow
  <2> HIDE DEF P
  <2>4. NewestRow(W) \in RowsOf(W) /\ P(NewestRow(W))
    BY <2>2, <2>3
  <2>5. ASSUME NEW j \in RowsOf(W) \ {NewestRow(W)}
        PROVE  V[j[2]] < V[NewestRow(W)[2]]
    <3>1. version[j] = V[j[2]] /\ version[NewestRow(W)] = V[NewestRow(W)[2]]
      BY <1>2, <2>4
    <3>2. V[j[2]] # V[NewestRow(W)[2]]
      BY <1>1, <1>2, <2>4
    <3>3. \/ version[NewestRow(W)] > version[j]
          \/ version[NewestRow(W)] = version[j] /\ NewestRow(W)[2] > j[2]
      BY <2>4 DEF P
    <3> QED
      BY <3>1, <3>2, <3>3
  <2> QED
    BY <2>4, <2>5
<1>5. ASSUME RecordsOf(a, W) # {}
      PROVE  /\ NewestRecord(a, W) \in RecordsOf(a, W)
             /\ \A j \in RecordsOf(a, W) \ {NewestRecord(a, W)} :
                  V[j[2]] < V[NewestRecord(a, W)[2]]
  <2> DEFINE r == NewestRecord(a, W)
             P(k) == \A j \in RecordsOf(a, W) \ {k} :
                       \/ tx[a].checkpoints[k] > tx[a].checkpoints[j]
                       \/ tx[a].checkpoints[k] = tx[a].checkpoints[j] /\ k[2] > j[2]
  <2>1. PICK k \in RecordsOf(a, W) : \A j \in RecordsOf(a, W) \ {k} : V[k[2]] > V[j[2]]
    BY <1>2, <1>3, <1>5
  <2>2. P(k)
    BY <1>2, <2>1
  <2>3. r = CHOOSE x \in RecordsOf(a, W) : P(x)
    BY Zenon DEF NewestRecord
  <2> HIDE DEF P
  <2>4. r \in RecordsOf(a, W) /\ P(r)
    BY <2>2, <2>3
  <2>5. ASSUME NEW j \in RecordsOf(a, W) \ {r}
        PROVE  V[j[2]] < V[r[2]]
    <3>1. tx[a].checkpoints[j] = V[j[2]] /\ tx[a].checkpoints[r] = V[r[2]]
      BY <1>2, <2>4
    <3>2. V[j[2]] # V[r[2]]
      BY <1>1, <1>2, <2>4
    <3>3. \/ tx[a].checkpoints[r] > tx[a].checkpoints[j]
          \/ tx[a].checkpoints[r] = tx[a].checkpoints[j] /\ r[2] > j[2]
      BY <2>4 DEF P
    <3> QED
      BY <3>1, <3>2, <3>3
  <2> QED
    BY <2>4, <2>5
<1>6. ASSUME ShownIn(a, ns) # {}
      PROVE  /\ NewestShown(a, ns) \in ShownIn(a, ns)
             /\ \A j \in ShownIn(a, ns) \ {NewestShown(a, ns)} :
                  V[j[2]] < V[NewestShown(a, ns)[2]]
  <2> DEFINE r == NewestShown(a, ns)
             P(k) == \A j \in ShownIn(a, ns) \ {k} :
                       \/ ShownVersion(a, k) > ShownVersion(a, j)
                       \/ ShownVersion(a, k) = ShownVersion(a, j) /\ k[2] > j[2]
  <2>1. PICK k \in ShownIn(a, ns) : \A j \in ShownIn(a, ns) \ {k} : V[k[2]] > V[j[2]]
    BY <1>2, <1>3, <1>6
  <2>2. P(k)
    BY <1>2, <2>1
  <2>3. r = CHOOSE x \in ShownIn(a, ns) : P(x)
    BY Zenon DEF NewestShown
  <2> HIDE DEF P
  <2>4. r \in ShownIn(a, ns) /\ P(r)
    BY <2>2, <2>3
  <2>5. ASSUME NEW j \in ShownIn(a, ns) \ {r}
        PROVE  V[j[2]] < V[r[2]]
    <3>1. ShownVersion(a, j) = V[j[2]] /\ ShownVersion(a, r) = V[r[2]]
      BY <1>2, <2>4
    <3>2. V[j[2]] # V[r[2]]
      BY <1>1, <1>2, <2>4
    <3>3. \/ ShownVersion(a, r) > ShownVersion(a, j)
          \/ ShownVersion(a, r) = ShownVersion(a, j) /\ r[2] > j[2]
      BY <2>4 DEF P
    <3> QED
      BY <3>1, <3>2, <3>3
  <2> QED
    BY <2>4, <2>5
<1> QED
  BY <1>4, <1>5, <1>6

\* get_tuple by id: the caller's own record wins over the row, and without one it is the row.
LEMMA ReadById ==
  ASSUME TxnInv, NEW a \in Actors, NEW ns \in Namespaces, StillCurrent(a, ns),
         NEW k \in ShownIn(a, ns)
  PROVE  /\ k \in BufferedKeys(a) => GetTuple(a, {k}) = [key |-> k, buffered |-> TRUE]
         /\ k \notin BufferedKeys(a) => GetTuple(a, {k}) = [key |-> k, buffered |-> FALSE]
<1> DEFINE W == {k}
<1>1. k \in InNamespace(ns) /\ (k \in BufferedKeys(a) \/ version[k] # 0)
  BY DEF ShownIn, Stored, InNamespace
<1>2. /\ version[k] \in Nat /\ tx[a].checkpoints[k] \in Nat
      /\ k \in BufferedKeys(a) => tx[a].checkpoints[k] # 0
      /\ version[k] # 0 /\ k \in BufferedKeys(a) => tx[a].checkpoints[k] = version[k]
  <2>1. k \in Keys /\ tx[a].checkpoints \in [Keys -> Nat] /\ version \in [Keys -> Nat]
    BY RecordFields DEF InNamespace, ShownIn, Stored, TxnInv, IInv, VersionTypes
  <2>2. /\ version[k] # 0 => version[k] = tx[a].snapshots[ns].versions[k[2]]
        /\ k \in BufferedKeys(a) =>
             tx[a].checkpoints[k] = tx[a].snapshots[ns].versions[k[2]]
    BY <1>1, KnownVersions
  <2> QED
    BY <2>1, <2>2 DEF BufferedKeys
<1>3. CASE k \in BufferedKeys(a)
  <2>1. RecordsOf(a, W) = {k}
    BY <1>3 DEF RecordsOf
  <2>2. NewestRecord(a, W) = k
    BY <2>1 DEF NewestRecord
  <2>3. RowsOf(W) # {} => NewestRow(W) = k /\ version[k] # 0
    <3> SUFFICES ASSUME RowsOf(W) # {} PROVE NewestRow(W) = k /\ version[k] # 0
      OBVIOUS
    <3>1. RowsOf(W) = {k} /\ version[k] # 0
      BY DEF RowsOf
    <3> QED
      BY <3>1 DEF NewestRow
  <2>4. RowsOf(W) = {} \/ tx[a].checkpoints[NewestRecord(a, W)] >= version[NewestRow(W)]
    BY <1>2, <1>3, <2>2, <2>3
  <2>5. GetTuple(a, W) = [key |-> NewestRecord(a, W), buffered |-> TRUE]
    BY <2>1, <2>4, GetTupleCases
  <2> QED
    BY <1>3, <2>2, <2>5
<1>4. CASE k \notin BufferedKeys(a)
  <2>1. RecordsOf(a, W) = {} /\ RowsOf(W) = {k}
    BY <1>1, <1>4 DEF RecordsOf, RowsOf
  <2>2. NewestRow(W) = k
    BY <2>1 DEF NewestRow
  <2>3. GetTuple(a, W) = [key |-> NewestRow(W), buffered |-> FALSE]
    BY <2>1, GetTupleCases
  <2> QED
    BY <1>4, <2>2, <2>3
<1> QED
  BY <1>3, <1>4

\* get_tuple without an id and the head of list are the same checkpoint, the newest the
\* transaction knows of.
LEMMA LatestIsHead ==
  ASSUME TxnInv, NEW a \in Actors, NEW ns \in Namespaces, StillCurrent(a, ns)
  PROVE  /\ Latest(a, ns) = ListHead(a, ns)
         /\ ShownIn(a, ns) # {} => Latest(a, ns).key = NewestShown(a, ns)
<1> DEFINE W == InNamespace(ns)
           V == tx[a].snapshots[ns].versions
           C == RecordsOf(a, W)
           R == RowsOf(W)
           h == NewestShown(a, ns)
<1>1. /\ ShownIn(a, ns) = R \cup C /\ C \subseteq BufferedKeys(a) /\ R \subseteq W
      /\ BufferedKeys(a) \cap W = C /\ C \subseteq W
  BY DEF ShownIn, Stored, RowsOf, RecordsOf, InNamespace
<1>2. Latest(a, ns) = GetTuple(a, W)
  BY DEF Latest
<1>3. CASE ShownIn(a, ns) = {}
  <2>1. GetTuple(a, W) = Nothing
    BY <1>1, <1>3, GetTupleCases
  <2> QED
    BY <1>2, <1>3, <2>1, ListHeadCases
<1>4. CASE ShownIn(a, ns) # {}
  <2>1. ListHead(a, ns) = GetTuple(a, {h})
    BY <1>4, ListHeadCases
  <2>2. /\ h \in ShownIn(a, ns)
        /\ \A j \in ShownIn(a, ns) \ {h} : V[j[2]] < V[h[2]]
    BY <1>4, NewestAreHighest
  <2>3. \A k \in W : V[k[2]] \in Nat
    BY KnownVersions
  <2>4. CASE h \in C
    <3>1. /\ NewestRecord(a, W) \in C
          /\ \A j \in C \ {NewestRecord(a, W)} : V[j[2]] < V[NewestRecord(a, W)[2]]
      BY <2>4, NewestAreHighest
    <3>2. NewestRecord(a, W) = h
      BY <1>1, <2>2, <2>3, <2>4, <3>1
    <3>3. R = {} \/ tx[a].checkpoints[h] >= version[NewestRow(W)]
      <4> SUFFICES ASSUME R # {} PROVE tx[a].checkpoints[h] >= version[NewestRow(W)]
        OBVIOUS
      <4>1. NewestRow(W) \in R
        BY NewestAreHighest
      <4>2. V[NewestRow(W)[2]] <= V[h[2]]
        BY <1>1, <2>2, <2>3, <2>4, <4>1
      <4>3. version[NewestRow(W)] = V[NewestRow(W)[2]] /\ tx[a].checkpoints[h] = V[h[2]]
        BY <1>1, <2>4, <4>1, KnownVersions DEF RowsOf
      <4> QED
        BY <1>1, <2>3, <2>4, <4>1, <4>2, <4>3
    <3>4. GetTuple(a, W) = [key |-> h, buffered |-> TRUE]
      BY <2>4, <3>2, <3>3, GetTupleCases
    <3>5. GetTuple(a, {h}) = [key |-> h, buffered |-> TRUE]
      BY <1>1, <2>2, <2>4, ReadById
    <3> QED
      BY <1>2, <2>1, <3>4, <3>5
  <2>5. CASE h \notin C
    <3>1. h \in R /\ h \notin BufferedKeys(a)
      BY <1>1, <2>2, <2>5
    <3>2. /\ NewestRow(W) \in R
          /\ \A j \in R \ {NewestRow(W)} : V[j[2]] < V[NewestRow(W)[2]]
      BY <3>1, NewestAreHighest
    <3>3. NewestRow(W) = h
      BY <1>1, <2>2, <2>3, <3>1, <3>2
    <3>4. C = {} \/ ~(tx[a].checkpoints[NewestRecord(a, W)] >= version[h])
      <4> SUFFICES ASSUME C # {}
                   PROVE  ~(tx[a].checkpoints[NewestRecord(a, W)] >= version[h])
        OBVIOUS
      <4>1. NewestRecord(a, W) \in C
        BY NewestAreHighest
      <4>2. V[NewestRecord(a, W)[2]] < V[h[2]]
        BY <1>1, <2>2, <2>5, <4>1
      <4>3. /\ tx[a].checkpoints[NewestRecord(a, W)] = V[NewestRecord(a, W)[2]]
            /\ version[h] = V[h[2]]
        BY <1>1, <3>1, <4>1, KnownVersions DEF RowsOf
      <4> QED
        BY <1>1, <2>3, <3>1, <4>1, <4>2, <4>3
    <3>5. GetTuple(a, W) = [key |-> h, buffered |-> FALSE]
      BY <3>1, <3>3, <3>4, GetTupleCases
    <3>6. GetTuple(a, {h}) = [key |-> h, buffered |-> FALSE]
      BY <2>2, <3>1, ReadById
    <3> QED
      BY <1>2, <2>1, <3>5, <3>6
  <2> QED
    BY <2>4, <2>5
<1> QED
  BY <1>3, <1>4

\* get_tuple and list inside a transaction show what it has put, and agree with each
\* other; outside one, and in SQLite, the head of list is the latest checkpoint.
THEOREM ReadsSeeOwnPuts == ASSUME ~DeleteRaces PROVE Spec => []ReadsItsOwnPuts
<1>1. TxnInv => ReadsItsOwnPuts
  <2> SUFFICES ASSUME TxnInv, NEW a \in Actors, NEW ns \in Namespaces
               PROVE  /\ SqliteList(ns, 1, Keys) = SqliteLatest(ns)
                      /\ tx[a].phase = "open" /\ StillCurrent(a, ns) =>
                          /\ \A k \in BufferedKeys(a) \cap InNamespace(ns) :
                               GetTuple(a, {k}) = [key |-> k, buffered |-> TRUE]
                          /\ Latest(a, ns) = ListHead(a, ns)
                          /\ \A k \in BufferedKeys(a) \cap InNamespace(ns) :
                               \/ Latest(a, ns).key = k
                               \/ tx[a].checkpoints[k] <
                                    tx[a].snapshots[ns].versions[Latest(a, ns).key[2]]
    BY DEF ReadsItsOwnPuts
  <2>1. SqliteList(ns, 1, Keys) = SqliteLatest(ns)
    BY SqliteHeadIsLatest DEF TxnInv
  <2>2. ASSUME StillCurrent(a, ns), NEW k \in BufferedKeys(a) \cap InNamespace(ns)
        PROVE  /\ GetTuple(a, {k}) = [key |-> k, buffered |-> TRUE]
               /\ \/ Latest(a, ns).key = k
                  \/ tx[a].checkpoints[k] <
                       tx[a].snapshots[ns].versions[Latest(a, ns).key[2]]
    <3>1. k \in ShownIn(a, ns)
      BY DEF ShownIn
    <3>2. GetTuple(a, {k}) = [key |-> k, buffered |-> TRUE]
      BY <2>2, <3>1, ReadById
    <3>3. Latest(a, ns).key = NewestShown(a, ns)
      BY <2>2, <3>1, LatestIsHead
    <3>4. k # NewestShown(a, ns) =>
            tx[a].snapshots[ns].versions[k[2]] <
              tx[a].snapshots[ns].versions[NewestShown(a, ns)[2]]
      BY <2>2, <3>1, NewestAreHighest
    <3>5. tx[a].checkpoints[k] = tx[a].snapshots[ns].versions[k[2]]
      BY <2>2, KnownVersions
    <3> QED
      BY <3>2, <3>3, <3>4, <3>5
  <2>3. StillCurrent(a, ns) => Latest(a, ns) = ListHead(a, ns)
    BY LatestIsHead
  <2> QED
    BY <2>1, <2>2, <2>3
<1> QED
  BY <1>1, TransactionInvariant, PTL
===============================================================================

----------------------------- MODULE Checkpoints ------------------------------
(***************************************************************************)
(* The checkpointer the harness runs on (checkpoint/store.py): the MySQL   *)
(* saver or the SQLite saver, made once and shared by every thread.  The   *)
(* in-memory saver belongs to LangGraph.                                   *)
(***************************************************************************)
EXTENDS CheckpointTxn, SqliteSaver

VARIABLE backend   \* the kind of the configured store

vars == <<txnVars, executionOf, backend>>

Init ==
  /\ TxnInit
  /\ backend \in {"mysql", "sqlite"}

SqliteStep ==
  /\ backend = "sqlite"
  /\ \/ \E a \in Actors :
          /\ Call(a)
          /\ \/ \E k \in Keys : SqlitePut(k)
             \/ \E t \in WriteTargets :
                  SqlitePutWrites(<<t[1], t[2], executionOf[a]>>)
     \/ /\ \E ns \in Namespaces : current[ns] # 0
        /\ SqliteDeleteThread
        /\ UNCHANGED calls
  /\ UNCHANGED <<tx, op, registry, locks, crashes, erased>>

\* Every call has been made and has ended.
Finished ==
  /\ \A a \in Actors : calls[a] = MaxCalls[a] /\ Idle(a) /\ ~InBlock(a)
  /\ LocksHeld = {}
  /\ UNCHANGED txnVars

\* With every connection of the pool under an execution_lock whose holder
\* needs another, nobody gets on.
Starved == LocksTakeThePool /\ UNCHANGED txnVars

Next ==
  /\ \/ backend = "mysql" /\ TxnNext
     \/ SqliteStep
     \/ Finished
     \/ Starved
  /\ UNCHANGED <<executionOf, backend>>

Spec == Init /\ [][Next]_vars /\ TxnFairness

-----------------------------------------------------------------------------
(***************************************************************************)
(* Reading: what a caller inside a transaction sees                        *)
(***************************************************************************)

\* max(candidates, key=(version, checkpoint_id))
NewestOf(S, Version(_)) ==
  CHOOSE k \in S : \A j \in S \ {k} :
    \/ Version(k) > Version(j)
    \/ Version(k) = Version(j) /\ k[2] > j[2]

Nothing == [key |-> <<>>, buffered |-> FALSE]

\* Faulty variant: the table wins when both have the same version.
TableWins(bv, v) == bv > v

\* The buffered record is preferred if it is not older than the row.
BufferWins(bv, v) == bv >= v

\* get_tuple over the rows and the buffered records that match the request.
GetTuple(a, Wanted) ==
  LET rows     == {k \in Wanted : version[k] # 0}
      records  == BufferedKeys(a) \cap Wanted
      row      == NewestOf(rows, LAMBDA k : version[k])
      record   == NewestOf(records, LAMBDA k : tx[a].checkpoints[k])
  IN  CASE records # {} /\ (rows = {} \/ BufferWins(tx[a].checkpoints[record],
                                                    version[row]))
             -> [key |-> record, buffered |-> TRUE]
        [] rows # {} /\ (records = {} \/ ~BufferWins(tx[a].checkpoints[record],
                                                     version[row]))
             -> [key |-> row, buffered |-> FALSE]
        [] OTHER -> Nothing

InNamespace(ns) == {k \in Keys : k[1] = ns}

Latest(a, ns) == GetTuple(a, InNamespace(ns))

\* list, its first element: rows overlaid with the buffer, sorted, and each
\* read again with get_tuple.
ListHead(a, ns) ==
  LET shown == Stored(ns) \cup (BufferedKeys(a) \cap InNamespace(ns))
      Shown(k) == IF k \in BufferedKeys(a) THEN tx[a].checkpoints[k] ELSE version[k]
  IN  IF shown = {} THEN Nothing ELSE GetTuple(a, {NewestOf(shown, Shown)})

-----------------------------------------------------------------------------
(***************************************************************************)
(* Properties                                                              *)
(***************************************************************************)

\* Both savers implement the store: only whole commits are visible, and every
\* new version is fresh in its namespace.
ImplementsStore == StoreSpec

\* The namespace has not moved since the snapshot, nor been deleted under it.
StillCurrent(a, ns) ==
  /\ tx[a].snapshots[ns].loaded
  /\ a \notin erased
  /\ tx[a].snapshots[ns].base = current[ns]

\* Past its version check a flush holds the rows it checked: until it commits,
\* every namespace it writes is exactly as its snapshot saw it, so no
\* checkpoint of another execution is lost or numbered twice
\* (CheckpointVersionConflict otherwise).
FlushSeesItsSnapshot ==
  \A a \in Actors, ns \in Namespaces :
    /\ op[a].kind = "flush"
    /\ op[a].stage # "lock"
    /\ tx[a].snapshots[ns].loaded
    => /\ StillCurrent(a, ns)
       /\ \A i \in Ids :
            version[<<ns, i>>] =
              IF tx[a].snapshots[ns].versions[i] > tx[a].snapshots[ns].base
                THEN 0
                ELSE tx[a].snapshots[ns].versions[i]

\* checkpoint_transaction commits "all checkpoint records produced by one graph
\* invocation" atomically: the step that makes anything of it visible makes
\* all of it visible, wherever a failure or a crash falls.
AllOrNothing ==
  [][\A a \in Actors :
       op[a].kind = "flush" /\ op'[a] # op[a] /\ store' # store =>
         /\ \A k \in BufferedKeys(a) : version'[k] = tx[a].checkpoints[k]
         /\ tx[a].writes \subseteq pending'
         /\ \A ns \in Namespaces : tx[a].snapshots[ns].loaded =>
              current'[ns] = tx[a].snapshots[ns].current]_vars

\* Inside a transaction whose snapshot is current, get_tuple and list see what
\* it has put: by id it reads its own record, and the latest checkpoint is the
\* one with the highest version the transaction knows of.  Outside one, and in
\* SQLite, the head of list is the latest checkpoint.
ReadsItsOwnPuts ==
  \A a \in Actors, ns \in Namespaces :
    /\ SqliteList(ns, 1, Keys) = SqliteLatest(ns)
    /\ tx[a].phase = "open" /\ StillCurrent(a, ns) =>
        /\ \A k \in BufferedKeys(a) \cap InNamespace(ns) :
             GetTuple(a, {k}) = [key |-> k, buffered |-> TRUE]
        /\ Latest(a, ns) = ListHead(a, ns)
        /\ \A k \in BufferedKeys(a) \cap InNamespace(ns) :
             \/ Latest(a, ns).key = k
             \/ tx[a].checkpoints[k] <
                  tx[a].snapshots[ns].versions[Latest(a, ns).key[2]]

\* A sealed transaction and a direct put end: the rows and the gaps they lock
\* and the connections of the pool never keep them waiting for good, unless
\* execution_lock has taken every connection for threads that need another
\* (pool.get() waits without a timeout): then nobody gets on.
OperationsEnd ==
  \A a \in Actors :
    tx[a].phase = "sealed" \/ ~Idle(a) ~>
      \/ tx[a].phase # "sealed" /\ Idle(a)
      \/ LocksTakeThePool
===============================================================================

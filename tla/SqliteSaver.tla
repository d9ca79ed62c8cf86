------------------------------ MODULE SqliteSaver ------------------------------
(***************************************************************************)
(* The SQLite checkpoint saver (checkpoint/sqlite_saver.py).  One shared   *)
(* connection and one re-entrant lock: every operation is one critical     *)
(* section, and a failure inside it rolls it back.                         *)
(***************************************************************************)
EXTENDS CheckpointStore, FiniteSets

\* put: the counter moves and the checkpoint takes its value, also when the
\* checkpoint was there already (ON CONFLICT ... version = excluded.version).
SqlitePut(k) ==
  /\ current' = [current EXCEPT ![k[1]] = @ + 1]
  /\ version' = [version EXCEPT ![k] = current'[k[1]]]
  /\ UNCHANGED pending

SqlitePutWrites(w) ==
  /\ pending' = pending \cup {w}
  /\ UNCHANGED <<current, version>>

SqliteDeleteThread == Erase

\* get_tuple without a checkpoint id: the latest, or none.
SqliteLatest(ns) ==
  {k \in Stored(ns) : \A j \in Stored(ns) \ {k} : Newer(k, j)}

\* list: the LIMIT is part of the query, the filter on the metadata is applied
\* to the rows it leaves.
SqliteList(ns, limit, Matching) ==
  {k \in Stored(ns) :
     Cardinality({j \in Stored(ns) : Newer(j, k)}) < limit} \cap Matching
===============================================================================

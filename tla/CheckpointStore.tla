--------------------------- MODULE CheckpointStore ----------------------------
(***************************************************************************)
(* What every checkpoint saver promises: the tables of one graph thread    *)
(* (persistence/mysql_schema.py) change by whole commits.  A commit may    *)
(* store any number of checkpoints, and each of them either keeps the      *)
(* version it has or takes one its namespace has never given out.          *)
(*                                                                         *)
(* Ids and namespaces are numbers because the savers sort them (they are   *)
(* strings in the code).  Contents are left out: a checkpoint is its id    *)
(* and version, a pending write the checkpoint it belongs to and the task  *)
(* that wrote it.                                                          *)
(***************************************************************************)
EXTENDS Naturals

CONSTANTS
  Namespaces,   \* the checkpoint_ns of the thread
  Ids,          \* checkpoint ids
  NoId,         \* the empty checkpoint_id of a write without a checkpoint
  Tasks         \* task ids of pending writes

ASSUME StoreAssumption ==
  /\ Namespaces \subseteq Nat
  /\ Ids \subseteq Nat
  /\ NoId \notin Ids

Keys == Namespaces \X Ids
WriteKeys == Namespaces \X (Ids \cup {NoId}) \X Tasks

VARIABLES
  current,      \* langgraph_checkpoint_threads.current_version, 0: no row
  version,      \* langgraph_checkpoints.version, 0: no row
  pending       \* langgraph_checkpoint_writes

store == <<current, version, pending>>

Empty ==
  /\ current = [ns \in Namespaces |-> 0]
  /\ version = [k \in Keys |-> 0]
  /\ pending = {}

\* New versions come from above the namespace's counter, each once.
Commit ==
  /\ current' \in [Namespaces -> Nat]
  /\ \A ns \in Namespaces : current[ns] <= current'[ns]
  /\ version' \in [Keys -> Nat]
  /\ \A k \in Keys : version'[k] # version[k] =>
       /\ current[k[1]] < version'[k]
       /\ version'[k] <= current'[k[1]]
  /\ \A j, k \in Keys :
       /\ j # k /\ j[1] = k[1]
       /\ version'[j] # version[j] /\ version'[k] # version[k]
       => version'[j] # version'[k]
  /\ pending' \in SUBSET WriteKeys

\* delete_thread
Erase ==
  /\ current' = [ns \in Namespaces |-> 0]
  /\ version' = [k \in Keys |-> 0]
  /\ pending' = {}

StoreSpec == Empty /\ [][Commit \/ Erase]_store

Stored(ns) == {k \in Keys : k[1] = ns /\ version[k] # 0}

\* ORDER BY version DESC, checkpoint_id DESC
Newer(j, k) ==
  \/ version[j] > version[k]
  \/ version[j] = version[k] /\ j[2] > k[2]

\* Within a namespace every checkpoint has a version of its own and the counter
\* is not behind any of them, so "the latest checkpoint" is well defined
\* (ORDER BY version DESC) and the check "namespace version is behind its
\* persisted checkpoints" of _load_namespace_snapshot never fires.
VersionsOrdered ==
  /\ \A k \in Keys : version[k] <= current[k[1]]
  /\ \A j, k \in Keys :
       j # k /\ j[1] = k[1] /\ version[j] = version[k] => version[j] = 0
===============================================================================

------------------------------ MODULE RetryCall -------------------------------
(***************************************************************************)
(* One call of another service: with_retry (retry.py) around the request   *)
(* of the Go tool bridge's read tools (tool_bridge.py) or of the RAG       *)
(* runtime (rag_runtime_client.py).                                        *)
(*                                                                         *)
(* The calls are made on the thread that runs the graph.  No deadline is   *)
(* bound there (RequestLifecycle.tla), so current_retry_budget returns     *)
(* None and nothing but the number of attempts bounds a call: the backoff  *)
(* between two attempts takes its time and is never given up.  An answer   *)
(* with status 2xx is taken to be well-formed.                             *)
(***************************************************************************)
EXTENDS Naturals, FiniteSets

CONSTANTS
  MaxRetries,  \* tool_bridge_max_retries, rag_runtime_max_retries
  Replies      \* the sets of chunks a service may answer with

Services == {"tool_bridge", "rag_runtime"}

VARIABLES
  configured,  \* the services that have an address (and a token)
  call         \* the call in progress

NoCall == [to |-> "nobody", attempt |-> 0]

CallInit ==
  /\ configured \in SUBSET Services
  /\ call = NoCall

\* max_attempts of with_retry
MaxAttempts == MaxRetries + 1

Request(service) == call' = [to |-> service, attempt |-> 1]

Awaiting(service) == call.to = service

\* A network error, 429 or 5xx while attempts are left: on_retry, backoff, the
\* next attempt.
Retry ==
  /\ call.to \in Services
  /\ call.attempt < MaxAttempts
  /\ call' = [call EXCEPT !.attempt = @ + 1]

\* The call ends with the service's answer, or with the exception of an attempt
\* that is not retried: another status, or the last attempt.
EndCall == call' = NoCall
=============================================================================

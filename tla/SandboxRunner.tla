---------------------------- MODULE SandboxRunner ------------------------------
(***************************************************************************)
(* A one-shot sandbox (services/sandbox-runner): the gate in front of its  *)
(* two operations (main.py), the MCP session of the admitted request       *)
(* (mcp_runner.py) and the transport that carries it over a UNIX socket to *)
(* the sandbox's supervisor (supervisor_transport.py): the handshake, the  *)
(* reader and the writer task, and the shielded close with its control     *)
(* frame.                                                                  *)
(*                                                                         *)
(* The supervisor is not in the repository.  It may read slowly or not at  *)
(* all, send any frame at any time, and closes the socket after the        *)
(* timeout it was given at the latest.  A frame to it is one unit on the   *)
(* wire, or two (a head and the rest) when it carries a message, so that a *)
(* send can be cut in the middle.  The SDK's ClientSession is a caller     *)
(* that asks and waits, and a loop that receives and answers the server's  *)
(* requests; its streams have no buffer.                                   *)
(***************************************************************************)
EXTENDS Naturals, Sequences

CONSTANTS
  Requests,      \* the HTTP requests the sandbox gets
  Expected,      \* those with the expected operation and execution id
  Exchanges,     \* requests of one session: initialize, then the operation's
  PeerRequests,  \* requests the server makes of the client
  Buffer         \* units the socket holds in each direction

ASSUME SandboxAssumption ==
  /\ Expected \subseteq Requests
  /\ Exchanges \in Nat \ {0}
  /\ PeerRequests \in Nat
  /\ Buffer \in Nat \ {0}

VARIABLES
  operation,  \* SANDBOX_OPERATION
  request,    \* where each request is: new, admitted, or its status code
  consumed,   \* _one_shot_consumed
  host,       \* where the admitted request's own task is
  outcome,    \* how its session ended
  timedOut,   \* the deadline of fail_after has passed
  asked,      \* requests answered so far
  loop,       \* the session's receive loop: idle, or with a reply to send
  lock,       \* the holder of send_lock
  writer,     \* socket_writer
  message,    \* the message it sends
  reader,     \* socket_reader
  item,       \* the frame it delivers
  wire,       \* units under way to the supervisor
  inbound,    \* frames under way from it
  peer        \* the supervisor

gateVars == <<operation, request, consumed>>
sessionVars == <<host, outcome, timedOut, asked, loop>>
transportVars == <<lock, writer, message, reader, item>>
socketVars == <<wire, inbound, peer>>
vars == <<gateVars, sessionVars, transportVars, socketVars>>

Init ==
  /\ operation \in {"validate", "execute"}
  /\ request = [r \in Requests |-> "new"]
  /\ consumed = FALSE
  /\ host = "none" /\ outcome = "" /\ timedOut = FALSE /\ asked = 0
  /\ loop = "idle"
  /\ lock = "free"
  /\ writer = "gone" /\ message = ""
  /\ reader = "gone" /\ item = ""
  /\ wire = <<>> /\ inbound = <<>>
  /\ peer = [last |-> "", heard |-> 0, told |-> 0, asked |-> 0, gone |-> FALSE]

-----------------------------------------------------------------------------
(***************************************************************************)
(* The gate                                                                *)
(***************************************************************************)
Verdict(r) ==
  CASE r \notin Expected -> "403"
    [] r \in Expected /\ consumed -> "409"
    [] OTHER -> "admitted"

\* Faulty variant: every request uses up the shot.
UseUpAnyway(r) == TRUE

\* Who is not expected does not use up the shot.
UsesUp(r) == Verdict(r) = "admitted"

\* claim_one_shot
Claim(r) ==
  /\ request[r] = "new"
  /\ request' = [request EXCEPT ![r] = Verdict(r)]
  /\ consumed' = (consumed \/ UsesUp(r))
  /\ host' = IF Verdict(r) = "admitted" THEN "unwrap" ELSE host
  /\ UNCHANGED <<operation, outcome, timedOut, asked, loop, transportVars,
                 socketVars>>

Answer(code) ==
  /\ host' = "done"
  /\ request' = [r \in Requests |->
                   IF request[r] = "admitted" THEN code ELSE request[r]]
  /\ UNCHANGED <<operation, consumed, outcome, timedOut, asked, loop,
                 transportVars>>

-----------------------------------------------------------------------------
(***************************************************************************)
(* Opening the session                                                     *)
(***************************************************************************)
UnwrapSecrets ==
  /\ host = "unwrap"
  /\ \/ /\ host' = "connect"
        /\ UNCHANGED <<gateVars, outcome, timedOut, asked, loop, transportVars>>
     \/ Answer("422")
  /\ UNCHANGED socketVars

\* The socket is connected and START, with the timeout, is on its way; a bad
\* definition, an unavailable secret or supervisor ends the request.
Connect ==
  /\ host = "connect"
  /\ \/ /\ host' = "handshake"
        /\ wire' = <<"start">>
        /\ UNCHANGED <<gateVars, outcome, timedOut, asked, loop, transportVars,
                       inbound, peer>>
     \/ Answer("422") /\ UNCHANGED socketVars

\* READY starts the reader and the writer; any other frame, or none, fails.
Handshake ==
  /\ host = "handshake"
  /\ inbound # <<>>
  /\ inbound' = Tail(inbound)
  /\ IF Head(inbound) = "ready"
       THEN /\ host' = "ask"
            /\ reader' = "read"
            /\ writer' = "idle"
            /\ UNCHANGED <<gateVars, outcome, timedOut, asked, loop, lock,
                           message, item>>
       ELSE Answer("422")
  /\ UNCHANGED <<wire, peer>>

HandshakeFails ==
  /\ host = "handshake"
  /\ \/ timedOut /\ Answer("504")
     \/ peer.gone /\ inbound = <<>> /\ Answer("422")
  /\ UNCHANGED socketVars

-----------------------------------------------------------------------------
(***************************************************************************)
(* The session                                                             *)
(***************************************************************************)
Talking == host \in {"ask", "wait"}

\* The session's streams are closed and its tasks cancelled; the transport's
\* shielded close comes next.
Leave(how) ==
  /\ host' = "lock"
  /\ outcome' = how
  /\ loop' = "idle"
  /\ UNCHANGED <<gateVars, timedOut, socketVars>>

\* A message is handed to the writer when that waits for one.
Ask ==
  /\ host = "ask"
  /\ writer = "idle"
  /\ writer' = "lock"
  /\ message' = "ask"
  /\ host' = "wait"
  /\ UNCHANGED <<gateVars, outcome, timedOut, asked, loop, lock, reader, item,
                 socketVars>>

Reply ==
  /\ loop = "reply"
  /\ writer = "idle"
  /\ writer' = "lock"
  /\ message' = "reply"
  /\ loop' = "idle"
  /\ UNCHANGED <<gateVars, host, outcome, timedOut, asked, lock, reader, item,
                 socketVars>>

\* The writer no longer takes messages.
SessionBreaks ==
  /\ writer \in {"deliver", "gone"}
  /\ host = "ask" \/ (host = "wait" /\ loop = "reply")
  /\ Leave("failed")
  /\ UNCHANGED <<asked, transportVars>>

\* fail_after surrounds the session of an execution, its close included.
Timeout ==
  /\ operation = "execute"
  /\ host \notin {"none", "unwrap", "done"}
  /\ ~timedOut
  /\ timedOut' = TRUE
  /\ UNCHANGED <<gateVars, host, outcome, asked, loop, transportVars, socketVars>>

SessionCancelled ==
  /\ Talking
  /\ timedOut
  /\ Leave("cancelled")
  /\ UNCHANGED <<asked, transportVars>>

\* The session's own timeout for an answer, which only validation reaches.
ReadTimeout ==
  /\ operation = "validate"
  /\ host = "wait"
  /\ Leave("failed")
  /\ UNCHANGED <<asked, transportVars>>

-----------------------------------------------------------------------------
(***************************************************************************)
(* The reader                                                              *)
(***************************************************************************)
\* The end of the connection and every failure count as an error frame.
Receive ==
  /\ reader = "read"
  /\ inbound # <<>> \/ peer.gone
  /\ reader' = "deliver"
  /\ item' = IF inbound = <<>> THEN "error" ELSE Head(inbound)
  /\ inbound' = IF inbound = <<>> THEN <<>> ELSE Tail(inbound)
  /\ UNCHANGED <<gateVars, sessionVars, lock, writer, message, wire, peer>>

DeliverResponse ==
  /\ reader = "deliver" /\ item = "response"
  /\ host = "wait" /\ loop = "idle"
  /\ reader' = "read"
  /\ asked' = asked + 1
  /\ IF asked' = Exchanges
       THEN Leave("ok")
       ELSE /\ host' = "ask"
            /\ UNCHANGED <<gateVars, outcome, timedOut, loop, socketVars>>
  /\ UNCHANGED <<lock, writer, message, item>>

DeliverRequest ==
  /\ reader = "deliver" /\ item = "request"
  /\ Talking /\ loop = "idle"
  /\ reader' = "read"
  /\ loop' = "reply"
  /\ UNCHANGED <<gateVars, host, outcome, timedOut, asked, lock, writer,
                 message, item, socketVars>>

\* deliver_error, of any frame that is not a message: the stream ends with it.
DeliverError ==
  /\ reader = "deliver" /\ item \notin {"response", "request"}
  /\ Talking /\ loop = "idle"
  /\ reader' = "gone"
  /\ Leave("failed")
  /\ UNCHANGED <<asked, lock, writer, message, item>>

\* Nobody receives any more: the streams of the session are closed.
DeliverNowhere ==
  /\ reader = "deliver"
  /\ ~Talking
  /\ reader' = "gone"
  /\ UNCHANGED <<gateVars, sessionVars, lock, writer, message, item, socketVars>>

-----------------------------------------------------------------------------
(***************************************************************************)
(* The writer                                                              *)
(***************************************************************************)
\* "async with send_lock": the lock is released however the send ends.
Released == IF lock = "writer" THEN "free" ELSE lock

WriterLocks ==
  /\ writer = "lock"
  /\ lock = "free"
  /\ lock' = "writer"
  /\ writer' = "head"
  /\ UNCHANGED <<gateVars, sessionVars, message, reader, item, socketVars>>

SocketTakes(unit) ==
  /\ ~peer.gone
  /\ Len(wire) < Buffer
  /\ wire' = Append(wire, unit)

WriterSends ==
  /\ writer \in {"head", "rest"}
  /\ SocketTakes(IF writer = "head" THEN "head" ELSE message)
  /\ writer' = IF writer = "head" THEN "rest" ELSE "idle"
  /\ lock' = IF writer = "head" THEN lock ELSE "free"
  /\ UNCHANGED <<gateVars, sessionVars, message, reader, item, inbound, peer>>

\* The frame is too long, which is found before any of it is sent, or the
\* socket is gone.
WriterFails ==
  /\ writer = "head" \/ (writer = "rest" /\ peer.gone)
  /\ writer' = "deliver"
  /\ lock' = Released
  /\ UNCHANGED <<gateVars, sessionVars, message, reader, item, socketVars>>

\* The writer's deliver_error: the session, if it still receives, ends.
WriterDelivers ==
  /\ writer = "deliver"
  /\ writer' = "gone"
  /\ IF Talking
       THEN loop = "idle" /\ Leave("failed")
       ELSE UNCHANGED <<gateVars, host, outcome, timedOut, loop, socketVars>>
  /\ UNCHANGED <<asked, lock, message, reader, item>>

\* Cancellation reaches the two tasks: by fail_after, or by the task group's own
\* scope at the end of the close.
CancelTask ==
  /\ timedOut \/ host = "shut"
  /\ \/ /\ writer # "gone"
        /\ writer' = "gone"
        /\ lock' = Released
        /\ UNCHANGED reader
     \/ /\ reader # "gone"
        /\ reader' = "gone"
        /\ UNCHANGED <<lock, writer>>
  /\ UNCHANGED <<gateVars, sessionVars, message, item, socketVars>>

-----------------------------------------------------------------------------
(***************************************************************************)
(* The shielded close                                                      *)
(***************************************************************************)
\* Faulty variant: the control frame does not wait for the writer.
MayCloseAtOnce == TRUE

MayClose == lock = "free"

TakeLock ==
  /\ host = "lock"
  /\ MayClose
  /\ lock' = "host"
  /\ host' = "control"
  /\ UNCHANGED <<gateVars, outcome, timedOut, asked, loop, writer, message,
                 reader, item, socketVars>>

\* CANCEL or CLOSE_STDIN: waits for room in the socket, and a socket that is
\* gone is ignored.
SendControl ==
  /\ host = "control"
  /\ IF peer.gone THEN UNCHANGED wire ELSE SocketTakes("control")
  /\ host' = "shut"
  /\ lock' = "free"
  /\ UNCHANGED <<gateVars, outcome, timedOut, asked, loop, writer, message,
                 reader, item, inbound, peer>>

\* The task group has ended.  A result still has to pass the checks of the
\* output; a timeout during the close takes it away again.
Respond ==
  /\ host = "shut"
  /\ reader = "gone" /\ writer = "gone"
  /\ \E code \in (CASE outcome = "ok" -> {"200", "422"}
                    [] outcome = "failed" -> {"422"}
                    [] outcome = "cancelled" -> {"504"})
                 \cup (IF timedOut THEN {"504"} ELSE {}) : Answer(code)
  /\ UNCHANGED socketVars

-----------------------------------------------------------------------------
(***************************************************************************)
(* The supervisor                                                          *)
(***************************************************************************)
\* Whatever follows a head is the rest of its frame.
PeerReads ==
  /\ ~peer.gone
  /\ host # "done"
  /\ wire # <<>>
  /\ wire' = Tail(wire)
  /\ peer' = [peer EXCEPT
                !.last = IF @ = "head" /\ Head(wire) = "control" THEN @
                         ELSE Head(wire),
                !.heard = IF Head(wire) = "ask" THEN @ + 1 ELSE @]
  /\ UNCHANGED <<gateVars, sessionVars, transportVars, inbound>>

\* READY once, answers to what was heard, the server's requests, and at any time
\* a frame that ends the session (ERROR, EXIT or one that is not valid).
PeerSends(frame) ==
  /\ ~peer.gone
  /\ peer.last # ""
  /\ host # "done"
  /\ Len(inbound) < Buffer
  /\ inbound' = Append(inbound, frame)
  /\ CASE frame = "ready" -> host = "handshake" /\ inbound = <<>>
                               /\ UNCHANGED peer
       [] frame = "response" -> peer.told < peer.heard
                                  /\ peer' = [peer EXCEPT !.told = @ + 1]
       [] frame = "request" -> host # "handshake" /\ peer.asked < PeerRequests
                                 /\ peer' = [peer EXCEPT !.asked = @ + 1]
       [] frame = "error" -> UNCHANGED peer
  /\ UNCHANGED <<gateVars, sessionVars, transportVars, wire>>

PeerCloses ==
  /\ ~peer.gone
  /\ host \notin {"none", "unwrap", "connect", "done"}
  /\ peer' = [peer EXCEPT !.gone = TRUE]
  /\ UNCHANGED <<gateVars, sessionVars, transportVars, wire, inbound>>

Ended ==
  /\ \A r \in Requests : request[r] \notin {"new", "admitted"}
  /\ UNCHANGED vars

RunnerStep ==
  \/ UnwrapSecrets \/ Connect \/ Handshake \/ HandshakeFails
  \/ Ask \/ Reply \/ SessionBreaks \/ SessionCancelled
  \/ Receive \/ DeliverResponse \/ DeliverRequest \/ DeliverError \/ DeliverNowhere
  \/ WriterLocks \/ WriterSends \/ WriterFails \/ WriterDelivers \/ CancelTask
  \/ TakeLock \/ SendControl \/ Respond

PeerStep ==
  \/ PeerReads \/ PeerCloses
  \/ \E frame \in {"ready", "response", "request", "error"} : PeerSends(frame)

Next ==
  \/ \E r \in Requests : Claim(r)
  \/ RunnerStep \/ Timeout \/ ReadTimeout \/ PeerStep \/ Ended

\* The event loop runs what can run.  The supervisor ends the execution after
\* the timeout it got with START; nothing else is assumed of it.
Spec == Init /\ [][Next]_vars /\ WF_vars(RunnerStep) /\ WF_vars(PeerCloses)

-----------------------------------------------------------------------------
(***************************************************************************)
(* Properties                                                              *)
(***************************************************************************)
LastSent == IF wire = <<>> THEN peer.last ELSE wire[Len(wire)]

\* The control frame starts where a frame ends, so that the supervisor can
\* read it as one, unless the deadline has cancelled the writer in the middle of
\* its frame: a close for any other reason waits for the writer's send to end.
ControlFrameIsReadable ==
  [][host = "control" /\ host' = "shut" /\ ~peer.gone /\ LastSent = "head"
     => timedOut /\ writer = "gone"]_vars

\* However many requests reach a one-shot sandbox, in whatever order, when an
\* expected one has come then one of these gets its session's answer, whatever
\* the supervisor does before its time is up.
ShotReachesItsEnd ==
  (\E r \in Expected : request[r] # "new")
  ~> (\E r \in Expected : request[r] \in {"200", "422", "504"})
=============================================================================

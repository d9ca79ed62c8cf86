-------------------------- MODULE MCSandboxRunner ------------------------------
(***************************************************************************)
(* Small instance of SandboxRunner: an expected request, its repetition    *)
(* and a foreign one, two exchanges, one request of the server, and a      *)
(* socket that holds one unit, so that it is full in the middle of every   *)
(* frame.                                                                  *)
(***************************************************************************)
EXTENDS SandboxRunner

MCRequests == {"first", "again", "foreign"}
MCExpected == {"first", "again"}
=============================================================================

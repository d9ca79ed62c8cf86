---------------------------- MODULE MCCheckpoints -----------------------------
(***************************************************************************)
(* A small instance of Checkpoints: two threads, of one execution or of    *)
(* two.                                                                    *)
(***************************************************************************)
EXTENDS Checkpoints

CONSTANTS x, y, a1, a2

MCExecutions == {[a \in Actors |-> x], [a \in Actors |-> IF a = a1 THEN x ELSE y]}
MCWriteTargets == {<<1, NoId>>, <<2, 2>>}
MCLockers == {<<a1, 1>>, <<a2, 2>>}
MCCalls == [a \in Actors |-> IF a = a1 THEN 2 ELSE 1]
===============================================================================

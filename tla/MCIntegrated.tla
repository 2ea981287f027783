---------------------------- MODULE MCIntegrated ----------------------------
(***************************************************************************)
(* Three application threads and one warm-up request: up to three requests *)
(* are in flight in the warm-up, and up to two threads stop at the gate.   *)
(* The measurement is of three requests, at least as many as there are     *)
(* threads, so that both bounds on the dump are met.                       *)
(***************************************************************************)
EXTENDS Integrated

MCClientOf == [t \in Threads |-> 0]
=============================================================================

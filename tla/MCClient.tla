------------------------------ MODULE MCClient ------------------------------
(***************************************************************************)
(* Two Client objects in one process: client 0 has two threads, so that    *)
(* the barriers, the gate and the id allocation are contended, client 1    *)
(* has one, so that ids of different clients can meet.                     *)
(***************************************************************************)
EXTENDS Client, TLC

CONSTANTS t1, t2, t3

MCThreads == {t1, t2, t3}
MCClientOf == (t1 :> 0) @@ (t2 :> 0) @@ (t3 :> 1)
=============================================================================

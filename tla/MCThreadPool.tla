---------------------------- MODULE MCThreadPool ----------------------------
(***************************************************************************)
(* Two workers and two callers that submit up to three tasks to a queue of *)
(* one, and stop the pool, in any order.                                   *)
(***************************************************************************)
EXTENDS ThreadPool, TLC

CONSTANTS w1, w2, c1, c2, k1, k2, k3
=============================================================================

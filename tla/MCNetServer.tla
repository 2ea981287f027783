---------------------------- MODULE MCNetServer ----------------------------
(***************************************************************************)
(* Two workers race on the counter, on clientFds and on the connections of *)
(* two clients, of which one sends up to two requests and the other one;   *)
(* one warm-up request and a measurement of one reach both broadcasts and  *)
(* the end of the run.                                                     *)
(***************************************************************************)
EXTENDS NetServer, TLC

CONSTANTS w1, w2, c1, c2

Symmetry == Permutations(Workers)

MCMaxSent == [c \in Conns |-> IF c = c1 THEN 2 ELSE 1]

MCOneEach == [c \in Conns |-> 1]
=============================================================================

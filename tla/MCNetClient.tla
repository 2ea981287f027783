---------------------------- MODULE MCNetClient ----------------------------
(***************************************************************************)
(* One process with two threads: two clients with a sender and a receiver  *)
(* each, against a server that may die and may say FINISH twice; or one    *)
(* client whose senders share the gate and whose receivers share a         *)
(* connection.                                                             *)
(***************************************************************************)
EXTENDS NetClient, TLC

CONSTANTS t1, t2

MCThreads == {t1, t2}

MCOwnClient == (t1 :> 0) @@ (t2 :> 1)
MCOneClient == (t1 :> 0) @@ (t2 :> 0)

MCFinishTwice == ("ROI_BEGIN" :> 1) @@ ("FINISH" :> 2)
MCOnce == ("ROI_BEGIN" :> 1) @@ ("FINISH" :> 1)
=============================================================================

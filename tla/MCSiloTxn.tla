----------------------------- MODULE MCSiloTxn -----------------------------
(* SiloTxn on two records, with the transactions that can disagree: two    *)
(* that read one record and write the other, one that updates both, putting *)
(* them against the order of their addresses, one that reads both, and a   *)
(* snapshot of both.                                                       *)
EXTENDS SiloTxn

MCCores == {1, 2, 3}
MCTuples == {1, 2}

P(snapshot, reads, writes) ==
    [snapshot |-> snapshot, reads |-> reads, writes |-> writes]

MCPrograms ==
    [c \in MCCores |->
        CASE c = 1 -> {P(FALSE, <<1>>, <<2>>), P(FALSE, <<1>>, <<2, 1>>)}
          [] c = 2 -> {P(FALSE, <<2>>, <<1>>), P(FALSE, <<2>>, <<1, 2>>)}
          [] c = 3 -> {P(FALSE, <<1, 2>>, <<>>), P(TRUE, <<1, 2>>, <<>>)}]

MCMaxTxns == [c \in MCCores |-> 1]
=============================================================================

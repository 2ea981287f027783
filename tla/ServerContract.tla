--------------------------- MODULE ServerContract ---------------------------
(***************************************************************************)
(* What the networked server promises the clients at the other end of its  *)
(* connections, whatever its threads do: a request is answered at most     *)
(* once, after it was asked and on the connection it was asked on; frames  *)
(* on a connection stay in the order they were written; the announcements  *)
(* (ROI_BEGIN and FINISH) come after as many responses, over all           *)
(* connections, as the period they close has requests.  Nothing is         *)
(* promised about how often an announcement is made, or on which           *)
(* connections: the counter behind them is not synchronised.               *)
(*                                                                         *)
(* NetServer implements this module, NetClient is built on it.             *)
(***************************************************************************)
EXTENDS Integers, Sequences, FiniteSets

CONSTANTS Conns,     \* the connections
          Request,   \* every id a request can carry
          WarmupReqs, MaxReqs

VARIABLES asked,     \* [Conns -> SUBSET Request], the requests asked so far
          toClient   \* [Conns -> Seq], every frame written, in order

contract == <<asked, toClient>>

\* The requests answered on connection c, and over all connections.
Answered(c) ==
  {toClient[c][i].id :
     i \in {j \in DOMAIN toClient[c] : toClient[c][j].type = "RESPONSE"}}
AllAnswered == UNION {{c} \X Answered(c) : c \in Conns}

\* The response after which a period is over.
EndOf(type) ==
  IF type = "ROI_BEGIN" THEN WarmupReqs ELSE WarmupReqs + MaxReqs

\* Its announcement may be made.
Due(type) == AllAnswered # {} /\ Cardinality(AllAnswered) >= EndOf(type)

Init ==
  /\ asked = [c \in Conns |-> {}]
  /\ toClient = [c \in Conns |-> <<>>]

\* A client asks.
Ask(c, id) ==
  /\ id \in Request \ asked[c]
  /\ asked' = [asked EXCEPT ![c] = @ \cup {id}]
  /\ UNCHANGED toClient

Write(c, frame) == toClient' = [toClient EXCEPT ![c] = Append(@, frame)]

\* The server answers.
Answer(c, id) ==
  /\ id \in asked[c] \ Answered(c)
  /\ Write(c, [type |-> "RESPONSE", id |-> id])
  /\ UNCHANGED asked

\* The server tells one client that a period is over.
Announce(c, type) ==
  /\ Due(type)
  /\ Write(c, [type |-> type, id |-> <<>>])
  /\ UNCHANGED asked

Next ==
  \E c \in Conns :
    \/ \E id \in Request : Ask(c, id)
    \/ \E id \in asked[c] : Answer(c, id)
    \/ \E type \in {"ROI_BEGIN", "FINISH"} : Announce(c, type)

Spec == Init /\ [][Next]_contract
=============================================================================

---------------------------- MODULE Measurement ----------------------------
(***************************************************************************)
(* What the TailBench harness promises about a measurement, whatever the   *)
(* configuration (integrated or networked) that runs it: every client goes *)
(* from INIT through WARMUP to the region of interest (ROI); a request     *)
(* carries an id no other request of any client ever carries; it is        *)
(* answered at most once; its latency is recorded exactly when it is       *)
(* answered in the ROI; nothing recorded in the ROI is ever dropped.       *)
(* Threads, barriers, locks and condition variables do not appear here:    *)
(* module Client is the detailed specification that implements this one.   *)
(***************************************************************************)
CONSTANTS Clients,   \* the Client objects of one load generator
          Id         \* every value Request::id can take

VARIABLES phase,     \* [Clients -> {"INIT", "WARMUP", "ROI"}]
          issued,    \* the ids handed out so far, over all clients
          pending,   \* [Clients -> SUBSET Id], issued and not answered
          recorded   \* [Clients -> SUBSET Id], the latency samples

measurement == <<phase, issued, pending, recorded>>

Init ==
  /\ phase = [c \in Clients |-> "INIT"]
  /\ issued = {}
  /\ pending = [c \in Clients |-> {}]
  /\ recorded = [c \in Clients |-> {}]

\* The load starts: the client begins its warm-up period.
BeginWarmup(c) ==
  /\ phase[c] = "INIT"
  /\ phase' = [phase EXCEPT ![c] = "WARMUP"]
  /\ UNCHANGED <<issued, pending, recorded>>

\* A request with an id that was never used leaves client c.
Issue(c, id) ==
  /\ phase[c] # "INIT"
  /\ id \notin issued
  /\ issued' = issued \cup {id}
  /\ pending' = [pending EXCEPT ![c] = @ \cup {id}]
  /\ UNCHANGED <<phase, recorded>>

\* Its response arrives, and counts in the ROI only.
Answer(c, id) ==
  /\ id \in pending[c]
  /\ pending' = [pending EXCEPT ![c] = @ \ {id}]
  /\ recorded' = [recorded EXCEPT ![c] =
                    IF phase[c] = "ROI" THEN @ \cup {id} ELSE @]
  /\ UNCHANGED <<phase, issued>>

\* The warm-up is over; the measurement starts from nothing.
BeginRoi(c) ==
  /\ phase[c] = "WARMUP"
  /\ phase' = [phase EXCEPT ![c] = "ROI"]
  /\ recorded' = [recorded EXCEPT ![c] = {}]
  /\ UNCHANGED <<issued, pending>>

Next ==
  \E c \in Clients :
    \/ BeginWarmup(c)
    \/ BeginRoi(c)
    \/ \E id \in Id : Issue(c, id) \/ Answer(c, id)

Spec == Init /\ [][Next]_measurement
=============================================================================

------------------------------ MODULE MCSending ------------------------------
(***************************************************************************)
(* The life of one event's rows and the nonces of many, for liveness.      *)
(* They share no state, so a behaviour exercises one of the two, and the   *)
(* other has nothing to do: a key event that never appears, or outbounds   *)
(* that are settled.                                                       *)
(***************************************************************************)
EXTENDS MCTxFlow, Nonces

VARIABLE part

AllSettled == [e \in OutboundEvents |-> [status |-> "COMPLETED", nonce |-> Consumed]]

NothingToSend ==
  /\ flowing = FALSE /\ queues = FALSE /\ held = AllSettled /\ ready = <<>>
  /\ waits = [c \in Coordinators |-> 0]
  /\ slots = [k \in Ahead |-> NoEvent]
  /\ landed = {} /\ mishaps = 0

NothingToSign ==
  /\ env = Calmly("KEY", 2, "hours") /\ row = [n \in Nodes |-> NoRow]
  /\ attempts = <<>> /\ session = [n \in Nodes |-> NoSession]
  /\ tracking = [n \in Nodes |-> NotTracking] /\ busy = [n \in Nodes |-> Idle]
  /\ msgs = {} /\ pool = {} /\ mined = <<>> /\ clock = "open" /\ votes = {}

SendingInit ==
  \/ part = "rows" /\ Init /\ NothingToSend
  \/ part = "nonces" /\ NoncesInit /\ NothingToSign

SendingNext ==
  \/ part = "rows" /\ Next /\ UNCHANGED <<nonceVars, part>>
  \/ part = "nonces" /\ NoncesNext /\ UNCHANGED <<vars, part>>

SendingSpec ==
  /\ SendingInit /\ [][SendingNext]_<<vars, nonceVars, part>>
  /\ Fairness /\ NoncesFairness
=============================================================================

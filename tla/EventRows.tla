------------------------------ MODULE EventRows ------------------------------
(***************************************************************************)
(* What the local database of a universal validator promises about the row *)
(* of one event that needs the threshold key (universalClient/store): the  *)
(* statuses it may go through, and that the signing data of a row is       *)
(* written once and is there for as long as the row says it was signed.    *)
(* The detailed specification of signing and of the transaction flow       *)
(* (Signing, TxFlow) is shown to implement this one at every node.         *)
(***************************************************************************)
CONSTANTS
  Nodes,       \* the universal validators
  Signatures,  \* the signatures that can exist for the event
  NoSignature  \* the value of a row without signing data

VARIABLES
  status,      \* node -> the row's status, "ABSENT" when it has no row
  signature    \* node -> the row's signing data

rowVars == <<status, signature>>

Statuses == {"ABSENT", "CONFIRMED", "IN_PROGRESS", "SIGNED", "BROADCASTED",
             "COMPLETED", "REVERTED"}

Init ==
  /\ status \in [Nodes -> {"ABSENT", "CONFIRMED"}]
  /\ signature = [n \in Nodes |-> NoSignature]

Move(n, from, to) ==
  /\ status[n] \in from
  /\ status' = [status EXCEPT ![n] = to]

(***************************************************************************)
(* A row without signing data: it appears, enters and leaves sessions, a   *)
(* key event ends with its session, and an unsigned or a settled row may   *)
(* be deleted (with the signing data, if it has any).                      *)
(***************************************************************************)
Appear(n) == Move(n, {"ABSENT"}, "CONFIRMED") /\ UNCHANGED signature

Enter(n) ==
  /\ signature[n] = NoSignature
  /\ Move(n, {"CONFIRMED"}, "IN_PROGRESS")
  /\ UNCHANGED signature

Leave(n) ==
  /\ signature[n] = NoSignature
  /\ Move(n, {"IN_PROGRESS"}, "CONFIRMED")
  /\ UNCHANGED signature

EndKeyEvent(n) ==
  /\ signature[n] = NoSignature
  /\ \E to \in {"COMPLETED", "REVERTED"} : Move(n, {"CONFIRMED", "IN_PROGRESS"}, to)
  /\ UNCHANGED signature

Disappear(n) ==
  /\ Move(n, {"CONFIRMED", "IN_PROGRESS", "COMPLETED", "REVERTED"}, "ABSENT")
  /\ status[n] \in {"CONFIRMED", "IN_PROGRESS"} => signature[n] = NoSignature
  /\ signature' = [signature EXCEPT ![n] = NoSignature]

(***************************************************************************)
(* A row with signing data: only a row without any receives some, and then *)
(* it is sent, settled, and may be sent again, always with the same data.  *)
(***************************************************************************)
Sign(n) ==
  /\ signature[n] = NoSignature
  /\ Move(n, {"CONFIRMED", "IN_PROGRESS"}, "SIGNED")
  /\ \E s \in Signatures : signature' = [signature EXCEPT ![n] = s]

Send(n) == Move(n, {"SIGNED"}, "BROADCASTED") /\ UNCHANGED signature

Settle(n) ==
  /\ \E to \in {"COMPLETED", "REVERTED"} : Move(n, {"BROADCASTED"}, to)
  /\ UNCHANGED signature

SendAgain(n) ==
  /\ signature[n] # NoSignature
  /\ Move(n, {"BROADCASTED", "COMPLETED", "REVERTED"}, "SIGNED")
  /\ UNCHANGED signature

RowStep(n) ==
  \/ Appear(n) \/ Enter(n) \/ Leave(n) \/ EndKeyEvent(n) \/ Disappear(n)
  \/ Sign(n) \/ Send(n) \/ Settle(n) \/ SendAgain(n)

Next == \E n \in Nodes : RowStep(n)

Spec == Init /\ [][Next]_rowVars

==============================================================================

----------------------------- MODULE ClientCall -----------------------------
(***************************************************************************)
(* What a call of a protocol client promises: its operation is carried out *)
(* before the outcome is settled or not at all, the outcome is settled     *)
(* once, and when the call returns its connection is closed.  And it       *)
(* returns, whatever frames the other side sends, well formed ones, and    *)
(* however it fails.                                                       *)
(***************************************************************************)
EXTENDS Naturals

VARIABLES
  call,      \* pending, closing (the outcome is settled), returned
  open,      \* the socket has not been destroyed
  effects    \* frames of the operation that have been sent

vars == <<call, open, effects>>

Init == call = "pending" /\ open = TRUE /\ effects = 0

Act ==
  /\ call = "pending" /\ open
  /\ effects' = effects + 1
  /\ UNCHANGED <<call, open>>

Break ==
  /\ open
  /\ open' = FALSE
  /\ UNCHANGED <<call, effects>>

Settle ==
  /\ call = "pending"
  /\ call' = "closing"
  /\ open' \in {open, FALSE}
  /\ UNCHANGED effects

Return ==
  /\ call = "closing"
  /\ call' = "returned" /\ open' = FALSE
  /\ UNCHANGED effects

\* Some settle the outcome and close the socket in one turn.
Finish ==
  /\ call = "pending"
  /\ call' = "returned" /\ open' = FALSE
  /\ UNCHANGED effects

Next == Act \/ Break \/ Settle \/ Return \/ Finish

\* What must not happen, and that the call returns.
Safe == Init /\ [][Next]_vars
Spec == Safe /\ WF_vars(Settle) /\ WF_vars(Return)
=============================================================================

---------------------------- MODULE FileTransfer ----------------------------
(***************************************************************************)
(* What a TFTP transfer promises: the blocks of the file are stored in     *)
(* order, each once, and the call succeeds only when all of them are.      *)
(***************************************************************************)
EXTENDS Naturals, Sequences

CONSTANT Blocks     \* number of blocks of the file; only the last one is short

VARIABLES
  stored,    \* the blocks stored, in order
  outcome    \* of the call: pending, ok or failed

Init == stored = <<>> /\ outcome = "pending"

Store ==
  /\ Len(stored) < Blocks
  /\ stored' = Append(stored, Len(stored) + 1)
  /\ UNCHANGED outcome

Succeed ==
  /\ outcome = "pending" /\ Len(stored) = Blocks
  /\ outcome' = "ok"
  /\ UNCHANGED stored

Fail ==
  /\ outcome = "pending"
  /\ outcome' = "failed"
  /\ UNCHANGED stored

Next == Store \/ Succeed \/ Fail

Spec == Init /\ [][Next]_<<stored, outcome>>
=============================================================================

------------------------------ MODULE MpscFifo ------------------------------
(***************************************************************************)
(* What MPSCQueue promises: a value enters at the end and leaves at the    *)
(* front, once.                                                            *)
(***************************************************************************)
EXTENDS Sequences

CONSTANT Values
VARIABLES items, out

FifoInit == items = <<>> /\ out = <<>>
Enters == \E v \in Values : items' = Append(items, v) /\ UNCHANGED out
Leaves == items # <<>> /\ items' = Tail(items) /\ out' = Append(out, Head(items))
FifoSpec == FifoInit /\ [][Enters \/ Leaves]_<<items, out>>
=============================================================================

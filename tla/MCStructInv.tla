----------------------------- MODULE MCStructInv -----------------------------
(* An instance of StructInv: ranges with lo <= hi <= 1, and two      *)
(* places that can lead to the same range.                                   *)
EXTENDS StructInv

MCInvariants == <<[l |-> "hi", r |-> "lo", d |-> 0], [l |-> "zero", r |-> "hi", d |-> -1]>>
MCVals == {0, 1}
=============================================================================

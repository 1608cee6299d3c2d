----------------------------- MODULE MCContracts -----------------------------
(* Instances of Contracts: a function whose contract uses every operand that *)
(* cannot act, one whose precondition cannot be evaluated, one with a        *)
(* condition that acts between two that do not, before the call and after,   *)
(* one whose old() operand acts, and a caller; they may call each other and  *)
(* themselves, from their bodies and from the conditions that act.           *)
EXTENDS Contracts

MCFns == {"bump", "early", "probe", "deep", "main"}
C(l, r, d) == [l |-> l, r |-> r, d |-> d]

MCContract == [f \in MCFns |->
  CASE f = "bump" ->
         [requires |-> <<C("old x", "zero", 1), C("zero", "cell", 0)>>,
          ensures  |-> <<C("cell", "old cell", 1), C("result", "old x", 0), C("old cell", "x", -1)>>]
    [] f = "early" -> [requires |-> <<C("zero", "result", 0)>>, ensures |-> <<>>]
    [] f = "probe" ->
         [requires |-> <<C("x", "cell", 0), C("old open", "zero", 0), C("cell", "x", 1)>>,
          ensures  |-> <<C("result", "zero", 1), C("open", "zero", 0), C("zero", "cell", 0)>>]
    [] f = "deep" ->
         [requires |-> <<>>, ensures |-> <<C("old open", "x", 0), C("cell", "x", 0)>>]
    [] f = "main" -> [requires |-> <<>>, ensures |-> <<C("cell", "x", 0)>>]]

\* A postcondition on `result` alone.
ResultContract == [f \in MCFns |-> [requires |-> <<>>, ensures |-> <<C("result", "zero", 1)>>]]
=============================================================================

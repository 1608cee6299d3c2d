----------------------------- MODULE MCLowering -----------------------------
(* Instances of Lowering.  Every list of up to three attributes over two     *)
(* gates, the conditions and @attribute; pairs of declarations, so that a    *)
(* walk follows another one; structs declared twice; and one list with more  *)
(* gates than GateCap.                                                       *)
EXTENDS Lowering

MCNames == {"a", "b", "requires", "ensures", "constraint", "attribute"}
UpTo(S, m) == UNION {[1 .. len -> S] : len \in 0 .. m}

Fn(attrs) == [kind |-> "fn", name |-> "f", attrs |-> attrs]
Struct(attrs) == [kind |-> "struct", name |-> "S", attrs |-> attrs]

SixteenGates == [i \in 1 .. 18 |-> IF i <= 16 THEN "a" ELSE IF i = 17 THEN "b" ELSE "requires"]

MCPrograms ==
       {<<Fn(x)>> : x \in UpTo(MCNames, 3)}
  \cup {<<Fn(x), Struct(y)>> : x \in UpTo({"a", "b", "ensures"}, 2),
                               y \in UpTo({"a", "b", "invariant"}, 3)}
  \cup {<<Struct(x), Struct(y)>> : x, y \in UpTo({"a", "invariant"}, 2)}
  \cup {<<Fn(SixteenGates)>>}

MCActive == SUBSET {"a", "b"}

\* One condition for dev and one for prod, as in release_check.vt.
DevAndProd == {<<Fn(<<"a", "requires", "b", "requires">>)>>}
=============================================================================

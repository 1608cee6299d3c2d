----------------------------- MODULE Attributes -----------------------------
(* Attribute lists, as the analysis (sema.c) and the lowering (lower.c) read *)
(* them.  `@debug @requires(x > 0) @release fn f` carries the list           *)
(* <<"debug", "requires", "release">>: the parser keeps the clauses in       *)
(* source order.  A clause's argument is an expression that neither pass     *)
(* looks into to decide what the clause does, so a list is a sequence of     *)
(* names.  The active set comes from the command line and is only ever asked *)
(* for membership, so it is a set.                                           *)
EXTENDS Integers, Sequences, FiniteSets

AttrList == Seq(STRING)

\* The four clauses that carry a condition.  lower.c asks this question.
is_invariant_kind(n) == n \in {"requires", "ensures", "invariant", "constraint"}

\* The names that never gate a variant.  sema.c asks this one: it also counts
\* "attribute", which lower.c does not.
is_invariant_attr(n) == is_invariant_kind(n) \/ n = "attribute"

\* Mutant: a gate belongs to a condition anywhere behind it, not right behind.
decl_required_attrs_any(attrs) ==
  {i \in DOMAIN attrs :
     /\ ~is_invariant_attr(attrs[i])
     /\ \A j \in DOMAIN attrs : j > i => ~is_invariant_attr(attrs[j])}

\* The gates of a declaration, as positions: a gate written twice is counted
\* twice.  A gate directly followed by a condition belongs to that condition
\* and not to the declaration.
decl_required_attrs(attrs) ==
  {i \in DOMAIN attrs :
     /\ ~is_invariant_attr(attrs[i])
     /\ i + 1 \in DOMAIN attrs => ~is_invariant_attr(attrs[i + 1])}

\* attrset_subset(required, active)
Matches(attrs, active) ==
  \A i \in decl_required_attrs(attrs) : attrs[i] \in active

\* required.count
Score(attrs) == Cardinality(decl_required_attrs(attrs))

\* The names that select a declaration, what IMPL.md 10.2 calls V.
RequiredNames(attrs) == {attrs[i] : i \in decl_required_attrs(attrs)}
=============================================================================

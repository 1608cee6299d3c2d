------------------------------ MODULE Lowering ------------------------------
(* Contract lowering (lower.c): one walk over the attribute list of every    *)
(* function variant and of every struct, which decides which conditions the  *)
(* interpreter will evaluate.  A gate met on the way is remembered and every *)
(* later condition of the same list needs it to be active.                   *)
(*                                                                           *)
(* A condition is named by its position in the list.  The code pushes kept   *)
(* conditions in the order of their positions, so a set of positions says    *)
(* what its vectors say.                                                     *)
EXTENDS Attributes

CONSTANTS GateCap,     \* room for remembered gates: `const char *gates[16]`
          Programs,    \* what the analysis may hand over
          ActiveSets

ItemKinds == {"fn", "struct"}
Item == [kind : ItemKinds, name : STRING, attrs : AttrList]

ASSUME GateCapAssumption == GateCap \in Nat
ASSUME LowerInputs == /\ Programs \subseteq Seq(Item)
                      /\ ActiveSets \subseteq SUBSET STRING

VARIABLES
  decls,    \* function variants and structs
  active,   \* active attributes
  n,        \* the item being lowered
  src,      \* the declaration whose list is read for it
  k,        \* the next attribute of that list
  gates,    \* the gates remembered in this walk
  kept      \* per item, the conditions that will be evaluated

vars == <<decls, active, n, src, k, gates, kept>>

\* A variant is lowered from its own declaration, a struct from the first
\* declaration of its name.
Source(i, j) ==
  IF decls[i].kind = "fn" THEN j = i
  ELSE decls[j].kind = "struct" /\ decls[j].name = decls[i].name

\* The conditions that mean something on a declaration of this kind.
Applicable(kind) == IF kind = "fn" THEN {"requires", "ensures"} ELSE {"invariant"}

\* Mutant: only the gate right before the condition is asked.
gates_active_last(gs) == gs # <<>> => gs[Len(gs)] \in active

gates_active(gs) == \A i \in DOMAIN gs : gs[i] \in active

\* Where the search for the declaration of item i starts.
ScanFrom(i) == IF i \in DOMAIN decls /\ decls[i].kind = "fn" THEN i ELSE 1
-----------------------------------------------------------------------------
Init ==
  /\ decls \in Programs
  /\ active \in ActiveSets
  /\ n = 1 /\ src = ScanFrom(1) /\ k = 1 /\ gates = <<>>
  /\ kept = [i \in DOMAIN decls |-> {}]

Found == n \in DOMAIN decls /\ Source(n, src)
AtAttr == Found /\ k \in DOMAIN decls[src].attrs
AttrName == decls[src].attrs[k]

Scan ==
  /\ n \in DOMAIN decls /\ ~Source(n, src)
  /\ src' = src + 1
  /\ UNCHANGED <<decls, active, n, k, gates, kept>>

\* A gate is remembered while there is room for it.
Gate ==
  /\ AtAttr /\ ~is_invariant_kind(AttrName)
  /\ gates' = IF Len(gates) < GateCap THEN Append(gates, AttrName) ELSE gates
  /\ k' = k + 1
  /\ UNCHANGED <<decls, active, n, src, kept>>

\* A condition behind an inactive gate is left out, as is one that means
\* nothing on this kind of declaration.
DropCondition ==
  /\ AtAttr /\ is_invariant_kind(AttrName)
  /\ ~gates_active(gates) \/ AttrName \notin Applicable(decls[n].kind)
  /\ k' = k + 1
  /\ UNCHANGED <<decls, active, n, src, gates, kept>>

KeepCondition ==
  /\ AtAttr /\ is_invariant_kind(AttrName)
  /\ gates_active(gates) /\ AttrName \in Applicable(decls[n].kind)
  /\ kept' = [kept EXCEPT ![n] = @ \cup {k}]
  /\ k' = k + 1
  /\ UNCHANGED <<decls, active, n, src, gates>>

\* Mutants: the remembered gates leak into the next item; the walk of the next
\* item starts one short.
NextItem_leak ==
  /\ Found /\ k \notin DOMAIN decls[src].attrs
  /\ n' = n + 1 /\ src' = ScanFrom(n + 1) /\ k' = 1
  /\ UNCHANGED <<decls, active, gates, kept>>
NextItem_short ==
  /\ Found /\ k \notin DOMAIN decls[src].attrs
  /\ n' = n + 1 /\ src' = ScanFrom(n + 1) /\ k' = 0 /\ gates' = <<>>
  /\ UNCHANGED <<decls, active, kept>>

NextItem ==
  /\ Found /\ k \notin DOMAIN decls[src].attrs
  /\ n' = n + 1 /\ src' = ScanFrom(n + 1) /\ k' = 1 /\ gates' = <<>>
  /\ UNCHANGED <<decls, active, kept>>

Next == Scan \/ Gate \/ DropCondition \/ KeepCondition \/ NextItem

\* The walk is a sequential loop: nothing keeps it from going on.
Spec == Init /\ [][Next]_vars
-----------------------------------------------------------------------------
(* What the walk promises, read off the lists.                               *)

\* Item i has been lowered, from declaration j.
Lowered(i, j) ==
  /\ i \in DOMAIN decls /\ i < n /\ j \in DOMAIN decls
  /\ Source(i, j) /\ \A h \in 1 .. j - 1 : ~Source(i, h)

\* The gates in front of position p.
GatesBefore(attrs, p) == {i \in DOMAIN attrs : i < p /\ ~is_invariant_kind(attrs[i])}
AllActive(attrs, P) == \A i \in P : attrs[i] \in active

\* The conditions of a list that mean something on item i.
Conditions(i, attrs) == {p \in DOMAIN attrs : attrs[p] \in Applicable(decls[i].kind)}

\* The walk has room for every gate of the list.
Fits(attrs) == Cardinality(GatesBefore(attrs, Len(attrs) + 1)) <= GateCap
-----------------------------------------------------------------------------
TypeOK ==
  /\ decls \in Seq(Item)
  /\ active \subseteq STRING
  /\ n \in 1 .. Len(decls) + 1
  /\ src \in Nat \ {0}
  /\ k \in Nat \ {0}
  /\ gates \in Seq(STRING)
  /\ kept \in [DOMAIN decls -> SUBSET Nat]

\* A condition is evaluated if and only if every gate in front of it is active
\* (lower.c 56-68 and 87-98), in every list the walk has room for.
KeptExactly ==
  \A i, j \in DOMAIN decls :
    LET attrs == decls[j].attrs IN
      Lowered(i, j) /\ Fits(attrs) =>
        kept[i] = {p \in Conditions(i, attrs) : AllActive(attrs, GatesBefore(attrs, p))}

\* In a variant that sema selects, the first condition of the list is decided
\* by its own gate alone: the gates of the variant, which lower.c counts as
\* gates of the condition too, never cost it the condition (sema.c 279-301
\* against lower.c 52-68).
FirstOwnGate ==
  \A i, j \in DOMAIN decls :
    LET attrs == decls[j].attrs
        First(p) == p \in Conditions(i, attrs) /\ \A h \in 1 .. p - 1 : ~is_invariant_attr(attrs[h])
    IN Lowered(i, j) /\ Fits(attrs) /\ decls[i].kind = "fn" /\ Matches(attrs, active) =>
         \A p \in DOMAIN attrs :
           First(p) => (p \in kept[i] <=> (p = 1 \/ attrs[p - 1] \in active))

\* sema.c 279-280: a gate in front of a condition "is gating *that contract*",
\* so with its own gate active a condition of a selected variant is evaluated.
\* The code does not do this: lower.c lets a gate rule every later condition.
OwnGateDecides ==
  \A i, j \in DOMAIN decls :
    LET attrs == decls[j].attrs IN
      Lowered(i, j) /\ Fits(attrs) /\ decls[i].kind = "fn" /\ Matches(attrs, active) =>
        \A p \in Conditions(i, attrs) :
          p > 1 /\ attrs[p - 1] \in active => p \in kept[i]

=============================================================================

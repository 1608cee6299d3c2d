--------------------------- MODULE Lowering_proofs ---------------------------
(* Proofs about contract lowering, for every list of declarations, every set *)
(* of active attributes and every room for gates.                            *)
EXTENDS Lowering, FiniteSetTheorems, SequenceTheorems, TLAPS

-----------------------------------------------------------------------------
(* The inductive invariant.                                                  *)

\* The walk over declaration j for item i, just before attribute k: the
\* remembered gates stand for all gates passed, and exactly the conditions
\* passed that should be kept have been.
WalkAt(i, j) ==
  LET attrs == decls[j].attrs IN
    /\ k <= Len(attrs) + 1
    /\ Len(gates) <= Cardinality(GatesBefore(attrs, k))
    /\ Fits(attrs) =>
         /\ gates_active(gates) <=> AllActive(attrs, GatesBefore(attrs, k))
         /\ kept[i] = {p \in Conditions(i, attrs) :
                         p < k /\ AllActive(attrs, GatesBefore(attrs, p))}

InWalk == \A i, j \in DOMAIN decls : i = n /\ j = src /\ Source(i, j) => WalkAt(i, j)

\* The search for the declaration has passed no match, and until it finds one
\* nothing of the item has been done.
InScan ==
  n \in DOMAIN decls =>
    /\ src <= n
    /\ \A h \in 1 .. src - 1 : ~Source(n, h)
    /\ ~Source(n, src) => k = 1
    /\ k = 1 => gates = <<>>

NotBegun ==
  \A i \in DOMAIN decls : i > n \/ (i = n /\ k = 1) => kept[i] = {}

IInv == TypeOK /\ InWalk /\ InScan /\ NotBegun /\ KeptExactly

-----------------------------------------------------------------------------
\* How many gates stand in front of a position is a natural number.
LEMMA GatesFinite ==
  ASSUME NEW attrs \in AttrList, NEW p \in Nat
  PROVE  IsFiniteSet(GatesBefore(attrs, p)) /\ Cardinality(GatesBefore(attrs, p)) \in Nat
<1>1. GatesBefore(attrs, p) \subseteq 1 .. Len(attrs)
  BY DEF GatesBefore, AttrList
<1>2. IsFiniteSet(1 .. Len(attrs))
  BY FS_Interval
<1> QED BY <1>1, <1>2, FS_Subset, FS_CardinalityType

\* One attribute further, there is one gate more or there is not.
LEMMA GatesNext ==
  ASSUME NEW attrs \in AttrList, NEW p \in 1 .. Len(attrs)
  PROVE  /\ is_invariant_kind(attrs[p]) =>
              GatesBefore(attrs, p + 1) = GatesBefore(attrs, p)
         /\ ~is_invariant_kind(attrs[p]) =>
              /\ GatesBefore(attrs, p + 1) = GatesBefore(attrs, p) \cup {p}
              /\ Cardinality(GatesBefore(attrs, p + 1)) = Cardinality(GatesBefore(attrs, p)) + 1
              /\ Cardinality(GatesBefore(attrs, p)) <
                   Cardinality(GatesBefore(attrs, Len(attrs) + 1))
<1>0. DOMAIN attrs = 1 .. Len(attrs) /\ Len(attrs) \in Nat
  BY DEF AttrList
<1>1. is_invariant_kind(attrs[p]) => GatesBefore(attrs, p + 1) = GatesBefore(attrs, p)
  BY <1>0 DEF GatesBefore
<1>2. ASSUME ~is_invariant_kind(attrs[p])
      PROVE  GatesBefore(attrs, p + 1) = GatesBefore(attrs, p) \cup {p}
  BY <1>0, <1>2 DEF GatesBefore
<1>3. p \notin GatesBefore(attrs, p)
  BY <1>0 DEF GatesBefore
<1>4. ASSUME ~is_invariant_kind(attrs[p])
      PROVE  Cardinality(GatesBefore(attrs, p + 1)) = Cardinality(GatesBefore(attrs, p)) + 1
  <2>1. IsFiniteSet(GatesBefore(attrs, p)) /\ p \in Nat
    BY <1>0, GatesFinite
  <2> QED BY <1>2, <1>3, <1>4, <2>1, FS_AddElement
<1>5. Cardinality(GatesBefore(attrs, p + 1)) <= Cardinality(GatesBefore(attrs, Len(attrs) + 1))
  <2>1. GatesBefore(attrs, p + 1) \subseteq GatesBefore(attrs, Len(attrs) + 1)
    BY <1>0 DEF GatesBefore
  <2> QED BY <1>0, <2>1, GatesFinite, FS_Subset
<1>6. Cardinality(GatesBefore(attrs, p)) \in Nat
      /\ Cardinality(GatesBefore(attrs, Len(attrs) + 1)) \in Nat
  BY <1>0, GatesFinite
<1> QED BY <1>1, <1>2, <1>4, <1>5, <1>6

\* No gate stands in front of the first position.
LEMMA NoGates ==
  ASSUME NEW attrs \in AttrList
  PROVE  GatesBefore(attrs, 1) = {} /\ Cardinality(GatesBefore(attrs, 1)) = 0
<1>1. GatesBefore(attrs, 1) = {}
  BY DEF GatesBefore, AttrList
<1> QED BY <1>1, FS_EmptySet

\* A declaration has an attribute list.
LEMMA ItemTypes ==
  ASSUME TypeOK, NEW j \in DOMAIN decls
  PROVE  /\ DOMAIN decls = 1 .. Len(decls) /\ Len(decls) \in Nat
         /\ decls[j].kind \in ItemKinds
         /\ decls[j].attrs \in AttrList
         /\ DOMAIN decls[j].attrs = 1 .. Len(decls[j].attrs)
         /\ Len(decls[j].attrs) \in Nat
<1>1. decls[j] \in Item
  BY DEF TypeOK
<1>2. decls[j].attrs \in AttrList /\ decls[j].kind \in ItemKinds
  BY <1>1 DEF Item
<1> QED BY <1>2 DEF TypeOK, AttrList
-----------------------------------------------------------------------------
\* A walk that has not begun has nothing to account for.
LEMMA WalkBegins ==
  ASSUME TypeOK, NEW i \in DOMAIN decls, NEW j \in DOMAIN decls,
         k = 1, gates = <<>>, kept[i] = {}
  PROVE  WalkAt(i, j)
<1> DEFINE attrs == decls[j].attrs
<1>1. attrs \in AttrList /\ DOMAIN attrs = 1 .. Len(attrs) /\ Len(attrs) \in Nat
  BY ItemTypes
<1>2. GatesBefore(attrs, 1) = {} /\ Cardinality(GatesBefore(attrs, 1)) = 0
  BY <1>1, NoGates
<1>3. gates_active(gates) /\ AllActive(attrs, GatesBefore(attrs, 1)) /\ Len(gates) = 0
  BY <1>2 DEF gates_active, AllActive
<1>4. {p \in Conditions(i, attrs) : p < 1 /\ AllActive(attrs, GatesBefore(attrs, p))} = {}
  BY <1>1 DEF Conditions
<1> QED BY <1>1, <1>2, <1>3, <1>4 DEF WalkAt

LEMMA InitInv == Init => IInv
<1> SUFFICES ASSUME Init PROVE IInv
  OBVIOUS
<1>1. decls \in Seq(Item) /\ active \subseteq STRING /\ Len(decls) \in Nat
  <2>1. decls \in Seq(Item)
    BY LowerInputs DEF Init
  <2>2. active \subseteq STRING
    BY LowerInputs DEF Init
  <2>3. Len(decls) \in Nat
    BY <2>1
  <2> QED BY <2>1, <2>2, <2>3
<1>2. n = 1 /\ src = 1 /\ k = 1 /\ gates = <<>> /\ kept = [i \in DOMAIN decls |-> {}]
  BY DEF Init, ScanFrom
<1>3. TypeOK
  <2>1. kept \in [DOMAIN decls -> SUBSET Nat]
    BY <1>2
  <2>2. n \in 1 .. Len(decls) + 1
    BY <1>1, <1>2
  <2>3. gates \in Seq(STRING)
    BY <1>2
  <2>4. src \in Nat \ {0} /\ k \in Nat \ {0}
    BY <1>2
  <2> QED BY <1>1, <2>1, <2>2, <2>3, <2>4 DEF TypeOK
<1>4. InWalk
  BY <1>2, <1>3, WalkBegins DEF InWalk
<1>5. InScan
  BY <1>2 DEF InScan
<1>6. NotBegun
  BY <1>2 DEF NotBegun
<1>7. KeptExactly
  <2>1. \A i \in DOMAIN decls : ~(i < n)
    BY <1>1, <1>2
  <2> QED BY <2>1 DEF KeptExactly, Lowered
<1> QED BY <1>3, <1>4, <1>5, <1>6, <1>7 DEF IInv

\* Every step keeps every variable in its type.
LEMMA TypeStep == IInv /\ [Next]_vars => TypeOK'
<1> SUFFICES ASSUME IInv, [Next]_vars PROVE TypeOK'
  OBVIOUS
<1>0. TypeOK /\ InScan
  BY DEF IInv
<1>1. CASE Scan
  <2>1. src + 1 \in Nat \ {0}
    BY <1>0 DEF TypeOK
  <2> QED BY <1>0, <1>1, <2>1 DEF TypeOK, Scan
<1>2. k + 1 \in Nat \ {0}
  BY <1>0 DEF TypeOK
<1>3. CASE Gate
  <2>1. src \in DOMAIN decls /\ k \in DOMAIN decls[src].attrs
    BY <1>0, <1>3 DEF TypeOK, InScan, Gate, AtAttr, Found
  <2>2. decls[src].attrs \in Seq(STRING)
    BY <1>0, <2>1, ItemTypes DEF AttrList
  <2>3. AttrName \in STRING
    BY <2>1, <2>2 DEF AttrName
  <2>4. gates' \in Seq(STRING)
    <3>a. gates \in Seq(STRING)
      BY <1>0 DEF TypeOK
    <3>1. Append(gates, AttrName) \in Seq(STRING)
      BY <2>3, <3>a, AppendProperties
    <3>2. gates' = gates \/ gates' = Append(gates, AttrName)
      BY <1>3 DEF Gate
    <3> QED BY <3>a, <3>1, <3>2
  <2> QED BY <1>0, <1>2, <1>3, <2>4 DEF TypeOK, Gate
<1>4. CASE DropCondition
  BY <1>0, <1>2, <1>4 DEF TypeOK, DropCondition
<1>5. CASE KeepCondition
  <2>1. kept' \in [DOMAIN decls -> SUBSET Nat]
    BY <1>0, <1>5 DEF TypeOK, KeepCondition
  <2> QED BY <1>0, <1>2, <1>5, <2>1 DEF TypeOK, KeepCondition
<1>6. CASE NextItem
  <2>1. n \in DOMAIN decls /\ DOMAIN decls = 1 .. Len(decls)
    BY <1>0, <1>6 DEF TypeOK, NextItem, Found
  <2>2. n + 1 \in 1 .. Len(decls) + 1 /\ n + 1 \in Nat \ {0}
    BY <2>1
  <2>3. ScanFrom(n + 1) \in Nat \ {0}
    BY <2>2 DEF ScanFrom
  <2>4. gates' \in Seq(STRING) /\ k' \in Nat \ {0}
    BY <1>6 DEF NextItem
  <2> QED BY <1>0, <1>6, <2>2, <2>3, <2>4 DEF TypeOK, NextItem
<1>7. CASE UNCHANGED vars
  BY <1>0, <1>7 DEF TypeOK, vars
<1> QED BY <1>1, <1>3, <1>4, <1>5, <1>6, <1>7 DEF Next
-----------------------------------------------------------------------------
\* An item is a source for itself.
LEMMA SelfSource == ASSUME TypeOK, NEW i \in DOMAIN decls PROVE Source(i, i)
<1>1. decls[i].kind \in {"fn", "struct"}
  BY ItemTypes DEF ItemKinds
<1> QED BY <1>1 DEF Source

\* Where the walk is: the item, its declaration and the attribute exist.
LEMMA Position ==
  ASSUME TypeOK, InScan, n \in DOMAIN decls
  PROVE  /\ DOMAIN decls = 1 .. Len(decls) /\ Len(decls) \in Nat /\ n \in 1 .. Len(decls)
         /\ src \in DOMAIN decls
         /\ decls[src].attrs \in AttrList
         /\ DOMAIN decls[src].attrs = 1 .. Len(decls[src].attrs)
         /\ Len(decls[src].attrs) \in Nat
<1>1. DOMAIN decls = 1 .. Len(decls) /\ Len(decls) \in Nat
  BY DEF TypeOK
<1>2. src \in DOMAIN decls
  BY <1>1 DEF TypeOK, InScan
<1> QED BY <1>1, <1>2, ItemTypes

LEMMA ScanStep == IInv /\ Scan => InWalk' /\ InScan' /\ NotBegun' /\ KeptExactly'
<1> SUFFICES ASSUME IInv, Scan PROVE InWalk' /\ InScan' /\ NotBegun' /\ KeptExactly'
  OBVIOUS
<1>1. TypeOK /\ InScan /\ NotBegun /\ KeptExactly
  BY DEF IInv
<1>2. /\ n \in DOMAIN decls /\ ~Source(n, src) /\ src' = src + 1
      /\ UNCHANGED <<decls, active, n, k, gates, kept>>
  BY DEF Scan
<1>3. k = 1 /\ gates = <<>> /\ kept[n] = {}
  BY <1>1, <1>2 DEF InScan, NotBegun
<1>4. InWalk'
  <2> SUFFICES ASSUME NEW i \in DOMAIN decls, NEW j \in DOMAIN decls, i = n
               PROVE  WalkAt(i, j)'
    BY <1>2 DEF InWalk
  <2>1. WalkAt(i, j)
    BY <1>1, <1>3, WalkBegins
  <2> QED BY <1>2, <2>1 DEF WalkAt, gates_active, AllActive, Conditions
<1>5. InScan'
  <2>1. src # n /\ src <= n /\ src \in Nat /\ n \in Nat
    BY <1>1, <1>2, SelfSource, Position DEF InScan, TypeOK
  <2>2. \A h \in 1 .. (src + 1) - 1 : ~Source(n, h)
    BY <1>1, <1>2, <2>1 DEF InScan
  <2> QED BY <1>2, <1>3, <2>1, <2>2 DEF InScan, Source
<1>6. NotBegun'
  BY <1>1, <1>2 DEF NotBegun
<1>7. KeptExactly'
  BY <1>1, <1>2 DEF KeptExactly, Lowered, Source, Conditions, AllActive
<1> QED BY <1>4, <1>5, <1>6, <1>7

\* A step that only advances the walk leaves alone what it does not concern.
LEMMA AdvanceStep ==
  ASSUME IInv, AtAttr, k' = k + 1, UNCHANGED <<decls, active, n, src>>,
         \A i \in DOMAIN decls : i # n => kept'[i] = kept[i]
  PROVE  InScan' /\ NotBegun' /\ KeptExactly'
<1>1. TypeOK /\ InScan /\ NotBegun /\ KeptExactly /\ k + 1 # 1
  BY DEF IInv, TypeOK
<1>2. n \in DOMAIN decls /\ Source(n, src)
  BY DEF AtAttr, Found
<1>3. InScan'
  BY <1>1, <1>2 DEF InScan, Source
<1>4. NotBegun'
  <2>1. \A i \in DOMAIN decls : i > n => i # n
    BY <1>1, Position, <1>2
  <2> QED BY <1>1, <2>1 DEF NotBegun
<1>5. KeptExactly'
  <2>1. \A i, j \in DOMAIN decls : Lowered(i, j)' => Lowered(i, j) /\ i # n
    BY <1>1, <1>2, Position DEF Lowered, Source
  <2> QED BY <1>1, <2>1 DEF KeptExactly, Conditions, AllActive
<1> QED BY <1>3, <1>4, <1>5
-----------------------------------------------------------------------------
LEMMA GateStep == IInv /\ Gate => InWalk'
<1> SUFFICES ASSUME IInv, Gate, NEW i \in DOMAIN decls, NEW j \in DOMAIN decls,
                    i = n, j = src
             PROVE  WalkAt(i, j)'
  BY DEF InWalk, Gate
<1> DEFINE attrs == decls[j].attrs
<1>1. /\ TypeOK /\ InScan /\ WalkAt(i, j)
      /\ UNCHANGED <<decls, active, kept>> /\ k' = k + 1
      /\ gates' = IF Len(gates) < GateCap THEN Append(gates, attrs[k]) ELSE gates
      /\ ~is_invariant_kind(attrs[k])
  BY DEF IInv, InWalk, Gate, AtAttr, Found, AttrName
<1>2. attrs \in AttrList /\ DOMAIN attrs = 1 .. Len(attrs) /\ Len(attrs) \in Nat
  BY <1>1, ItemTypes
<1>3. k \in 1 .. Len(attrs)
  BY <1>2 DEF Gate, AtAttr
<1> DEFINE before == GatesBefore(attrs, k)
           all == GatesBefore(attrs, Len(attrs) + 1)
<1>4. /\ GatesBefore(attrs, k + 1) = before \cup {k}
      /\ Cardinality(GatesBefore(attrs, k + 1)) = Cardinality(before) + 1
      /\ Cardinality(before) < Cardinality(all)
      /\ Cardinality(before) \in Nat /\ Cardinality(all) \in Nat
  <2>1. k \in Nat /\ Len(attrs) + 1 \in Nat
    BY <1>2, <1>3
  <2>2. Cardinality(before) \in Nat /\ Cardinality(all) \in Nat
    BY <1>2, <2>1, GatesFinite
  <2>3. ~is_invariant_kind(attrs[k])
    BY <1>1
  <2> HIDE DEF attrs
  <2> QED BY <1>2, <1>3, <2>2, <2>3, GatesNext
<1>5. gates \in Seq(STRING) /\ Len(gates) \in Nat /\ Len(gates) <= Cardinality(before)
  BY <1>1 DEF TypeOK, WalkAt
<1>6. Len(gates') <= Cardinality(before) + 1
  BY <1>1, <1>4, <1>5
<1>7. ASSUME Fits(attrs)
      PROVE  gates_active(gates)' <=> AllActive(attrs, before \cup {k})
  <2>1. gates' = Append(gates, attrs[k])
    BY <1>1, <1>4, <1>5, <1>7, GateCapAssumption DEF Fits
  <2>2. gates_active(gates) <=> AllActive(attrs, before)
    BY <1>1, <1>7 DEF WalkAt
  <2>3. gates_active(gates') <=> gates_active(gates) /\ attrs[k] \in active
    <3>1. /\ DOMAIN gates = 1 .. Len(gates)
          /\ DOMAIN gates' = 1 .. Len(gates) + 1
          /\ \A g \in 1 .. Len(gates) : gates'[g] = gates[g]
          /\ gates'[Len(gates) + 1] = attrs[k]
      BY <1>5, <2>1
    <3> QED BY <1>5, <3>1 DEF gates_active
  <2> QED BY <1>1, <2>2, <2>3 DEF AllActive, gates_active
<1>8. ASSUME Fits(attrs)
      PROVE  kept[i] = {p \in Conditions(i, attrs) :
                          p < k + 1 /\ AllActive(attrs, GatesBefore(attrs, p))}
  <2>1. k \notin Conditions(i, attrs)
    BY <1>1 DEF Conditions, Applicable, is_invariant_kind
  <2>2. \A p \in Conditions(i, attrs) : p < k + 1 <=> p < k
    BY <1>2, <1>3, <2>1 DEF Conditions
  <2> QED BY <1>1, <1>8, <2>2 DEF WalkAt
<1> QED BY <1>1, <1>2, <1>3, <1>4, <1>6, <1>7, <1>8, SMTT(60)
        DEF WalkAt, gates_active, AllActive, Conditions

LEMMA ConditionStep == IInv /\ (DropCondition \/ KeepCondition) => InWalk'
<1> SUFFICES ASSUME IInv, DropCondition \/ KeepCondition,
                    NEW i \in DOMAIN decls, NEW j \in DOMAIN decls, i = n, j = src
             PROVE  WalkAt(i, j)'
  BY DEF InWalk, DropCondition, KeepCondition
<1> DEFINE attrs == decls[j].attrs
<1>1. /\ TypeOK /\ InScan /\ WalkAt(i, j)
      /\ UNCHANGED <<decls, active, gates>> /\ k' = k + 1
      /\ is_invariant_kind(attrs[k]) /\ k \in DOMAIN attrs
  BY DEF IInv, InWalk, DropCondition, KeepCondition, AtAttr, Found, AttrName
<1>2. attrs \in AttrList /\ DOMAIN attrs = 1 .. Len(attrs) /\ Len(attrs) \in Nat
  BY <1>1, ItemTypes
<1>3. k \in 1 .. Len(attrs) /\ GatesBefore(attrs, k + 1) = GatesBefore(attrs, k)
  BY <1>1, <1>2, GatesNext
<1>4. kept'[i] = IF gates_active(gates) /\ attrs[k] \in Applicable(decls[i].kind)
                   THEN kept[i] \cup {k} ELSE kept[i]
  BY <1>1 DEF DropCondition, KeepCondition, AttrName, TypeOK
<1>5. ASSUME Fits(attrs)
      PROVE  kept'[i] = {p \in Conditions(i, attrs) :
                           p < k + 1 /\ AllActive(attrs, GatesBefore(attrs, p))}
  <2>1. /\ gates_active(gates) <=> AllActive(attrs, GatesBefore(attrs, k))
        /\ kept[i] = {p \in Conditions(i, attrs) :
                        p < k /\ AllActive(attrs, GatesBefore(attrs, p))}
    BY <1>1, <1>5 DEF WalkAt
  <2>2. k \in Conditions(i, attrs) <=> attrs[k] \in Applicable(decls[i].kind)
    BY <1>1 DEF Conditions
  <2>3. \A p \in Conditions(i, attrs) : p < k + 1 <=> p < k \/ p = k
    BY <1>2, <1>3 DEF Conditions
  <2>4. k \in Nat
    BY <1>3
  <2> QED BY <1>4, <2>1, <2>2, <2>3, <2>4
<1> QED BY <1>1, <1>3, <1>5 DEF WalkAt, gates_active, AllActive, Conditions

\* When a list has been read to its end, the item is complete.
LEMMA NextItemStep == IInv /\ NextItem => InWalk' /\ InScan' /\ NotBegun' /\ KeptExactly'
<1> SUFFICES ASSUME IInv, NextItem PROVE InWalk' /\ InScan' /\ NotBegun' /\ KeptExactly'
  OBVIOUS
<1>1. TypeOK /\ InWalk /\ InScan /\ NotBegun /\ KeptExactly
  BY DEF IInv
<1>2. /\ n \in DOMAIN decls /\ Source(n, src) /\ k \notin DOMAIN decls[src].attrs
      /\ n' = n + 1 /\ src' = ScanFrom(n + 1) /\ k' = 1 /\ gates' = <<>>
      /\ UNCHANGED <<decls, active, kept>>
  BY DEF NextItem, Found
<1>3. /\ DOMAIN decls = 1 .. Len(decls) /\ Len(decls) \in Nat /\ n \in 1 .. Len(decls)
      /\ src \in DOMAIN decls
  BY <1>1, <1>2, Position
<1>4. NotBegun'
  <2>1. \A i \in DOMAIN decls : i > n + 1 \/ i = n + 1 => i > n
    BY <1>3
  <2> QED BY <1>1, <1>2, <2>1 DEF NotBegun
<1>5. InWalk'
  <2> SUFFICES ASSUME NEW i \in DOMAIN decls, NEW j \in DOMAIN decls, i = n + 1
               PROVE  WalkAt(i, j)'
    BY <1>2 DEF InWalk
  <2> DEFINE attrs == decls[j].attrs
  <2>1. attrs \in AttrList /\ DOMAIN attrs = 1 .. Len(attrs) /\ Len(attrs) \in Nat
    BY <1>1, ItemTypes
  <2>2. GatesBefore(attrs, 1) = {} /\ Cardinality(GatesBefore(attrs, 1)) = 0
    BY <2>1, NoGates
  <2>3. gates_active(gates)' /\ AllActive(attrs, GatesBefore(attrs, 1)) /\ Len(gates') = 0
    BY <1>2, <2>2 DEF gates_active, AllActive
  <2>4. {p \in Conditions(i, attrs) : p < 1 /\ AllActive(attrs, GatesBefore(attrs, p))} = {}
    BY <2>1 DEF Conditions
  <2>5. kept'[i] = {}
    BY <1>1, <1>2, <1>3 DEF NotBegun
  <2>6. 1 <= Len(attrs) + 1
    BY <2>1
  <2> QED BY <1>2, <2>2, <2>3, <2>4, <2>5, <2>6
          DEF WalkAt, gates_active, AllActive, Conditions
<1>6. InScan'
  <2> SUFFICES ASSUME n + 1 \in DOMAIN decls
               PROVE  ScanFrom(n + 1) <= n + 1
                      /\ \A h \in 1 .. ScanFrom(n + 1) - 1 : ~Source(n + 1, h)
    BY <1>2 DEF InScan, Source
  <2>1. CASE decls[n + 1].kind = "fn"
    <3>1. ScanFrom(n + 1) = n + 1
      BY <2>1 DEF ScanFrom
    <3> QED BY <1>3, <2>1, <3>1 DEF Source
  <2>2. CASE decls[n + 1].kind # "fn"
    BY <1>3, <2>2 DEF ScanFrom
  <2> QED BY <2>1, <2>2
<1>7. KeptExactly'
  <2> SUFFICES ASSUME NEW i \in DOMAIN decls, NEW j \in DOMAIN decls,
                      Lowered(i, j)', Fits(decls[j].attrs)
               PROVE  kept[i] = {p \in Conditions(i, decls[j].attrs) :
                                   AllActive(decls[j].attrs, GatesBefore(decls[j].attrs, p))}
    BY <1>2 DEF KeptExactly, Conditions, AllActive
  <2>1. CASE i # n
    <3>1. Lowered(i, j)
      BY <1>2, <1>3, <2>1 DEF Lowered, Source
    <3> QED BY <1>1, <3>1 DEF KeptExactly
  <2>2. CASE i = n
    <3>1. Source(n, j) /\ \A h \in 1 .. j - 1 : ~Source(n, h)
      BY <1>2, <2>2 DEF Lowered, Source
    <3>2. src = j
      <4>1. \A h \in 1 .. src - 1 : ~Source(n, h)
        BY <1>1, <1>2 DEF InScan
      <4> QED BY <1>2, <1>3, <3>1, <4>1
    <3>3. WalkAt(i, j)
      BY <1>1, <1>2, <2>2, <3>2 DEF InWalk
    <3>4. /\ DOMAIN decls[j].attrs = 1 .. Len(decls[j].attrs)
          /\ Len(decls[j].attrs) \in Nat /\ k \in Nat
      BY <1>1, ItemTypes DEF TypeOK
    <3>5. \A p \in Conditions(i, decls[j].attrs) : p < k
      BY <1>1, <1>2, <3>2, <3>4 DEF Conditions, TypeOK
    <3> QED BY <3>3, <3>5 DEF WalkAt
  <2> QED BY <2>1, <2>2
<1> QED BY <1>4, <1>5, <1>6, <1>7
-----------------------------------------------------------------------------
\* The invariant holds in every reachable state.
THEOREM Invariance == Spec => []IInv
<1>1. Init => IInv
  BY InitInv
<1>2. IInv /\ [Next]_vars => IInv'
  <2> SUFFICES ASSUME IInv, [Next]_vars PROVE IInv'
    OBVIOUS
  <2>1. TypeOK'
    BY TypeStep
  <2>2. CASE Scan
    BY <2>1, <2>2, ScanStep DEF IInv
  <2>3. CASE Gate
    BY <2>1, <2>3, GateStep, AdvanceStep DEF IInv, Gate
  <2>4. CASE DropCondition
    BY <2>1, <2>4, ConditionStep, AdvanceStep DEF IInv, DropCondition
  <2>5. CASE KeepCondition
    <3>1. \A i \in DOMAIN decls : i # n => kept'[i] = kept[i]
      BY <2>5 DEF KeepCondition, IInv, TypeOK
    <3> QED BY <2>1, <2>5, <3>1, ConditionStep, AdvanceStep DEF IInv, KeepCondition
  <2>6. CASE NextItem
    BY <2>1, <2>6, NextItemStep DEF IInv
  <2>7. CASE UNCHANGED vars
    BY <2>1, <2>7 DEF vars, IInv, InWalk, WalkAt, InScan, NotBegun, KeptExactly, Lowered,
                      Source, Conditions, AllActive, gates_active
  <2> QED BY <2>2, <2>3, <2>4, <2>5, <2>6, <2>7 DEF Next
<1> QED BY <1>1, <1>2, PTL DEF Spec

\* Every variable of the walk keeps its type (lower.c 40-103).
THEOREM TypeCorrect == Spec => []TypeOK
<1>1. IInv => TypeOK
  BY DEF IInv
<1> QED BY <1>1, Invariance, PTL

\* In every program and under every set of attributes, what the interpreter
\* will evaluate is what the lists say: a condition stays if and only if all
\* gates in front of it are active (lower.c 56-68, 87-98), as long as the list
\* has no more gates than the walk has room for.
THEOREM KeptCorrect == Spec => []KeptExactly
<1>1. IInv => KeptExactly
  BY DEF IInv
<1> QED BY <1>1, Invariance, PTL

\* In a variant the attributes select, the first condition depends on its own
\* gate alone: sema's reading of the list and the lowering's agree on it.
THEOREM FirstOwnGateCorrect == Spec => []FirstOwnGate
<1>1. IInv => FirstOwnGate
  <2> SUFFICES ASSUME IInv, NEW i \in DOMAIN decls, NEW j \in DOMAIN decls,
                      Lowered(i, j), Fits(decls[j].attrs), decls[i].kind = "fn",
                      Matches(decls[j].attrs, active), NEW p \in DOMAIN decls[j].attrs,
                      p \in Conditions(i, decls[j].attrs),
                      \A h \in 1 .. p - 1 : ~is_invariant_attr(decls[j].attrs[h])
               PROVE  p \in kept[i] <=> (p = 1 \/ decls[j].attrs[p - 1] \in active)
    BY DEF FirstOwnGate
  <2> DEFINE attrs == decls[j].attrs
  <2>1. attrs \in AttrList /\ DOMAIN attrs = 1 .. Len(attrs) /\ Len(attrs) \in Nat
    BY ItemTypes DEF IInv, AttrList
  <2>2. kept[i] = {q \in Conditions(i, attrs) : AllActive(attrs, GatesBefore(attrs, q))}
    BY DEF IInv, KeptExactly
  <2>3. \A h \in 1 .. p - 1 : h \in GatesBefore(attrs, p)
    BY <2>1 DEF GatesBefore, is_invariant_attr
  <2>4. \A h \in 1 .. p - 2 : attrs[h] \in active
    <3> TAKE h \in 1 .. p - 2
    <3>1. h \in DOMAIN attrs /\ h + 1 \in 1 .. p - 1 /\ h \in 1 .. p - 1
      BY <2>1
    <3>2. h \in decl_required_attrs(attrs)
      BY <3>1 DEF decl_required_attrs
    <3> QED BY <3>2 DEF Matches
  <2>5. \A h \in GatesBefore(attrs, p) : h \in 1 .. p - 2 \/ (h = p - 1 /\ p # 1)
    BY <2>1 DEF GatesBefore
  <2>6. p # 1 => p - 1 \in GatesBefore(attrs, p)
    BY <2>1, <2>3
  <2>7. AllActive(attrs, GatesBefore(attrs, p)) <=> (p = 1 \/ attrs[p - 1] \in active)
    BY <2>1, <2>4, <2>5, <2>6 DEF AllActive
  <2> QED BY <2>2, <2>7
<1> QED BY <1>1, Invariance, PTL
=============================================================================

--------------------------- MODULE StructInv_proofs ---------------------------
(* Proofs about assignments: an object whose last write went through a field *)
(* satisfies the invariants of its struct.                                   *)
EXTENDS StructInv, SequenceTheorems, TLAPS

\* A front part of a sequence.
LEMMA Front ==
  ASSUME NEW S, NEW s \in Seq(S), NEW m \in 0 .. Len(s)
  PROVE  /\ SubSeq(s, 1, m) \in Seq(S) /\ Len(SubSeq(s, 1, m)) = m
         /\ \A i \in 1 .. m : SubSeq(s, 1, m)[i] = s[i]
<1>1. \A i \in 1 .. m : s[i] \in S
  OBVIOUS
<1>2. m \in Int /\ 1 \in Int /\ m - 1 + 1 = m /\ \A i \in 1 .. m : 1 + i - 1 = i
  OBVIOUS
<1>3. /\ SubSeq(s, 1, m) \in Seq(S)
      /\ Len(SubSeq(s, 1, m)) = IF 1 <= m THEN m - 1 + 1 ELSE 0
      /\ \A i \in 1 .. m - 1 + 1 : SubSeq(s, 1, m)[i] = s[1 + i - 1]
  BY <1>1, <1>2, SubSeqProperties
<1> QED BY <1>2, <1>3

(* The inductive invariant.                                                  *)

\* Only the innermost assignment is past its right-hand side, and a check
\* starts with the first invariant.
Nested ==
  \A n \in 1 .. Len(pending) :
    /\ n # Len(pending) => pending[n].stage = "rhs"
    /\ pending[n].stage = "rhs" => pending[n].i = 1

\* The invariants that were looked at hold: nothing is written until the check
\* is over.
CheckedSoFar ==
  pending # <<>> /\ Top.stage = "check" =>
    \A j \in DOMAIN Invariants : j < Top.i => Holds(Top.target, Invariants[j])

SInv == TypeOK /\ Nested /\ CheckedSoFar /\ FieldWritesChecked
-----------------------------------------------------------------------------
(* Types.                                                                    *)

Stages == {"rhs", "check"}
Histories == {"made", "raw", "field", "astray"}
PendingIn(D) == [base : Places, obj : D, field : Fields, op : {"=", "+="},
                 stage : Stages, target : Nat, i : Nat \ {0}]

\* An object that exists is there when more exist.
LEMMA PendingGrows ==
  ASSUME NEW D, NEW E, D \subseteq E, NEW s \in Seq(PendingIn(D))
  PROVE  s \in Seq(PendingIn(E))
<1>1. \A n \in 1 .. Len(s) : s[n] \in PendingIn(E)
  <2> SUFFICES ASSUME NEW n \in 1 .. Len(s) PROVE s[n] \in PendingIn(E)
    OBVIOUS
  <2>1. s[n] \in PendingIn(D)
    OBVIOUS
  <2> QED BY <2>1 DEF PendingIn
<1> QED BY <1>1

\* What the types say.
LEMMA Typed ==
  ASSUME TypeOK
  PROVE  /\ objects \in Seq([Fields -> Int]) /\ DOMAIN objects = 1 .. Len(objects)
         /\ Len(objects) \in Nat /\ \A o \in DOMAIN objects : objects[o] \in [Fields -> Int]
         /\ at \in [Places -> DOMAIN objects] /\ dead \in BOOLEAN
         /\ pending \in Seq(PendingIn(DOMAIN objects)) /\ Len(pending) \in Nat
         /\ DOMAIN pending = 1 .. Len(pending)
         /\ last \in [DOMAIN objects -> Histories]
         /\ \A n \in 1 .. Len(pending) : pending[n].stage = "check" => pending[n].target \in DOMAIN objects
<1>1. pending \in Seq(PendingIn(DOMAIN objects))
  BY DEF TypeOK, Pending, PendingIn, Stages
<1>2. objects \in Seq([Fields -> Int])
  BY DEF TypeOK
<1>3. DOMAIN objects = 1 .. Len(objects) /\ Len(objects) \in Nat /\ \A o \in DOMAIN objects : objects[o] \in [Fields -> Int]
  BY <1>2
<1>4. DOMAIN pending = 1 .. Len(pending) /\ Len(pending) \in Nat
  BY <1>1
<1>5. at \in [Places -> DOMAIN objects] /\ dead \in BOOLEAN /\ last \in [DOMAIN objects -> Histories]
  BY DEF TypeOK, Histories
<1>6. \A n \in 1 .. Len(pending) : pending[n].stage = "check" => pending[n].target \in DOMAIN objects
  BY <1>4 DEF TypeOK
<1> QED BY <1>1, <1>2, <1>3, <1>4, <1>5, <1>6

\* What a step has to show of the types.
LEMMA TypedNext ==
  ASSUME NEW D, DOMAIN objects' = D, objects' \in Seq([Fields -> Int]), at' \in [Places -> D],
         pending' \in Seq(PendingIn(D)), dead' \in BOOLEAN, last' \in [D -> Histories],
         \A n \in 1 .. Len(pending') : pending'[n].stage = "check" => pending'[n].target \in D
  PROVE  TypeOK'
<1>1. DOMAIN pending' = 1 .. Len(pending')
  OBVIOUS
<1>2. Pending' = PendingIn(D)
  BY DEF Pending, PendingIn, Stages
<1> QED BY <1>1, <1>2 DEF TypeOK, Histories

\* The assignment on top.
LEMMA TopTyped ==
  ASSUME TypeOK, pending # <<>>
  PROVE  /\ Top \in PendingIn(DOMAIN objects) /\ Len(pending) \in 1 .. Len(pending)
         /\ Top.base \in Places /\ at[Top.base] \in DOMAIN objects
         /\ Top.obj \in DOMAIN objects /\ Top.field \in Fields /\ Top.i \in Nat \ {0}
         /\ Top.stage \in Stages
<1>1. /\ pending \in Seq(PendingIn(DOMAIN objects)) /\ Len(pending) \in Nat
      /\ at \in [Places -> DOMAIN objects]
  BY Typed
<1>2. Len(pending) \in 1 .. Len(pending)
  BY <1>1, EmptySeq
<1>3. PICK w \in PendingIn(DOMAIN objects) : w = Top
  BY <1>1, <1>2 DEF Top
<1>4. /\ w.base \in Places /\ w.obj \in DOMAIN objects /\ w.field \in Fields /\ w.i \in Nat \ {0}
      /\ w.stage \in Stages
  BY DEF PendingIn
<1> QED BY <1>1, <1>2, <1>3, <1>4
-----------------------------------------------------------------------------
(* Objects that a step leaves alone.                                         *)

\* Whether an object is valid depends on its fields.
LEMMA ValidKept ==
  ASSUME NEW o, objects'[o] = objects[o]
  PROVE  Valid(o)' <=> Valid(o)
<1>1. \A c : Holds(o, c)' <=> Holds(o, c)
  BY DEF Holds, Value
<1> QED BY <1>1 DEF Valid

\* Before a statement that can start, every object is settled.
LEMMA AllSettled ==
  ASSUME SInv, CanExecute, NEW o \in DOMAIN objects, last[o] = "field"
  PROVE  Valid(o)
BY DEF SInv, CanExecute, Settled, FieldWritesChecked

\* An execution that makes or moves objects, or writes around the fields.
LEMMA StatementSteps ==
  ASSUME SInv,
         \/ \E p \in Places : \/ \E o \in [Fields -> Vals] : Make(p, o)
                              \/ \E q \in Places : Move(p, q)
         \/ \E o \in DOMAIN objects, f \in Fields, v \in Vals : WriteThrough(o, f, v)
  PROVE  SInv'
<1> DEFINE D == DOMAIN objects
           N == Len(objects)
<1>0. CanExecute /\ pending' = pending /\ dead' = dead /\ TypeOK /\ Nested
  BY DEF Make, Move, WriteThrough, SInv
<1>1. Nested' /\ CheckedSoFar'
  <2>1. Nested'
    BY <1>0 DEF Nested
  <2>2. pending' # <<>> => pending'[Len(pending')].stage = "rhs"
    BY <1>0 DEF CanExecute, Top
  <2> QED BY <2>1, <2>2 DEF CheckedSoFar, Top
<1>2. /\ objects \in Seq([Fields -> Int]) /\ D = 1 .. N /\ N \in Nat
      /\ at \in [Places -> D] /\ dead \in BOOLEAN /\ pending \in Seq(PendingIn(D))
      /\ last \in [D -> Histories]
      /\ \A n \in 1 .. Len(pending) : pending[n].stage = "check" => pending[n].target \in D
  BY <1>0, Typed
<1>3. ASSUME NEW o \in D, objects'[o] = objects[o], last'[o] = last[o], last'[o] = "field" PROVE Valid(o)'
  BY <1>0, <1>3, AllSettled, ValidKept
<1>4. ASSUME NEW p \in Places, NEW new \in [Fields -> Vals], Make(p, new) PROVE SInv'
  <2>1. /\ objects' = Append(objects, new) /\ last' = Append(last, "made")
        /\ at' = [at EXCEPT ![p] = N + 1] /\ new \in [Fields -> Int] /\ "made" \in Histories
    BY <1>4, StructAssumption DEF Make, Histories
  <2>2. /\ objects' \in Seq([Fields -> Int]) /\ Len(objects') = N + 1
        /\ \A o \in 1 .. N : objects'[o] = objects[o]
    BY ONLY <1>2, <2>1, AppendProperties
  <2>3. /\ last' \in Seq(Histories) /\ Len(last') = N + 1
        /\ \A o \in 1 .. N : last'[o] = last[o]
        /\ last'[N + 1] = "made"
    <3>1. PICK n \in Nat : n = N
      BY <1>2
    <3>2. PICK l \in [1 .. n -> Histories] : l = last
      BY <1>2, <3>1
    <3>3. l \in Seq(Histories) /\ Len(l) = n
      OBVIOUS
    <3>4. last' = Append(l, "made") /\ "made" \in Histories
      BY <2>1, <3>2
    <3> QED BY ONLY <3>1, <3>2, <3>3, <3>4, AppendProperties
  <2>4. PICK E : E = 1 .. N + 1
    OBVIOUS
  <2>5. D \subseteq E /\ DOMAIN objects' = E /\ N + 1 \in E
    BY <1>2, <2>2, <2>4
  <2>6. TypeOK'
    <3>1. pending' \in Seq(PendingIn(E))
      BY <1>0, <1>2, <2>5, PendingGrows
    <3>2. last' \in [E -> Histories]
      BY <1>2, <2>3, <2>4
    <3>3. at' \in [Places -> E]
      BY <1>2, <2>1, <2>5
    <3>4. \A n \in 1 .. Len(pending') : pending'[n].stage = "check" => pending'[n].target \in E
      BY <1>0, <1>2, <2>5
    <3> QED BY <1>0, <1>2, <2>2, <2>5, <3>1, <3>2, <3>3, <3>4, TypedNext
  <2>7. FieldWritesChecked'
    <3>1. ASSUME NEW o \in E, last'[o] = "field" PROVE Valid(o)'
      <4>1. o # N + 1
        BY <2>3, <3>1
      <4>2. o \in 1 .. N
        BY <1>2, <2>4, <4>1
      <4> QED BY <1>2, <1>3, <2>2, <2>3, <3>1, <4>2
    <3> QED BY <2>5, <3>1 DEF FieldWritesChecked
  <2> QED BY <1>1, <2>6, <2>7 DEF SInv
<1>5. ASSUME NEW p \in Places, NEW q \in Places, Move(p, q) PROVE SInv'
  <2>1. objects' = objects /\ last' = last /\ at' = [at EXCEPT ![p] = at[q]]
    BY <1>5 DEF Move
  <2>2. at' \in [Places -> D]
    BY <1>2, <2>1
  <2>3. TypeOK'
    BY <1>0, <1>2, <2>1, <2>2, TypedNext
  <2>4. FieldWritesChecked'
    BY <1>3, <2>1 DEF FieldWritesChecked
  <2> QED BY <1>1, <2>3, <2>4 DEF SInv
<1>6. ASSUME NEW o \in D, NEW f \in Fields, NEW v \in Vals, WriteThrough(o, f, v) PROVE SInv'
  <2>1. objects' = [objects EXCEPT ![o][f] = v] /\ last' = [last EXCEPT ![o] = "raw"] /\ at' = at
    BY <1>6 DEF WriteThrough
  <2>2. PICK r \in [Fields -> Int] : r = [objects[o] EXCEPT ![f] = v]
    <3>1. v \in Int /\ objects[o] \in [Fields -> Int]
      BY <1>2, StructAssumption
    <3> QED BY <3>1
  <2>3. objects' = [objects EXCEPT ![o] = r]
    BY <2>1, <2>2
  <2>4. objects' \in Seq([Fields -> Int]) /\ DOMAIN objects' = D
    BY <1>2, <2>3
  <2>5. last' \in [D -> Histories]
    BY <1>2, <2>1 DEF Histories
  <2>6. TypeOK'
    BY <1>0, <1>2, <2>1, <2>4, <2>5, TypedNext
  <2>7. \A m \in D : m # o => objects'[m] = objects[m] /\ last'[m] = last[m]
    BY <1>2, <2>1, <2>3
  <2>8. last'[o] # "field"
    BY <1>2, <2>1
  <2>9. FieldWritesChecked'
    BY <1>3, <2>4, <2>7, <2>8 DEF FieldWritesChecked
  <2> QED BY <1>1, <2>6, <2>9 DEF SInv
<1> QED BY <1>4, <1>5, <1>6

\* An assignment starts: nothing is written.
LEMMA BeginStep ==
  ASSUME SInv, NEW p \in Places, NEW f \in Fields, NEW op \in {"=", "+="}, Begin(p, f, op)
  PROVE  SInv'
<1> DEFINE D == DOMAIN objects
           w == [base |-> p, obj |-> at[p], field |-> f, op |-> op,
                 stage |-> "rhs", target |-> 0, i |-> 1]
<1>0. /\ CanExecute /\ TypeOK /\ Nested /\ objects' = objects /\ at' = at /\ dead' = dead /\ last' = last
      /\ pending' = Append(pending, w)
  BY DEF Begin, SInv
<1>1. /\ objects \in Seq([Fields -> Int]) /\ at \in [Places -> D] /\ dead \in BOOLEAN
      /\ pending \in Seq(PendingIn(D)) /\ Len(pending) \in Nat /\ last \in [D -> Histories]
      /\ \A n \in 1 .. Len(pending) : pending[n].stage = "check" => pending[n].target \in D
  BY <1>0, Typed
<1>2. w \in PendingIn(D) /\ w.stage = "rhs" /\ w.i = 1
  <2>1. at[p] \in D
    BY <1>1
  <2> QED BY <2>1 DEF PendingIn, Stages
<1> HIDE DEF w
<1>3. PICK ps : ps = pending'
  OBVIOUS
<1>4. /\ ps \in Seq(PendingIn(D)) /\ Len(ps) = Len(pending) + 1 /\ ps[Len(pending) + 1] = w
      /\ \A n \in 1 .. Len(pending) : ps[n] = pending[n]
  BY <1>0, <1>1, <1>2, <1>3, AppendProperties
<1>5. \A n \in 1 .. Len(ps) : n \in 1 .. Len(pending) \/ n = Len(pending) + 1
  BY <1>1, <1>4
<1>6. TypeOK'
  <2>1. \A n \in 1 .. Len(ps) : ps[n].stage = "check" => ps[n].target \in D
    BY <1>1, <1>2, <1>4, <1>5
  <2> QED BY <1>0, <1>1, <1>3, <1>4, <2>1, TypedNext
<1>7. \A n \in 1 .. Len(pending) : pending[n].stage = "rhs"
  <2>1. \A n \in 1 .. Len(pending) : n = Len(pending) => pending # <<>>
    BY <1>1
  <2> QED BY <1>0, <2>1 DEF Nested, CanExecute, Top
<1>8. Nested'
  BY <1>0, <1>2, <1>3, <1>4, <1>5, <1>7 DEF Nested
<1>9. CheckedSoFar'
  <2>1. ps[Len(ps)].stage # "check"
    BY <1>2, <1>4
  <2> QED BY <1>3, <2>1 DEF CheckedSoFar, Top
<1>10. FieldWritesChecked'
  <2>1. \A o \in D : last[o] = "field" => Valid(o)'
    BY <1>0, AllSettled, ValidKept
  <2> QED BY <1>0, <2>1 DEF FieldWritesChecked
<1> QED BY <1>6, <1>8, <1>9, <1>10 DEF SInv

\* The value is stored, and the check of what the base leads to starts.
LEMMA StoreStep ==
  ASSUME SInv, NEW v \in Vals, Store(v)
  PROVE  SInv'
<1> DEFINE D == DOMAIN objects
           L == Len(pending)
           new == IF Top.op = "=" THEN v ELSE objects[Top.obj][Top.field] + v
<1>0. /\ CanExecute /\ pending # <<>> /\ new \in -Bound .. Bound /\ TypeOK /\ Nested
      /\ objects' = [objects EXCEPT ![Top.obj][Top.field] = new]
      /\ last' = [last EXCEPT ![Top.obj] = IF at[Top.base] = Top.obj THEN "field" ELSE "astray"]
      /\ pending' = [pending EXCEPT ![L] = [Top EXCEPT !.stage = "check", !.target = at[Top.base]]]
      /\ at' = at /\ dead' = dead
  BY DEF Store, Update, SInv
<1>1. /\ objects \in Seq([Fields -> Int]) /\ D = 1 .. Len(objects) /\ Len(objects) \in Nat
      /\ \A m \in D : objects[m] \in [Fields -> Int]
      /\ at \in [Places -> D] /\ dead \in BOOLEAN
      /\ pending \in Seq(PendingIn(D)) /\ L \in Nat /\ last \in [D -> Histories]
      /\ \A n \in 1 .. L : pending[n].stage = "check" => pending[n].target \in D
  BY <1>0, Typed
<1>2. /\ Top \in PendingIn(D) /\ L \in 1 .. L /\ at[Top.base] \in D
      /\ Top.obj \in D /\ Top.field \in Fields /\ Top.i \in Nat \ {0}
  BY <1>0, TopTyped
<1>3. PICK t \in D : t = at[Top.base]
  BY <1>2
<1>4. PICK u \in D : u = Top.obj
  BY <1>2
<1>5. PICK x \in Int : x = new
  <2>1. -Bound .. Bound \subseteq Int
    BY StructAssumption
  <2> HIDE DEF new
  <2> QED BY <1>0, <2>1
<1>6. PICK r \in [Fields -> Int] : r = [objects[u] EXCEPT ![Top.field] = x]
  BY <1>1, <1>2
<1>7. objects' = [objects EXCEPT ![u] = r]
  BY <1>0, <1>4, <1>5, <1>6
<1>8. PICK h \in Histories : h = IF t = u THEN "field" ELSE "astray"
  BY DEF Histories
<1>9. last' = [last EXCEPT ![u] = h]
  BY <1>0, <1>3, <1>4, <1>8
<1>10. PICK w \in PendingIn(D) : w = [Top EXCEPT !.stage = "check", !.target = t]
  <2>1. D \subseteq Nat /\ "check" \in Stages
    BY <1>1 DEF Stages
  <2>2. PICK a \in PendingIn(D) : a = Top
    BY <1>2
  <2>3. [a EXCEPT !.stage = "check", !.target = t] \in PendingIn(D)
    BY <2>1 DEF PendingIn
  <2> QED BY <2>2, <2>3
<1>11. w.stage = "check" /\ w.target = t /\ w.i = Top.i
  BY <1>2, <1>10 DEF PendingIn
<1>12. pending' = [pending EXCEPT ![L] = w]
  BY <1>0, <1>3, <1>10
<1>13. PICK ps : ps = pending'
  OBVIOUS
<1>14. /\ ps \in Seq(PendingIn(D)) /\ Len(ps) = L
       /\ \A n \in 1 .. L : ps[n] = IF n = L THEN w ELSE pending[n]
  BY ONLY <1>1, <1>2, <1>12, <1>13, ExceptSeq
<1>15. TypeOK'
  <2>1. objects' \in Seq([Fields -> Int]) /\ DOMAIN objects' = D
    BY <1>1, <1>7
  <2>2. last' \in [D -> Histories]
    BY <1>1, <1>9
  <2>3. \A n \in 1 .. Len(ps) : ps[n].stage = "check" => ps[n].target \in D
    BY <1>1, <1>11, <1>14
  <2> QED BY <1>0, <1>1, <1>13, <1>14, <2>1, <2>2, <2>3, TypedNext
<1>16. Top.i = 1
  BY <1>0, <1>2 DEF Nested, CanExecute, Top
<1>17. Nested'
  <2>1. \A n \in 1 .. L : /\ n # L => ps[n].stage = "rhs"
                          /\ ps[n].stage = "rhs" => ps[n].i = 1
    BY <1>0, <1>11, <1>14 DEF Nested
  <2> QED BY <1>13, <1>14, <2>1 DEF Nested
<1>18. ps[Len(ps)] = w /\ ps # <<>>
  BY <1>2, <1>14
<1>19. CheckedSoFar'
  <2>1. \A j \in DOMAIN Invariants : ~(j < 1)
    BY StructAssumption
  <2> QED BY <1>11, <1>13, <1>16, <1>18, <2>1 DEF CheckedSoFar, Top
<1>20. FieldWritesChecked'
  <2> SUFFICES ASSUME NEW o \in D, Settled(o)', last'[o] = "field" PROVE Valid(o)'
    <3>1. DOMAIN objects' = D
      BY <1>1, <1>7
    <3> QED BY <3>1 DEF FieldWritesChecked
  <2>1. o # t
    BY <1>11, <1>13, <1>18 DEF Settled, Top
  <2>2. o # u
    <3> SUFFICES ASSUME o = u PROVE FALSE
      OBVIOUS
    <3>1. last'[u] = h
      BY <1>1, <1>9
    <3> QED BY <1>8, <2>1, <3>1
  <2>3. objects'[o] = objects[o] /\ last'[o] = last[o]
    BY <1>1, <1>7, <1>9, <2>2
  <2> QED BY <1>0, <2>3, AllSettled, ValidKept
<1> QED BY <1>15, <1>17, <1>19, <1>20 DEF SInv

\* An invariant is looked at: it holds, or the run is over.
LEMMA CheckStep ==
  ASSUME SInv, Check
  PROVE  SInv'
<1> DEFINE D == DOMAIN objects
           L == Len(pending)
<1>0. /\ pending # <<>> /\ Top.stage = "check" /\ ~dead /\ TypeOK /\ Nested /\ CheckedSoFar
      /\ objects' = objects /\ at' = at /\ last' = last
  BY DEF Check, Checking, SInv
<1>1. /\ objects \in Seq([Fields -> Int]) /\ at \in [Places -> D]
      /\ pending \in Seq(PendingIn(D)) /\ L \in Nat /\ last \in [D -> Histories]
      /\ \A n \in 1 .. L : pending[n].stage = "check" => pending[n].target \in D
  BY <1>0, Typed
<1>2. Top \in PendingIn(D) /\ L \in 1 .. L /\ Top.i \in Nat \ {0}
  BY <1>0, TopTyped
<1>3. \A o : Valid(o)' <=> Valid(o)
  BY <1>0, ValidKept
<1>4. CASE Holds(Top.target, Invariants[Top.i])
  <2>1. dead' = dead /\ pending' = [pending EXCEPT ![L] = [Top EXCEPT !.i = @ + 1]]
    BY <1>4 DEF Check, Update
  <2>2. PICK a \in PendingIn(D) : a = Top
    BY <1>2
  <2>3. PICK w \in PendingIn(D) : w = [a EXCEPT !.i = @ + 1]
    <3>1. a.i + 1 \in Nat \ {0}
      BY <1>2, <2>2
    <3> QED BY <3>1 DEF PendingIn
  <2>4. w.stage = "check" /\ w.target = a.target /\ w.i = a.i + 1
    BY <1>0, <2>2, <2>3 DEF PendingIn
  <2>5. PICK ps : ps = pending'
    OBVIOUS
  <2>6. /\ ps \in Seq(PendingIn(D)) /\ Len(ps) = L
        /\ \A n \in 1 .. L : ps[n] = IF n = L THEN w ELSE pending[n]
    BY <1>1, <1>2, <2>1, <2>2, <2>3, <2>5, ExceptSeq
  <2>7. ps[Len(ps)] = w /\ ps # <<>>
    BY <1>2, <2>6
  <2>8. a.target \in D
    BY <1>0, <1>1, <1>2, <2>2 DEF Top
  <2>9. TypeOK'
    <3>1. \A n \in 1 .. Len(ps) : ps[n].stage = "check" => ps[n].target \in D
      BY <1>1, <2>4, <2>6, <2>8
    <3>2. dead' \in BOOLEAN
      BY <1>0, <2>1, Typed, Zenon
    <3> QED BY <1>0, <1>1, <2>5, <2>6, <3>1, <3>2, TypedNext
  <2>10. Nested'
    <3>1. \A n \in 1 .. L : /\ n # L => ps[n].stage = "rhs"
                            /\ ps[n].stage = "rhs" => ps[n].i = 1
      BY <1>0, <2>4, <2>6 DEF Nested
    <3> QED BY <2>5, <2>6, <3>1 DEF Nested
  <2>11. CheckedSoFar'
    <3>1. ASSUME NEW j \in DOMAIN Invariants, j < a.i + 1 PROVE Holds(a.target, Invariants[j])
      <4>1. j \in Nat /\ a.i \in Nat
        BY <1>2, <2>2, StructAssumption
      <4>2. j < a.i \/ j = a.i
        BY <3>1, <4>1
      <4> QED BY <1>0, <1>4, <2>2, <4>2 DEF CheckedSoFar
    <3>2. \A o, c : Holds(o, c)' <=> Holds(o, c)
      BY <1>0 DEF Holds, Value
    <3>3. Top' = w
      BY <2>5, <2>7 DEF Top
    <3> QED BY <2>4, <3>1, <3>2, <3>3 DEF CheckedSoFar
  <2>12. FieldWritesChecked'
    <3>1. \A o : Settled(o)' => Settled(o)
      BY <1>0, <2>1, <2>2, <2>4, <2>5, <2>7 DEF Settled, Top
    <3> QED BY <1>0, <1>3, <3>1 DEF FieldWritesChecked, SInv
  <2> QED BY <2>9, <2>10, <2>11, <2>12 DEF SInv
<1>5. CASE ~Holds(Top.target, Invariants[Top.i])
  <2>1. dead' = TRUE /\ pending' = pending
    BY <1>5 DEF Check
  <2>2. TypeOK'
    BY <1>0, <1>1, <2>1, TypedNext
  <2>3. Nested'
    BY <1>0, <2>1 DEF Nested
  <2>4. CheckedSoFar'
    BY <1>0, <2>1 DEF CheckedSoFar, Top, Holds, Value
  <2>5. FieldWritesChecked'
    BY <2>1 DEF FieldWritesChecked, Settled
  <2> QED BY <2>2, <2>3, <2>4, <2>5 DEF SInv
<1> QED BY <1>4, <1>5

\* The check is over: every invariant was looked at.
LEMMA EndStep ==
  ASSUME SInv, End
  PROVE  SInv'
<1> DEFINE D == DOMAIN objects
           L == Len(pending)
<1>0. /\ pending # <<>> /\ Top.stage = "check" /\ ~dead /\ TypeOK /\ Nested /\ CheckedSoFar
      /\ objects' = objects /\ at' = at /\ last' = last /\ dead' = dead
      /\ Top.i \notin DOMAIN Invariants /\ pending' = SubSeq(pending, 1, L - 1)
  BY DEF End, Checking, SInv
<1>1. /\ objects \in Seq([Fields -> Int]) /\ at \in [Places -> D] /\ dead \in BOOLEAN
      /\ pending \in Seq(PendingIn(D)) /\ L \in Nat /\ last \in [D -> Histories]
      /\ \A n \in 1 .. L : pending[n].stage = "check" => pending[n].target \in D
  BY <1>0, Typed
<1>2. L \in 1 .. L /\ Top.i \in Nat \ {0}
  BY <1>0, TopTyped
<1>3. PICK ps : ps = pending'
  OBVIOUS
<1>4. /\ ps \in Seq(PendingIn(D)) /\ Len(ps) = L - 1
      /\ \A n \in 1 .. L - 1 : ps[n] = pending[n]
  <2>1. PICK m : m = L - 1
    OBVIOUS
  <2>2. m \in 0 .. L
    BY <1>2, <2>1
  <2> QED BY <1>0, <1>1, <1>3, <2>1, <2>2, Front
<1>5. \A n \in 1 .. L - 1 : n \in 1 .. L /\ n # L
  BY <1>1
<1>6. TypeOK'
  <2>1. \A n \in 1 .. Len(ps) : ps[n].stage = "check" => ps[n].target \in D
    BY <1>1, <1>4, <1>5
  <2> QED BY <1>0, <1>1, <1>3, <1>4, <2>1, TypedNext
<1>7. \A n \in 1 .. Len(ps) : ps[n].stage = "rhs" /\ ps[n].i = 1
  BY <1>0, <1>4, <1>5 DEF Nested
<1>8. Nested'
  BY <1>3, <1>7 DEF Nested
<1>9. ps # <<>> => ps[Len(ps)].stage = "rhs"
  <2>1. ps # <<>> => Len(ps) \in 1 .. Len(ps)
    BY <1>4, EmptySeq
  <2> QED BY <1>7, <2>1
<1>10. CheckedSoFar'
  BY <1>3, <1>9 DEF CheckedSoFar, Top
<1>11. Valid(Top.target)
  <2>1. \A j \in DOMAIN Invariants : j < Top.i
    BY <1>0, <1>2, StructAssumption
  <2> QED BY <1>0, <2>1 DEF CheckedSoFar, Valid
<1>12. FieldWritesChecked'
  <2>1. ASSUME NEW o \in D, last[o] = "field" PROVE Valid(o)
    <3>1. CASE Top.target = o
      BY <1>11, <3>1
    <3>2. CASE Top.target # o
      BY <1>0, <2>1, <3>2 DEF SInv, FieldWritesChecked, Settled
    <3> QED BY <3>1, <3>2
  <2>2. \A o : Valid(o)' <=> Valid(o)
    BY <1>0, ValidKept
  <2> QED BY <1>0, <2>1, <2>2 DEF FieldWritesChecked
<1> QED BY <1>6, <1>8, <1>10, <1>12 DEF SInv

\* A run that died is not looked at.
LEMMA FailStep ==
  ASSUME SInv, Fail
  PROVE  SInv'
<1>0. /\ TypeOK /\ Nested /\ CheckedSoFar /\ dead' = TRUE
      /\ objects' = objects /\ at' = at /\ last' = last /\ pending' = pending
  BY DEF Fail, SInv
<1>1. TypeOK'
  BY <1>0, Typed, TypedNext
<1>2. Nested' /\ CheckedSoFar'
  BY <1>0 DEF Nested, CheckedSoFar, Top, Holds, Value
<1>3. FieldWritesChecked'
  BY <1>0 DEF FieldWritesChecked, Settled
<1> QED BY <1>1, <1>2, <1>3 DEF SInv
-----------------------------------------------------------------------------
(* The invariant holds of every run.                                         *)

LEMMA InitSInv == Init => SInv
<1> SUFFICES ASSUME Init PROVE SInv
  OBVIOUS
<1>1. PICK o \in [Fields -> Vals] : objects = <<o>>
  BY DEF Init
<1>2. /\ at = [p \in Places |-> 1] /\ pending = <<>> /\ dead = FALSE /\ last = <<"made">>
  BY DEF Init
<1>3. o \in [Fields -> Int]
  BY StructAssumption
<1>4. objects \in Seq([Fields -> Int]) /\ DOMAIN objects = {1}
  BY <1>1, <1>3
<1>5. last \in [DOMAIN objects -> {"made", "raw", "field", "astray"}] /\ last[1] = "made"
  BY <1>2, <1>4
<1>6. pending \in Seq(Pending) /\ Len(pending) = 0 /\ DOMAIN pending = {}
  BY <1>2
<1>7. TypeOK
  BY <1>2, <1>4, <1>5, <1>6 DEF TypeOK
<1> QED BY <1>2, <1>4, <1>5, <1>6, <1>7 DEF SInv, Nested, CheckedSoFar, FieldWritesChecked

\* Every step keeps the invariant.
LEMMA StepSInv == SInv /\ [Next]_vars => SInv'
<1>1. SInv /\ UNCHANGED vars => SInv'
  <2> SUFFICES ASSUME SInv, UNCHANGED vars PROVE SInv'
    OBVIOUS
  <2>1. objects' = objects /\ at' = at /\ pending' = pending /\ dead' = dead /\ last' = last
    BY DEF vars
  <2>2. TypeOK' /\ Nested' /\ CheckedSoFar'
    BY <2>1 DEF SInv, TypeOK, Pending, Nested, CheckedSoFar, Top, Holds, Value
  <2>3. FieldWritesChecked'
    BY <2>1 DEF SInv, FieldWritesChecked, Settled, Valid, Top, Holds, Value
  <2> QED BY <2>2, <2>3 DEF SInv
<1> QED BY <1>1, StatementSteps, BeginStep, StoreStep, CheckStep, EndStep, FailStep DEF Next

\* Assignments keep their invariant.
LEMMA AssignmentInvariance == Spec => []SInv
BY InitSInv, StepSInv, PTL DEF Spec

\* The objects, places and pending assignments are what they should be.
THEOREM TypeCorrect == Spec => []TypeOK
<1>1. SInv => TypeOK
  BY DEF SInv
<1> QED BY <1>1, AssignmentInvariance, PTL

\* bank_invariant.vt, "the struct invariant re-fires on every mutation point"
\* (interp.c, eval_assign and check_invariants): whatever assignments ran in
\* its right-hand side, or were under way around it, and however places were
\* moved meanwhile, an object whose last write went through a field of the
\* struct its base still led to satisfies every invariant once it is settled.
THEOREM FieldWritesCorrect == Spec => []FieldWritesChecked
<1>1. SInv => FieldWritesChecked
  BY DEF SInv
<1> QED BY <1>1, AssignmentInvariance, PTL
=============================================================================

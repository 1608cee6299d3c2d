---------------------------- MODULE Driver_proofs ----------------------------
(* Proofs about the analysis of function variants, about a run and about the *)
(* invocation around it, for every program, every set of function names and  *)
(* every set of active attributes.  First the analysis, which is proved of   *)
(* its own specification: a call is bound to the one best variant, and the   *)
(* verdict is exact.  Then a run: every activation is of the one variant its *)
(* function stands for and finds its contract, and a run implements          *)
(* OneImplementation.  Then an invocation: what is proved of the analysis    *)
(* and of a run holds of every one that main starts, and the exit status     *)
(* tells what happened.                                                      *)
EXTENDS Driver, FiniteSetTheorems, SequenceTheorems, TLAPS

(* Induction over the naturals: the theorems of the library take an operator  *)
(* as a parameter, so a set and its least element do the work.                *)

\* A set of natural numbers with an element has a least one.
LEMMA LeastNat ==
  ASSUME NEW T \in SUBSET Nat, T # {}
  PROVE  \E x \in T : \A y \in T : x <= y
<1>1. PICK x \in T : \A y \in T : ~(<<y, x>> \in OpToRel(<, Nat))
  BY NatLessThanWellFounded, WFMin
<1>2. \A y \in T : ~(y < x)
  BY <1>1 DEF OpToRel
<1> QED BY <1>2

\* Induction: a set that holds 0, and with every number the next one, holds
\* every natural number.
LEMMA SetInduction ==
  ASSUME NEW S, 0 \in S, \A n \in Nat : n \in S => n + 1 \in S
  PROVE  \A n \in Nat : n \in S
<1> SUFFICES ASSUME NEW m \in Nat, m \notin S PROVE FALSE
  OBVIOUS
<1> DEFINE T == {n \in Nat : n \notin S}
<1>1. PICK x \in T : \A y \in T : x <= y
  <2>1. T \in SUBSET Nat /\ m \in T
    OBVIOUS
  <2> HIDE DEF T
  <2> QED BY <2>1, LeastNat
<1>2. x \in Nat /\ x # 0 /\ x \notin S
  OBVIOUS
<1>3. x - 1 \in Nat /\ x - 1 \in S
  BY <1>1, <1>2
<1>4. (x - 1) + 1 \in S
  BY <1>3
<1> QED BY <1>2, <1>4

\* A front part of a sequence.
LEMMA Front ==
  ASSUME NEW S, NEW s \in Seq(S), NEW m \in 0 .. Len(s)
  PROVE  /\ SubSeq(s, 1, m) \in Seq(S) /\ Len(SubSeq(s, 1, m)) = m
         /\ \A i \in 1 .. m : SubSeq(s, 1, m)[i] = s[i]
<1>1. \A i \in 1 .. m : s[i] \in S
  OBVIOUS
<1>2. m \in Int /\ 1 \in Int /\ m - 1 + 1 = m /\ \A i \in 1 .. m : 1 + i - 1 = i
  OBVIOUS
<1>3. /\ SubSeq(s, 1, m) \in Seq(S)
      /\ Len(SubSeq(s, 1, m)) = IF 1 <= m THEN m - 1 + 1 ELSE 0
      /\ \A i \in 1 .. m - 1 + 1 : SubSeq(s, 1, m)[i] = s[1 + i - 1]
  BY <1>1, <1>2, SubSeqProperties
<1> QED BY <1>2, <1>3

(* The analysis.                                                             *)

\* The score of an attribute list is a natural number.
LEMMA ScoreType == ASSUME NEW attrs \in AttrList PROVE Score(attrs) \in Nat
<1>1. IsFiniteSet(1 .. Len(attrs))
  BY FS_Interval
<1>2. decl_required_attrs(attrs) \subseteq 1 .. Len(attrs)
  BY DEF decl_required_attrs, AttrList
<1>3. IsFiniteSet(decl_required_attrs(attrs))
  BY <1>1, <1>2, FS_Subset
<1> QED BY <1>3, FS_CardinalityType DEF Score

-----------------------------------------------------------------------------
(* The inductive invariant.                                                  *)

\* Each bucket holds exactly the declarations of its name met so far, in
\* source order; when the pre-pass is over, that is all of them.
BucketsFiled ==
  /\ \A f \in Fns : \A i \in 1 .. Len(Items(f)) :
       Items(f)[i] < d /\ decls[Items(f)[i]].name = f
  /\ \A f \in Fns : \A i, k \in 1 .. Len(Items(f)) : i < k => Items(f)[i] < Items(f)[k]
  /\ \A v \in 1 .. Len(decls) : v < d =>
       \E i \in 1 .. Len(Items(decls[v].name)) : Items(decls[v].name)[i] = v
  /\ phase # "collect" => d = Len(decls) + 1

\* No call is bound before the pre-pass is over.
UnboundInPrePass == phase = "collect" => \A s \in Sites : resolved[s] = NULL

\* What the registers of select_variant say about the items already seen.
Seen(f) == {k \in 1 .. Len(Items(f)) : k < sel.i /\ Matches(Attrs(f, k), active)}

Registers(f) ==
  /\ sel.best = 0 => Seen(f) = {} /\ sel.score = -1
  /\ sel.best # 0 =>
       /\ sel.best \in Seen(f)
       /\ sel.score = Score(Attrs(f, sel.best))
       /\ \A k \in Seen(f) :
            /\ Score(Attrs(f, k)) <= sel.score
            /\ k < sel.best => Score(Attrs(f, k)) < sel.score

LoopInvariant ==
  phase = "select" => OnCall /\ \A f \in Fns : f = Callee => Registers(f)

IInv == TypeOK /\ BucketsFiled /\ UnboundInPrePass /\ LoopInvariant /\ BoundToBest
-----------------------------------------------------------------------------
\* Where the cursor is on a call, everything it names exists.
LEMMA CursorTypes ==
  ASSUME TypeOK, OnCall
  PROVE  /\ order[cur.b] \in Fns
         /\ Variant \in 1 .. Len(decls)
         /\ cur.c \in 1 .. Len(decls[Variant].calls)
         /\ Callee \in Fns
         /\ <<Variant, cur.c>> \in Sites
         /\ decls[Variant].calls[cur.c] = Callee
<1>1. order[cur.b] \in Fns
  BY DEF TypeOK, OnCall, OnVariant, OnBucket
<1>2. bucket[order[cur.b]].items \in Seq(1 .. Len(decls))
  BY <1>1 DEF TypeOK
<1>3. Variant \in 1 .. Len(decls)
  BY <1>1, <1>2 DEF OnCall, OnVariant, Variant, Items
<1>4. decls[Variant] \in FnDecl /\ Variant \in DOMAIN decls
  BY <1>3 DEF TypeOK
<1>5. cur.c \in DOMAIN decls[Variant].calls /\ decls[Variant].calls \in Seq(Fns)
  BY <1>4 DEF OnCall, FnDecl
<1>6. cur.c \in 1 .. Len(decls[Variant].calls) /\ Callee \in Fns
  BY <1>5 DEF Callee
<1>7. <<Variant, cur.c>> \in Sites
  BY <1>4, <1>5 DEF Sites
<1> QED BY <1>1, <1>3, <1>6, <1>7 DEF Callee

\* An item of a bucket is a declaration with an attribute list.
LEMMA ItemTypes ==
  ASSUME TypeOK, NEW f \in Fns
  PROVE  /\ Items(f) \in Seq(1 .. Len(decls))
         /\ Len(Items(f)) \in Nat
         /\ DOMAIN Items(f) = 1 .. Len(Items(f))
         /\ \A i \in 1 .. Len(Items(f)) :
              /\ Items(f)[i] \in 1 .. Len(decls)
              /\ Attrs(f, i) \in AttrList
              /\ Score(Attrs(f, i)) \in Nat
<1>1. Items(f) \in Seq(1 .. Len(decls))
  BY DEF TypeOK, Items
<1>2. ASSUME NEW i \in 1 .. Len(Items(f))
      PROVE  Items(f)[i] \in 1 .. Len(decls) /\ Attrs(f, i) \in AttrList
  <2>1. Items(f)[i] \in 1 .. Len(decls)
    BY <1>1
  <2>2. decls[Items(f)[i]] \in FnDecl
    BY <2>1, SMTT(60) DEF TypeOK
  <2> QED BY <2>1, <2>2 DEF Attrs, FnDecl
<1> QED BY <1>1, <1>2, ScoreType

\* A call site is a declaration and an index into its calls.
LEMMA SiteTypes ==
  ASSUME TypeOK, NEW s \in Sites
  PROVE  /\ s[1] \in 1 .. Len(decls)
         /\ s[2] \in 1 .. Len(decls[s[1]].calls)
         /\ s = <<s[1], s[2]>>
         /\ decls[s[1]].calls[s[2]] \in Fns
<1>1. PICK v \in DOMAIN decls : s \in {<<v, k>> : k \in DOMAIN decls[v].calls}
  BY DEF Sites
<1>2. PICK k \in DOMAIN decls[v].calls : s = <<v, k>>
  BY <1>1
<1>3. v \in 1 .. Len(decls) /\ decls[v] \in FnDecl
  BY <1>1 DEF TypeOK
<1>4. decls[v].calls \in Seq(Fns)
  BY <1>3 DEF FnDecl
<1> QED BY <1>2, <1>3, <1>4
-----------------------------------------------------------------------------
\* Whatever program sema is started on, the invariant holds at the start.
LEMMA StartInv ==
  decls \in Seq(FnDecl) /\ active \subseteq STRING /\ Start => IInv
<1> SUFFICES ASSUME decls \in Seq(FnDecl), active \subseteq STRING, Start PROVE IInv
  OBVIOUS
<1>1. Len(decls) \in Nat
  OBVIOUS
<1>2. TypeOK
  <2>1. bucket \in [Fns -> [block : Nat, cap : Nat, items : Seq(1 .. Len(decls))]]
    BY <1>1 DEF Start, EmptyBucket
  <2>2. sel \in [i : Nat \ {0}, best : Nat, score : Int, tied : BOOLEAN]
    BY DEF Start, NoSelection
  <2>3. resolved \in [Sites -> [block : Nat, idx : Nat]]
    BY DEF Start, NULL
  <2>4. d \in 1 .. Len(decls) + 1
    BY <1>1 DEF Start
  <2>5. cur \in [b : Nat \ {0}, j : Nat \ {0}, c : Nat \ {0}]
    BY DEF Start
  <2>6. phase = "collect" /\ order \in Seq(Fns)
    BY SMT DEF Start
  <2>7. had_error \in BOOLEAN
    BY Zenon DEF Start
  <2> QED BY <1>1, <2>1, <2>2, <2>3, <2>4, <2>5, <2>6, <2>7 DEF TypeOK
<1>3. \A f \in Fns : Len(Items(f)) = 0
  BY DEF Start, Items, EmptyBucket
<1>4. BucketsFiled
  BY <1>1, <1>3 DEF BucketsFiled, Start
<1>5. UnboundInPrePass /\ LoopInvariant
  BY DEF UnboundInPrePass, LoopInvariant, Start
<1>6. BoundToBest
  BY DEF BoundToBest, Start
<1> QED BY <1>2, <1>4, <1>5, <1>6 DEF IInv

\* In particular on a program of the constants.
LEMMA InitInv == Init => IInv
  BY StartInv, InputsAssumption DEF Init
-----------------------------------------------------------------------------
\* Every step keeps every variable in its type.
LEMMA TypeStep == IInv /\ [Next]_vars => TypeOK'
<1> SUFFICES ASSUME IInv, [Next]_vars PROVE TypeOK'
  OBVIOUS
<1> DEFINE BucketT == [block : Nat, cap : Nat, items : Seq(1 .. Len(decls))]
           SelT == [i : Nat \ {0}, best : Nat, score : Int, tied : BOOLEAN]
           CurT == [b : Nat \ {0}, j : Nat \ {0}, c : Nat \ {0}]
<1>0. TypeOK
  BY DEF IInv
<1>1. CASE Collect
  <2>1. d \in 1 .. Len(decls) /\ Len(decls) \in Nat
    BY <1>0, <1>1 DEF TypeOK, Collect
  <2>2. decls[d] \in FnDecl
    BY <1>0, <2>1 DEF TypeOK
  <2>3. decls[d].name \in Fns
    BY <2>2 DEF FnDecl
  <2>4. order' \in Seq(Fns)
    BY <1>0, <1>1, <2>3 DEF TypeOK, Collect, fns_bucket
  <2>5. \A bk \in BucketT : bucket_push(bk, d) \in BucketT
    <3> SUFFICES ASSUME NEW bk \in BucketT PROVE bucket_push(bk, d) \in BucketT
      OBVIOUS
    <3>1. bk.items \in Seq(1 .. Len(decls)) /\ bk.cap \in Nat /\ bk.block \in Nat
      OBVIOUS
    <3>2. Append(bk.items, d) \in Seq(1 .. Len(decls))
      BY <2>1, <3>1
    <3>3. CASE Len(bk.items) = bk.cap
      <4>1. (IF bk.cap = 0 THEN 2 ELSE 2 * bk.cap) \in Nat
        BY <3>1
      <4>2. d \in Nat
        BY <2>1
      <4> QED BY <3>2, <3>3, <4>1, <4>2 DEF bucket_push
    <3>4. CASE Len(bk.items) # bk.cap
      BY <3>2, <3>4 DEF bucket_push
    <3> QED BY <3>3, <3>4
  <2>6. bucket' \in [Fns -> BucketT]
    <3>1. bucket \in [Fns -> BucketT]
      BY <1>0 DEF TypeOK
    <3>2. bucket' = [bucket EXCEPT ![decls[d].name] = bucket_push(bucket[decls[d].name], d)]
      BY <1>1 DEF Collect
    <3> HIDE DEF BucketT
    <3> QED BY <2>3, <2>5, <3>1, <3>2
  <2>7. d' \in 1 .. Len(decls) + 1
    BY <1>1, <2>1 DEF Collect
  <2>8. phase' \in {"collect", "check", "select", "done"}
    BY <1>0, <1>1 DEF TypeOK, Collect
  <2>9. UNCHANGED <<decls, active, cur, sel, resolved, had_error>>
    BY <1>1 DEF Collect
  <2> QED BY <1>0, <2>4, <2>6, <2>7, <2>8, <2>9 DEF TypeOK, Sites
<1>2. CASE EndCollect
  BY <1>0, <1>2 DEF TypeOK, EndCollect, Sites
<1>3. CASE CallKnown
  <2>1. sel' \in SelT
    BY <1>3 DEF CallKnown, NoSelection
  <2> QED BY <1>0, <1>3, <2>1 DEF TypeOK, CallKnown, Sites
<1>c. ASSUME cur' = [cur EXCEPT !.c = @ + 1] PROVE cur' \in CurT
  <2>1. cur \in CurT /\ cur.c + 1 \in Nat \ {0}
    BY <1>0 DEF TypeOK
  <2> QED BY <1>c, <2>1
<1>4. CASE CallUnknown
  <2>1. cur' \in CurT
    BY <1>c, <1>4 DEF CallUnknown
  <2>2. had_error' \in BOOLEAN
    BY <1>4 DEF CallUnknown
  <2> QED BY <1>0, <1>4, <2>1, <2>2 DEF TypeOK, CallUnknown, Sites
<1>5. CASE SelectStep
  <2>1. OnCall /\ Callee \in Fns
    BY <1>0, <1>5, CursorTypes DEF SelectStep, IInv, LoopInvariant
  <2>2. sel.i \in 1 .. Len(Items(Callee)) /\ Score(Attrs(Callee, sel.i)) \in Nat
    BY <1>0, <1>5, <2>1, ItemTypes DEF SelectStep
  <2>3. sel \in SelT
    BY <1>0 DEF TypeOK
  <2>4. [sel EXCEPT !.tied = TRUE] \in SelT
    BY <2>3
  <2>a. ASSUME NEW sc \in Nat
        PROVE  [sel EXCEPT !.best = sel.i, !.score = sc, !.tied = FALSE] \in SelT
    <3>1. sel.i \in Nat /\ sc \in Int
      BY <2>3
    <3> QED BY <2>3, <3>1
  <2>5. Consider(sel, Attrs(Callee, sel.i)) \in SelT
    BY <2>2, <2>3, <2>4, <2>a DEF Consider
  <2>6. sel' = [Consider(sel, Attrs(Callee, sel.i)) EXCEPT !.i = sel.i + 1]
    BY <1>5 DEF SelectStep
  <2>7. sel.i + 1 \in Nat \ {0}
    BY <2>3
  <2>8. sel' \in SelT
    BY <2>5, <2>6, <2>7
  <2> QED BY <1>0, <1>5, <2>8 DEF TypeOK, SelectStep, Sites
<1>6. CASE SelectDone
  <2>1. OnCall /\ Callee \in Fns
    BY <1>0, <1>6, CursorTypes DEF SelectDone, IInv, LoopInvariant
  <2>2. cur' \in CurT
    BY <1>c, <1>6 DEF SelectDone
  <2>3. had_error' \in BOOLEAN
    BY Zenon, <1>6 DEF SelectDone
  <2>4. [block |-> bucket[Callee].block, idx |-> sel.best] \in [block : Nat, idx : Nat]
    BY <1>0, <2>1 DEF TypeOK
  <2>5. resolved' \in [Sites -> [block : Nat, idx : Nat]]
    BY <1>0, <1>6, <2>4 DEF TypeOK, SelectDone
  <2>6. phase' = "check" /\ UNCHANGED <<decls, active, d, order, bucket, sel>>
    BY <1>6 DEF SelectDone
  <2> QED BY <1>0, <2>2, <2>3, <2>5, <2>6 DEF TypeOK, Sites
<1>7. CASE NextVariant
  <2>1. cur' \in CurT
    <3>1. cur \in CurT /\ cur.j + 1 \in Nat \ {0} /\ 1 \in Nat \ {0}
      BY <1>0 DEF TypeOK
    <3>2. cur' = [cur EXCEPT !.j = cur.j + 1, !.c = 1]
      BY <1>7 DEF NextVariant
    <3> QED BY <3>1, <3>2
  <2>2. had_error' \in BOOLEAN
    BY Zenon, <1>7 DEF NextVariant
  <2> QED BY <1>0, <1>7, <2>1, <2>2 DEF TypeOK, NextVariant, Sites
<1>8. CASE NextBucket
  <2>1. cur' \in CurT
    BY <1>0, <1>8 DEF TypeOK, NextBucket
  <2> QED BY <1>0, <1>8, <2>1 DEF TypeOK, NextBucket, Sites
<1>9. CASE Finish
  BY <1>0, <1>9 DEF TypeOK, Finish, Sites
<1>10. CASE UNCHANGED vars
  BY <1>0, <1>10 DEF TypeOK, vars, sema, Sites
<1> QED BY <1>1, <1>2, <1>3, <1>4, <1>5, <1>6, <1>7, <1>8, <1>9, <1>10 DEF Next, SemaNext
-----------------------------------------------------------------------------
\* The pre-pass files every declaration in its bucket, in source order, and
\* nothing moves afterwards.
LEMMA BucketsStep == IInv /\ [Next]_vars => BucketsFiled' /\ UnboundInPrePass'
<1> SUFFICES ASSUME IInv, [Next]_vars PROVE BucketsFiled' /\ UnboundInPrePass'
  OBVIOUS
<1>0. TypeOK /\ BucketsFiled /\ UnboundInPrePass
  BY DEF IInv
<1>1. CASE Collect
  <2> DEFINE n == decls[d].name
  <2>1. d \in 1 .. Len(decls) /\ Len(decls) \in Nat /\ phase = "collect"
    BY <1>0, <1>1 DEF TypeOK, Collect
  <2>2. decls[d] \in FnDecl
    BY <1>0, <2>1 DEF TypeOK
  <2>3. n \in Fns
    BY <2>2 DEF FnDecl
  <2>4. UNCHANGED <<decls, phase, resolved>> /\ d' = d + 1
    BY <1>1 DEF Collect
  <2>5. \A f \in Fns : Items(f)' = IF f = n THEN Append(Items(f), d) ELSE Items(f)
    <3>1. bucket' = [bucket EXCEPT ![n] = bucket_push(bucket[n], d)]
      BY <1>1 DEF Collect
    <3>2. bucket \in [Fns -> [block : Nat, cap : Nat, items : Seq(1 .. Len(decls))]]
      BY <1>0 DEF TypeOK
    <3>3. bucket_push(bucket[n], d).items = Append(bucket[n].items, d)
      BY <2>3, <3>2 DEF bucket_push
    <3> QED BY <2>3, <3>1, <3>2, <3>3 DEF Items
  <2>6. ASSUME NEW f \in Fns, NEW i \in 1 .. Len(Items(f))'
        PROVE  /\ Items(f)'[i] < d'
               /\ decls[Items(f)'[i]].name = f
               /\ \A k \in 1 .. Len(Items(f))' : i < k => Items(f)'[i] < Items(f)'[k]
    <3>1. Items(f) \in Seq(1 .. Len(decls)) /\ Len(Items(f)) \in Nat
      BY <1>0, ItemTypes
    <3>2. \A k \in 1 .. Len(Items(f)) :
            /\ Items(f)[k] < d /\ Items(f)[k] \in Nat
            /\ decls[Items(f)[k]].name = f
            /\ \A j \in 1 .. Len(Items(f)) : k < j => Items(f)[k] < Items(f)[j]
      BY <1>0, ItemTypes DEF BucketsFiled
    <3>3. CASE f # n
      <4>1. Items(f)' = Items(f)
        BY <2>5, <3>3
      <4> QED BY <2>1, <2>4, <3>1, <3>2, <4>1
    <3>4. CASE f = n
      <4>1. Items(f)' = Append(Items(f), d) /\ Len(Items(f)') = Len(Items(f)) + 1
        BY <2>1, <2>5, <3>1, <3>4
      <4>2. \A k \in 1 .. Len(Items(f)) : Items(f)'[k] = Items(f)[k]
        BY <2>1, <3>1, <4>1
      <4>3. Items(f)'[Len(Items(f)) + 1] = d
        BY <2>1, <3>1, <4>1
      <4>4. \A k \in 1 .. Len(Items(f)') : k \in 1 .. Len(Items(f)) \/ k = Len(Items(f)) + 1
        BY <3>1, <4>1
      <4>5. d' = d + 1 /\ n = f /\ d \in Nat /\ i \in 1 .. Len(Items(f)')
        BY <2>1, <2>4, <3>4
      <4>6. CASE i \in 1 .. Len(Items(f))
        <5>1. /\ Items(f)[i] < d /\ Items(f)[i] \in Nat
              /\ decls[Items(f)[i]].name = f
              /\ Items(f)'[i] = Items(f)[i]
          BY <3>2, <4>2, <4>6
        <5>2. Items(f)'[i] < d'
          BY <4>5, <5>1
        <5>3. ASSUME NEW k \in 1 .. Len(Items(f)'), i < k
              PROVE  Items(f)'[i] < Items(f)'[k]
          BY <3>2, <4>2, <4>3, <4>4, <4>6, <5>1, <5>3
        <5> QED BY <5>1, <5>2, <5>3
      <4>7. CASE i = Len(Items(f)) + 1
        BY <3>1, <4>3, <4>4, <4>5, <4>7
      <4> QED BY <4>4, <4>5, <4>6, <4>7
    <3> QED BY <3>3, <3>4
  <2>7. ASSUME NEW v \in 1 .. Len(decls), v < d + 1
        PROVE  \E i \in 1 .. Len(Items(decls[v].name))' : Items(decls[v].name)'[i] = v
    <3>1. PICK m \in Fns : decls[v].name = m
      <4>1. decls[v] \in FnDecl
        BY <1>0 DEF TypeOK
      <4> QED BY <4>1 DEF FnDecl
    <3>2. Items(m) \in Seq(1 .. Len(decls)) /\ Len(Items(m)) \in Nat
      BY <1>0, ItemTypes
    <3>3. Items(m)' = IF m = n THEN Append(Items(m), d) ELSE Items(m)
      BY <2>5
    <3>4. \E i \in 1 .. Len(Items(m)') : Items(m)'[i] = v
      <4>1. CASE v = d
        <5>1. Items(m)' = Append(Items(m), d)
          BY <3>1, <3>3, <4>1
        <5>2. /\ Len(Items(m)) + 1 \in 1 .. Len(Items(m)')
              /\ Items(m)'[Len(Items(m)) + 1] = v
          BY <2>1, <3>2, <4>1, <5>1
        <5> QED BY <5>2
      <4>2. CASE v # d
        <5>1. v < d
          BY <2>1, <4>2, <2>7
        <5>2. PICK i \in 1 .. Len(Items(m)) : Items(m)[i] = v
          BY <1>0, <3>1, <5>1 DEF BucketsFiled
        <5>3. i \in 1 .. Len(Items(m)') /\ Items(m)'[i] = v
          BY <2>1, <3>2, <3>3, <5>2
        <5> QED BY <5>3
      <4> QED BY <4>1, <4>2
    <3> QED BY <2>4, <3>1, <3>4
  <2>8. UnboundInPrePass'
    BY <1>0, <2>4 DEF UnboundInPrePass, Sites
  <2> QED BY <2>1, <2>4, <2>6, <2>7, <2>8 DEF BucketsFiled
<1>2. CASE EndCollect
  <2>1. d = Len(decls) + 1
    <3>1. d \in 1 .. Len(decls) + 1 /\ d \notin 1 .. Len(decls) /\ Len(decls) \in Nat
      BY <1>0, <1>2 DEF EndCollect, TypeOK
    <3> QED BY <3>1
  <2> QED BY <1>0, <1>2, <2>1 DEF EndCollect, BucketsFiled, UnboundInPrePass, Items
<1>3. ASSUME phase # "collect", phase' # "collect", UNCHANGED <<decls, d, bucket>>
      PROVE  BucketsFiled' /\ UnboundInPrePass'
  BY <1>0, <1>3 DEF BucketsFiled, UnboundInPrePass, Items
<1>4. CASE CallKnown \/ CallUnknown \/ SelectStep \/ NextBucket \/ Finish
  BY <1>3, <1>4 DEF CallKnown, CallUnknown, SelectStep, NextBucket, Finish
<1>5. CASE SelectDone \/ NextVariant
  BY <1>3, <1>5 DEF SelectDone, NextVariant
<1>6. CASE UNCHANGED vars
  BY <1>0, <1>6 DEF vars, sema, BucketsFiled, UnboundInPrePass, Items, Sites
<1> QED BY <1>1, <1>2, <1>4, <1>5, <1>6 DEF Next, SemaNext
-----------------------------------------------------------------------------
\* Each iteration of select_variant keeps its registers describing the items
\* it has passed.
LEMMA LoopStep == IInv /\ [Next]_vars => LoopInvariant'
<1> SUFFICES ASSUME IInv, [Next]_vars, phase' = "select" PROVE LoopInvariant'
  BY DEF LoopInvariant
<1>0. TypeOK /\ LoopInvariant
  BY DEF IInv
<1>1. CASE CallKnown
  <2>1. OnCall'
    BY <1>1 DEF CallKnown, OnCall, OnVariant, OnBucket, Variant, Items
  <2>2. sel'.i = 1 /\ sel'.best = 0 /\ sel'.score = -1
    BY <1>1 DEF CallKnown, NoSelection
  <2>3. \A f \in Fns : Registers(f)'
    BY <2>2 DEF Registers, Seen
  <2> QED BY <2>1, <2>3 DEF LoopInvariant
<1>2. CASE SelectStep
  <2>1. OnCall /\ Callee \in Fns
    BY <1>0, <1>2, CursorTypes DEF SelectStep, LoopInvariant
  <2>2. UNCHANGED <<decls, active, order, bucket, cur>>
    BY <1>2 DEF SelectStep
  <2>3. OnCall' /\ Callee' = Callee
    BY <2>1, <2>2 DEF OnCall, OnVariant, OnBucket, Variant, Callee, Items
  <2>4. ASSUME NEW f \in Fns, f = Callee PROVE Registers(f)'
    <3> DEFINE a == Attrs(f, sel.i)
    <3>1. /\ Items(f)' = Items(f)
          /\ \A k \in 1 .. Len(Items(f)) : Attrs(f, k)' = Attrs(f, k)
      BY <2>2 DEF Items, Attrs
    <3>2. /\ sel.i \in 1 .. Len(Items(f)) /\ Len(Items(f)) \in Nat
          /\ \A k \in 1 .. Len(Items(f)) : Score(Attrs(f, k)) \in Nat
      BY <1>0, <1>2, <2>4, ItemTypes DEF SelectStep
    <3>3. sel' = [Consider(sel, a) EXCEPT !.i = sel.i + 1]
      BY <1>2, <2>4 DEF SelectStep
    <3>4. sel \in [i : Nat \ {0}, best : Nat, score : Int, tied : BOOLEAN]
      BY <1>0 DEF TypeOK
    <3>5. Registers(f)
      BY <1>0, <1>2, <2>4 DEF SelectStep, LoopInvariant
    <3>6. sel'.i = sel.i + 1
      BY <3>3, <3>4 DEF Consider
    <3>7. Seen(f)' = Seen(f) \cup (IF Matches(a, active) THEN {sel.i} ELSE {})
      <4>1. Seen(f)' = {k \in 1 .. Len(Items(f)) :
                         k < sel.i + 1 /\ Matches(Attrs(f, k), active)}
        BY <2>2, <3>1, <3>6 DEF Seen
      <4> QED BY <3>2, <3>4, <4>1 DEF Seen
    <3>8. \A k \in Seen(f) : k \in 1 .. Len(Items(f)) /\ k < sel.i
      BY DEF Seen
    <3>9. \A k \in 1 .. Len(Items(f)) : Score(Attrs(f, k))' = Score(Attrs(f, k))
      BY <3>1 DEF Score, decl_required_attrs
    <3>10. \A k \in Seen(f)' : k \in 1 .. Len(Items(f))
      BY <3>2, <3>7, <3>8
    <3>11. /\ sel'.best = 0 => Seen(f)' = {} /\ sel'.score = -1
           /\ sel'.best # 0 =>
                /\ sel'.best \in Seen(f)'
                /\ sel'.score = Score(Attrs(f, sel'.best))
                /\ \A k \in Seen(f)' :
                     /\ Score(Attrs(f, k)) <= sel'.score
                     /\ k < sel'.best => Score(Attrs(f, k)) < sel'.score
      <4>1. CASE ~Matches(a, active)
        <5>1. sel'.best = sel.best /\ sel'.score = sel.score
          BY <3>3, <3>4, <4>1 DEF Consider
        <5> QED BY <3>5, <3>7, <4>1, <5>1 DEF Registers
      <4>2. CASE Matches(a, active) /\ Score(a) > sel.score
        <5>1. sel'.best = sel.i /\ sel'.score = Score(a)
          BY <3>3, <3>4, <4>2 DEF Consider
        <5>2. \A k \in Seen(f) : Score(Attrs(f, k)) < Score(a)
          BY <3>2, <3>4, <3>5, <3>8, <4>2 DEF Registers
        <5> QED BY <3>2, <3>4, <3>7, <3>8, <4>2, <5>1, <5>2
      <4>3. CASE Matches(a, active) /\ ~(Score(a) > sel.score)
        <5>1. sel'.best = sel.best /\ sel'.score = sel.score
          BY <3>3, <3>4, <4>3 DEF Consider
        <5>2. sel.best # 0 /\ sel.best \in Nat /\ sel.best < sel.i /\ Score(a) <= sel.score
          BY <3>2, <3>4, <3>5, <3>8, <4>3 DEF Registers
        <5> QED BY <3>4, <3>5, <3>7, <4>3, <5>1, <5>2 DEF Registers
      <4> QED BY <4>1, <4>2, <4>3
    <3> QED BY <3>9, <3>10, <3>11 DEF Registers
  <2> QED BY <2>3, <2>4 DEF LoopInvariant
<1>3. CASE UNCHANGED vars
  BY <1>0, <1>3 DEF vars, sema, LoopInvariant, Registers, Seen, OnCall, OnVariant,
                    OnBucket, Variant, Callee, Items, Attrs
<1>4. CASE Collect \/ EndCollect \/ CallUnknown \/ SelectDone
           \/ NextVariant \/ NextBucket \/ Finish
  BY <1>4 DEF Collect, EndCollect, CallUnknown, SelectDone, NextVariant, NextBucket, Finish
<1> QED BY <1>1, <1>2, <1>3, <1>4 DEF Next, SemaNext
-----------------------------------------------------------------------------
\* When the loop of select_variant ends with a pick, the pick is the first
\* most specific candidate.
LEMMA PickIsBest ==
  ASSUME IInv, phase = "select", sel.i \notin DOMAIN Items(Callee), sel.best # 0
  PROVE  sel.best \in DOMAIN Items(Callee) /\ IsBest(Items(Callee)[sel.best], Callee)
<1>0. TypeOK /\ BucketsFiled /\ LoopInvariant
  BY DEF IInv
<1>1. OnCall
  BY <1>0 DEF LoopInvariant
<1>2. PICK f \in Fns : f = Callee
  BY <1>0, <1>1, CursorTypes
<1>3. Registers(f)
  BY <1>0, <1>2 DEF LoopInvariant
<1>4. DOMAIN Items(f) = 1 .. Len(Items(f)) /\ Len(Items(f)) \in Nat
  BY <1>0, ItemTypes
<1>5. Seen(f) = {k \in 1 .. Len(Items(f)) : Matches(Attrs(f, k), active)}
  <2>1. sel.best \in Seen(f) /\ sel.i \in Nat /\ sel.i \notin 1 .. Len(Items(f))
    BY <1>0, <1>2, <1>3, <1>4 DEF Registers, TypeOK
  <2>2. sel.i > Len(Items(f))
    BY <1>4, <2>1 DEF Seen
  <2> QED BY <1>4, <2>1, <2>2 DEF Seen
<1> DEFINE v == Items(f)[sel.best]
<1>6. /\ sel.best \in 1 .. Len(Items(f)) /\ Matches(Attrs(f, sel.best), active)
      /\ sel.score = Score(decls[v].attrs)
  BY <1>3, <1>5 DEF Registers, Attrs
<1>7. v \in DOMAIN decls /\ IsCandidate(v, f)
  <2>1. v \in 1 .. Len(decls)
    BY <1>0, <1>6, ItemTypes
  <2>a. DOMAIN decls = 1 .. Len(decls)
    BY <1>0 DEF TypeOK
  <2>2. decls[v].name = f
    BY <1>0, <1>6 DEF BucketsFiled
  <2> QED BY <1>6, <2>1, <2>a, <2>2 DEF IsCandidate, Attrs
<1>8. ASSUME NEW w \in DOMAIN decls, IsCandidate(w, f) PROVE Better(v, w)
  <2>1. w \in 1 .. Len(decls) /\ decls[w].name = f /\ Matches(decls[w].attrs, active)
    BY <1>0, <1>8 DEF IsCandidate, TypeOK
  <2>2. w < d
    BY <1>0, <2>1 DEF BucketsFiled, TypeOK
  <2>3. PICK k \in 1 .. Len(Items(f)) : Items(f)[k] = w
    BY <1>0, <2>1, <2>2 DEF BucketsFiled
  <2>4. k \in Seen(f) /\ Attrs(f, k) = decls[w].attrs
    BY <1>5, <2>1, <2>3 DEF Attrs
  <2>5. /\ Score(decls[w].attrs) <= Score(decls[v].attrs)
        /\ k < sel.best => Score(decls[w].attrs) < Score(decls[v].attrs)
    BY <1>3, <1>6, <2>4 DEF Registers, Seen
  <2>6. Score(decls[w].attrs) \in Nat /\ Score(decls[v].attrs) \in Nat
    BY <1>0, <1>6, <2>3, <2>4, ItemTypes DEF Attrs
  <2>7. ~(k < sel.best) => v <= w
    <3>1. sel.best < k => v < w
      BY <1>0, <1>6, <2>3 DEF BucketsFiled
    <3>2. v \in Nat /\ w \in Nat /\ sel.best \in Nat /\ k \in Nat
      BY <1>0, <1>4, <1>6, <2>3, ItemTypes
    <3> QED BY <2>3, <3>1, <3>2
  <2> QED BY <2>5, <2>6, <2>7 DEF Better
<1> QED BY <1>2, <1>4, <1>6, <1>7, <1>8 DEF IsBest

\* No step binds a call to anything but its best variant, and no step moves a
\* bucket that a bound call points into.
LEMMA BoundStep == IInv /\ [Next]_vars => BoundToBest'
<1> SUFFICES ASSUME IInv, [Next]_vars PROVE BoundToBest'
  OBVIOUS
<1>0. TypeOK /\ BucketsFiled /\ UnboundInPrePass /\ LoopInvariant /\ BoundToBest
  BY DEF IInv
<1>1. CASE Collect \/ EndCollect
  <2>1. \A s \in Sites' : resolved'[s] = NULL
    BY <1>0, <1>1 DEF Collect, EndCollect, UnboundInPrePass, Sites
  <2> QED BY <2>1 DEF BoundToBest, NULL
<1>2. ASSUME UNCHANGED <<decls, active, bucket, resolved>> PROVE BoundToBest'
  <2>1. Sites' = Sites
    BY <1>2 DEF Sites
  <2> QED BY <1>0, <1>2, <2>1, ZenonT(60) DEF BoundToBest, Live, Target, IsBest, Better, IsCandidate, Items
<1>3. CASE CallKnown \/ CallUnknown \/ SelectStep \/ NextBucket \/ Finish
  BY <1>2, <1>3 DEF CallKnown, CallUnknown, SelectStep, NextBucket, Finish
<1>4. CASE NextVariant \/ UNCHANGED vars
  BY <1>2, <1>4 DEF NextVariant, vars, sema
<1>5. CASE SelectDone
  <2>1. /\ phase = "select" /\ sel.i \notin DOMAIN Items(Callee)
        /\ UNCHANGED <<decls, active, bucket>>
        /\ resolved' = IF sel.best = 0 THEN resolved
                        ELSE [resolved EXCEPT ![<<Variant, cur.c>>] =
                                [block |-> bucket[Callee].block, idx |-> sel.best]]
    BY <1>5 DEF SelectDone
  <2>2. CASE sel.best = 0
    BY <1>2, <2>1, <2>2
  <2>3. CASE sel.best # 0
    <3> DEFINE here == <<Variant, cur.c>>
               p == [block |-> bucket[Callee].block, idx |-> sel.best]
    <3>1. /\ here \in Sites /\ Variant \in 1 .. Len(decls)
          /\ decls[Variant].calls[cur.c] = Callee
      BY <1>0, <2>1, CursorTypes DEF LoopInvariant
    <3>2. Live(p, Callee) /\ IsBest(Target(p, Callee), Callee)
      BY <2>1, <2>3, PickIsBest DEF Live, Target
    <3>3. resolved' = [resolved EXCEPT ![here] = p] /\ resolved \in [Sites -> [block : Nat, idx : Nat]]
      BY <1>0, <2>1, <2>3 DEF TypeOK
    <3>4. ASSUME NEW s \in Sites, resolved'[s] # NULL
          PROVE  /\ Live(resolved'[s], decls[s[1]].calls[s[2]])
                 /\ IsBest(Target(resolved'[s], decls[s[1]].calls[s[2]]),
                           decls[s[1]].calls[s[2]])
      <4>1. CASE s = here
        <5>1. resolved'[s] = p /\ decls[s[1]].calls[s[2]] = Callee
          BY <3>1, <3>3, <4>1
        <5> QED BY <3>2, <5>1
      <4>2. CASE s # here
        <5>1. resolved'[s] = resolved[s]
          BY <3>3, <4>2
        <5> QED BY <1>0, <3>4, <5>1 DEF BoundToBest
      <4> QED BY <4>1, <4>2
    <3>5. Sites' = Sites
      BY <2>1 DEF Sites
    <3>6. decls' = decls /\ active' = active /\ bucket' = bucket
      BY <2>1
    <3> QED BY <3>4, <3>5, <3>6, ZenonT(60) DEF BoundToBest, Live, Target, IsBest, Better,
                              IsCandidate, Items
  <2> QED BY <2>2, <2>3
<1> QED BY <1>1, <1>3, <1>4, <1>5 DEF Next, SemaNext
-----------------------------------------------------------------------------
\* The invariant holds in every reachable state.
THEOREM Invariance == Spec => []IInv
<1>1. Init => IInv
  BY InitInv
<1>2. IInv /\ [Next]_vars => IInv'
  BY TypeStep, BucketsStep, LoopStep, BoundStep DEF IInv
<1> QED BY <1>1, <1>2, PTL DEF Spec

\* Every variable of the analysis keeps its type (sema.c 310-880).
THEOREM TypeCorrect == Spec => []TypeOK
<1>1. IInv => TypeOK
  BY DEF IInv
<1> QED BY <1>1, Invariance, PTL

\* Whatever the program and the active attributes, a call is only ever bound
\* to the first most specific variant of its callee, through a pointer that
\* lower_find recognises (sema.c 371-385 and 576, lower.c 105-113).
THEOREM BoundCorrect == Spec => []BoundToBest
<1>1. IInv => BoundToBest
  BY DEF IInv
<1> QED BY <1>1, Invariance, PTL
-----------------------------------------------------------------------------
(* The verdict: which programs the analysis refuses, and what it leaves      *)
(* behind on the call expressions of those it accepts.                       *)

(* The inductive invariant.  A position <<b, i>> is the i-th item of the     *)
(* b-th bucket; the cursor passes the positions in lexicographic order.      *)

Body(b, i) == Items(order[b])[i]
CallsAt(b, i) == decls[Body(b, i)].calls

Passed(b, i) == b < cur.b \/ (b = cur.b /\ i < cur.j)
CallPassed(b, i, k) == Passed(b, i) \/ (b = cur.b /\ i = cur.j /\ k < cur.c)

\* A callee for which check_call reports an error.
Unselectable(f) == Candidates(f) = {} \/ Tied(f)

BadBody(b, i) == Passed(b, i) /\ ~decls[Body(b, i)].typed
BadCall(b, i, k) == CallPassed(b, i, k) /\ Unselectable(CallsAt(b, i)[k])

\* S->fns holds the names of the declarations filed so far.
OrderFiled == \A v \in 1 .. Len(decls) :
                v < d => \E b \in 1 .. Len(order) : order[b] = decls[v].name

\* The cursor does not move before the pre-pass is over, and has left the last
\* bucket when the pass is done.
CursorBounds == /\ phase = "collect" => cur.b = 1 /\ cur.j = 1 /\ cur.c = 1
                /\ phase = "done" => cur.b > Len(order)

\* The error flag tells whether something behind the cursor is wrong.
SomethingBad ==
  \E b \in 1 .. Len(order) : \E i \in 1 .. Len(Items(order[b])) :
    BadBody(b, i) \/ \E k \in 1 .. Len(CallsAt(b, i)) : BadCall(b, i, k)
ErrorSoFar == had_error <=> SomethingBad

\* Every call behind the cursor that has a candidate is bound.
BoundSoFar ==
  \A b \in 1 .. Len(order) : \A i \in 1 .. Len(Items(order[b])) :
    \A k \in 1 .. Len(CallsAt(b, i)) :
      CallPassed(b, i, k) /\ Candidates(CallsAt(b, i)[k]) # {}
        => resolved[<<Body(b, i), k>>] # NULL

\* What the flag of select_variant says about the items already seen.
TiedRegister ==
  phase = "select" => \A f \in Fns : f = Callee /\ sel.best # 0 =>
    (sel.tied <=> \E k \in Seen(f) : k # sel.best /\ Score(Attrs(f, k)) = sel.score)

VInv == OrderFiled /\ CursorBounds /\ ErrorSoFar /\ BoundSoFar /\ TiedRegister
-----------------------------------------------------------------------------

\* When the loop of select_variant is over, its registers tell whether the
\* call has a candidate and whether two candidates tie.
LEMMA SelectVerdict ==
  ASSUME IInv, TiedRegister, phase = "select", sel.i \notin DOMAIN Items(Callee)
  PROVE  /\ sel.best = 0 <=> Candidates(Callee) = {}
         /\ sel.best # 0 => (sel.tied <=> Tied(Callee))
<1>0. TypeOK /\ BucketsFiled /\ LoopInvariant
  BY DEF IInv
<1>1. OnCall
  BY <1>0 DEF LoopInvariant
<1>2. PICK f \in Fns : f = Callee
  BY <1>0, <1>1, CursorTypes
<1>3. Registers(f)
  BY <1>0, <1>2 DEF LoopInvariant
<1>4. /\ DOMAIN Items(f) = 1 .. Len(Items(f)) /\ Len(Items(f)) \in Nat
      /\ \A i \in 1 .. Len(Items(f)) : /\ Items(f)[i] \in 1 .. Len(decls)
                                       /\ Score(Attrs(f, i)) \in Nat
  BY <1>0, ItemTypes
<1>5. sel.i \in Nat /\ sel.i > Len(Items(f))
  <2>1. sel.i \in Nat \ {0} /\ sel.i \notin 1 .. Len(Items(f))
    BY <1>0, <1>2, <1>4 DEF TypeOK
  <2> QED BY <1>4, <2>1
<1>6. \A k : k \in Seen(f) <=> k \in 1 .. Len(Items(f)) /\ Matches(Attrs(f, k), active)
  <2>1. \A k \in 1 .. Len(Items(f)) : k < sel.i
    BY <1>4, <1>5
  <2> QED BY <2>1 DEF Seen
<1>7. ASSUME NEW k \in Seen(f)
      PROVE  Items(f)[k] \in Candidates(f) /\ decls[Items(f)[k]].attrs = Attrs(f, k)
  <2>1. k \in 1 .. Len(Items(f)) /\ Matches(Attrs(f, k), active)
    BY <1>6
  <2>2. Items(f)[k] \in DOMAIN decls
    BY <1>0, <1>4, <2>1, SMTT(60) DEF TypeOK
  <2>3. decls[Items(f)[k]].name = f
    BY <1>0, <2>1 DEF BucketsFiled
  <2> QED BY <2>1, <2>2, <2>3 DEF Candidates, IsCandidate, Attrs
<1>8. ASSUME NEW w \in Candidates(f) PROVE \E k \in Seen(f) : Items(f)[k] = w
  <2>1. w \in 1 .. Len(decls) /\ decls[w].name = f /\ Matches(decls[w].attrs, active)
    BY <1>0 DEF Candidates, IsCandidate, TypeOK
  <2>2. w < d
    BY <1>0, <2>1 DEF BucketsFiled, TypeOK
  <2>3. PICK k \in 1 .. Len(Items(f)) : Items(f)[k] = w
    BY <1>0, <2>1, <2>2 DEF BucketsFiled
  <2> QED BY <1>6, <2>1, <2>3 DEF Attrs
<1>9. ASSUME NEW k \in Seen(f), NEW l \in Seen(f), k # l
      PROVE  Items(f)[k] # Items(f)[l]
  <2>1. k \in 1 .. Len(Items(f)) /\ l \in 1 .. Len(Items(f))
    BY <1>6
  <2>2. k < l \/ l < k
    BY <1>4, <1>9, <2>1
  <2>3. Items(f)[k] \in Nat /\ Items(f)[l] \in Nat
    BY <1>4, <2>1
  <2> QED BY <1>0, <2>1, <2>2, <2>3 DEF BucketsFiled
<1>10. sel.best = 0 <=> Candidates(f) = {}
  BY <1>3, <1>7, <1>8 DEF Registers
<1>11. ASSUME sel.best # 0 PROVE sel.tied <=> Tied(f)
  <2>1. /\ sel.best \in Seen(f) /\ sel.score = Score(Attrs(f, sel.best))
        /\ \A k \in Seen(f) : Score(Attrs(f, k)) <= sel.score
    BY <1>3, <1>11 DEF Registers
  <2>2. sel.tied <=> \E k \in Seen(f) : k # sel.best /\ Score(Attrs(f, k)) = sel.score
    BY <1>2, <1>11 DEF TiedRegister
  <2>3. ASSUME NEW k \in Seen(f), k # sel.best, Score(Attrs(f, k)) = sel.score
        PROVE  Tied(f)
    <3> DEFINE v == Items(f)[k]
               w == Items(f)[sel.best]
    <3>1. /\ v \in Candidates(f) /\ w \in Candidates(f) /\ v # w
          /\ Score(decls[v].attrs) = sel.score /\ Score(decls[w].attrs) = sel.score
      BY <1>7, <1>9, <2>1, <2>3
    <3>2. \A x \in Candidates(f) : Score(decls[v].attrs) >= Score(decls[x].attrs)
      <4>1. SUFFICES ASSUME NEW x \in Candidates(f)
                     PROVE  Score(decls[v].attrs) >= Score(decls[x].attrs)
        OBVIOUS
      <4>2. PICK l \in Seen(f) : Items(f)[l] = x
        BY <1>8
      <4>3. Score(decls[x].attrs) = Score(Attrs(f, l)) /\ Score(Attrs(f, l)) \in Nat
        BY <1>4, <1>6, <1>7, <4>2
      <4>4. sel.score \in Nat
        BY <1>4, <1>6, <2>1
      <4> QED BY <2>1, <3>1, <4>3, <4>4
    <3> QED BY <3>1, <3>2 DEF Tied
  <2>4. ASSUME Tied(f)
        PROVE  \E k \in Seen(f) : k # sel.best /\ Score(Attrs(f, k)) = sel.score
    <3>1. PICK v \in Candidates(f), w \in Candidates(f) :
            /\ v # w /\ Score(decls[v].attrs) = Score(decls[w].attrs)
            /\ \A x \in Candidates(f) : Score(decls[v].attrs) >= Score(decls[x].attrs)
      BY <2>4 DEF Tied
    <3>2. PICK k \in Seen(f) : Items(f)[k] = v
      BY <1>8
    <3>3. PICK l \in Seen(f) : Items(f)[l] = w
      BY <1>8
    <3>4. /\ Score(Attrs(f, k)) = Score(decls[v].attrs)
          /\ Score(Attrs(f, l)) = Score(decls[w].attrs)
          /\ k # l
      BY <1>7, <3>1, <3>2, <3>3
    <3>5. Score(Attrs(f, k)) >= sel.score
      BY <1>7, <2>1, <3>1, <3>4
    <3>6. Score(Attrs(f, k)) <= sel.score /\ Score(Attrs(f, k)) \in Nat /\ sel.score \in Nat
      BY <1>4, <1>6, <2>1
    <3>7. Score(Attrs(f, k)) = sel.score /\ Score(Attrs(f, l)) = sel.score
      BY <3>1, <3>4, <3>5, <3>6
    <3> QED BY <3>4, <3>7
  <2> QED BY <2>2, <2>3, <2>4
<1> QED BY <1>2, <1>10, <1>11
-----------------------------------------------------------------------------
\* S->fns gets the name of every declaration the pre-pass files.
LEMMA OrderStep == IInv /\ OrderFiled /\ [Next]_vars => OrderFiled'
<1> SUFFICES ASSUME IInv, OrderFiled, [Next]_vars PROVE OrderFiled'
  OBVIOUS
<1>0. TypeOK
  BY DEF IInv
<1>1. CASE Collect
  <2> DEFINE n == decls[d].name
  <2>1. d \in 1 .. Len(decls) /\ Len(decls) \in Nat /\ decls' = decls /\ d' = d + 1
    BY <1>0, <1>1 DEF TypeOK, Collect
  <2>2. order' = fns_bucket(n)
    BY <1>1 DEF Collect
  <2>3. n \in Fns /\ order \in Seq(Fns) /\ Len(order) \in Nat
    <3>1. decls[d] \in FnDecl
      BY <1>0, <2>1 DEF TypeOK
    <3>2. n \in Fns
      BY <3>1 DEF FnDecl
    <3>3. order \in Seq(Fns) /\ Len(order) \in Nat
      BY <1>0 DEF TypeOK
    <3> QED BY <3>2, <3>3
  <2>4. \E b \in 1 .. Len(order') : order'[b] = n
    <3>1. CASE n \in Declared
      BY <2>2, <2>3, <3>1 DEF Declared, fns_bucket
    <3>2. CASE n \notin Declared
      <4>1. order' = Append(order, n)
        BY <2>2, <3>2 DEF fns_bucket
      <4>2. Len(order') = Len(order) + 1 /\ order'[Len(order) + 1] = n
        BY <2>3, <4>1
      <4> QED BY <2>3, <4>2
    <3> QED BY <3>1, <3>2
  <2>5. \A b \in 1 .. Len(order) : b \in 1 .. Len(order') /\ order'[b] = order[b]
    BY <2>2, <2>3 DEF fns_bucket
  <2>6. ASSUME NEW v \in 1 .. Len(decls), v < d + 1
        PROVE  \E b \in 1 .. Len(order') : order'[b] = decls[v].name
    <3>1. CASE v = d
      BY <2>4, <3>1
    <3>2. CASE v # d
      <4>1. v < d
        BY <2>1, <2>6, <3>2
      <4> QED BY <2>5, <4>1 DEF OrderFiled
    <3> QED BY <3>1, <3>2
  <2> QED BY <2>1, <2>6 DEF OrderFiled
<1>2. ASSUME UNCHANGED <<decls, d, order>> PROVE OrderFiled'
  BY <1>2 DEF OrderFiled
<1>3. CASE EndCollect \/ CallKnown \/ CallUnknown \/ SelectStep \/ NextBucket \/ Finish
  BY <1>2, <1>3 DEF EndCollect, CallKnown, CallUnknown, SelectStep, NextBucket, Finish
<1>4. CASE SelectDone \/ NextVariant
  BY <1>2, <1>4 DEF SelectDone, NextVariant
<1>5. CASE UNCHANGED vars
  BY <1>2, <1>5 DEF vars, sema
<1> QED BY <1>1, <1>3, <1>4, <1>5 DEF Next, SemaNext

\* The cursor starts at the first position, and the pass ends behind the last.
LEMMA CursorStep == IInv /\ CursorBounds /\ [Next]_vars => CursorBounds'
<1> SUFFICES ASSUME IInv, CursorBounds, [Next]_vars PROVE CursorBounds'
  OBVIOUS
<1>0. TypeOK
  BY DEF IInv
<1>1. CASE Collect \/ EndCollect
  BY <1>1 DEF Collect, EndCollect, CursorBounds
<1>2. CASE CallKnown \/ CallUnknown \/ SelectStep \/ NextBucket
  BY <1>2 DEF CallKnown, CallUnknown, SelectStep, NextBucket, CursorBounds
<1>3. CASE SelectDone \/ NextVariant
  BY <1>3 DEF SelectDone, NextVariant, CursorBounds
<1>4. CASE Finish
  <2>1. cur.b \in Nat \ {0} /\ cur.b \notin 1 .. Len(order) /\ Len(order) \in Nat
    BY <1>0, <1>4 DEF Finish, OnBucket, TypeOK
  <2>2. cur.b > Len(order)
    BY <2>1
  <2> QED BY <1>4, <2>2 DEF Finish, CursorBounds
<1>5. CASE UNCHANGED vars
  BY <1>5 DEF vars, sema, CursorBounds
<1> QED BY <1>1, <1>2, <1>3, <1>4, <1>5 DEF Next, SemaNext

\* Each iteration of select_variant keeps its flag telling whether another
\* item is as specific as the best one.
LEMMA TiedStep == IInv /\ TiedRegister /\ [Next]_vars => TiedRegister'
<1> SUFFICES ASSUME IInv, TiedRegister, [Next]_vars, phase' = "select" PROVE TiedRegister'
  BY DEF TiedRegister
<1>0. TypeOK /\ LoopInvariant
  BY DEF IInv
<1>1. CASE CallKnown
  BY <1>1 DEF CallKnown, NoSelection, TiedRegister
<1>2. CASE SelectStep
  <2>1. OnCall /\ Callee \in Fns /\ phase = "select"
    BY <1>0, <1>2, CursorTypes DEF SelectStep, LoopInvariant
  <2>2. UNCHANGED <<decls, active, order, bucket, cur>>
    BY <1>2 DEF SelectStep
  <2>3. Callee' = Callee
    BY <2>2 DEF Variant, Callee, Items
  <2>4. ASSUME NEW f \in Fns, f = Callee, sel'.best # 0
        PROVE  sel'.tied <=> \E k \in Seen(f)' :
                 k # sel'.best /\ Score(Attrs(f, k))' = sel'.score
    <3> DEFINE a == Attrs(f, sel.i)
    <3>1. \A k : Attrs(f, k)' = Attrs(f, k) /\ Score(Attrs(f, k))' = Score(Attrs(f, k))
      BY <2>2 DEF Items, Attrs, Score, decl_required_attrs
    <3>2. /\ sel.i \in 1 .. Len(Items(f)) /\ Len(Items(f)) \in Nat
          /\ \A k \in 1 .. Len(Items(f)) : Score(Attrs(f, k)) \in Nat
      BY <1>0, <1>2, <2>4, ItemTypes DEF SelectStep
    <3>3. sel' = [Consider(sel, a) EXCEPT !.i = sel.i + 1]
      BY <1>2, <2>4 DEF SelectStep
    <3>4. sel \in [i : Nat \ {0}, best : Nat, score : Int, tied : BOOLEAN]
      BY <1>0 DEF TypeOK
    <3>5. Registers(f)
      BY <2>1, <1>0, <2>4 DEF LoopInvariant
    <3>6. sel'.i = sel.i + 1
      BY <3>3, <3>4 DEF Consider
    <3>7. Seen(f)' = Seen(f) \cup (IF Matches(a, active) THEN {sel.i} ELSE {})
      <4>1. Seen(f)' = {k \in 1 .. Len(Items(f)) :
                         k < sel.i + 1 /\ Matches(Attrs(f, k), active)}
        BY <2>2, <3>6 DEF Seen, Items, Attrs
      <4> QED BY <3>2, <3>4, <4>1 DEF Seen
    <3>8. \A k \in Seen(f) : k \in 1 .. Len(Items(f)) /\ k < sel.i
      BY DEF Seen
    <3>9. sel.best # 0 =>
            (sel.tied <=> \E k \in Seen(f) : k # sel.best /\ Score(Attrs(f, k)) = sel.score)
      BY <2>1, <2>4 DEF TiedRegister
    <3>10. sel'.tied <=> \E k \in Seen(f)' : k # sel'.best /\ Score(Attrs(f, k)) = sel'.score
      <4>1. CASE ~Matches(a, active)
        <5>1. sel'.best = sel.best /\ sel'.score = sel.score /\ sel'.tied = sel.tied
          BY <3>3, <3>4, <4>1 DEF Consider
        <5> QED BY <2>4, <3>7, <3>9, <4>1, <5>1
      <4>2. CASE Matches(a, active) /\ Score(a) > sel.score
        <5>1. sel'.best = sel.i /\ sel'.score = Score(a) /\ sel'.tied = FALSE
          BY <3>3, <3>4, <4>2 DEF Consider
        <5>2. \A k \in Seen(f) : Score(Attrs(f, k)) < Score(a)
          BY <3>2, <3>4, <3>5, <3>8, <4>2 DEF Registers
        <5>3. \A k \in Seen(f) : Score(Attrs(f, k)) # Score(a)
          BY <3>2, <3>8, <5>2
        <5> QED BY <3>7, <4>2, <5>1, <5>3
      <4>3. CASE Matches(a, active) /\ Score(a) = sel.score
        <5>1. /\ sel'.best = sel.best /\ sel'.score = sel.score /\ sel'.tied = TRUE
          BY <3>2, <3>3, <3>4, <4>3 DEF Consider
        <5>2. sel.best < sel.i /\ sel.best \in Nat /\ sel.i \in Nat
          BY <2>4, <3>4, <3>5, <3>8, <5>1 DEF Registers
        <5>3. sel.i # sel'.best /\ sel.i \in Seen(f)'
          BY <3>7, <4>3, <5>1, <5>2
        <5> QED BY <4>3, <5>1, <5>3
      <4>4. CASE Matches(a, active) /\ ~(Score(a) > sel.score) /\ Score(a) # sel.score
        <5>1. sel'.best = sel.best /\ sel'.score = sel.score /\ sel'.tied = sel.tied
          BY <3>3, <3>4, <4>4 DEF Consider
        <5> QED BY <2>4, <3>7, <3>9, <4>4, <5>1
      <4> QED BY <4>1, <4>2, <4>3, <4>4
    <3> QED BY <3>1, <3>10
  <2> QED BY <2>3, <2>4 DEF TiedRegister
<1>3. CASE UNCHANGED vars
  <2>1. UNCHANGED <<decls, active, phase, bucket, order, cur, sel>>
    BY <1>3 DEF vars, sema
  <2>2. Callee' = Callee
    BY <2>1 DEF Variant, Callee, Items
  <2>3. \A f : Seen(f)' = Seen(f)
    BY <2>1 DEF Seen, Items, Attrs
  <2>4. \A f, k : Score(Attrs(f, k))' = Score(Attrs(f, k))
    BY <2>1 DEF Items, Attrs, Score, decl_required_attrs
  <2> QED BY <2>1, <2>2, <2>3, <2>4 DEF TiedRegister
<1>4. CASE Collect \/ EndCollect \/ CallUnknown \/ SelectDone
           \/ NextVariant \/ NextBucket \/ Finish
  BY <1>4 DEF Collect, EndCollect, CallUnknown, SelectDone, NextVariant, NextBucket, Finish
<1> QED BY <1>1, <1>2, <1>3, <1>4 DEF Next, SemaNext
-----------------------------------------------------------------------------
\* A position names a declaration, and each call of it a call site.
LEMMA PositionTypes ==
  ASSUME TypeOK, NEW b \in 1 .. Len(order), NEW i \in 1 .. Len(Items(order[b]))
  PROVE  /\ Body(b, i) \in 1 .. Len(decls)
         /\ Len(CallsAt(b, i)) \in Nat
         /\ DOMAIN CallsAt(b, i) = 1 .. Len(CallsAt(b, i))
         /\ \A k \in 1 .. Len(CallsAt(b, i)) : <<Body(b, i), k>> \in Sites
<1>1. order[b] \in Fns
  BY DEF TypeOK
<1>2. Body(b, i) \in 1 .. Len(decls)
  BY <1>1, ItemTypes DEF Body
<1>3. decls[Body(b, i)] \in FnDecl /\ Body(b, i) \in DOMAIN decls
  <2>1. decls \in Seq(FnDecl)
    BY DEF TypeOK
  <2> QED BY <1>2, <2>1
<1>4. CallsAt(b, i) \in Seq(Fns)
  BY <1>3 DEF FnDecl, CallsAt
<1>5. \A k \in DOMAIN CallsAt(b, i) : <<Body(b, i), k>> \in Sites
  BY <1>3 DEF Sites, CallsAt
<1> QED BY <1>2, <1>4, <1>5

\* The cursor on a variant is at a position, and on a call at a call of it.
LEMMA CursorPosition ==
  ASSUME TypeOK
  PROVE  /\ OnVariant => /\ cur.b \in 1 .. Len(order)
                         /\ cur.j \in 1 .. Len(Items(order[cur.b]))
                         /\ Variant = Body(cur.b, cur.j)
         /\ OnCall => /\ cur.c \in 1 .. Len(CallsAt(cur.b, cur.j))
                      /\ Callee = CallsAt(cur.b, cur.j)[cur.c]
         /\ OnVariant /\ ~OnCall => cur.c > Len(CallsAt(cur.b, cur.j))
         /\ OnBucket /\ ~OnVariant => cur.b \in 1 .. Len(order) /\ cur.j > Len(Items(order[cur.b]))
<1>1. cur.b \in Nat \ {0} /\ cur.j \in Nat \ {0} /\ cur.c \in Nat \ {0}
  BY DEF TypeOK
<1>2. OnBucket => cur.b \in 1 .. Len(order) /\ order[cur.b] \in Fns
  <2>1. order \in Seq(Fns)
    BY DEF TypeOK
  <2>2. DOMAIN order = 1 .. Len(order) /\ \A k \in 1 .. Len(order) : order[k] \in Fns
    BY <2>1
  <2> QED BY <2>2 DEF OnBucket
<1>3. OnBucket => /\ DOMAIN Items(order[cur.b]) = 1 .. Len(Items(order[cur.b]))
                  /\ Len(Items(order[cur.b])) \in Nat
  BY <1>2, ItemTypes
<1>4. OnVariant => OnBucket /\ cur.j \in 1 .. Len(Items(order[cur.b])) /\ Variant = Body(cur.b, cur.j)
  BY <1>3 DEF OnVariant, Variant, Body
<1>5. OnVariant => /\ DOMAIN CallsAt(cur.b, cur.j) = 1 .. Len(CallsAt(cur.b, cur.j))
                   /\ Len(CallsAt(cur.b, cur.j)) \in Nat
  BY <1>2, <1>4, PositionTypes
<1>6. OnCall => OnVariant /\ cur.c \in 1 .. Len(CallsAt(cur.b, cur.j))
                /\ Callee = CallsAt(cur.b, cur.j)[cur.c]
  BY <1>4, <1>5 DEF OnCall, Callee, CallsAt
<1>7. OnVariant /\ ~OnCall => cur.c > Len(CallsAt(cur.b, cur.j))
  <2>1. OnVariant /\ ~OnCall => cur.c \notin 1 .. Len(CallsAt(cur.b, cur.j))
    BY <1>4, <1>5 DEF OnCall, CallsAt
  <2> QED BY <1>1, <1>5, <2>1
<1>8. OnBucket /\ ~OnVariant => cur.j > Len(Items(order[cur.b]))
  <2>1. OnBucket /\ ~OnVariant => cur.j \notin 1 .. Len(Items(order[cur.b]))
    BY <1>3 DEF OnVariant
  <2> QED BY <1>1, <1>3, <2>1
<1> QED BY <1>2, <1>4, <1>6, <1>7, <1>8

\* Once the cursor moves, the program and the buckets stay as they are, and so
\* does everything said about positions.
LEMMA PositionsStable ==
  ASSUME UNCHANGED <<decls, active, order, bucket>>
  PROVE  /\ \A f : Items(f)' = Items(f)
         /\ \A f : Unselectable(f)' <=> Unselectable(f)
         /\ \A f : Candidates(f)' = Candidates(f)
         /\ \A b, i : Body(b, i)' = Body(b, i) /\ CallsAt(b, i)' = CallsAt(b, i)
<1>1. \A f : Items(f)' = Items(f)
  BY DEF Items
<1>2. \A f : Candidates(f)' = Candidates(f)
  BY DEF Candidates, IsCandidate
<1>3. \A f : Tied(f)' <=> Tied(f)
  BY <1>2 DEF Tied
<1>4. \A f : Unselectable(f)' <=> Unselectable(f)
  BY <1>2, <1>3 DEF Unselectable
<1>5. \A b, i : Body(b, i)' = Body(b, i) /\ CallsAt(b, i)' = CallsAt(b, i)
  BY DEF Body, CallsAt, Items
<1> QED BY <1>1, <1>2, <1>4, <1>5

\* Behind a cursor at the first position there is nothing.
LEMMA NothingBehindStart ==
  TypeOK /\ cur.b = 1 /\ cur.j = 1 /\ cur.c = 1 => ~SomethingBad /\ BoundSoFar
<1> SUFFICES ASSUME TypeOK, cur.b = 1, cur.j = 1, cur.c = 1
             PROVE  ~SomethingBad /\ BoundSoFar
  OBVIOUS
<1>1. ASSUME NEW b \in 1 .. Len(order), NEW i \in 1 .. Len(Items(order[b])),
             NEW k \in 1 .. Len(CallsAt(b, i))
      PROVE  ~CallPassed(b, i, k)
  <2>1. b \in Nat /\ b >= 1 /\ i \in Nat /\ i >= 1 /\ k \in Nat /\ k >= 1
    OBVIOUS
  <2> QED BY <2>1 DEF CallPassed, Passed
<1>2. ASSUME NEW b \in 1 .. Len(order), NEW i \in 1 .. Len(Items(order[b]))
      PROVE  ~Passed(b, i)
  <2>1. b \in Nat /\ b >= 1 /\ i \in Nat /\ i >= 1
    OBVIOUS
  <2> QED BY <2>1 DEF Passed
<1>3. ~SomethingBad
  BY <1>1, <1>2 DEF SomethingBad, BadBody, BadCall
<1> QED BY <1>1, <1>3 DEF BoundSoFar

\* check_call is over for one call: an error is reported exactly if its callee
\* cannot be selected, and it is bound if there is a candidate.
LEMMA CallStep ==
  ASSUME TypeOK, ErrorSoFar, BoundSoFar, OnCall,
         cur' = [cur EXCEPT !.c = @ + 1],
         UNCHANGED <<decls, active, order, bucket>>,
         had_error' <=> had_error \/ Unselectable(Callee),
         \A s \in Sites : resolved[s] # NULL => resolved'[s] # NULL,
         Candidates(Callee) # {} => resolved'[<<Variant, cur.c>>] # NULL
  PROVE  ErrorSoFar' /\ BoundSoFar'
<1>1. cur \in [b : Nat \ {0}, j : Nat \ {0}, c : Nat \ {0}]
  BY DEF TypeOK
<1>2. cur'.b = cur.b /\ cur'.j = cur.j /\ cur'.c = cur.c + 1
  BY <1>1
<1>3. \A b, i : Passed(b, i)' <=> Passed(b, i)
  BY <1>2 DEF Passed
<1>4. \A b, i : \A k \in Nat :
        CallPassed(b, i, k)' <=> CallPassed(b, i, k) \/ (b = cur.b /\ i = cur.j /\ k = cur.c)
  BY <1>1, <1>2, <1>3 DEF CallPassed
<1>5. /\ cur.b \in 1 .. Len(order) /\ cur.j \in 1 .. Len(Items(order[cur.b]))
      /\ Variant = Body(cur.b, cur.j)
      /\ cur.c \in 1 .. Len(CallsAt(cur.b, cur.j))
      /\ Callee = CallsAt(cur.b, cur.j)[cur.c]
  BY CursorPosition DEF OnCall
<1>6. /\ \A f : Items(f)' = Items(f)
      /\ \A f : Unselectable(f)' <=> Unselectable(f)
      /\ \A f : Candidates(f)' = Candidates(f)
      /\ \A b, i : Body(b, i)' = Body(b, i) /\ CallsAt(b, i)' = CallsAt(b, i)
  BY PositionsStable
<1>7. order' = order /\ decls' = decls
  OBVIOUS
<1>8. \A b, i : BadBody(b, i)' <=> BadBody(b, i)
  BY <1>3, <1>6, <1>7 DEF BadBody
<1>9. \A b, i : \A k \in 1 .. Len(CallsAt(b, i)) :
        BadCall(b, i, k)' <=> \/ BadCall(b, i, k)
                              \/ b = cur.b /\ i = cur.j /\ k = cur.c /\ Unselectable(Callee)
  BY <1>4, <1>5, <1>6 DEF BadCall
<1>10. SomethingBad' <=>
         \E b \in 1 .. Len(order) : \E i \in 1 .. Len(Items(order[b])) :
           BadBody(b, i)' \/ \E k \in 1 .. Len(CallsAt(b, i)) : BadCall(b, i, k)'
  BY <1>6, <1>7 DEF SomethingBad
<1>11. SomethingBad' <=> SomethingBad \/ Unselectable(Callee)
  <2>1. SomethingBad => SomethingBad'
    BY <1>8, <1>9, <1>10 DEF SomethingBad
  <2>2. Unselectable(Callee) => SomethingBad'
    BY <1>5, <1>9, <1>10
  <2>3. SomethingBad' => SomethingBad \/ Unselectable(Callee)
    BY <1>8, <1>9, <1>10 DEF SomethingBad
  <2> QED BY <2>1, <2>2, <2>3
<1>12. ErrorSoFar'
  BY Zenon, <1>11 DEF ErrorSoFar
<1>13. ASSUME NEW b \in 1 .. Len(order), NEW i \in 1 .. Len(Items(order[b])),
              NEW k \in 1 .. Len(CallsAt(b, i)),
              CallPassed(b, i, k)', Candidates(CallsAt(b, i)[k]) # {}
       PROVE  resolved'[<<Body(b, i), k>>] # NULL
  <2>1. CASE CallPassed(b, i, k)
    <3>1. <<Body(b, i), k>> \in Sites
      BY PositionTypes
    <3>2. resolved[<<Body(b, i), k>>] # NULL
      BY <1>13, <2>1 DEF BoundSoFar
    <3> QED BY <3>1, <3>2
  <2>2. CASE b = cur.b /\ i = cur.j /\ k = cur.c
    BY <1>5, <1>13, <2>2
  <2> QED BY <1>4, <1>13, <2>1, <2>2
<1>14. BoundSoFar'
  BY <1>6, <1>7, <1>13, SMTT(60) DEF BoundSoFar
<1> QED BY <1>12, <1>14
-----------------------------------------------------------------------------
\* Every step keeps the flag and the bound calls in line with the cursor.
LEMMA VerdictStep ==
  IInv /\ IInv' /\ VInv /\ [Next]_vars => ErrorSoFar' /\ BoundSoFar'
<1> SUFFICES ASSUME IInv, IInv', VInv, [Next]_vars PROVE ErrorSoFar' /\ BoundSoFar'
  OBVIOUS
<1>0. /\ TypeOK /\ BucketsFiled /\ LoopInvariant /\ TypeOK'
      /\ OrderFiled /\ CursorBounds /\ ErrorSoFar /\ BoundSoFar /\ TiedRegister
  BY DEF IInv, VInv
<1>1. CASE Collect
  <2>1. phase = "collect" /\ cur' = cur /\ had_error' = had_error
    BY <1>1 DEF Collect
  <2>2. cur.b = 1 /\ cur.j = 1 /\ cur.c = 1 /\ cur'.b = 1 /\ cur'.j = 1 /\ cur'.c = 1
    BY <1>0, <2>1 DEF CursorBounds
  <2>3. ~SomethingBad
    BY <1>0, <2>2, NothingBehindStart
  <2>4. (~SomethingBad /\ BoundSoFar)'
    <3>1. (TypeOK /\ cur.b = 1 /\ cur.j = 1 /\ cur.c = 1 => ~SomethingBad /\ BoundSoFar)'
      BY NothingBehindStart, PTL
    <3> QED BY <1>0, <2>2, <3>1
  <2> QED BY Zenon, <1>0, <2>1, <2>3, <2>4 DEF ErrorSoFar
<1>2. ASSUME UNCHANGED <<decls, active, order, bucket, cur, resolved, had_error>>
      PROVE  ErrorSoFar' /\ BoundSoFar'
  <2>1. /\ \A f : Items(f)' = Items(f)
        /\ \A f : Unselectable(f)' <=> Unselectable(f)
        /\ \A f : Candidates(f)' = Candidates(f)
        /\ \A b, i : Body(b, i)' = Body(b, i) /\ CallsAt(b, i)' = CallsAt(b, i)
    BY <1>2, PositionsStable
  <2>2. \A b, i : Passed(b, i)' <=> Passed(b, i)
    BY <1>2 DEF Passed
  <2>3. \A b, i, k : CallPassed(b, i, k)' <=> CallPassed(b, i, k)
    BY <1>2, <2>2 DEF CallPassed
  <2>4. SomethingBad' <=> SomethingBad
    BY <1>2, <2>1, <2>2, <2>3 DEF SomethingBad, BadBody, BadCall
  <2>5. ErrorSoFar'
    BY Zenon, <1>0, <1>2, <2>4 DEF ErrorSoFar
  <2>6. BoundSoFar'
    BY <1>0, <1>2, <2>1, <2>3 DEF BoundSoFar
  <2> QED BY <2>5, <2>6
<1>3. CASE EndCollect \/ CallKnown \/ SelectStep \/ Finish
  BY <1>2, <1>3 DEF EndCollect, CallKnown, SelectStep, Finish
<1>4. CASE UNCHANGED vars
  BY <1>2, <1>4 DEF vars, sema
<1>5. CASE CallUnknown
  <2>1. phase = "check" /\ OnCall /\ Callee \notin Declared
    BY <1>5 DEF CallUnknown
  <2>2. Candidates(Callee) = {}
    <3>1. SUFFICES ASSUME NEW v \in Candidates(Callee) PROVE FALSE
      OBVIOUS
    <3>2. v \in 1 .. Len(decls) /\ decls[v].name = Callee /\ v \in Nat
      <4>1. DOMAIN decls = 1 .. Len(decls)
        BY <1>0 DEF TypeOK
      <4>2. v \in DOMAIN decls /\ decls[v].name = Callee
        BY DEF Candidates, IsCandidate
      <4> QED BY <4>1, <4>2
    <3>3. v < d
      BY <1>0, <2>1, <3>2 DEF BucketsFiled, TypeOK
    <3>4. PICK b \in 1 .. Len(order) : order[b] = decls[v].name
      BY <1>0, <3>2, <3>3 DEF OrderFiled
    <3>5. order[b] \in Declared
      <4>1. DOMAIN order = 1 .. Len(order)
        BY <1>0 DEF TypeOK
      <4> QED BY <3>4, <4>1 DEF Declared
    <3> QED BY <2>1, <3>2, <3>4, <3>5
  <2>3. Unselectable(Callee)
    BY <2>2 DEF Unselectable
  <2>4. /\ cur' = [cur EXCEPT !.c = @ + 1] /\ had_error' = TRUE
        /\ UNCHANGED <<decls, active, order, bucket, resolved>>
    BY <1>5 DEF CallUnknown
  <2> QED BY <1>0, <2>1, <2>2, <2>3, <2>4, CallStep
<1>6. CASE SelectDone
  <2>1. /\ phase = "select" /\ sel.i \notin DOMAIN Items(Callee)
        /\ had_error' = (had_error \/ sel.tied \/ sel.best = 0)
        /\ resolved' = IF sel.best = 0 THEN resolved
                        ELSE [resolved EXCEPT ![<<Variant, cur.c>>] =
                                [block |-> bucket[Callee].block, idx |-> sel.best]]
        /\ cur' = [cur EXCEPT !.c = @ + 1]
        /\ UNCHANGED <<decls, active, order, bucket>>
    BY <1>6 DEF SelectDone
  <2>2. OnCall
    BY <1>0, <2>1 DEF LoopInvariant
  <2>3. /\ sel.best = 0 <=> Candidates(Callee) = {}
        /\ sel.best # 0 => (sel.tied <=> Tied(Callee))
    BY <1>0, <2>1, SelectVerdict
  <2>4. ~(Candidates(Callee) = {} /\ Tied(Callee))
    BY DEF Tied
  <2>5. had_error' <=> had_error \/ Unselectable(Callee)
    <3>1. sel.tied \/ sel.best = 0 <=> Unselectable(Callee)
      BY Zenon, <2>3, <2>4 DEF Unselectable
    <3> QED BY Zenon, <2>1, <3>1
  <2>6. <<Variant, cur.c>> \in Sites
    BY <1>0, <2>2, CursorTypes
  <2>7. /\ \A s \in Sites : resolved[s] # NULL => resolved'[s] # NULL
        /\ Candidates(Callee) # {} => resolved'[<<Variant, cur.c>>] # NULL
    <3>1. CASE sel.best = 0
      BY <2>1, <2>3, <3>1
    <3>2. CASE sel.best # 0
      <4> DEFINE p == [block |-> bucket[Callee].block, idx |-> sel.best]
      <4>1. p # NULL
        BY <3>2 DEF NULL
      <4>2. resolved' = [resolved EXCEPT ![<<Variant, cur.c>>] = p]
            /\ resolved \in [Sites -> [block : Nat, idx : Nat]]
        BY <1>0, <2>1, <3>2 DEF TypeOK
      <4> HIDE DEF p
      <4> QED BY <2>6, <4>1, <4>2
    <3> QED BY <3>1, <3>2
  <2> QED BY <1>0, <2>1, <2>2, <2>5, <2>7, CallStep
<1>a. /\ cur \in [b : Nat \ {0}, j : Nat \ {0}, c : Nat \ {0}]
      /\ cur.b \in Nat /\ cur.j \in Nat /\ cur.c \in Nat
  BY <1>0 DEF TypeOK
<1>7. CASE NextVariant
  <2>1. /\ OnVariant /\ ~OnCall
        /\ had_error' = (had_error \/ ~decls[Variant].typed)
        /\ cur' = [cur EXCEPT !.j = cur.j + 1, !.c = 1]
        /\ UNCHANGED <<decls, active, order, bucket, resolved>>
    BY <1>7 DEF NextVariant
  <2>2. /\ cur.b \in 1 .. Len(order) /\ cur.j \in 1 .. Len(Items(order[cur.b]))
        /\ Variant = Body(cur.b, cur.j)
        /\ cur.c > Len(CallsAt(cur.b, cur.j))
    BY <1>0, <2>1, CursorPosition
  <2>3. cur'.b = cur.b /\ cur'.j = cur.j + 1 /\ cur'.c = 1
    BY <1>a, <2>1
  <2>4. \A b : \A i \in Nat : Passed(b, i)' <=> Passed(b, i) \/ (b = cur.b /\ i = cur.j)
    BY <1>a, <2>3 DEF Passed
  <2>5. ASSUME NEW b \in 1 .. Len(order), NEW i \in 1 .. Len(Items(order[b])),
               NEW k \in 1 .. Len(CallsAt(b, i))
        PROVE  CallPassed(b, i, k)' <=> CallPassed(b, i, k)
    <3>1. Len(CallsAt(b, i)) \in Nat /\ i \in Nat /\ k \in Nat /\ k >= 1
      BY <1>0, PositionTypes
    <3>2. b = cur.b /\ i = cur.j => k < cur.c
      BY <1>a, <2>2, <3>1
    <3>3. CallPassed(b, i, k)' <=> Passed(b, i)'
      BY <2>3, <3>1 DEF CallPassed
    <3> QED BY <2>4, <3>1, <3>2, <3>3 DEF CallPassed
  <2>6. /\ \A f : Items(f)' = Items(f)
        /\ \A f : Unselectable(f)' <=> Unselectable(f)
        /\ \A f : Candidates(f)' = Candidates(f)
        /\ \A b, i : Body(b, i)' = Body(b, i) /\ CallsAt(b, i)' = CallsAt(b, i)
    BY <2>1, PositionsStable
  <2>7. decls' = decls /\ order' = order /\ resolved' = resolved
    BY <2>1
  <2>8. ASSUME NEW b \in 1 .. Len(order), NEW i \in 1 .. Len(Items(order[b]))
        PROVE  /\ BadBody(b, i)' <=> \/ BadBody(b, i)
                                     \/ b = cur.b /\ i = cur.j /\ ~decls[Variant].typed
               /\ \A k \in 1 .. Len(CallsAt(b, i)) : BadCall(b, i, k)' <=> BadCall(b, i, k)
    <3>1. i \in Nat
      BY <2>8
    <3>2. BadBody(b, i)' <=> \/ BadBody(b, i)
                             \/ b = cur.b /\ i = cur.j /\ ~decls[Variant].typed
      BY <2>2, <2>4, <2>6, <2>7, <3>1 DEF BadBody
    <3>3. \A k \in 1 .. Len(CallsAt(b, i)) : BadCall(b, i, k)' <=> BadCall(b, i, k)
      BY <2>5, <2>6 DEF BadCall
    <3> QED BY <3>2, <3>3
  <2>9. SomethingBad' <=> SomethingBad \/ ~decls[Variant].typed
    <3>1. SomethingBad' <=>
            \E b \in 1 .. Len(order) : \E i \in 1 .. Len(Items(order[b])) :
              BadBody(b, i)' \/ \E k \in 1 .. Len(CallsAt(b, i)) : BadCall(b, i, k)'
      BY <2>6, <2>7 DEF SomethingBad
    <3>2. SomethingBad => SomethingBad'
      BY <2>8, <3>1 DEF SomethingBad
    <3>3. ~decls[Variant].typed => SomethingBad'
      BY <2>2, <2>8, <3>1
    <3>4. SomethingBad' => SomethingBad \/ ~decls[Variant].typed
      BY <2>8, <3>1 DEF SomethingBad
    <3> QED BY Zenon, <3>2, <3>3, <3>4
  <2>10. ErrorSoFar'
    BY Zenon, <1>0, <2>1, <2>9 DEF ErrorSoFar
  <2>11. BoundSoFar'
    BY <1>0, <2>5, <2>6, <2>7 DEF BoundSoFar
  <2> QED BY <2>10, <2>11
<1>8. CASE NextBucket
  <2>1. /\ OnBucket /\ ~OnVariant
        /\ cur' = [b |-> cur.b + 1, j |-> 1, c |-> 1]
        /\ UNCHANGED <<decls, active, order, bucket, resolved, had_error>>
    BY <1>8 DEF NextBucket
  <2>2. cur.b \in 1 .. Len(order) /\ cur.j > Len(Items(order[cur.b]))
    BY <1>0, <2>1, CursorPosition
  <2>3. cur'.b = cur.b + 1 /\ cur'.j = 1 /\ cur'.c = 1
    BY <2>1
  <2>4. ASSUME NEW b \in 1 .. Len(order), NEW i \in 1 .. Len(Items(order[b]))
        PROVE  /\ Passed(b, i)' <=> Passed(b, i)
               /\ \A k \in Nat : k >= 1 => (CallPassed(b, i, k)' <=> CallPassed(b, i, k))
    <3>1. b \in Nat /\ i \in Nat /\ i >= 1 /\ Len(Items(order[b])) \in Nat
      <4>1. order[b] \in Fns
        <5>1. order \in Seq(Fns)
          BY <1>0 DEF TypeOK
        <5> QED BY <2>4, <5>1
      <4> QED BY <1>0, <4>1, ItemTypes
    <3>2. b = cur.b => i < cur.j
      BY <1>a, <2>2, <3>1
    <3>3. Passed(b, i)' <=> b < cur.b + 1
      BY <2>3, <3>1 DEF Passed
    <3>4. Passed(b, i) <=> b < cur.b + 1
      BY <1>a, <3>1, <3>2 DEF Passed
    <3>5. \A k \in Nat : k >= 1 => (CallPassed(b, i, k)' <=> Passed(b, i)')
      BY <2>3, <3>1 DEF CallPassed
    <3>6. \A k \in Nat : CallPassed(b, i, k) <=> Passed(b, i)
      BY <1>a, <3>1, <3>2 DEF CallPassed
    <3> QED BY <3>3, <3>4, <3>5, <3>6
  <2>5. /\ \A f : Items(f)' = Items(f)
        /\ \A f : Unselectable(f)' <=> Unselectable(f)
        /\ \A f : Candidates(f)' = Candidates(f)
        /\ \A b, i : Body(b, i)' = Body(b, i) /\ CallsAt(b, i)' = CallsAt(b, i)
    BY <2>1, PositionsStable
  <2>6. decls' = decls /\ order' = order /\ resolved' = resolved
    BY <2>1
  <2>7. ASSUME NEW b \in 1 .. Len(order), NEW i \in 1 .. Len(Items(order[b]))
        PROVE  /\ BadBody(b, i)' <=> BadBody(b, i)
               /\ \A k \in 1 .. Len(CallsAt(b, i)) :
                    /\ CallPassed(b, i, k)' <=> CallPassed(b, i, k)
                    /\ BadCall(b, i, k)' <=> BadCall(b, i, k)
    <3>1. \A k \in 1 .. Len(CallsAt(b, i)) : CallPassed(b, i, k)' <=> CallPassed(b, i, k)
      <4>1. \A k \in 1 .. Len(CallsAt(b, i)) : k \in Nat /\ k >= 1
        OBVIOUS
      <4> QED BY <2>4, <4>1
    <3> QED BY <2>4, <2>5, <2>6, <3>1 DEF BadBody, BadCall
  <2>8. SomethingBad' <=> SomethingBad
    <3>1. SomethingBad' <=>
            \E b \in 1 .. Len(order) : \E i \in 1 .. Len(Items(order[b])) :
              BadBody(b, i)' \/ \E k \in 1 .. Len(CallsAt(b, i)) : BadCall(b, i, k)'
      BY <2>5, <2>6 DEF SomethingBad
    <3> QED BY <2>7, <3>1 DEF SomethingBad
  <2>9. ErrorSoFar'
    BY Zenon, <1>0, <2>1, <2>8 DEF ErrorSoFar
  <2>10. BoundSoFar'
    BY <1>0, <2>5, <2>6, <2>7 DEF BoundSoFar
  <2> QED BY <2>9, <2>10
<1> QED BY <1>1, <1>3, <1>4, <1>5, <1>6, <1>7, <1>8 DEF Next, SemaNext

\* At the start of the pass nothing is behind the cursor.
LEMMA StartVInv == IInv /\ Start => VInv
<1> SUFFICES ASSUME IInv, Start PROVE VInv
  OBVIOUS
<1>1. TypeOK
  BY DEF IInv
<1>2. /\ cur.b = 1 /\ cur.j = 1 /\ cur.c = 1 /\ d = 1 /\ phase = "collect"
      /\ had_error = FALSE
  BY DEF Start
<1>3. ~SomethingBad /\ BoundSoFar
  BY <1>1, <1>2, NothingBehindStart
<1>4. OrderFiled
  BY <1>2 DEF OrderFiled
<1>5. ErrorSoFar
  BY Zenon, <1>2, <1>3 DEF ErrorSoFar
<1> QED BY <1>2, <1>3, <1>4, <1>5 DEF VInv, CursorBounds, TiedRegister

\* A step of the pass keeps both invariants.
LEMMA VInvStep == IInv /\ VInv /\ [Next]_vars => IInv' /\ VInv'
<1>1. IInv /\ [Next]_vars => IInv'
  BY TypeStep, BucketsStep, LoopStep, BoundStep DEF IInv
<1>2. IInv /\ IInv' /\ VInv /\ [Next]_vars => VInv'
  BY OrderStep, CursorStep, TiedStep, VerdictStep DEF VInv
<1> QED BY <1>1, <1>2

\* The invariant holds in every reachable state.
THEOREM VerdictInvariance == Spec => [](IInv /\ VInv)
<1>1. Init => IInv /\ VInv
  BY InitInv, StartVInv DEF Init
<1> QED BY <1>1, VInvStep, PTL DEF Spec

\* When the cursor has left the last bucket, every declaration is behind it.
LEMMA AllBehind ==
  ASSUME IInv, VInv, phase = "done", NEW v \in DOMAIN decls
  PROVE  \E b \in 1 .. Len(order) : \E i \in 1 .. Len(Items(order[b])) :
           Body(b, i) = v /\ Passed(b, i)
<1>0. TypeOK /\ BucketsFiled /\ OrderFiled /\ CursorBounds
  BY DEF IInv, VInv
<1>1. v \in 1 .. Len(decls) /\ v < d
  BY <1>0 DEF TypeOK, BucketsFiled
<1>2. PICK b \in 1 .. Len(order) : order[b] = decls[v].name
  BY <1>0, <1>1 DEF OrderFiled
<1>3. PICK i \in 1 .. Len(Items(decls[v].name)) : Items(decls[v].name)[i] = v
  BY <1>0, <1>1 DEF BucketsFiled
<1>4. b < cur.b
  <2>1. cur.b > Len(order) /\ cur.b \in Nat /\ Len(order) \in Nat
    BY <1>0 DEF CursorBounds, TypeOK
  <2> QED BY <2>1
<1> QED BY <1>2, <1>3, <1>4 DEF Body, Passed

\* What the verdict is when the analysis is over.
LEMMA VerdictGiven == IInv /\ VInv => VerdictExact
<1> SUFFICES ASSUME IInv, VInv PROVE VerdictExact
  OBVIOUS
<1> SUFFICES ASSUME phase = "done"
             PROVE  had_error <=> \E v \in DOMAIN decls : Faulty(v)
  BY DEF VerdictExact
<1>0. TypeOK /\ ErrorSoFar
  BY DEF IInv, VInv
<1>1. ASSUME NEW v \in DOMAIN decls, Faulty(v) PROVE SomethingBad
  <2>0. PICK b \in 1 .. Len(order) : \E i \in 1 .. Len(Items(order[b])) :
          Body(b, i) = v /\ Passed(b, i)
    BY AllBehind
  <2>1. PICK i \in 1 .. Len(Items(order[b])) : Body(b, i) = v /\ Passed(b, i)
    BY <2>0
  <2>2. CASE ~decls[v].typed
    BY <2>1, <2>2 DEF SomethingBad, BadBody
  <2>3. CASE \E k \in DOMAIN decls[v].calls : Unselectable(decls[v].calls[k])
    <3>1. PICK k \in DOMAIN decls[v].calls : Unselectable(decls[v].calls[k])
      BY <2>3
    <3>2. CallsAt(b, i) = decls[v].calls /\ k \in 1 .. Len(CallsAt(b, i))
      BY <1>0, <2>1, PositionTypes DEF CallsAt
    <3>3. BadCall(b, i, k)
      BY <2>1, <3>1, <3>2 DEF BadCall, CallPassed
    <3> QED BY <3>2, <3>3 DEF SomethingBad
  <2> QED BY <1>1, <2>2, <2>3 DEF Faulty, Unselectable
<1>2. ASSUME SomethingBad PROVE \E v \in DOMAIN decls : Faulty(v)
  <2>0. PICK b \in 1 .. Len(order) : \E i \in 1 .. Len(Items(order[b])) :
          BadBody(b, i) \/ \E k \in 1 .. Len(CallsAt(b, i)) : BadCall(b, i, k)
    BY <1>2 DEF SomethingBad
  <2>1. PICK i \in 1 .. Len(Items(order[b])) :
          BadBody(b, i) \/ \E k \in 1 .. Len(CallsAt(b, i)) : BadCall(b, i, k)
    BY <2>0
  <2>2. Body(b, i) \in DOMAIN decls /\ DOMAIN CallsAt(b, i) = 1 .. Len(CallsAt(b, i))
    <3>1. Body(b, i) \in 1 .. Len(decls) /\ DOMAIN CallsAt(b, i) = 1 .. Len(CallsAt(b, i))
      BY <1>0, PositionTypes
    <3>2. DOMAIN decls = 1 .. Len(decls)
      BY <1>0 DEF TypeOK
    <3> QED BY <3>1, <3>2
  <2>3. Faulty(Body(b, i))
    BY <2>1, <2>2 DEF BadBody, BadCall, Faulty, Unselectable, CallsAt
  <2> QED BY <2>2, <2>3
<1> QED BY Zenon, <1>0, <1>1, <1>2 DEF ErrorSoFar

\* What the call sites of an accepted program hold.
LEMMA AcceptedGiven == IInv /\ VInv => AcceptedAllBound
<1> SUFFICES ASSUME IInv, VInv PROVE AcceptedAllBound
  OBVIOUS
<1> SUFFICES ASSUME phase = "done", ~had_error, NEW s \in Sites
             PROVE  resolved[s] # NULL
  BY DEF AcceptedAllBound
<1>0. TypeOK /\ ErrorSoFar /\ BoundSoFar
  BY DEF IInv, VInv
<1>1. /\ s[1] \in DOMAIN decls /\ s[2] \in 1 .. Len(decls[s[1]].calls)
      /\ s = <<s[1], s[2]>>
  <2>1. DOMAIN decls = 1 .. Len(decls)
    BY <1>0 DEF TypeOK
  <2> QED BY <1>0, <2>1, SiteTypes
<1>a. PICK b \in 1 .. Len(order) : \E i \in 1 .. Len(Items(order[b])) :
        Body(b, i) = s[1] /\ Passed(b, i)
  BY <1>1, AllBehind
<1>2. PICK i \in 1 .. Len(Items(order[b])) : Body(b, i) = s[1] /\ Passed(b, i)
  BY <1>a
<1>3. CallsAt(b, i) = decls[s[1]].calls /\ s[2] \in 1 .. Len(CallsAt(b, i))
  BY <1>1, <1>2 DEF CallsAt
<1>4. CallPassed(b, i, s[2])
  BY <1>2 DEF CallPassed
<1>5. ~SomethingBad
  BY Zenon, <1>0 DEF ErrorSoFar
<1>6. Candidates(CallsAt(b, i)[s[2]]) # {}
  BY <1>3, <1>4, <1>5 DEF SomethingBad, BadCall, Unselectable
<1>7. resolved[<<Body(b, i), s[2]>>] # NULL
  BY <1>0, <1>3, <1>4, <1>6 DEF BoundSoFar
<1> QED BY <1>1, <1>2, <1>7
-----------------------------------------------------------------------------
\* The verdict of the analysis is exact, for every program: `vanta check`
\* refuses it if and only if a variant, active or not, breaks a type rule or
\* calls a function without a candidate or with a tie (sema.c 371-385, 810-880).
THEOREM VerdictCorrect == Spec => []VerdictExact
  BY VerdictGiven, VerdictInvariance, PTL

\* An accepted program has no call left for the run to look up by name, in any
\* of its variants (sema.c 576, interp.c 543-560).
THEOREM AcceptedCorrect == Spec => []AcceptedAllBound
  BY AcceptedGiven, VerdictInvariance, PTL
-----------------------------------------------------------------------------
(* A run.                                                                    *)

(* The inductive invariant.                                                  *)

\* What the registers of lookup_active_variant say about the items seen.
LookSeen == {k \in 1 .. Len(Items(look.fn)) : k < look.i /\ Matches(Attrs(look.fn, k), active)}

LookRegisters ==
  /\ look.best = 0 => LookSeen = {} /\ look.score = -1
  /\ look.best # 0 =>
       /\ look.best \in LookSeen
       /\ look.score = Score(Attrs(look.fn, look.best))
       /\ \A k \in LookSeen :
            /\ Score(Attrs(look.fn, k)) <= look.score
            /\ k < look.best => Score(Attrs(look.fn, k)) < look.score

\* What is known at each stage.  The first function looked up is main.
Stages ==
  /\ stage # "sema" => phase = "done"
  /\ stage = "sema" => /\ stack = <<>> /\ look.i = 1 /\ look.best = 0 /\ look.score = -1
  /\ stage \in {"lookup", "run"} => ~had_error
  /\ stage = "lookup" /\ stack = <<>> => look.fn = Main
  /\ stage = "run" => stack # <<>>
  /\ stage = "over" => stack = <<>>

\* Every activation runs the best variant of its function, through a pointer
\* into the final array of its bucket.
Settled(a) == Live(a.p, a.fn) /\ IsBest(Target(a.p, a.fn), a.fn)
StackSettled == \A i \in 1 .. Len(stack) : Settled(stack[i])

\* How a run ended and what was known then.
Ends ==
  /\ stack # <<>> => Candidates(Main) # {}
  /\ outcome = "rejected" => had_error
  /\ outcome = "nomain" => ~had_error /\ Candidates(Main) = {}
  /\ outcome \in {"died", "returned"} => ~had_error /\ Candidates(Main) # {}

RInv == RunTypeOK /\ LookRegisters /\ Stages /\ StackSettled /\ Ends
DInv == IInv /\ VInv /\ RInv
-----------------------------------------------------------------------------
\* While the program and the buckets stay as they are, so does everything said
\* about variants.
LEMMA VariantsStable ==
  ASSUME UNCHANGED <<decls, active, bucket>>
  PROVE  /\ \A f : Items(f)' = Items(f)
         /\ \A f, i : Attrs(f, i)' = Attrs(f, i)
         /\ \A f : Candidates(f)' = Candidates(f)
         /\ \A a : Settled(a)' <=> Settled(a)
<1>1. \A f : Items(f)' = Items(f)
  BY DEF Items
<1>2. \A f, i : Attrs(f, i)' = Attrs(f, i)
  BY DEF Items, Attrs
<1>3. \A f : Candidates(f)' = Candidates(f)
  BY DEF Candidates, IsCandidate
<1>4. \A v, f : IsBest(v, f)' <=> IsBest(v, f)
  BY DEF IsBest, IsCandidate, Better
<1>5. \A p, f : (Live(p, f)' <=> Live(p, f)) /\ Target(p, f)' = Target(p, f)
  BY DEF Live, Target, Items
<1>6. \A a : Settled(a)' <=> Settled(a)
  BY <1>5 DEF Settled, IsBest, IsCandidate, Better
<1> QED BY <1>1, <1>2, <1>3, <1>6

\* The run reads what the analysis left behind and changes none of it.
LEMMA RunKeepsAnalysis == RunNext => UNCHANGED vars
  BY DEF RunNext, Reject, FindMain, Lookup, LookupStep, LookupFails, Die, Enter, CondCall,
         BodyCall, Abort, BeginBody, EndBody, At, Return

\* The analysis, once over, has filed every declaration: the lookup has gone
\* through all variants of its function when it leaves the loop.
LEMMA LookPick ==
  ASSUME IInv, RunTypeOK, LookRegisters, phase = "done",
         look.i \notin DOMAIN Items(look.fn)
  PROVE  /\ look.best = 0 <=> Candidates(look.fn) = {}
         /\ look.best # 0 => /\ look.best \in DOMAIN Items(look.fn)
                             /\ IsBest(Items(look.fn)[look.best], look.fn)
<1> DEFINE f == look.fn
<1>0. TypeOK /\ BucketsFiled
  BY DEF IInv
<1>1. f \in Fns /\ look.i \in Nat \ {0} /\ look.best \in Nat
  BY DEF RunTypeOK
<1>2. /\ DOMAIN Items(f) = 1 .. Len(Items(f)) /\ Len(Items(f)) \in Nat
      /\ \A i \in 1 .. Len(Items(f)) : /\ Items(f)[i] \in 1 .. Len(decls)
                                       /\ Score(Attrs(f, i)) \in Nat
  BY <1>0, <1>1, ItemTypes
<1>3. \A k \in 1 .. Len(Items(f)) : k < look.i
  <2>1. look.i \notin 1 .. Len(Items(f))
    BY <1>2
  <2> QED BY <1>1, <1>2, <2>1
<1>4. \A k : k \in LookSeen <=> k \in 1 .. Len(Items(f)) /\ Matches(Attrs(f, k), active)
  BY <1>3 DEF LookSeen
<1>5. \A k \in 1 .. Len(Items(f)) : Items(f)[k] \in DOMAIN decls /\ decls[Items(f)[k]].name = f
  <2>1. DOMAIN decls = 1 .. Len(decls)
    BY <1>0 DEF TypeOK
  <2> QED BY <1>0, <1>1, <1>2, <2>1 DEF BucketsFiled
<1>6. \A k \in LookSeen : IsCandidate(Items(f)[k], f)
  BY <1>4, <1>5 DEF IsCandidate, Attrs
<1>7. ASSUME NEW w \in DOMAIN decls, IsCandidate(w, f)
      PROVE  \E k \in LookSeen : Items(f)[k] = w
  <2>1. w \in 1 .. Len(decls) /\ decls[w].name = f /\ Matches(decls[w].attrs, active)
    <3>1. DOMAIN decls = 1 .. Len(decls)
      BY <1>0 DEF TypeOK
    <3> QED BY <1>7, <3>1 DEF IsCandidate
  <2>2. w < d
    BY <1>0, <2>1 DEF BucketsFiled, TypeOK
  <2>3. PICK k \in 1 .. Len(Items(f)) : Items(f)[k] = w
    BY <1>0, <2>1, <2>2 DEF BucketsFiled
  <2> QED BY <1>4, <2>1, <2>3 DEF Attrs
<1>8. look.best = 0 <=> Candidates(f) = {}
  <2>1. LookSeen = {} <=> Candidates(f) = {}
    <3>1. \A k \in LookSeen : Items(f)[k] \in Candidates(f)
      BY <1>6 DEF Candidates, IsCandidate
    <3>2. \A w \in Candidates(f) : \E k \in LookSeen : Items(f)[k] = w
      BY <1>7 DEF Candidates
    <3> QED BY <3>1, <3>2
  <2>2. look.best = 0 <=> LookSeen = {}
    BY DEF LookRegisters
  <2> QED BY <2>1, <2>2
<1>9. ASSUME look.best # 0
      PROVE  look.best \in DOMAIN Items(f) /\ IsBest(Items(f)[look.best], f)
  <2> DEFINE v == Items(f)[look.best]
  <2>1. /\ look.best \in LookSeen /\ look.score = Score(decls[v].attrs)
        /\ \A k \in LookSeen :
             /\ Score(Attrs(f, k)) <= look.score
             /\ k < look.best => Score(Attrs(f, k)) < look.score
    BY <1>9 DEF LookRegisters, Attrs
  <2>2. look.best \in 1 .. Len(Items(f)) /\ IsCandidate(v, f)
    BY <1>4, <1>6, <2>1
  <2>3. ASSUME NEW w \in DOMAIN decls, IsCandidate(w, f) PROVE Better(v, w)
    <3>1. PICK k \in LookSeen : Items(f)[k] = w
      BY <1>7, <2>3
    <3>2. k \in 1 .. Len(Items(f)) /\ Attrs(f, k) = decls[w].attrs
      BY <1>4, <3>1 DEF Attrs
    <3>3. /\ Score(decls[w].attrs) <= Score(decls[v].attrs)
          /\ k < look.best => Score(decls[w].attrs) < Score(decls[v].attrs)
      BY <2>1, <3>1, <3>2
    <3>4. Score(decls[w].attrs) \in Nat /\ Score(decls[v].attrs) \in Nat
      BY <1>2, <2>2, <3>2 DEF Attrs
    <3>5. ~(k < look.best) => v <= w
      <4>1. look.best < k => v < w
        BY <1>0, <1>1, <2>2, <3>1, <3>2 DEF BucketsFiled
      <4>2. v \in Nat /\ w \in Nat /\ k \in Nat
        BY <1>2, <2>2, <3>1, <3>2
      <4> QED BY <1>1, <3>1, <4>1, <4>2
    <3> QED BY <3>3, <3>4, <3>5 DEF Better
  <2> QED BY <1>2, <2>2, <2>3 DEF IsBest
<1> QED BY <1>8, <1>9
-----------------------------------------------------------------------------
\* The run starts with empty hands.
LEMMA RunStart == TypeOK /\ RunInit => RInv
<1> SUFFICES ASSUME TypeOK, RunInit PROVE RInv
  OBVIOUS
<1>1. /\ stage = "sema" /\ stack = <<>> /\ outcome = "none" /\ look.fn = Main
      /\ look.i = 1 /\ look.best = 0 /\ look.score = -1
  BY DEF RunInit
<1>2. Len(Items(Main)) \in Nat
  BY ItemTypes, DispatchAssumption
<1>3. RunTypeOK
  <2>1. look \in [fn : Fns, i : Nat \ {0}, best : Nat, score : Int]
    BY DispatchAssumption DEF RunInit
  <2>2. stack \in Seq(Activation)
    BY <1>1
  <2>3. look.i <= Len(Items(look.fn)) + 1 /\ look.best < look.i
    BY <1>1, <1>2
  <2> QED BY <1>1, <2>1, <2>2, <2>3 DEF RunTypeOK
<1>4. LookRegisters
  BY <1>1 DEF LookRegisters, LookSeen
<1>5. Stages /\ StackSettled /\ Ends
  BY <1>1 DEF Stages, StackSettled, Ends
<1> QED BY <1>3, <1>4, <1>5 DEF RInv

\* While the analysis is running, the run waits.
LEMMA SemaStep == DInv /\ Sema => DInv'
<1> SUFFICES ASSUME DInv, Sema PROVE DInv'
  OBVIOUS
<1>1. /\ stage = "sema" /\ stage' = stage /\ stack' = stack /\ look' = look
      /\ outcome' = outcome /\ SemaNext
  BY DEF Sema, run
<1>2. IInv' /\ VInv'
  BY <1>1, VInvStep DEF DInv, Next
<1>3. RunTypeOK /\ Stages
  BY DEF DInv, RInv
<1>4. stack = <<>> /\ look.i = 1 /\ look.best = 0 /\ look.score = -1 /\ outcome = "none"
  BY <1>1, <1>3 DEF Stages, RunTypeOK
<1>5. TypeOK'
  BY <1>2 DEF IInv
<1>6. Len(Items(look.fn))' \in Nat
  <2>1. PICK f \in Fns : f = look.fn
    BY <1>3 DEF RunTypeOK
  <2>2. bucket' \in [Fns -> [block : Nat, cap : Nat, items : Seq(1 .. Len(decls'))]]
    BY <1>5 DEF TypeOK
  <2>3. bucket'[f].items \in Seq(1 .. Len(decls'))
    BY <2>1, <2>2
  <2> QED BY <1>1, <2>1, <2>3 DEF Items
<1>7. RunTypeOK'
  BY <1>1, <1>3, <1>4, <1>5, <1>6 DEF RunTypeOK
<1>8. LookRegisters'
  BY <1>1, <1>4 DEF LookRegisters, LookSeen
<1>9. Stages' /\ StackSettled' /\ Ends'
  BY <1>1, <1>4 DEF Stages, StackSettled, Ends
<1> QED BY <1>2, <1>7, <1>8, <1>9 DEF DInv, RInv
-----------------------------------------------------------------------------
\* What a step of the run has to show: the rest of the invariant is about the
\* analysis, which it leaves alone.
LEMMA RunFrame ==
  ASSUME DInv, UNCHANGED vars,
         look' \in [fn : Fns, i : Nat \ {0}, best : Nat, score : Int],
         look'.i <= Len(Items(look'.fn)) + 1, look'.best < look'.i,
         stage' \in {"sema", "lookup", "run", "over"},
         outcome' \in {"none", "rejected", "nomain", "died", "returned"},
         stage' = "over" <=> outcome' # "none",
         stack' \in Seq(Activation),
         \A i \in 1 .. Len(stack') : Settled(stack'[i]),
         LookRegisters', Stages', Ends'
  PROVE  DInv'
<1>1. IInv' /\ VInv'
  BY VInvStep DEF DInv
<1>2. UNCHANGED <<decls, active, bucket>>
  BY DEF vars, sema
<1>3. StackSettled'
  <2> SUFFICES ASSUME NEW i \in 1 .. Len(stack') PROVE Settled(stack[i])'
    BY DEF StackSettled
  <2>1. PICK a : a = stack'[i]
    OBVIOUS
  <2>2. Settled(a)'
    BY <1>2, <2>1, VariantsStable
  <2> QED BY <2>1, <2>2 DEF Settled
<1>4. RunTypeOK'
  <2>1. TypeOK'
    BY <1>1 DEF IInv
  <2>2. Len(Items(look.fn))' = Len(Items(look'.fn))
    BY <1>2 DEF Items
  <2> QED BY <2>1, <2>2 DEF RunTypeOK
<1> QED BY <1>1, <1>3, <1>4 DEF DInv, RInv

\* A fresh lookup has seen nothing.
LEMMA FreshLookup ==
  ASSUME TypeOK, UNCHANGED vars, NEW f \in Fns,
         look' = [fn |-> f, i |-> 1, best |-> 0, score |-> -1]
  PROVE  /\ look' \in [fn : Fns, i : Nat \ {0}, best : Nat, score : Int]
         /\ look'.i <= Len(Items(look'.fn)) + 1 /\ look'.best < look'.i
         /\ LookRegisters'
<1>1. look'.fn = f /\ look'.i = 1 /\ look'.best = 0 /\ look'.score = -1
  OBVIOUS
<1>2. Len(Items(f)) \in Nat
  BY ItemTypes
<1>3. LookRegisters'
  BY <1>1 DEF LookRegisters, LookSeen
<1> QED BY <1>1, <1>2, <1>3

\* Registers that nobody writes keep what they say.
LEMMA SameLook ==
  ASSUME DInv, UNCHANGED <<vars, look>>
  PROVE  /\ look' \in [fn : Fns, i : Nat \ {0}, best : Nat, score : Int]
         /\ look'.i <= Len(Items(look'.fn)) + 1 /\ look'.best < look'.i
         /\ LookRegisters'
<1>1. UNCHANGED <<decls, active, bucket, look>>
  BY DEF vars, sema
<1>2. LookSeen' = LookSeen
  BY <1>1 DEF LookSeen, Items, Attrs
<1>3. \A k : Score(Attrs(look.fn, k))' = Score(Attrs(look.fn, k))
  BY <1>1 DEF Items, Attrs, Score, decl_required_attrs
<1>4. LookRegisters /\ RunTypeOK
  BY DEF DInv, RInv
<1>5. LookRegisters'
  <2>1. Score(Attrs(look.fn, look.best))' = Score(Attrs(look.fn, look.best))
    BY <1>1 DEF Items, Attrs, Score, decl_required_attrs
  <2> QED BY <1>1, <1>2, <1>3, <1>4, <2>1 DEF LookRegisters
<1> QED BY <1>1, <1>4, <1>5 DEF RunTypeOK
-----------------------------------------------------------------------------
\* What the invariant says outright, and what a step that leaves the analysis
\* alone keeps of it.
LEMMA RunFacts ==
  ASSUME DInv
  PROVE  /\ IInv /\ TypeOK /\ RunTypeOK /\ LookRegisters /\ Stages /\ StackSettled /\ Ends
         /\ look \in [fn : Fns, i : Nat \ {0}, best : Nat, score : Int]
         /\ stack \in Seq(Activation) /\ Len(stack) \in Nat
         /\ stage = "over" <=> outcome # "none"
         /\ UNCHANGED vars => /\ Candidates(Main)' = Candidates(Main)
                              /\ had_error' = had_error /\ phase' = phase
<1>1. UNCHANGED vars => UNCHANGED <<decls, active, bucket, had_error, phase>>
  BY DEF vars, sema
<1>2. UNCHANGED vars => Candidates(Main)' = Candidates(Main)
  BY <1>1, VariantsStable
<1>3. RInv /\ IInv
  BY DEF DInv
<1>4. RunTypeOK /\ LookRegisters /\ Stages /\ StackSettled /\ Ends
  BY <1>3 DEF RInv
<1> QED BY <1>1, <1>2, <1>3, <1>4 DEF IInv, RunTypeOK

\* Each iteration of lookup_active_variant keeps its registers.
LEMMA LookupStepInv == DInv /\ LookupStep => DInv'
<1> SUFFICES ASSUME DInv, LookupStep PROVE DInv'
  OBVIOUS
<1> DEFINE f == look.fn
           v == Items(f)[look.i]
           a == Attrs(f, look.i)
<1>0. /\ TypeOK /\ RunTypeOK /\ LookRegisters /\ Stages /\ StackSettled /\ Ends
      /\ look \in [fn : Fns, i : Nat \ {0}, best : Nat, score : Int]
      /\ stack \in Seq(Activation)
  BY RunFacts
<1>1. /\ stage = "lookup" /\ look.i \in DOMAIN Items(f)
      /\ look' = [look EXCEPT !.i = @ + 1,
                              !.best = IF Prefer(v) THEN look.i ELSE @,
                              !.score = IF Prefer(v) THEN Score(decls[v].attrs) ELSE @]
      /\ UNCHANGED <<vars, stage, stack, outcome>>
  BY DEF LookupStep
<1>2. /\ DOMAIN Items(f) = 1 .. Len(Items(f)) /\ Len(Items(f)) \in Nat
      /\ \A k \in 1 .. Len(Items(f)) : Score(Attrs(f, k)) \in Nat
  BY <1>0, ItemTypes
<1>3. Prefer(v) <=> Matches(a, active) /\ Score(a) > look.score
  BY DEF Prefer, Attrs
<1>4. /\ look'.fn = f /\ look'.i = look.i + 1
      /\ look'.best = IF Prefer(v) THEN look.i ELSE look.best
      /\ look'.score = IF Prefer(v) THEN Score(a) ELSE look.score
      /\ look' \in [fn : Fns, i : Nat \ {0}, best : Nat, score : Int]
  <2>1. Score(decls[v].attrs) = Score(a) /\ Score(a) \in Int
    BY <1>1, <1>2 DEF Attrs
  <2>2. (IF Prefer(v) THEN look.i ELSE look.best) \in Nat
    BY <1>0
  <2>3. (IF Prefer(v) THEN Score(decls[v].attrs) ELSE look.score) \in Int
    BY <1>0, <2>1
  <2>4. PICK best \in Nat : best = IF Prefer(v) THEN look.i ELSE look.best
    BY <2>2
  <2>5. PICK sc \in Int : sc = IF Prefer(v) THEN Score(decls[v].attrs) ELSE look.score
    BY <2>3
  <2>6. look' = [look EXCEPT !.i = look.i + 1, !.best = best, !.score = sc]
    BY <1>1, <2>4, <2>5
  <2>7. look.i + 1 \in Nat \ {0}
    BY <1>0
  <2>8. /\ look'.fn = f /\ look'.i = look.i + 1 /\ look'.best = best /\ look'.score = sc
        /\ look' \in [fn : Fns, i : Nat \ {0}, best : Nat, score : Int]
    BY <1>0, <2>6, <2>7
  <2> QED BY <2>1, <2>4, <2>5, <2>8
<1>5. look'.i <= Len(Items(f)) + 1 /\ look'.best < look'.i
  <2>1. look.i \in 1 .. Len(Items(f)) /\ look.best < look.i
    BY <1>0, <1>1, <1>2 DEF RunTypeOK
  <2> QED BY <1>0, <1>2, <1>4, <2>1
<1>6. UNCHANGED <<decls, active, bucket, phase, had_error>>
  BY <1>1 DEF vars, sema
<1>7. LookSeen' = LookSeen \cup (IF Matches(a, active) THEN {look.i} ELSE {})
  <2>1. LookSeen' = {k \in 1 .. Len(Items(f)) : k < look.i + 1 /\ Matches(Attrs(f, k), active)}
    BY <1>4, <1>6 DEF LookSeen, Items, Attrs
  <2> QED BY <1>0, <1>1, <1>2, <2>1 DEF LookSeen
<1>8. \A k \in LookSeen : k \in 1 .. Len(Items(f)) /\ k < look.i
  BY DEF LookSeen
<1>9. /\ look'.best = 0 => LookSeen' = {} /\ look'.score = -1
      /\ look'.best # 0 =>
           /\ look'.best \in LookSeen'
           /\ look'.score = Score(Attrs(f, look'.best))
           /\ \A k \in LookSeen' :
                /\ Score(Attrs(f, k)) <= look'.score
                /\ k < look'.best => Score(Attrs(f, k)) < look'.score
  <2>1. CASE ~Matches(a, active)
    BY <1>0, <1>3, <1>4, <1>7, <2>1 DEF LookRegisters
  <2>2. CASE Prefer(v)
    <3>1. look'.best = look.i /\ look'.score = Score(a) /\ look.i # 0
      BY <1>0, <1>4, <2>2
    <3>2. \A k \in LookSeen : Score(Attrs(f, k)) < Score(a)
      BY <1>0, <1>1, <1>2, <1>3, <1>8, <2>2 DEF LookRegisters
    <3>3. \A k \in LookSeen : Score(Attrs(f, k)) <= Score(a)
      BY <1>1, <1>2, <1>8, <3>2
    <3> QED BY <1>1, <1>2, <1>3, <1>7, <1>8, <2>2, <3>1, <3>2, <3>3
  <2>3. CASE Matches(a, active) /\ ~Prefer(v)
    <3>1. look'.best = look.best /\ look'.score = look.score /\ Score(a) <= look.score
      BY <1>0, <1>1, <1>2, <1>3, <1>4, <2>3
    <3>2. look.best # 0 /\ look.best < look.i /\ look.best \in Nat
      BY <1>0, <1>1, <1>2, <1>8, <3>1 DEF LookRegisters
    <3>3. /\ look.best \in LookSeen /\ look.score = Score(Attrs(f, look.best))
          /\ \A k \in LookSeen :
               /\ Score(Attrs(f, k)) <= look.score
               /\ k < look.best => Score(Attrs(f, k)) < look.score
      BY <1>0, <3>2 DEF LookRegisters
    <3>4. ~(look.i < look.best)
      BY <1>0, <3>2
    <3> QED BY <1>7, <2>3, <3>1, <3>2, <3>3, <3>4
  <2> QED BY <1>3, <2>1, <2>2, <2>3
<1>10. LookRegisters'
  <2>1. \A k : Score(Attrs(f, k))' = Score(Attrs(f, k))
    BY <1>4, <1>6 DEF Items, Attrs, Score, decl_required_attrs
  <2>2. Score(Attrs(look.fn, look.best))' = Score(Attrs(f, look'.best))
    BY <1>4, <1>6 DEF Items, Attrs, Score, decl_required_attrs
  <2>3. \A k : Score(Attrs(look.fn, k))' = Score(Attrs(f, k))
    BY <1>4, <1>6 DEF Items, Attrs, Score, decl_required_attrs
  <2> QED BY <1>9, <2>2, <2>3 DEF LookRegisters
<1>11. \A i \in 1 .. Len(stack') : Settled(stack'[i])
  BY <1>0, <1>1 DEF StackSettled
<1>12. Candidates(Main)' = Candidates(Main)
  BY <1>6, VariantsStable
<1>13. Stages' /\ Ends'
  BY <1>0, <1>1, <1>6, <1>12 DEF Stages, Ends
<1>14. /\ stage' \in {"sema", "lookup", "run", "over"}
       /\ outcome' \in {"none", "rejected", "nomain", "died", "returned"}
       /\ stage' = "over" <=> outcome' # "none"
       /\ stack' \in Seq(Activation) /\ UNCHANGED vars
  BY <1>0, <1>1 DEF RunTypeOK
<1> QED BY <1>4, <1>5, <1>10, <1>11, <1>13, <1>14, RunFrame
-----------------------------------------------------------------------------
\* The run is given up: nothing is left on the stack.
LEMMA OverStep ==
  ASSUME DInv, UNCHANGED <<vars, look>>, stage' = "over", stack' = <<>>,
         outcome' \in {"rejected", "nomain", "died", "returned"},
         phase = "done", Ends'
  PROVE  DInv'
<1>1. Stages' /\ stack' \in Seq(Activation)
  BY RunFacts DEF Stages
<1>2. \A i \in 1 .. Len(stack') : Settled(stack'[i])
  OBVIOUS
<1> QED BY <1>1, <1>2, SameLook, RunFrame

\* cmd_run stops, or the lookup of main or of a callee comes back without a
\* variant, or an activation aborts.
LEMMA StopSteps == DInv /\ (Reject \/ LookupFails \/ Abort) => DInv'
<1> SUFFICES ASSUME DInv, Reject \/ LookupFails \/ Abort PROVE DInv'
  OBVIOUS
<1>0. /\ IInv /\ RunTypeOK /\ LookRegisters /\ Stages /\ Ends
      /\ UNCHANGED vars => /\ Candidates(Main)' = Candidates(Main)
                           /\ had_error' = had_error /\ phase' = phase
  BY RunFacts
<1>1. CASE Reject
  <2>1. /\ stage = "sema" /\ phase = "done" /\ had_error /\ stage' = "over"
        /\ outcome' = "rejected" /\ UNCHANGED <<vars, look>> /\ UNCHANGED stack
    BY <1>1 DEF Reject
  <2>2. stack' = <<>> /\ Ends'
    BY <1>0, <2>1 DEF Stages, Ends
  <2> QED BY <2>1, <2>2, OverStep
<1>2. CASE LookupFails /\ stack = <<>>
  <2>1. /\ stage = "lookup" /\ look.i \notin DOMAIN Items(look.fn) /\ look.best = 0
        /\ stage' = "over" /\ outcome' = "nomain" /\ UNCHANGED <<vars, look>>
        /\ UNCHANGED stack
    BY <1>2 DEF LookupFails
  <2>2. phase = "done" /\ ~had_error /\ look.fn = Main
    BY <1>0, <1>2, <2>1 DEF Stages
  <2>3. Candidates(Main) = {}
    BY <1>0, <2>1, <2>2, LookPick
  <2>4. stack' = <<>> /\ Ends'
    BY <1>0, <1>2, <2>1, <2>2, <2>3 DEF Ends
  <2> QED BY <2>1, <2>2, <2>4, OverStep
<1>3. CASE LookupFails /\ stack # <<>>
  <2>1. /\ stage = "lookup" /\ stage' = "over" /\ outcome' = "died" /\ stack' = <<>>
        /\ UNCHANGED <<vars, look>>
    BY <1>3 DEF LookupFails, Die
  <2>2. phase = "done" /\ Ends'
    BY <1>0, <1>3, <2>1 DEF Stages, Ends
  <2> QED BY <2>1, <2>2, OverStep
<1>4. CASE Abort
  <2>1. /\ stage = "run" /\ stack # <<>> /\ stage' = "over" /\ outcome' = "died"
        /\ stack' = <<>> /\ UNCHANGED <<vars, look>>
    BY <1>4 DEF Abort, Running, Die
  <2>2. phase = "done" /\ Ends'
    BY <1>0, <2>1 DEF Stages, Ends
  <2> QED BY <2>1, <2>2, OverStep
<1> QED BY <1>1, <1>2, <1>3, <1>4

\* A lookup begins.
LEMMA LookupBegins ==
  ASSUME DInv, NEW f \in Fns, Lookup(f), stage \in {"sema", "run"}, phase = "done",
         ~had_error, stage = "sema" => f = Main
  PROVE  DInv'
<1>0. /\ TypeOK /\ RunTypeOK /\ Stages /\ Ends /\ stack \in Seq(Activation) /\ StackSettled
      /\ UNCHANGED vars => /\ Candidates(Main)' = Candidates(Main)
                           /\ had_error' = had_error /\ phase' = phase
  BY RunFacts
<1>1. /\ stage' = "lookup" /\ look' = [fn |-> f, i |-> 1, best |-> 0, score |-> -1]
      /\ UNCHANGED vars /\ UNCHANGED stack /\ UNCHANGED outcome
  BY DEF Lookup
<1>2. outcome = "none"
  BY <1>0 DEF RunTypeOK
<1>3. Stages' /\ Ends'
  <2>1. stage = "run" => stack # <<>>
    BY <1>0 DEF Stages
  <2> QED BY <1>0, <1>1, <1>2, <2>1 DEF Stages, Ends
<1>4. \A i \in 1 .. Len(stack') : Settled(stack'[i])
  BY <1>0, <1>1 DEF StackSettled
<1> QED BY <1>0, <1>1, <1>2, <1>3, <1>4, FreshLookup, RunFrame

\* call_fn: a settled activation joins the stack.
LEMMA CallBegins ==
  ASSUME DInv, NEW a \in Activation, Settled(a), stack' = Append(stack, a),
         stage \in {"lookup", "run"}, stage' = "run", Candidates(Main) # {},
         UNCHANGED <<vars, look>>, outcome' = outcome
  PROVE  DInv'
<1>0. /\ RunTypeOK /\ Stages /\ Ends /\ stack \in Seq(Activation) /\ Len(stack) \in Nat
      /\ StackSettled
      /\ Candidates(Main)' = Candidates(Main) /\ had_error' = had_error /\ phase' = phase
  BY RunFacts
<1>1. /\ stack' \in Seq(Activation) /\ Len(stack') = Len(stack) + 1
      /\ \A i \in 1 .. Len(stack) : stack'[i] = stack[i]
      /\ stack'[Len(stack) + 1] = a
  BY <1>0, AppendProperties
<1>2. \A i \in 1 .. Len(stack') : Settled(stack'[i])
  <2> SUFFICES ASSUME NEW i \in 1 .. Len(stack') PROVE Settled(stack'[i])
    OBVIOUS
  <2>1. i \in 1 .. Len(stack) \/ i = Len(stack) + 1
    BY <1>0, <1>1
  <2>2. i \in 1 .. Len(stack) => Settled(stack'[i])
    BY <1>0, <1>1 DEF StackSettled
  <2> QED BY <1>1, <2>1, <2>2
<1>3. stack' # <<>>
  BY <1>0, <1>1
<1>4. Stages' /\ Ends'
  BY <1>0, <1>3 DEF Stages, Ends
<1>5. /\ outcome' \in {"none", "rejected", "nomain", "died", "returned"}
      /\ stage' = "over" <=> outcome' # "none"
  BY <1>0 DEF RunTypeOK
<1>6. UNCHANGED vars
  OBVIOUS
<1> QED BY <1>1, <1>2, <1>4, <1>5, <1>6, SameLook, RunFrame

\* main is looked up, and so is what a condition or an invariant calls.
LEMMA LookupSteps == DInv /\ (FindMain \/ CondCall) => DInv'
<1> SUFFICES ASSUME DInv, FindMain \/ CondCall PROVE DInv'
  OBVIOUS
<1>0. Stages
  BY RunFacts
<1>1. CASE FindMain
  BY <1>1, LookupBegins, DispatchAssumption DEF FindMain
<1>2. CASE CondCall
  <2>1. PICK f \in CalledByName(Top) : Lookup(f)
    BY <1>2 DEF CondCall
  <2>2. f \in Fns /\ stage = "run"
    BY <1>2, <2>1, DispatchAssumption DEF CondCall, CalledByName, Running
  <2> QED BY <1>0, <2>1, <2>2, LookupBegins DEF Stages
<1> QED BY <1>1, <1>2

\* What call_fn begins is settled, and begins with main.
NewActivation(a) ==
  /\ Settled(a) /\ stack' = Append(stack, a) /\ (stack = <<>> => a.fn = Main)
  /\ stage \in {"lookup", "run"} /\ stage' = "run" /\ Candidates(Main) # {}
  /\ UNCHANGED <<vars, look>> /\ outcome' = outcome

\* The variant found by the lookup is entered.
LEMMA Enters ==
  ASSUME DInv, Enter
  PROVE  \E a \in Activation : NewActivation(a)
<1> DEFINE p == [block |-> bucket[look.fn].block, idx |-> look.best]
           a == Activate(p, look.fn)
<1>0. /\ IInv /\ TypeOK /\ RunTypeOK /\ LookRegisters /\ Stages /\ Ends
      /\ look \in [fn : Fns, i : Nat \ {0}, best : Nat, score : Int]
  BY RunFacts
<1>1. /\ stage = "lookup" /\ look.i \notin DOMAIN Items(look.fn) /\ look.best # 0
      /\ stack' = Append(stack, a) /\ stage' = "run"
      /\ UNCHANGED <<vars, look>> /\ outcome' = outcome
  BY DEF Enter
<1>2. phase = "done"
  BY <1>0, <1>1 DEF Stages
<1>3. /\ look.best = 0 <=> Candidates(look.fn) = {}
      /\ look.best # 0 => /\ look.best \in DOMAIN Items(look.fn)
                          /\ IsBest(Items(look.fn)[look.best], look.fn)
  BY <1>0, <1>1, <1>2, LookPick
<1>4. Settled(a)
  BY <1>1, <1>3 DEF Settled, Activate, Live, Target
<1>5. a \in Activation
  BY <1>0 DEF Activate, Activation, TypeOK
<1>6. Candidates(Main) # {}
  <2>1. CASE stack = <<>>
    BY <1>0, <1>1, <1>3, <2>1 DEF Stages
  <2>2. CASE stack # <<>>
    BY <1>0, <2>2 DEF Ends
  <2> QED BY <2>1, <2>2
<1>7. stack = <<>> => a.fn = Main
  BY <1>0, <1>1 DEF Stages, Activate
<1> HIDE DEF a
<1> QED BY <1>1, <1>4, <1>5, <1>6, <1>7 DEF NewActivation
-----------------------------------------------------------------------------
\* The activation on top executes a declaration of the program.
LEMMA TopFacts ==
  ASSUME DInv, Running
  PROVE  /\ Len(stack) \in Nat /\ Len(stack) >= 1 /\ Len(stack) \in 1 .. Len(stack)
         /\ Top \in Activation /\ Settled(Top)
         /\ Executed(Top) \in DOMAIN decls /\ decls[Executed(Top)] \in FnDecl
<1>1. /\ TypeOK /\ StackSettled /\ stack \in Seq(Activation) /\ Len(stack) \in Nat
  BY RunFacts
<1>2. stack # <<>>
  BY DEF Running
<1>3. Len(stack) >= 1 /\ Len(stack) \in 1 .. Len(stack)
  BY <1>1, <1>2
<1>4. Top \in Activation /\ Settled(Top)
  BY <1>1, <1>3 DEF Top, StackSettled
<1>5. Executed(Top) \in DOMAIN decls
  BY <1>4 DEF Settled, IsBest, IsCandidate, Executed
<1>6. decls \in Seq(FnDecl)
  BY <1>1 DEF TypeOK
<1>7. decls[Executed(Top)] \in FnDecl
  BY <1>5, <1>6
<1> QED BY <1>1, <1>3, <1>4, <1>5, <1>7

\* A body makes a call: through the pointer of sema, or by a lookup.
LEMMA BodyCalls ==
  ASSUME DInv, BodyCall
  PROVE  \/ stage = "run" /\ \E f \in Fns : Lookup(f)
         \/ \E a \in Activation : NewActivation(a)
<1>0. IInv /\ TypeOK /\ BoundToBest /\ Stages /\ Ends
  BY RunFacts DEF IInv
<1>1. stage = "run" /\ stack # <<>> /\ Running
  BY DEF BodyCall, Running
<1>2. Executed(Top) \in DOMAIN decls /\ decls[Executed(Top)] \in FnDecl
  BY <1>1, TopFacts
<1>3. PICK k \in DOMAIN decls[Executed(Top)].calls :
        LET f == decls[Executed(Top)].calls[k]
            p == resolved[<<Executed(Top), k>>]
        IN IF p = NULL
             THEN Lookup(f)
             ELSE /\ stack' = Append(stack, Activate(p, f))
                  /\ UNCHANGED <<vars, stage, look, outcome>>
  BY DEF BodyCall
<1> DEFINE v == Executed(Top)
           f == decls[v].calls[k]
           p == resolved[<<v, k>>]
<1>4. f \in Fns /\ <<v, k>> \in Sites
  <2>1. decls[v].calls \in Seq(Fns)
    BY <1>2 DEF FnDecl
  <2>2. f \in Fns
    BY <1>3, <2>1
  <2>3. <<v, k>> \in Sites
    BY <1>2, <1>3 DEF Sites
  <2> QED BY <2>2, <2>3
<1>5. CASE p = NULL
  <2>1. Lookup(f)
    BY <1>3, <1>5
  <2> QED BY <1>1, <1>4, <2>1
<1>6. CASE p # NULL
  <2>1. stack' = Append(stack, Activate(p, f)) /\ UNCHANGED <<vars, stage, look, outcome>>
    BY <1>3, <1>6
  <2>2. Live(p, f) /\ IsBest(Target(p, f), f)
    <3>1. \A s \in Sites : resolved[s] # NULL =>
            Live(resolved[s], decls[s[1]].calls[s[2]])
            /\ IsBest(Target(resolved[s], decls[s[1]].calls[s[2]]), decls[s[1]].calls[s[2]])
      BY <1>0 DEF BoundToBest
    <3> QED BY <1>4, <1>6, <3>1
  <2>3. p \in [block : Nat, idx : Nat]
    BY <1>0, <1>4 DEF TypeOK
  <2>4. Activate(p, f) \in Activation
    BY <1>4, <2>3 DEF Activate, Activation
  <2>5. Settled(Activate(p, f))
    BY <2>2 DEF Settled, Activate
  <2>6. PICK a \in Activation : a = Activate(p, f)
    BY <2>4
  <2>7. Candidates(Main) # {}
    BY <1>0, <1>1 DEF Ends
  <2> QED BY <1>1, <2>1, <2>5, <2>6, <2>7 DEF NewActivation
<1> QED BY <1>5, <1>6

\* Entering and calling keep the invariant.
LEMMA CallSteps == DInv /\ (Enter \/ BodyCall) => DInv'
<1> SUFFICES ASSUME DInv, Enter \/ BodyCall PROVE DInv'
  OBVIOUS
<1>1. CASE \E a \in Activation : NewActivation(a)
  BY <1>1, CallBegins DEF NewActivation
<1>2. CASE stage = "run" /\ \E f \in Fns : Lookup(f)
  <2>1. Stages
    BY RunFacts
  <2> QED BY <1>2, <2>1, LookupBegins DEF Stages
<1> QED BY <1>1, <1>2, Enters, BodyCalls

\* call_fn goes on to the body, to the conditions on exit, or returns.
LEMMA ProgressSteps == DInv /\ (BeginBody \/ EndBody \/ Return) => DInv'
<1> SUFFICES ASSUME DInv, BeginBody \/ EndBody \/ Return PROVE DInv'
  OBVIOUS
<1>0. /\ RunTypeOK /\ Stages /\ Ends /\ StackSettled
      /\ stack \in Seq(Activation) /\ Len(stack) \in Nat
      /\ UNCHANGED vars => /\ Candidates(Main)' = Candidates(Main)
                           /\ had_error' = had_error /\ phase' = phase
  BY RunFacts
<1>1. Running /\ stage = "run" /\ stack # <<>>
  BY DEF BeginBody, EndBody, Return, Running
<1>2. /\ Len(stack) >= 1 /\ Len(stack) \in 1 .. Len(stack) /\ phase = "done" /\ ~had_error
  BY <1>0, <1>1, TopFacts DEF Stages
<1>3. ASSUME NEW place \in {"body", "ensures"}, At(place) PROVE DInv'
  <2>1. /\ stack' = [stack EXCEPT ![Len(stack)].at = place]
        /\ UNCHANGED <<vars, stage, look, outcome>>
    BY <1>3 DEF At
  <2>2. PICK a \in Activation : a = stack[Len(stack)]
    BY <1>0, <1>2
  <2>3. stack' = [stack EXCEPT ![Len(stack)] = [a EXCEPT !.at = place]]
    BY <2>1, <2>2
  <2>4. [a EXCEPT !.at = place] \in Activation
    BY <1>3, <2>2 DEF Activation
  <2>5. [a EXCEPT !.at = place].p = a.p /\ [a EXCEPT !.at = place].fn = a.fn
    BY <2>2 DEF Activation
  <2>6. PICK b \in Activation : b = [a EXCEPT !.at = place]
    BY <2>4
  <2>7. /\ stack' \in Seq(Activation) /\ Len(stack') = Len(stack)
        /\ \A i \in 1 .. Len(stack) : stack'[i] = IF i = Len(stack) THEN b ELSE stack[i]
    BY <1>0, <1>2, <2>3, <2>6, ExceptSeq
  <2>8. Settled(b)
    <3>1. Settled(a)
      BY <1>0, <1>2, <2>2 DEF StackSettled
    <3> QED BY <2>5, <2>6, <3>1 DEF Settled
  <2>9. \A i \in 1 .. Len(stack') : Settled(stack'[i])
    BY <1>0, <2>7, <2>8 DEF StackSettled
  <2>10. stack' # <<>> /\ UNCHANGED vars /\ UNCHANGED <<vars, look>>
    BY <1>2, <2>1, <2>7
  <2>11. Stages' /\ Ends'
    BY <1>0, <1>1, <2>1, <2>10 DEF Stages, Ends
  <2>12. /\ stage' \in {"sema", "lookup", "run", "over"}
         /\ outcome' \in {"none", "rejected", "nomain", "died", "returned"}
         /\ stage' = "over" <=> outcome' # "none"
    BY <1>0, <2>1 DEF RunTypeOK
  <2> QED BY <2>7, <2>9, <2>10, <2>11, <2>12, SameLook, RunFrame
<1>4. CASE BeginBody \/ EndBody
  BY <1>3, <1>4 DEF BeginBody, EndBody
<1>5. CASE Return
  <2>1. /\ stack' = SubSeq(stack, 1, Len(stack) - 1)
        /\ stage' = IF Len(stack) = 1 THEN "over" ELSE stage
        /\ outcome' = IF Len(stack) = 1 THEN "returned" ELSE outcome
        /\ UNCHANGED <<vars, look>>
    BY <1>5 DEF Return
  <2>2. /\ stack' \in Seq(Activation) /\ Len(stack') = Len(stack) - 1
        /\ \A i \in 1 .. Len(stack) - 1 : stack'[i] = stack[i]
    <3>1. Len(stack) - 1 \in 0 .. Len(stack)
      BY <1>0, <1>2
    <3> QED BY <1>0, <2>1, <3>1, Front
  <2>3. CASE Len(stack) = 1
    <3>1. stage' = "over" /\ stack' = <<>> /\ outcome' = "returned"
      BY <2>1, <2>2, <2>3
    <3>2. Ends'
      BY <1>0, <1>1, <1>2, <2>1, <3>1 DEF Ends
    <3> QED BY <1>2, <2>1, <3>1, <3>2, OverStep
  <2>4. CASE Len(stack) # 1
    <3>1. \A i \in 1 .. Len(stack') : Settled(stack'[i])
      BY <1>0, <2>2 DEF StackSettled
    <3>2. stack' # <<>> /\ UNCHANGED vars
      <4>1. Len(stack') # 0
        BY <1>0, <2>2, <2>4
      <4> QED BY <2>1, <4>1
    <3>3. Stages' /\ Ends'
      BY <1>0, <1>1, <2>1, <2>4, <3>2 DEF Stages, Ends
    <3>4. /\ stage' \in {"sema", "lookup", "run", "over"}
          /\ outcome' \in {"none", "rejected", "nomain", "died", "returned"}
          /\ stage' = "over" <=> outcome' # "none"
      BY <1>0, <2>1, <2>4 DEF RunTypeOK
    <3> QED BY <2>1, <2>2, <3>1, <3>2, <3>3, <3>4, SameLook, RunFrame
  <2> QED BY <2>3, <2>4
<1> QED BY <1>4, <1>5

\* Every step of a run keeps the invariant.
LEMMA RunStep == DInv /\ [DispatchNext]_allvars => DInv'
<1> SUFFICES ASSUME DInv, [DispatchNext]_allvars PROVE DInv'
  OBVIOUS
<1>1. CASE Sema
  BY <1>1, SemaStep
<1>2. CASE RunNext
  BY <1>2, StopSteps, LookupSteps, LookupStepInv, CallSteps, ProgressSteps
     DEF RunNext
<1>3. CASE UNCHANGED allvars
  <2>1. UNCHANGED <<vars, look>> /\ UNCHANGED vars /\ UNCHANGED <<stage, stack, outcome>>
    BY <1>3 DEF allvars, run
  <2>2. /\ RunTypeOK /\ Stages /\ Ends /\ StackSettled
        /\ UNCHANGED vars => /\ Candidates(Main)' = Candidates(Main)
                             /\ had_error' = had_error /\ phase' = phase
    BY RunFacts
  <2>3. Stages' /\ Ends'
    BY <2>1, <2>2 DEF Stages, Ends
  <2>4. /\ stage' \in {"sema", "lookup", "run", "over"}
        /\ outcome' \in {"none", "rejected", "nomain", "died", "returned"}
        /\ stage' = "over" <=> outcome' # "none"
        /\ stack' \in Seq(Activation)
        /\ \A i \in 1 .. Len(stack') : Settled(stack'[i])
    BY <2>1, <2>2 DEF RunTypeOK, StackSettled
  <2> QED BY <2>1, <2>3, <2>4, SameLook, RunFrame
<1> QED BY <1>1, <1>2, <1>3 DEF DispatchNext

\* It holds to begin with.
LEMMA InitDInv == DispatchInit => DInv
<1> SUFFICES ASSUME DispatchInit PROVE DInv
  OBVIOUS
<1>1. IInv /\ VInv
  BY InitInv, StartVInv DEF DispatchInit, Init
<1>2. TypeOK /\ RunInit
  BY <1>1 DEF IInv, DispatchInit
<1> QED BY <1>1, <1>2, RunStart DEF DInv

\* The invariant holds in every reachable state of a run.
THEOREM DispatchInvariance == DispatchSpec => []DInv
  BY InitDInv, RunStep, PTL DEF DispatchSpec
-----------------------------------------------------------------------------
\* A function with a candidate has a best one.
LEMMA BestExists ==
  ASSUME TypeOK, NEW f, Candidates(f) # {}
  PROVE  \E v \in DOMAIN decls : IsBest(v, f)
<1> DEFINE N == Len(decls)
           BestUpTo(n, v) == /\ v \in 1 .. n /\ IsCandidate(v, f)
                             /\ \A w \in 1 .. n : IsCandidate(w, f) => Better(v, w)
           S == {n \in Nat : n <= N /\ (\E v \in 1 .. n : IsCandidate(v, f))
                               => \E v \in 1 .. n : BestUpTo(n, v)}
<1>1. N \in Nat /\ DOMAIN decls = 1 .. N
  BY DEF TypeOK
<1>2. \A v \in 1 .. N : Score(decls[v].attrs) \in Nat
  <2> SUFFICES ASSUME NEW v \in 1 .. N PROVE Score(decls[v].attrs) \in Nat
    OBVIOUS
  <2>1. decls[v] \in FnDecl
    BY DEF TypeOK
  <2> QED BY <2>1, ScoreType DEF FnDecl
<1>3. 0 \in S
  OBVIOUS
<1>4. ASSUME NEW n \in Nat, n \in S, n + 1 <= N, \E v \in 1 .. n + 1 : IsCandidate(v, f)
      PROVE  \E v \in 1 .. n + 1 : BestUpTo(n + 1, v)
  <2> DEFINE x == n + 1
  <2>1. \A w \in 1 .. n + 1 : w \in 1 .. n \/ w = x
    OBVIOUS
  <2>2. x \in 1 .. n + 1 /\ x \in 1 .. N /\ n <= N /\ 1 .. n \subseteq 1 .. N
    BY <1>1, <1>4
  <2>3. CASE \A v \in 1 .. n : ~IsCandidate(v, f)
    <3>1. IsCandidate(x, f)
      BY <1>4, <2>1, <2>3
    <3>2. Better(x, x)
      BY <1>2, <2>2 DEF Better
    <3> QED BY <2>1, <2>2, <2>3, <3>1, <3>2
  <2>4. CASE \E v \in 1 .. n : IsCandidate(v, f)
    <3>1. PICK u \in 1 .. n : BestUpTo(n, u)
      BY <1>4, <2>2, <2>4
    <3>2. u \in 1 .. n + 1 /\ u < x
      BY <3>1
    <3>3. CASE ~IsCandidate(x, f)
      BY <2>1, <3>1, <3>2, <3>3
    <3>4. CASE IsCandidate(x, f) /\ Score(decls[x].attrs) > Score(decls[u].attrs)
      <4>1. \A w \in 1 .. n : IsCandidate(w, f) => Better(x, w)
        BY <1>2, <2>2, <3>1, <3>4, SMTT(60) DEF Better
      <4>2. Better(x, x)
        BY <1>2, <2>2 DEF Better
      <4> QED BY <2>1, <2>2, <3>4, <4>1, <4>2
    <3>5. CASE IsCandidate(x, f) /\ ~(Score(decls[x].attrs) > Score(decls[u].attrs))
      <4>1. Better(u, x)
        BY <1>2, <2>2, <3>2, <3>5 DEF Better
      <4> QED BY <2>1, <3>1, <3>2, <4>1
    <3> QED BY <3>3, <3>4, <3>5
  <2> QED BY <2>3, <2>4
<1>5. \A n \in Nat : n \in S => n + 1 \in S
  <2> SUFFICES ASSUME NEW n \in Nat, n \in S PROVE n + 1 \in S
    OBVIOUS
  <2>1. (n + 1 <= N /\ \E v \in 1 .. n + 1 : IsCandidate(v, f))
          => \E v \in 1 .. n + 1 : BestUpTo(n + 1, v)
    <3> HIDE DEF S, BestUpTo
    <3> QED BY <1>4
  <2>2. n + 1 \in Nat
    OBVIOUS
  <2> QED BY ONLY <2>1, <2>2
<1>6. N \in S
  <2> HIDE DEF S
  <2> QED BY <1>1, <1>3, <1>5, SetInduction
<1>7. \E v \in 1 .. N : IsCandidate(v, f)
  BY <1>1 DEF Candidates
<1>8. PICK v \in 1 .. N : BestUpTo(N, v)
  BY <1>1, <1>6, <1>7
<1> QED BY <1>1, <1>8 DEF IsBest

\* There is only one best variant, and Selected is that one.
LEMMA BestIsSelected ==
  ASSUME TypeOK, NEW f
  PROVE  /\ Candidates(f) = {} => Selected(f) = 0
         /\ Candidates(f) # {} => Selected(f) \in Nat \ {0}
         /\ \A v : IsBest(v, f) => Selected(f) = v /\ Candidates(f) # {}
<1>1. DOMAIN decls = 1 .. Len(decls) /\ Len(decls) \in Nat
  BY DEF TypeOK
<1>2. \A v \in DOMAIN decls : Score(decls[v].attrs) \in Nat
  <2> SUFFICES ASSUME NEW v \in DOMAIN decls PROVE Score(decls[v].attrs) \in Nat
    OBVIOUS
  <2>1. decls[v] \in FnDecl
    BY DEF TypeOK
  <2> QED BY <2>1, ScoreType DEF FnDecl
<1>3. ASSUME NEW v, NEW w, IsBest(v, f), IsBest(w, f) PROVE v = w
  <2>1. v \in 1 .. Len(decls) /\ w \in 1 .. Len(decls) /\ Better(v, w) /\ Better(w, v)
    BY <1>1, <1>3 DEF IsBest, IsCandidate
  <2> QED BY <1>1, <1>2, <2>1 DEF Better
<1>4. ASSUME Candidates(f) # {}
      PROVE  Selected(f) \in DOMAIN decls /\ IsBest(Selected(f), f)
  <2>1. \E v \in DOMAIN decls : IsBest(v, f)
    BY <1>4, BestExists
  <2> QED BY <1>4, <2>1 DEF Selected
<1>5. \A v : IsBest(v, f) => Candidates(f) # {}
  BY DEF IsBest, Candidates, IsCandidate
<1>6. Candidates(f) = {} => Selected(f) = 0
  BY DEF Selected
<1> QED BY <1>1, <1>3, <1>4, <1>5, <1>6
-----------------------------------------------------------------------------
-----------------------------------------------------------------------------
(* The run implements OneImplementation.                                     *)

Impl == [f \in Fns |-> Selected(f)]
Runs == [i \in DOMAIN stack |-> Executed(stack[i])]
RunStatus == IF stage = "over" THEN "over" ELSE IF stack = <<>> THEN "ready" ELSE "running"

\* What Selected and Runs are, said of one state so that it can be said of the
\* next one too.
SelectedIs == \A f : /\ Candidates(f) = {} => Selected(f) = 0
                     /\ \A v : IsBest(v, f) => Selected(f) = v
RunsAre == /\ Runs \in Seq(Nat) /\ Len(Runs) = Len(stack) /\ Len(stack) \in Nat
           /\ \A i \in 1 .. Len(stack) : Runs[i] = Selected(stack[i].fn)
           /\ stack = <<>> <=> Runs = <<>>

\* Selected is the best variant.
LEMMA SelectedFacts == TypeOK => SelectedIs
  BY BestIsSelected DEF SelectedIs

\* What a function stands for hangs on the program and the attributes only.
LEMMA SelectedStable ==
  ASSUME TypeOK, TypeOK', UNCHANGED <<decls, active>>
  PROVE  \A f : Selected(f)' = Selected(f)
<1> SUFFICES ASSUME NEW f PROVE Selected(f)' = Selected(f)
  OBVIOUS
<1>1. /\ Candidates(f)' = Candidates(f)
      /\ \A v : IsBest(v, f)' <=> IsBest(v, f)
  BY DEF Candidates, IsBest, IsCandidate, Better
<1>2. /\ (Candidates(f) = {})' => (Selected(f) = 0)'
      /\ \A v : IsBest(v, f)' => (Selected(f))' = v
  <2>1. TypeOK' => SelectedIs'
    BY SelectedFacts, PTL
  <2> QED BY <2>1 DEF SelectedIs
<1>3. CASE Candidates(f) = {}
  <2>1. Selected(f) = 0
    BY <1>3, BestIsSelected
  <2> QED BY <1>1, <1>2, <1>3, <2>1
<1>4. CASE Candidates(f) # {}
  <2>1. PICK v \in DOMAIN decls : IsBest(v, f)
    BY <1>4, BestExists
  <2>2. Selected(f) = v
    BY <2>1, BestIsSelected
  <2> QED BY <1>1, <1>2, <2>1, <2>2
<1> QED BY <1>3, <1>4

\* A settled activation executes what its function stands for.
LEMMA SettledRuns ==
  ASSUME TypeOK, NEW a, Settled(a)
  PROVE  Executed(a) = Selected(a.fn) /\ Selected(a.fn) \in Nat \ {0}
BY BestIsSelected DEF Settled, Executed

\* The activations as a sequence of variants.
LEMMA RunsFacts == DInv => TypeOK /\ RunsAre
<1> SUFFICES ASSUME DInv PROVE TypeOK /\ RunsAre
  OBVIOUS
<1>1. /\ TypeOK /\ StackSettled /\ stack \in Seq(Activation) /\ Len(stack) \in Nat
  BY RunFacts
<1>2. DOMAIN stack = 1 .. Len(stack)
  BY <1>1
<1>3. \A i \in 1 .. Len(stack) : /\ Executed(stack[i]) = Selected(stack[i].fn)
                                 /\ Executed(stack[i]) \in Nat
  BY <1>1, SettledRuns DEF StackSettled
<1>4. Runs = [i \in 1 .. Len(stack) |-> Executed(stack[i])]
  BY <1>2 DEF Runs
<1>5. Runs \in Seq(Nat) /\ Len(Runs) = Len(stack)
  BY <1>1, <1>3, <1>4
<1>6. stack = <<>> <=> Runs = <<>>
  BY <1>1, <1>5
<1> QED BY <1>1, <1>3, <1>4, <1>5, <1>6 DEF RunsAre

\* An activation more, an activation less, and the same activations.
LEMMA RunsStep ==
  ASSUME DInv, DInv', UNCHANGED <<decls, active>>
  PROVE  /\ Impl' = Impl
         /\ \A a \in Activation :
              stack' = Append(stack, a) => Runs' = Append(Runs, Selected(a.fn))
         /\ (Len(stack) >= 1 /\ stack' = SubSeq(stack, 1, Len(stack) - 1))
              => Runs' = SubSeq(Runs, 1, Len(Runs) - 1)
         /\ (/\ Len(stack') = Len(stack)
             /\ \A i \in 1 .. Len(stack) : stack'[i].fn = stack[i].fn) => Runs' = Runs
<1>0. /\ TypeOK /\ stack \in Seq(Activation) /\ Len(stack) \in Nat /\ TypeOK'
  <2>1. DInv' => TypeOK' /\ RunsAre'
    BY RunsFacts, PTL
  <2> QED BY <2>1, RunFacts
<1>1. \A f : Selected(f)' = Selected(f)
  BY <1>0, SelectedStable
<1>2. Impl' = Impl
  BY <1>1 DEF Impl
<1>3. /\ Runs \in Seq(Nat) /\ Len(Runs) = Len(stack)
      /\ \A i \in 1 .. Len(stack) : Runs[i] = Selected(stack[i].fn)
  BY RunsFacts DEF RunsAre
<1>4. /\ Runs' \in Seq(Nat) /\ Len(Runs') = Len(stack') /\ Len(stack') \in Nat
      /\ \A i \in 1 .. Len(stack') : Runs'[i] = Selected(stack'[i].fn)
  <2>0. RunsAre'
    BY RunsFacts, PTL
  <2>1. /\ Runs' \in Seq(Nat) /\ Len(Runs') = Len(stack') /\ Len(stack') \in Nat
        /\ \A i \in 1 .. Len(stack') : Runs'[i] = (Selected(stack[i].fn))'
    BY <2>0 DEF RunsAre
  <2>2. ASSUME NEW i \in 1 .. Len(stack') PROVE Runs'[i] = Selected(stack'[i].fn)
    <3>1. PICK f : f = stack'[i].fn
      OBVIOUS
    <3>2. (Selected(stack[i].fn))' = (Selected(f))'
      BY <3>1 DEF Selected, Candidates, IsCandidate, IsBest
    <3> QED BY <1>1, <2>1, <3>1, <3>2
  <2> QED BY <2>1, <2>2
<1>5. ASSUME NEW a \in Activation, stack' = Append(stack, a)
      PROVE  Runs' = Append(Runs, Selected(a.fn))
  <2> DEFINE s == Append(Runs, Selected(a.fn))
  <2>1. /\ Len(stack') = Len(stack) + 1 /\ stack'[Len(stack) + 1] = a
        /\ \A i \in 1 .. Len(stack) : stack'[i] = stack[i]
    BY <1>0, <1>5, AppendProperties
  <2>2. Selected(a.fn) \in Nat
    BY <1>0, BestIsSelected
  <2>3. /\ s \in Seq(Nat) /\ Len(s) = Len(Runs) + 1 /\ s[Len(Runs) + 1] = Selected(a.fn)
        /\ \A i \in 1 .. Len(Runs) : s[i] = Runs[i]
    BY <1>3, <2>2, AppendProperties
  <2>4. \A i \in 1 .. Len(stack) + 1 : i \in 1 .. Len(stack) \/ i = Len(stack) + 1
    BY <1>0
  <2> HIDE DEF s
  <2>5. \A i \in 1 .. Len(Runs') : Runs'[i] = s[i]
    BY <1>3, <1>4, <2>1, <2>3, <2>4, SMTT(60)
  <2>6. Runs' = s
    BY <1>3, <1>4, <2>1, <2>3, <2>5, SeqEqual
  <2> QED BY <2>6 DEF s
<1>6. ASSUME Len(stack) >= 1, stack' = SubSeq(stack, 1, Len(stack) - 1)
      PROVE  Runs' = SubSeq(Runs, 1, Len(Runs) - 1)
  <2> DEFINE m == Len(stack) - 1
             s == SubSeq(Runs, 1, Len(Runs) - 1)
  <2>1. m \in 0 .. Len(stack) /\ m \in 0 .. Len(Runs)
    BY <1>0, <1>3, <1>6
  <2>2. Len(stack') = m /\ \A i \in 1 .. m : stack'[i] = stack[i]
    BY <1>0, <1>6, <2>1, Front
  <2>3. s \in Seq(Nat) /\ Len(s) = m /\ \A i \in 1 .. m : s[i] = Runs[i]
    <3>1. s = SubSeq(Runs, 1, m)
      BY <1>3
    <3> QED BY <1>3, <2>1, <3>1, Front
  <2>4. \A i \in 1 .. m : i \in 1 .. Len(stack)
    BY <1>0
  <2> HIDE DEF s, m
  <2>5. Len(Runs') = Len(s) /\ \A i \in 1 .. Len(Runs') : Runs'[i] = s[i]
    BY <1>3, <1>4, <2>2, <2>3, <2>4
  <2>6. Runs' = s
    BY <1>4, <2>3, <2>5, SeqEqual
  <2> QED BY <2>6 DEF s
<1>7. ASSUME Len(stack') = Len(stack), \A i \in 1 .. Len(stack) : stack'[i].fn = stack[i].fn
      PROVE  Runs' = Runs
  BY <1>3, <1>4, <1>7, SeqEqual
<1> QED BY <1>2, <1>5, <1>6, <1>7

\* What a function stands for is known before the run and stays.
LEMMA ImplKept ==
  ASSUME DInv, DInv', [DispatchNext]_allvars
  PROVE  Impl' = Impl /\ UNCHANGED <<decls, active>>
<1>1. UNCHANGED <<decls, active>>
  <2>1. CASE Sema
    BY <2>1 DEF Sema, SemaNext, Collect, EndCollect, CallKnown, CallUnknown, SelectStep,
                SelectDone, NextVariant, NextBucket, Finish
  <2>2. CASE RunNext
    BY <2>2, RunKeepsAnalysis DEF vars
  <2>3. CASE UNCHANGED allvars
    BY <2>3 DEF allvars, vars
  <2> QED BY <2>1, <2>2, <2>3 DEF DispatchNext
<1> QED BY <1>1, RunsStep

\* Starting, calling, returning and stopping, said of the activations.
Starts ==
  RunStatus = "ready" /\ Impl[Main] # 0 /\ Runs' = <<Impl[Main]>> /\ RunStatus' = "running"
Calls(f) == /\ RunStatus = "running" /\ Impl[f] # 0
            /\ Runs' = Append(Runs, Impl[f]) /\ RunStatus' = RunStatus
Returns == /\ RunStatus = "running" /\ Len(Runs) > 1
           /\ Runs' = SubSeq(Runs, 1, Len(Runs) - 1) /\ RunStatus' = RunStatus
Stops == RunStatus # "over" /\ Runs' = <<>> /\ RunStatus' = "over"
Stutters == Runs' = Runs /\ RunStatus' = RunStatus

\* An activation that call_fn begins is the start of the run or a call.
LEMMA CallMaps ==
  ASSUME DInv, DInv', UNCHANGED <<decls, active>>, NEW a \in Activation, NewActivation(a)
  PROVE  Starts \/ \E f \in Fns : Calls(f)
<1>1. /\ TypeOK /\ stack \in Seq(Activation) /\ Len(stack) \in Nat
      /\ Runs \in Seq(Nat) /\ (stack = <<>> <=> Runs = <<>>)
  BY RunFacts, RunsFacts DEF RunsAre
<1>2. Runs' = Append(Runs, Selected(a.fn))
  BY RunsStep DEF NewActivation
<1>3. a.fn \in Fns /\ Impl[a.fn] = Selected(a.fn) /\ Impl[a.fn] \in Nat \ {0}
  BY <1>1, SettledRuns DEF Activation, Impl, NewActivation
<1>4. stack' # <<>>
  BY <1>1 DEF NewActivation
<1>5. /\ RunStatus' = "running"
      /\ RunStatus = IF stack = <<>> THEN "ready" ELSE "running"
  BY <1>4 DEF RunStatus, NewActivation
<1>6. CASE stack = <<>>
  <2>1. Runs' = <<Impl[Main]>>
    BY <1>1, <1>2, <1>3, <1>6 DEF NewActivation
  <2> QED BY <1>3, <1>5, <1>6, <2>1 DEF Starts, NewActivation
<1>7. CASE stack # <<>>
  BY <1>2, <1>3, <1>5, <1>7 DEF Calls
<1> QED BY <1>6, <1>7

\* Every other step is a stop, a return or nothing.
LEMMA OtherMaps ==
  ASSUME DInv, DInv', UNCHANGED <<decls, active>>
  PROVE  /\ stack' = <<>> /\ stage # "over" /\ stage' = "over" => Stops
         /\ (/\ Len(stack') = Len(stack) /\ stage # "over" /\ stage' # "over"
             /\ \A i \in 1 .. Len(stack) : stack'[i].fn = stack[i].fn) => Stutters
         /\ (/\ Len(stack) > 1 /\ stack' = SubSeq(stack, 1, Len(stack) - 1)
             /\ stage # "over" /\ stage' = stage) => Returns
<1>0. DInv' => RunsAre'
  BY RunsFacts, PTL
<1>1. /\ Runs \in Seq(Nat) /\ Len(Runs) = Len(stack) /\ Len(stack) \in Nat
      /\ stack \in Seq(Activation) /\ (stack' = <<>> => Runs' = <<>>)
      /\ stack' \in Seq(Activation)
  <2>1. DInv' => RInv' /\ RunsAre'
    BY <1>0 DEF DInv
  <2> QED BY <2>1, RunFacts, RunsFacts DEF RunsAre, RInv, RunTypeOK
<1>2. ASSUME stack' = <<>>, stage # "over", stage' = "over" PROVE Stops
  BY <1>1, <1>2 DEF Stops, RunStatus
<1>3. ASSUME Len(stack') = Len(stack), stage # "over", stage' # "over",
             \A i \in 1 .. Len(stack) : stack'[i].fn = stack[i].fn
      PROVE  Stutters
  <2>1. Runs' = Runs
    BY <1>3, RunsStep
  <2>2. stack' = <<>> <=> stack = <<>>
    BY <1>1, <1>3
  <2> QED BY <1>3, <2>1, <2>2 DEF Stutters, RunStatus
<1>4. ASSUME Len(stack) > 1, stack' = SubSeq(stack, 1, Len(stack) - 1), stage # "over",
             stage' = stage
      PROVE  Returns
  <2>1. Len(stack) >= 1 /\ Len(stack) - 1 \in 0 .. Len(stack)
    BY <1>1, <1>4
  <2>2. Runs' = SubSeq(Runs, 1, Len(Runs) - 1) /\ Len(stack') = Len(stack) - 1
    BY <1>1, <1>4, <2>1, RunsStep, Front
  <2>3. stack # <<>> /\ stack' # <<>>
    <3>1. Len(stack) # 0 /\ Len(stack') # 0
      BY <1>1, <1>4, <2>2
    <3> QED BY ONLY <3>1, EmptySeq
  <2> QED BY <1>1, <1>4, <2>2, <2>3 DEF Returns, RunStatus
<1> QED BY <1>2, <1>3, <1>4

\* A step of a run is a step of the promise, or nothing to it.
LEMMA StepMaps ==
  ASSUME DInv, DInv', [DispatchNext]_allvars
  PROVE  Starts \/ (\E f \in Fns : Calls(f)) \/ Returns \/ Stops \/ Stutters
<1>0. /\ UNCHANGED <<decls, active>>
      /\ stack \in Seq(Activation) /\ Len(stack) \in Nat /\ Stages
  BY ImplKept, RunFacts
<1>1. CASE Reject \/ LookupFails \/ Abort
  <2>1. stage # "over" /\ stage' = "over" /\ stack' = <<>>
    BY <1>0, <1>1 DEF Reject, LookupFails, Abort, Die, Running, Stages
  <2> QED BY <1>0, <2>1, OtherMaps
<1>2. CASE Enter
  BY <1>0, <1>2, Enters, CallMaps
<1>3. ASSUME stack' = stack, stage # "over", stage' # "over" PROVE Stutters
  BY <1>0, <1>3, OtherMaps
<1>4. CASE BodyCall
  <2>1. CASE \E a \in Activation : NewActivation(a)
    BY <1>0, <2>1, CallMaps
  <2>2. CASE stage = "run" /\ \E f \in Fns : Lookup(f)
    BY <1>3, <2>2 DEF Lookup
  <2> QED BY <1>4, <2>1, <2>2, BodyCalls
<1>5. CASE Sema \/ FindMain \/ LookupStep \/ CondCall
  BY <1>3, <1>5 DEF Sema, run, FindMain, LookupStep, CondCall, Lookup, Running
<1>6. CASE BeginBody \/ EndBody
  <2>1. PICK place \in {"body", "ensures"} : At(place)
    BY <1>6 DEF BeginBody, EndBody
  <2>2. stage # "over" /\ stage' # "over" /\ Running
    BY <1>6, <2>1 DEF BeginBody, EndBody, Running, At
  <2>3. Len(stack) >= 1 /\ Len(stack) \in 1 .. Len(stack)
    BY <2>2, TopFacts
  <2>4. PICK a \in Activation : a = stack[Len(stack)]
    BY <1>0, <2>3
  <2>5. stack' = [stack EXCEPT ![Len(stack)] = [a EXCEPT !.at = place]]
    BY <2>1, <2>4 DEF At
  <2>6. [a EXCEPT !.at = place] \in Activation /\ [a EXCEPT !.at = place].fn = a.fn
    BY <2>4 DEF Activation
  <2>7. PICK b \in Activation : b = [a EXCEPT !.at = place] /\ b.fn = a.fn
    BY <2>6
  <2>8. /\ Len(stack') = Len(stack)
        /\ \A i \in 1 .. Len(stack) : stack'[i] = IF i = Len(stack) THEN b ELSE stack[i]
    BY <1>0, <2>3, <2>5, <2>7, ExceptSeq
  <2>9. \A i \in 1 .. Len(stack) : stack'[i].fn = stack[i].fn
    BY <2>4, <2>7, <2>8
  <2> QED BY <1>0, <2>2, <2>8, <2>9, OtherMaps
<1>7. CASE Return
  <2>1. /\ Running /\ stack' = SubSeq(stack, 1, Len(stack) - 1)
        /\ stage' = (IF Len(stack) = 1 THEN "over" ELSE stage) /\ stage = "run"
    BY <1>7 DEF Return, Running
  <2>2. CASE Len(stack) = 1
    <3>1. Len(stack) - 1 \in 0 .. Len(stack)
      BY <1>0, <2>2
    <3>2. Len(stack') = 0 /\ stack' \in Seq(Activation)
      BY <1>0, <2>1, <2>2, <3>1, Front
    <3>3. stack' = <<>>
      BY <3>2
    <3> QED BY <1>0, <2>1, <2>2, <3>3, OtherMaps
  <2>3. CASE Len(stack) # 1
    <3>0. Len(stack) >= 1
      BY <2>1, TopFacts
    <3>1. Len(stack) > 1
      <4>1. PICK n \in Nat : n = Len(stack)
        BY <1>0
      <4>2. n # 1 /\ n >= 1
        BY <2>3, <3>0, <4>1
      <4>3. n > 1
        BY ONLY <4>2
      <4> QED BY <4>1, <4>3
    <3> QED BY <1>0, <2>1, <2>3, <3>1, OtherMaps
  <2> QED BY <2>2, <2>3
<1>8. CASE UNCHANGED allvars
  BY <1>0, <1>8, RunsStep DEF allvars, run, Stutters, RunStatus
<1> QED BY <1>1, <1>2, <1>4, <1>5, <1>6, <1>7, <1>8 DEF DispatchNext, RunNext

\* The run starts ready, with every function standing for something or nothing.
LEMMA InitMaps ==
  ASSUME DInv, RunInit
  PROVE  Impl \in [Fns -> (Nat \ {0}) \cup {0}] /\ Runs = <<>> /\ RunStatus = "ready"
<1>1. TypeOK /\ stack = <<>> /\ stage = "sema" /\ Runs = <<>>
  BY RunsFacts DEF RunInit, RunsAre
<1>2. \A f \in Fns : Selected(f) \in (Nat \ {0}) \cup {0}
  BY <1>1, BestIsSelected
<1> QED BY <1>1, <1>2 DEF Impl, RunStatus

\* The state functions that the refinement substitutes.
LEMMA MappedStep ==
  ASSUME DInv, DInv', [DispatchNext]_allvars
  PROVE  [Promised!Next]_(Promised!vars)
<1>1. Impl' = Impl
  BY ImplKept
<1>2. CASE Starts
  BY <1>1, <1>2 DEF Starts, Impl, Runs, RunStatus, Promised!Next, Promised!Start
<1>3. CASE \E f \in Fns : Calls(f)
  BY <1>1, <1>3 DEF Calls, Impl, Runs, RunStatus, Promised!Next, Promised!Call
<1>4. CASE Returns
  BY <1>1, <1>4 DEF Returns, Impl, Runs, RunStatus, Promised!Next, Promised!Return
<1>5. CASE Stops
  BY <1>1, <1>5 DEF Stops, Impl, Runs, RunStatus, Promised!Next, Promised!Stop
<1>6. CASE Stutters
  BY <1>1, <1>6 DEF Stutters, Impl, Runs, RunStatus, Promised!vars
<1> QED BY <1>2, <1>3, <1>4, <1>5, <1>6, StepMaps

\* A run keeps the promise of one implementation per function.
THEOREM OneImplementationKept == DispatchSpec => SingleImplementation
<1>1. DispatchInit => Promised!Init
  <2> SUFFICES ASSUME DispatchInit PROVE Promised!Init
    OBVIOUS
  <2>1. DInv /\ RunInit
    BY InitDInv DEF DispatchInit
  <2> QED BY <2>1, InitMaps DEF Promised!Init, Impl, Runs, RunStatus
<1>2. DInv /\ DInv' /\ [DispatchNext]_allvars => [Promised!Next]_(Promised!vars)
  BY MappedStep
<1> QED BY <1>1, <1>2, DispatchInvariance, PTL DEF DispatchSpec, SingleImplementation, Promised!Spec

\* What a settled activation has.
LEMMA ContractsGiven == DInv => ContractsFound
<1> SUFFICES ASSUME DInv PROVE ContractsFound
  OBVIOUS
<1>1. StackSettled /\ DOMAIN stack = 1 .. Len(stack)
  BY RunFacts
<1> QED BY <1>1 DEF StackSettled, Settled, ContractsFound, HasContract

\* Every activation of a run finds its contract.
THEOREM ContractsFoundInRuns == DispatchSpec => []ContractsFound
  BY ContractsGiven, DispatchInvariance, PTL
------------------------------------------------------------------------------

(* The arguments.                                                            *)

\* parse_attr_args goes through the arguments once and comes back with a set
\* of attribute names.
LEMMA ParsedAttrs ==
  ASSUME NEW args \in Seq(STRING)
  PROVE  /\ parse_attr_args(args).attrs \subseteq STRING
         /\ parse_attr_args(args).file \in STRING
<1> DEFINE M == Len(args) + 2
           Rec == [attrs : SUBSET STRING, file : STRING]
           B(g, i) ==
             IF i > Len(args) THEN [attrs |-> {}, file |-> NoFile]
             ELSE LET named == args[i] = "--attr" /\ i < Len(args)
                      rest == g[IF named THEN i + 2 ELSE i + 1]
                  IN CASE named -> [rest EXCEPT !.attrs = @ \cup {args[i + 1]}]
                       [] args[i] = "--debug" -> [rest EXCEPT !.attrs = @ \cup {"debug"}]
                       [] args[i] = "--release" -> [rest EXCEPT !.attrs = @ \cup {"release"}]
                       [] OTHER -> IF rest.file = NoFile THEN [rest EXCEPT !.file = args[i]]
                                   ELSE rest
           From == CHOOSE g : g = [i \in 1 .. M |-> B(g, i)]
<1>1. parse_attr_args(args) = From[1]
  BY DEF parse_attr_args
<1>2. Len(args) \in Nat /\ M \in Nat /\ M >= 2 /\ \A i \in 1 .. Len(args) : args[i] \in STRING
  OBVIOUS
<1>0. [attrs |-> {}, file |-> NoFile] \in Rec
  <2>1. NoFile \in STRING /\ {} \in SUBSET STRING
    BY ONLY StringAssumption
  <2> HIDE DEF B, From
  <2> QED BY ONLY <2>1
<1>3. ASSUME NEW g, NEW i \in 1 .. M, \A k \in 1 .. M : k > i => g[k] \in Rec
      PROVE  B(g, i) \in Rec
  <2>1. CASE i > Len(args)
    <3>1. B(g, i) = [attrs |-> {}, file |-> NoFile]
      BY <2>1
    <3> HIDE DEF B, Rec, From
    <3> QED BY <1>0, <3>1
  <2>2. CASE ~(i > Len(args))
    <3> DEFINE named == args[i] = "--attr" /\ i < Len(args)
               k == IF named THEN i + 2 ELSE i + 1
    <3>1. k \in 1 .. M /\ k > i
      BY <1>2, <2>2
    <3>2. PICK rest \in Rec : rest = g[k]
      BY <1>3, <3>1
    <3>3. args[i] \in STRING /\ (named => args[i + 1] \in STRING)
      BY <1>2, <2>2
    <3>4. B(g, i) = CASE named -> [rest EXCEPT !.attrs = @ \cup {args[i + 1]}]
                       [] args[i] = "--debug" -> [rest EXCEPT !.attrs = @ \cup {"debug"}]
                       [] args[i] = "--release" -> [rest EXCEPT !.attrs = @ \cup {"release"}]
                       [] OTHER -> IF rest.file = NoFile THEN [rest EXCEPT !.file = args[i]]
                                   ELSE rest
      BY <2>2, <3>2
    <3>a. ASSUME NEW x \in STRING
          PROVE  [rest EXCEPT !.attrs = @ \cup {x}] \in Rec /\ [rest EXCEPT !.file = x] \in Rec
      <4>1. PICK s \in SUBSET STRING : s = rest.attrs \cup {x}
        BY <3>2, <3>a
      <4>2. [rest EXCEPT !.attrs = s] \in Rec /\ [rest EXCEPT !.file = x] \in Rec
        BY ONLY <3>2, <3>a
      <4> QED BY <4>1, <4>2
    <3>b. "debug" \in STRING /\ "release" \in STRING
      BY ONLY StringAssumption
    <3>5. named => [rest EXCEPT !.attrs = @ \cup {args[i + 1]}] \in Rec
      <4> HIDE DEF Rec
      <4> QED BY <3>a, <3>3
    <3>6. /\ [rest EXCEPT !.attrs = @ \cup {"debug"}] \in Rec
          /\ [rest EXCEPT !.attrs = @ \cup {"release"}] \in Rec
          /\ [rest EXCEPT !.file = args[i]] \in Rec
      <4> HIDE DEF Rec
      <4> QED BY <3>3, <3>a, <3>b
    <3> HIDE DEF B, k, named, Rec
    <3> QED BY <3>2, <3>4, <3>5, <3>6
  <2> QED BY <2>1, <2>2
<1>4. ASSUME NEW g, NEW h, NEW i \in 1 .. M, \A k \in 1 .. M : k > i => g[k] = h[k]
      PROVE  B(g, i) = B(h, i)
  <2>1. CASE i > Len(args)
    BY <2>1
  <2>2. CASE ~(i > Len(args))
    <3>1. g[i + 1] = h[i + 1] /\ g[i + 2] = h[i + 2]
      BY <1>2, <1>4, <2>2
    <3> QED BY <3>1
  <2> QED BY <2>1, <2>2
<1> HIDE DEF B, Rec
<1>5. \E g \in [1 .. M -> Rec] : \A i \in 1 .. M : g[i] = B(g, i)
  <2> DEFINE S == {n \in Nat : n <= M => \E g \in [1 .. M -> Rec] :
                                 \A i \in 1 .. M : i > M - n => g[i] = B(g, i)}
  <2>1. 0 \in S
    <3>1. PICK r \in Rec : TRUE
      BY <1>0
    <3>2. [i \in 1 .. M |-> r] \in [1 .. M -> Rec]
      OBVIOUS
    <3>3. \A i \in 1 .. M : ~(i > M - 0)
      BY <1>2
    <3> QED BY <3>2, <3>3
  <2>2. ASSUME NEW n \in Nat, n \in S PROVE n + 1 \in S
    <3> SUFFICES ASSUME n + 1 <= M
                 PROVE  \E g \in [1 .. M -> Rec] :
                          \A i \in 1 .. M : i > M - (n + 1) => g[i] = B(g, i)
      OBVIOUS
    <3>1. PICK g \in [1 .. M -> Rec] : \A i \in 1 .. M : i > M - n => g[i] = B(g, i)
      BY <1>2, <2>2
    <3> DEFINE j == M - n
    <3>2. j \in 1 .. M /\ \A i \in 1 .. M : i > M - (n + 1) => i = j \/ i > j
      BY <1>2
    <3>3. B(g, j) \in Rec
      BY <1>3, <3>1, <3>2
    <3>4. PICK h \in [1 .. M -> Rec] : h = [g EXCEPT ![j] = B(g, j)]
      BY <3>1, <3>2, <3>3
    <3>5. h[j] = B(g, j) /\ \A i \in 1 .. M : i > j => h[i] = g[i]
      BY <1>2, <3>1, <3>2, <3>4
    <3>6. ASSUME NEW i \in 1 .. M, i > M - (n + 1) PROVE h[i] = B(h, i)
      <4>1. \A k \in 1 .. M : k > i => g[k] = h[k]
        BY <1>2, <3>2, <3>5, <3>6
      <4>2. B(g, i) = B(h, i)
        BY <1>4, <4>1
      <4> QED BY <3>1, <3>2, <3>5, <3>6, <4>2
    <3> QED BY <3>6
  <2>3. \A n \in Nat : n \in S
    <3> HIDE DEF S
    <3> QED BY <2>1, <2>2, SetInduction
  <2>4. PICK g \in [1 .. M -> Rec] : \A i \in 1 .. M : i > M - M => g[i] = B(g, i)
    <3>1. M \in S /\ M <= M
      <4> HIDE DEF S
      <4> QED BY <1>2, <2>3
    <3> QED BY <3>1
  <2>5. \A i \in 1 .. M : i > M - M
    BY <1>2
  <2> QED BY <2>4, <2>5
<1>6. From = [i \in 1 .. M |-> B(From, i)]
  <2>1. PICK g \in [1 .. M -> Rec] : \A i \in 1 .. M : g[i] = B(g, i)
    BY <1>5
  <2>2. g = [i \in 1 .. M |-> B(g, i)]
    BY <2>1
  <2> QED BY <2>2
<1> HIDE DEF From
<1>7. \A i \in 1 .. M : From[i] = B(From, i)
  BY <1>6
<1>8. From[1] \in Rec
  <2> DEFINE S == {n \in Nat : \A i \in 1 .. M : i > M - n => From[i] \in Rec}
  <2>1. 0 \in S
    BY <1>2
  <2>2. ASSUME NEW n \in Nat, n \in S PROVE n + 1 \in S
    <3> SUFFICES ASSUME NEW i \in 1 .. M, i > M - (n + 1) PROVE From[i] \in Rec
      BY <1>2
    <3>1. \A k \in 1 .. M : k > i => From[k] \in Rec
      BY <1>2, <2>2
    <3> QED BY <1>3, <1>7, <3>1
  <2>3. \A n \in Nat : n \in S
    <3> HIDE DEF S
    <3> QED BY <2>1, <2>2, SetInduction
  <2>4. M \in S /\ 1 \in 1 .. M /\ 1 > M - M
    BY <1>2, <2>3
  <2> QED BY <2>4
<1> QED BY <1>1, <1>8 DEF Rec
-----------------------------------------------------------------------------
(* From the arguments to the exit status.                                    *)

\* What is known of the file at each place, and at the end.
Places ==
  /\ at \in {"main", "file", "parser"} => stage = "sema"
  /\ at \in {"main", "file", "parser", "sema"} => outcome = "none"
  /\ at \in {"file", "parser", "sema"} => call.cmd \in Reads
  /\ at \in {"parser", "sema"} => File # NoFile /\ call.readable /\ call.cmd # "lex"
  /\ at = "sema" => call.parses /\ call.cmd # "parse"

CInv == DriverTypeOK /\ Places /\ ExitTells

\* An invocation begins as an analysis does.
LEMMA DriverStart == DriverInit => DInv /\ CInv
<1> SUFFICES ASSUME DriverInit PROVE DInv /\ CInv
  OBVIOUS
<1>1. /\ call \in Invocation /\ decls = call.decls /\ at = "main" /\ rc = -1
      /\ active = parse_attr_args(call.args).attrs /\ Start /\ RunInit
  BY DriverAssumption DEF DriverInit
<1>2. call.args \in Seq(STRING) /\ call.decls \in Seq(FnDecl)
  BY <1>1 DEF Invocation
<1>3. IInv /\ VInv
  BY <1>1, <1>2, ParsedAttrs, StartInv, StartVInv
<1>4. RInv
  BY <1>1, <1>3, RunStart DEF IInv
<1>5. stage = "sema" /\ outcome = "none"
  BY <1>1 DEF RunInit
<1>6. DriverTypeOK
  <2>1. rc \in -1 .. Statuses - 1
    BY <1>1, DriverAssumption
  <2> QED BY <1>1, <1>4, <2>1 DEF DriverTypeOK, RInv
<1>7. Places
  BY <1>1, <1>5 DEF Places
<1>8. ExitTells
  BY <1>1 DEF ExitTells
<1> QED BY <1>3, <1>4, <1>6, <1>7, <1>8 DEF DInv, CInv

\* What the driver does between the analysis and the run leaves both alone;
\* what it does in them is a step of theirs.
LEMMA DriverIsRun == [DriverNext]_drivervars => [DispatchNext]_allvars
<1> SUFFICES ASSUME [DriverNext]_drivervars PROVE [DispatchNext]_allvars
  OBVIOUS
<1>1. CASE Command \/ ReadFile \/ Parse \/ Verdict
  BY <1>1 DEF Command, ReadFile, Parse, Verdict, Exit, GoOn
<1>2. CASE Analyse
  BY <1>2 DEF Analyse, DispatchNext
<1>3. CASE Interpret
  BY <1>3 DEF Interpret, DispatchNext
<1>4. CASE UNCHANGED drivervars
  BY <1>4 DEF drivervars
<1> QED BY <1>1, <1>2, <1>3, <1>4 DEF DriverNext

\* It keeps the program, the arguments and so the file and the verdict.
LEMMA CallKept ==
  ASSUME DInv, DInv', [DriverNext]_drivervars
  PROVE  /\ call' = call /\ decls' = decls /\ File' = File
         /\ (Refused' <=> Refused) /\ Candidates(Main)' = Candidates(Main)
<1>1. call' = call
  BY DEF DriverNext, drivervars, Command, ReadFile, Parse, Analyse, Verdict, Interpret, Exit, GoOn
<1>2. UNCHANGED <<decls, active>>
  BY DriverIsRun, ImplKept
<1>3. File' = File
  BY <1>1 DEF File
<1>4. \A f : Candidates(f)' = Candidates(f)
  BY <1>2 DEF Candidates, IsCandidate
<1>5. \A f : Tied(f)' <=> Tied(f)
  BY <1>2 DEF Tied, Candidates, IsCandidate
<1>6. \A v : Faulty(v)' <=> Faulty(v)
  BY <1>2, <1>4, <1>5 DEF Faulty
<1>7. Refused' <=> Refused
  <2>1. (\E v \in DOMAIN decls : Faulty(v))' <=> \E v \in DOMAIN decls : Faulty(v)
    BY <1>2, <1>6
  <2> QED BY <1>1, <1>3, <2>1 DEF Refused
<1> QED BY <1>1, <1>2, <1>3, <1>4, <1>7

\* The statuses of a run.
LEMMA CodesTell ==
  /\ Codes("died") = {2}
  /\ Codes("rejected") = {1} /\ Codes("nomain") = {1}
  /\ Codes("returned") \subseteq 0 .. Statuses - 1
<1>1. Codes("died") = {2} /\ Codes("rejected") = {1} /\ Codes("nomain") = {1}
  BY DEF Codes
<1>2. ASSUME NEW v \in MainValues PROVE Status(v) \in 0 .. Statuses - 1
  <2>1. v.n \in Int /\ Statuses \in Nat /\ Statuses > 2
    BY DriverAssumption
  <2>2. v.n % Statuses \in 0 .. Statuses - 1
    BY <2>1
  <2>3. 0 \in 0 .. Statuses - 1 /\ 1 \in 0 .. Statuses - 1
    BY <2>1
  <2> QED BY <2>2, <2>3 DEF Status
<1>3. Codes("returned") = {Status(v) : v \in MainValues}
  BY DEF Codes
<1> QED BY <1>1, <1>2, <1>3

\* Everything the driver leaves alone keeps its type.
LEMMA DriverTypes ==
  ASSUME DInv', DriverTypeOK, call' = call, decls' = decls,
         at' \in {"main", "file", "parser", "sema", "over"}, rc' \in -1 .. Statuses - 1,
         at' = "over" <=> rc' # -1
  PROVE  DriverTypeOK'
<1>1. DInv' => RunTypeOK'
  BY DEF DInv, RInv
<1> QED BY <1>1 DEF DriverTypeOK

\* The driver stops at a file it cannot read or parse, at a command that asks
\* for no more, or behind the analysis.
LEMMA ExitSteps ==
  ASSUME DInv, DInv', CInv, Command \/ ReadFile \/ Parse \/ Verdict, at' = "over"
  PROVE  CInv'
<1>0. /\ DriverTypeOK /\ Places
      /\ call' = call /\ decls' = decls /\ File' = File
      /\ (Refused' <=> Refused) /\ Candidates(Main)' = Candidates(Main)
  BY CallKept DEF CInv, DriverNext
<1>1. PICK status \in {0, 1} :
        /\ Exit(status)
        /\ call.cmd \in {"check", "variants"} => (status = 1 <=> Refused)
        /\ call.cmd = "run" => status = 1 /\ Refused
        /\ outcome = "none"
  <2>1. CASE Command
    <3>1. /\ at = "main" /\ call.cmd \notin Reads
          /\ Exit(IF call.cmd = "version" THEN 0 ELSE 1)
      BY <2>1 DEF Command, GoOn
    <3> QED BY <1>0, <3>1 DEF Places, Reads, Analyses
  <2>2. CASE ReadFile
    <3>1. CASE File = NoFile \/ ~call.readable
      BY <1>0, <2>2, <3>1 DEF ReadFile, Refused, Places
    <3>2. CASE ~(File = NoFile \/ ~call.readable)
      <4>1. call.cmd = "lex" /\ Exit(0) /\ at = "file"
        BY <2>2, <3>2 DEF ReadFile, GoOn
      <4> QED BY <1>0, <4>1 DEF Places
    <3> QED BY <3>1, <3>2
  <2>3. CASE Parse
    <3>1. CASE ~call.parses
      BY <1>0, <2>3, <3>1 DEF Parse, Refused, Places
    <3>2. CASE call.parses
      <4>1. call.cmd = "parse" /\ Exit(0) /\ at = "parser"
        BY <2>3, <3>2 DEF Parse, GoOn
      <4> QED BY <1>0, <4>1 DEF Places
    <3> QED BY <3>1, <3>2
  <2>4. CASE Verdict
    <3>1. /\ at = "sema" /\ call.cmd \in {"check", "variants"} /\ phase = "done"
          /\ Exit(IF had_error THEN 1 ELSE 0)
      BY <2>4 DEF Verdict
    <3>2. had_error <=> \E v \in DOMAIN decls : Faulty(v)
      BY <3>1, VerdictGiven DEF DInv, VerdictExact
    <3>3. had_error <=> Refused
      BY <1>0, <3>1, <3>2 DEF Refused, Places
    <3>4. outcome = "none" /\ call.cmd # "run"
      BY <1>0, <3>1 DEF Places
    <3>5. CASE had_error
      BY <3>1, <3>3, <3>4, <3>5
    <3>6. CASE ~had_error
      BY <3>1, <3>3, <3>4, <3>6
    <3> QED BY <3>5, <3>6
  <2> QED BY <2>1, <2>2, <2>3, <2>4
<1>2. /\ rc' = status /\ at' = "over" /\ outcome' = "none"
      /\ rc' \in -1 .. Statuses - 1 /\ rc' # -1
  <2>1. rc' = status /\ outcome' = outcome /\ at' = "over"
    BY <1>1 DEF Exit, allvars, run
  <2>2. 0 \in -1 .. Statuses - 1 /\ 1 \in -1 .. Statuses - 1
    BY DriverAssumption
  <2> QED BY <1>1, <2>1, <2>2
<1>3. DriverTypeOK'
  BY <1>0, <1>2, DriverTypes
<1>4. Places'
  BY <1>2 DEF Places
<1>5. ExitTells'
  <2>1. call.cmd = "run" => Refused
    BY <1>1
  <2>2. /\ call.cmd \in {"check", "variants"} => (rc' = 1 <=> Refused)
        /\ call.cmd = "run" => rc' = 1 /\ Refused
        /\ rc' \in {0, 1}
    BY <1>1, <1>2
  <2> QED BY <1>0, <1>2, <2>2 DEF ExitTells
<1> QED BY <1>3, <1>4, <1>5 DEF CInv

\* The driver hands the file on.
LEMMA GoOnSteps ==
  ASSUME DInv, DInv', CInv, Command \/ ReadFile \/ Parse, at' # "over"
  PROVE  CInv'
<1>0. /\ DriverTypeOK /\ Places /\ call' = call /\ decls' = decls /\ File' = File
  BY CallKept DEF CInv, DriverNext
<1>1. /\ stage' = stage /\ outcome' = outcome /\ rc' = rc
      /\ at # "over" /\ at' \in {"file", "parser", "sema"}
  BY DEF Command, ReadFile, Parse, Exit, GoOn, allvars, run
<1>2. DriverTypeOK'
  BY <1>0, <1>1, DriverTypes DEF DriverTypeOK
<1>3. Places'
  <2>1. CASE Command
    BY <1>0, <1>1, <2>1 DEF Places, Command, Exit, GoOn
  <2>2. CASE ReadFile
    BY <1>0, <1>1, <2>2 DEF Places, ReadFile, Exit, GoOn
  <2>3. CASE Parse
    BY <1>0, <1>1, <2>3 DEF Places, Parse, Exit, GoOn
  <2> QED BY <2>1, <2>2, <2>3
<1>4. ExitTells'
  BY <1>1 DEF ExitTells
<1> QED BY <1>2, <1>3, <1>4 DEF CInv

\* The analysis goes on.
LEMMA AnalyseStep ==
  ASSUME DInv, DInv', CInv, Analyse
  PROVE  CInv'
<1>0. /\ DriverTypeOK /\ Places /\ call' = call /\ decls' = decls /\ File' = File
  BY CallKept DEF CInv, DriverNext
<1>1. /\ at = "sema" /\ at' = at /\ rc' = rc /\ stage' = stage /\ outcome' = outcome
  BY DEF Analyse, Sema, run
<1>2. DriverTypeOK'
  BY <1>0, <1>1, DriverTypes DEF DriverTypeOK
<1>3. Places'
  BY <1>0, <1>1 DEF Places
<1>4. ExitTells'
  BY <1>1 DEF ExitTells
<1> QED BY <1>2, <1>3, <1>4 DEF CInv

\* The run goes on, or ends with a status.
LEMMA InterpretStep ==
  ASSUME DInv, DInv', CInv, Interpret
  PROVE  CInv'
<1>0. /\ DriverTypeOK /\ Places
      /\ call' = call /\ decls' = decls /\ File' = File
      /\ (Refused' <=> Refused) /\ Candidates(Main)' = Candidates(Main)
  BY CallKept DEF CInv, DriverNext
<1>1. /\ at = "sema" /\ call.cmd = "run" /\ RunNext
      /\ IF outcome' = "none" THEN UNCHANGED <<at, rc>>
                              ELSE at' = "over" /\ rc' \in Codes(outcome')
  BY DEF Interpret
<1>2. CASE outcome' = "none"
  <2>1. at' = "sema" /\ at' = at /\ rc' = rc
    BY <1>1, <1>2
  <2>2. DriverTypeOK'
    BY <1>0, <2>1, DriverTypes DEF DriverTypeOK
  <2>3. Places' /\ ExitTells'
    BY <1>0, <1>1, <1>2, <2>1 DEF Places, ExitTells
  <2> QED BY <2>2, <2>3 DEF CInv
<1>3. CASE outcome' # "none"
  <2>1. at' = "over" /\ rc' \in Codes(outcome')
    BY <1>1, <1>3
  <2>2. /\ outcome' \in {"rejected", "nomain", "died", "returned"}
        /\ stage' = "over" /\ Ends' /\ Stages' /\ IInv' /\ VInv'
    <3>1. DInv' => RunTypeOK' /\ Ends' /\ Stages' /\ IInv' /\ VInv'
      BY DEF DInv, RInv
    <3> QED BY <1>3, <3>1 DEF RunTypeOK
  <2>3. had_error' <=> Refused
    <3>1. phase' = "done"
      BY <2>2 DEF Stages
    <3>2. IInv' /\ VInv' => VerdictExact'
      BY VerdictGiven, PTL
    <3>3. had_error' <=> (\E v \in DOMAIN decls : Faulty(v))'
      BY <2>2, <3>1, <3>2 DEF VerdictExact
    <3>4. Refused' <=> (\E v \in DOMAIN decls : Faulty(v))'
      BY <1>0, <1>1 DEF Refused, Places
    <3> QED BY <1>0, <3>3, <3>4
  <2>4. /\ outcome' = "rejected" => Refused
        /\ outcome' = "nomain" => ~Refused /\ Candidates(Main) = {}
        /\ outcome' \in {"died", "returned"} => ~Refused /\ Candidates(Main) # {}
    BY <1>0, <2>2, <2>3 DEF Ends
  <2>5. /\ outcome' \in {"rejected", "nomain"} => rc' = 1
        /\ outcome' = "died" => rc' = 2
        /\ rc' \in -1 .. Statuses - 1 /\ rc' # -1
    <3>1. /\ 1 \in 0 .. Statuses - 1 /\ 2 \in 0 .. Statuses - 1
          /\ \A n \in 0 .. Statuses - 1 : n \in -1 .. Statuses - 1 /\ n # -1
      BY DriverAssumption
    <3> QED BY <2>1, <2>2, <3>1, CodesTell
  <2>6. DriverTypeOK'
    BY <1>0, <2>1, <2>5, DriverTypes
  <2>7. Places'
    BY <2>1 DEF Places
  <2>8. ExitTells'
    BY <1>0, <1>1, <2>2, <2>4, <2>5 DEF ExitTells
  <2> QED BY <2>6, <2>7, <2>8 DEF CInv
<1> QED BY <1>2, <1>3

\* Every step of an invocation keeps what is known of it.
LEMMA DriverStep == DInv /\ CInv /\ [DriverNext]_drivervars => DInv' /\ CInv'
<1> SUFFICES ASSUME DInv, CInv, [DriverNext]_drivervars PROVE DInv' /\ CInv'
  OBVIOUS
<1>1. DInv'
  BY DriverIsRun, RunStep
<1>2. CASE UNCHANGED drivervars
  <2>1. /\ DriverTypeOK /\ Places /\ ExitTells
        /\ call' = call /\ decls' = decls /\ File' = File
        /\ (Refused' <=> Refused) /\ Candidates(Main)' = Candidates(Main)
    BY <1>1, CallKept DEF CInv
  <2>2. UNCHANGED <<at, rc, stage, outcome>>
    BY <1>2 DEF drivervars, allvars, run
  <2>3. DriverTypeOK'
    BY <1>1, <2>1, <2>2, DriverTypes DEF DriverTypeOK
  <2>4. Places' /\ ExitTells'
    BY <2>1, <2>2 DEF Places, ExitTells
  <2> QED BY <1>1, <2>3, <2>4 DEF CInv
<1>3. CASE Command \/ ReadFile \/ Parse \/ Verdict
  <2>1. Verdict => at' = "over"
    BY DEF Verdict, Exit
  <2> QED BY <1>1, <1>3, <2>1, ExitSteps, GoOnSteps
<1>4. CASE Analyse \/ Interpret
  BY <1>1, <1>4, AnalyseStep, InterpretStep
<1> QED BY <1>2, <1>3, <1>4 DEF DriverNext

\* The invariant holds in every reachable state of an invocation.
THEOREM DriverInvariance == DriverSpec => [](DInv /\ CInv)
  BY DriverStart, DriverStep, PTL DEF DriverSpec

\* The exit status tells what happened: 1 for what is refused before anything
\* runs, 2 for what dies, and no faulty program looks checked or runs (main.c
\* 103-204, interp.c 750-770).
THEOREM ExitCorrect == DriverSpec => []ExitTells
  BY DriverInvariance, PTL DEF CInv

\* Type correctness of a whole invocation.
THEOREM DriverTypeCorrect == DriverSpec => []DriverTypeOK
  BY DriverInvariance, PTL DEF CInv

\* Whatever main is given, every activation finds its contract (lower.c
\* 105-113, interp.c 705).
THEOREM ContractsCorrect == DriverSpec => []ContractsFound
  BY ContractsGiven, DriverInvariance, PTL

\* What is true of the analysis alone is true of it inside an invocation.
THEOREM AnalysisCorrect == DriverSpec => [](BoundToBest /\ VerdictExact /\ AcceptedAllBound)
<1>1. DInv => BoundToBest /\ VerdictExact /\ AcceptedAllBound
  BY VerdictGiven, AcceptedGiven DEF DInv, IInv
<1> QED BY <1>1, DriverInvariance, PTL

\* An invocation keeps the promise of one implementation per function, whichever
\* selection loop a call went through (sema.c 366-400, interp.c 375-392).
THEOREM SingleImplementationKept == DriverSpec => SingleImplementation
<1>1. DriverInit => Promised!Init
  <2> SUFFICES ASSUME DriverInit PROVE Promised!Init
    OBVIOUS
  <2>1. DInv /\ RunInit
    BY DriverStart DEF DriverInit
  <2> QED BY <2>1, InitMaps DEF Promised!Init, Impl, Runs, RunStatus
<1>2. DInv /\ DInv' /\ [DriverNext]_drivervars => [Promised!Next]_(Promised!vars)
  BY DriverIsRun, MappedStep
<1> QED BY <1>1, <1>2, DriverInvariance, PTL DEF DriverSpec, SingleImplementation, Promised!Spec
=============================================================================

--------------------------- MODULE Contracts_proofs ---------------------------
(* Proofs about the calling protocol: a body runs only after a state that    *)
(* met its preconditions, a call returns only in one that meets its          *)
(* postconditions, up to what conditions that act can undo; and the checks   *)
(* that cannot act are otherwise invisible.                                  *)
EXTENDS Contracts, WellFoundedInduction, SequenceTheorems, TLAPS

(* Induction over the naturals: the theorems of the library take an operator  *)
(* as a parameter, so a set and its least element do the work.                *)

\* A set of natural numbers with an element has a least one.
LEMMA LeastNat ==
  ASSUME NEW T \in SUBSET Nat, T # {}
  PROVE  \E x \in T : \A y \in T : x <= y
<1>1. PICK x \in T : \A y \in T : ~(<<y, x>> \in OpToRel(<, Nat))
  BY NatLessThanWellFounded, WFMin
<1>2. \A y \in T : ~(y < x)
  BY <1>1 DEF OpToRel
<1> QED BY <1>2

\* Induction: a set that holds 0, and with every number the next one, holds
\* every natural number.
LEMMA SetInduction ==
  ASSUME NEW S, 0 \in S, \A n \in Nat : n \in S => n + 1 \in S
  PROVE  \A n \in Nat : n \in S
<1> SUFFICES ASSUME NEW m \in Nat, m \notin S PROVE FALSE
  OBVIOUS
<1> DEFINE T == {n \in Nat : n \notin S}
<1>1. PICK x \in T : \A y \in T : x <= y
  <2>1. T \in SUBSET Nat /\ m \in T
    OBVIOUS
  <2> HIDE DEF T
  <2> QED BY <2>1, LeastNat
<1>2. x \in Nat /\ x # 0 /\ x \notin S
  OBVIOUS
<1>3. x - 1 \in Nat /\ x - 1 \in S
  BY <1>1, <1>2
<1>4. (x - 1) + 1 \in S
  BY <1>3
<1> QED BY <1>2, <1>4

\* A table of length N over R, from its first entry a and what makes the next.
Steps(next, N, R) == next \in [1 .. N -> [R -> R]]
Table(g, N, R, a, next) ==
  g \in [0 .. N -> R] /\ g[0] = a /\ \A k \in 1 .. N : g[k] = next[k][g[k - 1]]

\* Recursion: a table can be filled from its first entry, each entry from the
\* one before it.
LEMMA RecursionUp ==
  ASSUME NEW N \in Nat, NEW R, NEW a \in R, NEW next, Steps(next, N, R)
  PROVE  \E g : Table(g, N, R, a, next)
<1> DEFINE Filled(g, n) == g[0] = a /\ \A k \in 1 .. N : k <= n => g[k] = next[k][g[k - 1]]
           S == {n \in Nat : n <= N => \E g \in [0 .. N -> R] : Filled(g, n)}
<1>1. 0 \in S
  <2>1. [k \in 0 .. N |-> a] \in [0 .. N -> R] /\ [k \in 0 .. N |-> a][0] = a
    OBVIOUS
  <2>2. \A k \in 1 .. N : ~(k <= 0)
    OBVIOUS
  <2> QED BY <2>1, <2>2
<1>2. ASSUME NEW n \in Nat, n \in S PROVE n + 1 \in S
  <2> SUFFICES ASSUME n + 1 <= N PROVE \E g \in [0 .. N -> R] : Filled(g, n + 1)
    OBVIOUS
  <2>1. PICK g \in [0 .. N -> R] : Filled(g, n)
    BY <1>2
  <2>2. n \in 0 .. N /\ n + 1 \in 1 .. N /\ next[n + 1] \in [R -> R] /\ g[n] \in R
    BY <2>1 DEF Steps
  <2>3. PICK x \in R : x = next[n + 1][g[n]]
    BY <2>2
  <2>4. PICK h \in [0 .. N -> R] : h = [g EXCEPT ![n + 1] = x]
    BY <2>1, <2>2
  <2>5. h[n + 1] = x /\ \A k \in 0 .. N : k # n + 1 => h[k] = g[k]
    BY <2>2, <2>4
  <2>6. h[0] = a
    BY <2>1, <2>5
  <2>7. ASSUME NEW k \in 1 .. N, k <= n + 1 PROVE h[k] = next[k][h[k - 1]]
    <3>1. CASE k = n + 1
      BY <2>2, <2>3, <2>5, <3>1
    <3>2. CASE k <= n
      BY <2>1, <2>5, <3>2
    <3> QED BY <2>7, <3>1, <3>2
  <2> QED BY <2>6, <2>7
<1>3. \A n \in Nat : n \in S
  <2> HIDE DEF S
  <2> QED BY <1>1, <1>2, SetInduction
<1>4. PICK g \in [0 .. N -> R] : Filled(g, N)
  <2>1. N \in S /\ N <= N
    <3> HIDE DEF S
    <3> QED BY <1>3
  <2> QED BY <2>1
<1> QED BY <1>4 DEF Table

\* A front part of a sequence.
LEMMA Front ==
  ASSUME NEW S, NEW s \in Seq(S), NEW m \in 0 .. Len(s)
  PROVE  /\ SubSeq(s, 1, m) \in Seq(S) /\ Len(SubSeq(s, 1, m)) = m
         /\ \A i \in 1 .. m : SubSeq(s, 1, m)[i] = s[i]
<1>1. \A i \in 1 .. m : s[i] \in S
  OBVIOUS
<1>2. m \in Int /\ 1 \in Int /\ m - 1 + 1 = m /\ \A i \in 1 .. m : 1 + i - 1 = i
  OBVIOUS
<1>3. /\ SubSeq(s, 1, m) \in Seq(S)
      /\ Len(SubSeq(s, 1, m)) = IF 1 <= m THEN m - 1 + 1 ELSE 0
      /\ \A i \in 1 .. m - 1 + 1 : SubSeq(s, 1, m)[i] = s[1 + i - 1]
  BY <1>1, <1>2, SubSeqProperties
<1> QED BY <1>2, <1>3

(* The inductive invariant.                                                  *)

\* The names of the snapshots that the postconditions of f read.
OldNode(f, n) ==
  /\ n[1] \in DOMAIN Contract[f].ensures
  /\ \/ n = <<n[1], "l">> /\ Contract[f].ensures[n[1]].l \in OldOperand
     \/ n = <<n[1], "r">> /\ Contract[f].ensures[n[1]].r \in OldOperand

\* The state an activation is in when the cell holds c.
Here(a, c) == [x |-> Param(a), cell |-> c]

\* What a snapshot has to hold, unless an old() operand acts.
Snapshot(a, n) == IF Inner(a.fn, n) = "x" THEN a.start.x ELSE a.start.cell

\* A frame starts with the parameter, and what it holds under the name of a
\* snapshot is the snapshot.
Framed(a) ==
  /\ Len(a.frame) >= 1 /\ a.frame[1].name = Source("x")
  /\ Quiet(a.fn, "olds", Nat) =>
       \A j \in 2 .. Len(a.frame) :
         a.frame[j].name[1] # 0 => a.frame[j].value = Snapshot(a, a.frame[j].name)

\* Until something acts, nothing is but the call and the memory it found, and
\* then nothing but what the preconditions left.
Entering(a, c) ==
  /\ a.at = "requires" =>
       Len(a.frame) = 1 /\ (Quiet(a.fn, "requires", 1 .. a.i) => a.entry = Here(a, c))
  /\ a.at # "requires" /\ Quiet(a.fn, "requires", Nat) => a.start = a.entry
  /\ a.at = "olds" /\ Quiet(a.fn, "olds", Nat) => a.start = Here(a, c)

\* The preconditions checked so far were met on entry, up to the first that
\* may act, and are met now, from the last that may.  In the body nothing is
\* counted.
Checked(a) == {k \in DOMAIN Contract[a.fn].requires : a.at # "requires" \/ k < a.i}
Required(a, c) ==
  /\ \A k \in Checked(a) :
       LET pre == Contract[a.fn].requires IN
         /\ Quiet(a.fn, "requires", 1 .. k) => Meets(pre[k], a.entry, a.entry, 0)
         /\ a.at = "requires" /\ Quiet(a.fn, "requires", k .. a.i) => Meets(pre[k], Here(a, c), Here(a, c), 0)
         /\ a.at # "requires" /\ Quiet(a.fn, "requires", k .. Len(pre)) => Meets(pre[k], a.start, a.start, 0)
  /\ a.at = "body" => a.i = 1

\* The snapshots taken so far are in the frame, and from the body on all are.
Captured(a) ==
  \A j \in DOMAIN collect_olds(a.fn) :
    a.at \in {"body", "ensures"} \/ (a.at = "olds" /\ j < a.i) =>
      \E m \in 2 .. Len(a.frame) : a.frame[m].name = collect_olds(a.fn)[j]

\* What old() and `result` stand for in postcondition k is not lost.
NoOwnResult(a) == \A j \in 2 .. Len(a.frame) - 1 : a.frame[j].name # Source("result")
Lasting(a, k) ==
  LET c == Contract[a.fn].ensures[k] IN
    /\ Mentions(c, OldOperand) => Quiet(a.fn, "olds", Nat)
    /\ Mentions(c, {"result"}) => Quiet(a.fn, "ensures", 1 .. k) /\ NoOwnResult(a)

\* The result comes last, and the postconditions checked so far are met, from
\* the last that may act.
Ensured(a, c) ==
  a.at = "ensures" /\ Contract[a.fn].ensures # <<>> =>
    /\ Len(a.frame) >= 2 /\ a.frame[Len(a.frame)].name = Source("result")
    /\ Quiet(a.fn, "ensures", 1 .. a.i) => a.frame[Len(a.frame)].value = a.ret
    /\ \A k \in DOMAIN Contract[a.fn].ensures :
         k < a.i /\ Quiet(a.fn, "ensures", k .. a.i) /\ Lasting(a, k) =>
           Meets(Contract[a.fn].ensures[k], Here(a, c), a.start, a.ret)

Good(a, c) == Framed(a) /\ Entering(a, c) /\ Required(a, c) /\ Captured(a) /\ Ensured(a, c)

\* All activations but the one on top are where they may act.
Busy(a) == Acts(a.fn, a.at, a.i)
Sound(st, c) ==
  /\ c \in Int /\ st \in Seq(Activation)
  /\ \A n \in 1 .. Len(st) - 1 : Busy(st[n])
  /\ \A n \in 1 .. Len(st) : Good(st[n], c)
KInv == Sound(stack, cell)
-----------------------------------------------------------------------------
(* Names, frames and snapshots.                                              *)

\* find comes back with the first binding of the name.
LEMMA FirstIs ==
  ASSUME NEW s \in Seq(Binding), NEW n, NEW m \in 1 .. Len(s), s[m].name = n,
         \A j \in 1 .. m - 1 : s[j].name # n
  PROVE  First(s, n) = m /\ Bound(s, n)
<1>1. DOMAIN s = 1 .. Len(s) /\ Len(s) \in Nat
  OBVIOUS
<1>2. \A i \in DOMAIN s : (s[i].name = n /\ \A j \in 1 .. i - 1 : s[j].name # n) <=> i = m
  <2> SUFFICES ASSUME NEW i \in DOMAIN s, s[i].name = n, \A j \in 1 .. i - 1 : s[j].name # n
               PROVE  i = m
    OBVIOUS
  <2>1. ~(i < m) /\ ~(m < i)
    BY <1>1
  <2> QED BY <1>1, <2>1
<1>3. First(s, n) = CHOOSE i \in DOMAIN s : i = m
  BY <1>2 DEF First
<1> QED BY <1>1, <1>3 DEF Bound

\* A bound name has a first binding.
LEMMA FirstExists ==
  ASSUME NEW s \in Seq(Binding), NEW n, Bound(s, n)
  PROVE  First(s, n) \in 1 .. Len(s) /\ s[First(s, n)].name = n /\ find(s, n) = s[First(s, n)].value
<1> DEFINE T == {i \in 1 .. Len(s) : s[i].name = n}
<1>1. DOMAIN s = 1 .. Len(s) /\ Len(s) \in Nat
  OBVIOUS
<1>2. T \in SUBSET Nat /\ T # {}
  BY <1>1 DEF Bound
<1>3. PICK m \in T : \A y \in T : m <= y
  <2> HIDE DEF T
  <2> QED BY <1>2, LeastNat
<1>4. m \in 1 .. Len(s) /\ s[m].name = n
  BY <1>3
<1>5. \A j \in 1 .. m - 1 : s[j].name # n
  BY <1>1, <1>3, <1>4
<1>6. First(s, n) = m
  BY <1>4, <1>5, FirstIs
<1> QED BY <1>4, <1>6 DEF find

\* The parameter is found where it was bound.
LEMMA FindParam ==
  ASSUME NEW a \in Activation, Framed(a)
  PROVE  /\ First(a.frame, Source("x")) = 1 /\ find(a.frame, Source("x")) = Param(a)
         /\ Param(a) \in Int /\ 1 \in 1 .. Len(a.frame)
<1>1. a.frame \in Seq(Binding) /\ Len(a.frame) \in Nat
  BY DEF Activation
<1>2. 1 \in 1 .. Len(a.frame) /\ a.frame[1].name = Source("x") /\ a.frame[1] \in Binding
  BY <1>1 DEF Framed
<1>3. First(a.frame, Source("x")) = 1
  BY <1>1, <1>2, FirstIs
<1> QED BY <1>2, <1>3 DEF find, Param, Binding

\* collect_olds finds the old() nodes of all postconditions and nothing else.
LEMMA OldsAre ==
  ASSUME NEW f \in Fns
  PROVE  /\ collect_olds(f) \in Seq(Name)
         /\ \A j \in DOMAIN collect_olds(f) : OldNode(f, collect_olds(f)[j])
         /\ \A n : OldNode(f, n) => \E j \in DOMAIN collect_olds(f) : collect_olds(f)[j] = n
<1> DEFINE es == Contract[f].ensures
           N == Len(es)
           B(g, k) == IF k = 0 THEN <<>> ELSE g[k - 1] \o OldsOf(k, es[k])
           upto == CHOOSE g : g = [k \in 0 .. N |-> B(g, k)]
<1>1. collect_olds(f) = upto[N]
  BY DEF collect_olds
<1>2. N \in Nat /\ DOMAIN es = 1 .. N
  BY ContractsAssumption
<1>3. ASSUME NEW k \in 1 .. N PROVE OldsOf(k, es[k]) \in Seq(Name)
  <2>1. <<k, "l">> \in Name /\ <<k, "r">> \in Name
    BY <1>2 DEF Name
  <2> QED BY <2>1 DEF OldsOf
<1>4. \E g \in [0 .. N -> Seq(Name)] : \A k \in 0 .. N : g[k] = B(g, k)
  <2> DEFINE next == [k \in 1 .. N |-> [q \in Seq(Name) |-> q \o OldsOf(k, es[k])]]
  <2>1. \A k \in 1 .. N : \A q \in Seq(Name) : q \o OldsOf(k, es[k]) \in Seq(Name)
    BY <1>3
  <2>2. next \in [1 .. N -> [Seq(Name) -> Seq(Name)]] /\ <<>> \in Seq(Name)
    BY <2>1
  <2>3. PICK g \in [0 .. N -> Seq(Name)] : g[0] = <<>> /\ \A k \in 1 .. N : g[k] = next[k][g[k - 1]]
    <3>1. Steps(next, N, Seq(Name))
      BY <2>2 DEF Steps
    <3>2. \E g : Table(g, N, Seq(Name), <<>>, next)
      <4> HIDE DEF next, N
      <4> QED BY <1>2, <2>2, <3>1, RecursionUp
    <3> HIDE DEF next, N
    <3> QED BY <3>2 DEF Table
  <2>4. \A k \in 1 .. N : g[k] = g[k - 1] \o OldsOf(k, es[k])
    <3> SUFFICES ASSUME NEW k \in 1 .. N PROVE g[k] = g[k - 1] \o OldsOf(k, es[k])
      OBVIOUS
    <3>1. g[k - 1] \in Seq(Name)
      BY <1>2
    <3> QED BY <2>3, <3>1
  <2>5. \A k \in 0 .. N : g[k] = B(g, k)
    <3>1. \A k \in 0 .. N : k = 0 \/ k \in 1 .. N
      BY <1>2
    <3> HIDE DEF next, N, es
    <3> QED BY <2>3, <2>4, <3>1
  <2> QED BY <2>5
<1>5. \A k \in 0 .. N : upto[k] = B(upto, k)
  <2>1. PICK g \in [0 .. N -> Seq(Name)] : \A k \in 0 .. N : g[k] = B(g, k)
    BY <1>4
  <2>2. g = [k \in 0 .. N |-> B(g, k)]
    BY <2>1
  <2>3. upto = [k \in 0 .. N |-> B(upto, k)]
    BY <2>2
  <2> HIDE DEF upto
  <2> QED BY <2>3
<1> HIDE DEF upto, B
<1> DEFINE Found(k) == /\ upto[k] \in Seq(Name)
                       /\ \A j \in DOMAIN upto[k] : OldNode(f, upto[k][j])
                       /\ \A n : OldNode(f, n) /\ n[1] <= k => \E j \in DOMAIN upto[k] : upto[k][j] = n
           S == {k \in Nat : k <= N => Found(k)}
<1>6. 0 \in S
  <2>1. upto[0] = <<>>
    BY <1>2, <1>5 DEF B
  <2>2. \A n : ~(OldNode(f, n) /\ n[1] <= 0)
    BY <1>2 DEF OldNode
  <2>3. Found(0)
    BY <2>1, <2>2
  <2> QED BY <2>3
<1>7. ASSUME NEW k \in Nat, k \in S PROVE k + 1 \in S
  <2> SUFFICES ASSUME k + 1 <= N PROVE Found(k + 1)
    OBVIOUS
  <2> DEFINE c == es[k + 1]
             s == upto[k]
             t == OldsOf(k + 1, c)
  <2>1. Found(k) /\ k + 1 \in 1 .. N
    BY <1>2, <1>7
  <2>2. upto[k + 1] = s \o t
    <3>1. k + 1 \in 0 .. N /\ k + 1 # 0 /\ (k + 1) - 1 = k
      <4> HIDE DEF N
      <4> QED BY <1>2
    <3>2. upto[k + 1] = B(upto, k + 1)
      BY <1>5, <3>1
    <3> QED BY <3>1, <3>2 DEF B
  <2>3. s \in Seq(Name) /\ t \in Seq(Name)
    BY <1>3, <2>1
  <2>4. /\ s \o t \in Seq(Name) /\ Len(s \o t) = Len(s) + Len(t)
        /\ \A j \in 1 .. Len(s) + Len(t) : (s \o t)[j] = IF j <= Len(s) THEN s[j] ELSE t[j - Len(s)]
    BY <2>3, ConcatProperties
  <2>5. /\ \A j \in 1 .. Len(t) : OldNode(f, t[j])
        /\ \A n : OldNode(f, n) /\ n[1] = k + 1 => \E j \in 1 .. Len(t) : t[j] = n
    <3> DEFINE l == <<k + 1, "l">>
               r == <<k + 1, "r">>
    <3>1. /\ l[1] = k + 1 /\ r[1] = k + 1
          /\ c.l \in OldOperand => OldNode(f, l)
          /\ c.r \in OldOperand => OldNode(f, r)
          /\ \A n : OldNode(f, n) /\ n[1] = k + 1 =>
               (n = l /\ c.l \in OldOperand) \/ (n = r /\ c.r \in OldOperand)
      BY <1>2, <2>1 DEF OldNode
    <3>2. t = (IF c.l \in OldOperand THEN <<l>> ELSE <<>>) \o (IF c.r \in OldOperand THEN <<r>> ELSE <<>>)
      BY DEF OldsOf
    <3>3. CASE c.l \in OldOperand /\ c.r \in OldOperand
      <4>1. t = <<l, r>>
        BY <3>2, <3>3
      <4> HIDE DEF l, r, t, c
      <4> QED BY <3>1, <3>3, <4>1
    <3>4. CASE c.l \in OldOperand /\ c.r \notin OldOperand
      <4>1. t = <<l>>
        BY <3>2, <3>4
      <4> HIDE DEF l, r, t, c
      <4> QED BY <3>1, <3>4, <4>1
    <3>5. CASE c.l \notin OldOperand /\ c.r \in OldOperand
      <4>1. t = <<r>>
        BY <3>2, <3>5
      <4> HIDE DEF l, r, t, c
      <4> QED BY <3>1, <3>5, <4>1
    <3>6. CASE c.l \notin OldOperand /\ c.r \notin OldOperand
      <4>1. t = <<>>
        BY <3>2, <3>6
      <4> HIDE DEF l, r, t, c
      <4> QED BY <3>1, <3>6, <4>1
    <3> QED BY <3>3, <3>4, <3>5, <3>6
  <2> HIDE DEF s, t, c
  <2>6. DOMAIN (s \o t) = 1 .. Len(s) + Len(t) /\ Len(s) \in Nat /\ Len(t) \in Nat /\ DOMAIN s = 1 .. Len(s)
    BY <2>3, <2>4
  <2>7. \A j \in 1 .. Len(s) + Len(t) : OldNode(f, (s \o t)[j])
    <3> SUFFICES ASSUME NEW j \in 1 .. Len(s) + Len(t) PROVE OldNode(f, (s \o t)[j])
      OBVIOUS
    <3>1. CASE j <= Len(s)
      <4>1. j \in DOMAIN s /\ (s \o t)[j] = s[j]
        BY <2>4, <2>6, <3>1
      <4> QED BY <2>1, <4>1 DEF s
    <3>2. CASE ~(j <= Len(s))
      <4>1. j - Len(s) \in 1 .. Len(t) /\ (s \o t)[j] = t[j - Len(s)]
        BY <2>4, <2>6, <3>2
      <4> QED BY <2>5, <4>1
    <3> QED BY <3>1, <3>2
  <2>8. ASSUME NEW n, OldNode(f, n), n[1] <= k + 1
        PROVE  \E j \in 1 .. Len(s) + Len(t) : (s \o t)[j] = n
    <3>0. n[1] \in 1 .. N
      BY <1>2, <2>8 DEF OldNode
    <3>1. CASE n[1] <= k
      <4>1. PICK j \in DOMAIN s : s[j] = n
        BY <2>1, <2>8, <3>1 DEF s
      <4> QED BY <2>4, <2>6, <4>1
    <3>2. CASE n[1] = k + 1
      <4>1. PICK j \in 1 .. Len(t) : t[j] = n
        BY <2>5, <2>8, <3>2
      <4>2. Len(s) + j \in 1 .. Len(s) + Len(t) /\ ~(Len(s) + j <= Len(s)) /\ (Len(s) + j) - Len(s) = j
        BY <2>6, <4>1
      <4> QED BY <2>4, <4>1, <4>2
    <3> QED BY <1>2, <2>8, <3>0, <3>1, <3>2
  <2> QED BY <2>2, <2>4, <2>6, <2>7, <2>8
<1>8. Found(N)
  <2>1. N \in S /\ N <= N
    <3> HIDE DEF S
    <3>1. \A n \in Nat : n \in S
      BY <1>6, <1>7, SetInduction
    <3> QED BY <1>2, <3>1
  <2> QED BY <2>1
<1>9. \A n : OldNode(f, n) => n[1] <= N
  BY <1>2 DEF OldNode
<1> QED BY <1>1, <1>8, <1>9
-----------------------------------------------------------------------------
(* What an operand evaluates to is what it means.                            *)

\* The conditions of a contract compare operands.
LEMMA CondTypes ==
  ASSUME NEW f \in Fns
  PROVE  /\ DOMAIN Contract[f].requires = 1 .. Len(Contract[f].requires)
         /\ DOMAIN Contract[f].ensures = 1 .. Len(Contract[f].ensures)
         /\ Len(Contract[f].requires) \in Nat /\ Len(Contract[f].ensures) \in Nat
         /\ \A k \in DOMAIN Contract[f].requires :
              /\ Contract[f].requires[k].l \in Operand /\ Contract[f].requires[k].r \in Operand
              /\ Contract[f].requires[k].d \in Int
         /\ \A k \in DOMAIN Contract[f].ensures :
              /\ Contract[f].ensures[k].l \in Operand /\ Contract[f].ensures[k].r \in Operand
              /\ Contract[f].ensures[k].d \in Int
<1>1. Contract[f].requires \in Seq(Cond) /\ Contract[f].ensures \in Seq(Cond)
  BY ContractsAssumption
<1>2. \A s \in Seq(Cond) : /\ DOMAIN s = 1 .. Len(s) /\ Len(s) \in Nat
                           /\ \A k \in DOMAIN s : s[k].l \in Operand /\ s[k].r \in Operand /\ s[k].d \in Int
  <2> SUFFICES ASSUME NEW s \in Seq(Cond), NEW k \in DOMAIN s
               PROVE  s[k].l \in Operand /\ s[k].r \in Operand /\ s[k].d \in Int
    OBVIOUS
  <2>1. s[k] \in Cond
    OBVIOUS
  <2> QED BY <2>1 DEF Cond
<1> QED BY <1>1, <1>2

\* What there is to evaluate in each phase, and which of it may act.
LEMMA PointsAre ==
  ASSUME NEW f \in Fns
  PROVE  /\ Points(f, "requires") = DOMAIN Contract[f].requires
         /\ Points(f, "olds") = DOMAIN collect_olds(f)
         /\ Points(f, "ensures") = DOMAIN Contract[f].ensures
         /\ \A k : Acts(f, "requires", k) <=>
                     /\ k \in DOMAIN Contract[f].requires
                     /\ Mentions(Contract[f].requires[k], {"open", "old open"})
         /\ \A j : Acts(f, "olds", j) <=>
                     j \in DOMAIN collect_olds(f) /\ Inner(f, collect_olds(f)[j]) = "open"
         /\ \A k : Acts(f, "ensures", k) <=>
                     k \in DOMAIN Contract[f].ensures /\ Mentions(Contract[f].ensures[k], {"open"})
         /\ Acts(f, "body", 1)
<1>1. /\ Points(f, "requires") = DOMAIN Contract[f].requires
      /\ Points(f, "olds") = DOMAIN collect_olds(f)
      /\ Points(f, "ensures") = DOMAIN Contract[f].ensures
      /\ Points(f, "body") = {1}
  BY DEF Points
<1> QED BY <1>1 DEF Acts

\* Fewer points are as quiet as more.
LEMMA QuietLess ==
  ASSUME NEW f, NEW at, NEW S, NEW T, \A j \in Points(f, at) : j \in S => j \in T
  PROVE  Quiet(f, at, T) => Quiet(f, at, S)
BY DEF Quiet

\* A point that acts is not among quiet ones.
LEMMA NotQuiet ==
  ASSUME NEW f, NEW at, NEW j, NEW S, Acts(f, at, j), j \in S
  PROVE  ~Quiet(f, at, S)
BY DEF Quiet, Acts

\* On entry: the frame holds the parameter alone, and an operand that cannot
\* act is read from the state there is.
LEMMA OnEntry ==
  ASSUME NEW a \in Activation, Framed(a), Len(a.frame) = 1,
         NEW side \in {"l", "r"}, NEW o \in Operand, o \notin {"open", "old open"}, Defined(a.frame, o)
  PROVE  Eval(a.frame, <<0, side>>, o) = Means(o, Here(a, cell), Here(a, cell), 0) /\ o # "result"
<1>1. a.frame \in Seq(Binding) /\ Len(a.frame) = 1 /\ a.frame[1].name = Source("x")
  BY DEF Framed, Activation
<1>2. \A n : Bound(a.frame, n) => n = Source("x")
  <2>1. DOMAIN a.frame = {1}
    BY ONLY <1>1
  <2> QED BY <1>1, <2>1 DEF Bound
<1>3. ~Bound(a.frame, <<0, side>>) /\ ~Bound(a.frame, Source("result"))
  <2>1. <<0, side>> # Source("x") /\ Source("result") # Source("x")
    BY DEF Source
  <2> QED BY <1>2, <2>1
<1>4. find(a.frame, Source("x")) = Param(a)
  BY <1>1, FindParam
<1>5. o # "result"
  BY <1>3 DEF Defined
<1>6. Here(a, cell).x = Param(a) /\ Here(a, cell).cell = cell
  BY DEF Here
<1> QED BY <1>3, <1>4, <1>5, <1>6 DEF Eval, Means, Operand, OldOperand

\* On exit: the result is the last binding, and every snapshot is there.
LEMMA OnExit ==
  ASSUME NEW a \in Activation, Good(a, cell), a.at = "ensures",
         NEW k \in DOMAIN Contract[a.fn].ensures, a.i = k, Quiet(a.fn, "ensures", k .. k), Lasting(a, k),
         NEW side \in {"l", "r"}, NEW o \in Operand,
         side = "l" => o = Contract[a.fn].ensures[k].l,
         side = "r" => o = Contract[a.fn].ensures[k].r
  PROVE  Eval(a.frame, <<k, side>>, o) = Means(o, Here(a, cell), a.start, a.ret)
<1> DEFINE node == <<k, side>>
           L == Len(a.frame)
           c == Contract[a.fn].ensures[k]
<1>0. /\ a.frame \in Seq(Binding) /\ L \in Nat /\ a.fn \in Fns /\ Framed(a)
      /\ DOMAIN Contract[a.fn].ensures = 1 .. Len(Contract[a.fn].ensures)
  BY CondTypes DEF Activation, Good
<1>1. /\ L >= 2 /\ a.frame[L].name = Source("result")
      /\ Quiet(a.fn, "ensures", 1 .. k) => a.frame[L].value = a.ret
      /\ a.frame[1].name = Source("x") /\ k # 0
  <2>1. Contract[a.fn].ensures # <<>> /\ k # 0
    BY <1>0
  <2> QED BY <2>1 DEF Good, Ensured, Framed
<1>2. find(a.frame, Source("x")) = Param(a)
  BY <1>0, FindParam
<1>3. ASSUME o = "result" PROVE find(a.frame, Source("result")) = a.ret
  <2>0. NoOwnResult(a) /\ a.frame[L].value = a.ret
    <3>1. Mentions(c, {"result"})
      BY <1>3 DEF Mentions
    <3> QED BY <1>1, <3>1 DEF Lasting
  <2>1. \A j \in 1 .. L - 1 : a.frame[j].name # Source("result")
    <3>1. Source("x") # Source("result")
      BY DEF Source
    <3>2. \A j \in 1 .. L - 1 : j = 1 \/ j \in 2 .. L - 1
      BY <1>0
    <3> QED BY <1>1, <2>0, <3>1, <3>2 DEF NoOwnResult
  <2>2. L \in 1 .. L /\ a.frame[L].name = Source("result")
    BY <1>0, <1>1
  <2>3. First(a.frame, Source("result")) = L
    <3> HIDE DEF L
    <3>1. L = Len(a.frame)
      BY DEF L
    <3> QED BY <1>0, <2>1, <2>2, <3>1, FirstIs
  <2> QED BY <2>0, <2>3 DEF find
<1>4. ASSUME o \in OldOperand
      PROVE  /\ Bound(a.frame, node) /\ o # "old open"
             /\ find(a.frame, node) = IF o = "old x" THEN a.start.x ELSE a.start.cell
  <2>0. Quiet(a.fn, "olds", Nat)
    <3>1. Mentions(c, OldOperand)
      BY <1>4 DEF Mentions
    <3> QED BY <3>1 DEF Lasting
  <2>1. /\ OldNode(a.fn, node)
        /\ Inner(a.fn, node) = CASE o = "old x" -> "x" [] o = "old cell" -> "cell" [] OTHER -> "open"
    BY <1>4 DEF OldNode, Inner
  <2>2. PICK j \in DOMAIN collect_olds(a.fn) : collect_olds(a.fn)[j] = node
    BY <1>0, <2>1, OldsAre
  <2>3. PICK m \in 2 .. L : a.frame[m].name = node
    BY <2>2 DEF Good, Captured
  <2>4. Bound(a.frame, node)
    BY <1>0, <2>3 DEF Bound
  <2>5. PICK m1 \in 1 .. L : /\ m1 = First(a.frame, node) /\ a.frame[m1].name = node
                             /\ find(a.frame, node) = a.frame[m1].value
    BY <1>0, <2>4, FirstExists, SMTT(60)
  <2>6. m1 \in 2 .. L
    <3>1. node # Source("x")
      BY <1>1 DEF Source
    <3>2. m1 # 1
      BY <1>1, <2>5, <3>1
    <3> QED BY <1>0, <3>2
  <2>7. a.frame[m1].value = Snapshot(a, node)
    <3>1. a.frame[m1].name[1] # 0
      BY <1>1, <2>5
    <3> QED BY <1>0, <2>0, <2>5, <2>6, <3>1 DEF Framed
  <2>8. Inner(a.fn, node) # "open"
    <3>1. j \in Nat
      <4>1. collect_olds(a.fn) \in Seq(Name)
        BY <1>0, OldsAre
      <4> QED BY <4>1
    <3>2. ~Acts(a.fn, "olds", j)
      BY <2>0, <3>1, NotQuiet
    <3> QED BY <1>0, <2>2, <3>2, PointsAre
  <2> QED BY <1>4, <2>1, <2>4, <2>5, <2>7, <2>8 DEF Snapshot, OldOperand
<1>5. o \in {"zero", "x", "cell", "result"} \/ o \in OldOperand
  <2>1. o # "open"
    <3>1. ~Acts(a.fn, "ensures", k)
      <4>1. k \in k .. k
        BY <1>0
      <4> QED BY <4>1, NotQuiet
    <3>2. ~Mentions(c, {"open"})
      BY <1>0, <3>1, PointsAre
    <3> QED BY <3>2 DEF Mentions
  <2> QED BY <2>1 DEF Operand, OldOperand
<1>6. Here(a, cell).x = Param(a) /\ Here(a, cell).cell = cell
  BY DEF Here
<1>7. CASE o \in OldOperand
  BY <1>4, <1>7 DEF Eval, Means, OldOperand
<1>8. CASE o \in {"zero", "x", "cell", "result"}
  BY <1>2, <1>3, <1>6, <1>8 DEF Eval, Means, OldOperand
<1> QED BY <1>5, <1>7, <1>8

\* What an old() operand that cannot act is taken from.
LEMMA AtCapture ==
  ASSUME NEW a \in Activation, Framed(a), NEW node, Inner(a.fn, node) # "open", cell \in Int
  PROVE  /\ Eval(a.frame, node, Inner(a.fn, node)) \in Int
         /\ Eval(a.frame, node, Inner(a.fn, node)) =
              IF Inner(a.fn, node) = "x" THEN Param(a) ELSE cell
<1>1. find(a.frame, Source("x")) = Param(a) /\ Param(a) \in Int
  BY FindParam
<1>2. Inner(a.fn, node) \in {"x", "cell"}
  BY DEF Inner
<1> QED BY <1>1, <1>2 DEF Eval, OldOperand
-----------------------------------------------------------------------------
(* What a step makes of the activation on top.                               *)

\* A call has everything before it.
LEMMA EnterGood ==
  ASSUME NEW f \in Fns, NEW x \in Int, cell \in Int
  PROVE  Enter(f, x) \in Activation /\ Good(Enter(f, x), cell)
<1> DEFINE a == Enter(f, x)
           b == [name |-> Source("x"), value |-> x]
           s == [x |-> x, cell |-> cell]
<1>1. b \in Binding
  BY DEF Binding, Name, Source
<1>2. /\ a.fn = f /\ a.frame = <<b>> /\ a.at = "requires" /\ a.i = 1 /\ a.ret = 0
      /\ a.entry = s /\ a.start = s
  BY DEF Enter, bind
<1>3. a \in Activation
  <2>1. <<b>> \in Seq(Binding) /\ s \in [x : Int, cell : Int]
    BY <1>1
  <2>2. a = [fn |-> f, frame |-> <<b>>, at |-> "requires", i |-> 1, ret |-> 0, entry |-> s, start |-> s]
    BY DEF Enter, bind
  <2> HIDE DEF a, b, s
  <2> QED BY <2>1, <2>2 DEF Activation
<1>4. Len(<<b>>) = 1 /\ <<b>>[1].name = Source("x") /\ <<b>>[1].value = x
  OBVIOUS
<1>5. Here(a, cell) = s
  <2>1. Param(a) = x
    BY <1>2, <1>4 DEF Param
  <2> QED BY <2>1 DEF Here
<1> HIDE DEF a, b, s
<1>6. Framed(a) /\ Entering(a, cell)
  <2>1. \A j \in 2 .. Len(a.frame) : FALSE
    BY <1>2, <1>4
  <2>2. Framed(a)
    BY <1>2, <1>4, <2>1 DEF Framed
  <2>3. Entering(a, cell)
    BY <1>2, <1>4, <1>5 DEF Entering
  <2> QED BY <2>2, <2>3
<1>7. Required(a, cell)
  <2>1. \A k \in DOMAIN Contract[f].requires : ~(k < 1)
    BY CondTypes
  <2> QED BY <1>2, <2>1 DEF Required, Checked
<1>8. Captured(a) /\ Ensured(a, cell)
  BY <1>2 DEF Captured, Ensured
<1> QED BY <1>3, <1>6, <1>7, <1>8 DEF Good, a

\* A precondition that comes out true is one more that is met, if it cannot act.
LEMMA RequiresGood ==
  ASSUME NEW a \in Activation, Good(a, cell), a.at = "requires",
         a.i \in DOMAIN Contract[a.fn].requires,
         Busy(a) \/ Holds(a.frame, 0, Contract[a.fn].requires[a.i])
  PROVE  [a EXCEPT !.i = @ + 1] \in Activation /\ Good([a EXCEPT !.i = @ + 1], cell)
<1> DEFINE pre == Contract[a.fn].requires
           c == pre[a.i]
           h == Here(a, cell)
           Q(S) == Quiet(a.fn, "requires", S)
<1>0. /\ a.fn \in Fns /\ a.i \in Nat \ {0}
      /\ Framed(a) /\ Entering(a, cell) /\ Required(a, cell) /\ Captured(a)
  BY DEF Activation, Good
<1>1. c.l \in Operand /\ c.r \in Operand /\ c.d \in Int
  BY <1>0, CondTypes
<1>2. a.i + 1 \in Nat \ {0}
  BY <1>0
<1>3. PICK b \in Activation : b = [a EXCEPT !.i = @ + 1]
  BY <1>2 DEF Activation
<1>4. /\ b.fn = a.fn /\ b.frame = a.frame /\ b.at = "requires" /\ b.i = a.i + 1 /\ b.ret = a.ret
      /\ b.entry = a.entry /\ b.start = a.start
  BY <1>3 DEF Activation
<1>5. ASSUME ~Busy(a) PROVE Meets(c, h, h, 0)
  <2>1. /\ Defined(a.frame, c.l) /\ Defined(a.frame, c.r)
        /\ Eval(a.frame, <<0, "l">>, c.l) >= Eval(a.frame, <<0, "r">>, c.r) + c.d
    BY <1>5 DEF Holds
  <2>2. c.l \notin {"open", "old open"} /\ c.r \notin {"open", "old open"}
    <3>1. ~Mentions(c, {"open", "old open"})
      BY <1>0, <1>5, PointsAre DEF Busy
    <3> QED BY <3>1 DEF Mentions
  <2>3. Len(a.frame) = 1
    BY <1>0 DEF Entering
  <2>4. /\ Eval(a.frame, <<0, "l">>, c.l) = Means(c.l, h, h, 0)
        /\ Eval(a.frame, <<0, "r">>, c.r) = Means(c.r, h, h, 0)
    BY <1>0, <1>1, <2>1, <2>2, <2>3, OnEntry
  <2> QED BY <2>1, <2>4 DEF Meets
<1>6. Here(b, cell) = h /\ \A n : Snapshot(b, n) = Snapshot(a, n)
  BY <1>4 DEF Here, Param, Snapshot
<1>7. Points(a.fn, "requires") = 1 .. Len(pre) /\ Len(pre) \in Nat /\ DOMAIN pre = 1 .. Len(pre)
  BY <1>0, CondTypes, PointsAre
<1>8. ASSUME NEW S, Q(S), a.i \in S PROVE Meets(c, h, h, 0)
  BY <1>4, <1>5, <1>8, NotQuiet DEF Busy
<1>9. \A k \in 1 .. Len(pre) : Q(k .. a.i + 1) => Q(k .. a.i)
  <2> SUFFICES ASSUME NEW k \in 1 .. Len(pre) PROVE Q(k .. a.i + 1) => Q(k .. a.i)
    OBVIOUS
  <2>1. \A j \in Points(a.fn, "requires") : j \in k .. a.i => j \in k .. a.i + 1
    BY <1>0, <1>7
  <2> QED BY ONLY <2>1, QuietLess
<1>10. Q(1 .. a.i + 1) => Q(1 .. a.i)
  <2>1. \A j \in Points(a.fn, "requires") : j \in 1 .. a.i => j \in 1 .. a.i + 1
    BY <1>0, <1>7
  <2> QED BY ONLY <2>1, QuietLess
<1>11. Framed(b) /\ Entering(b, cell)
  <2>1. Framed(b)
    BY <1>0, <1>4, <1>6 DEF Framed
  <2>2. Len(a.frame) = 1 /\ (Q(1 .. a.i) => a.entry = h)
    BY <1>0 DEF Entering
  <2> HIDE DEF Q, h
  <2>3. Entering(b, cell)
    BY <1>4, <1>6, <1>10, <2>2 DEF Entering, Q
  <2> QED BY <2>1, <2>3
<1>12. Required(b, cell)
  <2>1. ASSUME NEW k \in DOMAIN pre, k < a.i + 1
        PROVE  /\ Q(1 .. k) => Meets(pre[k], a.entry, a.entry, 0)
               /\ Q(k .. a.i + 1) => Meets(pre[k], h, h, 0)
    <3>1. CASE k < a.i
      <4>1. k \in Checked(a)
        BY <3>1 DEF Checked
      <4>2. /\ Q(1 .. k) => Meets(pre[k], a.entry, a.entry, 0)
            /\ Q(k .. a.i) => Meets(pre[k], h, h, 0)
        BY <1>0, <4>1 DEF Required
      <4> QED BY <1>7, <1>9, <4>2
    <3>2. CASE k = a.i
      <4>1. a.i \in 1 .. k /\ a.i \in k .. a.i + 1
        BY <1>0, <3>2
      <4>2. Q(1 .. k) => a.entry = h
        BY <1>0, <3>2 DEF Entering
      <4> QED BY <1>8, <3>2, <4>1, <4>2
    <3> QED BY <1>0, <1>7, <2>1, <3>1, <3>2
  <2> HIDE DEF Q, h
  <2> QED BY <1>4, <1>6, <2>1 DEF Required, Checked, Q
<1>13. Captured(b) /\ Ensured(b, cell)
  BY <1>4 DEF Captured, Ensured
<1> QED BY <1>3, <1>11, <1>12, <1>13 DEF Good

\* With all preconditions met the snapshots can be taken.
LEMMA RequiresMetGood ==
  ASSUME NEW a \in Activation, Good(a, cell), a.at = "requires", cell \in Int,
         a.i \notin DOMAIN Contract[a.fn].requires
  PROVE  /\ [a EXCEPT !.at = "olds", !.i = 1, !.start = Now(a)] \in Activation
         /\ Good([a EXCEPT !.at = "olds", !.i = 1, !.start = Now(a)], cell)
<1> DEFINE pre == Contract[a.fn].requires
           h == Here(a, cell)
           Q(S) == Quiet(a.fn, "requires", S)
<1>0. /\ a.fn \in Fns /\ a.i \in Nat \ {0} /\ a.frame \in Seq(Binding)
      /\ Framed(a) /\ Entering(a, cell) /\ Required(a, cell) /\ Captured(a)
  BY DEF Activation, Good
<1>1. Now(a) = h /\ h \in [x : Int, cell : Int]
  BY <1>0, FindParam DEF Now, Here
<1>2. PICK b \in Activation : b = [a EXCEPT !.at = "olds", !.i = 1, !.start = h]
  <2>1. 1 \in Nat \ {0} /\ "olds" \in {"requires", "olds", "body", "ensures"}
    OBVIOUS
  <2> HIDE DEF h
  <2> QED BY <1>1, <2>1 DEF Activation
<1>3. /\ b.fn = a.fn /\ b.frame = a.frame /\ b.at = "olds" /\ b.i = 1 /\ b.ret = a.ret
      /\ b.entry = a.entry /\ b.start = h
  BY <1>2 DEF Activation
<1>4. Here(b, cell) = h
  BY <1>3 DEF Here, Param
<1>5. Points(a.fn, "requires") = 1 .. Len(pre) /\ Len(pre) \in Nat /\ DOMAIN pre = 1 .. Len(pre)
  BY <1>0, CondTypes, PointsAre
<1>6. a.i > Len(pre) /\ Len(a.frame) = 1
  BY <1>0, <1>5 DEF Entering
<1>7. Framed(b)
  <2>1. \A j \in 2 .. Len(b.frame) : FALSE
    BY <1>3, <1>6
  <2> QED BY <1>0, <1>3, <2>1 DEF Framed
<1>8. Entering(b, cell)
  <2>1. Q(Nat) => Q(1 .. a.i)
    <3>1. \A j \in Points(a.fn, "requires") : j \in 1 .. a.i => j \in Nat
      OBVIOUS
    <3> QED BY ONLY <3>1, QuietLess
  <2>2. Q(1 .. a.i) => a.entry = h
    BY <1>0 DEF Entering
  <2> HIDE DEF h, Q
  <2> QED BY <1>3, <1>4, <2>1, <2>2 DEF Entering, Q
<1>9. Required(b, cell)
  <2>1. ASSUME NEW k \in DOMAIN pre
        PROVE  /\ Q(1 .. k) => Meets(pre[k], a.entry, a.entry, 0)
               /\ Q(k .. Len(pre)) => Meets(pre[k], h, h, 0)
    <3>1. k \in Checked(a)
      BY <1>0, <1>5, <1>6 DEF Checked
    <3>2. /\ Q(1 .. k) => Meets(pre[k], a.entry, a.entry, 0)
          /\ Q(k .. a.i) => Meets(pre[k], h, h, 0)
      BY <1>0, <3>1 DEF Required
    <3>3. Q(k .. Len(pre)) => Q(k .. a.i)
      <4>1. \A j \in Points(a.fn, "requires") : j \in k .. a.i => j \in k .. Len(pre)
        BY <1>0, <1>5
      <4> QED BY ONLY <4>1, QuietLess
    <3> QED BY <3>2, <3>3
  <2> HIDE DEF h, Q
  <2> QED BY <1>3, <2>1 DEF Required, Checked, Q
<1>10. Captured(b)
  <2>1. \A j \in DOMAIN collect_olds(a.fn) : ~(j < 1)
    BY <1>0, OldsAre
  <2> QED BY <1>3, <2>1 DEF Captured
<1>11. Ensured(b, cell)
  BY <1>3 DEF Ensured
<1> QED BY <1>1, <1>2, <1>7, <1>8, <1>9, <1>10, <1>11 DEF Good

\* A snapshot holds what the preconditions left, if no old() operand acts.
LEMMA CaptureOldGood ==
  ASSUME NEW a \in Activation, Good(a, cell), a.at = "olds", cell \in Int,
         a.i \in DOMAIN collect_olds(a.fn),
         NEW node, node = collect_olds(a.fn)[a.i],
         NEW v \in Int, Busy(a) \/ v = Eval(a.frame, node, Inner(a.fn, node)),
         NEW b, b = [a EXCEPT !.frame = bind(@, node, v), !.i = @ + 1]
  PROVE  b \in Activation /\ Good(b, cell)
<1>0. /\ a.fn \in Fns /\ a.i \in Nat \ {0} /\ a.frame \in Seq(Binding) /\ Len(a.frame) \in Nat
      /\ Framed(a) /\ Entering(a, cell) /\ Required(a, cell) /\ Captured(a)
  BY DEF Activation, Good
<1>1. node \in Name /\ OldNode(a.fn, node)
  <2>1. collect_olds(a.fn) \in Seq(Name)
    BY <1>0, OldsAre
  <2>2. collect_olds(a.fn)[a.i] \in Name
    BY <2>1
  <2> QED BY <1>0, <2>2, OldsAre
<1>2. ASSUME Quiet(a.fn, "olds", Nat) PROVE v = Snapshot(a, node)
  <2>1. ~Busy(a)
    BY <1>0, <1>2, NotQuiet DEF Busy
  <2>2. Inner(a.fn, node) # "open"
    BY <1>0, <2>1, PointsAre DEF Busy
  <2>3. v = IF Inner(a.fn, node) = "x" THEN Param(a) ELSE cell
    BY <1>0, <2>1, <2>2, AtCapture
  <2>4. a.start.x = Param(a) /\ a.start.cell = cell
    BY <1>0, <1>2 DEF Entering, Here
  <2> QED BY <2>3, <2>4 DEF Snapshot
<1>3. PICK e \in Binding : e.name = node /\ e.value = v /\ e = [name |-> node, value |-> v]
  BY <1>1 DEF Binding
<1>4. PICK fr \in Seq(Binding) : fr = Append(a.frame, e)
  BY <1>0, AppendProperties
<1>5. /\ Len(fr) = Len(a.frame) + 1 /\ fr[Len(a.frame) + 1] = e
      /\ \A j \in 1 .. Len(a.frame) : fr[j] = a.frame[j]
  BY <1>0, <1>4, AppendProperties
<1>6. b = [a EXCEPT !.frame = fr, !.i = @ + 1]
  BY <1>3, <1>4 DEF bind
<1>7. b \in Activation
  <2>1. a.i + 1 \in Nat \ {0}
    BY <1>0
  <2> QED BY <1>6, <2>1 DEF Activation
<1>8. /\ b.fn = a.fn /\ b.frame = fr /\ b.at = "olds" /\ b.i = a.i + 1 /\ b.ret = a.ret
      /\ b.entry = a.entry /\ b.start = a.start
  BY <1>6 DEF Activation
<1>9. \A n : Snapshot(b, n) = Snapshot(a, n)
  BY <1>8 DEF Snapshot
<1>10. Len(a.frame) >= 1
  BY <1>0 DEF Framed
<1>11. Framed(b)
  <2>1. fr[1] = a.frame[1]
    BY <1>0, <1>5, <1>10
  <2>2. ASSUME Quiet(a.fn, "olds", Nat), NEW j \in 2 .. Len(fr), fr[j].name[1] # 0
        PROVE  fr[j].value = Snapshot(b, fr[j].name)
    <3>1. CASE j \in 2 .. Len(a.frame)
      <4>1. fr[j] = a.frame[j]
        BY <1>0, <1>5, <3>1
      <4> QED BY <1>0, <1>9, <2>2, <3>1, <4>1 DEF Framed
    <3>2. CASE j = Len(a.frame) + 1
      BY <1>2, <1>3, <1>5, <1>9, <2>2, <3>2
    <3> QED BY <1>0, <1>5, <3>1, <3>2
  <2> QED BY <1>0, <1>5, <1>8, <1>10, <2>1, <2>2, SMTT(60) DEF Framed
<1>12. Here(b, cell) = Here(a, cell)
  BY <1>0, <1>5, <1>8, <1>10 DEF Here, Param
<1>13. Entering(b, cell)
  BY <1>0, <1>8, <1>12 DEF Entering
<1>14. Required(b, cell)
  BY <1>0, <1>8 DEF Required, Checked
<1>15. Captured(b)
  <2>1. ASSUME NEW j \in DOMAIN collect_olds(a.fn), j < a.i + 1
        PROVE  \E m \in 2 .. Len(fr) : fr[m].name = collect_olds(a.fn)[j]
    <3>0. j \in Nat
      BY <1>0, OldsAre
    <3>1. CASE j < a.i
      <4>1. PICK m \in 2 .. Len(a.frame) : a.frame[m].name = collect_olds(a.fn)[j]
        BY <1>0, <3>1 DEF Captured
      <4>2. m \in 2 .. Len(fr) /\ fr[m] = a.frame[m]
        BY <1>0, <1>5
      <4> QED BY <4>1, <4>2
    <3>2. CASE j = a.i
      <4>1. Len(a.frame) + 1 \in 2 .. Len(fr)
        BY <1>0, <1>5, <1>10
      <4> QED BY <1>3, <1>5, <3>2, <4>1
    <3> QED BY <1>0, <2>1, <3>0, <3>1, <3>2
  <2> QED BY <1>8, <2>1 DEF Captured
<1>16. Ensured(b, cell)
  BY <1>8 DEF Ensured
<1> QED BY <1>7, <1>11, <1>13, <1>14, <1>15, <1>16 DEF Good

\* A body starts with every snapshot taken.
LEMMA BeginBodyGood ==
  ASSUME NEW a \in Activation, Good(a, cell), a.at = "olds",
         a.i \notin DOMAIN collect_olds(a.fn)
  PROVE  /\ [a EXCEPT !.at = "body", !.i = 1] \in Activation
         /\ Good([a EXCEPT !.at = "body", !.i = 1], cell)
<1>0. /\ a.fn \in Fns /\ a.i \in Nat \ {0}
      /\ Framed(a) /\ Entering(a, cell) /\ Required(a, cell) /\ Captured(a)
  BY DEF Activation, Good
<1>1. PICK b \in Activation : b = [a EXCEPT !.at = "body", !.i = 1]
  <2>1. 1 \in Nat \ {0} /\ "body" \in {"requires", "olds", "body", "ensures"}
    OBVIOUS
  <2> QED BY <2>1 DEF Activation
<1>2. /\ b.fn = a.fn /\ b.frame = a.frame /\ b.at = "body" /\ b.i = 1 /\ b.ret = a.ret
      /\ b.entry = a.entry /\ b.start = a.start
  BY <1>1 DEF Activation
<1>3. Framed(b)
  BY <1>0, <1>2 DEF Framed, Snapshot
<1>4. Entering(b, cell)
  BY <1>0, <1>2 DEF Entering
<1>5. Required(b, cell)
  BY <1>0, <1>2 DEF Required, Checked
<1>6. Captured(b)
  <2>1. \A j \in DOMAIN collect_olds(a.fn) : j < a.i
    <3>1. collect_olds(a.fn) \in Seq(Name)
      BY <1>0, OldsAre
    <3>2. DOMAIN collect_olds(a.fn) = 1 .. Len(collect_olds(a.fn)) /\ Len(collect_olds(a.fn)) \in Nat
      BY <3>1
    <3> QED BY <1>0, <3>2
  <2> QED BY <1>0, <1>2, <2>1 DEF Captured
<1>7. Ensured(b, cell)
  BY <1>2 DEF Ensured
<1> QED BY <1>1, <1>3, <1>4, <1>5, <1>6, <1>7 DEF Good

\* Where an activation acts nothing is claimed of the present: not of the first
\* conditions up to here, nor of the last ones from here on.
LEMMA BusyQuiet ==
  ASSUME NEW a \in Activation, Busy(a)
  PROVE  /\ ~Quiet(a.fn, a.at, Nat) /\ ~Quiet(a.fn, a.at, 1 .. a.i)
         /\ \A k \in Nat : k < a.i => ~Quiet(a.fn, a.at, k .. a.i)
<1>1. a.i \in Nat \ {0}
  BY DEF Activation
<1>2. a.i \in Nat /\ a.i \in 1 .. a.i /\ \A k \in Nat : k < a.i => a.i \in k .. a.i
  BY <1>1
<1> QED BY <1>2, NotQuiet DEF Busy

\* What holds of an activation where it acts holds whatever the cell holds.
LEMMA BusyGood ==
  ASSUME NEW a \in Activation, NEW c, NEW d, Good(a, c), Busy(a)
  PROVE  Good(a, d)
<1>1. Framed(a) /\ Entering(a, c) /\ Required(a, c) /\ Captured(a) /\ Ensured(a, c) /\ a.fn \in Fns
  BY DEF Good, Activation
<1>2. /\ DOMAIN Contract[a.fn].requires \subseteq Nat
      /\ DOMAIN Contract[a.fn].ensures \subseteq Nat
  BY <1>1, CondTypes
<1>3. Entering(a, d)
  BY <1>1, BusyQuiet DEF Entering
<1>4. Required(a, d)
  <2>1. \A k \in Checked(a) : a.at = "requires" => k < a.i /\ k \in Nat
    BY <1>2 DEF Checked
  <2> QED BY <1>1, <2>1, BusyQuiet DEF Required
<1>5. Ensured(a, d)
  BY <1>1, <1>2, BusyQuiet DEF Ensured
<1> QED BY <1>1, <1>3, <1>4, <1>5 DEF Good

\* An assignment changes a variable of the program's and nothing a snapshot is
\* kept in.
LEMMA AssignGood ==
  ASSUME NEW a \in Activation, Good(a, cell), Busy(a), NEW n, NEW v \in Int,
         Bound(a.frame, Source(n))
  PROVE  /\ [a EXCEPT !.frame[First(a.frame, Source(n))].value = v] \in Activation
         /\ Good([a EXCEPT !.frame[First(a.frame, Source(n))].value = v], cell)
         /\ Busy([a EXCEPT !.frame[First(a.frame, Source(n))].value = v])
<1>0. /\ a.fn \in Fns /\ a.frame \in Seq(Binding) /\ Len(a.frame) \in Nat
      /\ Framed(a) /\ Entering(a, cell) /\ Required(a, cell) /\ Captured(a) /\ Ensured(a, cell)
  BY DEF Activation, Good
<1>1. PICK m \in 1 .. Len(a.frame) : m = First(a.frame, Source(n)) /\ a.frame[m].name = Source(n)
  BY <1>0, FirstExists
<1>2. PICK fr : fr = [a.frame EXCEPT ![m].value = v]
  OBVIOUS
<1>3. /\ fr \in Seq(Binding) /\ Len(fr) = Len(a.frame)
      /\ \A j \in 1 .. Len(fr) : fr[j].name = a.frame[j].name /\ (j # m => fr[j] = a.frame[j])
  <2>1. PICK e : e = [a.frame[m] EXCEPT !.value = v]
    OBVIOUS
  <2>2. a.frame[m] \in Binding
    BY <1>0, <1>1
  <2>3. e \in Binding /\ e.name = a.frame[m].name
    BY <2>1, <2>2 DEF Binding
  <2>4. fr = [a.frame EXCEPT ![m] = e]
    BY <1>2, <2>1
  <2>5. fr \in Seq(Binding) /\ Len(fr) = Len(a.frame)
    BY <1>0, <1>1, <2>3, <2>4
  <2>6. \A j \in 1 .. Len(a.frame) : fr[j] = IF j = m THEN e ELSE a.frame[j]
    BY <1>0, <2>4
  <2> QED BY <2>3, <2>5, <2>6
<1>4. [a EXCEPT !.frame[First(a.frame, Source(n))].value = v] = [a EXCEPT !.frame = fr]
  BY <1>1, <1>2
<1>5. PICK b : b = [a EXCEPT !.frame = fr]
  OBVIOUS
<1>6. b \in Activation
  BY <1>3, <1>5 DEF Activation
<1>7. /\ b.fn = a.fn /\ b.frame = fr /\ b.at = a.at /\ b.i = a.i /\ b.ret = a.ret
      /\ b.entry = a.entry /\ b.start = a.start
  BY <1>5 DEF Activation
<1>8. Busy(b)
  BY <1>7 DEF Busy
<1>9. Framed(b)
  <2>1. \A j \in 2 .. Len(fr) : fr[j].name[1] # 0 => fr[j] = a.frame[j]
    <3>1. Source(n)[1] = 0
      BY DEF Source
    <3> QED BY <1>0, <1>1, <1>3, <3>1
  <2>2. \A s : Snapshot(b, s) = Snapshot(a, s)
    BY <1>7 DEF Snapshot
  <2>3. Len(fr) >= 1 /\ fr[1].name = Source("x")
    BY <1>0, <1>3 DEF Framed
  <2> QED BY <1>0, <1>3, <1>7, <2>1, <2>2, <2>3 DEF Framed
<1>10. Entering(b, cell)
  BY <1>0, <1>3, <1>6, <1>7, <1>8, BusyQuiet DEF Entering
<1>11. Required(b, cell)
  <2>0. DOMAIN Contract[a.fn].requires \subseteq Nat
    BY <1>0, CondTypes
  <2>1. \A k \in Checked(a) : a.at = "requires" => k < a.i /\ k \in Nat
    BY <2>0 DEF Checked
  <2>2. Checked(b) = Checked(a)
    BY <1>7 DEF Checked
  <2>3. \A k \in Checked(a) : ~(a.at = "requires" /\ Quiet(a.fn, "requires", k .. a.i))
    BY <2>1, BusyQuiet
  <2> QED BY <1>0, <1>7, <2>2, <2>3 DEF Required
<1>12. Captured(b)
  <2>1. \A j \in 2 .. Len(a.frame) : j \in 2 .. Len(fr) /\ fr[j].name = a.frame[j].name
    BY <1>0, <1>3
  <2> QED BY <1>0, <1>7, <2>1 DEF Captured
<1>13. Ensured(b, cell)
  <2>1. DOMAIN Contract[a.fn].ensures \subseteq Nat
    BY <1>0, CondTypes
  <2>2. Len(fr) \in 1 .. Len(fr)
    BY <1>0, <1>1, <1>3
  <2>3. a.at = "ensures" => ~Quiet(a.fn, "ensures", 1 .. a.i)
    BY BusyQuiet
  <2>4. \A k \in DOMAIN Contract[a.fn].ensures :
          k < a.i /\ a.at = "ensures" => ~Quiet(a.fn, "ensures", k .. a.i)
    BY <2>1, BusyQuiet
  <2> QED BY <1>0, <1>3, <1>7, <2>2, <2>3, <2>4 DEF Ensured
<1> QED BY <1>4, <1>5, <1>6, <1>8, <1>9, <1>10, <1>11, <1>12, <1>13 DEF Good

\* A name of the program's that is bound in the body leaves the rest in place.
LEMMA AppendKeeps ==
  ASSUME NEW a \in Activation, Good(a, cell), a.at = "body",
         NEW e \in Binding, e.name[1] = 0,
         NEW b \in Activation, b.fn = a.fn, b.frame = Append(a.frame, e), b.start = a.start,
         b.at \in {"body", "ensures"}
  PROVE  /\ Len(b.frame) = Len(a.frame) + 1 /\ b.frame[Len(b.frame)] = e
         /\ Len(b.frame) >= 2 /\ Framed(b) /\ Captured(b)
<1> DEFINE fr == b.frame
<1>0. /\ a.fn \in Fns /\ a.frame \in Seq(Binding) /\ Len(a.frame) \in Nat
      /\ Framed(a) /\ Captured(a) /\ Len(a.frame) >= 1
  BY DEF Activation, Good, Framed
<1>1. /\ Len(fr) = Len(a.frame) + 1 /\ fr[Len(a.frame) + 1] = e
      /\ \A j \in 1 .. Len(a.frame) : fr[j] = a.frame[j]
  BY <1>0, AppendProperties
<1>2. \A m : Snapshot(b, m) = Snapshot(a, m)
  BY DEF Snapshot
<1>3. Framed(b)
  <2>1. fr[1] = a.frame[1]
    BY <1>0, <1>1
  <2>2. ASSUME Quiet(a.fn, "olds", Nat), NEW j \in 2 .. Len(fr), fr[j].name[1] # 0
        PROVE  fr[j].value = Snapshot(b, fr[j].name)
    <3>1. CASE j \in 2 .. Len(a.frame)
      <4>1. fr[j] = a.frame[j]
        BY <1>0, <1>1, <3>1
      <4> QED BY <1>0, <1>2, <2>2, <3>1, <4>1 DEF Framed
    <3>2. CASE j = Len(a.frame) + 1
      BY <1>1, <2>2, <3>2
    <3> QED BY <1>0, <1>1, <3>1, <3>2
  <2> QED BY <1>0, <1>1, <2>1, <2>2 DEF Framed
<1>4. Captured(b)
  <2>1. \A m \in 2 .. Len(a.frame) : m \in 2 .. Len(fr) /\ fr[m] = a.frame[m]
    BY <1>0, <1>1
  <2>2. \A j \in DOMAIN collect_olds(a.fn) : \E m \in 2 .. Len(a.frame) : a.frame[m].name = collect_olds(a.fn)[j]
    BY <1>0 DEF Captured
  <2> QED BY <2>1, <2>2 DEF Captured
<1> QED BY <1>0, <1>1, <1>3, <1>4

\* A local that is declared.
LEMMA LetGood ==
  ASSUME NEW a \in Activation, Good(a, cell), a.at = "body", NEW n \in Locals, NEW v \in Int
  PROVE  /\ [a EXCEPT !.frame = bind(@, Source(n), v)] \in Activation
         /\ Good([a EXCEPT !.frame = bind(@, Source(n), v)], cell)
<1>0. Entering(a, cell) /\ Required(a, cell) /\ a.frame \in Seq(Binding)
  BY DEF Good, Activation
<1>1. PICK e \in Binding : e = [name |-> Source(n), value |-> v]
  BY DEF Source, Name, Binding
<1>2. PICK fr \in Seq(Binding) : fr = Append(a.frame, e)
  BY <1>0, AppendProperties
<1>3. PICK b \in Activation : b = [a EXCEPT !.frame = fr]
  BY DEF Activation
<1>4. b = [a EXCEPT !.frame = bind(@, Source(n), v)]
  BY <1>1, <1>2, <1>3 DEF bind
<1>5. /\ b.fn = a.fn /\ b.frame = Append(a.frame, e) /\ b.at = "body" /\ b.i = a.i
      /\ b.ret = a.ret /\ b.entry = a.entry /\ b.start = a.start
  BY <1>2, <1>3 DEF Activation
<1>6. e.name[1] = 0
  BY <1>1 DEF Source
<1>7. Framed(b) /\ Captured(b)
  BY <1>5, <1>6, AppendKeeps
<1>8. Entering(b, cell)
  BY <1>0, <1>5 DEF Entering
<1>9. Required(b, cell) /\ Ensured(b, cell)
  BY <1>0, <1>5 DEF Required, Checked, Ensured
<1> QED BY <1>4, <1>7, <1>8, <1>9 DEF Good

\* The result is bound last, and no postcondition has been looked at.
LEMMA EndBodyGood ==
  ASSUME NEW a \in Activation, Good(a, cell), a.at = "body", NEW v \in Int
  PROVE  LET b == [a EXCEPT !.at = "ensures", !.ret = v,
                            !.frame = IF Contract[a.fn].ensures = <<>> THEN @
                                      ELSE bind(@, Source("result"), v)]
         IN  b \in Activation /\ Good(b, cell)
<1>0. /\ Required(a, cell) /\ Framed(a) /\ Entering(a, cell) /\ Captured(a) /\ a.fn \in Fns
      /\ a.frame \in Seq(Binding) /\ a.i = 1
  BY DEF Good, Activation, Required
<1>1. PICK e \in Binding : e = [name |-> Source("result"), value |-> v]
  BY DEF Source, Name, Binding
<1>2. PICK fr \in Seq(Binding) : fr = IF Contract[a.fn].ensures = <<>> THEN a.frame ELSE Append(a.frame, e)
  BY <1>0, AppendProperties
<1>3. PICK b : b = [a EXCEPT !.at = "ensures", !.ret = v, !.frame = fr]
  OBVIOUS
<1>4. b \in Activation
  <2>1. "ensures" \in {"requires", "olds", "body", "ensures"}
    OBVIOUS
  <2> QED BY <1>3, <2>1 DEF Activation
<1>5. /\ b.fn = a.fn /\ b.frame = fr /\ b.at = "ensures" /\ b.i = 1 /\ b.ret = v
      /\ b.entry = a.entry /\ b.start = a.start
  BY <1>0, <1>3 DEF Activation
<1>6. b = [a EXCEPT !.at = "ensures", !.ret = v,
                    !.frame = IF Contract[a.fn].ensures = <<>> THEN @
                              ELSE bind(@, Source("result"), v)]
  BY <1>1, <1>2, <1>3 DEF bind
<1>7. e.name[1] = 0 /\ e.name = Source("result") /\ e.value = v
  BY <1>1 DEF Source
<1>8. ASSUME Contract[a.fn].ensures # <<>>
      PROVE  Len(fr) >= 2 /\ fr[Len(fr)] = e /\ Framed(b) /\ Captured(b)
  BY <1>2, <1>4, <1>5, <1>7, <1>8, AppendKeeps
<1>9. Framed(b) /\ Captured(b)
  <2>1. ASSUME Contract[a.fn].ensures = <<>> PROVE Framed(b) /\ Captured(b)
    <3>1. fr = a.frame
      BY <1>2, <2>1
    <3>2. \A n : Snapshot(b, n) = Snapshot(a, n)
      BY <1>5 DEF Snapshot
    <3> QED BY <1>0, <1>5, <3>1, <3>2 DEF Framed, Captured
  <2> QED BY <1>8, <2>1
<1>10. Required(b, cell)
  BY <1>0, <1>5 DEF Required, Checked
<1>11. Entering(b, cell)
  BY <1>0, <1>5 DEF Entering
<1>12. Ensured(b, cell)
  <2>1. \A k \in DOMAIN Contract[a.fn].ensures : ~(k < 1)
    BY <1>0, CondTypes
  <2> QED BY <1>5, <1>7, <1>8, <2>1 DEF Ensured
<1> QED BY <1>4, <1>6, <1>9, <1>10, <1>11, <1>12 DEF Good

\* A postcondition that comes out true is one more that is met, if it cannot act.
LEMMA EnsuresGood ==
  ASSUME NEW a \in Activation, Good(a, cell), a.at = "ensures",
         a.i \in DOMAIN Contract[a.fn].ensures,
         Busy(a) \/ Holds(a.frame, a.i, Contract[a.fn].ensures[a.i])
  PROVE  [a EXCEPT !.i = @ + 1] \in Activation /\ Good([a EXCEPT !.i = @ + 1], cell)
<1> DEFINE post == Contract[a.fn].ensures
           c == post[a.i]
           h == Here(a, cell)
           Q(S) == Quiet(a.fn, "ensures", S)
<1>0. /\ a.fn \in Fns /\ a.i \in Nat \ {0}
      /\ Framed(a) /\ Entering(a, cell) /\ Required(a, cell) /\ Captured(a) /\ Ensured(a, cell)
  BY DEF Activation, Good
<1>1. c.l \in Operand /\ c.r \in Operand /\ c.d \in Int
  BY <1>0, CondTypes
<1>2. a.i + 1 \in Nat \ {0}
  BY <1>0
<1>3. PICK b \in Activation : b = [a EXCEPT !.i = @ + 1]
  BY <1>2 DEF Activation
<1>4. /\ b.fn = a.fn /\ b.frame = a.frame /\ b.at = "ensures" /\ b.i = a.i + 1 /\ b.ret = a.ret
      /\ b.entry = a.entry /\ b.start = a.start
  BY <1>3 DEF Activation
<1>5. Points(a.fn, "ensures") = 1 .. Len(post) /\ Len(post) \in Nat /\ DOMAIN post = 1 .. Len(post) /\ post # <<>>
  <2>1. post # <<>>
    OBVIOUS
  <2> QED BY <1>0, <2>1, CondTypes, PointsAre
<1>6. ASSUME Q(a.i .. a.i + 1), Lasting(a, a.i) PROVE Meets(c, h, a.start, a.ret)
  <2>0. Holds(a.frame, a.i, c)
    <3>1. a.i \in a.i .. a.i + 1
      BY <1>0
    <3> QED BY <1>6, <3>1, NotQuiet DEF Busy
  <2>1. Eval(a.frame, <<a.i, "l">>, c.l) >= Eval(a.frame, <<a.i, "r">>, c.r) + c.d
    BY <2>0 DEF Holds
  <2>2. Q(a.i .. a.i)
    <3>1. \A j \in Points(a.fn, "ensures") : j \in a.i .. a.i => j \in a.i .. a.i + 1
      BY <1>0, <1>5
    <3> QED BY ONLY <1>6, <3>1, QuietLess
  <2>3. Eval(a.frame, <<a.i, "l">>, c.l) = Means(c.l, h, a.start, a.ret)
    BY <1>1, <1>6, <2>2, OnExit
  <2>4. Eval(a.frame, <<a.i, "r">>, c.r) = Means(c.r, h, a.start, a.ret)
    BY <1>1, <1>6, <2>2, OnExit
  <2> QED BY <2>1, <2>3, <2>4 DEF Meets
<1>7. \A n : Snapshot(b, n) = Snapshot(a, n)
  BY <1>4 DEF Snapshot
<1>8. Framed(b) /\ Entering(b, cell)
  BY <1>0, <1>4, <1>7 DEF Framed, Entering
<1>9. Required(b, cell)
  BY <1>0, <1>4 DEF Required, Checked
<1>10. Captured(b)
  BY <1>0, <1>4 DEF Captured
<1>11. Ensured(b, cell)
  <2>1. Here(b, cell) = h
    BY <1>4 DEF Here, Param
  <2>2. \A k : Lasting(b, k) <=> Lasting(a, k)
    BY <1>4 DEF Lasting, NoOwnResult
  <2>3. ASSUME NEW k \in DOMAIN post, k < a.i + 1, Q(k .. a.i + 1), Lasting(a, k)
        PROVE  Meets(post[k], h, a.start, a.ret)
    <3>1. CASE k < a.i
      <4>1. \A j \in Points(a.fn, "ensures") : j \in k .. a.i => j \in k .. a.i + 1
        BY <1>0, <1>5
      <4>2. Q(k .. a.i)
        BY ONLY <2>3, <4>1, QuietLess
      <4> QED BY <1>0, <1>5, <2>3, <3>1, <4>2 DEF Ensured
    <3>2. CASE k = a.i
      BY <1>6, <2>3, <3>2
    <3> QED BY <1>0, <1>5, <2>3, <3>1, <3>2
  <2>4. Q(1 .. a.i + 1) => Q(1 .. a.i)
    <3>1. \A j \in Points(a.fn, "ensures") : j \in 1 .. a.i => j \in 1 .. a.i + 1
      BY <1>0, <1>5
    <3> QED BY ONLY <3>1, QuietLess
  <2>5. /\ Len(a.frame) >= 2 /\ a.frame[Len(a.frame)].name = Source("result")
        /\ Q(1 .. a.i) => a.frame[Len(a.frame)].value = a.ret
    BY <1>0, <1>5 DEF Ensured
  <2> HIDE DEF h, Q
  <2> QED BY <1>4, <2>1, <2>2, <2>3, <2>4, <2>5 DEF Ensured, Q
<1> QED BY <1>3, <1>8, <1>9, <1>10, <1>11 DEF Good
-----------------------------------------------------------------------------
(* What a step makes of the stack.                                           *)

\* The memory may change while all activations are where they may act.
LEMMA CellSound ==
  ASSUME NEW st, NEW c, NEW d \in Int, Sound(st, c), st # <<>>, Busy(st[Len(st)])
  PROVE  Sound(st, d)
<1>1. st \in Seq(Activation) /\ Len(st) \in Nat
  BY DEF Sound
<1>2. \A n \in 1 .. Len(st) : Busy(st[n])
  <2>1. \A n \in 1 .. Len(st) : n = Len(st) \/ n \in 1 .. Len(st) - 1
    BY <1>1
  <2> QED BY <2>1 DEF Sound
<1>3. \A n \in 1 .. Len(st) : Good(st[n], d)
  <2> SUFFICES ASSUME NEW n \in 1 .. Len(st) PROVE Good(st[n], d)
    OBVIOUS
  <2>1. Good(st[n], c) /\ Busy(st[n]) /\ st[n] \in Activation
    BY <1>1, <1>2 DEF Sound
  <2> QED BY <2>1, BusyGood
<1> QED BY <1>1, <1>2, <1>3 DEF Sound

\* The activation on top is replaced.
LEMMA UpdateSound ==
  ASSUME NEW st, NEW c, Sound(st, c), st # <<>>, NEW b \in Activation, Good(b, c)
  PROVE  Sound([st EXCEPT ![Len(st)] = b], c)
<1>1. st \in Seq(Activation) /\ Len(st) \in Nat /\ c \in Int
  BY DEF Sound
<1>2. PICK t : t = [st EXCEPT ![Len(st)] = b]
  OBVIOUS
<1>3. t \in Seq(Activation) /\ Len(t) = Len(st)
  BY <1>1, <1>2
<1>4. \A n \in 1 .. Len(st) : t[n] = IF n = Len(st) THEN b ELSE st[n]
  BY <1>1, <1>2
<1>5. \A n \in 1 .. Len(t) - 1 : Busy(t[n])
  <2>1. \A n \in 1 .. Len(st) - 1 : n \in 1 .. Len(st) /\ n # Len(st)
    BY <1>1
  <2> QED BY <1>3, <1>4, <2>1 DEF Sound
<1>6. \A n \in 1 .. Len(t) : Good(t[n], c)
  BY <1>3, <1>4 DEF Sound
<1> QED BY <1>1, <1>2, <1>3, <1>5, <1>6 DEF Sound

\* A call of an activation that may act.
LEMMA PushSound ==
  ASSUME NEW st, NEW c, Sound(st, c), st # <<>>, Busy(st[Len(st)]),
         NEW b \in Activation, Good(b, c)
  PROVE  Sound(Append(st, b), c)
<1>1. st \in Seq(Activation) /\ Len(st) \in Nat /\ c \in Int
  BY DEF Sound
<1>2. PICK t : t = Append(st, b)
  OBVIOUS
<1>3. /\ t \in Seq(Activation) /\ Len(t) = Len(st) + 1 /\ t[Len(st) + 1] = b
      /\ \A n \in 1 .. Len(st) : t[n] = st[n]
  BY <1>1, <1>2, AppendProperties
<1>4. \A n \in 1 .. Len(t) : n \in 1 .. Len(st) \/ n = Len(st) + 1
  BY <1>1, <1>3
<1>5. \A n \in 1 .. Len(t) - 1 : Busy(t[n])
  <2>1. \A n \in 1 .. Len(t) - 1 : n \in 1 .. Len(st) /\ (n = Len(st) \/ n \in 1 .. Len(st) - 1)
    BY <1>1, <1>3
  <2> QED BY <1>3, <2>1 DEF Sound
<1>6. \A n \in 1 .. Len(t) : Good(t[n], c)
  BY <1>3, <1>4 DEF Sound
<1> QED BY <1>1, <1>2, <1>3, <1>5, <1>6 DEF Sound

\* A return.
LEMMA PopSound ==
  ASSUME NEW st, NEW c, Sound(st, c), st # <<>>
  PROVE  Sound(SubSeq(st, 1, Len(st) - 1), c)
<1>1. st \in Seq(Activation) /\ Len(st) \in Nat /\ c \in Int
  BY DEF Sound
<1>2. PICK t : t = SubSeq(st, 1, Len(st) - 1)
  OBVIOUS
<1>3. /\ t \in Seq(Activation) /\ Len(t) = Len(st) - 1
      /\ \A n \in 1 .. Len(st) - 1 : t[n] = st[n]
  <2>1. Len(st) - 1 \in 0 .. Len(st)
    BY <1>1
  <2> QED BY <1>1, <1>2, <2>1, Front
<1>4. \A n \in 1 .. Len(t) : n \in 1 .. Len(st) - 1 /\ n \in 1 .. Len(st)
  BY <1>1, <1>3
<1>5. \A n \in 1 .. Len(t) - 1 : n \in 1 .. Len(t)
  BY <1>1, <1>3
<1> QED BY <1>1, <1>2, <1>3, <1>4, <1>5 DEF Sound

\* The run is over.
LEMMA StoppedSound == ASSUME NEW c \in Int PROVE Sound(<<>>, c)
<1>1. <<>> \in Seq(Activation) /\ Len(<<>>) = 0
  OBVIOUS
<1> QED BY <1>1 DEF Sound

\* The activation on top.
LEMMA TopIs ==
  ASSUME KInv, Running
  PROVE  Top \in Activation /\ Good(Top, cell) /\ cell \in Int /\ Top.fn \in Fns
<1>1. stack \in Seq(Activation) /\ Len(stack) \in 1 .. Len(stack) /\ cell \in Int
  BY DEF KInv, Sound, Running
<1>2. Top \in Activation
  BY <1>1 DEF Top
<1> QED BY <1>1, <1>2 DEF KInv, Sound, Top, Activation
-----------------------------------------------------------------------------
(* The invariant is inductive.                                               *)

LEMMA InitKInv == Init => KInv
<1> SUFFICES ASSUME cell \in Vals, NEW f \in Fns, NEW x \in Vals, stack = <<Enter(f, x)>>
             PROVE  KInv
  BY DEF Init
<1>1. cell \in Int /\ x \in Int
  BY ContractsAssumption
<1>2. Enter(f, x) \in Activation /\ Good(Enter(f, x), cell)
  BY <1>1, EnterGood
<1>3. PICK b \in Activation : b = Enter(f, x)
  BY <1>2
<1>4. stack \in Seq(Activation) /\ Len(stack) = 1 /\ stack[1] = b
  BY <1>3
<1> QED BY <1>1, <1>2, <1>3, <1>4 DEF KInv, Sound

\* A condition comes out as it holds, unless it acts.
LEMMA CheckIs ==
  ASSUME NEW k, NEW c, Check(k, c), Running
  PROVE  \/ /\ Busy(Top) \/ Holds(Top.frame, k, c)
            /\ Update([Top EXCEPT !.i = @ + 1]) /\ UNCHANGED cell
         \/ Die
<1>1. PICK ok \in Outcomes(k, c) :
        IF ok THEN Update([Top EXCEPT !.i = @ + 1]) /\ UNCHANGED cell ELSE Die
  BY DEF Check
<1>2. ~Busy(Top) => ok = Holds(Top.frame, k, c)
  BY DEF Outcomes, Working, Busy
<1>3. CASE Busy(Top)
  BY <1>1, <1>3
<1>4. CASE ~Busy(Top)
  BY <1>1, <1>2, <1>4
<1> QED BY <1>3, <1>4

\* The steps that look at the contract.
LEMMA CheckSteps ==
  ASSUME KInv, Requires \/ RequiresMet \/ CaptureOld \/ BeginBody \/ Ensures
  PROVE  KInv'
<1>0. Running
  BY DEF Requires, RequiresMet, CaptureOld, BeginBody, Ensures
<1>1. Top \in Activation /\ Good(Top, cell) /\ cell \in Int /\ stack # <<>> /\ Sound(stack, cell)
  BY <1>0, TopIs DEF Running, KInv
<1>2. ASSUME NEW b \in Activation, Good(b, cell), Update(b), UNCHANGED cell PROVE KInv'
  <2>1. Sound([stack EXCEPT ![Len(stack)] = b], cell)
    BY <1>1, <1>2, UpdateSound
  <2> QED BY <1>2, <2>1 DEF Update, KInv
<1>3. ASSUME Die PROVE KInv'
  BY <1>1, <1>3, StoppedSound DEF Die, KInv
<1>4. CASE Requires
  <2>1. /\ Top.at = "requires" /\ Top.i \in DOMAIN Contract[Top.fn].requires
        /\ Check(0, Contract[Top.fn].requires[Top.i])
    BY <1>4 DEF Requires
  <2>2. CASE /\ Busy(Top) \/ Holds(Top.frame, 0, Contract[Top.fn].requires[Top.i])
             /\ Update([Top EXCEPT !.i = @ + 1]) /\ UNCHANGED cell
    <3>1. [Top EXCEPT !.i = @ + 1] \in Activation /\ Good([Top EXCEPT !.i = @ + 1], cell)
      BY <1>1, <2>1, <2>2, RequiresGood
    <3> QED BY <1>2, <2>2, <3>1
  <2> QED BY <1>0, <1>3, <2>1, <2>2, CheckIs
<1>5. CASE RequiresMet
  <2>1. /\ Top.at = "requires" /\ Top.i \notin DOMAIN Contract[Top.fn].requires
        /\ Update([Top EXCEPT !.at = "olds", !.i = 1, !.start = Now(Top)]) /\ UNCHANGED cell
    BY <1>5 DEF RequiresMet
  <2> QED BY <1>1, <1>2, <2>1, RequiresMetGood
<1>6. CASE CaptureOld
  <2> DEFINE node == collect_olds(Top.fn)[Top.i]
             b(v) == [Top EXCEPT !.frame = bind(@, node, v), !.i = @ + 1]
  <2>1. Top.at = "olds" /\ Top.i \in DOMAIN collect_olds(Top.fn) /\ UNCHANGED cell
    BY <1>6 DEF CaptureOld
  <2>2. PICK v \in Captures(node) : Update(b(v))
    BY <1>6 DEF CaptureOld
  <2>3. v \in Int /\ (Busy(Top) \/ v = Eval(Top.frame, node, Inner(Top.fn, node)))
    <3>1. CASE Busy(Top)
      BY <1>0, <3>1, ContractsAssumption DEF Captures, Working, Busy
    <3>2. CASE ~Busy(Top)
      <4>1. v = Eval(Top.frame, node, Inner(Top.fn, node))
        BY <3>2 DEF Captures, Working, Busy
      <4>2. Inner(Top.fn, node) # "open"
        BY <1>1, <2>1, <3>2, PointsAre DEF Busy, Activation
      <4>3. Eval(Top.frame, node, Inner(Top.fn, node)) \in Int
        BY <1>1, <4>2, AtCapture DEF Good
      <4> QED BY <4>1, <4>3
    <3> QED BY <3>1, <3>2
  <2>4. b(v) \in Activation /\ Good(b(v), cell)
    BY <1>1, <2>1, <2>3, CaptureOldGood
  <2> QED BY <1>2, <2>1, <2>2, <2>4
<1>7. CASE BeginBody
  <2>1. /\ Top.at = "olds" /\ Top.i \notin DOMAIN collect_olds(Top.fn)
        /\ Update([Top EXCEPT !.at = "body", !.i = 1]) /\ UNCHANGED cell
    BY <1>7 DEF BeginBody
  <2> QED BY <1>1, <1>2, <2>1, BeginBodyGood
<1>8. CASE Ensures
  <2>1. /\ Top.at = "ensures" /\ Top.i \in DOMAIN Contract[Top.fn].ensures
        /\ Check(Top.i, Contract[Top.fn].ensures[Top.i])
    BY <1>8 DEF Ensures
  <2>2. CASE /\ Busy(Top) \/ Holds(Top.frame, Top.i, Contract[Top.fn].ensures[Top.i])
             /\ Update([Top EXCEPT !.i = @ + 1]) /\ UNCHANGED cell
    <3>1. [Top EXCEPT !.i = @ + 1] \in Activation /\ Good([Top EXCEPT !.i = @ + 1], cell)
      BY <1>1, <2>1, <2>2, EnsuresGood
    <3> QED BY <1>2, <2>2, <3>1
  <2> QED BY <1>0, <1>3, <2>1, <2>2, CheckIs
<1> QED BY <1>4, <1>5, <1>6, <1>7, <1>8

\* The steps of what may act, and the return.
LEMMA BodySteps ==
  ASSUME KInv,
         \/ \E v \in Vals : AssignCell(v) \/ EndBody(v)
         \/ \E n \in Locals \cup {"x", "result"}, v \in Vals : Assign(n, v)
         \/ \E n \in Locals, v \in Vals : Let(n, v)
         \/ \E f \in Fns, x \in Vals : Call(f, x)
         \/ Fail \/ Return
  PROVE  KInv'
<1>0. Running
  BY DEF Assign, AssignCell, EndBody, Let, Call, Fail, Return, InBody, Working
<1>1. /\ Top \in Activation /\ Good(Top, cell) /\ cell \in Int /\ stack # <<>> /\ Sound(stack, cell)
      /\ Vals \subseteq Int
  BY <1>0, TopIs, ContractsAssumption DEF Running, KInv
<1>2. ASSUME NEW b \in Activation, Good(b, cell), Update(b), UNCHANGED cell PROVE KInv'
  <2>1. Sound([stack EXCEPT ![Len(stack)] = b], cell)
    BY <1>1, <1>2, UpdateSound
  <2> QED BY <1>2, <2>1 DEF Update, KInv
<1>3. ASSUME NEW n, NEW v \in Vals, Assign(n, v) PROVE KInv'
  <2>1. v \in Int /\ Busy(Top) /\ UNCHANGED cell /\ Bound(Top.frame, Source(n))
        /\ Update([Top EXCEPT !.frame[First(Top.frame, Source(n))].value = v])
    BY <1>1, <1>3 DEF Assign, Working, Busy
  <2> QED BY <1>1, <1>2, <2>1, AssignGood
<1>4. ASSUME NEW v \in Vals, AssignCell(v) PROVE KInv'
  <2>1. v \in Int /\ Busy(stack[Len(stack)]) /\ cell' = v /\ stack' = stack
    BY <1>1, <1>4 DEF AssignCell, Working, Busy, Top
  <2>2. Sound(stack, v)
    BY <1>1, <2>1, CellSound
  <2> QED BY <2>1, <2>2 DEF KInv
<1>5. ASSUME NEW v \in Vals, EndBody(v) PROVE KInv'
  <2> DEFINE b == [Top EXCEPT !.at = "ensures", !.ret = v,
                              !.frame = IF Contract[Top.fn].ensures = <<>> THEN @
                                        ELSE bind(@, Source("result"), v)]
  <2>1. v \in Int /\ Top.at = "body" /\ UNCHANGED cell
    BY <1>1, <1>5 DEF EndBody, InBody
  <2>2. Update(b)
    BY <1>5 DEF EndBody
  <2>3. b \in Activation /\ Good(b, cell)
    BY <1>1, <2>1, EndBodyGood
  <2> QED BY <1>2, <2>1, <2>2, <2>3
<1>6. ASSUME NEW n \in Locals, NEW v \in Vals, Let(n, v) PROVE KInv'
  <2>1. v \in Int /\ Top.at = "body" /\ UNCHANGED cell
        /\ Update([Top EXCEPT !.frame = bind(@, Source(n), v)])
    BY <1>1, <1>6 DEF Let, InBody
  <2> QED BY <1>1, <1>2, <2>1, LetGood
<1>7. ASSUME NEW f \in Fns, NEW x \in Vals, Call(f, x) PROVE KInv'
  <2>1. Busy(stack[Len(stack)]) /\ stack' = Append(stack, Enter(f, x)) /\ cell' = cell
    BY <1>7 DEF Call, Working, Busy, Top
  <2>2. Enter(f, x) \in Activation /\ Good(Enter(f, x), cell)
    BY <1>1, EnterGood
  <2>3. Sound(Append(stack, Enter(f, x)), cell)
    BY <1>1, <2>1, <2>2, PushSound
  <2> QED BY <2>1, <2>3 DEF KInv
<1>8. ASSUME Fail PROVE KInv'
  BY <1>1, <1>8, StoppedSound DEF Fail, Die, KInv
<1>9. ASSUME Return PROVE KInv'
  BY <1>1, <1>9, PopSound DEF Return, Pop, KInv
<1> QED BY <1>3, <1>4, <1>5, <1>6, <1>7, <1>8, <1>9

\* Every step keeps the invariant.
LEMMA StepKInv == KInv /\ [Next]_vars => KInv'
<1>1. KInv /\ UNCHANGED vars => KInv'
  BY DEF KInv, vars
<1> QED BY <1>1, CheckSteps, BodySteps DEF Next

\* The protocol keeps its invariant.
THEOREM ContractsInvariance == Spec => []KInv
BY InitKInv, StepKInv, PTL DEF Spec
-----------------------------------------------------------------------------
(* What is checked and when.                                                 *)

\* The stack is made of activations, and the parameter is what is bound first.
THEOREM TypeCorrect == Spec => []TypeOK
<1>1. KInv => TypeOK
  <2> SUFFICES ASSUME KInv, NEW n \in DOMAIN stack
               PROVE  stack[n].frame # <<>> /\ stack[n].frame[1].name = Source("x")
    BY DEF TypeOK, KInv, Sound
  <2>1. stack \in Seq(Activation) /\ n \in 1 .. Len(stack)
    BY DEF KInv, Sound
  <2>2. stack[n] \in Activation /\ Framed(stack[n])
    BY <2>1 DEF KInv, Sound, Good
  <2> QED BY <2>2 DEF Framed, Activation
<1> QED BY <1>1, ContractsInvariance, PTL

\* IMPL.md 12.1, "@requires -> function entry check" (interp.c, call_fn): no
\* body, snapshot or postcondition is reached in a call whose state on entry
\* broke a precondition that was checked before anything in the contract acted,
\* whatever the call, or another one, made of the cell and the parameter since.
THEOREM EntryCorrect == Spec => []EntryChecked
<1>1. KInv => EntryChecked
  <2> SUFFICES ASSUME KInv, NEW n \in DOMAIN stack, stack[n].at # "requires",
                      NEW k \in DOMAIN Contract[stack[n].fn].requires,
                      Quiet(stack[n].fn, "requires", 1 .. k)
               PROVE  Meets(Contract[stack[n].fn].requires[k], stack[n].entry, stack[n].entry, 0)
    BY DEF EntryChecked
  <2>1. n \in 1 .. Len(stack)
    BY DEF KInv, Sound
  <2>2. Required(stack[n], cell)
    BY <2>1 DEF KInv, Sound, Good
  <2> QED BY <2>2 DEF Required, Checked
<1> QED BY <1>1, ContractsInvariance, PTL

\* The same from the side of the body (interp.c, call_fn): a condition that
\* calls and assigns may undo what the ones before it were met by, but not what
\* the ones after it are; those the body can rely on.
THEOREM BodyCorrect == Spec => []BodyChecked
<1>1. KInv => BodyChecked
  <2> SUFFICES ASSUME KInv, Running, Top.at = "olds", Quiet(Top.fn, "olds", Nat),
                      NEW k \in DOMAIN Contract[Top.fn].requires,
                      Quiet(Top.fn, "requires", k .. Len(Contract[Top.fn].requires))
               PROVE  Meets(Contract[Top.fn].requires[k], Now(Top), Now(Top), 0)
    BY DEF BodyChecked
  <2>1. Required(Top, cell) /\ Entering(Top, cell)
    BY TopIs DEF Good
  <2>2. Top.start = Now(Top)
    BY <2>1 DEF Entering, Here, Now
  <2>3. Meets(Contract[Top.fn].requires[k], Top.start, Top.start, 0)
    BY <2>1 DEF Required, Checked
  <2> QED BY <2>2, <2>3
<1> QED BY <1>1, ContractsInvariance, PTL

\* IMPL.md 12.1 and 12.3, "@ensures -> before return" (interp.c, call_fn): a
\* call that is about to return meets every postcondition from the last one
\* that acts, however its body and the calls it made changed the parameter and
\* the cell.  There old() is the state the call was entered in, or what acting
\* preconditions left of it, unless an old() operand acts itself; `result` is
\* what is returned, unless the body declared one or a postcondition before
\* may have assigned to it.
THEOREM ExitCorrect == Spec => []ExitChecked
<1>1. KInv => ExitChecked
  <2> SUFFICES ASSUME KInv, Running, Top.at = "ensures", Top.i \notin DOMAIN Contract[Top.fn].ensures,
                      NEW k \in DOMAIN Contract[Top.fn].ensures, Binds(Top, k)
               PROVE  Meets(Contract[Top.fn].ensures[k], Now(Top), Before(Top), Top.ret)
    BY DEF ExitChecked
  <2> DEFINE post == Contract[Top.fn].ensures
  <2>1. Top \in Activation /\ Ensured(Top, cell) /\ Entering(Top, cell) /\ Top.fn \in Fns
    BY TopIs DEF Good
  <2>2. /\ k < Top.i /\ post # <<>> /\ k \in Nat
        /\ Points(Top.fn, "ensures") = 1 .. Len(post) /\ Len(post) \in Nat
    <3>1. Top.i \in Nat \ {0}
      BY <2>1 DEF Activation
    <3>2. post # <<>>
      OBVIOUS
    <3>3. DOMAIN post = 1 .. Len(post) /\ Len(post) \in Nat
      BY <2>1, CondTypes
    <3>4. Points(Top.fn, "ensures") = DOMAIN post
      BY <2>1, PointsAre
    <3> QED BY <3>1, <3>2, <3>3, <3>4
  <2>3. Quiet(Top.fn, "ensures", k .. Top.i)
    <3>1. \A j \in Points(Top.fn, "ensures") : j \in k .. Top.i => j \in k .. Len(post)
      BY <2>2
    <3>2. Quiet(Top.fn, "ensures", k .. Len(post))
      BY DEF Binds
    <3> QED BY ONLY <3>1, <3>2, QuietLess
  <2>4. Lasting(Top, k)
    BY DEF Binds, Lasting, NoOwnResult
  <2>5. Before(Top) = Top.start /\ Now(Top) = Here(Top, cell)
    BY <2>1 DEF Before, Entering, Now, Here
  <2> QED BY <2>1, <2>2, <2>3, <2>4, <2>5 DEF Ensured
<1> QED BY <1>1, ContractsInvariance, PTL
-----------------------------------------------------------------------------
(* Checking is invisible: what a run looks like without its contracts.       *)

Seen(a) == [fn |-> a.fn, x |-> Param(a), at |-> BarePhase(a.at)]
View(st) == [n \in DOMAIN st |-> Seen(st[n])]

\* A view is as long as the stack it is of.
LEMMA ViewIs ==
  ASSUME NEW st \in Seq(Activation)
  PROVE  /\ DOMAIN View(st) = 1 .. Len(st) /\ Len(View(st)) = Len(st) /\ Len(st) \in Nat
         /\ \A n \in 1 .. Len(st) : View(st)[n] = Seen(st[n])
         /\ View(st) \in Seq({Seen(st[n]) : n \in 1 .. Len(st)})
         /\ st # <<>> => View(st) # <<>> /\ Len(st) \in 1 .. Len(st)
<1>1. DOMAIN st = 1 .. Len(st) /\ Len(st) \in Nat
  OBVIOUS
<1>2. PICK v : v = View(st)
  OBVIOUS
<1>3. v = [n \in 1 .. Len(st) |-> Seen(st[n])]
  BY <1>1, <1>2 DEF View
<1>4. v \in Seq({Seen(st[n]) : n \in 1 .. Len(st)}) /\ Len(v) = Len(st)
  BY <1>1, <1>3
<1>5. st # <<>> => v # <<>> /\ Len(st) \in 1 .. Len(st)
  BY <1>1, <1>4, EmptySeq
<1> QED BY <1>1, <1>2, <1>3, <1>4, <1>5

\* A step on the activation on top is one on the top of the view.
LEMMA ViewUpdate ==
  ASSUME NEW st \in Seq(Activation), st # <<>>, NEW b
  PROVE  View([st EXCEPT ![Len(st)] = b]) = [View(st) EXCEPT ![Len(View(st))] = Seen(b)]
<1>1. DOMAIN st = 1 .. Len(st) /\ Len(st) \in 1 .. Len(st)
  BY ViewIs
<1>2. PICK t : t = [st EXCEPT ![Len(st)] = b]
  OBVIOUS
<1>3. DOMAIN t = 1 .. Len(st) /\ \A n \in 1 .. Len(st) : t[n] = IF n = Len(st) THEN b ELSE st[n]
  BY <1>1, <1>2
<1>4. View(t) = [n \in 1 .. Len(st) |-> IF n = Len(st) THEN Seen(b) ELSE Seen(st[n])]
  BY <1>3 DEF View
<1>5. View(st) = [n \in 1 .. Len(st) |-> Seen(st[n])]
  BY <1>1 DEF View
<1> QED BY <1>1, <1>2, <1>4, <1>5, ViewIs

\* So is a call.
LEMMA ViewPush ==
  ASSUME NEW st \in Seq(Activation), NEW b \in Activation
  PROVE  View(Append(st, b)) = Append(View(st), Seen(b))
<1>1. DOMAIN st = 1 .. Len(st) /\ Len(st) \in Nat
  OBVIOUS
<1>2. PICK t \in Seq(Activation) : t = Append(st, b)
  BY AppendProperties
<1>3. /\ DOMAIN t = 1 .. Len(st) + 1 /\ t[Len(st) + 1] = b
      /\ \A n \in 1 .. Len(st) : t[n] = st[n]
  BY <1>1, <1>2, AppendProperties
<1>4. View(t) = [n \in 1 .. Len(st) + 1 |-> IF n = Len(st) + 1 THEN Seen(b) ELSE Seen(st[n])]
  BY <1>1, <1>3 DEF View
<1>5. View(st) = [n \in 1 .. Len(st) |-> Seen(st[n])]
  BY <1>1 DEF View
<1>6. PICK u : u = Append(View(st), Seen(b))
  OBVIOUS
<1>7. u = [n \in 1 .. Len(st) + 1 |-> IF n = Len(st) + 1 THEN Seen(b) ELSE Seen(st[n])]
  <2>1. PICK R : R = {Seen(st[n]) : n \in 1 .. Len(st)} \cup {Seen(b)}
    OBVIOUS
  <2>2. View(st) \in Seq(R) /\ Seen(b) \in R
    <3>1. \A n \in 1 .. Len(st) : Seen(st[n]) \in R
      BY <2>1
    <3> QED BY <1>1, <1>5, <2>1, <3>1
  <2>3. /\ u \in Seq(R) /\ Len(u) = Len(st) + 1 /\ u[Len(st) + 1] = Seen(b)
        /\ \A n \in 1 .. Len(st) : u[n] = View(st)[n]
    <3>1. PICK v \in Seq(R) : v = View(st) /\ Len(v) = Len(st)
      BY <2>2, ViewIs
    <3> QED BY ONLY <1>6, <2>2, <3>1, AppendProperties
  <2>4. \A n \in 1 .. Len(st) + 1 : u[n] = IF n = Len(st) + 1 THEN Seen(b) ELSE Seen(st[n])
    BY <1>1, <1>5, <2>3
  <2>5. u = [n \in 1 .. Len(u) |-> u[n]]
    BY <2>3
  <2> QED BY <2>3, <2>4, <2>5
<1> QED BY <1>2, <1>4, <1>6, <1>7

\* And a return.
LEMMA ViewPop ==
  ASSUME NEW st \in Seq(Activation), st # <<>>
  PROVE  View(SubSeq(st, 1, Len(st) - 1)) = SubSeq(View(st), 1, Len(View(st)) - 1)
<1>1. /\ DOMAIN st = 1 .. Len(st) /\ Len(st) \in 1 .. Len(st) /\ Len(st) - 1 \in 0 .. Len(st)
  BY ViewIs
<1>2. PICK t \in Seq(Activation) : t = SubSeq(st, 1, Len(st) - 1)
  BY <1>1, Front
<1>3. DOMAIN t = 1 .. Len(st) - 1 /\ \A n \in 1 .. Len(st) - 1 : t[n] = st[n]
  BY <1>1, <1>2, Front
<1>4. View(t) = [n \in 1 .. Len(st) - 1 |-> Seen(st[n])]
  BY <1>3 DEF View
<1>5. PICK u : u = SubSeq(View(st), 1, Len(st) - 1)
  OBVIOUS
<1>6. u = [n \in 1 .. Len(st) - 1 |-> Seen(st[n])]
  <2>0. PICK R : R = {Seen(st[n]) : n \in 1 .. Len(st)}
    OBVIOUS
  <2>1. /\ u \in Seq(R) /\ Len(u) = Len(st) - 1
        /\ \A n \in 1 .. Len(st) - 1 : u[n] = View(st)[n]
    <3>1. PICK v \in Seq(R) : v = View(st) /\ Len(v) = Len(st)
      BY <2>0, ViewIs
    <3>2. PICK m : m = Len(st) - 1
      OBVIOUS
    <3>3. m \in 0 .. Len(v) /\ u = SubSeq(v, 1, m)
      BY <1>1, <1>5, <3>1, <3>2
    <3>4. Len(u) = m /\ u \in Seq(R) /\ \A n \in 1 .. m : u[n] = v[n]
      BY ONLY <3>1, <3>3, Front
    <3> QED BY <3>1, <3>2, <3>4
  <2>2. \A n \in 1 .. Len(st) - 1 : u[n] = Seen(st[n])
    <3>1. \A n \in 1 .. Len(st) - 1 : n \in 1 .. Len(st)
      BY <1>1
    <3>2. \A n \in 1 .. Len(st) : View(st)[n] = Seen(st[n])
      BY ViewIs
    <3> QED BY <2>1, <3>1, <3>2
  <2>3. u = [n \in 1 .. Len(u) |-> u[n]]
    BY <2>1
  <2> QED BY <2>1, <2>2, <2>3
<1> QED BY <1>2, <1>4, <1>5, <1>6, ViewIs

\* The steps of a run without contracts, on the view.
ViewTop == View(stack)[Len(View(stack))]
Stays == View(stack') = View(stack) /\ UNCHANGED cell
Moves(from, to) ==
  /\ View(stack) # <<>> /\ ViewTop.at = from /\ UNCHANGED cell
  /\ View(stack') = [View(stack) EXCEPT ![Len(View(stack))].at = to]
\* What may act, of the functions and of what is on top of the view.
ActivePairs == {e \in Fns \X {"in", "body", "out"} :
                  \/ e[2] = "body"
                  \/ e[2] = "in" /\ ~(Quiet(e[1], "requires", Nat) /\ Quiet(e[1], "olds", Nat))
                  \/ e[2] = "out" /\ ~Quiet(e[1], "ensures", Nat)}
ViewWorking == View(stack) # <<>> /\ <<ViewTop.fn, ViewTop.at>> \in ActivePairs
SetsX(v) == ViewWorking /\ View(stack') = [View(stack) EXCEPT ![Len(View(stack))].x = v] /\ UNCHANGED cell
SetsCell(v) == ViewWorking /\ cell' = v /\ View(stack') = View(stack)
Calls(f, x) ==
  /\ ViewWorking /\ UNCHANGED cell
  /\ View(stack') = Append(View(stack), [fn |-> f, x |-> x, at |-> "in"])
Returns == /\ View(stack) # <<>> /\ ViewTop.at = "out" /\ UNCHANGED cell
           /\ View(stack') = SubSeq(View(stack), 1, Len(View(stack)) - 1)
Stops == View(stack') = <<>> /\ UNCHANGED cell

\* What is on top of the view.
LEMMA ViewTopIs ==
  ASSUME KInv, Running
  PROVE  /\ stack \in Seq(Activation) /\ stack # <<>> /\ View(stack) # <<>>
         /\ Len(View(stack)) = Len(stack) /\ Len(stack) \in 1 .. Len(stack)
         /\ ViewTop = Seen(Top) /\ DOMAIN View(stack) = 1 .. Len(stack)
         /\ Top \in Activation /\ Framed(Top)
BY TopIs, ViewIs DEF KInv, Sound, Running, ViewTop, Top, Good

\* A step that leaves function, parameter and phase alone cannot be seen.
LEMMA UnseenStep ==
  ASSUME KInv, Running, NEW b, Update(b), UNCHANGED cell, Seen(b) = Seen(Top)
  PROVE  Stays
<1>1. PICK v : v = View(stack)
  OBVIOUS
<1>2. View(stack') = [v EXCEPT ![Len(v)] = v[Len(v)]]
  <2>1. View(stack') = [v EXCEPT ![Len(v)] = Seen(b)] /\ v[Len(v)] = Seen(Top)
    BY <1>1, ViewTopIs, ViewUpdate DEF Update, ViewTop
  <2> QED BY <2>1
<1>3. v = [n \in DOMAIN v |-> v[n]]
  BY <1>1 DEF View
<1> QED BY <1>1, <1>2, <1>3 DEF Stays

\* The parameter stays in front of what is bound.
LEMMA BindKeepsParam ==
  ASSUME NEW a \in Activation, Framed(a), NEW n, NEW v
  PROVE  bind(a.frame, n, v)[1] = a.frame[1]
<1>1. a.frame \in Seq(Binding) /\ Len(a.frame) >= 1 /\ Len(a.frame) \in Nat
  BY DEF Activation, Framed
<1> QED BY <1>1 DEF bind

\* What the checks do is not seen, unless they end the run.
LEMMA ChecksUnseen ==
  ASSUME KInv, Requires \/ RequiresMet \/ CaptureOld \/ Ensures
  PROVE  Stays \/ Stops
<1>0. Running
  BY DEF Requires, RequiresMet, CaptureOld, Ensures
<1>1. Top \in Activation /\ Framed(Top)
  BY <1>0, ViewTopIs
<1>2. ASSUME Die PROVE Stops
  <2>1. View(<<>>) = <<>>
    BY DEF View
  <2> QED BY <1>2, <2>1 DEF Die, Stops
<1>3. ASSUME NEW b, Update(b), UNCHANGED cell, b.fn = Top.fn, BarePhase(b.at) = BarePhase(Top.at),
             b.frame[1] = Top.frame[1]
      PROVE  Stays
  <2>1. Seen(b) = Seen(Top)
    BY <1>3 DEF Seen, Param
  <2> QED BY <1>0, <1>3, <2>1, UnseenStep
<1>4. PICK a \in Activation : a = Top
  BY <1>1
<1>5. /\ [a EXCEPT !.i = @ + 1].fn = a.fn /\ [a EXCEPT !.i = @ + 1].at = a.at
      /\ [a EXCEPT !.i = @ + 1].frame = a.frame
  BY DEF Activation
<1>6. CASE Requires
  <2>1. Check(0, Contract[Top.fn].requires[Top.i])
    BY <1>6 DEF Requires
  <2>2. (UNCHANGED cell /\ Update([a EXCEPT !.i = @ + 1])) \/ Die
    BY <1>0, <1>4, <2>1, CheckIs
  <2> QED BY <1>2, <1>3, <1>4, <1>5, <2>2
<1>7. CASE RequiresMet
  <2>1. PICK b : b = [a EXCEPT !.at = "olds", !.i = 1, !.start = Now(a)]
    OBVIOUS
  <2>2. Update(b) /\ UNCHANGED cell /\ a.at = "requires"
    BY <1>4, <1>7, <2>1 DEF RequiresMet
  <2>3. b.fn = a.fn /\ b.at = "olds" /\ b.frame = a.frame
    BY <2>1 DEF Activation
  <2> QED BY <1>3, <1>4, <2>2, <2>3 DEF BarePhase
<1>8. CASE CaptureOld
  <2> DEFINE node == collect_olds(a.fn)[a.i]
  <2>0. PICK v \in Captures(node) : Update([a EXCEPT !.frame = bind(@, node, v), !.i = @ + 1])
    BY <1>4, <1>8 DEF CaptureOld
  <2>1. PICK fr : fr = bind(a.frame, node, v)
    OBVIOUS
  <2>2. PICK b : b = [a EXCEPT !.frame = fr, !.i = @ + 1]
    OBVIOUS
  <2>3. Update(b) /\ UNCHANGED cell
    BY <1>8, <2>0, <2>1, <2>2 DEF CaptureOld
  <2>4. b.fn = a.fn /\ b.at = a.at /\ b.frame = fr
    BY <2>2 DEF Activation
  <2>5. fr[1] = a.frame[1]
    BY <1>1, <1>4, <2>1, BindKeepsParam
  <2> QED BY <1>3, <1>4, <2>3, <2>4, <2>5
<1>9. CASE Ensures
  <2>1. Check(Top.i, Contract[Top.fn].ensures[Top.i])
    BY <1>9 DEF Ensures
  <2>2. (UNCHANGED cell /\ Update([a EXCEPT !.i = @ + 1])) \/ Die
    BY <1>0, <1>4, <2>1, CheckIs
  <2> QED BY <1>2, <1>3, <1>4, <1>5, <2>2
<1> QED BY <1>6, <1>7, <1>8, <1>9

\* A step that changes one field of what is seen.
LEMMA SeenStep ==
  ASSUME KInv, Running, NEW b, Update(b)
  PROVE  /\ \A s : Seen(b) = [Seen(Top) EXCEPT !.at = s] =>
                     View(stack') = [View(stack) EXCEPT ![Len(View(stack))].at = s]
         /\ \A v : Seen(b) = [Seen(Top) EXCEPT !.x = v] =>
                     View(stack') = [View(stack) EXCEPT ![Len(View(stack))].x = v]
<1>1. PICK v : v = View(stack)
  OBVIOUS
<1>2. PICK k : k = Len(View(stack))
  OBVIOUS
<1>3. View(stack') = [v EXCEPT ![k] = Seen(b)] /\ v[k] = Seen(Top)
  BY <1>1, <1>2, ViewTopIs, ViewUpdate DEF Update, ViewTop
<1> QED BY <1>1, <1>2, <1>3

\* Where an activation acts the function may act.
LEMMA WorkingSeen ==
  ASSUME KInv, Working
  PROVE  Running /\ ViewWorking
<1>1. Running /\ Busy(Top)
  BY DEF Working, Busy
<1>2. Top \in Activation /\ ViewTop = Seen(Top) /\ View(stack) # <<>>
  BY <1>1, ViewTopIs
<1>3. Top.fn \in Fns /\ Top.at \in {"requires", "olds", "body", "ensures"}
  BY <1>2 DEF Activation
<1>4. ~Quiet(Top.fn, Top.at, Nat)
  BY <1>1, <1>2, BusyQuiet
<1>5. Seen(Top).fn = Top.fn /\ Seen(Top).at = BarePhase(Top.at)
  BY DEF Seen
<1>6. <<Top.fn, BarePhase(Top.at)>> \in ActivePairs
  BY <1>3, <1>4 DEF BarePhase, ActivePairs
<1> QED BY <1>1, <1>2, <1>5, <1>6 DEF ViewWorking

\* An assignment to the parameter is seen, one to another variable is not.
LEMMA AssignSeen ==
  ASSUME KInv, NEW n, NEW v, Assign(n, v)
  PROVE  SetsX(v) \/ Stays
<1>0. Running /\ ViewWorking /\ Bound(Top.frame, Source(n))
  BY WorkingSeen DEF Assign
<1>1. PICK a \in Activation : a = Top /\ Framed(a)
  BY <1>0, ViewTopIs
<1>2. a.frame \in Seq(Binding) /\ 1 \in 1 .. Len(a.frame)
  BY <1>1, FindParam DEF Activation
<1>3. PICK m \in 1 .. Len(a.frame) : m = First(a.frame, Source(n))
  BY <1>0, <1>1, <1>2, FirstExists
<1>4. PICK fr : fr = [a.frame EXCEPT ![m].value = v]
  OBVIOUS
<1>5. PICK b : b = [a EXCEPT !.frame = fr]
  OBVIOUS
<1>6. Update(b) /\ UNCHANGED cell
  BY <1>1, <1>3, <1>4, <1>5 DEF Assign
<1>7. b.fn = a.fn /\ b.at = a.at /\ b.frame = fr
  BY <1>5 DEF Activation
<1>8. CASE m = 1
  <2>1. fr[1].value = v
    <3>1. DOMAIN a.frame = 1 .. Len(a.frame)
      BY <1>2
    <3>2. a.frame[1] \in Binding
      BY <1>2, <3>1
    <3> QED BY <1>2, <1>4, <1>8, <3>1, <3>2 DEF Binding
  <2>2. Seen(b) = [Seen(Top) EXCEPT !.x = v]
    BY <1>1, <1>7, <2>1 DEF Seen, Param
  <2> QED BY <1>0, <1>6, <2>2, SeenStep DEF SetsX
<1>9. CASE m # 1
  <2>1. fr[1] = a.frame[1]
    BY <1>2, <1>4, <1>9
  <2>2. Seen(b) = Seen(Top)
    BY <1>1, <1>7, <2>1 DEF Seen, Param
  <2> QED BY <1>0, <1>6, <2>2, UnseenStep
<1> QED BY <1>8, <1>9

\* What a body does is seen as it is, and so is what an expression does that may
\* act.
LEMMA BodySeen ==
  ASSUME KInv
  PROVE  /\ \A v : AssignCell(v) => SetsCell(v)
         /\ \A v : EndBody(v) => Moves("body", "out")
         /\ \A n, v : Let(n, v) => Stays
         /\ \A f \in Fns, x \in Vals : Call(f, x) => Calls(f, x)
         /\ Fail => Stops
<1>5. ASSUME NEW v, AssignCell(v) PROVE SetsCell(v)
  BY <1>5, WorkingSeen DEF AssignCell, SetsCell, View
<1>6. ASSUME NEW v, EndBody(v) PROVE Moves("body", "out")
  <2>0. Running /\ Top.at = "body"
    BY <1>6 DEF EndBody, InBody
  <2>8. PICK a \in Activation : a = Top /\ Framed(a)
    BY <2>0, ViewTopIs
  <2>1. PICK fr : fr = IF Contract[a.fn].ensures = <<>> THEN a.frame ELSE bind(a.frame, Source("result"), v)
    OBVIOUS
  <2>2. PICK b : b = [a EXCEPT !.at = "ensures", !.ret = v, !.frame = fr]
    OBVIOUS
  <2>3. Update(b) /\ UNCHANGED cell
    BY <2>8, <1>6, <2>1, <2>2 DEF EndBody
  <2>4. b.fn = a.fn /\ b.at = "ensures" /\ b.frame = fr
    BY <2>2 DEF Activation
  <2>5. fr[1] = a.frame[1]
    BY <2>8, <2>1, BindKeepsParam
  <2>6. Seen(b) = [Seen(Top) EXCEPT !.at = "out"]
    BY <2>8, <2>4, <2>5 DEF Seen, Param, BarePhase
  <2>7. View(stack) # <<>> /\ ViewTop.at = "body"
    BY <2>0, ViewTopIs DEF Seen, BarePhase
  <2> QED BY <2>0, <2>3, <2>6, <2>7, SeenStep DEF Moves
<1>7. ASSUME NEW n, NEW v, Let(n, v) PROVE Stays
  <2>0. Running
    BY <1>7 DEF Let, InBody
  <2>7. PICK a \in Activation : a = Top /\ Framed(a)
    BY <2>0, ViewTopIs
  <2>1. PICK fr : fr = bind(a.frame, Source(n), v)
    OBVIOUS
  <2>2. PICK b : b = [a EXCEPT !.frame = fr]
    OBVIOUS
  <2>3. Update(b) /\ UNCHANGED cell
    BY <2>7, <1>7, <2>1, <2>2 DEF Let
  <2>4. b.fn = a.fn /\ b.at = a.at /\ b.frame = fr
    BY <2>2 DEF Activation
  <2>5. fr[1] = a.frame[1]
    BY <2>7, <2>1, BindKeepsParam
  <2>6. Seen(b) = Seen(Top)
    BY <2>7, <2>4, <2>5 DEF Seen, Param
  <2> QED BY <2>0, <2>3, <2>6, UnseenStep
<1>8. ASSUME NEW f \in Fns, NEW x \in Vals, Call(f, x) PROVE Calls(f, x)
  <2>0. ViewWorking /\ stack \in Seq(Activation)
    BY <1>8, WorkingSeen DEF Call, KInv, Sound
  <2>1. x \in Int /\ cell \in Int
    BY ContractsAssumption DEF KInv, Sound
  <2>2. PICK b \in Activation : b = Enter(f, x)
    BY <2>1, EnterGood
  <2>3. Seen(b) = [fn |-> f, x |-> x, at |-> "in"]
    <3>1. b.fn = f /\ b.at = "requires" /\ b.frame = <<[name |-> Source("x"), value |-> x]>>
      BY <2>2 DEF Enter, bind
    <3> QED BY <3>1 DEF Seen, Param, BarePhase
  <2>4. stack' = Append(stack, b) /\ UNCHANGED cell
    BY <1>8, <2>2 DEF Call
  <2> QED BY <2>0, <2>3, <2>4, ViewPush DEF Calls
<1>9. ASSUME Fail PROVE Stops
  <2>1. View(<<>>) = <<>>
    BY DEF View
  <2> QED BY <1>9, <2>1 DEF Fail, Die, Stops
<1> QED BY <1>5, <1>6, <1>7, <1>8, <1>9

\* Every step of the protocol is a step of a run without contracts.
LEMMA SeenSteps ==
  ASSUME KInv, [Next]_vars
  PROVE  \/ Stays \/ Stops \/ Moves("in", "body") \/ Moves("body", "out") \/ Returns
         \/ \E v \in Vals : SetsX(v) \/ SetsCell(v)
         \/ \E f \in Fns, x \in Vals : Calls(f, x)
<1>1. CASE UNCHANGED vars
  BY <1>1 DEF vars, Stays
<1>2. CASE Requires \/ RequiresMet \/ CaptureOld \/ Ensures
  BY <1>2, ChecksUnseen
<1>3. CASE BeginBody
  <2>1. Running /\ Top.at = "olds" /\ UNCHANGED cell
    BY <1>3 DEF BeginBody
  <2>2. PICK a \in Activation : a = Top
    BY <2>1, ViewTopIs
  <2>3. PICK b : b = [a EXCEPT !.at = "body", !.i = 1]
    OBVIOUS
  <2>4. Update(b)
    BY <1>3, <2>2, <2>3 DEF BeginBody
  <2>5. b.fn = a.fn /\ b.at = "body" /\ b.frame = a.frame
    BY <2>3 DEF Activation
  <2>6. Seen(b) = [Seen(Top) EXCEPT !.at = "body"] /\ Seen(Top).at = "in"
    BY <2>1, <2>2, <2>5 DEF Seen, Param, BarePhase
  <2>7. View(stack) # <<>> /\ ViewTop.at = "in"
    BY <2>1, <2>6, ViewTopIs
  <2> QED BY <2>1, <2>4, <2>6, <2>7, SeenStep, SMTT(60) DEF Moves
<1>4. CASE Return
  <2>1. Running /\ Top.at = "ensures" /\ stack' = SubSeq(stack, 1, Len(stack) - 1) /\ UNCHANGED cell
    BY <1>4 DEF Return, Pop
  <2>2. View(stack) # <<>> /\ ViewTop.at = "out"
    BY <2>1, ViewTopIs DEF Seen, BarePhase
  <2> QED BY <2>1, <2>2, ViewTopIs, ViewPop DEF Returns
<1>5. CASE \/ \E v \in Vals : AssignCell(v) \/ EndBody(v)
           \/ \E n \in Locals, v \in Vals : Let(n, v)
           \/ \E f \in Fns, x \in Vals : Call(f, x)
           \/ Fail
  BY <1>5, BodySeen
<1>6. CASE \E n \in Locals \cup {"x", "result"}, v \in Vals : Assign(n, v)
  BY <1>6, AssignSeen
<1> QED BY <1>1, <1>2, <1>3, <1>4, <1>5, <1>6 DEF Next

\* The view is what the bare run's stack stands for.
LEMMA BareStep ==
  ASSUME KInv, [Next]_vars
  PROVE  [Bare!Next]_(Bare!vars)
<1>1. CASE Stays
  BY <1>1 DEF Stays, View, Seen, Bare!vars
<1>2. CASE Stops
  BY <1>2 DEF Stops, View, Seen, Bare!Next, Bare!Stop
<1>3. CASE Moves("in", "body")
  BY <1>3 DEF Moves, View, Seen, ViewTop, Bare!Next, Bare!Move, Bare!Top
<1>4. CASE Moves("body", "out")
  BY <1>4 DEF Moves, View, Seen, ViewTop, Bare!Next, Bare!Move, Bare!Top
<1>5. CASE Returns
  BY <1>5 DEF Returns, View, Seen, ViewTop, Bare!Next, Bare!Return, Bare!Top
<1>6. ASSUME NEW v \in Vals, SetsX(v) PROVE Bare!Next
  BY <1>6 DEF SetsX, ViewWorking, View, Seen, ViewTop, Bare!Next, Bare!SetX, Bare!Working, ActivePairs, Bare!Top
<1>7. ASSUME NEW v \in Vals, SetsCell(v) PROVE Bare!Next
  BY <1>7 DEF SetsCell, ViewWorking, View, Seen, ViewTop, Bare!Next, Bare!SetCell, Bare!Working, ActivePairs, Bare!Top
<1>8. ASSUME NEW f \in Fns, NEW x \in Vals, Calls(f, x) PROVE Bare!Next
  BY <1>8 DEF Calls, ViewWorking, View, Seen, ViewTop, Bare!Next, Bare!Call, Bare!Enter, Bare!Working, ActivePairs, Bare!Top
<1> QED BY <1>1, <1>2, <1>3, <1>4, <1>5, <1>6, <1>7, <1>8, SeenSteps

\* README, "no runtime cost" (interp.c, call_fn): a run that passes its checks
\* is a run without them.  Nested calls, the memory and every parameter change
\* as they would if no contract was there; a check that fails ends the run, and
\* conditions and old() operands that call or assign act in their own place, on
\* top of the stack, and leave the activations below alone.
THEOREM ChecksTransparent == Spec => Transparent
<1>1. Init => Bare!Init
  <2> SUFFICES ASSUME cell \in Vals, NEW f \in Fns, NEW x \in Vals, stack = <<Enter(f, x)>>
               PROVE  Bare!Init
    BY DEF Init
  <2>1. Seen(Enter(f, x)) = [fn |-> f, x |-> x, at |-> "in"]
    BY DEF Enter, bind, Seen, Param, BarePhase
  <2>2. View(stack) = <<[fn |-> f, x |-> x, at |-> "in"]>>
    BY <2>1 DEF View
  <2> QED BY <2>2 DEF View, Seen, Bare!Init, Bare!Enter
<1>2. KInv /\ [Next]_vars => [Bare!Next]_(Bare!vars)
  BY BareStep
<1> QED BY <1>1, <1>2, ContractsInvariance, PTL DEF Spec, Transparent, Bare!Spec
=============================================================================

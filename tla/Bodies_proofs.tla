----------------------------- MODULE Bodies_proofs -----------------------------
(* Proofs about a function body: the frames of the interpreter are those of  *)
(* the blocks around the statement, a name means there what it meant to the  *)
(* analysis, and a jump lands where it should.                               *)
EXTENDS Bodies, FiniteSetTheorems, SequenceTheorems, TLAPS

(* Induction over the naturals: the theorems of the library take an operator  *)
(* as a parameter, so a set and its least element do the work.                *)

\* A set of natural numbers with an element has a least one.
LEMMA LeastNat ==
  ASSUME NEW T \in SUBSET Nat, T # {}
  PROVE  \E x \in T : \A y \in T : x <= y
<1>1. PICK x \in T : \A y \in T : ~(<<y, x>> \in OpToRel(<, Nat))
  BY NatLessThanWellFounded, WFMin
<1>2. \A y \in T : ~(y < x)
  BY <1>1 DEF OpToRel
<1> QED BY <1>2

\* Induction: a set that holds 0, and with every number the next one, holds
\* every natural number.
LEMMA SetInduction ==
  ASSUME NEW S, 0 \in S, \A n \in Nat : n \in S => n + 1 \in S
  PROVE  \A n \in Nat : n \in S
<1> SUFFICES ASSUME NEW m \in Nat, m \notin S PROVE FALSE
  OBVIOUS
<1> DEFINE T == {n \in Nat : n \notin S}
<1>1. PICK x \in T : \A y \in T : x <= y
  <2>1. T \in SUBSET Nat /\ m \in T
    OBVIOUS
  <2> HIDE DEF T
  <2> QED BY <2>1, LeastNat
<1>2. x \in Nat /\ x # 0 /\ x \notin S
  OBVIOUS
<1>3. x - 1 \in Nat /\ x - 1 \in S
  BY <1>1, <1>2
<1>4. (x - 1) + 1 \in S
  BY <1>3
<1> QED BY <1>2, <1>4

\* A front part of a sequence.
LEMMA Front ==
  ASSUME NEW S, NEW s \in Seq(S), NEW m \in 0 .. Len(s)
  PROVE  /\ SubSeq(s, 1, m) \in Seq(S) /\ Len(SubSeq(s, 1, m)) = m
         /\ \A i \in 1 .. m : SubSeq(s, 1, m)[i] = s[i]
<1>1. \A i \in 1 .. m : s[i] \in S
  OBVIOUS
<1>2. m \in Int /\ 1 \in Int /\ m - 1 + 1 = m /\ \A i \in 1 .. m : 1 + i - 1 = i
  OBVIOUS
<1>3. /\ SubSeq(s, 1, m) \in Seq(S)
      /\ Len(SubSeq(s, 1, m)) = IF 1 <= m THEN m - 1 + 1 ELSE 0
      /\ \A i \in 1 .. m - 1 + 1 : SubSeq(s, 1, m)[i] = s[1 + i - 1]
  BY <1>1, <1>2, SubSeqProperties
<1> QED BY <1>2, <1>3

(* What can be read off the text b of a body.                                *)

Text(b) == b \in Seq(Entry) /\ Balanced(b)

\* The block opened at o is around position p.
Around(b, o, p) ==
  /\ o \in 1 .. p - 1 /\ b[o].op \in Openers
  /\ \A r \in o .. p - 1 : DepthIn(b, r) >= DepthIn(b, o)

\* Level i of the nest around p is the block opened at o; level 1 is the body.
Level(b, p, i, o) == (i = 1 /\ o = 0) \/ (Around(b, o, p) /\ i = DepthIn(b, o) + 1)

\* What block o itself declares before p.
Decl(b, o, p) ==
  {q \in 1 .. p - 1 : \/ q = o /\ b[q].op = "for"
                      \/ q > o /\ b[q].op = "let" /\ DepthIn(b, q) = DepthIn(b, o)}

\* The declaration a name n stands for at p: the first one in the innermost
\* block that has one.
Meant(b, p, n, m) ==
  \E i, o \in 0 .. Len(b) + 1 :
    /\ Level(b, p, i, o)
    /\ m \in Decl(b, o, p) /\ b[m].name = n /\ \A q \in Decl(b, o, p) : b[q].name = n => m <= q
    /\ \A h, u \in 0 .. Len(b) + 1 :
         h > i /\ Level(b, p, h, u) => \A q \in Decl(b, u, p) : b[q].name # n

LoopsAround(b, p) == {o \in 1 .. p - 1 : Around(b, o, p) /\ b[o].op \in Loops}

(* The inductive invariant.                                                  *)

\* A table lists a set of declarations in the order of the text.
Lists(s, S) ==
  /\ s \in Seq(Nat) /\ \A j \in 1 .. Len(s) : s[j] \in S
  /\ \A q \in S : \E j \in 1 .. Len(s) : s[j] = q
  /\ \A j, k \in 1 .. Len(s) : j < k => s[j] < s[k]

\* A table has one list for every level of the nest around p.
Listed(b, p, table) ==
  /\ Len(table) = DepthIn(b, p - 1) + 1
  /\ \A i \in 1 .. Len(table) : \E o \in 0 .. Len(b) : Level(b, p, i, o) /\ Lists(table[i], Decl(b, o, p))

\* What the analysis found out about the first entries, unless it complained.
Checked(b, p, means) ==
  \A q \in 1 .. p - 1 :
    /\ b[q].op = "use" => Meant(b, q, b[q].name, means[q])
    /\ b[q].op \in {"break", "continue"} => LoopsAround(b, q) # {}

\* The frames are the outer levels of the nest around p, all of them unless a
\* jump is on its way.
Framed(b, p, fs) ==
  /\ Len(fs) <= DepthIn(b, p - 1) + 1
  /\ \A i \in 1 .. Len(fs) : Level(b, p, i, fs[i].at) /\ Lists(fs[i].bindings, Decl(b, fs[i].at, p))

\* A jump on its way has not passed the loop it is for.
Code(op) == CASE op = "break" -> "BROKE" [] op = "continue" -> "CONTINUED" [] op = "return" -> "RETURNED"
Jumping(b, p, fs, code, start) ==
  /\ p \in DOMAIN b /\ b[p].op \in Jumps /\ start = p /\ code = Code(b[p].op)
  /\ b[p].op # "return" =>
       LoopsAround(b, p) # {} /\ \A o \in LoopsAround(b, p) : DepthIn(b, o) < Len(fs)

Moving(b, p, fs, code, start) ==
  IF code = "GO" THEN Len(fs) = DepthIn(b, p - 1) + 1 ELSE Jumping(b, p, fs, code, start)

Fresh == frames = <<[at |-> 0, bindings |-> <<>>]>> /\ flow = "GO"

BInv ==
  /\ Text(body) /\ TypeOK
  /\ phase = "check" =>
       /\ Listed(body, pos, scopes) /\ loop_depth = Cardinality(LoopsAround(body, pos))
       /\ had_error \/ Checked(body, pos, meaning)
       /\ Fresh
  /\ phase = "run" =>
       /\ Checked(body, Len(body) + 1, meaning)
       /\ Framed(body, pos, frames) /\ Moving(body, pos, frames, flow, from)
  /\ phase = "over" => flow \in {"GO", "RETURNED"}
-----------------------------------------------------------------------------
(* How deep an entry is.                                                     *)

\* The depth starts at zero and changes by one with a block.
LEMMA DepthStep ==
  ASSUME NEW b \in Seq(Entry)
  PROVE  /\ DepthIn(b, 0) = 0
         /\ \A p \in 0 .. Len(b) : DepthIn(b, p) \in Int
         /\ \A p \in 1 .. Len(b) :
              DepthIn(b, p) = DepthIn(b, p - 1) + (IF b[p].op \in Openers THEN 1
                                                   ELSE IF b[p].op = "close" THEN -1 ELSE 0)
<1> DEFINE In(p) == {q \in 1 .. p : b[q].op \in Openers}
           Out(p) == {q \in 1 .. p : b[q].op = "close"}
<1>1. \A p \in Nat : IsFiniteSet(In(p)) /\ IsFiniteSet(Out(p))
  <2> SUFFICES ASSUME NEW p \in Nat PROVE IsFiniteSet(In(p)) /\ IsFiniteSet(Out(p))
    OBVIOUS
  <2>1. IsFiniteSet(1 .. p)
    BY FS_Interval
  <2>2. In(p) \subseteq 1 .. p /\ Out(p) \subseteq 1 .. p
    OBVIOUS
  <2> HIDE DEF In, Out
  <2> QED BY <2>1, <2>2, FS_Subset
<1>2. \A p : DepthIn(b, p) = Cardinality(In(p)) - Cardinality(Out(p))
  BY DEF DepthIn
<1>3. In(0) = {} /\ Out(0) = {}
  OBVIOUS
<1>4. ASSUME NEW p \in 1 .. Len(b)
      PROVE  /\ In(p) = IF b[p].op \in Openers THEN In(p - 1) \cup {p} ELSE In(p - 1)
             /\ Out(p) = IF b[p].op = "close" THEN Out(p - 1) \cup {p} ELSE Out(p - 1)
             /\ p \notin In(p - 1) /\ p \notin Out(p - 1)
  <2>1. 1 .. p = (1 .. p - 1) \cup {p} /\ p \notin 1 .. p - 1
    OBVIOUS
  <2> QED BY <2>1
<1>5. "close" \notin Openers
  BY DEF Openers, Loops
<1> HIDE DEF In, Out
<1>6. \A p \in Nat : Cardinality(In(p)) \in Nat /\ Cardinality(Out(p)) \in Nat
  BY <1>1, FS_CardinalityType
<1>7. DepthIn(b, 0) = 0
  <2>1. Cardinality(In(0)) = 0 /\ Cardinality(Out(0)) = 0
    BY <1>3, FS_EmptySet
  <2>2. DepthIn(b, 0) = Cardinality(In(0)) - Cardinality(Out(0))
    BY <1>2
  <2> QED BY <2>1, <2>2
<1>8. \A p \in 0 .. Len(b) : DepthIn(b, p) \in Int
  BY <1>2, <1>6
<1>9. ASSUME NEW p \in 1 .. Len(b)
      PROVE  DepthIn(b, p) = DepthIn(b, p - 1) + (IF b[p].op \in Openers THEN 1
                                                  ELSE IF b[p].op = "close" THEN -1 ELSE 0)
  <2>1. p - 1 \in Nat /\ p \in Nat
    OBVIOUS
  <2>2. b[p].op \in Openers => Cardinality(In(p)) = Cardinality(In(p - 1)) + 1
    BY <1>1, <1>4, <2>1, FS_AddElement
  <2>3. b[p].op = "close" => Cardinality(Out(p)) = Cardinality(Out(p - 1)) + 1
    BY <1>1, <1>4, <2>1, FS_AddElement
  <2>4. /\ b[p].op \notin Openers => Cardinality(In(p)) = Cardinality(In(p - 1))
        /\ b[p].op # "close" => Cardinality(Out(p)) = Cardinality(Out(p - 1))
    BY <1>4
  <2>5. PICK i \in Nat, j \in Nat, k \in Nat, l \in Nat :
          /\ i = Cardinality(In(p)) /\ j = Cardinality(Out(p))
          /\ k = Cardinality(In(p - 1)) /\ l = Cardinality(Out(p - 1))
    BY <1>6, <2>1
  <2>6. DepthIn(b, p) = i - j /\ DepthIn(b, p - 1) = k - l
    BY <1>2, <2>5
  <2>7. /\ b[p].op \in Openers => i = k + 1
        /\ b[p].op \notin Openers => i = k
        /\ b[p].op = "close" => j = l + 1
        /\ b[p].op # "close" => j = l
    BY <2>2, <2>3, <2>4, <2>5
  <2> QED BY <1>5, <2>6, <2>7
<1> QED BY <1>7, <1>8, <1>9

\* No more is closed than was open, and in the end nothing is.
LEMMA DepthIs ==
  ASSUME NEW b, Text(b)
  PROVE  /\ Len(b) \in Nat /\ DOMAIN b = 1 .. Len(b)
         /\ DepthIn(b, 0) = 0 /\ DepthIn(b, Len(b)) = 0
         /\ \A p \in 0 .. Len(b) : DepthIn(b, p) \in Nat
         /\ \A p \in 1 .. Len(b) :
              /\ b[p].op \in Openers => DepthIn(b, p) = DepthIn(b, p - 1) + 1
              /\ b[p].op = "close" => DepthIn(b, p) = DepthIn(b, p - 1) - 1
              /\ b[p].op \notin Openers /\ b[p].op # "close" => DepthIn(b, p) = DepthIn(b, p - 1)
<1>1. b \in Seq(Entry) /\ Len(b) \in Nat /\ DOMAIN b = 1 .. Len(b)
  BY DEF Text
<1>2. "close" \notin Openers
  BY DEF Openers, Loops
<1>3. \A p \in 0 .. Len(b) : DepthIn(b, p) \in Nat
  <2>1. \A p \in 0 .. Len(b) : p = 0 \/ p \in 1 .. Len(b)
    BY <1>1
  <2> QED BY <1>1, <2>1, DepthStep DEF Text, Balanced
<1> QED BY <1>1, <1>2, <1>3, DepthStep DEF Text, Balanced

\* A block around p is no deeper than the entry before p, and of two the later
\* one is the deeper one.
LEMMA AroundIs ==
  ASSUME NEW b, Text(b), NEW p \in 1 .. Len(b) + 1, NEW o, Around(b, o, p)
  PROVE  /\ o \in 1 .. Len(b) /\ o < p /\ DepthIn(b, o) \in Nat \ {0}
         /\ DepthIn(b, o - 1) = DepthIn(b, o) - 1
         /\ DepthIn(b, o) <= DepthIn(b, p - 1)
         /\ \A u : Around(b, u, p) /\ o < u => DepthIn(b, o) < DepthIn(b, u)
<1>1. /\ o \in 1 .. p - 1 /\ b[o].op \in Openers /\ Len(b) \in Nat
      /\ \A r \in o .. p - 1 : DepthIn(b, r) >= DepthIn(b, o)
  BY DepthIs DEF Around
<1>2. o \in 1 .. Len(b) /\ o - 1 \in 0 .. Len(b) /\ p - 1 \in o .. p - 1
  BY <1>1
<1>3. DepthIn(b, o) = DepthIn(b, o - 1) + 1 /\ DepthIn(b, o - 1) \in Nat
  BY <1>1, <1>2, DepthIs
<1>4. ASSUME NEW u, Around(b, u, p), o < u PROVE DepthIn(b, o) < DepthIn(b, u)
  <2>1. u \in 1 .. p - 1 /\ b[u].op \in Openers /\ u \in 1 .. Len(b) /\ u - 1 \in 0 .. Len(b)
    BY <1>1, <1>4 DEF Around
  <2>2. DepthIn(b, u) = DepthIn(b, u - 1) + 1 /\ DepthIn(b, u - 1) \in Nat
    BY <2>1, DepthIs
  <2>3. u - 1 \in o .. p - 1
    BY <1>1, <1>4, <2>1
  <2> QED BY <1>1, <1>3, <2>2, <2>3
<1> QED BY <1>1, <1>2, <1>3, <1>4

\* A level of the nest is one block.
LEMMA LevelIs ==
  ASSUME NEW b, Text(b), NEW p \in 1 .. Len(b) + 1, NEW i, NEW o, Level(b, p, i, o)
  PROVE  /\ o \in 0 .. p - 1 /\ o \in 0 .. Len(b) /\ i \in Nat \ {0} /\ i = DepthIn(b, o) + 1
         /\ i <= DepthIn(b, p - 1) + 1 /\ (i = 1 <=> o = 0)
         /\ \A r \in o .. p - 1 : DepthIn(b, r) >= i - 1
         /\ \A u : Level(b, p, i, u) => u = o
         /\ \A h, u : Level(b, p, h, u) /\ i < h => o < u
<1>0. Len(b) \in Nat /\ DepthIn(b, 0) = 0 /\ \A r \in 0 .. Len(b) : DepthIn(b, r) \in Nat
  BY DepthIs
<1>1. ASSUME NEW u, NEW h, Level(b, p, h, u)
      PROVE  /\ u \in 0 .. p - 1 /\ u \in 0 .. Len(b) /\ h \in Nat \ {0} /\ h = DepthIn(b, u) + 1
             /\ h <= DepthIn(b, p - 1) + 1 /\ (h = 1 <=> u = 0)
             /\ u # 0 => Around(b, u, p)
             /\ DepthIn(b, u) \in Nat
             /\ \A r \in u .. p - 1 : DepthIn(b, r) >= h - 1
  <2>1. CASE h = 1 /\ u = 0
    <3>1. p - 1 \in 0 .. Len(b) /\ \A r \in 0 .. p - 1 : r \in 0 .. Len(b)
      BY <1>0
    <3> QED BY <1>0, <2>1, <3>1
  <2>2. CASE Around(b, u, p) /\ h = DepthIn(b, u) + 1
    <3>1. /\ u \in 1 .. Len(b) /\ u < p /\ DepthIn(b, u) \in Nat \ {0}
          /\ DepthIn(b, u) <= DepthIn(b, p - 1)
      BY <2>2, AroundIs
    <3>2. \A r \in u .. p - 1 : DepthIn(b, r) >= h - 1
      BY <2>2, <3>1 DEF Around
    <3>3. u \in 0 .. p - 1
      BY <3>1
    <3>4. p - 1 \in 0 .. Len(b)
      BY <1>0
    <3> QED BY <1>0, <2>2, <3>1, <3>2, <3>3, <3>4
  <2> QED BY <1>1, <2>1, <2>2 DEF Level
<1>2. ASSUME NEW h, NEW u, Level(b, p, h, u), i <= h, o > u PROVE FALSE
  <2>1. o # 0 /\ u \in Nat /\ o \in Nat
    BY <1>1, <1>2
  <2>2. u # 0
    <3>1. i \in Nat \ {0} /\ i # 1
      BY <1>1, <2>1
    <3>2. h # 1
      BY <1>2, <3>1
    <3>3. h = 1 <=> u = 0
      BY <1>1, <1>2
    <3> QED BY <3>2, <3>3
  <2>3. DepthIn(b, u) < DepthIn(b, o)
    BY <1>1, <1>2, <2>1, <2>2, AroundIs
  <2> QED BY <1>1, <1>2, <2>3
<1>3. ASSUME NEW h, NEW u, Level(b, p, h, u), i < h PROVE o < u
  <2>1. u # o /\ ~(o > u)
    BY <1>1, <1>2, <1>3
  <2> QED BY <1>1, <1>3, <2>1
<1>4. ASSUME NEW u, Level(b, p, i, u) PROVE u = o
  <2>1. ~(u < o)
    BY <1>1, <1>2, <1>4
  <2>2. ~(o < u)
    <3> SUFFICES ASSUME o < u PROVE FALSE
      OBVIOUS
    <3>1. o \in Nat /\ u \in Nat /\ u # 0
      BY <1>1, <1>4
    <3>2. o # 0
      BY <1>1, <1>4, <3>1
    <3>3. DepthIn(b, o) < DepthIn(b, u)
      BY <1>1, <1>4, <3>1, <3>2, AroundIs
    <3> QED BY <1>1, <1>4, <3>3
  <2> QED BY <1>1, <1>4, <2>1, <2>2
<1> QED BY <1>1, <1>3, <1>4

\* As long as the text goes no less deep than what is around level i, and
\* declares nothing there, level i and its declarations stay: going forward ...
LEMMA Forward ==
  ASSUME NEW b, Text(b), NEW p \in 1 .. Len(b) + 1, NEW q \in 1 .. Len(b) + 1, p <= q,
         NEW i, NEW o, Level(b, p, i, o),
         \A r \in p .. q - 1 : DepthIn(b, r) >= i - 1 /\ (DepthIn(b, r) = i - 1 => b[r].op # "let")
  PROVE  Level(b, q, i, o) /\ Decl(b, o, q) = Decl(b, o, p)
<1>0. /\ Len(b) \in Nat /\ o \in 0 .. p - 1 /\ i = DepthIn(b, o) + 1 /\ DepthIn(b, o) \in Nat
      /\ \A r \in o .. p - 1 : DepthIn(b, r) >= i - 1
  BY DepthIs, LevelIs
<1>1. Level(b, q, i, o)
  <2>1. CASE i = 1 /\ o = 0
    BY <2>1 DEF Level
  <2>2. CASE Around(b, o, p)
    <3>1. ASSUME NEW r \in o .. q - 1 PROVE DepthIn(b, r) >= DepthIn(b, o)
      <4>1. r \in o .. p - 1 \/ r \in p .. q - 1
        BY <1>0
      <4>2. i - 1 = DepthIn(b, o)
        BY <1>0
      <4> QED BY <1>0, <4>1, <4>2
    <3>2. o \in 1 .. q - 1
      BY <1>0, <2>2 DEF Around
    <3> QED BY <1>0, <2>2, <3>1, <3>2 DEF Level, Around
  <2> QED BY <2>1, <2>2 DEF Level
<1>2. ASSUME NEW r \in 1 .. q - 1, r \notin 1 .. p - 1 PROVE r \notin Decl(b, o, q)
  <2>1. r \in p .. q - 1 /\ r # o
    BY <1>0, <1>2
  <2>2. i - 1 = DepthIn(b, o)
    BY <1>0
  <2> QED BY <2>1, <2>2 DEF Decl
<1>3. \A r \in 1 .. p - 1 : r \in 1 .. q - 1
  BY <1>0
<1> QED BY <1>1, <1>2, <1>3 DEF Decl

\* ... and going back to behind the opening entry.
LEMMA Backward ==
  ASSUME NEW b, Text(b), NEW p \in 1 .. Len(b) + 1, NEW q \in 1 .. Len(b), q < p,
         NEW i, NEW o, Level(b, p, i, o), o < q,
         \A r \in q .. p - 1 : DepthIn(b, r) > i - 1
  PROVE  Level(b, q, i, o) /\ Decl(b, o, q) = Decl(b, o, p)
<1>0. /\ Len(b) \in Nat /\ o \in 0 .. p - 1 /\ i = DepthIn(b, o) + 1 /\ DepthIn(b, o) \in Nat
      /\ \A r \in o .. p - 1 : DepthIn(b, r) >= i - 1
  BY DepthIs, LevelIs
<1>1. Level(b, q, i, o)
  <2>1. CASE i = 1 /\ o = 0
    BY <2>1 DEF Level
  <2>2. CASE Around(b, o, p)
    <3>1. \A r \in o .. q - 1 : r \in o .. p - 1
      BY <1>0
    <3>2. o \in 1 .. q - 1
      BY <1>0, <2>2 DEF Around
    <3> QED BY <1>0, <2>2, <3>1, <3>2 DEF Level, Around
  <2> QED BY <2>1, <2>2 DEF Level
<1>2. ASSUME NEW r \in 1 .. p - 1, r \notin 1 .. q - 1 PROVE r \notin Decl(b, o, p)
  <2>1. r \in q .. p - 1 /\ r # o
    BY <1>0, <1>2
  <2>2. i - 1 = DepthIn(b, o) /\ DepthIn(b, r) > i - 1
    BY <1>0, <2>1
  <2> QED BY <1>0, <2>1, <2>2 DEF Decl
<1>3. \A r \in 1 .. q - 1 : r \in 1 .. p - 1
  BY <1>0
<1> QED BY <1>1, <1>2, <1>3 DEF Decl

\* A block that is opened is a new level.
LEMMA NewLevel ==
  ASSUME NEW b, Text(b), NEW p \in 1 .. Len(b), b[p].op \in Openers
  PROVE  /\ Level(b, p + 1, DepthIn(b, p) + 1, p)
         /\ Decl(b, p, p + 1) = IF b[p].op = "for" THEN {p} ELSE {}
<1>1. Len(b) \in Nat /\ p .. p = {p} /\ DepthIn(b, p) \in Nat /\ p + 1 - 1 = p
  BY DepthIs
<1>2. Around(b, p, p + 1)
  BY <1>1 DEF Around
<1>3. \A q \in 1 .. p : q > p => FALSE
  OBVIOUS
<1> QED BY <1>1, <1>2, <1>3 DEF Level, Decl

\* A declaration belongs to the innermost level.
LEMMA NewDecl ==
  ASSUME NEW b, Text(b), NEW p \in 1 .. Len(b), b[p].op = "let",
         NEW i, NEW o, Level(b, p, i, o)
  PROVE  /\ Level(b, p + 1, i, o)
         /\ Decl(b, o, p + 1) = IF i = DepthIn(b, p - 1) + 1 THEN Decl(b, o, p) \cup {p} ELSE Decl(b, o, p)
         /\ DepthIn(b, p) = DepthIn(b, p - 1)
<1>1. "let" \notin Openers
  BY DEF Openers, Loops
<1>2. Len(b) \in Nat /\ DepthIn(b, p) = DepthIn(b, p - 1) /\ DepthIn(b, p) \in Nat /\ p - 1 \in 0 .. Len(b)
  BY <1>1, DepthIs
<1>3. /\ o \in 0 .. p - 1 /\ i = DepthIn(b, o) + 1 /\ DepthIn(b, o) \in Nat
      /\ i <= DepthIn(b, p - 1) + 1 /\ \A r \in o .. p - 1 : DepthIn(b, r) >= i - 1
  <2>1. p \in 1 .. Len(b) + 1
    BY <1>2
  <2>2. o \in 0 .. Len(b) /\ \A r \in 0 .. Len(b) : DepthIn(b, r) \in Nat
    BY <2>1, LevelIs, DepthIs
  <2> QED BY <2>1, <2>2, LevelIs
<1>4. Level(b, p + 1, i, o)
  <2>1. CASE i = 1 /\ o = 0
    BY <2>1 DEF Level
  <2>2. CASE Around(b, o, p)
    <3>1. ASSUME NEW r \in o .. p PROVE DepthIn(b, r) >= DepthIn(b, o)
      <4>1. r \in o .. p - 1 \/ r = p
        BY <1>3
      <4> QED BY <1>2, <1>3, <4>1
    <3>2. o \in 1 .. p /\ p + 1 - 1 = p
      BY <1>3, <2>2 DEF Around
    <3> QED BY <1>3, <2>2, <3>1, <3>2 DEF Level, Around
  <2> QED BY <2>1, <2>2 DEF Level
<1>5. p \in Decl(b, o, p + 1) <=> DepthIn(b, p) = DepthIn(b, o)
  <2>1. p \in 1 .. p + 1 - 1 /\ p > o
    BY <1>3
  <2> QED BY <2>1 DEF Decl
<1>6. \A r \in 1 .. p + 1 - 1 : r = p \/ r \in 1 .. p - 1
  OBVIOUS
<1>7. \A r : r # p => (r \in Decl(b, o, p + 1) <=> r \in Decl(b, o, p))
  <2>1. \A r \in 1 .. p - 1 : r \in 1 .. p + 1 - 1
    OBVIOUS
  <2> QED BY <1>6, <2>1 DEF Decl
<1>8. p \notin Decl(b, o, p)
  BY DEF Decl
<1>9. i = DepthIn(b, p - 1) + 1 <=> DepthIn(b, p) = DepthIn(b, o)
  BY <1>2, <1>3
<1>10. CASE i = DepthIn(b, p - 1) + 1
  <2>1. \A r : r \in Decl(b, o, p + 1) <=> r \in Decl(b, o, p) \cup {p}
    BY <1>5, <1>7, <1>9, <1>10
  <2> QED BY <1>2, <1>4, <1>10, <2>1
<1>11. CASE i # DepthIn(b, p - 1) + 1
  <2>1. \A r : r \in Decl(b, o, p + 1) <=> r \in Decl(b, o, p)
    BY <1>5, <1>7, <1>8, <1>9, <1>11
  <2>2. Decl(b, o, p + 1) = Decl(b, o, p)
    BY <2>1 DEF Decl
  <2> QED BY <1>2, <1>4, <1>11, <2>2
<1> QED BY <1>10, <1>11
-----------------------------------------------------------------------------
(* Where blocks and choices end.                                             *)

\* A block is closed by the first entry that is less deep.
LEMMA CloseIs ==
  ASSUME Text(body), NEW p \in 1 .. Len(body), body[p].op \in Openers
  PROVE  /\ Close(p) \in p + 1 .. Len(body) /\ body[Close(p)].op = "close"
         /\ DepthIn(body, Close(p)) = DepthIn(body, p) - 1
         /\ \A r \in p .. Close(p) - 1 : DepthIn(body, r) >= DepthIn(body, p)
         /\ \A q \in p + 1 .. Len(body) :
              /\ body[q].op = "close" /\ DepthIn(body, q) = DepthIn(body, p) - 1
              /\ \A r \in p .. q - 1 : DepthIn(body, r) >= DepthIn(body, p)
              => q = Close(p)
<1> DEFINE D(q) == DepthIn(body, q)
           N == Len(body)
           T == {q \in p .. N : D(q) < D(p)}
           Is(q) == /\ Op(q) = "close" /\ Depth(q) = Depth(p) - 1
                    /\ \A r \in p + 1 .. q - 1 : Depth(r) >= Depth(p)
<1>1. /\ N \in Nat /\ D(N) = 0 /\ \A q \in 0 .. N : D(q) \in Nat
      /\ D(p) = D(p - 1) + 1
      /\ \A q \in 1 .. N : D(q) = D(q - 1) \/ D(q) = D(q - 1) + 1 \/ (body[q].op = "close" /\ D(q) = D(q - 1) - 1)
  <2>1. \A q \in 1 .. N : D(q) = D(q - 1) \/ D(q) = D(q - 1) + 1 \/ (body[q].op = "close" /\ D(q) = D(q - 1) - 1)
    BY DepthIs
  <2> QED BY <2>1, DepthIs
<1>2. D(p) \in Nat \ {0}
  <2>1. p - 1 \in 0 .. N
    BY <1>1
  <2> QED BY <1>1, <2>1
<1>3. T \in SUBSET Nat /\ N \in T
  BY <1>1, <1>2
<1>4. PICK c \in T : \A y \in T : c <= y
  <2> HIDE DEF T
  <2> QED BY <1>3, LeastNat
<1>5. c \in p .. N /\ D(c) < D(p) /\ \A r \in p .. c - 1 : D(r) >= D(p)
  <2>1. \A r \in p .. c - 1 : r \in p .. N /\ ~(c <= r)
    BY <1>1, <1>4
  <2>2. \A r \in p .. c - 1 : ~(D(r) < D(p)) /\ D(r) \in Nat
    BY <1>1, <1>4, <2>1
  <2> QED BY <1>2, <1>4, <2>2
<1>6. c \in p + 1 .. N /\ c - 1 \in p .. c - 1 /\ c \in 1 .. N /\ c - 1 \in 0 .. N
  <2>1. c # p
    BY <1>2, <1>5
  <2> QED BY <1>1, <1>5, <2>1
<1>7. body[c].op = "close" /\ D(c) = D(p) - 1
  <2>1. D(c - 1) >= D(p)
    BY <1>5, <1>6
  <2>2. PICK x \in Nat, y \in Nat, z \in Nat : x = D(c) /\ y = D(c - 1) /\ z = D(p)
    BY <1>1, <1>2, <1>6, SMTT(60)
  <2>3. x = y \/ x = y + 1 \/ (body[c].op = "close" /\ x = y - 1)
    BY <1>1, <1>6, <2>2
  <2>4. y >= z /\ x < z
    BY <1>5, <2>1, <2>2
  <2> QED BY <2>2, <2>3, <2>4
<1>8. Is(c)
  BY <1>1, <1>5, <1>6, <1>7 DEF Op, Depth
<1>9. ASSUME NEW q \in p + 1 .. N, Is(q) PROVE q = c
  <2>1. q \in Nat /\ c \in Nat /\ p \in Nat
    BY <1>1, <1>5
  <2>2. ~(q < c)
    <3> SUFFICES ASSUME q < c PROVE FALSE
      OBVIOUS
    <3>1. D(q) >= D(p)
      BY <1>5, <2>1
    <3> QED BY <1>2, <1>9, <3>1 DEF Depth
  <2>3. ~(c < q)
    <3> SUFFICES ASSUME c < q PROVE FALSE
      OBVIOUS
    <3>1. c \in p + 1 .. q - 1
      BY <1>6, <2>1
    <3>2. D(c) >= D(p)
      BY <1>9, <3>1 DEF Depth
    <3> QED BY <1>2, <1>7, <3>2
  <2> QED BY <2>1, <2>2, <2>3
<1>10. Close(p) = CHOOSE q \in p + 1 .. N : Is(q)
  BY DEF Close
<1>11. Close(p) = c
  <2>1. \A q \in p + 1 .. N : Is(q) <=> q = c
    BY <1>8, <1>9
  <2> HIDE DEF Is
  <2> QED BY <1>6, <1>10, <2>1
<1>12. ASSUME NEW q \in p + 1 .. N, body[q].op = "close", D(q) = D(p) - 1,
              \A r \in p .. q - 1 : D(r) >= D(p)
       PROVE  q = c
  <2>1. \A r \in p + 1 .. q - 1 : r \in p .. q - 1
    BY <1>1
  <2>2. Is(q)
    BY <1>12, <2>1 DEF Op, Depth
  <2> QED BY <1>9, <2>2
<1> QED BY <1>5, <1>6, <1>7, <1>11, <1>12

\* Behind the last arm of a choice the text is as deep as behind the first,
\* and nothing but arms is in between.
LEMMA AfterArmsIs ==
  ASSUME Text(body), NEW p \in 1 .. Len(body), body[p].op \in Openers
  PROVE  /\ AfterArms(p) \in Close(p) + 1 .. Len(body) + 1
         /\ DepthIn(body, AfterArms(p) - 1) = DepthIn(body, p) - 1
         /\ \A r \in Close(p) .. AfterArms(p) - 1 :
              /\ DepthIn(body, r) >= DepthIn(body, p) - 1
              /\ DepthIn(body, r) = DepthIn(body, p) - 1 => body[r].op # "let"
<1> DEFINE D(q) == DepthIn(body, q)
           N == Len(body)
           Back(q) == D(q - 1) = D(p) - 1
           Is(q) == LastArm(p, q) /\ \A r \in Close(p) + 1 .. q - 1 : ~LastArm(p, r)
<1>1. /\ N \in Nat /\ DOMAIN body = 1 .. N /\ \A q \in 0 .. N : D(q) \in Nat
      /\ Close(p) \in p + 1 .. N /\ D(Close(p)) = D(p) - 1 /\ body[Close(p)].op = "close"
      /\ D(p) = D(p - 1) + 1
      /\ \A q \in 1 .. N : /\ D(q) >= D(q - 1) - 1
                           /\ D(q) = D(q - 1) - 1 => body[q].op = "close"
                           /\ body[q].op = "let" => D(q) = D(q - 1)
                           /\ body[q].op = "arm" => D(q) = D(q - 1) + 1
  <2>1. "arm" \in Openers /\ "let" \notin Openers
    BY DEF Openers, Loops
  <2>2. \A q \in 0 .. N : D(q) \in Nat
    BY DepthIs
  <2>3. N \in Nat /\ \A q \in 1 .. N : q - 1 \in 0 .. N /\ q \in 0 .. N
    BY DepthIs
  <2>4. \A q \in 1 .. N : /\ D(q) >= D(q - 1) - 1
                          /\ D(q) = D(q - 1) - 1 => body[q].op = "close"
                          /\ body[q].op = "let" => D(q) = D(q - 1)
                          /\ body[q].op = "arm" => D(q) = D(q - 1) + 1
    <3> SUFFICES ASSUME NEW q \in 1 .. N
                 PROVE  /\ D(q) >= D(q - 1) - 1
                        /\ D(q) = D(q - 1) - 1 => body[q].op = "close"
                        /\ body[q].op = "let" => D(q) = D(q - 1)
                        /\ body[q].op = "arm" => D(q) = D(q - 1) + 1
      OBVIOUS
    <3>1. D(q) \in Nat /\ D(q - 1) \in Nat
      BY <2>2, <2>3
    <3> QED BY <2>1, <3>1, DepthIs
  <2> QED BY <2>2, <2>4, CloseIs, DepthIs
<1>2. \A q \in Close(p) + 1 .. N + 1 : LastArm(p, q) <=> Back(q) /\ (q \in 1 .. N => body[q].op # "arm")
  BY <1>1 DEF LastArm, Depth, Op
<1>3. D(p) \in Nat \ {0} /\ D(p) - 1 \in Nat
  <2>1. p - 1 \in 0 .. N
    BY <1>1
  <2> QED BY <1>1, <2>1
<1>4. \E q \in Close(p) + 1 .. N + 1 : LastArm(p, q)
  <2> DEFINE U == {m \in Nat : m \in 0 .. N /\ N + 1 - m \in Close(p) + 1 .. N + 1 /\ Back(N + 1 - m)}
  <2>1. U \in SUBSET Nat /\ N - Close(p) \in U
    <3>0. PICK k \in 1 .. N : k = Close(p)
      BY <1>1
    <3>1. N + 1 - (N - k) = k + 1 /\ (k + 1) - 1 = k /\ N - k \in 0 .. N /\ k + 1 \in k + 1 .. N + 1
      BY <1>1
    <3>2. D((k + 1) - 1) = D(p) - 1
      BY <1>1, <3>0, <3>1
    <3>3. Back(k + 1)
      BY <3>2
    <3> HIDE DEF Back
    <3> QED BY <3>0, <3>1, <3>3, SMTT(60)
  <2>2. PICK m \in U : \A y \in U : m <= y
    <3> HIDE DEF U
    <3> QED BY <2>1, LeastNat
  <2>3. PICK q \in Close(p) + 1 .. N + 1 : q = N + 1 - m /\ Back(q) /\ m \in Nat
    BY <2>2
  <2>0. PICK k \in 1 .. N : k = Close(p)
    BY <1>1
  <2>4. q \in 1 .. N => body[q].op # "arm"
    <3> SUFFICES ASSUME q \in 1 .. N, body[q].op = "arm" PROVE FALSE
      OBVIOUS
    <3>1. "arm" \in Openers
      BY DEF Openers, Loops
    <3>2. PICK c : c = Close(q)
      OBVIOUS
    <3>3. c \in q + 1 .. N /\ D(c) = D(q) - 1
      BY <3>1, <3>2, CloseIs
    <3>4. D(q) = D(q - 1) + 1 /\ D(q - 1) = D(p) - 1
      BY <1>1, <2>3
    <3>5. D(c) = D(p) - 1
      BY <1>3, <3>3, <3>4
    <3>0. q \in k + 1 .. N + 1 /\ k \in Nat /\ q \in Nat /\ c \in Nat /\ N \in Nat /\ c > q /\ c <= N /\ m \in Nat
      <4>1. q \in k + 1 .. N + 1
        BY <2>0
      <4>2. k \in Nat /\ N \in Nat /\ m \in Nat
        BY <1>1, <2>3
      <4> QED BY <3>3, <4>1, <4>2
    <3>6. Back(c + 1) /\ c + 1 \in Close(p) + 1 .. N + 1
      <4>1. (c + 1) - 1 = c
        BY <3>0
      <4>2. D((c + 1) - 1) = D(p) - 1
        BY <3>5, <4>1
      <4>3. c + 1 \in k + 1 .. N + 1
        BY <3>0
      <4> QED BY <2>0, <4>2, <4>3
    <3>7. N - c \in Nat /\ N - c \in 0 .. N /\ N + 1 - (N - c) = c + 1 /\ N - c < m
      BY <2>3, <3>0
    <3>8. N - c \in U
      <4> HIDE DEF Back
      <4> QED BY <3>6, <3>7
    <3>9. m <= N - c
      <4> HIDE DEF U
      <4> QED BY <2>2, <3>8
    <3> QED BY <3>0, <3>7, <3>9
  <2> QED BY <1>2, <2>3, <2>4
<1>5. PICK a \in Close(p) + 1 .. N + 1 : Is(a)
  <2> DEFINE T == {q \in Close(p) + 1 .. N + 1 : LastArm(p, q)}
  <2>1. T \in SUBSET Nat /\ T # {}
    BY <1>1, <1>4
  <2>2. PICK q \in T : \A y \in T : q <= y
    <3> HIDE DEF T
    <3> QED BY <2>1, LeastNat
  <2>3. \A r \in Close(p) + 1 .. q - 1 : r \in Close(p) + 1 .. N + 1 /\ ~(q <= r)
    BY <1>1, <2>2
  <2>4. Is(q)
    BY <2>2, <2>3
  <2> QED BY <2>2, <2>4
<1>6. AfterArms(p) \in Close(p) + 1 .. N + 1 /\ Is(AfterArms(p))
  <2>1. AfterArms(p) = CHOOSE q \in Close(p) + 1 .. N + 1 : Is(q)
    BY DEF AfterArms
  <2> HIDE DEF Is
  <2> QED BY <1>5, <2>1
<1>7. PICK e \in Close(p) + 1 .. N + 1 : e = AfterArms(p) /\ Is(e)
  BY <1>6
<1> HIDE DEF Is
<1>8. Back(e) /\ \A r \in Close(p) + 1 .. e - 1 : Back(r) => body[r].op = "arm"
  <2>1. \A r \in Close(p) + 1 .. e - 1 : r \in Close(p) + 1 .. N + 1 /\ r \in 1 .. N
    BY <1>1
  <2> QED BY <1>2, <1>7, <2>1 DEF Is
<1> DEFINE W == {m \in Nat : m \in Close(p) .. e - 1 => D(m) >= D(p) - 1}
<1>9. \A m \in Nat : m \in W
  <2>1. 0 \in W
    BY <1>1
  <2>2. ASSUME NEW m \in Nat, m \in W PROVE m + 1 \in W
    <3> SUFFICES ASSUME m + 1 \in Close(p) .. e - 1 PROVE D(m + 1) >= D(p) - 1
      OBVIOUS
    <3>1. CASE m + 1 = Close(p)
      BY <1>1, <1>3, <3>1
    <3>2. CASE m + 1 # Close(p)
      <4>1. m \in Close(p) .. e - 1 /\ m + 1 \in Close(p) + 1 .. e - 1 /\ m + 1 \in 1 .. N /\ (m + 1) - 1 = m
            /\ m \in 0 .. N /\ m + 1 \in 0 .. N
        BY <1>1, <3>2, SMTT(60)
      <4>2. D(m) >= D(p) - 1 /\ D(m) \in Nat /\ D(m + 1) \in Nat
        BY <1>1, <2>2, <4>1
      <4>3. CASE D(m) = D(p) - 1
        <5>1. body[m + 1].op = "arm"
          BY <1>8, <4>1, <4>3
        <5>2. D(m + 1) = D(m) + 1
          BY <1>1, <4>1, <5>1
        <5> QED BY <1>3, <4>2, <5>2
      <4>4. CASE D(m) # D(p) - 1
        <5>1. D(m + 1) >= D(m) - 1
          BY <1>1, <4>1
        <5> QED BY <1>3, <4>2, <4>4, <5>1
      <4> QED BY <4>3, <4>4
    <3> QED BY <3>1, <3>2
  <2> HIDE DEF W
  <2> QED BY <2>1, <2>2, SetInduction
<1>10. ASSUME NEW r \in Close(p) .. e - 1
       PROVE  D(r) >= D(p) - 1 /\ (D(r) = D(p) - 1 => body[r].op # "let")
  <2>1. r \in Nat /\ D(r) >= D(p) - 1
    <3>1. r \in Nat
      BY <1>1
    <3> QED BY <1>9, <3>1
  <2>2. ASSUME D(r) = D(p) - 1, body[r].op = "let" PROVE FALSE
    <3>1. r # Close(p)
      BY <1>1, <2>2
    <3>2. r \in Close(p) + 1 .. e - 1 /\ r \in 1 .. N
      BY <1>1, <3>1, SMTT(60)
    <3>3. D(r) = D(r - 1)
      BY <1>1, <2>2, <3>2
    <3> QED BY <1>8, <2>2, <3>2, <3>3
  <2> QED BY <2>1, <2>2
<1> QED BY <1>7, <1>8, <1>10
-----------------------------------------------------------------------------
(* What a name stands for.                                                   *)

\* A list grows at its end.
LEMMA ListsMore ==
  ASSUME NEW s, NEW S, Lists(s, S), NEW p \in Nat, \A q \in S : q < p, S \subseteq Nat
  PROVE  Lists(Append(s, p), S \cup {p})
<1>1. s \in Seq(Nat) /\ Len(s) \in Nat
  BY DEF Lists
<1>2. PICK t \in Seq(Nat) : t = Append(s, p)
  BY <1>1, AppendProperties
<1>3. Len(t) = Len(s) + 1 /\ t[Len(s) + 1] = p /\ \A j \in 1 .. Len(s) : t[j] = s[j]
  BY <1>1, <1>2, AppendProperties
<1>4. \A j \in 1 .. Len(t) : j \in 1 .. Len(s) \/ j = Len(s) + 1
  BY <1>1, <1>3
<1>5. \A j \in 1 .. Len(t) : t[j] \in S \cup {p}
  BY <1>3, <1>4 DEF Lists
<1>6. ASSUME NEW q \in S \cup {p} PROVE \E j \in 1 .. Len(t) : t[j] = q
  <2>1. CASE q \in S
    <3>1. PICK j \in 1 .. Len(s) : s[j] = q
      BY <2>1 DEF Lists
    <3> QED BY <1>1, <1>3, <3>1
  <2>2. CASE q = p
    <3>1. Len(s) + 1 \in 1 .. Len(t)
      BY <1>1, <1>3
    <3> QED BY <1>3, <2>2, <3>1
  <2> QED BY <2>1, <2>2
<1>7. ASSUME NEW j \in 1 .. Len(t), NEW k \in 1 .. Len(t), j < k PROVE t[j] < t[k]
  <2>1. j \in 1 .. Len(s)
    BY <1>1, <1>3, <1>7
  <2>2. CASE k \in 1 .. Len(s)
    BY <1>3, <1>7, <2>1, <2>2 DEF Lists
  <2>3. CASE k = Len(s) + 1
    <3>1. s[j] \in S
      BY <2>1 DEF Lists
    <3> QED BY <1>3, <2>1, <2>3, <3>1
  <2> QED BY <1>4, <2>2, <2>3
<1> QED BY <1>2, <1>5, <1>6, <1>7 DEF Lists

\* A list of one declaration, or of none.
LEMMA ListsFirst ==
  ASSUME NEW p \in Nat
  PROVE  Lists(<<>>, {}) /\ Lists(<<p>>, {p})
<1>1. <<>> \in Seq(Nat) /\ Len(<<>>) = 0 /\ <<p>> \in Seq(Nat) /\ Len(<<p>>) = 1 /\ <<p>>[1] = p
  OBVIOUS
<1> QED BY <1>1 DEF Lists

\* Declarations come before what they are around.
LEMMA DeclIs ==
  ASSUME NEW b, NEW p \in Nat, NEW o
  PROVE  Decl(b, o, p) \subseteq 1 .. p - 1 /\ \A q \in Decl(b, o, p) : q < p /\ q \in Nat
BY DEF Decl

\* A table that lists the declarations around p finds the one a name stands
\* for, if it finds any.
LEMMA FoundIsMeant ==
  ASSUME Text(body), NEW p \in 1 .. Len(body), NEW table, Listed(body, p, table),
         DOMAIN table = 1 .. Len(table),
         NEW n, Declares(table, n)
  PROVE  Meant(body, p, n, find(table, n))
<1> DEFINE Hit(i) == Hits(table, i, n) # {}
           L == Len(table)
           Ds(o) == Decl(body, o, p)
<1>1. /\ L = DepthIn(body, p - 1) + 1 /\ L \in Nat /\ Len(body) \in Nat
      /\ p \in 1 .. Len(body) + 1
  <2>1. p - 1 \in 0 .. Len(body) /\ p \in 1 .. Len(body) + 1
    BY DepthIs
  <2> QED BY <2>1, DepthIs DEF Listed
<1>2. ASSUME NEW i \in 1 .. L, NEW o, Level(body, p, i, o), Lists(table[i], Ds(o))
      PROVE  /\ \A j \in Hits(table, i, n) : /\ j \in 1 .. Len(table[i]) /\ table[i][j] \in Ds(o)
                                             /\ body[table[i][j]].name = n
             /\ \A q \in Ds(o) : body[q].name = n => \E j \in Hits(table, i, n) : table[i][j] = q
             /\ \A j, k \in Hits(table, i, n) : j <= k => table[i][j] <= table[i][k]
  <2>1. /\ table[i] \in Seq(Nat) /\ DOMAIN table[i] = 1 .. Len(table[i])
    BY <1>2 DEF Lists
  <2>2. \A j : j \in Hits(table, i, n) <=> j \in 1 .. Len(table[i]) /\ body[table[i][j]].name = n
    BY <2>1 DEF Hits, Name
  <2>3. \A j \in 1 .. Len(table[i]) : table[i][j] \in Ds(o)
    BY <1>2 DEF Lists
  <2>4. \A q \in Ds(o) : \E j \in 1 .. Len(table[i]) : table[i][j] = q
    BY <1>2 DEF Lists
  <2>5. \A j, k \in 1 .. Len(table[i]) : j < k => table[i][j] < table[i][k]
    BY <1>2 DEF Lists
  <2>6. \A j \in 1 .. Len(table[i]) : table[i][j] \in Nat /\ j \in Nat
    BY <2>1
  <2>7. \A j, k \in Hits(table, i, n) : j <= k => table[i][j] <= table[i][k]
    <3> SUFFICES ASSUME NEW j \in Hits(table, i, n), NEW k \in Hits(table, i, n), j <= k
                 PROVE  table[i][j] <= table[i][k]
      OBVIOUS
    <3>1. j \in 1 .. Len(table[i]) /\ k \in 1 .. Len(table[i])
      BY <2>2
    <3>2. j = k \/ j < k
      BY <3>1
    <3> QED BY <2>5, <2>6, <3>1, <3>2
  <2> QED BY <2>2, <2>3, <2>4, <2>7
<1>3. PICK i \in 1 .. L : Hit(i) /\ \A h \in i + 1 .. L : ~Hit(h)
  <2> DEFINE U == {m \in Nat : m \in 0 .. L - 1 /\ Hit(L - m)}
  <2>1. PICK h \in 1 .. L : Hit(h)
    BY DEF Declares
  <2>2. U \in SUBSET Nat /\ L - h \in U
    <3>1. L - (L - h) = h /\ L - h \in 0 .. L - 1
      BY <1>1
    <3> HIDE DEF Hit, L
    <3> QED BY <2>1, <3>1
  <2>3. PICK m \in U : \A y \in U : m <= y
    <3> HIDE DEF U
    <3> QED BY <2>2, LeastNat
  <2>4. L - m \in 1 .. L /\ Hit(L - m) /\ m \in Nat
    BY <1>1, <2>3
  <2>5. ASSUME NEW g \in L - m + 1 .. L PROVE ~Hit(g)
    <3> SUFFICES ASSUME Hit(g) PROVE FALSE
      OBVIOUS
    <3>1. L - g \in 0 .. L - 1 /\ L - (L - g) = g /\ L - g < m
      BY <1>1, <2>4
    <3>2. L - g \in U
      <4> HIDE DEF Hit, L
      <4> QED BY <3>1
    <3>3. m <= L - g
      <4> HIDE DEF U
      <4> QED BY <2>3, <3>2
    <3> QED BY <1>1, <2>4, <3>1, <3>3
  <2> QED BY <2>4, <2>5
<1>4. PICK o \in 0 .. Len(body) : Level(body, p, i, o) /\ Lists(table[i], Ds(o))
  BY DEF Listed
<1>5. PICK j \in Hits(table, i, n) : \A h \in Hits(table, i, n) : j <= h
  <2>1. Hits(table, i, n) \in SUBSET Nat
    BY <1>2, <1>4
  <2> QED BY <1>3, <2>1, LeastNat
<1>6. find(table, n) = table[i][j]
  <2>1. ASSUME NEW g \in DOMAIN table, Hit(g), \A h \in g + 1 .. Len(table) : Hits(table, h, n) = {}
        PROVE  g = i
    <3>1. ~(g < i) /\ ~(i < g)
      BY <1>1, <1>3, <2>1
    <3> QED BY <1>1, <2>1, <3>1
  <2>2. (CHOOSE g \in DOMAIN table : Hits(table, g, n) # {} /\ \A h \in g + 1 .. Len(table) : Hits(table, h, n) = {}) = i
    BY <1>3, <2>1
  <2>3. ASSUME NEW g \in Hits(table, i, n), \A h \in Hits(table, i, n) : g <= h PROVE g = j
    <3>1. g \in Nat /\ j \in Nat
      BY <1>2, <1>4
    <3> QED BY <1>5, <2>3, <3>1
  <2>4. (CHOOSE g \in Hits(table, i, n) : \A h \in Hits(table, i, n) : g <= h) = j
    BY <1>5, <2>3
  <2> QED BY <2>2, <2>4 DEF find
<1>7. PICK m : m = table[i][j]
  OBVIOUS
<1>8. /\ m \in Ds(o) /\ body[m].name = n
      /\ \A q \in Ds(o) : body[q].name = n => m <= q
  <2>1. \A q \in Ds(o) : body[q].name = n => m <= q
    <3> SUFFICES ASSUME NEW q \in Ds(o), body[q].name = n PROVE m <= q
      OBVIOUS
    <3>1. PICK k \in Hits(table, i, n) : table[i][k] = q
      BY <1>2, <1>4
    <3> QED BY <1>2, <1>4, <1>5, <1>7, <3>1
  <2> QED BY <1>2, <1>4, <1>5, <1>7, <2>1
<1>9. ASSUME NEW h, NEW u, h > i, Level(body, p, h, u), NEW q \in Ds(u) PROVE body[q].name # n
  <2>1. h \in Nat \ {0} /\ h <= L
    BY <1>1, <1>9, LevelIs
  <2>2. h \in 1 .. L /\ h \in i + 1 .. L
    BY <1>1, <1>9, <2>1
  <2>3. PICK v \in 0 .. Len(body) : Level(body, p, h, v) /\ Lists(table[h], Ds(v))
    BY <2>2 DEF Listed
  <2>4. u = v
    BY <1>1, <1>9, <2>3, LevelIs
  <2>5. Hits(table, h, n) = {}
    BY <1>3, <2>2
  <2> QED BY <1>2, <1>9, <2>2, <2>3, <2>4, <2>5
<1>10. i \in 0 .. Len(body) + 1 /\ o \in 0 .. Len(body) + 1
  <2>1. i = DepthIn(body, o) + 1 /\ i <= DepthIn(body, p - 1) + 1
    BY <1>1, <1>4, LevelIs
  <2>2. DepthIn(body, p - 1) <= Len(body)
    <3> DEFINE W == {m1 \in Nat : m1 <= Len(body) => DepthIn(body, m1) <= m1}
    <3>1. 0 \in W
      BY DepthIs
    <3>2. ASSUME NEW r \in Nat, r \in W PROVE r + 1 \in W
      <4> SUFFICES ASSUME r + 1 <= Len(body) PROVE DepthIn(body, r + 1) <= r + 1
        OBVIOUS
      <4>1. r \in 0 .. Len(body) /\ r + 1 \in 1 .. Len(body) /\ r + 1 \in 0 .. Len(body) /\ (r + 1) - 1 = r
        BY <1>1
      <4>2. DepthIn(body, r) <= r /\ DepthIn(body, r) \in Nat /\ DepthIn(body, r + 1) \in Nat
        BY <3>2, <4>1, DepthIs
      <4>3. PICK x \in Nat, y \in Nat : x = DepthIn(body, r + 1) /\ y = DepthIn(body, r)
        BY <4>2
      <4>4. \A q \in 1 .. Len(body) : \/ DepthIn(body, q) = DepthIn(body, q - 1) + 1
                                      \/ DepthIn(body, q) = DepthIn(body, q - 1) - 1
                                      \/ DepthIn(body, q) = DepthIn(body, q - 1)
        BY DepthIs
      <4>5. \/ DepthIn(body, r + 1) = DepthIn(body, (r + 1) - 1) + 1
            \/ DepthIn(body, r + 1) = DepthIn(body, (r + 1) - 1) - 1
            \/ DepthIn(body, r + 1) = DepthIn(body, (r + 1) - 1)
        BY <4>1, <4>4
      <4>6. x = y + 1 \/ x = y - 1 \/ x = y
        BY <4>1, <4>3, <4>5
      <4>7. y <= r
        BY <4>2, <4>3
      <4>8. x <= r + 1
        BY ONLY <4>6, <4>7, x \in Nat, y \in Nat, r \in Nat
      <4> QED BY <4>3, <4>8
    <3>3. p - 1 \in W
      <4> HIDE DEF W
      <4>1. \A r \in Nat : r \in W
        BY <3>1, <3>2, SetInduction
      <4> QED BY <1>1, <4>1
    <3>4. p - 1 <= Len(body) /\ p - 1 \in 0 .. Len(body)
      BY <1>1
    <3>5. DepthIn(body, p - 1) <= p - 1 /\ DepthIn(body, p - 1) \in Nat
      BY <3>3, <3>4, DepthIs
    <3> QED BY <1>1, <3>4, <3>5
  <2>3. p - 1 \in 0 .. Len(body)
    BY <1>1
  <2>4. DepthIn(body, p - 1) \in Nat
    BY <2>3, DepthIs
  <2> QED BY <1>1, <1>4, <2>1, <2>2, <2>4
<1> QED BY <1>4, <1>6, <1>7, <1>8, <1>9, <1>10 DEF Meant

\* A name stands for one declaration.
LEMMA MeantOne ==
  ASSUME NEW b, Text(b), NEW p \in 1 .. Len(b), NEW n, NEW m, NEW k, Meant(b, p, n, m), Meant(b, p, n, k)
  PROVE  m = k /\ m \in 1 .. p - 1
<1>0. p \in 1 .. Len(b) + 1 /\ p \in Nat
  BY DepthIs
<1>1. PICK i, o \in 0 .. Len(b) + 1 :
        /\ Level(b, p, i, o)
        /\ m \in Decl(b, o, p) /\ b[m].name = n /\ \A q \in Decl(b, o, p) : b[q].name = n => m <= q
        /\ \A h, u \in 0 .. Len(b) + 1 :
             h > i /\ Level(b, p, h, u) => \A q \in Decl(b, u, p) : b[q].name # n
  BY DEF Meant
<1>2. PICK g, v \in 0 .. Len(b) + 1 :
        /\ Level(b, p, g, v)
        /\ k \in Decl(b, v, p) /\ b[k].name = n /\ \A q \in Decl(b, v, p) : b[q].name = n => k <= q
        /\ \A h, u \in 0 .. Len(b) + 1 :
             h > g /\ Level(b, p, h, u) => \A q \in Decl(b, u, p) : b[q].name # n
  BY DEF Meant
<1>3. ~(g > i) /\ ~(i > g)
  BY <1>1, <1>2
<1>4. i = g
  BY <1>3
<1>5. o = v
  BY <1>0, <1>1, <1>2, <1>4, LevelIs
<1>6. m <= k /\ k <= m /\ m \in 1 .. p - 1 /\ k \in 1 .. p - 1
  BY <1>0, <1>1, <1>2, <1>5, DeclIs
<1> QED BY <1>6

\* A table that lists the declarations around p finds what has a meaning.
LEMMA MeantIsFound ==
  ASSUME Text(body), NEW p \in 1 .. Len(body), NEW table, Listed(body, p, table),
         DOMAIN table = 1 .. Len(table),
         NEW n, NEW m, Meant(body, p, n, m)
  PROVE  Declares(table, n) /\ find(table, n) = m
<1>0. p \in 1 .. Len(body) + 1 /\ Len(body) \in Nat
  BY DepthIs
<1>1. PICK i, o \in 0 .. Len(body) + 1 :
        Level(body, p, i, o) /\ m \in Decl(body, o, p) /\ body[m].name = n
  BY DEF Meant
<1>2. i \in 1 .. Len(table)
  <2>1. i \in Nat \ {0} /\ i <= DepthIn(body, p - 1) + 1
    BY <1>0, <1>1, LevelIs
  <2>2. p - 1 \in 0 .. Len(body)
    BY <1>0
  <2>3. Len(table) = DepthIn(body, p - 1) + 1 /\ DepthIn(body, p - 1) \in Nat
    BY <2>2, DepthIs DEF Listed
  <2> QED BY <2>1, <2>3
<1>3. PICK v \in 0 .. Len(body) : Level(body, p, i, v) /\ Lists(table[i], Decl(body, v, p))
  BY <1>2 DEF Listed
<1>4. v = o
  BY <1>0, <1>1, <1>3, LevelIs
<1>5. PICK j \in 1 .. Len(table[i]) : table[i][j] = m
  BY <1>1, <1>3, <1>4 DEF Lists
<1>6. table[i] \in Seq(Nat) /\ DOMAIN table[i] = 1 .. Len(table[i])
  BY <1>3 DEF Lists
<1>7. j \in Hits(table, i, n)
  BY <1>1, <1>5, <1>6 DEF Hits, Name
<1>8. Declares(table, n)
  BY <1>2, <1>7 DEF Declares
<1>9. Meant(body, p, n, find(table, n))
  BY <1>8, FoundIsMeant
<1> QED BY <1>8, <1>9, MeantOne
-----------------------------------------------------------------------------
(* The blocks around an entry.                                               *)

\* A block is around what comes between its opening and its closing entry.
LEMMA AroundIff ==
  ASSUME Text(body), NEW p \in 1 .. Len(body) + 1, NEW o \in 1 .. Len(body)
  PROVE  Around(body, o, p) <=> Encloses(o, p)
<1>1. CASE body[o].op \notin Openers
  BY <1>1 DEF Around, Encloses, Op
<1>2. CASE body[o].op \in Openers
  <2>1. PICK c \in o + 1 .. Len(body) : c = Close(o)
    BY <1>2, CloseIs
  <2>2. DepthIn(body, c) = DepthIn(body, o) - 1 /\ DepthIn(body, o) \in Nat
        /\ \A r \in o .. c - 1 : DepthIn(body, r) >= DepthIn(body, o)
    <3>1. o \in 0 .. Len(body)
      BY DepthIs
    <3> QED BY <1>2, <2>1, <3>1, CloseIs, DepthIs
  <2>3. ASSUME o < p, p <= c PROVE Around(body, o, p)
    <3>1. o \in 1 .. p - 1 /\ \A r \in o .. p - 1 : r \in o .. c - 1
      BY <2>1, <2>3
    <3> QED BY <1>2, <2>2, <3>1 DEF Around
  <2>4. ASSUME Around(body, o, p) PROVE o < p /\ p <= c
    <3>1. o \in 1 .. p - 1 /\ \A r \in o .. p - 1 : DepthIn(body, r) >= DepthIn(body, o)
      BY <2>4 DEF Around
    <3>2. ~(c \in o .. p - 1)
      BY <2>2, <3>1
    <3> QED BY <2>1, <3>1, <3>2
  <2> QED BY <1>2, <2>1, <2>3, <2>4 DEF Encloses, Op
<1> QED BY <1>1, <1>2

\* From one entry to the next a block is added where it is opened and goes
\* where it is closed.
LEMMA AroundNext ==
  ASSUME Text(body), NEW p \in 1 .. Len(body), NEW o
  PROVE  Around(body, o, p + 1) <=>
           (Around(body, o, p) /\ Close(o) # p) \/ (o = p /\ body[p].op \in Openers)
<1>0. Len(body) \in Nat /\ p \in 1 .. Len(body) + 1 /\ p + 1 \in 1 .. Len(body) + 1
  BY DepthIs
<1>1. CASE o \notin 1 .. p
  <2>1. o \notin 1 .. p - 1 /\ o \notin 1 .. p + 1 - 1 /\ o # p
    BY <1>1
  <2> QED BY <2>1 DEF Around
<1>2. CASE o \in 1 .. p /\ body[o].op \notin Openers
  BY <1>2 DEF Around
<1>3. CASE o \in 1 .. p /\ body[o].op \in Openers
  <2>1. o \in 1 .. Len(body)
    BY <1>0, <1>3
  <2>2. PICK c \in o + 1 .. Len(body) : c = Close(o)
    BY <1>3, <2>1, CloseIs
  <2>3. /\ Around(body, o, p) <=> o < p /\ p <= c
        /\ Around(body, o, p + 1) <=> o < p + 1 /\ p + 1 <= c
    BY <1>0, <1>3, <2>1, <2>2, AroundIff DEF Encloses, Op
  <2>4. o < p + 1 /\ p + 1 <= c <=> (o < p /\ p <= c /\ c # p) \/ o = p
    BY <1>3, <2>1, <2>2
  <2> QED BY <1>3, <2>2, <2>3, <2>4
<1> QED BY <1>1, <1>2, <1>3

\* A close belongs to one block, the innermost.
LEMMA CloseOnce ==
  ASSUME Text(body), NEW o \in 1 .. Len(body), body[o].op \in Openers
  PROVE  /\ Around(body, o, Close(o))
         /\ \A u \in 1 .. Len(body) : body[u].op \in Openers /\ Close(u) = Close(o) => u = o
<1>0. Len(body) \in Nat /\ \A u \in 0 .. Len(body) : DepthIn(body, u) \in Nat
  BY DepthIs
<1>1. ASSUME NEW u \in 1 .. Len(body), body[u].op \in Openers
      PROVE  /\ Around(body, u, Close(u)) /\ Close(u) \in 1 .. Len(body) + 1
             /\ DepthIn(body, Close(u)) = DepthIn(body, u) - 1 /\ DepthIn(body, u) \in Nat
  <2>1. PICK c \in u + 1 .. Len(body) : c = Close(u)
    BY <1>1, CloseIs
  <2>2. c \in 1 .. Len(body) + 1 /\ u < c /\ c <= c /\ u \in 0 .. Len(body)
    BY <1>0, <2>1
  <2> QED BY <1>0, <1>1, <2>1, <2>2, AroundIff, CloseIs DEF Encloses, Op
<1>2. ASSUME NEW u \in 1 .. Len(body), body[u].op \in Openers, Close(u) = Close(o) PROVE u = o
  <2>1. Around(body, u, Close(o)) /\ Around(body, o, Close(o)) /\ Close(o) \in 1 .. Len(body) + 1
    BY <1>1, <1>2
  <2>2. DepthIn(body, u) = DepthIn(body, o) /\ DepthIn(body, u) \in Nat
    <3>1. DepthIn(body, o) \in Nat /\ DepthIn(body, u) \in Nat
          /\ DepthIn(body, o) - 1 = DepthIn(body, u) - 1
      BY <1>1, <1>2
    <3> QED BY <3>1
  <2>3. ~(u < o) /\ ~(o < u)
    BY <2>1, <2>2, AroundIs, SMTT(60)
  <2> QED BY <2>3
<1> QED BY <1>1, <1>2

\* What sema counts: the loops around an entry.
LEMMA LoopsFinite ==
  ASSUME NEW p \in Nat
  PROVE  /\ IsFiniteSet(LoopsAround(body, p)) /\ Cardinality(LoopsAround(body, p)) \in Nat
         /\ Cardinality(LoopsAround(body, p)) = 0 <=> LoopsAround(body, p) = {}
<1>1. LoopsAround(body, p) \subseteq 1 .. p - 1 /\ IsFiniteSet(1 .. p - 1)
  BY FS_Interval DEF LoopsAround
<1>2. IsFiniteSet(LoopsAround(body, p))
  BY <1>1, FS_Subset
<1> QED BY <1>2, FS_CardinalityType, FS_EmptySet

\* The first entry is in no loop.
LEMMA LoopsFirst == Cardinality(LoopsAround(body, 1)) = 0
<1>1. LoopsAround(body, 1) = {}
  BY DEF LoopsAround
<1> QED BY <1>1, LoopsFinite

\* The loops around the next entry: one more behind the opening of a loop, one
\* less behind its end.
LEMMA LoopsNext ==
  ASSUME Text(body), NEW p \in 1 .. Len(body)
  PROVE  Cardinality(LoopsAround(body, p + 1)) =
           IF body[p].op \in Loops THEN Cardinality(LoopsAround(body, p)) + 1
           ELSE IF body[p].op = "close" /\ \E o \in 1 .. p - 1 : Op(o) \in Loops /\ Close(o) = p
                  THEN Cardinality(LoopsAround(body, p)) - 1
                  ELSE Cardinality(LoopsAround(body, p))
<1> DEFINE LA(q) == LoopsAround(body, q)
<1>0. /\ Len(body) \in Nat /\ p \in Nat /\ p + 1 \in Nat
      /\ Loops \subseteq Openers /\ "close" \notin Openers
  BY DepthIs DEF Openers, Loops
<1>1. \A o : o \in LA(p + 1) <=> (o \in LA(p) /\ Close(o) # p) \/ (o = p /\ body[p].op \in Loops)
  <2> SUFFICES ASSUME NEW o
               PROVE  o \in LA(p + 1) <=> (o \in LA(p) /\ Close(o) # p) \/ (o = p /\ body[p].op \in Loops)
    OBVIOUS
  <2>1. \A q \in {p, p + 1} : o \in LA(q) <=> Around(body, o, q) /\ body[o].op \in Loops
    BY DEF LoopsAround, Around
  <2> QED BY <1>0, <2>1, AroundNext
<1>2. \A o \in LA(p) : o \in 1 .. Len(body) /\ o \in 1 .. p - 1 /\ body[o].op \in Loops /\ o # p
  <2>1. \A o \in 1 .. p - 1 : o \in 1 .. Len(body) /\ o # p
    BY <1>0
  <2> QED BY <2>1 DEF LoopsAround
<1>3. IsFiniteSet(LA(p)) /\ Cardinality(LA(p)) \in Nat /\ IsFiniteSet(LA(p + 1))
  BY <1>0, LoopsFinite
<1> HIDE DEF LA
<1>4. CASE body[p].op \in Loops
  <2>1. \A o \in LA(p) : Close(o) # p
    BY <1>0, <1>2, <1>4, CloseIs
  <2>2. LA(p + 1) = LA(p) \cup {p}
    BY <1>1, <1>4, <2>1
  <2>3. p \notin LA(p)
    BY <1>2
  <2> QED BY <1>3, <1>4, <2>2, <2>3, FS_AddElement DEF LA
<1>5. CASE body[p].op \notin Loops /\ body[p].op = "close" /\ \E o \in 1 .. p - 1 : Op(o) \in Loops /\ Close(o) = p
  <2>1. PICK o \in 1 .. p - 1 : body[o].op \in Loops /\ Close(o) = p
    BY <1>5 DEF Op
  <2>2. o \in 1 .. Len(body) /\ body[o].op \in Openers
    BY <1>0, <2>1
  <2>3. o \in LA(p)
    BY <2>1, <2>2, CloseOnce DEF LA, LoopsAround
  <2>4. \A u \in LA(p) : Close(u) = p => u = o
    BY <1>0, <1>2, <2>1, <2>2, CloseOnce
  <2>5. LA(p + 1) = LA(p) \ {o}
    BY <1>1, <1>5, <2>1, <2>4
  <2>6. Cardinality(LA(p) \ {o}) = Cardinality(LA(p)) - 1
    BY <1>3, <2>3, FS_RemoveElement
  <2> QED BY <1>5, <2>5, <2>6 DEF LA
<1>6. CASE body[p].op \notin Loops /\ ~(body[p].op = "close" /\ \E o \in 1 .. p - 1 : Op(o) \in Loops /\ Close(o) = p)
  <2>1. \A o \in LA(p) : Close(o) # p
    <3> SUFFICES ASSUME NEW o \in LA(p), Close(o) = p PROVE FALSE
      OBVIOUS
    <3>1. o \in 1 .. Len(body) /\ o \in 1 .. p - 1 /\ body[o].op \in Loops /\ body[o].op \in Openers
      BY <1>0, <1>2
    <3>2. body[p].op = "close"
      BY <3>1, CloseIs
    <3> QED BY <1>6, <3>1, <3>2 DEF Op
  <2>2. LA(p + 1) = LA(p)
    BY <1>1, <1>6, <2>1
  <2>3. Cardinality(LA(p + 1)) = Cardinality(LA(p))
    BY <2>2
  <2> QED BY <1>6, <2>3 DEF LA
<1> QED BY <1>4, <1>5, <1>6
-----------------------------------------------------------------------------
(* One level of a table, from one entry to the next.                         *)

Held(b, p, i, o, s) == Level(b, p, i, o) /\ Lists(s, Decl(b, o, p))

\* Whatever declares nothing and closes nothing that counts leaves it as it is.
LEMMA HeldForward ==
  ASSUME NEW b, Text(b), NEW p \in 1 .. Len(b) + 1, NEW q \in 1 .. Len(b) + 1, p <= q,
         NEW i, NEW o, NEW s, Held(b, p, i, o, s),
         \A r \in p .. q - 1 : DepthIn(b, r) >= i - 1 /\ (DepthIn(b, r) = i - 1 => b[r].op # "let")
  PROVE  Held(b, q, i, o, s)
BY Forward DEF Held

\* Going back to an entry inside of it changes nothing either.
LEMMA HeldBackward ==
  ASSUME NEW b, Text(b), NEW p \in 1 .. Len(b) + 1, NEW q \in 1 .. Len(b), q < p,
         NEW i, NEW o, NEW s, Held(b, p, i, o, s), o < q,
         \A r \in q .. p - 1 : DepthIn(b, r) > i - 1
  PROVE  Held(b, q, i, o, s)
BY Backward DEF Held

\* An entry that is no declaration, as long as it does not close the level.
LEMMA HeldNext ==
  ASSUME NEW b, Text(b), NEW p \in 1 .. Len(b), b[p].op # "let",
         NEW i, NEW o, NEW s, Held(b, p, i, o, s), i <= DepthIn(b, p) + 1
  PROVE  Held(b, p + 1, i, o, s)
<1>0. Len(b) \in Nat /\ p \in 1 .. Len(b) + 1 /\ p + 1 \in 1 .. Len(b) + 1 /\ p \in 0 .. Len(b)
  BY DepthIs
<1>1. DepthIn(b, p) \in Nat
  BY <1>0, DepthIs
<1>2. i \in Nat
  BY <1>0, LevelIs DEF Held
<1>3. \A r \in p .. p + 1 - 1 : r = p
  OBVIOUS
<1>4. DepthIn(b, p) >= i - 1
  BY <1>1, <1>2
<1> QED BY <1>0, <1>3, <1>4, HeldForward

\* A declaration is added to the innermost level.
LEMMA HeldLet ==
  ASSUME NEW b, Text(b), NEW p \in 1 .. Len(b), b[p].op = "let",
         NEW i, NEW o, NEW s, Held(b, p, i, o, s)
  PROVE  /\ i # DepthIn(b, p - 1) + 1 => Held(b, p + 1, i, o, s)
         /\ i = DepthIn(b, p - 1) + 1 => Held(b, p + 1, i, o, Append(s, p))
<1>0. p \in Nat
  BY DepthIs
<1>1. Level(b, p, i, o) /\ Lists(s, Decl(b, o, p))
  BY DEF Held
<1>2. /\ Level(b, p + 1, i, o)
      /\ Decl(b, o, p + 1) = IF i = DepthIn(b, p - 1) + 1 THEN Decl(b, o, p) \cup {p} ELSE Decl(b, o, p)
  BY <1>1, NewDecl, ZenonT(60)
<1>3. Decl(b, o, p) \subseteq Nat /\ \A q \in Decl(b, o, p) : q < p
  BY <1>0, DeclIs
<1>4. Lists(Append(s, p), Decl(b, o, p) \cup {p})
  BY <1>0, <1>1, <1>3, ListsMore
<1> QED BY <1>1, <1>2, <1>4 DEF Held

\* A block that is opened starts with what it declares itself.
LEMMA HeldNew ==
  ASSUME Text(body), NEW p \in 1 .. Len(body), body[p].op \in Openers
  PROVE  Held(body, p + 1, DepthIn(body, p) + 1, p, Opened(p))
<1>1. p \in Nat
  BY DepthIs
<1>2. /\ Level(body, p + 1, DepthIn(body, p) + 1, p)
      /\ Decl(body, p, p + 1) = IF body[p].op = "for" THEN {p} ELSE {}
  BY NewLevel
<1> QED BY <1>1, <1>2, ListsFirst DEF Held, Opened, Op

\* In the beginning there is the level of the body, and nothing declared.
LEMMA HeldFirst ==
  ASSUME NEW b
  PROVE  Held(b, 1, 1, 0, <<>>)
<1>1. Level(b, 1, 1, 0)
  BY DEF Level
<1>2. Decl(b, 0, 1) = {}
  BY DEF Decl
<1> QED BY <1>1, <1>2, ListsFirst DEF Held

\* The table of scopes, level by level.
LEMMA ListedIs ==
  ASSUME NEW b, NEW p, NEW table
  PROVE  Listed(b, p, table) <=>
           /\ Len(table) = DepthIn(b, p - 1) + 1
           /\ \A i \in 1 .. Len(table) : \E o \in 0 .. Len(b) : Held(b, p, i, o, table[i])
BY DEF Listed, Held

\* The same behind an entry.
LEMMA ListedBehind ==
  ASSUME NEW b, NEW p \in Int, NEW table, Len(table) = DepthIn(b, p) + 1,
         \A i \in 1 .. Len(table) : \E o \in 0 .. Len(b) : Held(b, p + 1, i, o, table[i])
  PROVE  Listed(b, p + 1, table)
<1>1. p + 1 - 1 = p
  OBVIOUS
<1>2. Len(table) = DepthIn(b, p + 1 - 1) + 1
  BY <1>1
<1> QED BY <1>2, ListedIs

\* The chain of frames, level by level.
LEMMA FramedIs ==
  ASSUME NEW b, NEW p, NEW fs
  PROVE  Framed(b, p, fs) <=>
           /\ Len(fs) <= DepthIn(b, p - 1) + 1
           /\ \A i \in 1 .. Len(fs) : Held(b, p, i, fs[i].at, fs[i].bindings)
BY DEF Framed, Held
-----------------------------------------------------------------------------
(* The scopes of the analysis.                                               *)

Places == 1 .. Len(body)

\* Any entry but a declaration, an opening and a closing one.
LEMMA ListedPlain ==
  ASSUME Text(body), NEW p \in 1 .. Len(body), NEW table \in Seq(Seq(Places)), Listed(body, p, table),
         body[p].op \notin Openers, body[p].op \notin {"let", "close"}
  PROVE  Listed(body, p + 1, table)
<1>0. Len(body) \in Nat /\ p \in 1 .. Len(body) /\ p + 1 - 1 = p /\ DepthIn(body, p) = DepthIn(body, p - 1) /\ p \in 0 .. Len(body)
  BY DepthIs
<1>1. Len(table) = DepthIn(body, p) + 1 /\ Len(table) \in Nat /\ DepthIn(body, p) \in Nat
  BY <1>0, DepthIs DEF Listed
<1>2. ASSUME NEW i \in 1 .. Len(table) PROVE \E o \in 0 .. Len(body) : Held(body, p + 1, i, o, table[i])
  <2>1. PICK o \in 0 .. Len(body) : Held(body, p, i, o, table[i])
    BY ListedIs
  <2>2. i <= DepthIn(body, p) + 1
    BY <1>1
  <2> QED BY <2>1, <2>2, HeldNext
<1>3. p \in Int
  BY <1>0
<1> QED BY <1>1, <1>2, <1>3, ListedBehind

\* scope_declare.
LEMMA ListedLet ==
  ASSUME Text(body), NEW p \in 1 .. Len(body), NEW table \in Seq(Seq(Places)), Listed(body, p, table),
         body[p].op = "let"
  PROVE  Listed(body, p + 1, Add(table, p)) /\ Add(table, p) \in Seq(Seq(Places)) /\ Add(table, p) # <<>>
<1>0. /\ Len(body) \in Nat /\ p \in 1 .. Len(body) /\ p + 1 - 1 = p /\ DepthIn(body, p) = DepthIn(body, p - 1) /\ p \in 0 .. Len(body)
      /\ p \in Nat
  <2>1. "let" \notin Openers
    BY DEF Openers, Loops
  <2> QED BY <2>1, DepthIs
<1>1. Len(table) = DepthIn(body, p) + 1 /\ Len(table) \in 1 .. Len(table) /\ DepthIn(body, p) \in Nat
  <2>1. Len(table) = DepthIn(body, p) + 1 /\ Len(table) \in Nat /\ DepthIn(body, p) \in Nat
    BY <1>0, DepthIs DEF Listed
  <2> QED BY <2>1
<1>2. PICK e \in Seq(Places) : e = Append(table[Len(table)], p)
  <2>1. table[Len(table)] \in Seq(Places)
    BY <1>1
  <2>2. p \in Places
    BY DEF Places
  <2> QED BY <2>1, <2>2, AppendProperties
<1>3. PICK t \in Seq(Seq(Places)) : t = [table EXCEPT ![Len(table)] = e]
  BY <1>1, <1>2, ExceptSeq
<1>4. /\ t = Add(table, p) /\ Len(t) = Len(table)
      /\ \A i \in 1 .. Len(table) : t[i] = IF i = Len(table) THEN e ELSE table[i]
  <2>1. t = Add(table, p)
    BY <1>2, <1>3 DEF Add
  <2> QED BY <1>1, <1>2, <1>3, <2>1, ExceptSeq
<1>5. ASSUME NEW i \in 1 .. Len(t) PROVE \E o \in 0 .. Len(body) : Held(body, p + 1, i, o, t[i])
  <2>1. PICK o \in 0 .. Len(body) : Held(body, p, i, o, table[i])
    BY <1>4, ListedIs
  <2>2. i = Len(table) <=> i = DepthIn(body, p - 1) + 1
    BY <1>0, <1>1
  <2> QED BY <1>2, <1>4, <2>1, <2>2, HeldLet
<1>6. p \in Int /\ Len(t) = DepthIn(body, p) + 1 /\ t # <<>>
  BY <1>0, <1>1, <1>4, EmptySeq
<1> QED BY <1>4, <1>5, <1>6, ListedBehind

\* scope_push.
LEMMA ListedOpen ==
  ASSUME Text(body), NEW p \in 1 .. Len(body), NEW table \in Seq(Seq(Places)), Listed(body, p, table),
         body[p].op \in Openers
  PROVE  Listed(body, p + 1, Push(table, Opened(p)))
         /\ Push(table, Opened(p)) \in Seq(Seq(Places)) /\ Push(table, Opened(p)) # <<>>
<1>0. /\ Len(body) \in Nat /\ p \in 1 .. Len(body) /\ p + 1 - 1 = p /\ DepthIn(body, p) = DepthIn(body, p - 1) + 1
      /\ p \in 0 .. Len(body) /\ p - 1 \in 0 .. Len(body) /\ p \in Nat
      /\ body[p].op # "let"
  <2>1. "let" \notin Openers
    BY DEF Openers, Loops
  <2> QED BY <2>1, DepthIs
<1>1. Len(table) = DepthIn(body, p) /\ Len(table) \in Nat /\ DepthIn(body, p) \in Nat
  <2>1. Len(table) = DepthIn(body, p - 1) + 1 /\ Len(table) \in Nat /\ DepthIn(body, p) \in Nat
    BY <1>0, DepthIs DEF Listed
  <2> QED BY <1>0, <2>1
<1>2. PICK e \in Seq(Places) : e = Opened(p)
  <2>1. <<p>> \in Seq(Places) /\ <<>> \in Seq(Places)
    <3>1. p \in Places
      BY DEF Places
    <3> QED BY <3>1
  <2> QED BY <2>1 DEF Opened
<1>3. PICK t \in Seq(Seq(Places)) : t = Append(table, e)
  BY <1>2, AppendProperties
<1>4. /\ t = Push(table, Opened(p)) /\ Len(t) = Len(table) + 1
      /\ t[Len(table) + 1] = e /\ \A i \in 1 .. Len(table) : t[i] = table[i]
  <2>1. t = Push(table, Opened(p))
    BY <1>2, <1>3 DEF Push
  <2>2. Len(t) = Len(table) + 1 /\ t[Len(table) + 1] = e /\ \A i \in 1 .. Len(table) : t[i] = table[i]
    BY <1>2, <1>3, AppendProperties
  <2> QED BY <2>1, <2>2
<1>5. ASSUME NEW i \in 1 .. Len(t) PROVE \E o \in 0 .. Len(body) : Held(body, p + 1, i, o, t[i])
  <2>1. CASE i \in 1 .. Len(table)
    <3>1. PICK o \in 0 .. Len(body) : Held(body, p, i, o, table[i])
      BY <2>1, ListedIs
    <3>2. i <= DepthIn(body, p) + 1
      BY <1>1, <2>1
    <3> QED BY <1>0, <1>4, <2>1, <3>1, <3>2, HeldNext
  <2>2. CASE i = Len(table) + 1
    <3>1. Held(body, p + 1, i, p, e)
      BY <1>1, <1>2, <2>2, HeldNew
    <3> QED BY <1>0, <1>4, <2>2, <3>1
  <2>3. i \in 1 .. Len(table) \/ i = Len(table) + 1
    BY <1>1, <1>4
  <2> QED BY <2>1, <2>2, <2>3
<1>6. p \in Int /\ Len(t) = DepthIn(body, p) + 1 /\ t # <<>>
  BY <1>0, <1>1, <1>4, EmptySeq
<1> QED BY <1>4, <1>5, <1>6, ListedBehind

\* scope_pop.
LEMMA ListedClose ==
  ASSUME Text(body), NEW p \in 1 .. Len(body), NEW table \in Seq(Seq(Places)), Listed(body, p, table),
         body[p].op = "close"
  PROVE  Listed(body, p + 1, Pop(table)) /\ Pop(table) \in Seq(Seq(Places)) /\ Pop(table) # <<>>
<1>0. /\ Len(body) \in Nat /\ p \in 1 .. Len(body) /\ p + 1 - 1 = p /\ DepthIn(body, p) = DepthIn(body, p - 1) - 1
      /\ p \in 0 .. Len(body) /\ p - 1 \in 0 .. Len(body)
  BY DepthIs
<1>1. Len(table) = DepthIn(body, p) + 2 /\ Len(table) \in Nat /\ DepthIn(body, p) \in Nat
  <2>1. Len(table) = DepthIn(body, p - 1) + 1 /\ DepthIn(body, p) \in Nat /\ DepthIn(body, p - 1) \in Nat
    BY <1>0, DepthIs DEF Listed
  <2> QED BY <1>0, <2>1
<1>2. PICK m \in 0 .. Len(table) : m = Len(table) - 1
  BY <1>1
<1>3. PICK t \in Seq(Seq(Places)) : t = SubSeq(table, 1, m)
  BY Front
<1>4. t = Pop(table) /\ Len(t) = m /\ \A i \in 1 .. m : t[i] = table[i]
  <2>1. t = Pop(table)
    BY <1>2, <1>3 DEF Pop
  <2> QED BY <1>3, <2>1, Front
<1>5. ASSUME NEW i \in 1 .. Len(t) PROVE \E o \in 0 .. Len(body) : Held(body, p + 1, i, o, t[i])
  <2>1. i \in 1 .. m /\ i \in 1 .. Len(table) /\ i <= DepthIn(body, p) + 1
    BY <1>1, <1>2, <1>4
  <2>2. PICK o \in 0 .. Len(body) : Held(body, p, i, o, table[i])
    BY <2>1, ListedIs
  <2> QED BY <1>4, <2>1, <2>2, HeldNext
<1>6. p \in Int /\ Len(t) = DepthIn(body, p) + 1 /\ t # <<>>
  BY <1>0, <1>1, <1>2, <1>4, EmptySeq
<1> QED BY <1>4, <1>5, <1>6, ListedBehind
-----------------------------------------------------------------------------
(* The frames of the interpreter.                                            *)

Frame == [at : 0 .. Len(body), bindings : Seq(Places)]

\* The same as FramedIs behind an entry.
LEMMA FramedBehind ==
  ASSUME NEW b, NEW p \in Int, NEW fs, Len(fs) <= DepthIn(b, p) + 1,
         \A i \in 1 .. Len(fs) : Held(b, p + 1, i, fs[i].at, fs[i].bindings)
  PROVE  Framed(b, p + 1, fs)
<1>1. p + 1 - 1 = p
  OBVIOUS
<1>2. Len(fs) <= DepthIn(b, p + 1 - 1) + 1
  BY <1>1
<1> QED BY <1>2, FramedIs

\* bind.
LEMMA FramedLet ==
  ASSUME Text(body), NEW p \in 1 .. Len(body), NEW fs \in Seq(Frame), Framed(body, p, fs),
         Len(fs) = DepthIn(body, p - 1) + 1, body[p].op = "let"
  PROVE  LET gs == [fs EXCEPT ![Len(fs)].bindings = Append(@, p)]
         IN gs \in Seq(Frame) /\ gs # <<>> /\ Framed(body, p + 1, gs) /\ Len(gs) = DepthIn(body, p) + 1
<1>0. /\ Len(body) \in Nat /\ DepthIn(body, p) = DepthIn(body, p - 1) /\ p \in 0 .. Len(body)
      /\ p \in Int /\ p \in Places
  <2>1. "let" \notin Openers
    BY DEF Openers, Loops
  <2>2. p \in Places
    BY DEF Places
  <2> QED BY <2>1, <2>2, DepthIs
<1>1. Len(fs) = DepthIn(body, p) + 1 /\ Len(fs) \in 1 .. Len(fs) /\ DepthIn(body, p) \in Nat
  <2>1. Len(fs) = DepthIn(body, p) + 1 /\ Len(fs) \in Nat /\ DepthIn(body, p) \in Nat
    BY <1>0, DepthIs
  <2> QED BY <2>1
<1>2. PICK f \in Frame : f = fs[Len(fs)]
  BY <1>1
<1>3. PICK e \in Frame : e.at = f.at /\ e.bindings = Append(f.bindings, p) /\ e = [f EXCEPT !.bindings = Append(@, p)]
  <2>1. Append(f.bindings, p) \in Seq(Places)
    <3>1. f.bindings \in Seq(Places)
      BY DEF Frame
    <3> QED BY <1>0, <3>1, AppendProperties
  <2>2. PICK s \in Seq(Places) : s = Append(f.bindings, p)
    BY <2>1
  <2>3. [f EXCEPT !.bindings = s] \in Frame
    BY DEF Frame
  <2>4. [f EXCEPT !.bindings = s].at = f.at /\ [f EXCEPT !.bindings = s].bindings = s
    BY DEF Frame
  <2> QED BY <2>2, <2>3, <2>4
<1>4. PICK gs \in Seq(Frame) : gs = [fs EXCEPT ![Len(fs)] = e]
  BY <1>1, ExceptSeq
<1>5. Len(gs) = Len(fs) /\ \A i \in 1 .. Len(fs) : gs[i] = IF i = Len(fs) THEN e ELSE fs[i]
  BY <1>1, <1>4, ExceptSeq
<1>6. gs = [fs EXCEPT ![Len(fs)].bindings = Append(@, p)]
  BY <1>2, <1>3, <1>4
<1>7. ASSUME NEW i \in 1 .. Len(gs) PROVE Held(body, p + 1, i, gs[i].at, gs[i].bindings)
  <2>1. Held(body, p, i, fs[i].at, fs[i].bindings)
    BY <1>5, FramedIs
  <2>2. i = Len(fs) <=> i = DepthIn(body, p - 1) + 1
    BY <1>0, <1>1
  <2>3. CASE i = Len(fs)
    <3>1. gs[i] = e /\ fs[i] = f
      BY <1>1, <1>2, <1>5, <2>3
    <3> QED BY <1>3, <2>1, <2>2, <2>3, <3>1, HeldLet
  <2>4. CASE i # Len(fs)
    <3>1. gs[i] = fs[i]
      BY <1>5, <2>4
    <3> QED BY <2>1, <2>2, <2>4, <3>1, HeldLet
  <2> QED BY <2>3, <2>4
<1>8. Len(gs) = DepthIn(body, p) + 1 /\ Len(gs) <= DepthIn(body, p) + 1 /\ gs # <<>>
  BY <1>1, <1>5, EmptySeq
<1>9. Framed(body, p + 1, gs)
  BY <1>0, <1>7, <1>8, FramedBehind
<1> QED BY <1>6, <1>8, <1>9

\* frame_push.
LEMMA FramedOpen ==
  ASSUME Text(body), NEW p \in 1 .. Len(body), NEW fs \in Seq(Frame), Framed(body, p, fs),
         Len(fs) = DepthIn(body, p - 1) + 1, body[p].op \in Openers
  PROVE  LET gs == Append(fs, [at |-> p, bindings |-> Opened(p)])
         IN gs \in Seq(Frame) /\ gs # <<>> /\ Framed(body, p + 1, gs) /\ Len(gs) = DepthIn(body, p) + 1
<1>0. /\ Len(body) \in Nat /\ DepthIn(body, p) = DepthIn(body, p - 1) + 1 /\ p \in 0 .. Len(body)
      /\ p - 1 \in 0 .. Len(body) /\ p \in Int /\ p \in Places /\ body[p].op # "let"
  <2>1. "let" \notin Openers
    BY DEF Openers, Loops
  <2>2. p \in Places
    BY DEF Places
  <2> QED BY <2>1, <2>2, DepthIs
<1>1. Len(fs) = DepthIn(body, p) /\ Len(fs) \in Nat /\ DepthIn(body, p) \in Nat
  <2>1. Len(fs) = DepthIn(body, p) /\ Len(fs) \in Nat /\ DepthIn(body, p) \in Nat
    BY <1>0, DepthIs
  <2> QED BY <2>1
<1>2. Opened(p) \in Seq(Places)
  <2>1. <<p>> \in Seq(Places) /\ <<>> \in Seq(Places)
    BY <1>0
  <2> QED BY <2>1 DEF Opened
<1>3. PICK e \in Frame : e = [at |-> p, bindings |-> Opened(p)]
  BY <1>0, <1>2 DEF Frame
<1>4. PICK gs \in Seq(Frame) : gs = Append(fs, e)
  BY AppendProperties
<1>5. Len(gs) = Len(fs) + 1 /\ gs[Len(fs) + 1] = e /\ \A i \in 1 .. Len(fs) : gs[i] = fs[i]
  BY <1>4, AppendProperties
<1>6. ASSUME NEW i \in 1 .. Len(gs) PROVE Held(body, p + 1, i, gs[i].at, gs[i].bindings)
  <2>1. CASE i \in 1 .. Len(fs)
    <3>1. Held(body, p, i, fs[i].at, fs[i].bindings)
      BY <2>1, FramedIs
    <3>2. i <= DepthIn(body, p) + 1 /\ gs[i] = fs[i]
      BY <1>1, <1>5, <2>1
    <3> QED BY <1>0, <3>1, <3>2, HeldNext
  <2>2. CASE i = Len(fs) + 1
    <3>1. i = DepthIn(body, p) + 1 /\ gs[i].at = p /\ gs[i].bindings = Opened(p)
      BY <1>1, <1>3, <1>5, <2>2
    <3> QED BY <1>0, <3>1, HeldNew
  <2>3. i \in 1 .. Len(fs) \/ i = Len(fs) + 1
    BY <1>1, <1>5
  <2> QED BY <2>1, <2>2, <2>3
<1>7. Len(gs) = DepthIn(body, p) + 1 /\ Len(gs) <= DepthIn(body, p) + 1 /\ gs # <<>>
  BY <1>1, <1>5, EmptySeq
<1>8. Framed(body, p + 1, gs)
  BY <1>0, <1>6, <1>7, FramedBehind
<1> QED BY <1>3, <1>4, <1>7, <1>8

\* frame_free: what is left is as it was.
LEMMA FramedFewer ==
  ASSUME NEW p \in 1 .. Len(body) + 1, NEW fs \in Seq(Frame), Framed(body, p, fs), Len(fs) > 1,
         Text(body)
  PROVE  /\ Pop(fs) \in Seq(Frame) /\ Pop(fs) # <<>> /\ Framed(body, p, Pop(fs)) /\ Len(Pop(fs)) = Len(fs) - 1
         /\ \A i \in 1 .. Len(Pop(fs)) : Pop(fs)[i] = fs[i]
<1>1. PICK m \in 0 .. Len(fs) : m = Len(fs) - 1
  <2>1. PICK l \in Nat : l = Len(fs)
    OBVIOUS
  <2>2. l - 1 \in 0 .. l
    BY <2>1
  <2> QED BY <2>1, <2>2
<1>2. PICK gs \in Seq(Frame) : gs = SubSeq(fs, 1, m)
  BY Front
<1>3. gs = Pop(fs) /\ Len(gs) = m /\ \A i \in 1 .. m : gs[i] = fs[i]
  <2>1. gs = Pop(fs)
    BY <1>1, <1>2 DEF Pop
  <2> QED BY <1>2, <2>1, Front
<1>4. Len(gs) <= DepthIn(body, p - 1) + 1
  <2>1. Len(body) \in Nat /\ p - 1 \in 0 .. Len(body)
    BY DepthIs
  <2>2. DepthIn(body, p - 1) \in Nat
    BY <2>1, DepthIs
  <2>3. Len(fs) <= DepthIn(body, p - 1) + 1 /\ Len(fs) \in Nat
    BY FramedIs
  <2> QED BY <1>1, <1>3, <2>2, <2>3
<1>5. \A i \in 1 .. Len(gs) : i \in 1 .. Len(fs)
  BY <1>1, <1>3
<1>6. Framed(body, p, gs)
  BY <1>3, <1>4, <1>5, FramedIs
<1>7. gs # <<>>
  BY <1>1, <1>3, EmptySeq
<1> QED BY <1>1, <1>3, <1>6, <1>7

\* Going on behind entry q - 1: nothing in between is less deep than the frames
\* in use, or declares anything for them.
LEMMA FramedAhead ==
  ASSUME Text(body), NEW p \in 1 .. Len(body) + 1, NEW q \in 1 .. Len(body) + 1, p < q,
         NEW fs \in Seq(Frame), Framed(body, p, fs),
         \A r \in p .. q - 1 : /\ DepthIn(body, r) >= Len(fs) - 1
                               /\ DepthIn(body, r) = Len(fs) - 1 => body[r].op # "let"
  PROVE  Framed(body, q, fs)
<1>0. Len(body) \in Nat /\ Len(fs) \in Nat /\ p <= q /\ q - 1 \in p .. q - 1
      /\ \A r \in p .. q - 1 : r \in 0 .. Len(body)
  BY DepthIs
<1>1. \A r \in p .. q - 1 : DepthIn(body, r) \in Nat
  BY <1>0, DepthIs
<1>2. Len(fs) <= DepthIn(body, q - 1) + 1
  BY <1>0, <1>1
<1>3. ASSUME NEW i \in 1 .. Len(fs) PROVE Held(body, q, i, fs[i].at, fs[i].bindings)
  <2>1. Held(body, p, i, fs[i].at, fs[i].bindings)
    BY FramedIs
  <2>2. ASSUME NEW r \in p .. q - 1
        PROVE  DepthIn(body, r) >= i - 1 /\ (DepthIn(body, r) = i - 1 => body[r].op # "let")
    <3>1. DepthIn(body, r) \in Nat /\ DepthIn(body, r) >= Len(fs) - 1
      BY <1>1
    <3>2. DepthIn(body, r) = i - 1 => DepthIn(body, r) = Len(fs) - 1
      BY <1>0, <3>1
    <3>3. DepthIn(body, r) >= i - 1
      BY <1>0, <3>1
    <3> QED BY <3>2, <3>3
  <2> QED BY <1>0, <2>1, <2>2, HeldForward
<1> QED BY <1>2, <1>3, FramedIs

\* Going back to an entry in which all of the frames in use are open.
LEMMA FramedBack ==
  ASSUME Text(body), NEW p \in 1 .. Len(body) + 1, NEW q \in 1 .. Len(body), q < p,
         NEW fs \in Seq(Frame), Framed(body, p, fs), Len(fs) <= DepthIn(body, q - 1) + 1,
         \A i \in 1 .. Len(fs) : fs[i].at < q,
         \A r \in q .. p - 1 : DepthIn(body, r) > Len(fs) - 1
  PROVE  Framed(body, q, fs)
<1>0. Len(body) \in Nat /\ Len(fs) \in Nat /\ \A r \in q .. p - 1 : r \in 0 .. Len(body)
  BY DepthIs
<1>1. \A r \in q .. p - 1 : DepthIn(body, r) \in Nat
  BY <1>0, DepthIs
<1>2. ASSUME NEW i \in 1 .. Len(fs) PROVE Held(body, q, i, fs[i].at, fs[i].bindings)
  <2>1. Held(body, p, i, fs[i].at, fs[i].bindings)
    BY FramedIs
  <2>2. \A r \in q .. p - 1 : DepthIn(body, r) > i - 1
    BY <1>0, <1>1
  <2> QED BY <2>1, <2>2, HeldBackward
<1> QED BY <1>2, FramedIs
-----------------------------------------------------------------------------
(* Where a block that ends, and a jump, lead to.                             *)

\* The innermost frame at an entry is that of the innermost block.
LEMMA TopIs ==
  ASSUME Text(body), NEW p \in 1 .. Len(body) + 1, NEW fs \in Seq(Frame), Framed(body, p, fs), Len(fs) > 1,
         NEW o, o = fs[Len(fs)].at
  PROVE  /\ o \in 1 .. Len(body) /\ o < p /\ body[o].op \in Openers /\ Around(body, o, p)
         /\ DepthIn(body, o) = Len(fs) - 1 /\ DepthIn(body, o - 1) = Len(fs) - 2
         /\ Close(o) \in 1 .. Len(body) /\ p <= Close(o) /\ DepthIn(body, Close(o)) = Len(fs) - 2
         /\ body[Close(o)].op = "close"
         /\ \A r \in o .. Close(o) - 1 : DepthIn(body, r) >= Len(fs) - 1
         /\ \A i \in 1 .. Len(fs) : i < Len(fs) => fs[i].at < o
         /\ \A u : Around(body, u, p) /\ DepthIn(body, u) = Len(fs) - 1 => u = o
<1>0. PICK L \in Nat : L = Len(fs) /\ L > 1 /\ L \in 1 .. L
  <2>1. Len(fs) \in Nat
    OBVIOUS
  <2> QED BY <2>1
<1>1. Level(body, p, L, o)
  BY <1>0, FramedIs DEF Held
<1>2. Around(body, o, p) /\ L = DepthIn(body, o) + 1
  BY <1>0, <1>1 DEF Level
<1>3. /\ o \in 1 .. Len(body) /\ o < p /\ body[o].op \in Openers /\ DepthIn(body, o) \in Nat
      /\ DepthIn(body, o - 1) = DepthIn(body, o) - 1
  BY <1>2, AroundIs DEF Around
<1>4. PICK c \in o + 1 .. Len(body) : c = Close(o)
  BY <1>3, CloseIs
<1>5. /\ c \in 1 .. Len(body) /\ DepthIn(body, c) = DepthIn(body, o) - 1 /\ body[c].op = "close"
      /\ \A r \in o .. c - 1 : DepthIn(body, r) >= DepthIn(body, o)
  <2>1. c \in 1 .. Len(body)
    BY <1>3, <1>4
  <2> QED BY <1>3, <1>4, <2>1, CloseIs
<1>6. p <= c
  BY <1>2, <1>3, <1>4, AroundIff DEF Encloses
<1>7. DepthIn(body, o) = L - 1 /\ DepthIn(body, o) - 1 = L - 2
  <2>1. PICK d \in Nat : d = DepthIn(body, o)
    BY <1>3
  <2>2. L = d + 1
    BY <1>2, <2>1
  <2>3. d = L - 1 /\ d - 1 = L - 2
    BY ONLY <2>2, d \in Nat
  <2> QED BY <2>1, <2>3
<1>8. ASSUME NEW i \in 1 .. Len(fs), i < Len(fs) PROVE fs[i].at < o
  <2>1. Level(body, p, i, fs[i].at)
    BY FramedIs DEF Held
  <2> QED BY <1>0, <1>1, <1>8, <2>1, LevelIs
<1>9. ASSUME NEW u, Around(body, u, p), DepthIn(body, u) = L - 1 PROVE u = o
  <2>1. L = DepthIn(body, u) + 1
    BY <1>0, <1>9
  <2>2. Level(body, p, L, u)
    BY <1>9, <2>1 DEF Level
  <2> QED BY <1>1, <2>2, LevelIs
<1> QED BY <1>0, <1>2, <1>3, <1>4, <1>5, <1>6, <1>7, <1>8, <1>9

\* A plain entry.
LEMMA FramedPlain ==
  ASSUME Text(body), NEW p \in 1 .. Len(body), NEW fs \in Seq(Frame), Framed(body, p, fs),
         Len(fs) = DepthIn(body, p - 1) + 1, body[p].op \notin Openers, body[p].op \notin {"let", "close"}
  PROVE  Framed(body, p + 1, fs) /\ Len(fs) = DepthIn(body, p) + 1
<1>1. /\ Len(body) \in Nat /\ p \in 1 .. Len(body) + 1 /\ p + 1 \in 1 .. Len(body) + 1 /\ p \in 0 .. Len(body)
      /\ DepthIn(body, p) = DepthIn(body, p - 1)
  BY DepthIs
<1>2. DepthIn(body, p) \in Nat /\ p < p + 1 /\ \A r \in p .. p + 1 - 1 : r = p
  BY <1>1, DepthIs
<1>3. Len(fs) = DepthIn(body, p) + 1 /\ DepthIn(body, p) >= Len(fs) - 1
  BY <1>1, <1>2
<1>4. Framed(body, p + 1, fs)
  BY <1>1, <1>2, <1>3, FramedAhead
<1> QED BY <1>3, <1>4

\* A loop that is over, an arm that is not taken.
LEMMA FramedSkip ==
  ASSUME Text(body), NEW p \in 1 .. Len(body), NEW fs \in Seq(Frame), Framed(body, p, fs),
         Len(fs) = DepthIn(body, p - 1) + 1, body[p].op \in Openers
  PROVE  /\ Close(p) + 1 \in 1 .. Len(body) + 1
         /\ Framed(body, Close(p) + 1, fs) /\ Len(fs) = DepthIn(body, Close(p)) + 1
<1>1. PICK c \in p + 1 .. Len(body) : c = Close(p)
  BY CloseIs
<1>2. /\ Len(body) \in Nat /\ p \in 1 .. Len(body) + 1 /\ c + 1 \in 1 .. Len(body) + 1 /\ p < c + 1
      /\ p - 1 \in 0 .. Len(body) /\ c + 1 - 1 = c
      /\ DepthIn(body, p) = DepthIn(body, p - 1) + 1
      /\ \A r \in p .. c + 1 - 1 : r \in p .. c - 1 \/ r = c
  BY <1>1, DepthIs
<1>3. /\ DepthIn(body, c) = DepthIn(body, p) - 1 /\ body[c].op = "close"
      /\ \A r \in p .. c - 1 : DepthIn(body, r) >= DepthIn(body, p)
  BY <1>1, CloseIs
<1>4. PICK d \in Nat : d = DepthIn(body, p - 1)
  BY <1>2, DepthIs
<1>5. Len(fs) = d + 1 /\ DepthIn(body, p) = d + 1 /\ DepthIn(body, c) = d
  BY <1>2, <1>3, <1>4
<1>6. ASSUME NEW r \in p .. c + 1 - 1
      PROVE  DepthIn(body, r) >= Len(fs) - 1 /\ (DepthIn(body, r) = Len(fs) - 1 => body[r].op # "let")
  <2>1. CASE r = c
    BY <1>3, <1>5, <2>1
  <2>2. CASE r \in p .. c - 1
    <3>1. r \in 0 .. Len(body)
      BY <1>2, <2>2
    <3>2. DepthIn(body, r) \in Nat /\ DepthIn(body, r) >= d + 1
      BY <1>3, <1>5, <2>2, <3>1, DepthIs
    <3> QED BY <1>5, <3>2
  <2> QED BY <1>2, <2>1, <2>2
<1>7. Framed(body, c + 1, fs)
  BY <1>2, <1>6, FramedAhead, SMTT(60)
<1> QED BY <1>1, <1>2, <1>5, <1>7

\* Out of the innermost block, behind its end.
LEMMA FramedOut ==
  ASSUME Text(body), NEW p \in 1 .. Len(body) + 1, NEW fs \in Seq(Frame), Framed(body, p, fs), Len(fs) > 1,
         NEW o, o = fs[Len(fs)].at
  PROVE  /\ Close(o) + 1 \in 1 .. Len(body) + 1
         /\ Framed(body, Close(o) + 1, Pop(fs)) /\ Len(Pop(fs)) = DepthIn(body, Close(o)) + 1
<1>1. PICK gs \in Seq(Frame) : gs = Pop(fs) /\ Framed(body, p, gs) /\ Len(gs) = Len(fs) - 1
  BY FramedFewer
<1>2. PICK c \in 1 .. Len(body) : c = Close(o)
  BY TopIs
<1>3. /\ o \in 1 .. Len(body) /\ o < p /\ p <= c /\ DepthIn(body, c) = Len(fs) - 2 /\ body[c].op = "close"
      /\ \A r \in o .. c - 1 : DepthIn(body, r) >= Len(fs) - 1
  BY <1>2, TopIs
<1>4. Len(body) \in Nat /\ c + 1 \in 1 .. Len(body) + 1 /\ p < c + 1 /\ Len(fs) \in Nat
      /\ \A r \in p .. c + 1 - 1 : r \in o .. c - 1 \/ r = c
  BY <1>2, <1>3, DepthIs, SMTT(60)
<1>5. ASSUME NEW r \in p .. c + 1 - 1
      PROVE  DepthIn(body, r) >= Len(gs) - 1 /\ (DepthIn(body, r) = Len(gs) - 1 => body[r].op # "let")
  <2>1. CASE r = c
    BY <1>1, <1>3, <1>4, <2>1
  <2>2. CASE r \in o .. c - 1
    <3>1. r \in 0 .. Len(body)
      BY <1>2, <1>3, <1>4, <2>2
    <3>2. DepthIn(body, r) \in Nat /\ DepthIn(body, r) >= Len(fs) - 1
      BY <1>3, <2>2, <3>1, DepthIs
    <3> QED BY <1>1, <1>4, <3>2
  <2> QED BY <1>4, <2>1, <2>2
<1>6. Framed(body, c + 1, gs)
  BY <1>1, <1>4, <1>5, FramedAhead
<1>7. Len(gs) = DepthIn(body, c) + 1
  BY <1>1, <1>3, <1>4
<1> QED BY <1>1, <1>2, <1>4, <1>6, <1>7

\* Out of the innermost block, back to where it is opened.
LEMMA FramedAgain ==
  ASSUME Text(body), NEW p \in 1 .. Len(body) + 1, NEW fs \in Seq(Frame), Framed(body, p, fs), Len(fs) > 1,
         NEW o, o = fs[Len(fs)].at
  PROVE  /\ o \in 1 .. Len(body) + 1
         /\ Framed(body, o, Pop(fs)) /\ Len(Pop(fs)) = DepthIn(body, o - 1) + 1
<1>1. PICK gs \in Seq(Frame) : /\ gs = Pop(fs) /\ Framed(body, p, gs) /\ Len(gs) = Len(fs) - 1
                               /\ \A i \in 1 .. Len(gs) : gs[i] = fs[i]
  BY FramedFewer
<1>2. PICK c \in 1 .. Len(body) : c = Close(o)
  BY TopIs
<1>3. /\ o \in 1 .. Len(body) /\ o < p /\ p <= c /\ DepthIn(body, o - 1) = Len(fs) - 2
      /\ \A r \in o .. c - 1 : DepthIn(body, r) >= Len(fs) - 1
      /\ \A i \in 1 .. Len(fs) : i < Len(fs) => fs[i].at < o
  BY <1>2, TopIs
<1>4. Len(body) \in Nat /\ Len(fs) \in Nat /\ \A r \in o .. p - 1 : r \in o .. c - 1 /\ r \in 0 .. Len(body)
  BY <1>2, <1>3, DepthIs
<1>5. Len(gs) = DepthIn(body, o - 1) + 1 /\ Len(gs) <= DepthIn(body, o - 1) + 1
  <2>1. Len(gs) = DepthIn(body, o - 1) + 1
    BY <1>1, <1>3, <1>4
  <2>2. Len(gs) <= Len(gs)
    BY <1>1, <1>4
  <2> QED BY <2>1, <2>2
<1>6. \A i \in 1 .. Len(gs) : gs[i].at < o
  <2>1. \A i \in 1 .. Len(gs) : i \in 1 .. Len(fs) /\ i < Len(fs)
    BY <1>1, <1>4
  <2> QED BY <1>1, <1>3, <2>1
<1>7. ASSUME NEW r \in o .. p - 1 PROVE DepthIn(body, r) > Len(gs) - 1
  <2>1. DepthIn(body, r) \in Nat /\ DepthIn(body, r) >= Len(fs) - 1
    BY <1>3, <1>4, DepthIs
  <2> QED BY <1>1, <1>4, <2>1
<1>8. Framed(body, o, gs)
  BY <1>1, <1>3, <1>5, <1>6, <1>7, FramedBack
<1> QED BY <1>1, <1>3, <1>4, <1>5, <1>8

\* Out of an arm that is done, behind the last one.
LEMMA FramedBehindArms ==
  ASSUME Text(body), NEW p \in 1 .. Len(body) + 1, NEW fs \in Seq(Frame), Framed(body, p, fs), Len(fs) > 1,
         NEW o, o = fs[Len(fs)].at, p = Close(o)
  PROVE  /\ AfterArms(o) \in 1 .. Len(body) + 1
         /\ Framed(body, AfterArms(o), Pop(fs)) /\ Len(Pop(fs)) = DepthIn(body, AfterArms(o) - 1) + 1
<1>1. PICK gs \in Seq(Frame) : gs = Pop(fs) /\ Framed(body, p, gs) /\ Len(gs) = Len(fs) - 1
  BY FramedFewer
<1>2. o \in 1 .. Len(body) /\ body[o].op \in Openers /\ DepthIn(body, o) = Len(fs) - 1 /\ Len(fs) \in Nat
  BY TopIs
<1>3. PICK a \in p + 1 .. Len(body) + 1 : a = AfterArms(o)
  BY <1>2, AfterArmsIs
<1>4. /\ DepthIn(body, a - 1) = DepthIn(body, o) - 1
      /\ \A r \in p .. a - 1 : /\ DepthIn(body, r) >= DepthIn(body, o) - 1
                               /\ DepthIn(body, r) = DepthIn(body, o) - 1 => body[r].op # "let"
  BY <1>2, <1>3, AfterArmsIs
<1>5. Len(body) \in Nat /\ a \in 1 .. Len(body) + 1 /\ p < a
  BY <1>3, DepthIs
<1>6. DepthIn(body, o) - 1 = Len(gs) - 1 /\ Len(gs) \in Nat
  BY <1>1, <1>2
<1>7. Framed(body, a, gs)
  BY <1>1, <1>4, <1>5, <1>6, FramedAhead
<1>8. Len(gs) = DepthIn(body, a - 1) + 1
  BY <1>4, <1>6
<1> QED BY <1>1, <1>3, <1>5, <1>7, <1>8

\* The innermost block around its end is the one that ends there.
LEMMA TopCloses ==
  ASSUME Text(body), NEW p \in 1 .. Len(body), NEW fs \in Seq(Frame), Framed(body, p, fs),
         Len(fs) = DepthIn(body, p - 1) + 1, body[p].op = "close"
  PROVE  Len(fs) > 1 /\ Close(fs[Len(fs)].at) = p
<1>1. Len(body) \in Nat /\ p \in 0 .. Len(body) /\ p - 1 \in 0 .. Len(body) /\ p \in 1 .. Len(body) + 1
      /\ DepthIn(body, p) = DepthIn(body, p - 1) - 1
  BY DepthIs
<1>2. DepthIn(body, p) \in Nat /\ DepthIn(body, p - 1) \in Nat
  BY <1>1, DepthIs
<1>3. Len(fs) > 1 /\ DepthIn(body, p - 1) = Len(fs) - 1 /\ DepthIn(body, p) = Len(fs) - 2
  BY <1>1, <1>2
<1>4. PICK o : o = fs[Len(fs)].at
  OBVIOUS
<1>5. /\ o \in 1 .. Len(body) /\ o < p /\ body[o].op \in Openers /\ Around(body, o, p)
      /\ DepthIn(body, o) = Len(fs) - 1
  BY <1>1, <1>3, <1>4, TopIs, SMTT(60)
<1>6. p \in o + 1 .. Len(body) /\ DepthIn(body, p) = DepthIn(body, o) - 1
      /\ \A r \in o .. p - 1 : DepthIn(body, r) >= DepthIn(body, o)
  BY <1>1, <1>3, <1>5 DEF Around
<1> QED BY <1>3, <1>4, <1>5, <1>6, CloseIs
-----------------------------------------------------------------------------
(* The steps of the analysis.                                                *)

\* What the invariant says of the types, with the positions as an interval.
LEMMA TypesAre ==
  ASSUME BInv
  PROVE  /\ Text(body) /\ body \in Seq(Entry) /\ Len(body) \in Nat /\ DOMAIN body = 1 .. Len(body)
         /\ Positions = Places /\ pos \in 1 .. Len(body) + 1
         /\ scopes \in Seq(Seq(Places)) /\ scopes # <<>> /\ loop_depth \in Nat
         /\ meaning \in [Places -> 0 .. Len(body)]
         /\ frames \in Seq(Frame) /\ frames # <<>> /\ from \in 0 .. Len(body)
<1>1. Text(body) /\ TypeOK
  BY DEF BInv
<1>2. Positions = Places /\ body \in Seq(Entry) /\ Len(body) \in Nat /\ DOMAIN body = 1 .. Len(body)
  BY <1>1 DEF TypeOK, Positions, Places
<1>3. pos \in 1 .. Len(body) + 1 /\ from \in 0 .. Len(body) /\ loop_depth \in Nat
  BY <1>1 DEF TypeOK
<1>4. scopes \in Seq(Seq(Places)) /\ scopes # <<>>
  BY <1>1, <1>2 DEF TypeOK
<1>5. meaning \in [Places -> 0 .. Len(body)]
  BY <1>1, <1>2 DEF TypeOK
<1>6. frames \in Seq(Frame) /\ frames # <<>>
  BY <1>1, <1>2 DEF TypeOK, Frame
<1> QED BY <1>1, <1>2, <1>3, <1>4, <1>5, <1>6

\* ... and what is to be shown of them after a step.
LEMMA TypesNext ==
  ASSUME BInv, body' = body, phase' \in {"check", "run", "rejected", "over", "died"},
         pos' \in 1 .. Len(body) + 1, scopes' \in Seq(Seq(Places)), scopes' # <<>>, loop_depth' \in Nat,
         meaning' \in [Places -> 0 .. Len(body)], had_error' \in BOOLEAN,
         frames' \in Seq(Frame), frames' # <<>>, flow' \in {"GO", "RETURNED", "BROKE", "CONTINUED"},
         from' \in 0 .. Len(body)
  PROVE  TypeOK' /\ Text(body)'
<1>1. Text(body) /\ body \in Seq(Entry) /\ Positions = Places /\ DOMAIN body = Places
  BY TypesAre DEF Places
<1>2. Text(body)'
  BY <1>1 DEF Text
<1>3. Positions' = Places /\ body' \in Seq(Entry) /\ Len(body') = Len(body)
  BY <1>1 DEF Positions
<1>4. frames' \in Seq([at : 0 .. Len(body'), bindings : Seq(Positions')])
  BY <1>3 DEF Frame
<1>5. scopes' \in Seq(Seq(Positions')) /\ meaning' \in [Positions' -> 0 .. Len(body')]
  BY <1>3
<1>6. pos' \in 1 .. Len(body') + 1 /\ from' \in 0 .. Len(body')
  BY <1>3
<1>7. TypeOK' <=>
        /\ body' \in Seq(Entry)
        /\ phase' \in {"check", "run", "rejected", "over", "died"}
        /\ pos' \in 1 .. Len(body') + 1
        /\ scopes' \in Seq(Seq(Positions')) /\ scopes' # <<>>
        /\ loop_depth' \in Nat
        /\ meaning' \in [Positions' -> 0 .. Len(body')]
        /\ had_error' \in BOOLEAN
        /\ frames' \in Seq([at : 0 .. Len(body'), bindings : Seq(Positions')]) /\ frames' # <<>>
        /\ flow' \in {"GO", "RETURNED", "BROKE", "CONTINUED"}
        /\ from' \in 0 .. Len(body')
  BY Zenon DEF TypeOK
<1> QED BY <1>2, <1>3, <1>4, <1>5, <1>6, <1>7, Zenon

\* One more entry is checked.
LEMMA CheckedMore ==
  ASSUME NEW b, NEW p \in Int, NEW means, NEW means2, Checked(b, p, means),
         \A q \in 1 .. p - 1 : means2[q] = means[q],
         b[p].op = "use" => Meant(b, p, b[p].name, means2[p]),
         b[p].op \in {"break", "continue"} => LoopsAround(b, p) # {}
  PROVE  Checked(b, p + 1, means2)
<1>1. \A q \in 1 .. p + 1 - 1 : q \in 1 .. p - 1 \/ q = p
  OBVIOUS
<1> QED BY <1>1 DEF Checked

\* Initially nothing is checked, and nothing declared or open.
LEMMA BInvInit == Init => BInv
<1> SUFFICES ASSUME Init PROVE BInv
  OBVIOUS
<1>1. body \in Seq(Entry) /\ Balanced(body)
  BY BodiesAssumption DEF Init
<1>2. Text(body)
  BY <1>1 DEF Text
<1>3. Len(body) \in Nat /\ DOMAIN body = 1 .. Len(body) /\ DepthIn(body, 0) = 0
  BY <1>2, DepthIs
<1>4. Fresh
  BY DEF Init, Fresh
<1>5. TypeOK
  <2>1. pos \in 1 .. Len(body) + 1 /\ from \in 0 .. Len(body) /\ loop_depth \in Nat
    BY <1>3 DEF Init
  <2>2. scopes \in Seq(Seq(Positions)) /\ scopes # <<>>
    BY DEF Init
  <2>3. meaning \in [Positions -> 0 .. Len(body)]
    BY <1>3 DEF Init, Positions
  <2>4. frames \in Seq([at : 0 .. Len(body), bindings : Seq(Positions)]) /\ frames # <<>>
    <3>1. [at |-> 0, bindings |-> <<>>] \in [at : 0 .. Len(body), bindings : Seq(Positions)]
      BY <1>3
    <3> QED BY <3>1 DEF Init
  <2>5. phase \in {"check", "run", "rejected", "over", "died"} /\ flow \in {"GO", "RETURNED", "BROKE", "CONTINUED"}
    BY DEF Init
  <2>6. had_error \in BOOLEAN
    BY DEF Init
  <2> QED BY <1>1, <2>1, <2>2, <2>3, <2>4, <2>5, <2>6 DEF TypeOK
<1>6. Listed(body, pos, scopes)
  <2>1. scopes = <<<<>>>> /\ pos = 0 + 1
    BY DEF Init
  <2>2. Len(<<<<>>>>) = DepthIn(body, 0) + 1 /\ <<<<>>>>[1] = <<>>
    BY <1>3
  <2>3. \A i \in 1 .. Len(<<<<>>>>) : i = 1
    OBVIOUS
  <2>4. Held(body, 0 + 1, 1, 0, <<>>) /\ 0 \in 0 .. Len(body)
    <3>1. 0 + 1 = 1
      OBVIOUS
    <3> QED BY <1>3, <3>1, HeldFirst
  <2>5. \A i \in 1 .. Len(<<<<>>>>) : \E o \in 0 .. Len(body) : Held(body, 0 + 1, i, o, <<<<>>>>[i])
    BY <2>2, <2>3, <2>4
  <2>6. PICK t : t = <<<<>>>>
    OBVIOUS
  <2>9. PICK z \in Int : z = 0
    OBVIOUS
  <2>7. Len(t) = DepthIn(body, z) + 1 /\ \A i \in 1 .. Len(t) : \E o \in 0 .. Len(body) : Held(body, z + 1, i, o, t[i])
    BY <2>2, <2>5, <2>6, <2>9
  <2>8. Listed(body, z + 1, t)
    BY <2>7, ListedBehind
  <2> QED BY <2>1, <2>6, <2>8, <2>9
<1>7. loop_depth = Cardinality(LoopsAround(body, pos))
  <2>1. loop_depth = 0 /\ pos = 1
    BY DEF Init
  <2> QED BY <2>1, LoopsFirst
<1>8. Checked(body, pos, meaning)
  <2>1. pos = 1
    BY DEF Init
  <2>2. 1 .. 1 - 1 = {}
    OBVIOUS
  <2> QED BY <2>1, <2>2 DEF Checked
<1>9. phase = "check" /\ phase # "run" /\ phase # "over"
  BY DEF Init
<1> QED BY <1>2, <1>4, <1>5, <1>6, <1>7, <1>8, <1>9 DEF BInv

\* What every step of the analysis over an entry has in common.
LEMMA CheckFacts ==
  ASSUME BInv, CheckNext
  PROVE  /\ pos \in 1 .. Len(body) /\ pos' = pos + 1 /\ pos' \in 1 .. Len(body) + 1
         /\ body' = body /\ phase' = "check" /\ frames' = frames /\ flow' = flow /\ from' = from
         /\ Listed(body, pos, scopes) /\ loop_depth = Cardinality(LoopsAround(body, pos))
         /\ (had_error \/ Checked(body, pos, meaning)) /\ Fresh /\ Fresh'
         /\ flow' \in {"GO", "RETURNED", "BROKE", "CONTINUED"}
         /\ phase' \in {"check", "run", "rejected", "over", "died"}
<1>1. phase = "check" /\ pos \in 1 .. Len(body) /\ pos' = pos + 1
      /\ body' = body /\ phase' = "check" /\ frames' = frames /\ flow' = flow /\ from' = from
  BY TypesAre DEF CheckNext, Within, runner
<1>2. pos + 1 \in 1 .. Len(body) + 1
  BY <1>1, TypesAre
<1>3. Fresh
  BY <1>1 DEF BInv
<1>4. Fresh'
  BY <1>1, <1>3 DEF Fresh
<1>5. flow' \in {"GO", "RETURNED", "BROKE", "CONTINUED"}
  BY <1>3, <1>1 DEF Fresh
<1> QED BY <1>1, <1>2, <1>3, <1>4, <1>5 DEF BInv

\* ... and what is left to show.
LEMMA CheckKeeps ==
  ASSUME BInv, CheckNext,
         Listed(body, pos + 1, scopes'), scopes' \in Seq(Seq(Places)), scopes' # <<>>,
         loop_depth' = Cardinality(LoopsAround(body, pos + 1)),
         meaning' \in [Places -> 0 .. Len(body)], had_error' \in BOOLEAN,
         had_error' \/ Checked(body, pos + 1, meaning')
  PROVE  BInv'
<1>1. /\ pos' = pos + 1 /\ pos' \in 1 .. Len(body) + 1 /\ pos' \in Nat
      /\ body' = body /\ phase' = "check" /\ frames' = frames /\ flow' = flow /\ from' = from /\ Fresh'
      /\ flow' \in {"GO", "RETURNED", "BROKE", "CONTINUED"}
      /\ phase' \in {"check", "run", "rejected", "over", "died"}
  BY CheckFacts
<1>2. loop_depth' \in Nat
  <2>1. Cardinality(LoopsAround(body, pos')) \in Nat
    BY <1>1, LoopsFinite
  <2> QED BY <1>1, <2>1
<1>3. frames' \in Seq(Frame) /\ frames' # <<>> /\ from' \in 0 .. Len(body)
  BY <1>1, TypesAre
<1>4. TypeOK' /\ Text(body)'
  BY <1>1, <1>2, <1>3, TypesNext
<1>5. Listed(body, pos, scopes)' /\ (loop_depth = Cardinality(LoopsAround(body, pos)))'
      /\ (had_error \/ Checked(body, pos, meaning))'
  BY <1>1
<1>6. phase' # "run" /\ phase' # "over"
  BY <1>1
<1> QED BY <1>1, <1>4, <1>5, <1>6 DEF BInv

\* What does not change what is known about the entries before.
LEMMA CheckedOn ==
  ASSUME BInv, CheckNext, body[pos].op \notin {"use", "break", "continue"}, meaning' = meaning,
         had_error' = had_error
  PROVE  /\ meaning' \in [Places -> 0 .. Len(body)] /\ had_error' \in BOOLEAN
         /\ had_error' \/ Checked(body, pos + 1, meaning')
<1>1. pos \in Int /\ (had_error \/ Checked(body, pos, meaning))
  BY CheckFacts
<1>2. had_error \in BOOLEAN
  BY DEF BInv, TypeOK
<1>3. Checked(body, pos, meaning) => Checked(body, pos + 1, meaning)
  BY <1>1, CheckedMore
<1>4. meaning' \in [Places -> 0 .. Len(body)]
  BY TypesAre
<1>5. had_error' \in BOOLEAN
  BY <1>2
<1>6. had_error' \/ Checked(body, pos + 1, meaning')
  BY <1>1, <1>3
<1> QED BY <1>4, <1>5, <1>6

\* check_stmt on a let.
LEMMA CheckLetKeeps == BInv /\ CheckLet => BInv'
<1> SUFFICES ASSUME BInv, CheckLet PROVE BInv'
  OBVIOUS
<1>1. /\ CheckNext /\ body[pos].op = "let" /\ scopes' = Add(scopes, pos)
      /\ loop_depth' = loop_depth /\ meaning' = meaning /\ had_error' = had_error
  BY DEF CheckLet, Op
<1>2. Text(body) /\ pos \in 1 .. Len(body) /\ scopes \in Seq(Seq(Places)) /\ Listed(body, pos, scopes)
      /\ loop_depth = Cardinality(LoopsAround(body, pos))
  BY <1>1, CheckFacts, TypesAre
<1>3. Listed(body, pos + 1, scopes') /\ scopes' \in Seq(Seq(Places)) /\ scopes' # <<>>
  BY <1>1, <1>2, ListedLet
<1>4. Cardinality(LoopsAround(body, pos + 1)) = Cardinality(LoopsAround(body, pos))
  <2>1. "let" \notin Loops
    BY DEF Loops
  <2> QED BY <1>1, <1>2, <2>1, LoopsNext
<1>5. loop_depth' = Cardinality(LoopsAround(body, pos + 1))
  BY <1>1, <1>2, <1>4
<1>6. /\ meaning' \in [Places -> 0 .. Len(body)] /\ had_error' \in BOOLEAN
      /\ had_error' \/ Checked(body, pos + 1, meaning')
  BY <1>1, CheckedOn
<1> QED BY <1>1, <1>3, <1>5, <1>6, CheckKeeps

\* check_expr on a name.
LEMMA CheckUseKeeps == BInv /\ CheckUse => BInv'
<1> SUFFICES ASSUME BInv, CheckUse PROVE BInv'
  OBVIOUS
<1>1. /\ CheckNext /\ body[pos].op = "use" /\ scopes' = scopes /\ loop_depth' = loop_depth
      /\ Declares(scopes, body[pos].name) =>
           meaning' = [meaning EXCEPT ![pos] = find(scopes, body[pos].name)] /\ had_error' = had_error
      /\ ~Declares(scopes, body[pos].name) => had_error' = TRUE /\ meaning' = meaning
  BY DEF CheckUse, Op, Name
<1>2. /\ Text(body) /\ pos \in 1 .. Len(body) /\ scopes \in Seq(Seq(Places)) /\ Listed(body, pos, scopes)
      /\ loop_depth = Cardinality(LoopsAround(body, pos)) /\ (had_error \/ Checked(body, pos, meaning))
      /\ meaning \in [Places -> 0 .. Len(body)] /\ scopes # <<>> /\ pos \in Int /\ Len(body) \in Nat
  BY <1>1, CheckFacts, TypesAre
<1>3. Listed(body, pos + 1, scopes')
  <2>1. "use" \notin Openers
    BY DEF Openers, Loops
  <2> QED BY <1>1, <1>2, <2>1, ListedPlain
<1>4. loop_depth' = Cardinality(LoopsAround(body, pos + 1))
  <2>1. "use" \notin Loops
    BY DEF Loops
  <2>2. Cardinality(LoopsAround(body, pos + 1)) = Cardinality(LoopsAround(body, pos))
    BY <1>1, <1>2, <2>1, LoopsNext
  <2> QED BY <1>1, <1>2, <2>2
<1>5. scopes' \in Seq(Seq(Places)) /\ scopes' # <<>>
  BY <1>1, <1>2
<1>6. had_error \in BOOLEAN
  BY DEF BInv, TypeOK
<1>7. CASE Declares(scopes, body[pos].name)
  <2>1. PICK m : m = find(scopes, body[pos].name)
    OBVIOUS
  <2>2. Meant(body, pos, body[pos].name, m)
    <3>1. DOMAIN scopes = 1 .. Len(scopes)
      BY <1>2
    <3> QED BY <1>2, <1>7, <2>1, <3>1, FoundIsMeant
  <2>3. m \in 0 .. Len(body) /\ pos \in Places
    <3>1. m \in 1 .. pos - 1
      BY <1>2, <2>2, MeantOne
    <3> QED BY <1>2, <3>1 DEF Places
  <2>4. PICK means \in [Places -> 0 .. Len(body)] : means = [meaning EXCEPT ![pos] = m]
    BY <1>2, <2>3
  <2>5. means[pos] = m /\ \A q \in 1 .. pos - 1 : means[q] = meaning[q]
    <3>1. \A q \in 1 .. pos - 1 : q \in Places /\ q # pos
      BY <1>2 DEF Places
    <3> QED BY <1>2, <2>3, <2>4, <3>1
  <2>6. Checked(body, pos, meaning) => Checked(body, pos + 1, means)
    <3>1. body[pos].op \notin {"break", "continue"}
      BY <1>1
    <3> QED BY <1>2, <2>2, <2>5, <3>1, CheckedMore
  <2>7. meaning' = means /\ had_error' = had_error
    BY <1>1, <1>7, <2>1, <2>4
  <2>8. had_error' \in BOOLEAN
    BY <1>6, <2>7
  <2>9. had_error' \/ Checked(body, pos + 1, meaning')
    BY <1>2, <2>6, <2>7
  <2>10. meaning' \in [Places -> 0 .. Len(body)]
    BY <2>7
  <2> QED BY <1>1, <1>3, <1>4, <1>5, <2>8, <2>9, <2>10, CheckKeeps
<1>8. CASE ~Declares(scopes, body[pos].name)
  <2>1. had_error' \in BOOLEAN /\ had_error' /\ meaning' \in [Places -> 0 .. Len(body)]
    BY <1>1, <1>2, <1>8
  <2>2. had_error' \/ Checked(body, pos + 1, meaning')
    BY <2>1
  <2> QED BY <1>1, <1>3, <1>4, <1>5, <2>1, <2>2, CheckKeeps
<1> QED BY <1>7, <1>8

\* check_block begins.
LEMMA CheckOpenKeeps == BInv /\ CheckOpen => BInv'
<1> SUFFICES ASSUME BInv, CheckOpen PROVE BInv'
  OBVIOUS
<1>1. /\ CheckNext /\ body[pos].op \in Openers /\ scopes' = Push(scopes, Opened(pos))
      /\ loop_depth' = IF body[pos].op \in Loops THEN loop_depth + 1 ELSE loop_depth
      /\ meaning' = meaning /\ had_error' = had_error
  BY DEF CheckOpen, Op
<1>2. Text(body) /\ pos \in 1 .. Len(body) /\ scopes \in Seq(Seq(Places)) /\ Listed(body, pos, scopes)
      /\ loop_depth = Cardinality(LoopsAround(body, pos))
  BY <1>1, CheckFacts, TypesAre
<1>3. Listed(body, pos + 1, scopes') /\ scopes' \in Seq(Seq(Places)) /\ scopes' # <<>>
  BY <1>1, <1>2, ListedOpen
<1>4. body[pos].op \notin {"use", "break", "continue", "close"}
  BY <1>1 DEF Openers, Loops
<1>5. loop_depth' = Cardinality(LoopsAround(body, pos + 1))
  BY <1>1, <1>2, <1>4, LoopsNext
<1>6. /\ meaning' \in [Places -> 0 .. Len(body)] /\ had_error' \in BOOLEAN
      /\ had_error' \/ Checked(body, pos + 1, meaning')
  BY <1>1, <1>4, CheckedOn
<1> QED BY <1>1, <1>3, <1>5, <1>6, CheckKeeps

\* check_block ends.
LEMMA CheckCloseKeeps == BInv /\ CheckClose => BInv'
<1> SUFFICES ASSUME BInv, CheckClose PROVE BInv'
  OBVIOUS
<1>1. /\ CheckNext /\ body[pos].op = "close" /\ scopes' = Pop(scopes)
      /\ loop_depth' = IF \E o \in 1 .. pos - 1 : Op(o) \in Loops /\ Close(o) = pos
                         THEN loop_depth - 1 ELSE loop_depth
      /\ meaning' = meaning /\ had_error' = had_error
  BY DEF CheckClose, Op
<1>2. Text(body) /\ pos \in 1 .. Len(body) /\ scopes \in Seq(Seq(Places)) /\ Listed(body, pos, scopes)
      /\ loop_depth = Cardinality(LoopsAround(body, pos))
  BY <1>1, CheckFacts, TypesAre
<1>3. Listed(body, pos + 1, scopes') /\ scopes' \in Seq(Seq(Places)) /\ scopes' # <<>>
  BY <1>1, <1>2, ListedClose
<1>4. "close" \notin Loops
  BY DEF Loops
<1>5. loop_depth' = Cardinality(LoopsAround(body, pos + 1))
  BY <1>1, <1>2, <1>4, LoopsNext
<1>6. /\ meaning' \in [Places -> 0 .. Len(body)] /\ had_error' \in BOOLEAN
      /\ had_error' \/ Checked(body, pos + 1, meaning')
  BY <1>1, CheckedOn
<1> QED BY <1>1, <1>3, <1>5, <1>6, CheckKeeps

\* check_stmt on a break, a continue or a return.
LEMMA CheckJumpKeeps == BInv /\ CheckJump => BInv'
<1> SUFFICES ASSUME BInv, CheckJump PROVE BInv'
  OBVIOUS
<1>1. /\ CheckNext /\ body[pos].op \in Jumps /\ scopes' = scopes /\ loop_depth' = loop_depth
      /\ meaning' = meaning
      /\ had_error' = (had_error \/ (body[pos].op # "return" /\ loop_depth <= 0))
  BY DEF CheckJump, Op
<1>2. /\ Text(body) /\ pos \in 1 .. Len(body) /\ scopes \in Seq(Seq(Places)) /\ Listed(body, pos, scopes)
      /\ loop_depth = Cardinality(LoopsAround(body, pos)) /\ (had_error \/ Checked(body, pos, meaning))
      /\ meaning \in [Places -> 0 .. Len(body)] /\ scopes # <<>> /\ pos \in Nat /\ loop_depth \in Nat
  BY <1>1, CheckFacts, TypesAre
<1>3. body[pos].op \notin Openers /\ body[pos].op \notin Loops /\ body[pos].op \notin {"let", "close", "use"}
  BY <1>1 DEF Openers, Loops, Jumps
<1>4. Listed(body, pos + 1, scopes') /\ scopes' \in Seq(Seq(Places)) /\ scopes' # <<>>
  BY <1>1, <1>2, <1>3, ListedPlain
<1>5. loop_depth' = Cardinality(LoopsAround(body, pos + 1))
  <2>1. Cardinality(LoopsAround(body, pos + 1)) = Cardinality(LoopsAround(body, pos))
    BY <1>2, <1>3, LoopsNext
  <2> QED BY <1>1, <1>2, <2>1
<1>6. had_error' \in BOOLEAN
  BY <1>1, Zenon
<1>7. meaning' \in [Places -> 0 .. Len(body)]
  BY <1>1, <1>2
<1>8. loop_depth <= 0 <=> LoopsAround(body, pos) = {}
  <2>1. loop_depth <= 0 <=> loop_depth = 0
    BY <1>2
  <2> QED BY <1>2, <2>1, LoopsFinite
<1>9. had_error' \/ Checked(body, pos + 1, meaning')
  <2>1. CASE had_error \/ (body[pos].op # "return" /\ loop_depth <= 0)
    BY <1>1, <2>1, Zenon
  <2>2. CASE ~had_error /\ (body[pos].op = "return" \/ LoopsAround(body, pos) # {})
    <3>1. Checked(body, pos, meaning) /\ pos \in Int
      BY <1>2, <2>2
    <3>2. body[pos].op \in {"break", "continue"} => LoopsAround(body, pos) # {}
      BY <2>2
    <3>3. Checked(body, pos + 1, meaning)
      BY <1>3, <3>1, <3>2, CheckedMore
    <3> QED BY <1>1, <3>3
  <2>3. \/ had_error \/ (body[pos].op # "return" /\ loop_depth <= 0)
        \/ ~had_error /\ (body[pos].op = "return" \/ LoopsAround(body, pos) # {})
    BY <1>8, Zenon
  <2> QED BY <2>1, <2>2, <2>3, Zenon
<1> QED BY <1>1, <1>4, <1>5, <1>6, <1>7, <1>9, CheckKeeps

\* check_expr on a match, but for its arms.
LEMMA CheckMatchKeeps == BInv /\ CheckMatch => BInv'
<1> SUFFICES ASSUME BInv, CheckMatch PROVE BInv'
  OBVIOUS
<1>1. /\ CheckNext /\ body[pos].op = "match" /\ scopes' = scopes /\ loop_depth' = loop_depth
      /\ meaning' = meaning /\ had_error' = had_error
  BY DEF CheckMatch, Op, checker
<1>2. /\ Text(body) /\ pos \in 1 .. Len(body) /\ scopes \in Seq(Seq(Places)) /\ Listed(body, pos, scopes)
      /\ loop_depth = Cardinality(LoopsAround(body, pos)) /\ scopes # <<>>
  BY <1>1, CheckFacts, TypesAre
<1>3. "match" \notin Openers /\ "match" \notin Loops
  BY DEF Openers, Loops
<1>4. Listed(body, pos + 1, scopes') /\ scopes' \in Seq(Seq(Places)) /\ scopes' # <<>>
  BY <1>1, <1>2, <1>3, ListedPlain
<1>5. loop_depth' = Cardinality(LoopsAround(body, pos + 1))
  <2>1. Cardinality(LoopsAround(body, pos + 1)) = Cardinality(LoopsAround(body, pos))
    BY <1>1, <1>2, <1>3, LoopsNext
  <2> QED BY <1>1, <1>2, <2>1
<1>6. /\ meaning' \in [Places -> 0 .. Len(body)] /\ had_error' \in BOOLEAN
      /\ had_error' \/ Checked(body, pos + 1, meaning')
  BY <1>1, CheckedOn
<1> QED BY <1>1, <1>4, <1>5, <1>6, CheckKeeps
-----------------------------------------------------------------------------
(* The steps of the interpreter.                                             *)

\* The analysis is done: the run starts with nothing unchecked.
LEMMA EndCheckKeeps == BInv /\ EndCheck => BInv'
<1> SUFFICES ASSUME BInv, EndCheck PROVE BInv'
  OBVIOUS
<1>1. /\ phase = "check" /\ pos \notin 1 .. Len(body) /\ pos' = 1
      /\ phase' = (IF had_error THEN "rejected" ELSE "run")
      /\ body' = body /\ scopes' = scopes /\ loop_depth' = loop_depth /\ meaning' = meaning
      /\ had_error' = had_error /\ frames' = frames /\ flow' = flow /\ from' = from
  BY TypesAre DEF EndCheck, Within, checker, runner
<1>2. pos = Len(body) + 1 /\ Len(body) \in Nat
  <2>1. pos \in 1 .. Len(body) + 1 /\ Len(body) \in Nat
    BY TypesAre
  <2> QED BY <1>1, <2>1
<1>3. had_error \/ Checked(body, Len(body) + 1, meaning)
  BY <1>1, <1>2 DEF BInv
<1>4. frames = <<[at |-> 0, bindings |-> <<>>]>> /\ flow = "GO"
  BY <1>1 DEF BInv, Fresh
<1>5. TypeOK' /\ Text(body)'
  <2>1. pos' \in 1 .. Len(body) + 1
    BY <1>1, <1>2
  <2>2. phase' \in {"check", "run", "rejected", "over", "died"}
    BY <1>1
  <2>3. had_error' \in BOOLEAN /\ flow' \in {"GO", "RETURNED", "BROKE", "CONTINUED"}
    BY <1>1 DEF BInv, TypeOK
  <2>4. /\ scopes' \in Seq(Seq(Places)) /\ scopes' # <<>> /\ loop_depth' \in Nat
        /\ meaning' \in [Places -> 0 .. Len(body)] /\ frames' \in Seq(Frame) /\ frames' # <<>>
        /\ from' \in 0 .. Len(body)
    BY <1>1, TypesAre
  <2> QED BY <1>1, <2>1, <2>2, <2>3, <2>4, TypesNext
<1>6. Framed(body, 1, frames) /\ Len(frames) = DepthIn(body, 0) + 1
  <2>1. DepthIn(body, 0) = 0 /\ 1 - 1 = 0
    BY TypesAre, DepthIs
  <2>2. Len(frames) = 1 /\ frames[1].at = 0 /\ frames[1].bindings = <<>>
    BY <1>4
  <2>3. \A i \in 1 .. Len(frames) : Held(body, 1, i, frames[i].at, frames[i].bindings)
    <3>1. \A i \in 1 .. Len(frames) : i = 1
      BY <2>2
    <3> QED BY <2>2, <3>1, HeldFirst
  <2>4. Framed(body, 1, frames)
    <3>1. Len(frames) <= DepthIn(body, 1 - 1) + 1
      BY <2>1, <2>2
    <3> QED BY <2>3, <3>1, FramedIs
  <2> QED BY <2>1, <2>2, <2>4
<1>7. phase' = "run" => /\ Checked(body, Len(body) + 1, meaning)'
                        /\ Framed(body, pos, frames)' /\ Moving(body, pos, frames, flow, from)'
  <2> SUFFICES ASSUME phase' = "run"
               PROVE  /\ Checked(body, Len(body) + 1, meaning)'
                      /\ Framed(body, pos, frames)' /\ Moving(body, pos, frames, flow, from)'
    OBVIOUS
  <2>1. ~had_error
    BY <1>1
  <2>2. 1 - 1 = 0
    OBVIOUS
  <2>3. Moving(body, 1, frames, flow, from)
    BY <1>4, <1>6, <2>2 DEF Moving
  <2> QED BY <1>1, <1>3, <1>6, <2>1, <2>3
<1>8. phase' # "check" /\ phase' # "over"
  BY <1>1
<1> QED BY <1>5, <1>7, <1>8 DEF BInv

\* What every step of the run has in common.
LEMMA RunFacts ==
  ASSUME BInv, phase = "run"
  PROVE  /\ Checked(body, Len(body) + 1, meaning) /\ Framed(body, pos, frames)
         /\ Moving(body, pos, frames, flow, from)
         /\ flow \in {"GO", "RETURNED", "BROKE", "CONTINUED"}
         /\ flow = "GO" => Len(frames) = DepthIn(body, pos - 1) + 1
         /\ flow # "GO" => Jumping(body, pos, frames, flow, from)
         /\ \A q \in 1 .. Len(body) :
              /\ body[q].op = "use" => Meant(body, q, body[q].name, meaning[q])
              /\ body[q].op \in {"break", "continue"} => LoopsAround(body, q) # {}
<1>1. /\ Checked(body, Len(body) + 1, meaning) /\ Framed(body, pos, frames)
      /\ Moving(body, pos, frames, flow, from)
  BY DEF BInv
<1>2. flow \in {"GO", "RETURNED", "BROKE", "CONTINUED"}
  BY DEF BInv, TypeOK
<1>3. /\ flow = "GO" => Len(frames) = DepthIn(body, pos - 1) + 1
      /\ flow # "GO" => Jumping(body, pos, frames, flow, from)
  BY <1>1 DEF Moving
<1>4. \A q \in 1 .. Len(body) : q \in 1 .. Len(body) + 1 - 1
  BY TypesAre
<1> QED BY <1>1, <1>2, <1>3, <1>4 DEF Checked

\* ... and what is left to show.
LEMMA RunKeeps ==
  ASSUME BInv, phase = "run", phase' = "run", body' = body, UNCHANGED checker,
         pos' \in 1 .. Len(body) + 1, frames' \in Seq(Frame), frames' # <<>>,
         flow' \in {"GO", "RETURNED", "BROKE", "CONTINUED"}, from' \in 0 .. Len(body),
         Framed(body, pos', frames'), Moving(body, pos', frames', flow', from')
  PROVE  BInv'
<1>1. /\ scopes' = scopes /\ loop_depth' = loop_depth /\ meaning' = meaning /\ had_error' = had_error
  BY DEF checker
<1>2. had_error' \in BOOLEAN
  BY <1>1 DEF BInv, TypeOK
<1>3. /\ scopes' \in Seq(Seq(Places)) /\ scopes' # <<>> /\ loop_depth' \in Nat
      /\ meaning' \in [Places -> 0 .. Len(body)]
  BY <1>1, TypesAre
<1>4. TypeOK' /\ Text(body)'
  BY <1>2, <1>3, TypesNext
<1>5. Checked(body, Len(body) + 1, meaning)'
  BY <1>1, RunFacts
<1>6. phase' # "check" /\ phase' # "over"
  OBVIOUS
<1> QED BY <1>4, <1>5, <1>6 DEF BInv

\* A step on the way.
LEMMA StepFacts ==
  ASSUME BInv, Step
  PROVE  /\ phase = "run" /\ phase' = "run" /\ body' = body /\ UNCHANGED checker
         /\ flow = "GO" /\ pos \in 1 .. Len(body) /\ Text(body) /\ frames \in Seq(Frame) /\ frames # <<>>
         /\ Framed(body, pos, frames) /\ Len(frames) = DepthIn(body, pos - 1) + 1
         /\ from \in 0 .. Len(body) /\ pos + 1 \in 1 .. Len(body) + 1 /\ pos + 1 - 1 = pos
         /\ pos \in 1 .. Len(body) + 1
<1>1. phase = "run" /\ phase' = "run" /\ body' = body /\ UNCHANGED checker /\ flow = "GO" /\ pos \in DOMAIN body
  BY DEF Step, Going, Within
<1>2. pos \in 1 .. Len(body)
  BY <1>1, TypesAre
<1>3. pos + 1 \in 1 .. Len(body) + 1 /\ pos + 1 - 1 = pos /\ pos \in 1 .. Len(body) + 1
  BY <1>2, TypesAre
<1> QED BY <1>1, <1>2, <1>3, RunFacts, TypesAre

\* ... and what is left to show.
LEMMA StepKeeps ==
  ASSUME BInv, Step, pos' \in 1 .. Len(body) + 1, frames' \in Seq(Frame), frames' # <<>>,
         flow' = flow, from' = from,
         Framed(body, pos', frames'), Len(frames') = DepthIn(body, pos' - 1) + 1
  PROVE  BInv'
<1>1. Moving(body, pos', frames', "GO", from')
  BY DEF Moving
<1>2. flow' = "GO" /\ from' \in 0 .. Len(body)
  BY StepFacts
<1>3. Moving(body, pos', frames', flow', from')
  BY <1>1, <1>2
<1>4. phase = "run" /\ phase' = "run" /\ body' = body /\ UNCHANGED checker
  BY StepFacts
<1> QED BY <1>2, <1>3, <1>4, RunKeeps

\* bind.
LEMMA LetKeeps == BInv /\ Let => BInv'
<1> SUFFICES ASSUME BInv, Let PROVE BInv'
  OBVIOUS
<1>1. /\ Step /\ body[pos].op = "let" /\ pos' = pos + 1 /\ flow' = flow /\ from' = from
      /\ frames' = [frames EXCEPT ![Len(frames)].bindings = Append(@, pos)]
  BY DEF Let, Op
<1>0. PICK q \in 1 .. Len(body) + 1 : q = pos + 1 /\ q - 1 = pos
  BY <1>1, StepFacts
<1>2. PICK fs : fs = [frames EXCEPT ![Len(frames)].bindings = Append(@, pos)]
  OBVIOUS
<1>3. fs \in Seq(Frame) /\ fs # <<>> /\ Framed(body, q, fs) /\ Len(fs) = DepthIn(body, pos) + 1
  BY <1>0, <1>1, <1>2, StepFacts, FramedLet
<1>4. pos' = q /\ Len(fs) = DepthIn(body, q - 1) + 1
  BY <1>0, <1>1, <1>3, StepFacts
<1>9. pos' \in 1 .. Len(body) + 1 /\ frames' \in Seq(Frame) /\ frames' # <<>>
      /\ Framed(body, pos', frames') /\ Len(frames') = DepthIn(body, pos' - 1) + 1
  BY <1>1, <1>2, <1>3, <1>4
<1> QED BY <1>1, <1>9, StepKeeps

\* A use changes nothing.
LEMMA UseKeeps == BInv /\ Use => BInv'
<1> SUFFICES ASSUME BInv, Use PROVE BInv'
  OBVIOUS
<1>1. Step /\ body[pos].op = "use" /\ pos' = pos + 1 /\ frames' = frames /\ flow' = flow /\ from' = from
  BY DEF Use, Op, runner
<1>0. PICK q \in 1 .. Len(body) + 1 : q = pos + 1 /\ q - 1 = pos
  BY <1>1, StepFacts
<1>2. body[pos].op \notin Openers /\ body[pos].op \notin {"let", "close"}
  BY <1>1 DEF Openers, Loops
<1>3. Framed(body, q, frames) /\ Len(frames) = DepthIn(body, pos) + 1
  BY <1>0, <1>1, <1>2, StepFacts, FramedPlain
<1>4. /\ pos' = q /\ Len(frames) = DepthIn(body, q - 1) + 1
      /\ frames \in Seq(Frame) /\ frames # <<>>
  BY <1>0, <1>1, <1>3, StepFacts
<1>9. pos' \in 1 .. Len(body) + 1 /\ frames' \in Seq(Frame) /\ frames' # <<>>
      /\ Framed(body, pos', frames') /\ Len(frames') = DepthIn(body, pos' - 1) + 1
  BY <1>1, <1>3, <1>4
<1> QED BY <1>1, <1>9, StepKeeps

\* Neither does the choice of an arm.
LEMMA MatchKeeps == BInv /\ Match => BInv'
<1> SUFFICES ASSUME BInv, Match PROVE BInv'
  OBVIOUS
<1>1. Step /\ body[pos].op = "match" /\ pos' = pos + 1 /\ frames' = frames /\ flow' = flow /\ from' = from
  BY DEF Match, Op, runner
<1>0. PICK q \in 1 .. Len(body) + 1 : q = pos + 1 /\ q - 1 = pos
  BY <1>1, StepFacts
<1>2. body[pos].op \notin Openers /\ body[pos].op \notin {"let", "close"}
  BY <1>1 DEF Openers, Loops
<1>3. Framed(body, q, frames) /\ Len(frames) = DepthIn(body, pos) + 1
  BY <1>0, <1>1, <1>2, StepFacts, FramedPlain
<1>4. /\ pos' = q /\ Len(frames) = DepthIn(body, q - 1) + 1
      /\ frames \in Seq(Frame) /\ frames # <<>>
  BY <1>0, <1>1, <1>3, StepFacts
<1>9. pos' \in 1 .. Len(body) + 1 /\ frames' \in Seq(Frame) /\ frames' # <<>>
      /\ Framed(body, pos', frames') /\ Len(frames') = DepthIn(body, pos' - 1) + 1
  BY <1>1, <1>3, <1>4
<1> QED BY <1>1, <1>9, StepKeeps

\* A frame for a block, an arm, an iteration.
LEMMA EnterKeeps == BInv /\ Enter => BInv'
<1> SUFFICES ASSUME BInv, Enter PROVE BInv'
  OBVIOUS
<1>1. /\ Step /\ body[pos].op \in Openers /\ pos' = pos + 1 /\ flow' = flow /\ from' = from
      /\ frames' = Append(frames, [at |-> pos, bindings |-> Opened(pos)])
  BY DEF Enter, Op
<1>0. PICK q \in 1 .. Len(body) + 1 : q = pos + 1 /\ q - 1 = pos
  BY <1>1, StepFacts
<1>2. PICK fs : fs = Append(frames, [at |-> pos, bindings |-> Opened(pos)])
  OBVIOUS
<1>3. fs \in Seq(Frame) /\ fs # <<>> /\ Framed(body, q, fs) /\ Len(fs) = DepthIn(body, pos) + 1
  BY <1>0, <1>1, <1>2, StepFacts, FramedOpen
<1>4. pos' = q /\ Len(fs) = DepthIn(body, q - 1) + 1
  BY <1>0, <1>1, <1>3, StepFacts
<1>9. pos' \in 1 .. Len(body) + 1 /\ frames' \in Seq(Frame) /\ frames' # <<>>
      /\ Framed(body, pos', frames') /\ Len(frames') = DepthIn(body, pos' - 1) + 1
  BY <1>1, <1>2, <1>3, <1>4
<1> QED BY <1>1, <1>9, StepKeeps

\* Past a loop that is over, an arm that is not taken.
LEMMA SkipKeeps == BInv /\ Skip => BInv'
<1> SUFFICES ASSUME BInv, Skip PROVE BInv'
  OBVIOUS
<1>1. /\ Step /\ body[pos].op \in Openers /\ pos' = Close(pos) + 1
      /\ frames' = frames /\ flow' = flow /\ from' = from
  BY DEF Skip, Op, runner, Openers
<1>2. PICK c : c = Close(pos)
  OBVIOUS
<1>3. c + 1 \in 1 .. Len(body) + 1 /\ Framed(body, c + 1, frames) /\ Len(frames) = DepthIn(body, c) + 1
      /\ frames \in Seq(Frame) /\ frames # <<>>
  BY <1>1, <1>2, StepFacts, FramedSkip
<1>4. PICK q \in 1 .. Len(body) + 1 : q = c + 1 /\ q - 1 = c
  <2>1. c \in pos + 1 .. Len(body) /\ pos \in 1 .. Len(body)
    BY <1>1, <1>2, StepFacts, CloseIs
  <2> QED BY <1>3, <2>1
<1>5. pos' = q /\ Framed(body, q, frames) /\ Len(frames) = DepthIn(body, q - 1) + 1
  BY <1>1, <1>2, <1>3, <1>4
<1>9. pos' \in 1 .. Len(body) + 1 /\ frames' \in Seq(Frame) /\ frames' # <<>>
      /\ Framed(body, pos', frames') /\ Len(frames') = DepthIn(body, pos' - 1) + 1
  BY <1>1, <1>2, <1>3, <1>5
<1> QED BY <1>1, <1>9, StepKeeps

\* A block is done.
LEMMA LeaveKeeps == BInv /\ Leave => BInv'
<1> SUFFICES ASSUME BInv, Leave PROVE BInv'
  OBVIOUS
<1>1. PICK o : o = frames[Len(frames)].at
  OBVIOUS
<1>2. /\ Step /\ body[pos].op = "close" /\ frames' = Pop(frames) /\ flow' = flow /\ from' = from
      /\ pos' = CASE body[o].op = "block" -> pos + 1
                  [] body[o].op = "arm" -> AfterArms(o)
                  [] body[o].op \in Loops -> o
  BY <1>1 DEF Leave, Op, Top
<1>3. Len(frames) > 1 /\ Close(o) = pos
  BY <1>1, <1>2, StepFacts, TopCloses
<1>4. o \in 1 .. Len(body) /\ body[o].op \in Openers
  BY <1>1, <1>2, <1>3, StepFacts, TopIs
<1>5. Pop(frames) \in Seq(Frame) /\ Pop(frames) # <<>>
  BY <1>2, <1>3, StepFacts, FramedFewer
<1>6. CASE body[o].op = "block"
  <2>1. pos' = pos + 1
    BY <1>2, <1>6 DEF Loops
  <2>2. /\ pos + 1 \in 1 .. Len(body) + 1 /\ Framed(body, pos + 1, Pop(frames))
        /\ Len(Pop(frames)) = DepthIn(body, pos) + 1
    BY <1>1, <1>2, <1>3, StepFacts, FramedOut
  <2>3. PICK q \in 1 .. Len(body) + 1 : q = pos + 1 /\ q - 1 = pos
    BY <1>2, StepFacts
  <2>4. pos' = q /\ Framed(body, q, Pop(frames)) /\ Len(Pop(frames)) = DepthIn(body, q - 1) + 1
    BY <2>1, <2>2, <2>3
  <2>9. pos' \in 1 .. Len(body) + 1 /\ frames' \in Seq(Frame) /\ frames' # <<>>
        /\ Framed(body, pos', frames') /\ Len(frames') = DepthIn(body, pos' - 1) + 1
    BY <1>2, <1>5, <2>4
  <2> QED BY <1>2, <2>9, StepKeeps
<1>7. CASE body[o].op = "arm"
  <2>1. pos' = AfterArms(o)
    BY <1>2, <1>7 DEF Loops
  <2>2. /\ AfterArms(o) \in 1 .. Len(body) + 1 /\ Framed(body, AfterArms(o), Pop(frames))
        /\ Len(Pop(frames)) = DepthIn(body, AfterArms(o) - 1) + 1
    BY <1>1, <1>2, <1>3, StepFacts, FramedBehindArms
  <2>9. pos' \in 1 .. Len(body) + 1 /\ frames' \in Seq(Frame) /\ frames' # <<>>
        /\ Framed(body, pos', frames') /\ Len(frames') = DepthIn(body, pos' - 1) + 1
    BY <1>2, <1>5, <2>1, <2>2
  <2> QED BY <1>2, <2>9, StepKeeps
<1>8. CASE body[o].op \in Loops
  <2>1. pos' = o
    BY <1>2, <1>8 DEF Loops
  <2>2. /\ o \in 1 .. Len(body) + 1 /\ Framed(body, o, Pop(frames))
        /\ Len(Pop(frames)) = DepthIn(body, o - 1) + 1
    BY <1>1, <1>2, <1>3, StepFacts, FramedAgain
  <2>9. pos' \in 1 .. Len(body) + 1 /\ frames' \in Seq(Frame) /\ frames' # <<>>
        /\ Framed(body, pos', frames') /\ Len(frames') = DepthIn(body, pos' - 1) + 1
    BY <1>2, <1>5, <2>1, <2>2
  <2> QED BY <1>2, <2>9, StepKeeps
<1> QED BY <1>4, <1>6, <1>7, <1>8 DEF Openers

\* A jump sets out: the loops around it all have their frames.
LEMMA JumpKeeps == BInv /\ Jump => BInv'
<1> SUFFICES ASSUME BInv, Jump PROVE BInv'
  OBVIOUS
<1>1. /\ Step /\ body[pos].op \in Jumps /\ from' = pos /\ pos' = pos /\ frames' = frames
      /\ flow' = Code(body[pos].op)
  BY DEF Jump, Op, Code
<1>2. /\ phase = "run" /\ phase' = "run" /\ body' = body /\ UNCHANGED checker
      /\ pos \in 1 .. Len(body) /\ pos \in 1 .. Len(body) + 1 /\ Text(body)
      /\ frames \in Seq(Frame) /\ frames # <<>> /\ Framed(body, pos, frames)
      /\ Len(frames) = DepthIn(body, pos - 1) + 1
  BY <1>1, StepFacts
<1>3. /\ DOMAIN body = 1 .. Len(body)
      /\ body[pos].op \in {"break", "continue"} => LoopsAround(body, pos) # {}
  BY <1>2, RunFacts, TypesAre
<1>4. flow' \in {"GO", "RETURNED", "BROKE", "CONTINUED"} /\ flow' # "GO"
  BY <1>1 DEF Code, Jumps
<1>5. \A o \in LoopsAround(body, pos) : DepthIn(body, o) < Len(frames)
  <2> SUFFICES ASSUME NEW o \in LoopsAround(body, pos) PROVE DepthIn(body, o) < Len(frames)
    OBVIOUS
  <2>1. DepthIn(body, o) <= DepthIn(body, pos - 1) /\ DepthIn(body, o) \in Nat
    BY <1>2, AroundIs DEF LoopsAround
  <2>2. DepthIn(body, pos - 1) \in Nat
    <3>1. pos - 1 \in 0 .. Len(body)
      BY <1>2
    <3> QED BY <1>2, <3>1, DepthIs
  <2> QED BY <1>2, <2>1, <2>2
<1>6. Jumping(body, pos, frames, flow', pos)
  BY <1>1, <1>2, <1>3, <1>5 DEF Jumping, Jumps
<1>7. Moving(body, pos', frames', flow', from')
  BY <1>1, <1>4, <1>6 DEF Moving
<1>8. from' \in 0 .. Len(body)
  BY <1>1, <1>2
<1>9. pos' \in 1 .. Len(body) + 1 /\ frames' \in Seq(Frame) /\ frames' # <<>> /\ Framed(body, pos', frames')
  BY <1>1, <1>2
<1> QED BY <1>2, <1>4, <1>7, <1>8, <1>9, RunKeeps

\* A jump on its way.
LEMMA UnwindFacts ==
  ASSUME BInv, Unwinding
  PROVE  /\ phase = "run" /\ phase' = "run" /\ body' = body /\ UNCHANGED checker /\ from' = from
         /\ from \in 0 .. Len(body) /\ flow # "GO" /\ Len(frames) > 1
         /\ pos \in 1 .. Len(body) /\ pos \in 1 .. Len(body) + 1 /\ Text(body)
         /\ frames \in Seq(Frame) /\ Framed(body, pos, frames) /\ Jumping(body, pos, frames, flow, from)
         /\ Pop(frames) \in Seq(Frame) /\ Pop(frames) # <<>> /\ Framed(body, pos, Pop(frames))
         /\ Len(Pop(frames)) = Len(frames) - 1 /\ Len(frames) \in Nat
<1>1. /\ phase = "run" /\ phase' = "run" /\ body' = body /\ UNCHANGED checker /\ from' = from
      /\ flow # "GO" /\ Len(frames) > 1
  BY DEF Unwinding
<1>2. Jumping(body, pos, frames, flow, from) /\ Framed(body, pos, frames)
  BY <1>1, RunFacts
<1>3. Text(body) /\ from \in 0 .. Len(body) /\ frames \in Seq(Frame) /\ pos \in 1 .. Len(body)
      /\ pos \in 1 .. Len(body) + 1
  BY <1>2, TypesAre DEF Jumping
<1>4. Len(frames) \in Nat
  BY <1>3
<1> QED BY <1>1, <1>2, <1>3, <1>4, FramedFewer

\* It leaves a block that is not the loop it is for.
LEMMA PropagateKeeps == BInv /\ Propagate => BInv'
<1> SUFFICES ASSUME BInv, Propagate PROVE BInv'
  OBVIOUS
<1>1. PICK o : o = frames[Len(frames)].at
  OBVIOUS
<1>2. /\ Unwinding /\ (body[o].op \in Loops => flow = "RETURNED")
      /\ frames' = Pop(frames) /\ pos' = pos /\ flow' = flow
  BY <1>1 DEF Propagate, Top, Op
<1>3. /\ body[pos].op \in Jumps /\ from = pos /\ flow = Code(body[pos].op) /\ pos \in DOMAIN body
      /\ body[pos].op # "return" =>
           LoopsAround(body, pos) # {} /\ \A u \in LoopsAround(body, pos) : DepthIn(body, u) < Len(frames)
  BY <1>2, UnwindFacts DEF Jumping
<1>4. flow = "RETURNED" => body[pos].op = "return"
  BY <1>3 DEF Code, Jumps
<1>5. ASSUME body[pos].op # "return", NEW u \in LoopsAround(body, pos)
      PROVE  DepthIn(body, u) < Len(frames) - 1
  <2>1. Around(body, u, pos) /\ body[u].op \in Loops
    BY DEF LoopsAround
  <2>2. u # o
    BY <1>2, <1>4, <1>5, <2>1
  <2>3. DepthIn(body, u) # Len(frames) - 1
    BY <1>1, <1>2, <2>1, <2>2, UnwindFacts, TopIs
  <2>4. DepthIn(body, u) \in Nat
    BY <1>2, <2>1, UnwindFacts, AroundIs
  <2>5. DepthIn(body, u) < Len(frames)
    BY <1>3, <1>5
  <2> QED BY <1>2, <2>3, <2>4, <2>5, UnwindFacts
<1>6. Jumping(body, pos, Pop(frames), flow, from)
  <2>1. Len(Pop(frames)) = Len(frames) - 1
    BY <1>2, UnwindFacts
  <2> QED BY <1>3, <1>5, <2>1 DEF Jumping
<1>7. Moving(body, pos', frames', flow', from')
  BY <1>2, <1>6, UnwindFacts DEF Moving
<1>8. flow' \in {"GO", "RETURNED", "BROKE", "CONTINUED"}
  BY <1>2, UnwindFacts, RunFacts
<1>9. /\ pos' \in 1 .. Len(body) + 1 /\ frames' \in Seq(Frame) /\ frames' # <<>>
      /\ Framed(body, pos', frames') /\ from' \in 0 .. Len(body)
  BY <1>2, UnwindFacts
<1> QED BY <1>2, <1>7, <1>8, <1>9, UnwindFacts, RunKeeps

\* It arrives, behind the loop or at its next iteration.
LEMMA LandKeeps == BInv /\ Land => BInv'
<1> SUFFICES ASSUME BInv, Land PROVE BInv'
  OBVIOUS
<1>1. PICK o : o = frames[Len(frames)].at
  OBVIOUS
<1>2. /\ Unwinding /\ body[o].op \in Loops /\ frames' = Pop(frames) /\ flow' = "GO"
      /\ pos' = IF flow = "BROKE" THEN Close(o) + 1 ELSE o
  BY <1>1 DEF Land, Top, Op
<1>3. PICK c \in 1 .. Len(body) : c = Close(o)
  BY <1>1, <1>2, UnwindFacts, TopIs
<1>4. PICK q \in 1 .. Len(body) + 1 : q = c + 1 /\ q - 1 = c
  <2>1. Len(body) \in Nat
    BY TypesAre
  <2> QED BY <2>1
<1>5. CASE flow = "BROKE"
  <2>1. pos' = q
    BY <1>2, <1>3, <1>4, <1>5
  <2>2. Framed(body, q, Pop(frames)) /\ Len(Pop(frames)) = DepthIn(body, q - 1) + 1
    BY <1>1, <1>2, <1>3, <1>4, UnwindFacts, FramedOut, SMTT(60)
  <2>3. Framed(body, pos', frames') /\ Len(frames') = DepthIn(body, pos' - 1) + 1
    BY <1>2, <2>1, <2>2
  <2>4. Moving(body, pos', frames', flow', from')
    BY <1>2, <2>3 DEF Moving
  <2>5. /\ pos' \in 1 .. Len(body) + 1 /\ frames' \in Seq(Frame) /\ frames' # <<>>
        /\ flow' \in {"GO", "RETURNED", "BROKE", "CONTINUED"} /\ from' \in 0 .. Len(body)
    BY <1>2, <2>1, UnwindFacts
  <2> QED BY <1>2, <2>3, <2>4, <2>5, UnwindFacts, RunKeeps
<1>6. CASE flow # "BROKE"
  <2>1. pos' = o
    BY <1>2, <1>6
  <2>2. o \in 1 .. Len(body) + 1 /\ Framed(body, o, Pop(frames)) /\ Len(Pop(frames)) = DepthIn(body, o - 1) + 1
    BY <1>1, <1>2, UnwindFacts, FramedAgain
  <2>3. Framed(body, pos', frames') /\ Len(frames') = DepthIn(body, pos' - 1) + 1
    BY <1>2, <2>1, <2>2
  <2>4. Moving(body, pos', frames', flow', from')
    BY <1>2, <2>3 DEF Moving
  <2>5. /\ pos' \in 1 .. Len(body) + 1 /\ frames' \in Seq(Frame) /\ frames' # <<>>
        /\ flow' \in {"GO", "RETURNED", "BROKE", "CONTINUED"} /\ from' \in 0 .. Len(body)
    BY <1>2, <2>1, <2>2, UnwindFacts
  <2> QED BY <1>2, <2>3, <2>4, <2>5, UnwindFacts, RunKeeps
<1> QED BY <1>5, <1>6

\* What only ends the run leaves everything else as it is.
LEMMA OverKeeps ==
  ASSUME BInv, phase' \in {"over", "died"}, body' = body, pos' = pos, UNCHANGED checker, UNCHANGED runner,
         phase' = "over" => flow \in {"GO", "RETURNED"}
  PROVE  BInv'
<1>1. /\ scopes' = scopes /\ loop_depth' = loop_depth /\ meaning' = meaning /\ had_error' = had_error
      /\ frames' = frames /\ flow' = flow /\ from' = from
  BY DEF checker, runner
<1>2. /\ scopes' \in Seq(Seq(Places)) /\ scopes' # <<>> /\ loop_depth' \in Nat
      /\ meaning' \in [Places -> 0 .. Len(body)] /\ frames' \in Seq(Frame) /\ frames' # <<>>
      /\ from' \in 0 .. Len(body) /\ pos' \in 1 .. Len(body) + 1
  BY <1>1, TypesAre
<1>3. had_error' \in BOOLEAN /\ flow' \in {"GO", "RETURNED", "BROKE", "CONTINUED"}
  BY <1>1 DEF BInv, TypeOK
<1>4. phase' \in {"check", "run", "rejected", "over", "died"}
  OBVIOUS
<1>5. TypeOK' /\ Text(body)'
  BY <1>2, <1>3, <1>4, TypesNext
<1>6. phase' = "over" => flow' \in {"GO", "RETURNED"}
  BY <1>1
<1>7. phase' # "check" /\ phase' # "run"
  OBVIOUS
<1> QED BY <1>5, <1>6, <1>7 DEF BInv

\* The run dies.
LEMMA DieKeeps == BInv /\ Die => BInv'
<1> SUFFICES ASSUME BInv, Die PROVE BInv'
  OBVIOUS
<1>1. phase' = "died" /\ body' = body /\ pos' = pos /\ UNCHANGED checker /\ UNCHANGED runner
  BY DEF Die
<1> QED BY <1>1, OverKeeps

\* The run is over: no break or continue is left on its way, for the loop it
\* is for is deeper than the body.
LEMMA EndKeeps == BInv /\ End => BInv'
<1> SUFFICES ASSUME BInv, End PROVE BInv'
  OBVIOUS
<1>1. /\ phase = "run" /\ Len(frames) = 1 /\ phase' = "over" /\ body' = body /\ pos' = pos
      /\ UNCHANGED checker /\ UNCHANGED runner
  BY DEF End
<1>2. flow \in {"GO", "RETURNED"}
  <2>1. CASE flow = "GO"
    BY <2>1
  <2>2. CASE flow # "GO"
    <3>1. /\ body[pos].op \in Jumps /\ flow = Code(body[pos].op) /\ pos \in 1 .. Len(body)
          /\ body[pos].op # "return" =>
               LoopsAround(body, pos) # {} /\ \A o \in LoopsAround(body, pos) : DepthIn(body, o) < Len(frames)
      BY <1>1, <2>2, RunFacts, TypesAre DEF Jumping
    <3>2. body[pos].op = "return"
      <4> SUFFICES ASSUME body[pos].op # "return" PROVE FALSE
        OBVIOUS
      <4>1. PICK o \in LoopsAround(body, pos) : DepthIn(body, o) < 1
        BY <1>1, <3>1
      <4>2. Around(body, o, pos) /\ pos \in 1 .. Len(body) + 1
        BY TypesAre DEF LoopsAround
      <4>3. DepthIn(body, o) \in Nat \ {0}
        BY <4>2, TypesAre, AroundIs
      <4> QED BY <4>1, <4>3
    <3> QED BY <3>1, <3>2 DEF Code
  <2> QED BY <2>1, <2>2
<1> QED BY <1>1, <1>2, OverKeeps

\* A step that changes nothing.
LEMMA BodiesStutter == BInv /\ UNCHANGED vars => BInv'
<1> SUFFICES ASSUME BInv, UNCHANGED vars PROVE BInv'
  OBVIOUS
<1>1. /\ body' = body /\ phase' = phase /\ pos' = pos /\ scopes' = scopes /\ loop_depth' = loop_depth
      /\ meaning' = meaning /\ had_error' = had_error /\ frames' = frames /\ flow' = flow /\ from' = from
  BY DEF vars, checker, runner
<1>2. TypeOK' /\ Text(body)'
  <2>1. had_error' \in BOOLEAN /\ phase' \in {"check", "run", "rejected", "over", "died"}
        /\ flow' \in {"GO", "RETURNED", "BROKE", "CONTINUED"}
    BY <1>1 DEF BInv, TypeOK
  <2> QED BY <1>1, <2>1, TypesAre, TypesNext
<1>3. Fresh' <=> Fresh
  BY <1>1 DEF Fresh
<1> QED BY <1>1, <1>2, <1>3 DEF BInv

\* Every step preserves the invariant.
LEMMA BInvNext == BInv /\ [Next]_vars => BInv'
BY CheckLetKeeps, CheckUseKeeps, CheckOpenKeeps, CheckCloseKeeps, CheckJumpKeeps, CheckMatchKeeps,
   EndCheckKeeps, LetKeeps, UseKeeps, MatchKeeps, EnterKeeps, SkipKeeps, JumpKeeps, LeaveKeeps,
   PropagateKeeps, LandKeeps, DieKeeps, EndKeeps, BodiesStutter DEF Next
-----------------------------------------------------------------------------
(* The theorems.                                                             *)

\* The inductive invariant holds of every reachable state.
THEOREM BodiesInvariance == Spec => []BInv
BY BInvInit, BInvNext, PTL DEF Spec

\* The type invariant.
THEOREM TypeCorrect == Spec => []TypeOK
<1>1. BInv => TypeOK
  BY DEF BInv
<1> QED BY <1>1, BodiesInvariance, PTL

\* A body that passed the analysis (sema.c 799-806) ends by running off its
\* end or by a return, never by a break or continue that found no loop
\* (interp.c 660-661).
THEOREM NoStrayJumpCorrect == Spec => []NoStrayJump
<1>1. BInv => NoStrayJump
  BY DEF BInv, NoStrayJump
<1> QED BY <1>1, BodiesInvariance, PTL

\* Wherever the program came from, its frames are those of the blocks around
\* it, outermost first.
LEMMA FramesGiven == BInv => FramesNest
<1> SUFFICES ASSUME BInv, phase = "run", flow = "GO", NEW i \in DOMAIN frames, NEW j \in DOMAIN frames
             PROVE  /\ i < j => frames[i].at < frames[j].at
                    /\ {frames[h].at : h \in DOMAIN frames} \ {0} = {o \in 1 .. pos - 1 : Encloses(o, pos)}
  BY DEF FramesNest
<1>1. /\ Text(body) /\ pos \in 1 .. Len(body) + 1 /\ Len(body) \in Nat /\ frames \in Seq(Frame)
      /\ Framed(body, pos, frames) /\ Len(frames) = DepthIn(body, pos - 1) + 1
  BY TypesAre, RunFacts
<1>2. DOMAIN frames = 1 .. Len(frames) /\ Len(frames) \in Nat
  BY <1>1
<1>3. \A h \in DOMAIN frames : Level(body, pos, h, frames[h].at)
  BY <1>1, <1>2 DEF Framed
<1>4. i < j => frames[i].at < frames[j].at
  BY <1>1, <1>3, LevelIs
<1>5. ASSUME NEW h \in DOMAIN frames, frames[h].at # 0
      PROVE  frames[h].at \in 1 .. pos - 1 /\ Encloses(frames[h].at, pos)
  <2>1. PICK o : o = frames[h].at
    OBVIOUS
  <2>2. Around(body, o, pos)
    BY <1>3, <1>5, <2>1 DEF Level
  <2>3. o \in 1 .. Len(body) /\ o \in 1 .. pos - 1
    BY <1>1, <2>2, AroundIs DEF Around
  <2> QED BY <1>1, <2>1, <2>2, <2>3, AroundIff
<1>6. ASSUME NEW o \in 1 .. pos - 1, Encloses(o, pos)
      PROVE  o # 0 /\ \E h \in DOMAIN frames : frames[h].at = o
  <2>1. o \in 1 .. Len(body)
    BY <1>1
  <2>2. Around(body, o, pos)
    BY <1>1, <1>6, <2>1, AroundIff
  <2>3. PICK h : h = DepthIn(body, o) + 1
    OBVIOUS
  <2>4. Level(body, pos, h, o)
    BY <2>2, <2>3 DEF Level
  <2>5. h \in Nat \ {0} /\ h <= DepthIn(body, pos - 1) + 1
    BY <1>1, <2>4, LevelIs
  <2>6. h \in DOMAIN frames
    BY <1>1, <1>2, <2>5
  <2>7. PICK v : v = frames[h].at
    OBVIOUS
  <2>8. Level(body, pos, h, v)
    BY <1>3, <2>6, <2>7
  <2>9. v = o
    BY <1>1, <2>4, <2>8, LevelIs
  <2>10. o # 0
    BY <2>1
  <2> QED BY <2>6, <2>7, <2>9, <2>10
<1>7. {frames[h].at : h \in DOMAIN frames} \ {0} = {o \in 1 .. pos - 1 : Encloses(o, pos)}
  BY <1>5, <1>6
<1> QED BY <1>4, <1>7

\* The frames of the interpreter (interp.c 611-684) nest as the blocks do: none
\* is left over and none is missing, after any loop, arm or jump.
THEOREM FramesCorrect == Spec => []FramesNest
BY FramesGiven, BodiesInvariance, PTL

\* A name is bound, by the declaration it was checked against.
LEMMA DeclarationGiven == BInv => SameDeclaration
<1> SUFFICES ASSUME BInv, phase = "run", Within, flow = "GO", Op(pos) = "use"
             PROVE  Declares(Bindings, Name(pos)) /\ find(Bindings, Name(pos)) = meaning[pos]
  BY DEF SameDeclaration
<1>1. /\ Text(body) /\ pos \in 1 .. Len(body) /\ Len(body) \in Nat /\ frames \in Seq(Frame)
      /\ Framed(body, pos, frames) /\ Len(frames) = DepthIn(body, pos - 1) + 1
  BY TypesAre, RunFacts DEF Within
<1>2. Meant(body, pos, body[pos].name, meaning[pos])
  BY <1>1, RunFacts DEF Op
<1>3. DOMAIN frames = 1 .. Len(frames) /\ Len(frames) \in Nat /\ \A i \in 1 .. Len(frames) : frames[i] \in Frame
  BY <1>1
<1>4. PICK table : table = Bindings
  OBVIOUS
<1>5. DOMAIN table = 1 .. Len(frames) /\ \A i \in 1 .. Len(frames) : table[i] = frames[i].bindings
  BY <1>3, <1>4 DEF Bindings
<1>6. Len(table) = Len(frames)
  <2>1. \A i \in 1 .. Len(frames) : table[i] \in Seq(Places)
    BY <1>3, <1>5 DEF Frame
  <2>2. table = [i \in 1 .. Len(frames) |-> frames[i].bindings]
    BY <1>3, <1>4 DEF Bindings
  <2>3. table \in Seq(Seq(Places))
    BY <1>3, <1>5, <2>1, <2>2
  <2> QED BY <1>3, <1>5, <2>3
<1>7. Listed(body, pos, table)
  <2>1. \A i \in 1 .. Len(frames) : frames[i].at \in 0 .. Len(body)
    BY <1>3 DEF Frame
  <2>2. \A i \in 1 .. Len(table) : Held(body, pos, i, frames[i].at, table[i])
    BY <1>1, <1>5, <1>6, FramedIs
  <2>3. \A i \in 1 .. Len(table) : \E o \in 0 .. Len(body) : Held(body, pos, i, o, table[i])
    BY <1>6, <2>1, <2>2
  <2> QED BY <1>1, <1>6, <2>3, ListedIs
<1>8. Declares(table, body[pos].name) /\ find(table, body[pos].name) = meaning[pos]
  BY <1>1, <1>2, <1>5, <1>6, <1>7, MeantIsFound
<1> QED BY <1>4, <1>8 DEF Name

\* The two symbol tables (sema.c 223-250, interp.c 93-124) agree: whatever path
\* led to a use of a name, it is bound, and by the very declaration the
\* analysis type-checked it against.
THEOREM SameDeclarationCorrect == Spec => []SameDeclaration
BY DeclarationGiven, BodiesInvariance, PTL

\* The loop a jump lands at is the innermost one around it.
LEMMA LandsAtLoop ==
  ASSUME BInv, Land
  PROVE  Op(from) \in {"break", "continue"} /\ pos' = Target(from)
<1>1. PICK o : o = frames[Len(frames)].at
  OBVIOUS
<1>2. /\ Unwinding /\ body[o].op \in Loops /\ flow \in {"BROKE", "CONTINUED"}
      /\ pos' = IF flow = "BROKE" THEN Close(o) + 1 ELSE o
  BY <1>1 DEF Land, Top, Op
<1>3. /\ body[pos].op \in Jumps /\ from = pos /\ flow = Code(body[pos].op) /\ DOMAIN body = 1 .. Len(body)
      /\ body[pos].op # "return" => \A u \in LoopsAround(body, pos) : DepthIn(body, u) < Len(frames)
  BY <1>2, UnwindFacts, TypesAre DEF Jumping
<1>4. body[pos].op \in {"break", "continue"} /\ (flow = "BROKE" <=> body[pos].op = "break")
  BY <1>2, <1>3 DEF Code, Jumps
<1>5. /\ o \in 1 .. Len(body) /\ o < pos /\ Around(body, o, pos) /\ DepthIn(body, o) = Len(frames) - 1
      /\ Text(body) /\ pos \in 1 .. Len(body) + 1 /\ Len(frames) \in Nat /\ Len(body) \in Nat
  BY <1>1, <1>2, UnwindFacts, TypesAre, TopIs, ZenonT(60)
<1>6. Encloses(o, pos)
  BY <1>5, AroundIff
<1>7. ASSUME NEW q \in o + 1 .. pos - 1, Op(q) \in Loops, Encloses(q, pos) PROVE FALSE
  <2>1. q \in 1 .. Len(body) /\ o < q /\ q \in 1 .. pos - 1
    BY <1>5
  <2>2. Around(body, q, pos)
    BY <1>5, <1>7, <2>1, AroundIff
  <2>3. q \in LoopsAround(body, pos)
    BY <1>7, <2>1, <2>2 DEF LoopsAround, Op
  <2>4. DepthIn(body, q) < Len(frames) /\ DepthIn(body, q) \in Nat
    BY <1>3, <1>4, <1>5, <2>2, <2>3, AroundIs
  <2>5. DepthIn(body, o) < DepthIn(body, q)
    BY <1>5, <2>1, <2>2, AroundIs
  <2> QED BY <1>5, <2>4, <2>5
<1> DEFINE Inner(u) == /\ Op(u) \in Loops /\ Encloses(u, pos)
                       /\ \A q \in u + 1 .. pos - 1 : Op(q) \in Loops => ~Encloses(q, pos)
<1>8. Inner(o)
  BY <1>2, <1>6, <1>7 DEF Op
<1>9. ASSUME NEW u \in 1 .. Len(body), Inner(u) PROVE u = o
  <2>1. ~(u < o)
    <3> SUFFICES ASSUME u < o PROVE FALSE
      OBVIOUS
    <3>1. o \in u + 1 .. pos - 1
      BY <1>5
    <3> QED BY <1>8, <1>9, <3>1
  <2>2. ~(o < u)
    <3> SUFFICES ASSUME o < u PROVE FALSE
      OBVIOUS
    <3>1. u \in o + 1 .. pos - 1
      BY <1>5, <1>9 DEF Encloses
    <3> QED BY <1>8, <1>9, <3>1
  <2> QED BY <1>5, <2>1, <2>2
<1>10. LoopAround(pos) = o
  <2>1. LoopAround(pos) = CHOOSE u \in 1 .. Len(body) : Inner(u)
    BY <1>3 DEF LoopAround
  <2>2. \A u \in 1 .. Len(body) : Inner(u) <=> u = o
    BY <1>8, <1>9
  <2> HIDE DEF Inner
  <2> QED BY <1>5, <2>1, <2>2
<1> QED BY <1>2, <1>3, <1>4, <1>10 DEF Target, Op

\* Only landing sets the code back.
LEMMA OnlyLand ==
  ASSUME BInv, [Next]_vars, flow # "GO", flow' = "GO"
  PROVE  Land
<1>1. phase = "run"
  <2>1. flow' # flow
    OBVIOUS
  <2> QED BY <2>1 DEF Next, vars, runner, CheckLet, CheckUse, CheckOpen, CheckClose, CheckJump, CheckMatch,
                      CheckNext, EndCheck, Let, Use, Match, Enter, Skip, Jump, Leave, Step, Going,
                      Propagate, Land, Unwinding, Die, End
<1> QED BY <1>1 DEF Next, vars, runner, CheckLet, CheckUse, CheckOpen, CheckClose, CheckJump, CheckMatch,
                    CheckNext, EndCheck, Let, Use, Match, Enter, Skip, Jump, Leave, Step, Going,
                    Propagate, Die, End

\* A break leads behind the innermost loop around it and a continue to its next
\* iteration, through any blocks and arms in between; nothing stops a return
\* (interp.c 596-693).
THEOREM JumpsCorrect == Spec => JumpsLand
<1>1. BInv /\ [Next]_vars =>
        [flow # "GO" /\ flow' = "GO" => Op(from) \in {"break", "continue"} /\ pos' = Target(from)]_vars
  BY OnlyLand, LandsAtLoop
<1> QED BY <1>1, BodiesInvariance, PTL DEF Spec, JumpsLand
=============================================================================

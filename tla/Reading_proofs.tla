--------------------------- MODULE Reading_proofs ---------------------------
(* Proofs about reading a file: what the lexer is at, why allocations in the *)
(* arena stay apart, and what the tree can count on.                         *)
EXTENDS Reading, FiniteSetTheorems, SequenceTheorems, TLAPS

(* Induction over the naturals: the theorems of the library take an operator  *)
(* as a parameter, so a set and its least element do the work.                *)

\* A set of natural numbers with an element has a least one.
LEMMA LeastNat ==
  ASSUME NEW T \in SUBSET Nat, T # {}
  PROVE  \E x \in T : \A y \in T : x <= y
<1>1. PICK x \in T : \A y \in T : ~(<<y, x>> \in OpToRel(<, Nat))
  BY NatLessThanWellFounded, WFMin
<1>2. \A y \in T : ~(y < x)
  BY <1>1 DEF OpToRel
<1> QED BY <1>2

\* Induction: a set that holds 0, and with every number the next one, holds
\* every natural number.
LEMMA SetInduction ==
  ASSUME NEW S, 0 \in S, \A n \in Nat : n \in S => n + 1 \in S
  PROVE  \A n \in Nat : n \in S
<1> SUFFICES ASSUME NEW m \in Nat, m \notin S PROVE FALSE
  OBVIOUS
<1> DEFINE T == {n \in Nat : n \notin S}
<1>1. PICK x \in T : \A y \in T : x <= y
  <2>1. T \in SUBSET Nat /\ m \in T
    OBVIOUS
  <2> HIDE DEF T
  <2> QED BY <2>1, LeastNat
<1>2. x \in Nat /\ x # 0 /\ x \notin S
  OBVIOUS
<1>3. x - 1 \in Nat /\ x - 1 \in S
  BY <1>1, <1>2
<1>4. (x - 1) + 1 \in S
  BY <1>3
<1> QED BY <1>2, <1>4

(* The arena.                                                                *)

\* The quotient and the rest of a division.
LEMMA Division ==
  ASSUME NEW m \in Nat, NEW a \in Nat, a > 0
  PROVE  /\ m \div a \in Nat /\ m % a \in 0 .. a - 1
         /\ m = a * (m \div a) + (m % a)
OBVIOUS

\* A multiple leaves no rest.
LEMMA Multiple ==
  ASSUME NEW k \in Nat, NEW a \in Nat, a > 0
  PROVE  k * a \in Nat /\ (k * a) % a = 0
<1>1. k * a \in Nat
  OBVIOUS
<1>2. PICK m \in Nat : m = k * a
  BY <1>1
<1>3. PICK q \in Nat, r \in 0 .. a - 1 : q = m \div a /\ r = m % a /\ m = a * q + r
  BY Division
<1>4. r = a * (k - q)
  BY <1>2, <1>3
<1>5. k - q <= 0 \/ k - q >= 1
  OBVIOUS
<1>6. CASE k - q >= 1
  <2>1. a * (k - q) >= a
    BY <1>6
  <2> QED BY <1>3, <1>4, <2>1
<1>7. CASE k - q <= 0
  <2>1. a * (k - q) <= 0
    BY <1>7
  <2> QED BY <1>1, <1>2, <1>3, <1>4, <2>1
<1> QED BY <1>5, <1>6, <1>7

\* Rounding up gives a multiple of the alignment that is not smaller.
LEMMA AlignUp ==
  ASSUME NEW n \in Nat
  PROVE  align_up(n) \in Nat /\ align_up(n) >= n /\ align_up(n) % Align = 0
<1>1. Align \in Nat /\ Align > 0
  BY ArenaAssumption
<1>2. PICK m \in Nat : m = n + Align - 1
  BY <1>1
<1>3. PICK q \in Nat, r \in 0 .. Align - 1 : q = m \div Align /\ m = Align * q + r
  BY <1>1, Division
<1>4. align_up(n) = q * Align
  BY <1>2, <1>3 DEF align_up
<1>5. q * Align \in Nat /\ (q * Align) % Align = 0
  BY <1>1, Multiple
<1>6. q * Align = Align * q
  BY <1>1
<1>7. q * Align >= n
  BY <1>1, <1>2, <1>3, <1>5, <1>6
<1> QED BY <1>4, <1>5, <1>7

\* What is added to a multiple leaves the rest it leaves itself.
LEMMA MultiplesAdd ==
  ASSUME NEW x \in Nat, NEW y \in Nat, NEW a \in Nat, a > 0, x % a = 0, y % a = 0
  PROVE  (x + y) % a = 0
<1>1. PICK p \in Nat : x = a * p
  BY Division
<1>2. PICK q \in Nat : y = a * q
  BY Division
<1>3. p + q \in Nat /\ ((p + q) * a) % a = 0
  BY Multiple
<1>4. (p + q) * a = x + y
  BY <1>1, <1>2
<1> QED BY <1>3, <1>4
-----------------------------------------------------------------------------
(* The cursor.                                                               *)

Cursor == [p : 1 .. Len(src) + 1, line : Nat \ {0}, col : Nat \ {0}]

\* No terminator lies in front of p.
Clean(p) == \A m \in 1 .. p - 1 : CharAt(m) # NUL

\* Line and column say where the cursor is.
Placed(c) ==
  /\ c.line = Cardinality(NewlinesBefore(c.p)) + 1
  /\ c.col = Cardinality({n \in 1 .. c.p : NewlinesBefore(n) = NewlinesBefore(c.p)})

CursorOK(c) == c \in Cursor /\ Clean(c.p) /\ Placed(c)

\* A text has a length, and a terminator behind its end.
LEMMA TextFacts ==
  ASSUME src \in Sources
  PROVE  /\ src \in Seq(STRING) /\ Len(src) \in Nat /\ DOMAIN src = 1 .. Len(src)
         /\ CharAt(Len(src) + 1) = NUL
<1>1. src \in Seq(STRING)
  BY LexerAssumption
<1>2. Len(src) \in Nat /\ DOMAIN src = 1 .. Len(src)
  BY <1>1
<1> QED BY <1>1, <1>2 DEF CharAt

\* The newlines before the next position.
LEMMA NextNewlines ==
  ASSUME src \in Sources, NEW p \in 1 .. Len(src)
  PROVE  NewlinesBefore(p + 1) = IF src[p] = "\n" THEN NewlinesBefore(p) \cup {p}
                                                  ELSE NewlinesBefore(p)
<1>1. p \in Nat /\ p >= 1 /\ \A n : n \in 1 .. (p + 1) - 1 <=> n \in 1 .. p - 1 \/ n = p
  BY TextFacts
<1> QED BY <1>1 DEF NewlinesBefore

\* Newlines before a position are finitely many, and so are positions.
LEMMA FinitelyMany ==
  ASSUME NEW p \in Nat
  PROVE  /\ IsFiniteSet(NewlinesBefore(p)) /\ Cardinality(NewlinesBefore(p)) \in Nat
         /\ \A T \in SUBSET (1 .. p) : IsFiniteSet(T) /\ Cardinality(T) \in Nat
<1>1. ASSUME NEW T \in SUBSET (1 .. p) PROVE IsFiniteSet(T) /\ Cardinality(T) \in Nat
  <2>1. IsFiniteSet(1 .. p)
    BY FS_Interval
  <2> QED BY <2>1, FS_Subset, FS_CardinalityType
<1>2. NewlinesBefore(p) \in SUBSET (1 .. p)
  BY DEF NewlinesBefore
<1> QED BY <1>1, <1>2

\* advance keeps line and column right.
LEMMA AdvancePlaced ==
  ASSUME src \in Sources, NEW c \in Cursor, Placed(c), CharAt(c.p) # NUL
  PROVE  Placed(Advance(c)) /\ Advance(c) \in Cursor /\ Advance(c).p = c.p + 1
<1>1. PICK p \in 1 .. Len(src) + 1, line \in Nat \ {0}, col \in Nat \ {0} :
        c = [p |-> p, line |-> line, col |-> col]
  BY DEF Cursor
<1>2. p \in 1 .. Len(src) /\ CharAt(p) = src[p] /\ Len(src) \in Nat /\ p + 1 \in Nat
  BY <1>1, TextFacts DEF CharAt
<1>3. line = Cardinality(NewlinesBefore(p)) + 1
  BY <1>1 DEF Placed
<1>4. col = Cardinality({n \in 1 .. p : NewlinesBefore(n) = NewlinesBefore(p)})
  BY <1>1 DEF Placed
<1>5. CASE src[p] = "\n"
  <2>1. Advance(c) = [p |-> p + 1, line |-> line + 1, col |-> 1]
    BY <1>1, <1>2, <1>5 DEF Advance
  <2>2. NewlinesBefore(p + 1) = NewlinesBefore(p) \cup {p} /\ p \notin NewlinesBefore(p)
    BY <1>2, <1>5, NextNewlines DEF NewlinesBefore
  <2>3. Cardinality(NewlinesBefore(p + 1)) = Cardinality(NewlinesBefore(p)) + 1
    BY <1>2, <2>2, FinitelyMany, FS_AddElement
  <2>4. \A n \in 1 .. p : p \notin NewlinesBefore(n)
    BY <1>2 DEF NewlinesBefore
  <2>5. {n \in 1 .. p + 1 : NewlinesBefore(n) = NewlinesBefore(p + 1)} = {p + 1}
    <3>1. \A n \in 1 .. p + 1 : n \in 1 .. p \/ n = p + 1
      BY <1>2
    <3>2. p + 1 \in 1 .. p + 1 /\ p \in NewlinesBefore(p + 1)
      BY <1>2, <2>2
    <3> QED BY <2>4, <3>1, <3>2
  <2>6. Cardinality({p + 1}) = 1
    BY FS_Singleton
  <2>7. /\ Advance(c).p = p + 1 /\ Advance(c).line = line + 1 /\ Advance(c).col = 1
        /\ Advance(c) \in Cursor
    BY <1>2, <2>1 DEF Cursor
  <2>8. line + 1 = Cardinality(NewlinesBefore(p + 1)) + 1
    BY <1>3, <2>3
  <2> QED BY <1>1, <2>5, <2>6, <2>7, <2>8 DEF Placed
<1>6. CASE src[p] # "\n"
  <2>1. Advance(c) = [p |-> p + 1, line |-> line, col |-> col + 1]
    BY <1>1, <1>2, <1>6 DEF Advance
  <2>2. NewlinesBefore(p + 1) = NewlinesBefore(p)
    BY <1>2, <1>6, NextNewlines
  <2> DEFINE Same == {n \in 1 .. p : NewlinesBefore(n) = NewlinesBefore(p)}
  <2>3. {n \in 1 .. p + 1 : NewlinesBefore(n) = NewlinesBefore(p + 1)} = Same \cup {p + 1}
    <3>1. \A n : n \in 1 .. p + 1 <=> n \in 1 .. p \/ n = p + 1
      BY <1>2
    <3> QED BY <2>2, <3>1
  <2>4. Same \in SUBSET (1 .. p) /\ p + 1 \notin Same
    BY <1>2
  <2>5. IsFiniteSet(Same)
    BY <1>2, <2>4, FinitelyMany
  <2>6. col = Cardinality(Same)
    BY <1>4
  <2> HIDE DEF Same
  <2>7. Cardinality(Same \cup {p + 1}) = Cardinality(Same) + 1
    BY <2>4, <2>5, FS_AddElement
  <2>8. /\ Advance(c).p = p + 1 /\ Advance(c).line = line /\ Advance(c).col = col + 1
        /\ Advance(c) \in Cursor
    BY <1>2, <2>1 DEF Cursor
  <2>9. PICK d \in Cursor : d = Advance(c) /\ d.p = p + 1 /\ d.line = line /\ d.col = col + 1
    BY <2>8
  <2>10. d.line = Cardinality(NewlinesBefore(d.p)) + 1
    BY <1>3, <2>2, <2>9
  <2>11. d.col = Cardinality({n \in 1 .. d.p : NewlinesBefore(n) = NewlinesBefore(d.p)})
    BY <2>3, <2>6, <2>7, <2>9
  <2>12. Placed(d)
    BY <2>10, <2>11 DEF Placed
  <2> QED BY <1>1, <2>9, <2>12
<1> QED BY <1>5, <1>6

\* advance: the cursor moves one position on, or it stays at a terminator.
LEMMA AdvanceOK ==
  ASSUME src \in Sources, NEW c, CursorOK(c)
  PROVE  /\ CursorOK(Advance(c))
         /\ CharAt(c.p) = NUL => Advance(c) = c
         /\ CharAt(c.p) # NUL => Advance(c).p = c.p + 1
<1>1. CASE CharAt(c.p) = NUL
  BY <1>1 DEF Advance
<1>2. CASE CharAt(c.p) # NUL
  <2>1. Placed(Advance(c)) /\ Advance(c) \in Cursor /\ Advance(c).p = c.p + 1
    BY <1>2, AdvancePlaced DEF CursorOK
  <2>2. c.p \in Nat /\ \A m \in 1 .. (c.p + 1) - 1 : m \in 1 .. c.p - 1 \/ m = c.p
    BY TextFacts DEF CursorOK, Cursor
  <2>3. Clean(Advance(c).p)
    BY <1>2, <2>1, <2>2 DEF Clean, CursorOK
  <2> QED BY <1>2, <2>1, <2>3 DEF CursorOK
<1> QED BY <1>1, <1>2

\* The end of the text is the first terminator.
LEMMA EndIs ==
  ASSUME src \in Sources, NEW p \in 1 .. Len(src) + 1, Clean(p)
  PROVE  CharAt(p) = NUL <=> p = End
<1> DEFINE T == {n \in 1 .. Len(src) + 1 : CharAt(n) = NUL}
<1>1. Len(src) \in Nat
  BY TextFacts
<1>2. T \in SUBSET Nat /\ Len(src) + 1 \in T
  BY <1>1, TextFacts
<1>3. PICK e \in T : \A n \in T : e <= n
  <2> HIDE DEF T
  <2> QED BY <1>2, LeastNat
<1>4. e \in 1 .. Len(src) + 1 /\ CharAt(e) = NUL /\ \A m \in 1 .. e - 1 : CharAt(m) # NUL
  BY <1>1, <1>3
<1>5. /\ End \in 1 .. Len(src) + 1 /\ CharAt(End) = NUL
      /\ \A m \in 1 .. End - 1 : CharAt(m) # NUL
  BY <1>4 DEF End
<1>6. PICK n \in 1 .. Len(src) + 1 : n = End
  BY <1>5
<1>7. CharAt(n) = NUL /\ \A m \in 1 .. n - 1 : CharAt(m) # NUL
  BY <1>5, <1>6
<1>8. p < n \/ p = n \/ p > n
  BY <1>1
<1> QED BY <1>1, <1>6, <1>7, <1>8 DEF Clean

\* Nothing is trivia.
LEMMA TriviaNone ==
  ASSUME NEW i \in Nat
  PROVE  Trivia(i, i - 1)
<1>1. (i - 1) + 1 = i /\ {i} \in SUBSET (i .. (i - 1) + 1)
  OBVIOUS
<1> QED BY <1>1 DEF Trivia

\* Trivia and a piece behind it are trivia.
LEMMA TriviaMore ==
  ASSUME NEW i \in Nat, NEW b \in Nat, NEW j \in Nat, i <= b, b <= j, Trivia(i, b - 1), Piece(b, j)
  PROVE  Trivia(i, j)
<1>1. PICK cuts \in SUBSET (i .. (b - 1) + 1) :
        /\ {i, (b - 1) + 1} \subseteq cuts
        /\ \A n \in cuts \ {i} : \E m \in cuts : m < n /\ Piece(m, n - 1)
  BY DEF Trivia
<1>2. (b - 1) + 1 = b /\ (j + 1) - 1 = j /\ b < j + 1
  OBVIOUS
<1>3. cuts \cup {j + 1} \in SUBSET (i .. j + 1)
  BY <1>1, <1>2
<1>4. b \in cuts \cup {j + 1} /\ b < j + 1 /\ Piece(b, (j + 1) - 1)
  BY <1>1, <1>2
<1>5. \A n \in (cuts \cup {j + 1}) \ {i} : \E m \in cuts \cup {j + 1} : m < n /\ Piece(m, n - 1)
  BY <1>1, <1>4
<1> QED BY <1>1, <1>3, <1>5 DEF Trivia
-----------------------------------------------------------------------------
(* The inductive invariant of the lexer.                                     *)

TokenModes == {"end", "word", "number", "symbol", "string", "char", "bad"} \cup DOMAIN Digits

\* Where the text that the vector does not hold yet begins.
StartOf(ts) == IF ts = <<>> THEN 1 ELSE ts[Len(ts)].to

\* Between there and b is nothing but trivia.
Gap(ts, b) == StartOf(ts) <= b /\ Trivia(StartOf(ts), b - 1)

\* What the loop the lexer is in says about the place it is at.
Here(c, m, f, ts) ==
  /\ m \in TokenModes => /\ Gap(ts, f.p)
                         /\ IF m = "end" THEN f = c /\ CharAt(c.p) = NUL ELSE f.p < c.p
  /\ m = "trivia" => Gap(ts, c.p)
  /\ m = "line" => \E b \in 1 .. c.p : /\ Gap(ts, b)
                                       /\ CharAt(b) = "/" /\ CharAt(b + 1) = "/"
                                       /\ \A n \in b .. c.p - 1 : CharAt(n) # "\n"
  /\ m = "block" => \E b \in 1 .. c.p - 2 :
                      /\ Gap(ts, b)
                      /\ CharAt(b) = "/" /\ CharAt(b + 1) = "*"
                      /\ \A n \in b + 3 .. c.p : ~(CharAt(n - 1) = "*" /\ CharAt(n) = "/")
  /\ m = "over" <=> ts # <<>> /\ ts[Len(ts)].kind = "eof"

\* What is promised of the newest of the tokens.
Last(ts) ==
  ts # <<>> =>
    LET t == ts[Len(ts)]
        before == IF Len(ts) = 1 THEN 1 ELSE ts[Len(ts) - 1].to
    IN /\ before <= t.from /\ t.from <= t.to
       /\ Trivia(before, t.from - 1)
       /\ t.kind = "eof" <=> t.from = End
       /\ t.kind # "eof" => t.from < t.to
       /\ t.line = Cardinality(NewlinesBefore(t.from)) + 1
       /\ t.col = Cardinality({n \in 1 .. t.from : NewlinesBefore(n) = NewlinesBefore(t.from)})

\* Every token lies in the text.
Bounded(ts) == \A i \in 1 .. Len(ts) : /\ ts[i].from \in 1 .. Len(src) + 1
                                       /\ ts[i].to \in ts[i].from .. Len(src) + 1

LexState(c, m, f, ts) ==
  /\ CursorOK(c) /\ CursorOK(f) /\ f.p <= c.p
  /\ m \in TokenModes \cup {"trivia", "line", "block", "over"}
  /\ ts \in Seq(Token) /\ Bounded(ts) /\ Last(ts)
  /\ Here(c, m, f, ts)

LInv == /\ src \in Sources /\ cap \in Nat /\ Len(toks) <= cap
        /\ LexState(cur, mode, first, toks)

\* The invariant holds when reading begins.
LEMMA InitLInv == LexInit => LInv
<1> SUFFICES ASSUME LexInit PROVE LInv
  OBVIOUS
<1>1. /\ src \in Sources /\ cur = [p |-> 1, line |-> 1, col |-> 1] /\ first = cur
      /\ mode = "trivia" /\ toks = <<>> /\ cap = 0
  BY DEF LexInit
<1>2. cur.p = 1 /\ cur.line = 1 /\ cur.col = 1 /\ cur \in Cursor
  BY <1>1, TextFacts DEF Cursor
<1>3. /\ NewlinesBefore(cur.p) = {}
      /\ {n \in 1 .. cur.p : NewlinesBefore(n) = NewlinesBefore(cur.p)} = {1}
  BY <1>2 DEF NewlinesBefore
<1>4. CursorOK(cur)
  <2>1. Clean(cur.p)
    BY <1>2 DEF Clean
  <2>2. Cardinality({}) = 0 /\ Cardinality({1}) = 1
    BY FS_EmptySet, FS_Singleton
  <2>3. Placed(cur)
    BY <1>2, <1>3, <2>2 DEF Placed
  <2> QED BY <1>2, <2>1, <2>3 DEF CursorOK
<1>5. Gap(toks, cur.p)
  BY <1>1, <1>2, TriviaNone DEF Gap, StartOf
<1>6. Here(cur, mode, first, toks)
  BY <1>1, <1>5 DEF Here, TokenModes, Digits
<1>7. toks \in Seq(Token) /\ Len(toks) = 0 /\ Bounded(toks) /\ Last(toks)
  BY <1>1 DEF Bounded, Last
<1> QED BY <1>1, <1>2, <1>4, <1>6, <1>7 DEF LInv, LexState
-----------------------------------------------------------------------------
(* The steps of the lexer.                                                   *)

\* The text does not change, so what holds of the new values holds afterwards.
LEMMA NextLInv ==
  ASSUME LInv, UNCHANGED src, LexState(cur', mode', first', toks'), cap' \in Nat, Len(toks') <= cap'
  PROVE  LInv'
<1>1. src' = src /\ src \in Sources
  BY DEF LInv
<1>2. \A p : CharAt(p)' = CharAt(p)
  BY <1>1 DEF CharAt
<1>3. \A p : NewlinesBefore(p)' = NewlinesBefore(p)
  BY <1>1 DEF NewlinesBefore
<1>4. Cursor' = Cursor /\ End' = End
  BY <1>1, <1>2 DEF Cursor, End
<1>5. \A i, j : Piece(i, j)' = Piece(i, j)
  BY <1>1, <1>2 DEF Piece
<1>6. \A i, j : Trivia(i, j)' = Trivia(i, j)
  BY <1>5 DEF Trivia
<1>7. CursorOK(cur)' /\ CursorOK(first)'
  BY <1>2, <1>3, <1>4 DEF LexState, CursorOK, Clean, Placed
<1>8. Bounded(toks)' /\ Last(toks)'
  BY <1>1, <1>3, <1>4, <1>6 DEF LexState, Bounded, Last
<1>9. Here(cur, mode, first, toks)'
  BY <1>1, <1>2, <1>6 DEF LexState, Here, Gap
<1> QED BY <1>1, <1>7, <1>8, <1>9 DEF LInv, LexState

\* Inside a token the cursor moves on, perhaps to another loop.
LEMMA MoveState ==
  ASSUME LInv, mode \in TokenModes \ {"end"}, NEW c, CursorOK(c), c.p >= cur.p,
         NEW m \in TokenModes \ {"end"}
  PROVE  LexState(c, m, first, toks)
<1>1. LexState(cur, mode, first, toks)
  BY DEF LInv
<1>2. cur.p \in Nat /\ first.p \in Nat /\ c.p \in Nat
  BY <1>1 DEF LexState, CursorOK, Cursor
<1>3. first.p < c.p /\ Gap(toks, first.p)
  BY <1>1, <1>2 DEF LexState, Here
<1>4. m # "trivia" /\ m # "line" /\ m # "block" /\ m # "over"
      /\ mode # "trivia" /\ mode # "line" /\ mode # "block" /\ mode # "over"
  BY DEF TokenModes, Digits
<1>5. Here(c, m, first, toks)
  BY <1>1, <1>3, <1>4 DEF LexState, Here
<1> QED BY <1>1, <1>2, <1>3, <1>5 DEF LexState

Kinds == {"word", "int", "float", "string", "symbol", "error", "eof"}
Made(kind, f, c) == [kind |-> kind, from |-> f.p, to |-> c.p, line |-> f.line, col |-> f.col]

\* A token is made and the lexer looks for the next one.
LEMMA EmitState ==
  ASSUME LInv, mode \in TokenModes, NEW c, CursorOK(c), c.p >= cur.p,
         NEW kind \in Kinds, kind = "eof" <=> mode = "end", kind = "eof" => c = cur
  PROVE  LexState(c, IF kind = "eof" THEN "over" ELSE "trivia", first,
                  Append(toks, Made(kind, first, c)))
<1>1. LexState(cur, mode, first, toks) /\ src \in Sources
  BY DEF LInv
<1>2. /\ cur.p \in Nat /\ first.p \in 1 .. Len(src) + 1 /\ c.p \in 1 .. Len(src) + 1
      /\ Len(src) \in Nat /\ first.p <= c.p
  BY <1>1, TextFacts DEF LexState, CursorOK, Cursor
<1>3. PICK t : t = Made(kind, first, c)
  OBVIOUS
<1>4. /\ t.kind = kind /\ t.from = first.p /\ t.to = c.p
      /\ t.line = first.line /\ t.col = first.col
  BY <1>3 DEF Made
<1>5. t \in Token
  BY <1>1, <1>2, <1>3 DEF LexState, CursorOK, Cursor, Token, Made, Kinds
<1>6. PICK ts : ts = Append(toks, t)
  OBVIOUS
<1>7. /\ ts \in Seq(Token) /\ Len(ts) = Len(toks) + 1 /\ ts # <<>> /\ ts[Len(ts)] = t
      /\ Len(toks) \in Nat /\ \A i \in 1 .. Len(toks) : ts[i] = toks[i]
  <2>1. toks \in Seq(Token)
    BY <1>1 DEF LexState
  <2> QED BY <1>5, <1>6, <2>1, AppendProperties
<1>8. Gap(toks, first.p)
  BY <1>1 DEF LexState, Here
<1>9. Bounded(ts)
  <2>1. \A i \in 1 .. Len(ts) : i \in 1 .. Len(toks) \/ i = Len(ts)
    BY <1>7
  <2>2. t.from \in 1 .. Len(src) + 1 /\ t.to \in t.from .. Len(src) + 1
    BY <1>2, <1>4
  <2> QED BY <1>1, <1>7, <2>1, <2>2 DEF LexState, Bounded
<1>10. kind = "eof" <=> first.p = End
  <2>1. first.p = End <=> CharAt(first.p) = NUL
    BY <1>1, <1>2, EndIs DEF LexState, CursorOK
  <2>2. CASE mode = "end"
    <3>1. CharAt(first.p) = NUL
      BY <1>1, <2>2 DEF LexState, Here
    <3> QED BY <2>1, <2>2, <3>1
  <2>3. CASE mode # "end"
    <3>1. first.p \in 1 .. cur.p - 1
      BY <1>1, <1>2, <2>3 DEF LexState, Here
    <3>2. CharAt(first.p) # NUL
      BY <1>1, <3>1 DEF LexState, CursorOK, Clean
    <3> QED BY <2>1, <2>3, <3>2
  <2> QED BY <2>2, <2>3
<1>11. kind # "eof" => first.p < c.p
  BY <1>1, <1>2 DEF LexState, Here
<1>12. Last(ts)
  <2>1. (IF Len(ts) = 1 THEN 1 ELSE ts[Len(ts) - 1].to) = StartOf(toks)
    <3>1. CASE toks = <<>>
      BY <1>7, <3>1 DEF StartOf
    <3>2. CASE toks # <<>>
      <4>1. Len(toks) \in 1 .. Len(toks) /\ Len(ts) # 1 /\ Len(ts) - 1 = Len(toks)
        <5>1. toks \in Seq(Token)
          BY <1>1 DEF LexState
        <5>2. Len(toks) # 0
          BY <3>2, <5>1, EmptySeq
        <5> QED BY <1>7, <5>2
      <4> QED BY <1>7, <3>2, <4>1 DEF StartOf
    <3> QED BY <3>1, <3>2
  <2>2. StartOf(toks) <= t.from /\ t.from <= t.to /\ Trivia(StartOf(toks), t.from - 1)
    BY <1>2, <1>4, <1>8 DEF Gap
  <2>3. /\ t.line = Cardinality(NewlinesBefore(t.from)) + 1
        /\ t.col = Cardinality({n \in 1 .. t.from : NewlinesBefore(n) = NewlinesBefore(t.from)})
    BY <1>1, <1>4 DEF LexState, CursorOK, Placed
  <2> QED BY <1>4, <1>7, <1>10, <1>11, <2>1, <2>2, <2>3 DEF Last
<1>13. Gap(ts, c.p)
  BY <1>2, <1>4, <1>7, TriviaNone, SMTT(60) DEF Gap, StartOf
<1>14. PICK m : m = IF kind = "eof" THEN "over" ELSE "trivia"
  OBVIOUS
<1>15. m \notin TokenModes /\ m # "line" /\ m # "block"
  BY <1>14 DEF TokenModes, Digits
<1>16. m = "over" <=> ts # <<>> /\ ts[Len(ts)].kind = "eof"
  BY <1>4, <1>7, <1>14
<1>17. Here(c, m, first, ts)
  BY <1>13, <1>15, <1>16 DEF Here
<1>18. LexState(c, m, first, ts)
  BY <1>1, <1>2, <1>7, <1>9, <1>12, <1>14, <1>17 DEF LexState
<1> QED BY <1>3, <1>6, <1>14, <1>18

\* Emit keeps the invariant.
LEMMA EmitStep ==
  ASSUME LInv, mode \in TokenModes, NEW c, CursorOK(c), c.p >= cur.p,
         NEW kind \in Kinds, kind = "eof" <=> mode = "end", kind = "eof" => c = cur,
         Emit(kind, c)
  PROVE  LInv'
<1>1. LexState(c, IF kind = "eof" THEN "over" ELSE "trivia", first,
               Append(toks, Made(kind, first, c)))
  BY EmitState
<1>2. /\ toks' = Append(toks, Made(kind, first, c)) /\ cur' = c /\ src' = src /\ first' = first
      /\ mode' = IF kind = "eof" THEN "over" ELSE "trivia"
      /\ cap' = vec_reserve(Len(toks) + 1)
  BY DEF Emit, Made
<1>3. LexState(cur', mode', first', toks')
  BY <1>1, <1>2
<1>4. cap' \in Nat /\ Len(toks') <= cap'
  <2>1. toks \in Seq(Token) /\ cap \in Nat /\ Len(toks) <= cap
    BY DEF LInv, LexState
  <2>2. Len(toks') = Len(toks) + 1 /\ Len(toks) \in Nat
    BY <1>2, <2>1
  <2> QED BY <1>2, <2>1, <2>2, LexerAssumption DEF vec_reserve
<1> QED BY <1>2, <1>3, <1>4, NextLInv

\* So does a step inside a token.
LEMMA MoveStep ==
  ASSUME LInv, mode \in TokenModes \ {"end"}, NEW c, CursorOK(c), c.p >= cur.p,
         NEW m \in TokenModes \ {"end"}, Goto(c, m)
  PROVE  LInv'
<1>1. LexState(c, m, first, toks)
  BY MoveState
<1>2. cur' = c /\ mode' = m /\ UNCHANGED <<src, first, toks, cap>>
  BY DEF Goto
<1> QED BY <1>1, <1>2, NextLInv DEF LInv

\* The places one, two and three characters ahead.
LEMMA Ahead ==
  ASSUME LInv
  PROVE  /\ CursorOK(cur) /\ cur.p \in Nat /\ cur.p >= cur.p
         /\ CursorOK(Advance(cur)) /\ Advance(cur).p \in Nat /\ Advance(cur).p >= cur.p
         /\ CursorOK(Advance(Advance(cur))) /\ Advance(Advance(cur)).p \in Nat
         /\ Advance(Advance(cur)).p >= cur.p
         /\ CursorOK(Advance(Advance(Advance(cur)))) /\ Advance(Advance(Advance(cur))).p >= cur.p
<1>1. ASSUME NEW c, CursorOK(c)
      PROVE  CursorOK(Advance(c)) /\ c.p \in Nat /\ Advance(c).p \in Nat /\ Advance(c).p >= c.p
  <2>1. CursorOK(Advance(c)) /\ (Advance(c) = c \/ Advance(c).p = c.p + 1)
    BY <1>1, AdvanceOK DEF LInv
  <2>2. c.p \in Nat
    BY <1>1, TextFacts DEF LInv, CursorOK, Cursor
  <2> QED BY <2>1, <2>2
<1>2. CursorOK(cur)
  BY DEF LInv, LexState
<1>3. CursorOK(Advance(cur)) /\ cur.p \in Nat /\ Advance(cur).p \in Nat /\ Advance(cur).p >= cur.p
  BY <1>1, <1>2
<1>4. /\ CursorOK(Advance(Advance(cur))) /\ Advance(Advance(cur)).p \in Nat
      /\ Advance(Advance(cur)).p >= Advance(cur).p
  BY <1>1, <1>3
<1>5. /\ CursorOK(Advance(Advance(Advance(cur)))) /\ Advance(Advance(Advance(cur))).p \in Nat
      /\ Advance(Advance(Advance(cur))).p >= Advance(Advance(cur)).p
  BY <1>1, <1>4
<1> QED BY <1>2, <1>3, <1>4, <1>5

\* Tokens are read.
LEMMA TokenSteps ==
  ASSUME LInv, \/ EndOfFile \/ Unexpected \/ Symbol \/ Word \/ EndWord
               \/ Number \/ Digit \/ Point \/ EndNumber
  PROVE  LInv'
<1>1. CASE EndOfFile
  BY <1>1, Ahead, EmitStep DEF EndOfFile, TokenModes, Kinds
<1>2. CASE Unexpected
  BY <1>2, Ahead, EmitStep DEF Unexpected, TokenModes, Kinds
<1>3. CASE Symbol
  <2>1. PICK c \in {cur, Advance(cur)} : mode = "symbol" /\ Emit("symbol", c)
    BY <1>3 DEF Symbol
  <2>2. CursorOK(c) /\ c.p >= cur.p
    BY <2>1, Ahead
  <2> QED BY <2>1, <2>2, EmitStep DEF TokenModes, Kinds
<1>4. CASE Word
  BY <1>4, Ahead, MoveStep DEF Word, Stay, TokenModes
<1>5. CASE EndWord
  BY <1>5, Ahead, EmitStep DEF EndWord, TokenModes, Kinds
<1>6. CASE Number
  <2>1. PICK c \in {cur, Advance(cur)} : mode = "number" /\ Goto(c, Base)
    BY <1>6 DEF Number
  <2>2. CursorOK(c) /\ c.p >= cur.p
    BY <2>1, Ahead
  <2>3. Base \in {"hex", "binary", "decimal"}
    BY DEF Base
  <2> QED BY <2>1, <2>2, <2>3, MoveStep DEF TokenModes, Digits
<1>7. CASE Digit
  BY <1>7, Ahead, MoveStep DEF Digit, Stay, TokenModes, Digits
<1>8. CASE Point
  BY <1>8, Ahead, MoveStep DEF Point, HasFraction, TokenModes, Digits
<1>9. CASE EndNumber
  <2>1. PICK kind \in {"float", "int"} : mode \in DOMAIN Digits /\ Emit(kind, cur)
    BY <1>9 DEF EndNumber
  <2> QED BY <2>1, Ahead, EmitStep DEF TokenModes, Kinds, Digits
<1> QED BY <1>1, <1>2, <1>3, <1>4, <1>5, <1>6, <1>7, <1>8, <1>9

\* So are strings and character literals.
LEMMA QuotedSteps ==
  ASSUME LInv, String \/ EndString \/ OpenString \/ BadChar \/ Char
  PROVE  LInv'
<1>1. CASE String
  <2>1. PICK c \in {Advance(cur), Advance(Advance(cur))} : mode = "string" /\ Goto(c, mode)
    BY <1>1 DEF String
  <2>2. CursorOK(c) /\ c.p >= cur.p
    BY <2>1, Ahead
  <2> QED BY <2>1, <2>2, MoveStep DEF TokenModes
<1>2. CASE EndString
  BY <1>2, Ahead, EmitStep DEF EndString, TokenModes, Kinds
<1>3. CASE OpenString
  BY <1>3, Ahead, EmitStep DEF OpenString, TokenModes, Kinds
<1>4. CASE BadChar
  BY <1>4, Ahead, EmitStep DEF BadChar, TokenModes, Kinds
<1>5. CASE Char
  <2>1. PICK c \in {Advance(cur), Advance(Advance(cur)), Advance(Advance(Advance(cur)))},
             kind \in {"int", "error"} : mode = "char" /\ Emit(kind, c)
    BY <1>5 DEF Char
  <2>2. CursorOK(c) /\ c.p >= cur.p
    BY <2>1, Ahead
  <2> QED BY <2>1, <2>2, EmitStep DEF TokenModes, Kinds
<1> QED BY <1>1, <1>2, <1>3, <1>4, <1>5

AroundModes == {"trivia", "line", "block"}

\* A step between tokens.
LEMMA WalkStep ==
  ASSUME LInv, mode \in AroundModes, NEW c, CursorOK(c), c.p >= cur.p, NEW m \in AroundModes,
         Goto(c, m), Here(c, m, first, toks)
  PROVE  LInv'
<1>1. cur' = c /\ mode' = m /\ UNCHANGED <<src, first, toks, cap>>
  BY DEF Goto
<1>2. LexState(cur, mode, first, toks)
  BY DEF LInv
<1>3. cur.p \in Nat /\ first.p \in Nat /\ c.p \in Nat /\ first.p <= c.p
  BY <1>2 DEF LexState, CursorOK, Cursor
<1>4. LexState(c, m, first, toks)
  BY <1>2, <1>3 DEF LexState, AroundModes
<1> QED BY <1>1, <1>4, NextLInv DEF LInv

\* What is between tokens.
LEMMA BetweenFacts ==
  ASSUME LInv, mode \in AroundModes
  PROVE  /\ src \in Sources /\ CursorOK(cur) /\ cur.p \in 1 .. Len(src) + 1 /\ Len(src) \in Nat
         /\ StartOf(toks) \in Nat /\ ~(toks # <<>> /\ toks[Len(toks)].kind = "eof")
         /\ CharAt(cur.p) # NUL => cur.p \in 1 .. Len(src)
         /\ CharAt(cur.p + 1) # NUL => cur.p + 1 \in 1 .. Len(src)
         /\ \A p \in 1 .. Len(src) : CharAt(p) = src[p]
<1>1. LexState(cur, mode, first, toks) /\ src \in Sources
  BY DEF LInv
<1>2. CursorOK(cur) /\ cur.p \in 1 .. Len(src) + 1 /\ Len(src) \in Nat
  BY <1>1, TextFacts DEF LexState, CursorOK, Cursor
<1>3. DOMAIN src = 1 .. Len(src)
  BY <1>1, TextFacts
<1>4. StartOf(toks) \in Nat
  <2>1. toks \in Seq(Token) /\ Bounded(toks)
    BY <1>1 DEF LexState
  <2>2. toks # <<>> => Len(toks) \in 1 .. Len(toks)
    BY <2>1, EmptySeq
  <2>3. toks # <<>> => toks[Len(toks)].to \in Nat
    BY <1>2, <2>1, <2>2 DEF Bounded
  <2> QED BY <2>3 DEF StartOf
<1>5. ~(toks # <<>> /\ toks[Len(toks)].kind = "eof")
  BY <1>1 DEF LexState, Here, AroundModes
<1> QED BY <1>1, <1>2, <1>3, <1>4, <1>5 DEF CharAt

\* A blank is a piece of trivia.
LEMMA BlankStep == LInv /\ Blank => LInv'
<1> SUFFICES ASSUME LInv, Blank PROVE LInv'
  OBVIOUS
<1>1. mode = "trivia" /\ CharAt(cur.p) \in Blanks /\ Goto(Advance(cur), "trivia")
  BY BetweenFacts DEF Blank, Stay, Peek, AroundModes
<1>2. /\ src \in Sources /\ cur.p \in 1 .. Len(src) /\ src[cur.p] \in Blanks /\ CharAt(cur.p) # NUL
      /\ StartOf(toks) \in Nat /\ ~(toks # <<>> /\ toks[Len(toks)].kind = "eof")
      /\ Len(src) \in Nat
  BY <1>1, BetweenFacts DEF AroundModes, Blanks, NUL
<1>3. Gap(toks, cur.p)
  BY <1>1 DEF LInv, LexState, Here
<1>4. Advance(cur).p = cur.p + 1 /\ CursorOK(Advance(cur))
  BY <1>1, <1>2, AdvanceOK, Ahead
<1>5. Trivia(StartOf(toks), cur.p)
  <2>1. Piece(cur.p, cur.p)
    BY <1>2 DEF Piece
  <2>2. StartOf(toks) <= cur.p /\ Trivia(StartOf(toks), cur.p - 1) /\ cur.p \in Nat
    BY <1>2, <1>3 DEF Gap
  <2> QED BY <1>2, <2>1, <2>2, TriviaMore
<1>6. Gap(toks, Advance(cur).p)
  <2>1. (cur.p + 1) - 1 = cur.p /\ StartOf(toks) <= cur.p + 1
    BY <1>2, <1>3 DEF Gap
  <2> QED BY <1>4, <1>5, <2>1 DEF Gap
<1>7. Here(Advance(cur), "trivia", first, toks)
  BY <1>2, <1>6 DEF Here, TokenModes, Digits
<1> QED BY <1>1, <1>7, Ahead, WalkStep DEF AroundModes

\* A comment to the end of the line.
LEMMA LineSteps == LInv /\ (OpenLine \/ LineComment \/ EndLine) => LInv'
<1> SUFFICES ASSUME LInv, OpenLine \/ LineComment \/ EndLine PROVE LInv'
  OBVIOUS
<1>0. /\ src \in Sources /\ cur.p \in 1 .. Len(src) + 1 /\ CursorOK(cur) /\ Len(src) \in Nat
      /\ StartOf(toks) \in Nat /\ ~(toks # <<>> /\ toks[Len(toks)].kind = "eof")
      /\ CharAt(cur.p) # NUL => cur.p \in 1 .. Len(src)
      /\ \A p \in 1 .. Len(src) : CharAt(p) = src[p]
  BY BetweenFacts DEF OpenLine, LineComment, EndLine, AroundModes
<1>1. CASE OpenLine
  <2>1. /\ mode = "trivia" /\ CharAt(cur.p) = "/" /\ CharAt(cur.p + 1) = "/"
        /\ Goto(cur, "line")
    BY <1>0, <1>1 DEF OpenLine, AtLine, Peek
  <2>2. Gap(toks, cur.p)
    BY <2>1 DEF LInv, LexState, Here
  <2>3. \A n \in cur.p .. cur.p - 1 : FALSE
    BY <1>0
  <2>4. Here(cur, "line", first, toks)
    BY <1>0, <2>1, <2>2, <2>3 DEF Here, TokenModes, Digits
  <2> QED BY <2>1, <2>4, Ahead, WalkStep DEF AroundModes
<1>2. CASE LineComment
  <2>1. /\ mode = "line" /\ CharAt(cur.p) # NUL /\ CharAt(cur.p) # "\n"
        /\ Goto(Advance(cur), "line")
    BY <1>0, <1>2 DEF LineComment, Stay, Peek
  <2>2. PICK b \in 1 .. cur.p : /\ Gap(toks, b)
                                /\ CharAt(b) = "/" /\ CharAt(b + 1) = "/"
                                /\ \A n \in b .. cur.p - 1 : CharAt(n) # "\n"
    BY <2>1 DEF LInv, LexState, Here
  <2>3. PICK p : p = Advance(cur).p /\ p = cur.p + 1
    BY <1>0, <2>1, AdvanceOK
  <2>4. b \in 1 .. p /\ \A n \in b .. p - 1 : CharAt(n) # "\n"
    <3>1. b \in 1 .. p /\ \A n \in b .. p - 1 : n \in b .. cur.p - 1 \/ n = cur.p
      BY <1>0, <2>3
    <3> QED BY <2>1, <2>2, <3>1
  <2>5. Here(Advance(cur), "line", first, toks)
    BY <1>0, <2>2, <2>3, <2>4 DEF Here, TokenModes, Digits
  <2> QED BY <2>1, <2>5, Ahead, WalkStep DEF AroundModes
<1>3. CASE EndLine
  <2>1. mode = "line" /\ CharAt(cur.p) \in {NUL, "\n"} /\ Goto(cur, "trivia")
    BY <1>0, <1>3 DEF EndLine, Peek
  <2>2. PICK b \in 1 .. cur.p : /\ Gap(toks, b)
                                /\ CharAt(b) = "/" /\ CharAt(b + 1) = "/"
                                /\ \A n \in b .. cur.p - 1 : CharAt(n) # "\n"
    BY <2>1 DEF LInv, LexState, Here
  <2>3. b # cur.p /\ b + 1 # cur.p
    BY <2>1, <2>2 DEF NUL
  <2>4. PICK j : j = cur.p - 1 /\ j \in 1 .. Len(src) /\ j > b /\ j + 1 = cur.p
    <3>1. PICK p \in 1 .. Len(src) + 1 : p = cur.p
      BY <1>0
    <3>2. b \in 1 .. p /\ b # p /\ b + 1 # p
      BY <2>3, <3>1
    <3>3. p - 1 \in 1 .. Len(src) /\ p - 1 > b /\ (p - 1) + 1 = p
      BY <1>0, <3>2
    <3> QED BY <3>1, <3>3
  <2>5. /\ src[b] = "/" /\ src[b + 1] = "/" /\ \A n \in b .. j : src[n] # "\n"
        /\ CharAt(j + 1) \in {"\n", NUL}
    <3>1. b \in 1 .. Len(src) /\ b + 1 \in 1 .. Len(src) /\ \A n \in b .. j : n \in 1 .. Len(src)
      BY <1>0, <2>4
    <3> QED BY <1>0, <2>1, <2>2, <2>4, <3>1
  <2>6. Trivia(StartOf(toks), j)
    <3>1. Piece(b, j)
      BY <2>4, <2>5 DEF Piece
    <3>2. StartOf(toks) <= b /\ Trivia(StartOf(toks), b - 1) /\ b \in Nat /\ j \in Nat /\ b <= j
      BY <2>2, <2>4 DEF Gap
    <3> QED BY <1>0, <3>1, <3>2, TriviaMore
  <2>7. Gap(toks, cur.p)
    BY <1>0, <2>2, <2>4, <2>6 DEF Gap
  <2>8. Here(cur, "trivia", first, toks)
    BY <1>0, <2>7 DEF Here, TokenModes, Digits
  <2> QED BY <2>1, <2>8, Ahead, WalkStep DEF AroundModes
<1> QED BY <1>1, <1>2, <1>3

\* A comment that is closed, or that the end of the text cuts off.
LEMMA BlockSteps == LInv /\ (OpenBlock \/ BlockComment \/ EndBlock) => LInv'
<1> SUFFICES ASSUME LInv, OpenBlock \/ BlockComment \/ EndBlock PROVE LInv'
  OBVIOUS
<1>0. /\ src \in Sources /\ cur.p \in 1 .. Len(src) + 1 /\ CursorOK(cur) /\ Len(src) \in Nat
      /\ StartOf(toks) \in Nat /\ ~(toks # <<>> /\ toks[Len(toks)].kind = "eof")
      /\ CharAt(cur.p) # NUL => cur.p \in 1 .. Len(src)
      /\ CharAt(cur.p + 1) # NUL => cur.p + 1 \in 1 .. Len(src)
      /\ \A p \in 1 .. Len(src) : CharAt(p) = src[p]
  BY BetweenFacts DEF OpenBlock, BlockComment, EndBlock, AroundModes
<1>1. ASSUME CharAt(cur.p) # NUL, CharAt(cur.p + 1) # NUL
      PROVE  Advance(Advance(cur)).p = cur.p + 2
  <2>1. Advance(cur).p = cur.p + 1 /\ CursorOK(Advance(cur))
    BY <1>0, <1>1, AdvanceOK
  <2>2. Advance(Advance(cur)).p = (cur.p + 1) + 1
    BY <1>0, <1>1, <2>1, AdvanceOK
  <2> QED BY <1>0, <2>2
<1>2. CASE OpenBlock
  <2>1. /\ mode = "trivia" /\ CharAt(cur.p) = "/" /\ CharAt(cur.p + 1) = "*"
        /\ Goto(Advance(Advance(cur)), "block")
    BY <1>0, <1>2 DEF OpenBlock, AtBlock, Peek
  <2>2. Gap(toks, cur.p)
    BY <2>1 DEF LInv, LexState, Here
  <2>3. PICK p : p = Advance(Advance(cur)).p /\ p = cur.p + 2
    BY <1>1, <2>1 DEF NUL
  <2>4. cur.p \in 1 .. p - 2 /\ \A n \in cur.p + 3 .. p : FALSE
    BY <1>0, <2>3
  <2>5. Here(Advance(Advance(cur)), "block", first, toks)
    BY <1>0, <2>1, <2>2, <2>3, <2>4 DEF Here, TokenModes, Digits
  <2> QED BY <2>1, <2>5, Ahead, WalkStep DEF AroundModes
<1>3. CASE BlockComment
  <2>1. /\ mode = "block" /\ CharAt(cur.p) # NUL
        /\ ~(CharAt(cur.p) = "*" /\ CharAt(cur.p + 1) = "/")
        /\ Goto(Advance(cur), "block")
    BY <1>0, <1>3 DEF BlockComment, AtEndOfBlock, Stay, Peek
  <2>2. PICK b \in 1 .. cur.p - 2 :
          /\ Gap(toks, b)
          /\ CharAt(b) = "/" /\ CharAt(b + 1) = "*"
          /\ \A n \in b + 3 .. cur.p : ~(CharAt(n - 1) = "*" /\ CharAt(n) = "/")
    BY <2>1 DEF LInv, LexState, Here
  <2>3. PICK p : p = Advance(cur).p /\ p = cur.p + 1
    BY <1>0, <2>1, AdvanceOK
  <2>4. b \in 1 .. p - 2 /\ p - 1 = cur.p /\ \A n \in b + 3 .. p : n \in b + 3 .. cur.p \/ n = p
    <3>1. PICK q \in 1 .. Len(src) + 1 : q = cur.p
      BY <1>0
    <3>2. b \in 1 .. q - 2 /\ p = q + 1
      BY <2>3, <3>1
    <3>3. b \in 1 .. p - 2 /\ p - 1 = q /\ \A n \in b + 3 .. p : n \in b + 3 .. q \/ n = p
      <4>1. q \in Nat
        BY <1>0
      <4> QED BY ONLY <3>2, <4>1
    <3> QED BY <3>1, <3>3
  <2>5. \A n \in b + 3 .. p : ~(CharAt(n - 1) = "*" /\ CharAt(n) = "/")
    BY <2>1, <2>2, <2>3, <2>4
  <2>6. Here(Advance(cur), "block", first, toks)
    BY <1>0, <2>2, <2>3, <2>4, <2>5 DEF Here, TokenModes, Digits
  <2> QED BY <2>1, <2>6, Ahead, WalkStep DEF AroundModes
<1>4. CASE EndBlock
  <2>1. /\ mode = "block"
        /\ CharAt(cur.p) = NUL \/ (CharAt(cur.p) = "*" /\ CharAt(cur.p + 1) = "/")
        /\ Goto(IF CharAt(cur.p) = NUL THEN cur ELSE Advance(Advance(cur)), "trivia")
    BY <1>0, <1>4 DEF EndBlock, AtEndOfBlock, Peek
  <2>2. PICK c : c = IF CharAt(cur.p) = NUL THEN cur ELSE Advance(Advance(cur))
    OBVIOUS
  <2>3. CursorOK(c) /\ c.p >= cur.p /\ Goto(c, "trivia")
    BY <2>1, <2>2, Ahead
  <2>4. PICK b \in 1 .. cur.p - 2 :
          /\ Gap(toks, b)
          /\ CharAt(b) = "/" /\ CharAt(b + 1) = "*"
          /\ \A n \in b + 3 .. cur.p : ~(CharAt(n - 1) = "*" /\ CharAt(n) = "/")
    BY <2>1 DEF LInv, LexState, Here
  <2>5. PICK q \in 1 .. Len(src) + 1 : q = cur.p
    BY <1>0
  <2>6. c.p = IF CharAt(q) = NUL THEN q ELSE q + 2
    BY <1>1, <2>1, <2>2, <2>5 DEF NUL
  <2>7. PICK j \in Nat : /\ j = c.p - 1 /\ b < j /\ j + 1 = c.p /\ j \in q - 1 .. q + 1
                         /\ j \in 1 .. Len(src)
    <3>1. b \in 1 .. q - 2 /\ (CharAt(q) # NUL => q + 1 \in 1 .. Len(src))
      BY <1>0, <2>1, <2>4, <2>5 DEF NUL
    <3> QED BY <1>0, <2>6, <3>1
  <2>8. /\ b \in 1 .. Len(src) /\ b + 1 \in 1 .. Len(src)
        /\ \A n \in b + 3 .. j - 1 : n \in 1 .. Len(src) /\ n - 1 \in 1 .. Len(src)
    BY <1>0, <2>4, <2>5, <2>7, SMTT(60)
  <2>9. src[b] = "/" /\ src[b + 1] = "*"
    BY <1>0, <2>4, <2>8
  <2>10. \A n \in b + 3 .. j - 1 : ~(src[n - 1] = "*" /\ src[n] = "/")
    <3>1. \A n \in b + 3 .. j - 1 : n \in b + 3 .. cur.p
      BY <2>5, <2>7, SMTT(60)
    <3> QED BY <1>0, <2>4, <2>8, <3>1
  <2>11. CharAt(j + 1) = NUL \/ (j >= b + 3 /\ src[j - 1] = "*" /\ src[j] = "/")
    <3>1. CASE CharAt(q) = NUL
      BY <2>6, <2>7, <3>1
    <3>2. CASE CharAt(q) # NUL
      <4>1. j - 1 = q /\ j = q + 1 /\ j >= b + 3 /\ j \in 1 .. Len(src) /\ q \in 1 .. Len(src)
        BY <1>0, <2>4, <2>5, <2>6, <2>7, <3>2, SMTT(60)
      <4>2. CharAt(q) = "*" /\ CharAt(q + 1) = "/"
        BY <2>1, <2>5, <3>2
      <4> QED BY <1>0, <4>1, <4>2
    <3> QED BY <3>1, <3>2
  <2>12. Trivia(StartOf(toks), j)
    <3>1. Piece(b, j)
      BY <2>7, <2>9, <2>10, <2>11 DEF Piece
    <3>2. StartOf(toks) <= b /\ Trivia(StartOf(toks), b - 1) /\ b \in Nat /\ b <= j
      BY <2>4, <2>5, <2>7 DEF Gap
    <3> QED BY <1>0, <2>7, <3>1, <3>2, TriviaMore
  <2>13. Gap(toks, c.p)
    <3>1. StartOf(toks) <= b /\ b \in Nat
      BY <2>4, <2>5 DEF Gap
    <3> QED BY <1>0, <2>7, <2>12, <3>1 DEF Gap
  <2>14. Here(c, "trivia", first, toks)
    BY <1>0, <2>13 DEF Here, TokenModes, Digits
  <2> QED BY <2>1, <2>3, <2>14, WalkStep DEF AroundModes
<1> QED BY <1>2, <1>3, <1>4

\* A token begins.
LEMMA BeginStep == LInv /\ Begin => LInv'
<1> SUFFICES ASSUME LInv, Begin PROVE LInv'
  OBVIOUS
<1>1. /\ mode = "trivia" /\ first' = cur /\ cur' = Advance(cur) /\ mode' = Loop(CharAt(cur.p))
      /\ UNCHANGED <<src, toks, cap>> /\ CharAt(cur.p) \notin Blanks
  BY BetweenFacts DEF Begin, AtToken, Peek, AroundModes
<1>2. /\ src \in Sources /\ CursorOK(cur) /\ cur.p \in Nat
      /\ ~(toks # <<>> /\ toks[Len(toks)].kind = "eof")
  BY <1>1, BetweenFacts, Ahead DEF AroundModes
<1>3. Gap(toks, cur.p)
  BY <1>1 DEF LInv, LexState, Here
<1>4. PICK c : c = CharAt(cur.p)
  OBVIOUS
<1>5. Loop(c) \in {"end", "word", "number", "symbol", "string", "char", "bad"}
      /\ (Loop(c) = "end" <=> c = NUL)
  <2>1. NUL \notin Letters \cup {"_"} /\ NUL \notin Decimal /\ NUL # "\"" /\ NUL # "'"
    BY DEF NUL, Letters, HexLetters, Decimal
  <2>2. NUL \notin Symbols
    BY DEF NUL, Symbols, Seconds, Pairs
  <2>3. CASE c = NUL
    BY <2>1, <2>2, <2>3 DEF Loop
  <2>4. CASE c # NUL
    BY <2>4 DEF Loop
  <2> QED BY <2>3, <2>4
<1>6. Here(Advance(cur), Loop(c), cur, toks)
  <2>1. Loop(c) \in TokenModes /\ Loop(c) \notin {"trivia", "line", "block", "over"}
    BY <1>5 DEF TokenModes
  <2>2. IF Loop(c) = "end" THEN cur = Advance(cur) /\ CharAt(Advance(cur).p) = NUL
                           ELSE cur.p < Advance(cur).p
    <3>1. CASE c = NUL
      BY <1>2, <1>4, <1>5, <3>1, AdvanceOK
    <3>2. CASE c # NUL
      BY <1>2, <1>4, <1>5, <3>2, AdvanceOK
    <3> QED BY <3>1, <3>2
  <2> QED BY <1>2, <1>3, <2>1, <2>2 DEF Here
<1>7. LexState(Advance(cur), Loop(c), cur, toks)
  <2>1. toks \in Seq(Token) /\ Bounded(toks) /\ Last(toks)
    BY DEF LInv, LexState
  <2>2. CursorOK(Advance(cur)) /\ CursorOK(cur) /\ cur.p <= Advance(cur).p
    BY Ahead
  <2> QED BY <1>5, <1>6, <2>1, <2>2 DEF LexState, TokenModes
<1> QED BY <1>1, <1>4, <1>7, NextLInv DEF LInv

\* Every step of the lexer keeps the invariant.
LEMMA LexStep == LInv /\ LexNext => LInv'
BY BlankStep, LineSteps, BlockSteps, BeginStep, TokenSteps, QuotedSteps DEF LexNext

\* The invariant gives the lexer's type and what is promised of its tokens.
LEMMA LexGiven == LInv => LexTypeOK /\ Tiled
<1> SUFFICES ASSUME LInv PROVE LexTypeOK /\ Tiled
  OBVIOUS
<1>1. LexState(cur, mode, first, toks) /\ src \in Sources /\ Len(toks) <= cap
  BY DEF LInv
<1>2. LexTypeOK
  BY <1>1 DEF LexState, CursorOK, Cursor, LexTypeOK, TokenModes
<1>3. mode = "over" <=> toks # <<>> /\ Newest.kind = "eof"
  BY <1>1 DEF LexState, Here, Newest
<1>4. Tiled
  BY <1>1, <1>3 DEF LexState, Last, Tiled, Newest, Behind
<1> QED BY <1>2, <1>4
-----------------------------------------------------------------------------
(* Allocation.                                                               *)

\* Room for the bytes is found at the head or in a new block.
LEMMA ExtendedFacts ==
  ASSUME ArenaTypeOK, NEW n \in Nat, n % Align = 0
  PROVE  /\ Extended(n) \in Seq(Block) /\ Len(Extended(n)) \in Nat
         /\ Len(Extended(n)) >= 1 /\ Len(Extended(n)) >= Len(blocks) /\ Len(blocks) \in Nat
         /\ \A i \in 1 .. Len(blocks) : Extended(n)[i] = blocks[i]
         /\ \A i \in 1 .. Len(Extended(n)) : /\ Extended(n)[i].used <= Extended(n)[i].cap
                                             /\ Extended(n)[i].used % Align = 0
         /\ Extended(n)[Len(Extended(n))].used + n <= Extended(n)[Len(Extended(n))].cap
<1>1. /\ blocks \in Seq(Block) /\ Len(blocks) \in Nat
      /\ \A i \in 1 .. Len(blocks) : /\ blocks[i] \in Block
                                     /\ blocks[i].used <= blocks[i].cap
                                     /\ blocks[i].used % Align = 0
  BY DEF ArenaTypeOK
<1>2. Align \in Nat /\ Align > 0 /\ BlockSize \in Nat
  BY ArenaAssumption
<1>3. CASE HasRoom(n)
  <2>1. Extended(n) = blocks
    BY <1>3 DEF Extended
  <2>2. Len(blocks) >= 1
    BY <1>1, <1>3, EmptySeq DEF HasRoom
  <2>3. blocks[Len(blocks)].used + n <= blocks[Len(blocks)].cap
    BY <1>3 DEF HasRoom, HeadBlock
  <2> QED BY <1>1, <2>1, <2>2, <2>3
<1>4. CASE ~HasRoom(n)
  <2>1. PICK b : b = [cap |-> IF n > BlockSize THEN n ELSE BlockSize, used |-> 0]
    OBVIOUS
  <2>2. b \in Block /\ b.used = 0 /\ b.used + n <= b.cap /\ b.used <= b.cap
    BY <1>2, <2>1 DEF Block
  <2>3. PICK bs : bs = Append(blocks, b)
    OBVIOUS
  <2>4. /\ bs \in Seq(Block) /\ Len(bs) = Len(blocks) + 1 /\ bs[Len(bs)] = b
        /\ \A i \in 1 .. Len(blocks) : bs[i] = blocks[i]
    BY <1>1, <2>2, <2>3, AppendProperties
  <2>5. Extended(n) = bs
    BY <1>4, <2>1, <2>3 DEF Extended
  <2>6. 0 % Align = 0
    <3>1. 0 * Align = 0 /\ (0 * Align) % Align = 0
      BY <1>2, Multiple
    <3> QED BY <3>1
  <2>7. \A i \in 1 .. Len(bs) : i \in 1 .. Len(blocks) \/ i = Len(bs)
    BY <1>1, <2>4
  <2>8. \A i \in 1 .. Len(bs) : bs[i].used <= bs[i].cap /\ bs[i].used % Align = 0
    BY <1>1, <2>2, <2>4, <2>6, <2>7
  <2> QED BY <1>1, <2>2, <2>4, <2>5, <2>8
<1> QED BY <1>3, <1>4

\* arena_alloc: the bytes lie behind all that was given out before.
LEMMA Allocation ==
  ASSUME ArenaTypeOK, NEW n \in Nat
  PROVE  LET b == Place(n).block
             o == Place(n).at
             bs == Allocated(n)
         IN /\ Place(n) = [block |-> b, at |-> o] /\ b \in Nat /\ o \in Nat
            /\ bs \in Seq(Block) /\ Len(bs) \in Nat /\ Len(bs) >= Len(blocks) /\ b \in 1 .. Len(bs)
            /\ \A i \in 1 .. Len(bs) : bs[i].used <= bs[i].cap /\ bs[i].used % Align = 0
            /\ o + n <= bs[b].used
            /\ b \in 1 .. Len(blocks) => blocks[b].used <= o
            /\ \A i \in 1 .. Len(blocks) : bs[i].used >= blocks[i].used
<1>1. PICK m \in Nat : m = align_up(n) /\ m >= n /\ m % Align = 0
  BY AlignUp
<1>2. PICK es : es = Extended(m)
  OBVIOUS
<1>3. /\ es \in Seq(Block) /\ Len(es) \in Nat
      /\ Len(es) >= 1 /\ Len(es) >= Len(blocks) /\ Len(blocks) \in Nat
      /\ \A i \in 1 .. Len(blocks) : es[i] = blocks[i]
      /\ \A i \in 1 .. Len(es) : es[i].used <= es[i].cap /\ es[i].used % Align = 0
      /\ es[Len(es)].used + m <= es[Len(es)].cap
  BY <1>1, <1>2, ExtendedFacts
<1>4. PICK k \in 1 .. Len(es) : k = Len(es)
  BY <1>3
<1>5. PICK e \in Block : e = es[k]
  BY <1>3, <1>4
<1>6. e.used \in Nat /\ e.cap \in Nat /\ e.used + m <= e.cap /\ e.used % Align = 0
  BY <1>3, <1>4, <1>5 DEF Block
<1>7. PICK h : h = [e EXCEPT !.used = @ + m]
  OBVIOUS
<1>8. h \in Block /\ h.used = e.used + m /\ h.cap = e.cap
  BY <1>6, <1>7 DEF Block
<1>9. h.used <= h.cap /\ h.used % Align = 0
  <2>1. Align \in Nat /\ Align > 0
    BY ArenaAssumption
  <2>2. PICK u \in Nat : u = e.used
    BY <1>6
  <2>3. u % Align = 0 /\ m % Align = 0
    BY <1>1, <1>6, <2>2
  <2>4. (u + m) % Align = 0
    BY <2>1, <2>3, MultiplesAdd
  <2> QED BY <1>6, <1>8, <2>2, <2>4
<1>10. PICK bs : bs = [es EXCEPT ![k] = h]
  OBVIOUS
<1>11. /\ bs \in Seq(Block) /\ Len(bs) = Len(es)
       /\ \A i \in 1 .. Len(es) : bs[i] = IF i = k THEN h ELSE es[i]
  BY <1>3, <1>8, <1>10, ExceptSeq
<1>12. Allocated(n) = bs
  BY <1>1, <1>2, <1>4, <1>5, <1>7, <1>10 DEF Allocated
<1>13. Place(n) = [block |-> k, at |-> e.used]
  BY <1>1, <1>2, <1>4, <1>5 DEF Place
<1>14. \A i \in 1 .. Len(blocks) : bs[i].used >= blocks[i].used
  <2>1. ASSUME NEW i \in 1 .. Len(blocks) PROVE bs[i].used >= blocks[i].used
    <3>1. i \in 1 .. Len(es) /\ es[i] = blocks[i] /\ es[i] \in Block
      BY <1>3
    <3>2. es[i].used \in Nat
      BY <3>1 DEF Block
    <3> QED BY <1>1, <1>5, <1>6, <1>8, <1>11, <3>1, <3>2
  <2> QED BY <2>1
<1>15. \A i \in 1 .. Len(bs) : bs[i].used <= bs[i].cap /\ bs[i].used % Align = 0
  BY <1>3, <1>9, <1>11
<1>16. e.used + n <= bs[k].used
  BY <1>1, <1>6, <1>8, <1>11
<1>17. k \in 1 .. Len(blocks) => blocks[k].used <= e.used
  BY <1>3, <1>5, <1>6
<1>18. k \in Nat /\ k \in 1 .. Len(bs)
  BY <1>3, <1>11
<1> QED BY <1>3, <1>6, <1>11, <1>12, <1>13, <1>14, <1>15, <1>16, <1>17, <1>18

\* memcpy: what is written is there, and everything in other blocks or before
\* the place is what it was.
LEMMA WriteFacts ==
  ASSUME NEW b \in Nat, NEW o \in Nat, NEW s, DOMAIN s \subseteq Nat,
         NEW m, m = Written([block |-> b, at |-> o], s)
  PROVE  /\ \A i \in DOMAIN s : <<b, o + i - 1>> \in DOMAIN m /\ m[<<b, o + i - 1>>] = s[i]
         /\ \A c \in DOMAIN mem : c \in DOMAIN m
         /\ \A c \in DOMAIN mem : (\A i \in DOMAIN s : c # <<b, o + i - 1>>) => m[c] = mem[c]
<1> DEFINE C == {<<b, o + i - 1>> : i \in DOMAIN s}
<1>1. m = [c \in C \cup DOMAIN mem |-> IF c \in C THEN s[c[2] - o + 1] ELSE mem[c]]
  BY DEF Written, Cells
<1>2. ASSUME NEW i \in DOMAIN s
      PROVE  <<b, o + i - 1>> \in DOMAIN m /\ m[<<b, o + i - 1>>] = s[i]
  <2>1. <<b, o + i - 1>> \in C
    OBVIOUS
  <2>2. PICK c : c = <<b, o + i - 1>>
    OBVIOUS
  <2>3. c[2] = o + i - 1 /\ c[2] - o + 1 = i
    BY <2>2
  <2> HIDE DEF C
  <2> QED BY <1>1, <2>1, <2>2, <2>3
<1>3. \A c : c \in C => \E i \in DOMAIN s : c = <<b, o + i - 1>>
  OBVIOUS
<1> HIDE DEF C
<1> QED BY <1>1, <1>2, <1>3
-----------------------------------------------------------------------------
(* Escapes and what a string means.                                          *)

\* A character is escaped only by a backslash right before it.
LEMMA EscapedAfter ==
  ASSUME NEW s \in Seq(STRING), NEW i \in 1 .. Len(s) + 1, Escaped(s, i)
  PROVE  i - 1 \in 1 .. Len(s) /\ s[i - 1] = "\\"
<1>1. PICK b \in 1 .. i - 1 : All(s, b, i - 1, {"\\"})
  BY DEF Escaped
<1>2. i - 1 \in b .. i - 1 /\ i - 1 \in 1 .. Len(s)
  BY <1>1
<1> QED BY <1>1, <1>2 DEF All

\* A backslash escapes the next character unless it is escaped itself.
LEMMA EscapedNext ==
  ASSUME NEW s \in Seq(STRING), NEW i \in 1 .. Len(s), s[i] = "\\"
  PROVE  Escaped(s, i + 1) <=> ~Escaped(s, i)
<1>0. Len(s) \in Nat /\ i \in Nat
  OBVIOUS
<1> DEFINE T == {b \in 1 .. i : \A k \in b .. i : s[k] = "\\"}
<1>1. PICK b \in T : \A c \in T : b <= c
  <2>1. T \in SUBSET Nat /\ i \in T
    BY <1>0
  <2> HIDE DEF T
  <2> QED BY <2>1, LeastNat
<1>2. b \in 1 .. i /\ \A k \in b .. i : s[k] = "\\"
  BY <1>1
<1>3. b = 1 \/ s[b - 1] # "\\"
  <2> SUFFICES ASSUME b # 1, s[b - 1] = "\\" PROVE FALSE
    OBVIOUS
  <2>1. b - 1 \in 1 .. i /\ \A k \in b - 1 .. i : k \in b .. i \/ k = b - 1
    BY <1>0, <1>2
  <2>2. b - 1 \in T
    BY <1>2, <2>1
  <2>3. ~(b <= b - 1)
    BY <1>0, <1>2
  <2> HIDE DEF T
  <2> QED BY <1>1, <2>2, <2>3
<1>4. ASSUME NEW c \in 1 .. i, \A k \in c .. i - 1 : s[k] = "\\", c = 1 \/ s[c - 1] # "\\"
      PROVE  c = b
  <2>1. c < b => c \in c .. i - 1 /\ b - 1 \in c .. i - 1 /\ b # 1
    BY <1>0, <1>2
  <2>2. ~(c < b)
    BY <1>3, <1>4, <2>1
  <2>3. b < c => c - 1 \in b .. i /\ c # 1
    BY <1>0, <1>2
  <2>4. ~(b < c)
    BY <1>2, <1>4, <2>3
  <2> QED BY <1>0, <1>2, <2>2, <2>4
<1>5. Escaped(s, i + 1) <=> (i + 1 - b) % 2 = 1
  <2>1. ASSUME Escaped(s, i + 1) PROVE (i + 1 - b) % 2 = 1
    <3>1. PICK c \in 1 .. (i + 1) - 1 : /\ (i + 1 - c) % 2 = 1 /\ All(s, c, (i + 1) - 1, {"\\"})
                                        /\ c = 1 \/ s[c - 1] # "\\"
      BY <2>1 DEF Escaped
    <3>2. c \in 1 .. i /\ \A k \in c .. i - 1 : k \in c .. (i + 1) - 1
      BY <1>0
    <3>3. c = b
      BY <1>4, <3>1, <3>2 DEF All
    <3> QED BY <3>1, <3>3
  <2>2. ASSUME (i + 1 - b) % 2 = 1 PROVE Escaped(s, i + 1)
    <3>1. b \in 1 .. (i + 1) - 1 /\ All(s, b, (i + 1) - 1, {"\\"})
      BY <1>0, <1>2 DEF All
    <3> QED BY <1>3, <2>2, <3>1 DEF Escaped
  <2> QED BY <2>1, <2>2
<1>6. Escaped(s, i) <=> (i - b) % 2 = 1
  <2>1. ASSUME Escaped(s, i) PROVE (i - b) % 2 = 1
    <3>1. PICK c \in 1 .. i - 1 : /\ (i - c) % 2 = 1 /\ All(s, c, i - 1, {"\\"})
                                  /\ c = 1 \/ s[c - 1] # "\\"
      BY <2>1 DEF Escaped
    <3>2. c \in 1 .. i
      BY <1>0
    <3>3. c = b
      BY <1>4, <3>1, <3>2 DEF All
    <3> QED BY <3>1, <3>3
  <2>2. ASSUME (i - b) % 2 = 1 PROVE Escaped(s, i)
    <3>1. b # i
      BY <1>0, <2>2
    <3>2. b \in 1 .. i - 1 /\ All(s, b, i - 1, {"\\"})
      BY <1>0, <1>2, <3>1 DEF All
    <3> QED BY <1>3, <2>2, <3>2 DEF Escaped
  <2> QED BY <2>1, <2>2
<1>7. (i + 1 - b) % 2 = 1 <=> ~((i - b) % 2 = 1)
  <2>1. PICK x \in Nat : x = i - b
    BY <1>0, <1>2
  <2>2. i + 1 - b = x + 1 /\ i - b = x
    BY <1>0, <1>2, <2>1
  <2>3. (x + 1) % 2 = 1 <=> ~(x % 2 = 1)
    OBVIOUS
  <2> QED BY <2>2, <2>3
<1> QED BY <1>5, <1>6, <1>7

\* The loop of dup_string_lit leaves alone a string in which the last character
\* is a backslash that escapes nothing: the lexer makes none.
Closed(s) == s = <<>> \/ s[Len(s)] # "\\" \/ Escaped(s, Len(s))

Chars == STRING \cup {"\n", "\t", "\r", NUL}

LEMMA UnescapedType == \A c \in STRING : Unescaped(c) \in Chars
BY DEF Unescaped, Chars

\* A sequence with an element in front.
LEMMA InFront ==
  ASSUME NEW S, NEW x \in S, NEW r \in Seq(S)
  PROVE  /\ <<x>> \o r \in Seq(S) /\ Len(<<x>> \o r) = Len(r) + 1 /\ Len(r) \in Nat
         /\ (<<x>> \o r)[1] = x /\ \A k \in 1 .. Len(r) : (<<x>> \o r)[k + 1] = r[k]
<1>1. <<x>> \in Seq(S) /\ Len(<<x>>) = 1 /\ <<x>>[1] = x /\ Len(r) \in Nat
  OBVIOUS
<1>2. PICK h \in Seq(S) : h = <<x>>
  BY <1>1
<1>3. /\ h \o r \in Seq(S) /\ Len(h \o r) = Len(h) + Len(r)
      /\ \A i \in 1 .. Len(h) + Len(r) : (h \o r)[i] = IF i <= Len(h) THEN h[i] ELSE r[i - Len(h)]
  BY ConcatProperties
<1>4. 1 \in 1 .. 1 + Len(r) /\ \A k \in 1 .. Len(r) : k + 1 \in 1 .. 1 + Len(r) /\ (k + 1) - 1 = k
  BY <1>1
<1> QED BY <1>1, <1>2, <1>3, <1>4

\* The decoder at position i, with what it makes of the positions behind it.
DecodeAt(s, f, i) ==
  IF i > Len(s) THEN <<>>
  ELSE IF s[i] = "\\" /\ i < Len(s) THEN <<Unescaped(s[i + 1])>> \o f[i + 2]
  ELSE <<s[i]>> \o f[i + 1]

\* Decoding is a function of the position.
LEMMA DecodedFrom ==
  ASSUME NEW s \in Seq(STRING)
  PROVE  \E f : /\ Decoded(s) = f[1]
                /\ \A i \in 1 .. Len(s) + 2 : f[i] \in Seq(Chars) /\ f[i] = DecodeAt(s, f, i)
<1> DEFINE M == Len(s) + 2
           Rec == Seq(Chars)
           From == CHOOSE f : f = [i \in 1 .. M |->
                                     IF i > Len(s) THEN <<>>
                                     ELSE IF s[i] = "\\" /\ i < Len(s)
                                       THEN <<Unescaped(s[i + 1])>> \o f[i + 2]
                                     ELSE <<s[i]>> \o f[i + 1]]
<1>1. Decoded(s) = From[1]
  BY DEF Decoded
<1>2. Len(s) \in Nat /\ M \in Nat /\ M >= 2 /\ \A i \in 1 .. Len(s) : s[i] \in STRING
  OBVIOUS
<1>3. From = CHOOSE f : f = [i \in 1 .. M |-> DecodeAt(s, f, i)]
  BY DEF DecodeAt
<1>4. ASSUME NEW f, NEW i \in 1 .. M, \A k \in 1 .. M : k > i => f[k] \in Rec
      PROVE  DecodeAt(s, f, i) \in Rec
  <2>1. CASE i > Len(s)
    BY <2>1 DEF DecodeAt
  <2>2. CASE ~(i > Len(s))
    <3>1. i + 1 \in 1 .. M /\ i + 2 \in 1 .. M /\ i + 1 > i /\ i + 2 > i
      BY <1>2, <2>2
    <3>2. f[i + 1] \in Rec /\ f[i + 2] \in Rec
      BY <1>4, <3>1
    <3>3. s[i] \in Chars /\ (i < Len(s) => Unescaped(s[i + 1]) \in Chars)
      <4>1. s[i] \in STRING /\ (i < Len(s) => s[i + 1] \in STRING)
        BY <1>2, <2>2
      <4> QED BY <4>1, UnescapedType DEF Chars
    <3>4. /\ <<s[i]>> \o f[i + 1] \in Rec
          /\ i < Len(s) => <<Unescaped(s[i + 1])>> \o f[i + 2] \in Rec
      BY <3>2, <3>3, InFront
    <3> HIDE DEF Rec
    <3> QED BY <2>2, <3>4 DEF DecodeAt
  <2> QED BY <2>1, <2>2
<1>5. ASSUME NEW g, NEW h, NEW i \in 1 .. M, \A k \in 1 .. M : k > i => g[k] = h[k]
      PROVE  DecodeAt(s, g, i) = DecodeAt(s, h, i)
  <2>1. CASE i > Len(s)
    BY <2>1 DEF DecodeAt
  <2>2. CASE ~(i > Len(s))
    <3>1. g[i + 1] = h[i + 1] /\ g[i + 2] = h[i + 2]
      BY <1>2, <1>5, <2>2
    <3> QED BY <3>1 DEF DecodeAt
  <2> QED BY <2>1, <2>2
<1> HIDE DEF Rec, From
<1>6. \E g \in [1 .. M -> Rec] : \A i \in 1 .. M : g[i] = DecodeAt(s, g, i)
  <2> DEFINE S == {n \in Nat : n <= M => \E g \in [1 .. M -> Rec] :
                                 \A i \in 1 .. M : i > M - n => g[i] = DecodeAt(s, g, i)}
  <2>1. 0 \in S
    <3>1. PICK r \in Rec : r = <<>>
      <4>1. <<>> \in Seq(Chars)
        OBVIOUS
      <4> QED BY <4>1 DEF Rec
    <3>2. [i \in 1 .. M |-> r] \in [1 .. M -> Rec]
      OBVIOUS
    <3>3. \A i \in 1 .. M : ~(i > M - 0)
      BY <1>2
    <3> QED BY <3>2, <3>3
  <2>2. ASSUME NEW n \in Nat, n \in S PROVE n + 1 \in S
    <3> SUFFICES ASSUME n + 1 <= M
                 PROVE  \E g \in [1 .. M -> Rec] :
                          \A i \in 1 .. M : i > M - (n + 1) => g[i] = DecodeAt(s, g, i)
      OBVIOUS
    <3>1. PICK g \in [1 .. M -> Rec] : \A i \in 1 .. M : i > M - n => g[i] = DecodeAt(s, g, i)
      BY <1>2, <2>2
    <3> DEFINE j == M - n
    <3>2. j \in 1 .. M /\ \A i \in 1 .. M : i > M - (n + 1) => i = j \/ i > j
      BY <1>2
    <3>3. DecodeAt(s, g, j) \in Rec
      BY <1>4, <3>1, <3>2
    <3>4. PICK h \in [1 .. M -> Rec] : h = [g EXCEPT ![j] = DecodeAt(s, g, j)]
      BY <3>1, <3>2, <3>3
    <3>5. h[j] = DecodeAt(s, g, j) /\ \A i \in 1 .. M : i > j => h[i] = g[i]
      BY <1>2, <3>1, <3>2, <3>4
    <3>6. ASSUME NEW i \in 1 .. M, i > M - (n + 1) PROVE h[i] = DecodeAt(s, h, i)
      <4>1. \A k \in 1 .. M : k > i => g[k] = h[k]
        BY <1>2, <3>2, <3>5, <3>6
      <4>2. DecodeAt(s, g, i) = DecodeAt(s, h, i)
        BY <1>5, <4>1
      <4> QED BY <3>1, <3>2, <3>5, <3>6, <4>2
    <3> QED BY <3>6
  <2>3. \A n \in Nat : n \in S
    <3> HIDE DEF S
    <3> QED BY <2>1, <2>2, SetInduction
  <2>4. PICK g \in [1 .. M -> Rec] : \A i \in 1 .. M : i > M - M => g[i] = DecodeAt(s, g, i)
    <3>1. M \in S /\ M <= M
      <4> HIDE DEF S
      <4> QED BY <1>2, <2>3
    <3> QED BY <3>1
  <2>5. \A i \in 1 .. M : i > M - M
    BY <1>2
  <2> QED BY <2>4, <2>5
<1>7. From = [i \in 1 .. M |-> DecodeAt(s, From, i)]
  <2>1. PICK g \in [1 .. M -> Rec] : \A i \in 1 .. M : g[i] = DecodeAt(s, g, i)
    BY <1>6
  <2>2. g = [i \in 1 .. M |-> DecodeAt(s, g, i)]
    BY <2>1
  <2> QED BY <1>3, <2>2
<1>8. \A i \in 1 .. M : From[i] = DecodeAt(s, From, i)
  BY <1>7
<1>9. \A i \in 1 .. M : From[i] \in Rec
  <2> DEFINE S == {n \in Nat : \A i \in 1 .. M : i > M - n => From[i] \in Rec}
  <2>1. 0 \in S
    BY <1>2
  <2>2. ASSUME NEW n \in Nat, n \in S PROVE n + 1 \in S
    <3> SUFFICES ASSUME NEW i \in 1 .. M, i > M - (n + 1) PROVE From[i] \in Rec
      BY <1>2
    <3>1. \A k \in 1 .. M : k > i => From[k] \in Rec
      BY <1>2, <2>2
    <3> QED BY <1>4, <1>8, <3>1
  <2>3. \A n \in Nat : n \in S
    <3> HIDE DEF S
    <3> QED BY <2>1, <2>2, SetInduction
  <2>4. M \in S /\ \A i \in 1 .. M : i > M - M
    <3> HIDE DEF S
    <3> QED BY <1>2, <2>3
  <2> QED BY <2>4
<1> QED BY <1>1, <1>8, <1>9 DEF Rec

\* How many of the first i characters stand for something.
Rank(s, i) == Cardinality(Standing(s) \cap 1 .. i)

\* d is what the characters from position i on mean.
Rest(s, d, i) ==
  /\ Len(d) = Rank(s, Len(s)) - Rank(s, i - 1)
  /\ \A j \in Standing(s) : j >= i => /\ Rank(s, j) - Rank(s, i - 1) \in 1 .. Len(d)
                                      /\ d[Rank(s, j) - Rank(s, i - 1)] = Meant(s, j)
  /\ \A k \in 1 .. Len(d) : \E j \in Standing(s) : j >= i /\ Rank(s, j) - Rank(s, i - 1) = k

\* Ranks count.
LEMMA Ranks ==
  ASSUME NEW s \in Seq(STRING)
  PROVE  /\ \A i \in Nat : Rank(s, i) \in Nat
         /\ \A i \in Nat : Rank(s, i + 1) = IF i + 1 \in Standing(s) THEN Rank(s, i) + 1
                                                                  ELSE Rank(s, i)
         /\ \A i \in Nat : i >= Len(s) => Rank(s, i) = Cardinality(Standing(s))
         /\ Rank(s, 0) = 0
<1>1. ASSUME NEW i \in Nat
      PROVE  IsFiniteSet(Standing(s) \cap 1 .. i) /\ Rank(s, i) \in Nat
  <2>1. Standing(s) \cap 1 .. i \in SUBSET (1 .. i)
    OBVIOUS
  <2>2. IsFiniteSet(Standing(s) \cap 1 .. i)
    <3>1. IsFiniteSet(1 .. i)
      BY FS_Interval
    <3> QED BY <2>1, <3>1, FS_Subset
  <2> QED BY <2>2, FS_CardinalityType DEF Rank
<1>2. ASSUME NEW i \in Nat
      PROVE  Rank(s, i + 1) = IF i + 1 \in Standing(s) THEN Rank(s, i) + 1 ELSE Rank(s, i)
  <2>1. \A n : n \in 1 .. i + 1 <=> n \in 1 .. i \/ n = i + 1
    OBVIOUS
  <2>2. CASE i + 1 \in Standing(s)
    <3>1. Standing(s) \cap 1 .. i + 1 = (Standing(s) \cap 1 .. i) \cup {i + 1}
      BY <2>1, <2>2
    <3>2. i + 1 \notin Standing(s) \cap 1 .. i
      OBVIOUS
    <3>3. PICK T : T = Standing(s) \cap 1 .. i
      OBVIOUS
    <3>4. Cardinality(T \cup {i + 1}) = Cardinality(T) + 1
      BY <1>1, <3>2, <3>3, FS_AddElement
    <3> QED BY <2>2, <3>1, <3>3, <3>4 DEF Rank
  <2>3. CASE i + 1 \notin Standing(s)
    <3>1. Standing(s) \cap 1 .. i + 1 = Standing(s) \cap 1 .. i
      BY <2>1, <2>3
    <3> QED BY <2>3, <3>1 DEF Rank
  <2> QED BY <2>2, <2>3
<1>3. ASSUME NEW i \in Nat, i >= Len(s) PROVE Rank(s, i) = Cardinality(Standing(s))
  <2>1. Len(s) \in Nat /\ \A n \in 1 .. Len(s) : n \in 1 .. i
    BY <1>3
  <2>2. Standing(s) \subseteq 1 .. Len(s)
    BY DEF Standing
  <2>3. Standing(s) \cap 1 .. i = Standing(s)
    BY <2>1, <2>2
  <2> QED BY <2>3 DEF Rank
<1>4. Rank(s, 0) = 0
  <2>1. Standing(s) \cap 1 .. 0 = {}
    OBVIOUS
  <2> QED BY <2>1, FS_EmptySet DEF Rank
<1> QED BY <1>1, <1>2, <1>3, <1>4

\* One character more in front.
LEMMA RestInFront ==
  ASSUME NEW s \in Seq(STRING), NEW i \in 1 .. Len(s), NEW j \in i .. Len(s), j \in Standing(s),
         \A n \in i .. j - 1 : n \notin Standing(s), Rank(s, j) = Rank(s, i - 1) + 1,
         NEW r \in Seq(Chars), Rest(s, r, j + 1), NEW x \in Chars, x = Meant(s, j)
  PROVE  Rest(s, <<x>> \o r, i)
<1>1. PICK d : d = <<x>> \o r
  OBVIOUS
<1>2. /\ Len(d) = Len(r) + 1 /\ Len(r) \in Nat /\ d[1] = x
      /\ \A k \in 1 .. Len(r) : d[k + 1] = r[k]
  BY <1>1, InFront
<1>3. Len(s) \in Nat /\ i - 1 \in Nat /\ (j + 1) - 1 = j /\ j \in Nat
  OBVIOUS
<1>4. PICK a \in Nat : a = Rank(s, i - 1)
  BY <1>3, Ranks
<1>5. Rank(s, j) = a + 1 /\ Rank(s, Len(s)) \in Nat
  BY <1>3, <1>4, Ranks
<1>6. Len(r) = Rank(s, Len(s)) - (a + 1)
  BY <1>3, <1>5 DEF Rest
<1>7. Len(d) = Rank(s, Len(s)) - a
  BY <1>2, <1>5, <1>6
<1>8. ASSUME NEW n \in Standing(s), n >= i
      PROVE  Rank(s, n) - a \in 1 .. Len(d) /\ d[Rank(s, n) - a] = Meant(s, n)
  <2>1. n \in 1 .. Len(s)
    BY DEF Standing
  <2>2. n = j \/ n >= j + 1
    BY <1>3, <1>8, <2>1
  <2>3. CASE n = j
    BY <1>2, <1>4, <1>5, <2>3
  <2>4. CASE n >= j + 1
    <3>1. Rank(s, n) - (a + 1) \in 1 .. Len(r) /\ r[Rank(s, n) - (a + 1)] = Meant(s, n)
      BY <1>3, <1>5, <2>4 DEF Rest
    <3>2. Rank(s, n) \in Nat
      BY <2>1, Ranks
    <3>3. PICK k \in 1 .. Len(r) : k = Rank(s, n) - (a + 1)
      BY <3>1
    <3>4. Rank(s, n) - a = k + 1 /\ k + 1 \in 1 .. Len(d)
      BY <1>2, <3>2, <3>3, SMTT(60)
    <3> QED BY <1>2, <3>1, <3>3, <3>4
  <2> QED BY <2>2, <2>3, <2>4
<1>9. ASSUME NEW k \in 1 .. Len(d)
      PROVE  \E n \in Standing(s) : n >= i /\ Rank(s, n) - a = k
  <2>1. CASE k = 1
    <3>1. j >= i /\ (a + 1) - a = 1
      OBVIOUS
    <3> QED BY <1>5, <2>1, <3>1
  <2>2. CASE k # 1
    <3>1. PICK q \in 1 .. Len(r) : q = k - 1 /\ k = q + 1
      BY <1>2, <2>2
    <3>2. PICK n \in Standing(s) : n >= j + 1 /\ Rank(s, n) - Rank(s, (j + 1) - 1) = q
      BY DEF Rest
    <3>3. n \in 1 .. Len(s) /\ Rank(s, n) \in Nat
      <4>1. n \in 1 .. Len(s)
        BY DEF Standing
      <4> QED BY <4>1, Ranks
    <3>4. n >= i /\ Rank(s, n) - a = k
      BY <1>3, <1>5, <3>1, <3>2, <3>3, SMTT(60)
    <3> QED BY <3>4
  <2> QED BY <2>1, <2>2
<1> QED BY <1>1, <1>4, <1>7, <1>8, <1>9 DEF Rest

\* dup_string_lit decodes what the string means.
LEMMA DecodedMeans ==
  ASSUME NEW s \in Seq(STRING), Closed(s)
  PROVE  /\ Decoded(s) = Meaning(s) /\ Decoded(s) \in Seq(Chars)
         /\ Len(Decoded(s)) \in Nat /\ Len(Decoded(s)) <= Len(s)
<1>0. Len(s) \in Nat /\ \A i \in 1 .. Len(s) : s[i] \in STRING
  OBVIOUS
<1>1. PICK f : /\ Decoded(s) = f[1]
               /\ \A i \in 1 .. Len(s) + 2 : f[i] \in Seq(Chars) /\ f[i] = DecodeAt(s, f, i)
  BY DecodedFrom
<1> DEFINE Starts(i) == i > Len(s) \/ ~Escaped(s, i)
           S == {n \in Nat : \A i \in 1 .. Len(s) + 2 :
                               i > Len(s) + 2 - n /\ Starts(i) => Rest(s, f[i], i)}
<1>2. 0 \in S
  BY <1>0
<1>3. ASSUME NEW n \in Nat, n \in S PROVE n + 1 \in S
  <2> SUFFICES ASSUME NEW i \in 1 .. Len(s) + 2, i > Len(s) + 2 - (n + 1), Starts(i)
               PROVE  Rest(s, f[i], i)
    OBVIOUS
  <2>0. \A k \in 1 .. Len(s) + 2 : k > i /\ Starts(k) => Rest(s, f[k], k)
    <3>1. \A k \in 1 .. Len(s) + 2 : k > i => k > Len(s) + 2 - n
      BY <1>0
    <3> QED BY <1>3, <3>1
  <2>1. CASE i > Len(s)
    <3>1. f[i] = <<>>
      BY <1>1, <2>1 DEF DecodeAt
    <3>2. i - 1 \in Nat /\ i - 1 >= Len(s) /\ Len(s) >= Len(s)
      BY <1>0, <2>1
    <3>3. Rank(s, i - 1) = Cardinality(Standing(s)) /\ Rank(s, Len(s)) = Cardinality(Standing(s))
          /\ Rank(s, Len(s)) \in Nat
      BY <1>0, <3>2, Ranks
    <3>4. \A j \in Standing(s) : ~(j >= i)
      BY <1>0, <2>1 DEF Standing
    <3>5. Len(<<>>) = 0 /\ \A k \in 1 .. 0 : FALSE
      OBVIOUS
    <3> QED BY <3>1, <3>3, <3>4, <3>5 DEF Rest
  <2>2. CASE i <= Len(s) /\ s[i] = "\\"
    <3>1. i \in 1 .. Len(s) /\ ~Escaped(s, i) /\ DOMAIN s = 1 .. Len(s)
      BY <1>0, <2>2
    <3>2. i # Len(s)
      <4>1. s # <<>>
        BY <1>0, <3>1
      <4> QED BY <2>2, <3>1, <4>1 DEF Closed
    <3>3. i + 1 \in 1 .. Len(s) /\ i + 1 \in i .. Len(s) /\ i < Len(s) /\ i - 1 \in Nat
          /\ (i - 1) + 1 = i /\ (i + 1) + 1 = i + 2 /\ (i + 1) - 1 = i
      <4>1. PICK l \in Nat : l = Len(s)
        BY <1>0
      <4>2. i \in 1 .. l /\ i # l
        BY <3>1, <3>2, <4>1
      <4>3. /\ i + 1 \in 1 .. l /\ i + 1 \in i .. l /\ i < l /\ i - 1 \in Nat
            /\ (i - 1) + 1 = i /\ (i + 1) + 1 = i + 2 /\ (i + 1) - 1 = i
        BY ONLY <4>1, <4>2
      <4> QED BY <4>1, <4>3
    <3>4. Escaped(s, i + 1)
      BY <2>2, <3>1, EscapedNext
    <3>5. i \notin Standing(s) /\ i + 1 \in Standing(s)
      BY <2>2, <3>1, <3>3, <3>4 DEF Standing
    <3>6. Rank(s, i) = Rank(s, i - 1) /\ Rank(s, i + 1) = Rank(s, i) + 1
      BY <3>3, <3>5, Ranks
    <3>7. Starts(i + 2)
      <4>1. CASE s[i + 1] = "\\"
        <5>1. ~Escaped(s, (i + 1) + 1)
          BY <3>3, <3>4, <4>1, EscapedNext
        <5> QED BY <3>3, <5>1
      <4>2. CASE s[i + 1] # "\\"
        <5>1. i + 2 \in 1 .. Len(s) + 1 /\ (i + 2) - 1 = i + 1
          BY <1>0, <3>3
        <5>2. ~Escaped(s, i + 2)
          BY <4>2, <5>1, EscapedAfter
        <5> QED BY <5>2
      <4> QED BY <4>1, <4>2
    <3>8. i + 2 \in 1 .. Len(s) + 2 /\ i + 2 > i
      BY <1>0, <3>1
    <3>9. Rest(s, f[i + 2], (i + 1) + 1) /\ f[i + 2] \in Seq(Chars)
      BY <1>1, <2>0, <3>3, <3>7, <3>8
    <3>10. f[i] = <<Unescaped(s[i + 1])>> \o f[i + 2]
      <4>1. f[i] = DecodeAt(s, f, i) /\ ~(i > Len(s))
        BY <1>0, <1>1, <2>2
      <4> QED BY <2>2, <3>3, <4>1 DEF DecodeAt
    <3>11. Unescaped(s[i + 1]) \in Chars /\ Unescaped(s[i + 1]) = Meant(s, i + 1)
      BY <1>0, <3>3, <3>4, UnescapedType DEF Meant
    <3>12. \A k \in i .. (i + 1) - 1 : k \notin Standing(s)
      BY <3>3, <3>5
    <3> QED BY <3>1, <3>3, <3>5, <3>6, <3>9, <3>10, <3>11, <3>12, RestInFront
  <2>3. CASE i <= Len(s) /\ s[i] # "\\"
    <3>1. i \in 1 .. Len(s) /\ ~Escaped(s, i) /\ DOMAIN s = 1 .. Len(s)
      BY <1>0, <2>3
    <3>2. i \in i .. Len(s) /\ i - 1 \in Nat /\ (i - 1) + 1 = i /\ \A k \in i .. i - 1 : FALSE
      BY <1>0, <3>1
    <3>3. i \in Standing(s) /\ Rank(s, i) = Rank(s, i - 1) + 1
      <4>1. i \in Standing(s)
        BY <2>3, <3>1 DEF Standing
      <4> QED BY <3>2, <4>1, Ranks
    <3>4. i + 1 \in 1 .. Len(s) + 1 /\ (i + 1) - 1 = i /\ i + 1 \in 1 .. Len(s) + 2 /\ i + 1 > i
      BY <1>0, <3>1
    <3>5. Starts(i + 1)
      BY <2>3, <3>4, EscapedAfter
    <3>6. Rest(s, f[i + 1], i + 1) /\ f[i + 1] \in Seq(Chars)
      BY <1>1, <2>0, <3>4, <3>5
    <3>7. f[i] = <<s[i]>> \o f[i + 1]
      <4>1. f[i] = DecodeAt(s, f, i) /\ ~(i > Len(s))
        BY <1>0, <1>1, <2>3
      <4> QED BY <2>3, <4>1 DEF DecodeAt
    <3>8. s[i] \in Chars /\ s[i] = Meant(s, i)
      BY <1>0, <3>1 DEF Meant, Chars
    <3> QED BY <3>1, <3>2, <3>3, <3>6, <3>7, <3>8, RestInFront
  <2> QED BY <1>0, <2>1, <2>2, <2>3
<1>4. \A n \in Nat : n \in S
  <2> HIDE DEF S
  <2> QED BY <1>2, <1>3, SetInduction
<1>5. Starts(1)
  <2>1. \A b \in 1 .. 1 - 1 : FALSE
    OBVIOUS
  <2> QED BY <2>1 DEF Escaped
<1>6. Rest(s, f[1], 1)
  <2>1. Len(s) + 2 \in S /\ 1 \in 1 .. Len(s) + 2 /\ 1 > Len(s) + 2 - (Len(s) + 2)
    <3> HIDE DEF S
    <3> QED BY <1>0, <1>4
  <2> QED BY <1>5, <2>1
<1>7. PICK d \in Seq(Chars) : d = f[1]
  BY <1>0, <1>1
<1>8. PICK n \in Nat : n = Cardinality(Standing(s)) /\ Rank(s, Len(s)) = n /\ Rank(s, 1 - 1) = 0
  <2>1. Rank(s, Len(s)) = Cardinality(Standing(s)) /\ Rank(s, Len(s)) \in Nat /\ Rank(s, 0) = 0
    BY <1>0, Ranks
  <2> QED BY <2>1
<1>9. Len(d) = n
  BY <1>6, <1>7, <1>8 DEF Rest
<1>10. ASSUME NEW k \in 1 .. n
       PROVE  d[k] = Meant(s, CHOOSE i \in Standing(s) : Cardinality(Standing(s) \cap 1 .. i) = k)
  <2>1. PICK j \in Standing(s) : j >= 1 /\ Rank(s, j) - Rank(s, 1 - 1) = k
    BY <1>6, <1>7, <1>9 DEF Rest
  <2>2. j \in 1 .. Len(s) /\ \A i \in Standing(s) : i \in 1 .. Len(s) /\ Rank(s, i) \in Nat
    <3>1. \A i \in Standing(s) : i \in 1 .. Len(s)
      BY DEF Standing
    <3> QED BY <3>1, Ranks, SMTT(60)
  <2>3. Rank(s, j) = k
    BY <1>8, <2>1, <2>2
  <2>4. PICK i \in Standing(s) :
          /\ i = CHOOSE m \in Standing(s) : Cardinality(Standing(s) \cap 1 .. m) = k
          /\ Cardinality(Standing(s) \cap 1 .. i) = k
    BY <2>3 DEF Rank
  <2>5. i >= 1 /\ Rank(s, i) - Rank(s, 1 - 1) = k
    <3>1. Rank(s, i) = k
      BY <2>4 DEF Rank
    <3>2. i >= 1 /\ k - 0 = k
      BY <2>2
    <3> QED BY <1>8, <3>1, <3>2
  <2>6. d[k] = Meant(s, i)
    BY <1>6, <1>7, <2>4, <2>5 DEF Rest
  <2> QED BY <2>4, <2>6
<1>11. d = Meaning(s)
  <2>1. d = [k \in 1 .. n |-> d[k]]
    BY <1>7, <1>9
  <2> QED BY <1>8, <1>10, <2>1 DEF Meaning
<1>12. n <= Len(s)
  <2>1. Standing(s) \in SUBSET (1 .. Len(s))
    BY DEF Standing
  <2>2. IsFiniteSet(1 .. Len(s)) /\ Cardinality(1 .. Len(s)) = Len(s)
    <3>1. PICK l \in Nat : l = Len(s)
      BY <1>0
    <3>2. IsFiniteSet(1 .. l) /\ Cardinality(1 .. l) = IF 1 > l THEN 0 ELSE l - 1 + 1
      BY FS_Interval
    <3>3. (IF 1 > l THEN 0 ELSE l - 1 + 1) = l
      OBVIOUS
    <3> QED BY <3>1, <3>2, <3>3
  <2> QED BY <1>8, <2>1, <2>2, FS_Subset
<1> QED BY <1>1, <1>7, <1>9, <1>11, <1>12
-----------------------------------------------------------------------------
(* Strings end with a quote that is not escaped.                             *)

\* The character that begins and ends a string.
Quote == "\""

\* It is neither the terminator nor a backslash.
LEMMA QuoteIs == Quote # NUL /\ Quote # "\\"
BY Zenon DEF Quote, NUL

\* The steps of the loop for strings, with the character named.
LEMMA StringIs ==
  /\ String => /\ mode = "string" /\ Peek(0) # NUL
               /\ Goto(IF Peek(0) = "\\" /\ Peek(1) # NUL THEN Advance(Advance(cur))
                                                           ELSE Advance(cur), mode)
  /\ EndString => mode = "string" /\ Peek(0) = Quote /\ Emit("string", Advance(cur))
BY Zenon DEF String, EndString, Quote

\* The character at the cursor.
LEMMA PeekIs == LInv => Peek(0) = CharAt(cur.p) /\ Peek(1) = CharAt(cur.p + 1)
<1> SUFFICES ASSUME LInv PROVE Peek(0) = CharAt(cur.p) /\ Peek(1) = CharAt(cur.p + 1)
  OBVIOUS
<1>1. cur.p \in Nat
  BY Ahead
<1>2. cur.p + 0 = cur.p
  BY <1>1
<1> QED BY <1>2 DEF Peek

\* A loop for strings is entered at a quote.
LEMMA LoopIs ==
  ASSUME NEW c, Loop(c) = "string"
  PROVE  c = Quote
<1>1. Loop(c) = CASE c = NUL -> "end"
                  [] c \in Letters \cup {"_"} -> "word"
                  [] c \in Decimal -> "number"
                  [] c \in Symbols -> "symbol"
                  [] c = Quote -> "string"
                  [] c = "'" -> "char"
                  [] OTHER -> "bad"
  BY Zenon DEF Loop, Quote
<1>2. CASE c = NUL
  <2>1. NUL \notin Letters \cup {"_"} /\ NUL \notin Decimal /\ NUL # "'"
    BY DEF NUL, Letters, HexLetters, Decimal
  <2>2. NUL \notin Symbols
    BY DEF NUL, Symbols, Seconds, Pairs
  <2> QED BY <1>1, <1>2, <2>1, <2>2, QuoteIs
<1>3. CASE c # NUL
  BY <1>1, <1>3
<1> QED BY <1>2, <1>3

\* Inside a string the cursor is never right behind a backslash that escapes,
\* but for one that the text ends with.
InString(c, m, f) ==
  m = "string" => CharAt(f.p) = Quote /\ (CharAt(c.p) # NUL => ~Escaped(src, c.p))

Quoted(ts) ==
  \A i \in 1 .. Len(ts) : ts[i].kind = "string" =>
    /\ CharAt(ts[i].from) = Quote /\ ts[i].to >= ts[i].from + 2
    /\ ~Escaped(src, ts[i].to - 1)

QInv == InString(cur, mode, first) /\ Quoted(toks)

\* The text does not change.
LEMMA NextQInv ==
  ASSUME UNCHANGED src, InString(cur', mode', first'), Quoted(toks')
  PROVE  QInv'
<1>1. src' = src
  OBVIOUS
<1>2. \A p : CharAt(p)' = CharAt(p)
  BY <1>1 DEF CharAt
<1>3. InString(cur, mode, first)'
  BY <1>1, <1>2 DEF InString
<1>4. Quoted(toks)'
  BY <1>1, <1>2 DEF Quoted
<1> QED BY <1>3, <1>4 DEF QInv

\* A step that makes no token.
LEMMA QuietStep ==
  ASSUME QInv, UNCHANGED <<src, toks>>, InString(cur', mode', first')
  PROVE  QInv'
BY NextQInv DEF QInv

\* A step that makes a token and ends the string, if it was in one.
LEMMA TokenStep ==
  ASSUME LInv, QInv, mode \in TokenModes, NEW c, CursorOK(c), c.p >= cur.p, NEW kind \in Kinds,
         Emit(kind, c),
         kind = "string" => /\ CharAt(first.p) = Quote /\ c.p >= first.p + 2
                            /\ ~Escaped(src, c.p - 1)
  PROVE  QInv'
<1>1. /\ src' = src /\ toks' = Append(toks, Made(kind, first, c)) /\ mode' \in {"over", "trivia"}
  BY DEF Emit, Made
<1>2. PICK t : t = Made(kind, first, c) /\ t.kind = kind /\ t.from = first.p /\ t.to = c.p
  <2>1. /\ Made(kind, first, c).kind = kind
        /\ Made(kind, first, c).from = first.p /\ Made(kind, first, c).to = c.p
    BY DEF Made
  <2> QED BY <2>1
<1>3. toks \in Seq(Token) /\ Len(toks) \in Nat
  BY DEF LInv, LexState
<1>4. t \in Token
  <2>1. LexState(cur, mode, first, toks)
    BY DEF LInv
  <2> QED BY <1>2, <2>1 DEF LexState, CursorOK, Cursor, Token, Made, Kinds
<1>5. /\ Len(toks') = Len(toks) + 1 /\ toks'[Len(toks) + 1] = t
      /\ \A i \in 1 .. Len(toks) : toks'[i] = toks[i]
  BY <1>1, <1>2, <1>3, <1>4, AppendProperties
<1>6. \A i \in 1 .. Len(toks') : i \in 1 .. Len(toks) \/ i = Len(toks) + 1
  BY <1>3, <1>5
<1>7. Quoted(toks')
  BY <1>2, <1>5, <1>6 DEF QInv, Quoted
<1>8. InString(cur', mode', first')
  BY <1>1 DEF InString
<1> QED BY <1>1, <1>7, <1>8, NextQInv

\* A string goes on: two characters at a time where the first is a backslash.
LEMMA StringStep == LInv /\ QInv /\ String => QInv'
<1> SUFFICES ASSUME LInv, QInv, String PROVE QInv'
  OBVIOUS
<1>1. /\ src \in Sources /\ CursorOK(cur) /\ cur.p \in 1 .. Len(src) + 1
      /\ src \in Seq(STRING) /\ Len(src) \in Nat /\ DOMAIN src = 1 .. Len(src)
  BY TextFacts DEF LInv, LexState, CursorOK, Cursor
<1>2. PICK p : p = cur.p /\ p \in 1 .. Len(src) + 1
  BY <1>1
<1>3. /\ mode = "string" /\ CharAt(p) # NUL /\ UNCHANGED <<src, first, toks>> /\ mode' = "string"
      /\ CharAt(p + 1) = Peek(1)
      /\ cur' = IF CharAt(p) = "\\" /\ CharAt(p + 1) # NUL THEN Advance(Advance(cur)) ELSE Advance(cur)
  BY <1>2, StringIs, PeekIs DEF Goto
<1>4. p \in 1 .. Len(src) /\ CharAt(p) = src[p]
  BY <1>1, <1>2, <1>3 DEF CharAt
<1>5. CharAt(first.p) = Quote /\ ~Escaped(src, p)
  BY <1>2, <1>3 DEF QInv, InString
<1>6. Advance(cur).p = p + 1 /\ CursorOK(Advance(cur))
  BY <1>1, <1>2, <1>3, AdvanceOK
<1>7. CASE CharAt(p) = "\\" /\ CharAt(p + 1) # NUL
  <2>1. Advance(Advance(cur)).p = p + 2
    <3>1. Advance(Advance(cur)).p = (p + 1) + 1
      BY <1>1, <1>6, <1>7, AdvanceOK
    <3> QED BY <1>4, <3>1
  <2>2. cur' = Advance(Advance(cur)) /\ cur'.p = p + 2
    BY <1>3, <1>7, <2>1
  <2>3. Escaped(src, p + 1)
    BY <1>1, <1>4, <1>5, <1>7, EscapedNext
  <2>4. p + 1 \in 1 .. Len(src) /\ CharAt(p + 1) = src[p + 1]
    BY <1>1, <1>4, <1>7 DEF CharAt
  <2>5. ~Escaped(src, p + 2)
    <3>1. (p + 1) + 1 = p + 2 /\ p + 2 \in 1 .. Len(src) + 1 /\ (p + 2) - 1 = p + 1
      BY <1>1, <1>4, <2>4
    <3>2. CASE src[p + 1] = "\\"
      <4>1. ~Escaped(src, (p + 1) + 1)
        BY <1>1, <2>3, <2>4, <3>2, EscapedNext
      <4> QED BY <3>1, <4>1
    <3>3. CASE src[p + 1] # "\\"
      BY <1>1, <3>1, <3>3, EscapedAfter
    <3> QED BY <3>2, <3>3
  <2>6. InString(cur', mode', first')
    BY <1>3, <1>5, <2>2, <2>5 DEF InString
  <2> QED BY <1>3, <2>6, QuietStep
<1>8. CASE ~(CharAt(p) = "\\" /\ CharAt(p + 1) # NUL)
  <2>1. cur' = Advance(cur) /\ cur'.p = p + 1
    BY <1>3, <1>6, <1>8
  <2>2. CharAt(p + 1) # NUL => ~Escaped(src, p + 1)
    <3>1. p + 1 \in 1 .. Len(src) + 1 /\ (p + 1) - 1 = p
      BY <1>1, <1>4
    <3>2. src[p] # "\\" => ~Escaped(src, p + 1)
      BY <1>1, <3>1, EscapedAfter
    <3> QED BY <1>4, <1>8, <3>2
  <2>3. InString(cur', mode', first')
    BY <1>3, <1>5, <2>1, <2>2 DEF InString
  <2> QED BY <1>3, <2>3, QuietStep
<1> QED BY <1>7, <1>8

\* A string begins with a quote.
LEMMA BeginQuote == LInv /\ QInv /\ Begin => QInv'
<1> SUFFICES ASSUME LInv, QInv, Begin PROVE QInv'
  OBVIOUS
<1>1. /\ mode = "trivia" /\ first' = cur /\ cur' = Advance(cur) /\ mode' = Loop(CharAt(cur.p))
      /\ UNCHANGED <<src, toks, cap>>
  BY BetweenFacts DEF Begin, AtToken, Peek, AroundModes
<1>2. /\ src \in Sources /\ CursorOK(cur) /\ cur.p \in 1 .. Len(src) + 1
      /\ src \in Seq(STRING) /\ Len(src) \in Nat /\ DOMAIN src = 1 .. Len(src)
  BY TextFacts DEF LInv, LexState, CursorOK, Cursor
<1>3. ASSUME mode' = "string" PROVE CharAt(cur.p) = Quote /\ ~Escaped(src, Advance(cur).p)
  <2>1. PICK c : c = CharAt(cur.p) /\ Loop(c) = "string"
    BY <1>1, <1>3
  <2>2. c = Quote
    BY <2>1, LoopIs
  <2>3. cur.p \in 1 .. Len(src) /\ src[cur.p] = Quote /\ CharAt(cur.p) # NUL
    BY <1>2, <2>1, <2>2, QuoteIs DEF CharAt
  <2>4. Advance(cur).p = cur.p + 1
    BY <1>2, <2>3, AdvanceOK
  <2>5. PICK p : p = cur.p + 1 /\ p \in 1 .. Len(src) + 1 /\ p - 1 = cur.p
    BY <1>2, <2>3
  <2>6. ~Escaped(src, p)
    BY <1>2, <2>3, <2>5, EscapedAfter, QuoteIs
  <2> QED BY <2>1, <2>2, <2>4, <2>5, <2>6
<1>4. InString(cur', mode', first')
  BY <1>1, <1>3 DEF InString
<1> QED BY <1>1, <1>4, QuietStep

\* Every step of the lexer keeps it.
LEMMA QuoteStep == LInv /\ QInv /\ LexNext => QInv'
<1> SUFFICES ASSUME LInv, QInv, LexNext PROVE QInv'
  OBVIOUS
<1>1. CASE \/ Blank \/ OpenLine \/ LineComment \/ EndLine \/ OpenBlock \/ BlockComment \/ EndBlock
           \/ Word \/ Number \/ Digit \/ Point
  <2>1. UNCHANGED <<src, toks>> /\ mode' # "string"
    BY <1>1 DEF Blank, OpenLine, LineComment, EndLine, OpenBlock, BlockComment, EndBlock, Word,
                Number, Digit, Point, HasFraction, Stay, Goto, Base, Digits
  <2> QED BY <2>1, QuietStep DEF InString
<1>2. CASE Begin
  BY <1>2, BeginQuote
<1>3. CASE String
  BY <1>3, StringStep
<1>4. CASE EndString
  <2>1. mode = "string" /\ CharAt(cur.p) = Quote /\ Emit("string", Advance(cur)) /\ src \in Sources
    BY <1>4, StringIs, PeekIs DEF LInv
  <2>2. CharAt(first.p) = Quote /\ ~Escaped(src, cur.p)
    BY <2>1, QuoteIs DEF QInv, InString
  <2>3. first.p \in Nat /\ first.p < cur.p /\ cur.p \in Nat
    <3>1. CursorOK(cur) /\ CursorOK(first) /\ Here(cur, mode, first, toks)
      BY DEF LInv, LexState
    <3>2. first.p \in Nat /\ cur.p \in Nat
      BY <3>1 DEF CursorOK, Cursor
    <3>3. mode \in TokenModes /\ mode # "end"
      BY <2>1 DEF TokenModes
    <3> QED BY <3>1, <3>2, <3>3 DEF Here
  <2>4. Advance(cur).p = cur.p + 1 /\ CursorOK(Advance(cur)) /\ Advance(cur).p >= cur.p
    BY <2>1, Ahead, AdvanceOK, QuoteIs
  <2>5. Advance(cur).p >= first.p + 2 /\ Advance(cur).p - 1 = cur.p
    BY <2>3, <2>4
  <2> QED BY <2>1, <2>2, <2>4, <2>5, TokenStep DEF TokenModes, Kinds
<1>5. CASE EndOfFile \/ Unexpected \/ Symbol \/ EndWord \/ EndNumber \/ OpenString \/ BadChar \/ Char
  <2>1. PICK kind \in Kinds \ {"string"},
             c \in {cur, Advance(cur), Advance(Advance(cur)), Advance(Advance(Advance(cur)))} :
          mode \in TokenModes /\ Emit(kind, c)
    BY <1>5 DEF EndOfFile, Unexpected, Symbol, EndWord, EndNumber, OpenString, BadChar, Char,
                Kinds, TokenModes
  <2>2. CursorOK(c) /\ c.p >= cur.p
    BY Ahead, <2>1
  <2> QED BY <2>1, <2>2, TokenStep
<1> QED BY <1>1, <1>2, <1>3, <1>4, <1>5 DEF LexNext

\* A part of a sequence.
LEMMA Part ==
  ASSUME NEW S, NEW s \in Seq(S), NEW a \in Nat, NEW z \in Nat, a + 2 <= z, z <= Len(s) + 1
  PROVE  /\ SubSeq(s, a + 1, z - 2) \in Seq(S) /\ Len(SubSeq(s, a + 1, z - 2)) = z - 2 - a
         /\ \A k \in 1 .. z - 2 - a : SubSeq(s, a + 1, z - 2)[k] = s[a + k]
<1>1. PICK b \in Int, y \in Int : b = a + 1 /\ y = z - 2
  OBVIOUS
<1>2. PICK l \in Nat : l = Len(s)
  OBVIOUS
<1>3. \A k \in b .. y : k \in 1 .. l
  BY ONLY <1>1, <1>2, z <= Len(s) + 1, a \in Nat, z \in Nat, l \in Nat
<1>4. \A k \in b .. y : s[k] \in S
  BY <1>2, <1>3
<1>5. /\ SubSeq(s, b, y) \in Seq(S)
      /\ Len(SubSeq(s, b, y)) = IF b <= y THEN y - b + 1 ELSE 0
      /\ \A k \in 1 .. y - b + 1 : SubSeq(s, b, y)[k] = s[b + k - 1]
  BY <1>4, SubSeqProperties
<1>6. /\ (IF b <= y THEN y - b + 1 ELSE 0) = z - 2 - a /\ y - b + 1 = z - 2 - a
      /\ \A k \in 1 .. z - 2 - a : b + k - 1 = a + k
  BY <1>1
<1>7. \A k \in 1 .. z - 2 - a : SubSeq(s, b, y)[k] = s[a + k]
  BY <1>5, <1>6
<1> QED BY <1>1, <1>5, <1>6, <1>7

\* What stands between a character that is no backslash and one that is not
\* escaped ends with no open escape.
LEMMA Enclosed ==
  ASSUME NEW t \in Seq(STRING), NEW a \in Nat, NEW z \in Nat,
         1 <= a, a + 2 <= z, z <= Len(t) + 1, t[a] # "\\", ~Escaped(t, z - 1)
  PROVE  Closed(SubSeq(t, a + 1, z - 2))
<1>1. PICK l \in Nat : l = Len(t)
  OBVIOUS
<1>2. PICK n \in Nat : n = z - 2 - a
  OBVIOUS
<1>3. PICK s \in Seq(STRING) : s = SubSeq(t, a + 1, z - 2) /\ Len(s) = n
                               /\ \A k \in 1 .. n : s[k] = t[a + k]
  <2>1. /\ SubSeq(t, a + 1, z - 2) \in Seq(STRING) /\ Len(SubSeq(t, a + 1, z - 2)) = z - 2 - a
        /\ \A k \in 1 .. z - 2 - a : SubSeq(t, a + 1, z - 2)[k] = t[a + k]
    BY Part
  <2> QED BY <1>2, <2>1
<1>4. Closed(s)
  <2> SUFFICES ASSUME s # <<>>, s[n] = "\\" PROVE Escaped(s, n)
    BY <1>3 DEF Closed
  <2>1. n >= 1
    BY <1>3, EmptySeq
  <2>2. PICK y \in Nat : y = a + n /\ y \in 1 .. l /\ y + 1 = z - 1 /\ a \in 1 .. y - 1
    BY <1>1, <1>2, <2>1
  <2>3. t[y] = "\\" /\ ~Escaped(t, y + 1)
    <3>1. n \in 1 .. n /\ s[n] = "\\"
      BY <2>1
    <3>2. s[n] = t[y]
      BY <1>3, <2>2, <3>1
    <3> QED BY <2>2, <3>1, <3>2
  <2>4. Escaped(t, y)
    BY <1>1, <2>2, <2>3, EscapedNext
  <2>5. PICK b \in 1 .. y - 1 : /\ (y - b) % 2 = 1 /\ All(t, b, y - 1, {"\\"})
                                /\ b = 1 \/ t[b - 1] # "\\"
    BY <2>4 DEF Escaped
  <2>6. b > a
    <3>1. b <= a => a \in b .. y - 1
      BY <2>2
    <3>2. ~(b <= a)
      BY <2>5, <3>1 DEF All
    <3> QED BY <2>2, <3>2
  <2>7. PICK d \in 1 .. n - 1 : d = b - a /\ b = a + d /\ y - b = n - d
    BY <2>2, <2>6
  <2>8. All(s, d, n - 1, {"\\"})
    <3>1. \A k \in d .. n - 1 : k \in 1 .. n /\ a + k \in b .. y - 1
      BY <2>2, <2>7
    <3> QED BY <1>3, <2>5, <3>1 DEF All
  <2>9. d = 1 \/ s[d - 1] # "\\"
    <3>1. d # 1 => d - 1 \in 1 .. n /\ a + (d - 1) = b - 1 /\ b # 1
      BY <2>2, <2>7
    <3> QED BY <1>3, <2>5, <3>1
  <2> QED BY <2>5, <2>7, <2>8, <2>9 DEF Escaped
<1> QED BY <1>3, <1>4

\* Between the quotes of a string stands something the decoder can take.
LEMMA InnerClosed ==
  ASSUME LInv, QInv, NEW i \in 1 .. Len(toks), toks[i].kind = "string"
  PROVE  /\ Inner(toks[i]) \in Seq(STRING) /\ Closed(Inner(toks[i]))
<1>1. /\ src \in Seq(STRING) /\ Len(src) \in Nat /\ DOMAIN src = 1 .. Len(src)
  BY TextFacts DEF LInv
<1>2. PICK l \in Nat : l = Len(src)
  BY <1>1
<1>3. toks[i].from \in 1 .. l + 1 /\ toks[i].to \in toks[i].from .. l + 1
  BY <1>2 DEF LInv, LexState, Bounded
<1>4. toks[i].to >= toks[i].from + 2
  BY DEF QInv, Quoted
<1>5. PICK a \in 1 .. l + 1 : a = toks[i].from
  BY <1>3
<1>6. PICK z \in a .. l + 1 : z = toks[i].to
  BY <1>3, <1>5
<1>7. a \in Nat /\ z \in Nat /\ 1 <= a /\ a + 2 <= z /\ z <= l + 1
  BY <1>4, <1>5, <1>6
<1>8. CharAt(a) = Quote /\ ~Escaped(src, z - 1)
  BY <1>5, <1>6 DEF QInv, Quoted
<1>9. src[a] # "\\"
  <2>1. a \in 1 .. l
    BY ONLY <1>7, l \in Nat
  <2> QED BY <1>1, <1>2, <1>8, <2>1, QuoteIs DEF CharAt
<1>10. Inner(toks[i]) = SubSeq(src, a + 1, z - 2)
  BY <1>5, <1>6 DEF Inner
<1> QED BY <1>1, <1>2, <1>7, <1>8, <1>9, <1>10, Part, Enclosed
-----------------------------------------------------------------------------
(* What the tree points to stays where it is.                                *)

Spot == [block : Nat, at : Nat]

\* The content w lies at a place, below what is given out next.
Stays(p, w, bs, m) ==
  /\ p.block \in 1 .. Len(bs) /\ p.at + Len(w) <= bs[p.block].used
  /\ \A i \in 1 .. Len(w) : /\ <<p.block, p.at + i - 1>> \in DOMAIN m
                            /\ m[<<p.block, p.at + i - 1>>] = w[i]

\* An allocation that is filled with s disturbs nothing that lies there.
LEMMA Stores ==
  ASSUME ArenaTypeOK, NEW n \in Nat, NEW q \in 0 .. n, NEW s, DOMAIN s = 1 .. q, Len(s) = q,
         blocks' = Allocated(n), mem' = Written(Place(n), s)
  PROVE  /\ ArenaTypeOK' /\ Place(n) \in Spot /\ Stays(Place(n), s, blocks', mem')
         /\ \A p \in Spot : \A w : Len(w) \in Nat /\ Stays(p, w, blocks, mem)
                                     => Stays(p, w, blocks', mem')
<1>1. PICK b \in Nat : b = Place(n).block
  BY Allocation
<1>2. PICK o \in Nat : o = Place(n).at
  BY Allocation
<1>3. /\ Place(n) = [block |-> b, at |-> o]
      /\ blocks' \in Seq(Block) /\ Len(blocks') \in Nat /\ Len(blocks') >= Len(blocks)
      /\ b \in 1 .. Len(blocks')
      /\ \A i \in 1 .. Len(blocks') : blocks'[i].used <= blocks'[i].cap
                                      /\ blocks'[i].used % Align = 0
      /\ o + n <= blocks'[b].used
      /\ b \in 1 .. Len(blocks) => blocks[b].used <= o
      /\ \A i \in 1 .. Len(blocks) : blocks'[i].used >= blocks[i].used
  BY <1>1, <1>2, Allocation
<1>4. /\ \A i \in 1 .. q : /\ <<b, o + i - 1>> \in DOMAIN mem' /\ mem'[<<b, o + i - 1>>] = s[i]
      /\ \A c \in DOMAIN mem : c \in DOMAIN mem'
      /\ \A c \in DOMAIN mem : (\A i \in 1 .. q : c # <<b, o + i - 1>>) => mem'[c] = mem[c]
  <2>1. mem' = Written([block |-> b, at |-> o], s) /\ DOMAIN s \subseteq Nat
    BY <1>3
  <2>2. PICK m : m = mem' /\ m = Written([block |-> b, at |-> o], s)
    BY <2>1
  <2>3. /\ \A i \in DOMAIN s : <<b, o + i - 1>> \in DOMAIN m /\ m[<<b, o + i - 1>>] = s[i]
        /\ \A c \in DOMAIN mem : c \in DOMAIN m
        /\ \A c \in DOMAIN mem : (\A i \in DOMAIN s : c # <<b, o + i - 1>>) => m[c] = mem[c]
    <3>1. DOMAIN s \subseteq Nat
      OBVIOUS
    <3>2. \A i \in DOMAIN s : <<b, o + i - 1>> \in DOMAIN m /\ m[<<b, o + i - 1>>] = s[i]
      BY ONLY <3>1, <2>2, WriteFacts, b \in Nat, o \in Nat
    <3>3. \A c \in DOMAIN mem : c \in DOMAIN m
      BY ONLY <3>1, <2>2, WriteFacts, b \in Nat, o \in Nat
    <3>4. \A c \in DOMAIN mem : (\A i \in DOMAIN s : c # <<b, o + i - 1>>) => m[c] = mem[c]
      BY ONLY <3>1, <2>2, WriteFacts, b \in Nat, o \in Nat
    <3> QED BY <3>2, <3>3, <3>4
  <2> QED BY <2>2, <2>3
<1>5. ArenaTypeOK'
  <2>1. DOMAIN blocks' = 1 .. Len(blocks')
    BY <1>3
  <2> QED BY <1>3, <2>1 DEF ArenaTypeOK
<1>6. blocks \in Seq(Block) /\ Len(blocks) \in Nat /\ \A i \in 1 .. Len(blocks) : blocks[i].used \in Nat
  <2>1. blocks \in Seq(Block) /\ Len(blocks) \in Nat
    BY DEF ArenaTypeOK
  <2>2. \A i \in 1 .. Len(blocks) : blocks[i] \in Block
    BY <2>1
  <2> QED BY <2>1, <2>2 DEF Block
<1>7. \A i \in 1 .. Len(blocks') : blocks'[i].used \in Nat
  <2>1. \A i \in 1 .. Len(blocks') : blocks'[i] \in Block
    BY <1>3
  <2> QED BY <2>1 DEF Block
<1>8. Stays([block |-> b, at |-> o], s, blocks', mem')
  <2>1. o + q <= blocks'[b].used
    <3>1. PICK u \in Nat : u = blocks'[b].used
      BY <1>3, <1>7
    <3> QED BY <1>3, <3>1
  <2> QED BY <1>3, <1>4, <2>1 DEF Stays
<1>9. ASSUME NEW p \in Spot, NEW w, Len(w) \in Nat, Stays(p, w, blocks, mem)
      PROVE  Stays(p, w, blocks', mem')
  <2>1. PICK k \in 1 .. Len(blocks) : k = p.block
    BY <1>9 DEF Stays
  <2>2. PICK a \in Nat : a = p.at
    BY DEF Spot
  <2>3. PICK l \in Nat : l = Len(w)
    BY <1>9
  <2>4. PICK u \in Nat : u = blocks[k].used
    BY <1>6
  <2>5. PICK v \in Nat : v = blocks'[k].used /\ v >= u
    BY <1>3, <1>6, <1>7, <2>4, SMTT(60)
  <2>6. a + l <= u /\ k \in 1 .. Len(blocks')
    BY <1>3, <1>6, <1>9, <2>1, <2>2, <2>3, <2>4 DEF Stays
  <2>7. a + l <= v
    BY <2>5, <2>6
  <2>8. ASSUME NEW i \in 1 .. l
        PROVE  <<k, a + i - 1>> \in DOMAIN mem' /\ mem'[<<k, a + i - 1>>] = w[i]
    <3>1. <<k, a + i - 1>> \in DOMAIN mem /\ mem[<<k, a + i - 1>>] = w[i]
      BY <1>9, <2>1, <2>2, <2>3 DEF Stays
    <3>2. ASSUME NEW j \in 1 .. q, <<k, a + i - 1>> = <<b, o + j - 1>> PROVE FALSE
      <4>1. k = b /\ a + i - 1 = o + j - 1
        BY <3>2
      <4>2. u <= o
        BY <1>3, <2>1, <2>4, <4>1
      <4> QED BY <2>6, <4>1, <4>2
    <3> QED BY <1>4, <3>1, <3>2
  <2> QED BY <2>1, <2>2, <2>3, <2>5, <2>6, <2>7, <2>8 DEF Stays
<1> QED BY <1>3, <1>5, <1>8, <1>9 DEF Spot

\* The lexer stops when it has made the last token.
LEMMA LexGoesOn ==
  ASSUME LInv, LexNext
  PROVE  mode # "over" /\ toks' \in Seq(Token) /\ Len(toks') \in Nat /\ Len(toks) \in Nat
         /\ Len(toks') >= Len(toks)
<1>1. mode # "over"
  BY DEF LexNext, Blank, OpenLine, LineComment, EndLine, OpenBlock, BlockComment, EndBlock,
         Begin, AtToken, EndOfFile, Unexpected, Symbol, Word, EndWord, Number, Digit, Point,
         HasFraction, EndNumber, String, EndString, OpenString, BadChar, Char, Digits
<1>2. toks' \in Seq(Token) /\ toks \in Seq(Token) /\ Len(toks) \in Nat /\ Len(toks') \in Nat
  BY LexStep DEF LInv, LexState
<1>3. toks' = toks \/ \E t : toks' = Append(toks, t)
  <2>1. CASE \/ Blank \/ OpenLine \/ LineComment \/ EndLine \/ OpenBlock \/ BlockComment
             \/ EndBlock \/ Begin \/ Word \/ Number \/ Digit \/ Point
    BY <2>1 DEF Blank, OpenLine, LineComment, EndLine, OpenBlock, BlockComment, EndBlock, Begin,
                Word, Number, Digit, Point, Stay, Goto
  <2>2. CASE String
    BY <2>2, StringIs DEF Goto
  <2>3. CASE EndString
    BY <2>3, StringIs DEF Emit
  <2>4. CASE EndOfFile \/ Unexpected \/ Symbol \/ EndWord \/ EndNumber \/ OpenString \/ BadChar
             \/ Char
    BY <2>4 DEF EndOfFile, Unexpected, Symbol, EndWord, EndNumber, OpenString, BadChar, Char, Emit
  <2> QED BY <2>1, <2>2, <2>3, <2>4 DEF LexNext
<1>4. Len(toks') >= Len(toks)
  <2>1. CASE toks' = toks
    BY <1>2, <2>1
  <2>2. ASSUME NEW t, toks' = Append(toks, t) PROVE Len(toks') >= Len(toks)
    <3>1. PICK ts \in Seq(Token) : ts = toks
      BY <1>2
    <3>2. Len(Append(ts, t)) = Len(ts) + 1
      OBVIOUS
    <3> QED BY <1>2, <2>2, <3>1, <3>2
  <2> QED BY <1>3, <2>1, <2>2
<1> QED BY <1>1, <1>2, <1>4

\* The text of a token, as a sequence.
LEMMA TextOf ==
  ASSUME NEW s \in Seq(STRING), NEW f \in 1 .. Len(s) + 1, NEW e \in f .. Len(s) + 1
  PROVE  SubSeq(s, f, e - 1) \in Seq(Chars) /\ Len(SubSeq(s, f, e - 1)) = e - f
<1>1. PICK y \in Int : y = e - 1
  OBVIOUS
<1>2. \A k \in f .. y : s[k] \in Chars
  <2>1. \A k \in f .. y : k \in 1 .. Len(s)
    BY <1>1
  <2> QED BY <2>1 DEF Chars
<1>3. SubSeq(s, f, y) \in Seq(Chars) /\ Len(SubSeq(s, f, y)) = IF f <= y THEN y - f + 1 ELSE 0
  <2>1. f \in Int
    OBVIOUS
  <2> QED BY <1>2, <2>1, SubSeqProperties
<1>4. (IF f <= y THEN y - f + 1 ELSE 0) = e - f
  BY <1>1
<1> QED BY <1>1, <1>3, <1>4

\* What the tree wants of a token is a sequence of characters.
LEMMA WantIs ==
  ASSUME LInv, QInv, NEW k, k.tok \in 0 .. Len(toks)
  PROVE  /\ Len(Want(k)) \in Nat /\ DOMAIN Want(k) = 1 .. Len(Want(k))
         /\ k.tok = 0 => Want(k) = [i \in 1 .. NodeSize |-> NUL] /\ Len(Want(k)) = NodeSize
         /\ k.tok # 0 /\ toks[k.tok].kind = "string" =>
              /\ Want(k) = Append(Decoded(Inner(toks[k.tok])), NUL)
              /\ Len(Want(k)) <= Len(Inner(toks[k.tok])) + 1
              /\ Len(Inner(toks[k.tok])) \in Nat
         /\ k.tok # 0 /\ toks[k.tok].kind # "string" =>
              /\ Want(k) = Append(Text(toks[k.tok]), NUL)
              /\ Len(Want(k)) = toks[k.tok].to - toks[k.tok].from + 1
              /\ toks[k.tok].to - toks[k.tok].from \in Nat
<1>1. /\ src \in Seq(STRING) /\ Len(src) \in Nat /\ Bounded(toks)
      /\ toks \in Seq(Token) /\ Len(toks) \in Nat /\ k.tok \in Nat
  BY TextFacts DEF LInv, LexState
<1>2. NUL \in Chars
  BY DEF Chars
<1>3. CASE k.tok = 0
  <2>1. NodeSize \in Nat
    BY ReadingAssumption
  <2>2. Want(k) = [i \in 1 .. NodeSize |-> NUL]
    BY <1>3 DEF Want
  <2>3. PICK n \in Nat : n = NodeSize
    BY <2>1
  <2>4. Len([i \in 1 .. n |-> NUL]) = n /\ DOMAIN [i \in 1 .. n |-> NUL] = 1 .. n
    OBVIOUS
  <2> QED BY <1>3, <2>2, <2>3, <2>4
<1>4. CASE k.tok # 0 /\ toks[k.tok].kind = "string"
  <2>1. PICK i \in 1 .. Len(toks) : i = k.tok
    BY <1>1, <1>4
  <2>2. PICK s \in Seq(STRING) : s = Inner(toks[i]) /\ Closed(s)
    BY <1>4, <2>1, InnerClosed
  <2>3. PICK d \in Seq(Chars) : d = Decoded(s) /\ d = Meaning(s) /\ Len(d) <= Len(s)
    BY <2>2, DecodedMeans
  <2>4. Want(k) = Append(d, NUL)
    BY <1>4, <2>1, <2>2, <2>3 DEF Want
  <2>5. PICK w \in Seq(Chars) : w = Append(d, NUL) /\ Len(w) = Len(d) + 1
    BY <1>2, AppendProperties
  <2>6. Len(w) \in Nat /\ Len(w) <= Len(s) + 1 /\ Len(s) \in Nat /\ DOMAIN w = 1 .. Len(w)
    BY <2>3, <2>5
  <2> QED BY <1>4, <2>1, <2>2, <2>3, <2>4, <2>5, <2>6
<1>5. CASE k.tok # 0 /\ toks[k.tok].kind # "string"
  <2>1. PICK i \in 1 .. Len(toks) : i = k.tok
    BY <1>1, <1>5
  <2>2. PICK l \in Nat : l = Len(src)
    BY <1>1
  <2>3. PICK f \in 1 .. l + 1 : f = toks[i].from
    BY <1>1, <2>2 DEF Bounded
  <2>4. PICK e \in f .. l + 1 : e = toks[i].to
    BY <1>1, <2>2, <2>3 DEF Bounded
  <2>5. PICK s \in Seq(Chars) : s = Text(toks[i]) /\ Len(s) = e - f
    BY <1>1, <2>2, <2>3, <2>4, TextOf DEF Text
  <2>6. Want(k) = Append(s, NUL)
    BY <1>5, <2>1, <2>5 DEF Want
  <2>7. PICK w \in Seq(Chars) : w = Append(s, NUL) /\ Len(w) = Len(s) + 1
    BY <1>2, AppendProperties
  <2>8. Len(w) \in Nat /\ Len(w) = e - f + 1 /\ DOMAIN w = 1 .. Len(w) /\ e - f \in Nat
    BY <2>5, <2>7
  <2> QED BY <1>5, <2>1, <2>3, <2>4, <2>5, <2>6, <2>7, <2>8
<1> QED BY <1>3, <1>4, <1>5
-----------------------------------------------------------------------------
(* The whole of reading.                                                     *)

Entries(ts) == Seq([tok : 0 .. Len(ts), at : Spot])

\* The names among the tokens.
Names == {i \in 1 .. Len(toks) : IsName(toks[i])}

\* As long as there are tokens to come the parser has kept nothing; what it
\* keeps later lies where it was put.
RdInv ==
  /\ LInv /\ QInv /\ ArenaTypeOK
  /\ pos \in 1 .. Len(toks) + 1
  /\ mode # "over" => kept = <<>> /\ due = <<>>
  /\ due \in Seq(Names) /\ kept \in Entries(toks) /\ freed \in BOOLEAN
  /\ freed \/ \A n \in 1 .. Len(kept) : Stays(kept[n].at, Want(kept[n]), blocks, mem)

\* The invariant holds when reading begins.
LEMMA InitRdInv == ReadInit => RdInv
<1> SUFFICES ASSUME ReadInit PROVE RdInv
  OBVIOUS
<1>1. LInv
  BY InitLInv DEF ReadInit
<1>2. toks = <<>> /\ mode = "trivia" /\ blocks = <<>> /\ mem = <<>> /\ pos = 1 /\ kept = <<>>
      /\ freed = FALSE /\ due = <<>>
  BY DEF ReadInit, LexInit, ArenaInit
<1>3. QInv
  BY <1>2 DEF QInv, InString, Quoted
<1>4. ArenaTypeOK
  BY <1>2 DEF ArenaTypeOK
<1>5. kept \in Entries(toks)
  BY <1>2 DEF Entries
<1>6. Len(toks) = 0 /\ Len(kept) = 0
  BY <1>2
<1>7. pos \in 1 .. Len(toks) + 1
  BY <1>2, <1>6
<1>9. freed \in BOOLEAN
  BY <1>2, Zenon
<1>8. \A n \in 1 .. Len(kept) : FALSE
  BY <1>6
<1>10. due \in Seq(Names)
  BY <1>2
<1> QED BY <1>1, <1>2, <1>3, <1>4, <1>5, <1>7, <1>8, <1>9, <1>10 DEF RdInv

\* The tokens do not change, and what the tree wants of them neither.
LEMMA NextRdInv ==
  ASSUME RdInv, UNCHANGED lexvars, ArenaTypeOK', pos' \in 1 .. Len(toks) + 1,
         mode = "over" \/ (kept' = kept /\ due' = due), due' \in Seq(Names),
         kept' \in Entries(toks), freed' \in BOOLEAN,
         freed' \/ \A n \in 1 .. Len(kept') : Stays(kept'[n].at, Want(kept'[n]), blocks', mem')
  PROVE  RdInv'
<1>1. src' = src /\ cur' = cur /\ mode' = mode /\ first' = first /\ toks' = toks /\ cap' = cap
  BY DEF lexvars
<1>2. LInv'
  BY <1>1, NextLInv DEF RdInv, LInv
<1>3. QInv'
  BY <1>1, QuietStep DEF RdInv, QInv
<1>4. \A k : Want(k)' = Want(k)
  BY <1>1 DEF Want, Text, Inner
<1>5. Names' = Names
  BY <1>1 DEF Names, IsName, Text
<1> QED BY <1>1, <1>2, <1>3, <1>4, <1>5 DEF RdInv, Entries

\* A token is read: nothing is kept yet.
LEMMA LexRead == RdInv /\ Lex => RdInv'
<1> SUFFICES ASSUME RdInv, Lex PROVE RdInv'
  OBVIOUS
<1>1. LInv /\ QInv /\ LexNext /\ UNCHANGED <<blocks, mem, pos, due, kept, freed>>
  BY DEF RdInv, Lex
<1>2. LInv' /\ QInv'
  BY <1>1, LexStep, QuoteStep
<1>3. mode # "over" /\ Len(toks') \in Nat /\ Len(toks) \in Nat /\ Len(toks') >= Len(toks)
  BY <1>1, LexGoesOn
<1>4. kept = <<>> /\ kept' = <<>> /\ due' = <<>>
  BY <1>1, <1>3 DEF RdInv
<1>5. pos' \in 1 .. Len(toks') + 1
  BY <1>1, <1>3 DEF RdInv
<1>6. kept' \in Entries(toks') /\ Len(kept') = 0
  BY <1>4 DEF Entries
<1>7. ArenaTypeOK' /\ freed' \in BOOLEAN
  BY <1>1 DEF RdInv, ArenaTypeOK
<1>8. due' \in Seq(Names')
  BY <1>4
<1> QED BY <1>2, <1>4, <1>5, <1>6, <1>7, <1>8 DEF RdInv

\* A copy or a node is put behind everything else, filled with what the tree
\* wants, and kept.
LEMMA KeepStep ==
  ASSUME RdInv, mode = "over", ~freed, UNCHANGED <<lexvars, freed>>,
         NEW n \in Nat, NEW t \in 0 .. Len(toks),
         Len(Want([tok |-> t, at |-> Place(n)])) <= n,
         blocks' = Allocated(n), mem' = Written(Place(n), Want([tok |-> t, at |-> Place(n)])),
         Keep(t, Place(n)), pos' \in 1 .. Len(toks) + 1, due' \in Seq(Names)
  PROVE  RdInv'
<1>1. PICK k : k = [tok |-> t, at |-> Place(n)]
  OBVIOUS
<1>2. LInv /\ QInv /\ ArenaTypeOK /\ k.tok = t /\ k.at = Place(n)
  BY <1>1 DEF RdInv
<1>3. Len(Want(k)) \in Nat /\ DOMAIN Want(k) = 1 .. Len(Want(k))
  BY <1>2, WantIs
<1>4. PICK w : w = Want(k)
  OBVIOUS
<1>5. PICK q \in 0 .. n : q = Len(w)
  <2>1. Len(w) <= n
    BY <1>1, <1>4
  <2>2. Len(w) \in Nat
    BY <1>3, <1>4
  <2> QED BY <2>1, <2>2
<1>6. DOMAIN w = 1 .. q /\ Len(w) = q /\ mem' = Written(Place(n), w)
  BY <1>1, <1>3, <1>4, <1>5
<1>7. /\ ArenaTypeOK' /\ Place(n) \in Spot /\ Stays(Place(n), w, blocks', mem')
      /\ \A p \in Spot : \A v : Len(v) \in Nat /\ Stays(p, v, blocks, mem)
                                  => Stays(p, v, blocks', mem')
  BY <1>2, <1>5, <1>6, Stores
<1>8. PICK E : E = [tok : 0 .. Len(toks), at : Spot]
  OBVIOUS
<1>9. PICK ks \in Seq(E) : ks = kept
  BY <1>8 DEF RdInv, Entries
<1>10. k \in E
  BY <1>1, <1>7, <1>8
<1>11. PICK ns \in Seq(E) : /\ ns = Append(ks, k) /\ Len(ns) = Len(ks) + 1 /\ ns[Len(ks) + 1] = k
                            /\ \A i \in 1 .. Len(ks) : ns[i] = ks[i]
  <2>1. /\ Append(ks, k) \in Seq(E) /\ Len(Append(ks, k)) = Len(ks) + 1
        /\ Append(ks, k)[Len(ks) + 1] = k /\ \A i \in 1 .. Len(ks) : Append(ks, k)[i] = ks[i]
    BY <1>10, AppendProperties
  <2> QED BY <2>1
<1>12. kept' = ns
  BY <1>1, <1>9, <1>11 DEF Keep
<1>13. ASSUME NEW i \in 1 .. Len(ks) PROVE Stays(ns[i].at, Want(ns[i]), blocks', mem')
  <2>1. ks[i] \in E /\ ns[i] = ks[i]
    BY <1>11
  <2>2. ks[i].at \in Spot /\ ks[i].tok \in 0 .. Len(toks)
    BY <1>8, <2>1
  <2>3. Stays(ks[i].at, Want(ks[i]), blocks, mem)
    BY <1>9 DEF RdInv
  <2>4. Len(Want(ks[i])) \in Nat
    BY <1>2, <2>2, WantIs
  <2> QED BY <1>7, <2>1, <2>2, <2>3, <2>4
<1>14. \A i \in 1 .. Len(ns) : i \in 1 .. Len(ks) \/ i = Len(ks) + 1
  BY <1>11
<1>15. \A i \in 1 .. Len(kept') : Stays(kept'[i].at, Want(kept'[i]), blocks', mem')
  BY <1>2, <1>4, <1>7, <1>11, <1>12, <1>13, <1>14
<1>16. kept' \in Entries(toks)
  BY <1>8, <1>12 DEF Entries
<1> QED BY <1>7, <1>15, <1>16, NextRdInv DEF RdInv

\* The copy of a name, at once or later.
LEMMA NameKept ==
  ASSUME RdInv, mode = "over", ~freed, UNCHANGED <<lexvars, freed>>, NEW i \in Names,
         CopyName(i), pos' \in 1 .. Len(toks) + 1, due' \in Seq(Names)
  PROVE  RdInv'
<1>1. LInv /\ QInv /\ toks \in Seq(Token) /\ Len(toks) \in Nat
  BY DEF RdInv, LInv, LexState
<1>2. i \in 1 .. Len(toks) /\ i # 0 /\ i \in 0 .. Len(toks) /\ toks[i].kind # "string"
  <2>1. i \in 1 .. Len(toks) /\ IsName(toks[i])
    BY DEF Names
  <2>2. toks[i].kind = "word"
    BY <2>1 DEF IsName
  <2> QED BY <1>1, <2>1, <2>2
<1>3. PICK n : n = toks[i].to - toks[i].from + 1
  OBVIOUS
<1>4. PICK k : k = [tok |-> i, at |-> Place(n)]
  OBVIOUS
<1>5. Want(k) = Append(Text(toks[i]), NUL) /\ Len(Want(k)) = n /\ n \in Nat
  <2>1. k.tok = i
    BY <1>4
  <2>2. /\ Want(k) = Append(Text(toks[i]), NUL)
        /\ Len(Want(k)) = toks[i].to - toks[i].from + 1
        /\ toks[i].to - toks[i].from \in Nat
    BY <1>1, <1>2, <2>1, WantIs
  <2> QED BY <1>3, <2>2
<1>6. /\ blocks' = Allocated(n) /\ mem' = Written(Place(n), Append(Text(toks[i]), "NUL"))
      /\ Keep(i, Place(n))
  BY <1>3 DEF CopyName, StoreText
<1>7. mem' = Written(Place(n), Want(k)) /\ Len(Want(k)) <= n
  BY <1>5, <1>6 DEF NUL
<1> QED BY <1>2, <1>4, <1>5, <1>6, <1>7, KeepStep

\* A name that was put off is copied.
LEMMA LateKept == RdInv /\ dup_ident_late => RdInv'
<1> SUFFICES ASSUME RdInv, dup_ident_late PROVE RdInv'
  OBVIOUS
<1>1. /\ mode = "over" /\ ~freed /\ due # <<>> /\ due \in Seq(Names) /\ due' = Tail(due)
      /\ CopyName(Head(due)) /\ UNCHANGED <<lexvars, pos, freed>> /\ pos \in 1 .. Len(toks) + 1
  BY DEF dup_ident_late, RdInv
<1>2. Head(due) \in Names /\ Tail(due) \in Seq(Names)
  BY <1>1, HeadTailProperties
<1>3. pos' \in 1 .. Len(toks) + 1
  BY <1>1
<1> QED BY <1>1, <1>2, <1>3, NameKept

\* What the parser does with a token.
LEMMA TokenKept == RdInv /\ (dup_ident \/ PutOff \/ dup_string_lit \/ Pass) => RdInv'
<1> SUFFICES ASSUME RdInv, dup_ident \/ PutOff \/ dup_string_lit \/ Pass PROVE RdInv'
  OBVIOUS
<1>1. /\ Parsing /\ pos' = pos + 1 /\ UNCHANGED <<lexvars, freed>>
  BY DEF dup_ident, PutOff, dup_string_lit, Pass
<1>2. LInv /\ QInv /\ toks \in Seq(Token) /\ Len(toks) \in Nat /\ mode = "over" /\ ~freed
      /\ due \in Seq(Names)
  BY <1>1 DEF RdInv, LInv, LexState, Parsing
<1>3. PICK i \in 1 .. Len(toks) : i = pos
  BY <1>1, <1>2 DEF RdInv, Parsing
<1>4. pos' \in 1 .. Len(toks) + 1
  BY <1>1, <1>2, <1>3
<1>5. i # 0 /\ i \in 0 .. Len(toks)
  BY <1>2, <1>3
<1>6. CASE dup_ident
  <2>1. i \in Names /\ CopyName(i) /\ due' = due
    BY <1>3, <1>6 DEF dup_ident, Names
  <2> QED BY <1>1, <1>2, <1>4, <2>1, NameKept
<1>9. CASE PutOff
  <2>1. i \in Names /\ due' = <<i>> \o due /\ UNCHANGED <<lexvars, blocks, mem, kept, freed>>
    BY <1>3, <1>9 DEF PutOff, Names
  <2>2. due' \in Seq(Names)
    <3>1. <<i>> \in Seq(Names)
      BY <2>1
    <3> QED BY <1>2, <2>1, <3>1, ConcatProperties
  <2>3. ArenaTypeOK'
    BY <2>1 DEF RdInv, ArenaTypeOK
  <2> QED BY <1>2, <1>4, <2>1, <2>2, <2>3, NextRdInv DEF RdInv
<1>7. CASE dup_string_lit
  <2>1. toks[i].kind = "string"
    BY <1>3, <1>7 DEF dup_string_lit
  <2>2. PICK n : n = Len(Inner(toks[i])) + 1
    OBVIOUS
  <2>3. PICK k : k = [tok |-> i, at |-> Place(n)]
    OBVIOUS
  <2>4. Want(k) = Append(Decoded(Inner(toks[i])), NUL) /\ Len(Want(k)) <= n /\ n \in Nat
    <3>1. k.tok = i
      BY <2>3
    <3>2. /\ Want(k) = Append(Decoded(Inner(toks[i])), NUL)
          /\ Len(Want(k)) <= Len(Inner(toks[i])) + 1 /\ Len(Inner(toks[i])) \in Nat
      BY <1>2, <1>5, <2>1, <3>1, WantIs
    <3> QED BY <2>2, <3>2
  <2>5. /\ blocks' = Allocated(n)
        /\ mem' = Written(Place(n), Append(Decoded(Inner(toks[i])), "NUL"))
        /\ Keep(i, Place(n))
    BY <1>3, <1>7, <2>2 DEF dup_string_lit, StoreText
  <2>6. mem' = Written(Place(n), Want(k))
    BY <2>4, <2>5 DEF NUL
  <2>7. due' \in Seq(Names)
    BY <1>2, <1>7 DEF dup_string_lit
  <2> QED BY <1>1, <1>2, <1>4, <1>5, <2>3, <2>4, <2>5, <2>6, <2>7, KeepStep
<1>8. CASE Pass
  <2>1. UNCHANGED <<lexvars, blocks, mem, due, kept, freed>>
    BY <1>8 DEF Pass
  <2>2. ArenaTypeOK'
    BY <2>1 DEF RdInv, ArenaTypeOK
  <2> QED BY <1>4, <2>1, <2>2, NextRdInv DEF RdInv
<1> QED BY <1>6, <1>7, <1>8, <1>9

\* A node of the tree.
LEMMA NodeKept == RdInv /\ Node => RdInv'
<1> SUFFICES ASSUME RdInv, Node PROVE RdInv'
  OBVIOUS
<1>1. /\ mode = "over" /\ ~freed /\ UNCHANGED <<lexvars, pos, due, freed>> /\ Keep(0, Place(NodeSize))
      /\ blocks' = Allocated(NodeSize)
      /\ mem' = Written(Place(NodeSize), [i \in 1 .. NodeSize |-> "NUL"])
  BY DEF Node, Parsing, arena_alloc_zero
<1>2. LInv /\ QInv /\ Len(toks) \in Nat /\ NodeSize \in Nat
  BY ReadingAssumption DEF RdInv, LInv, LexState
<1>3. PICK k : k = [tok |-> 0, at |-> Place(NodeSize)]
  OBVIOUS
<1>4. Want(k) = [i \in 1 .. NodeSize |-> NUL] /\ Len(Want(k)) = NodeSize
  <2>1. k.tok = 0 /\ 0 \in 0 .. Len(toks)
    BY <1>2, <1>3
  <2> QED BY <1>2, <2>1, WantIs
<1>5. mem' = Written(Place(NodeSize), Want(k)) /\ Len(Want(k)) <= NodeSize
  BY <1>1, <1>2, <1>4 DEF NUL
<1>6. pos' \in 1 .. Len(toks) + 1 /\ 0 \in 0 .. Len(toks) /\ due' \in Seq(Names)
  BY <1>1, <1>2 DEF RdInv
<1> QED BY <1>1, <1>2, <1>3, <1>5, <1>6, KeepStep

\* At the end of a command nothing is left to point to.
LEMMA Released == RdInv /\ Release => RdInv'
<1> SUFFICES ASSUME RdInv, Release PROVE RdInv'
  OBVIOUS
<1>1. UNCHANGED <<lexvars, pos, due, kept>> /\ blocks' = <<>> /\ mem' = <<>> /\ freed' = TRUE
  BY DEF Release, arena_free
<1>2. ArenaTypeOK'
  BY <1>1 DEF ArenaTypeOK
<1> QED BY <1>1, <1>2, NextRdInv DEF RdInv

LEMMA ReadStep == RdInv /\ [ReadNext]_readvars => RdInv'
<1> SUFFICES ASSUME RdInv, [ReadNext]_readvars PROVE RdInv'
  OBVIOUS
<1>1. CASE UNCHANGED readvars
  <2>1. UNCHANGED <<lexvars, blocks, mem, pos, due, kept, freed>>
    BY <1>1 DEF readvars
  <2>2. ArenaTypeOK'
    BY <2>1 DEF RdInv, ArenaTypeOK
  <2> QED BY <2>1, <2>2, NextRdInv DEF RdInv
<1> QED BY <1>1, LexRead, TokenKept, LateKept, NodeKept, Released DEF ReadNext

\* The invariant gives what the runs check.
LEMMA RdGiven == RdInv => ReadTypeOK /\ Tiled /\ NamesKept
<1> SUFFICES ASSUME RdInv PROVE ReadTypeOK /\ Tiled /\ NamesKept
  OBVIOUS
<1>1. LInv /\ QInv /\ ArenaTypeOK
  BY DEF RdInv
<1>2. ReadTypeOK
  <2>1. due \in Seq(Names) /\ Names \subseteq 1 .. Len(toks)
    BY DEF RdInv, Names
  <2>2. PICK s \in Seq(Names) : s = due
    BY <2>1
  <2>3. s \in Seq(1 .. Len(toks))
    <3>1. Len(s) \in Nat /\ s \in [1 .. Len(s) -> Names]
      OBVIOUS
    <3>2. s \in [1 .. Len(s) -> 1 .. Len(toks)]
      BY <2>1, <3>1
    <3> QED BY <3>1, <3>2, SeqDef
  <2> QED BY <1>1, <2>2, <2>3, LexGiven DEF RdInv, ReadTypeOK, Entries, Spot
<1>3. ASSUME ~freed, NEW n \in DOMAIN kept
      PROVE  LET k == kept[n]
                 want == Want(k)
             IN /\ k.at.block \in DOMAIN blocks
                /\ k.at.at + Len(want) <= blocks[k.at.block].cap
                /\ \A i \in DOMAIN want : mem[<<k.at.block, k.at.at + i - 1>>] = want[i]
  <2>1. kept \in Seq([tok : 0 .. Len(toks), at : Spot])
    BY DEF RdInv, Entries
  <2>2. n \in 1 .. Len(kept) /\ kept[n] \in [tok : 0 .. Len(toks), at : Spot]
    <3>1. PICK E : E = [tok : 0 .. Len(toks), at : Spot]
      OBVIOUS
    <3>2. kept \in Seq(E)
      BY <2>1, <3>1
    <3>3. DOMAIN kept = 1 .. Len(kept)
      BY <3>2
    <3>4. n \in 1 .. Len(kept)
      BY <3>3
    <3>5. kept[n] \in E
      BY <3>2, <3>4
    <3> QED BY <3>1, <3>4, <3>5
  <2>3. PICK k \in [tok : 0 .. Len(toks), at : Spot] : k = kept[n]
    BY <2>2
  <2>4. PICK w : w = Want(k)
    OBVIOUS
  <2>5. Len(w) \in Nat /\ DOMAIN w = 1 .. Len(w)
    BY <1>1, <2>3, <2>4, WantIs
  <2>6. Stays(k.at, w, blocks, mem)
    BY <1>3, <2>2, <2>3, <2>4 DEF RdInv
  <2>7. PICK b \in 1 .. Len(blocks) : b = k.at.block
    BY <2>6 DEF Stays
  <2>8. PICK o \in Nat : o = k.at.at
    BY <2>3 DEF Spot
  <2>9. b \in DOMAIN blocks /\ blocks[b] \in Block /\ blocks[b].used <= blocks[b].cap
    BY <1>1, <2>7 DEF ArenaTypeOK
  <2>10. PICK u \in Nat, c \in Nat : u = blocks[b].used /\ c = blocks[b].cap /\ u <= c
    BY <2>9 DEF Block
  <2>11. o + Len(w) <= u
    BY <2>6, <2>7, <2>8, <2>10 DEF Stays
  <2>12. o + Len(w) <= c
    BY <2>5, <2>10, <2>11
  <2>13. \A i \in DOMAIN w : mem[<<b, o + i - 1>>] = w[i]
    BY <2>5, <2>6, <2>7, <2>8 DEF Stays
  <2> QED BY <2>3, <2>4, <2>7, <2>8, <2>9, <2>10, <2>12, <2>13
<1>4. NamesKept
  BY <1>3 DEF NamesKept
<1> QED BY <1>1, <1>2, <1>4, LexGiven

LEMMA ReadInvariant == ReadSpec => []RdInv
BY InitRdInv, ReadStep, PTL DEF ReadSpec

\* The cursor stays on the text or its terminator whatever the text is, the
\* vector of tokens has room for them, blocks of the arena are never overfull
\* and stay aligned, and the parser points to tokens there are (lexer.c 20-60,
\* arena.c 20-71, parser.c 54-87).
THEOREM ReadTypeCorrect == ReadSpec => []ReadTypeOK
BY ReadInvariant, RdGiven, PTL

\* Tokens follow one another through the text, with nothing but blanks and
\* whole comments between them, each with its line and column, and only the
\* last is the end of the file, at the first terminator (lexer.c 28-94,
\* 246-252).
THEOREM TiledCorrect == ReadSpec => []Tiled
BY ReadInvariant, RdGiven, PTL

\* Every name, string and node that the tree points to stays as it was written
\* while anything else is allocated, in a block that has room for it, and a
\* string reads as what its text means (parser.c 10-11, 54-87, arena.c 20-71).
THEOREM NamesCorrect == ReadSpec => []NamesKept
BY ReadInvariant, RdGiven, PTL
-----------------------------------------------------------------------------
(* The longest match.  First: what a lexeme begins with, and the rest of it. *)

LexemeKinds == {"word", "int", "float", "string", "symbol"}
Starts == Letters \cup {"_"}
Apostrophe == "'"

\* No two kinds of token begin alike.
LEMMA Classes ==
  /\ \A c \in Starts : c \notin Decimal /\ c \notin Symbols /\ c # Quote /\ c # Apostrophe
  /\ \A c \in Decimal : c \notin Symbols /\ c # Quote /\ c # Apostrophe
  /\ Quote \notin Symbols /\ Apostrophe \notin Symbols /\ Quote # Apostrophe
  /\ Starts \subseteq WordChars
  /\ \A c \in WordChars : c \in Starts \/ c \in Decimal
<1>1. \A c \in Decimal : c \notin Starts
  <2>1. /\ "0" \notin Starts /\ "1" \notin Starts /\ "2" \notin Starts /\ "3" \notin Starts
        /\ "4" \notin Starts /\ "5" \notin Starts /\ "6" \notin Starts /\ "7" \notin Starts
        /\ "8" \notin Starts /\ "9" \notin Starts
    BY DEF Starts, Letters, HexLetters
  <2> QED BY <2>1 DEF Decimal
<1>2. \A c \in Symbols : c \notin Starts
  <2>1. /\ "(" \notin Starts /\ ")" \notin Starts /\ "{" \notin Starts /\ "}" \notin Starts
        /\ "[" \notin Starts /\ "]" \notin Starts /\ "," \notin Starts /\ ";" \notin Starts
        /\ "@" \notin Starts /\ "%" \notin Starts /\ "^" \notin Starts /\ "~" \notin Starts
    BY DEF Starts, Letters, HexLetters
  <2>2. /\ "+" \notin Starts /\ "-" \notin Starts /\ "*" \notin Starts /\ "/" \notin Starts
        /\ "." \notin Starts /\ ":" \notin Starts /\ "=" \notin Starts /\ "!" \notin Starts
        /\ "<" \notin Starts /\ ">" \notin Starts /\ "&" \notin Starts /\ "|" \notin Starts
    BY DEF Starts, Letters, HexLetters
  <2> QED BY <2>1, <2>2 DEF Symbols, Seconds, Pairs
<1>3. \A c \in Decimal : c \notin Symbols
  BY DEF Decimal, Symbols, Seconds, Pairs
<1>4. \A c \in Starts \cup Decimal : c # Apostrophe
  BY DEF Starts, Letters, HexLetters, Decimal, Apostrophe
<1>5. Quote \notin Starts
  BY Zenon DEF Starts, Letters, HexLetters, Quote
<1>6. Quote \notin Decimal
  BY Zenon DEF Decimal, Quote
<1>7. Quote \notin Symbols
  BY Zenon DEF Symbols, Seconds, Pairs, Quote
<1>8. Apostrophe \notin Symbols
  BY DEF Symbols, Seconds, Pairs, Apostrophe
<1>9. Quote # Apostrophe
  BY Zenon DEF Quote, Apostrophe
<1>10. Starts \subseteq WordChars /\ \A c \in WordChars : c \in Starts \/ c \in Decimal
  BY DEF Starts, WordChars
<1> QED BY <1>1, <1>2, <1>3, <1>4, <1>5, <1>6, <1>7, <1>8, <1>9, <1>10

\* What may come second.
LEMMA FollowsAre ==
  /\ \A c \in {"+", "*", "/", ":", "!"} : Follows(c) = {"="}
  /\ Follows("-") = {">", "="} /\ Follows("=") = {"=", ">"}
  /\ \A c \in {"<", ">"} : Follows(c) = {"=", c}
  /\ \A c \in {".", "&", "|"} : Follows(c) = {c}
  /\ \A c \in DOMAIN Seconds : Follows(c) = {}
<1>1. \A c \in {"+", "*", "/", ":", "!"} : Follows(c) = {"="}
  BY DEF Follows, Pairs
<1>2. Follows("-") = {">", "="}
  BY DEF Follows, Pairs
<1>3. Follows("=") = {"=", ">"}
  BY DEF Follows, Pairs
<1>4. \A c \in {"<", ">"} : Follows(c) = {"=", c}
  BY DEF Follows, Pairs
<1>5. \A c \in {".", "&", "|"} : Follows(c) = {c}
  BY DEF Follows, Pairs
<1>6. \A c \in DOMAIN Seconds : Follows(c) = {}
  BY DEF Follows, Pairs, Seconds
<1> QED BY <1>1, <1>2, <1>3, <1>4, <1>5, <1>6

\* Operators are spelled as the tables of the lexer have it.
LEMMA Spelled ==
  ASSUME NEW s \in Spellings
  PROVE  /\ s[1] \in Symbols
         /\ Len(s) = 1 \/ (Len(s) = 2 /\ s[2] \in Follows(s[1]))
<1>1. CASE \E c \in {"(", ")", "{", "}", "[", "]", ",", ".", ":", ";", "@", "=", "+", "-", "*", "/",
                     "%", "&", "!", "<", ">", "|", "^", "~"} : s = <<c>>
  <2>1. PICK c \in {"(", ")", "{", "}", "[", "]", ",", ".", ":", ";", "@", "=", "+", "-", "*", "/",
                    "%", "&", "!", "<", ">", "|", "^", "~"} : s = <<c>>
    BY <1>1
  <2>2. c \in Symbols
    BY DEF Symbols, Seconds, Pairs
  <2>3. s[1] = c /\ Len(s) = 1
    BY ONLY <2>1
  <2> QED BY <2>2, <2>3
<1>2. CASE \E c \in {"+", "*", "/", ":", "!"} : s = <<c, "=">>
  BY <1>2, FollowsAre DEF Symbols, Pairs
<1>3. CASE s \in {<<"-", ">">>, <<"-", "=">>, <<"=", "=">>, <<"=", ">">>}
  BY <1>3, FollowsAre DEF Symbols, Pairs
<1>4. CASE \E c \in {"<", ">"} : s \in {<<c, "=">>, <<c, c>>}
  BY <1>4, FollowsAre DEF Symbols, Pairs
<1>5. CASE \E c \in {".", "&", "|"} : s = <<c, c>>
  BY <1>5, FollowsAre DEF Symbols, Pairs
<1> QED BY <1>1, <1>2, <1>3, <1>4, <1>5 DEF Spellings

LEMMA Spells ==
  ASSUME NEW c \in Symbols
  PROVE  <<c>> \in Spellings /\ \A d \in Follows(c) : <<c, d>> \in Spellings
<1>1. <<c>> \in Spellings
  BY DEF Symbols, Seconds, Pairs, Spellings
<1>2. ASSUME NEW d \in Follows(c) PROVE <<c, d>> \in Spellings
  <2>1. CASE c \in {"+", "*", "/", ":", "!"}
    BY <1>2, <2>1, FollowsAre DEF Spellings
  <2>2. CASE c \in {"-", "="}
    BY <1>2, <2>2, FollowsAre DEF Spellings
  <2>3. CASE c \in {"<", ">"}
    BY <1>2, <2>3, FollowsAre DEF Spellings
  <2>4. CASE c \in {".", "&", "|"}
    BY <1>2, <2>4, FollowsAre DEF Spellings
  <2>5. CASE c \in DOMAIN Seconds
    BY <1>2, <2>5, FollowsAre
  <2> QED BY <2>1, <2>2, <2>3, <2>4, <2>5 DEF Symbols, Pairs
<1> QED BY <1>1, <1>2

\* What a lexeme begins with tells its kind.
LEMMA FirstChar ==
  ASSUME NEW s \in Seq(STRING), Len(s) >= 1, NEW k \in LexemeKinds, Looks(k, s)
  PROVE  /\ k = "word" => s[1] \in Starts /\ All(s, 1, Len(s), WordChars)
         /\ k = "int" => s[1] \in Decimal \/ s[1] = Apostrophe
         /\ k = "float" => s[1] \in Decimal
         /\ k = "string" => s[1] = Quote
         /\ k = "symbol" => s[1] \in Symbols /\ s \in Spellings
<1>1. Len(s) \in Nat /\ 1 \in 1 .. Len(s)
  OBVIOUS
<1>2. ASSUME k = "word" PROVE s[1] \in Starts /\ All(s, 1, Len(s), WordChars)
  <2>1. s[1] \notin Decimal /\ All(s, 1, Len(s), WordChars)
    BY <1>2 DEF Looks
  <2>2. s[1] \in WordChars
    BY <1>1, <2>1 DEF All
  <2> QED BY <2>1, <2>2, Classes
<1>3. ASSUME k = "int" PROVE s[1] \in Decimal \/ s[1] = Apostrophe
  <2>1. \/ All(s, 1, Len(s), Decimal) \/ s[1] = "0" \/ s[1] = "'"
    BY <1>3 DEF Looks
  <2>2. "0" \in Decimal
    BY DEF Decimal
  <2> QED BY <1>1, <2>1, <2>2 DEF All, Apostrophe
<1>4. ASSUME k = "float" PROVE s[1] \in Decimal
  <2>1. PICK p \in 2 .. Len(s) - 1 : All(s, 1, p - 1, Decimal)
    BY <1>4 DEF Looks
  <2>2. 1 \in 1 .. p - 1
    BY <2>1
  <2> QED BY <2>1, <2>2 DEF All
<1>5. ASSUME k = "string" PROVE s[1] = Quote
  BY <1>5, Zenon DEF Looks, Quote
<1>6. ASSUME k = "symbol" PROVE s[1] \in Symbols /\ s \in Spellings
  <2>1. s \in Spellings
    BY <1>6 DEF Looks
  <2> QED BY <2>1, Spelled
<1> QED BY <1>2, <1>3, <1>4, <1>5, <1>6

\* A part of the text, place by place.
LEMMA Slice ==
  ASSUME src \in Sources, NEW f \in 1 .. Len(src), NEW j \in f .. Len(src)
  PROVE  /\ SubSeq(src, f, j) \in Seq(STRING) /\ Len(SubSeq(src, f, j)) = j - f + 1
         /\ \A i \in 1 .. j - f + 1 : SubSeq(src, f, j)[i] = CharAt(f + i - 1)
<1>1. PICK t \in Seq(STRING), l \in Nat : t = src /\ l = Len(src) /\ DOMAIN t = 1 .. l /\ l = Len(t)
  BY TextFacts
<1>2. f \in Int /\ j \in Int /\ \A k \in f .. j : k \in 1 .. l
  BY <1>1
<1>3. \A k \in f .. j : t[k] \in STRING
  BY <1>1, <1>2
<1>4. /\ SubSeq(t, f, j) \in Seq(STRING)
      /\ Len(SubSeq(t, f, j)) = IF f <= j THEN j - f + 1 ELSE 0
      /\ \A i \in 1 .. j - f + 1 : SubSeq(t, f, j)[i] = t[f + i - 1]
  BY <1>2, <1>3, SubSeqProperties, SMTT(60)
<1>5. (IF f <= j THEN j - f + 1 ELSE 0) = j - f + 1
  BY <1>2
<1>6. \A i \in 1 .. j - f + 1 : f + i - 1 \in f .. j
  BY <1>2
<1>7. \A k \in f .. j : CharAt(k) = t[k]
  BY <1>1, <1>2 DEF CharAt
<1> QED BY <1>1, <1>4, <1>5, <1>6, <1>7

\* The characters from f up to e, without e, are of one class.
Span(f, e, chars) == \A n \in f .. e - 1 : CharAt(n) \in chars

\* What is true of all characters of a part is true at their places.
LEMMA SliceAll ==
  ASSUME src \in Sources, NEW f \in 1 .. Len(src), NEW j \in f .. Len(src), NEW chars,
         NEW a \in Nat \ {0}, NEW b \in Nat, b <= j - f + 1
  PROVE  All(SubSeq(src, f, j), a, b, chars) <=> Span(f + a - 1, f + b, chars)
<1>1. PICK s : s = SubSeq(src, f, j)
  OBVIOUS
<1>2. \A i \in 1 .. j - f + 1 : s[i] = CharAt(f + i - 1)
  BY <1>1, Slice
<1>3. Len(src) \in Nat
  BY TextFacts
<1>4. \A i \in a .. b : i \in 1 .. j - f + 1 /\ f + i - 1 \in f + a - 1 .. f + b - 1
  BY <1>3
<1>5. \A n \in f + a - 1 .. f + b - 1 : n - f + 1 \in a .. b /\ f + (n - f + 1) - 1 = n
  BY <1>3
<1>6. ASSUME All(s, a, b, chars) PROVE Span(f + a - 1, f + b, chars)
  <2>1. ASSUME NEW n \in f + a - 1 .. f + b - 1 PROVE CharAt(n) \in chars
    <3>1. PICK i \in a .. b : i = n - f + 1 /\ f + i - 1 = n
      BY <1>5
    <3> QED BY <1>2, <1>4, <1>6, <3>1 DEF All
  <2> QED BY <2>1 DEF Span
<1>7. ASSUME Span(f + a - 1, f + b, chars) PROVE All(s, a, b, chars)
  <2>1. ASSUME NEW i \in a .. b PROVE s[i] \in chars
    <3>1. f + i - 1 \in f + a - 1 .. f + b - 1 /\ s[i] = CharAt(f + i - 1)
      BY <1>2, <1>4
    <3> QED BY <1>7, <3>1 DEF Span
  <2> QED BY <2>1 DEF All
<1> QED BY <1>1, <1>6, <1>7

\* What each kind looks like, with the quotes named.
LEMMA LooksAre ==
  ASSUME NEW s
  PROVE  /\ Looks("word", s) <=> s[1] \notin Decimal /\ All(s, 1, Len(s), WordChars)
         /\ Looks("int", s) <=>
              \/ All(s, 1, Len(s), Decimal)
              \/ Len(s) > 1 /\ s[1] = "0" /\ s[2] \in {"x", "X"} /\ All(s, 3, Len(s), Digits.hex)
              \/ Len(s) > 1 /\ s[1] = "0" /\ s[2] \in {"b", "B"} /\ All(s, 3, Len(s), Digits.binary)
              \/ Len(s) = 3 /\ s[1] = Apostrophe /\ s[3] = Apostrophe /\ s[2] \notin {"\\", "\n"}
              \/ /\ Len(s) = 4 /\ s[1] = Apostrophe /\ s[4] = Apostrophe
                 /\ s[2] = "\\" /\ s[3] \in Escapes
         /\ Looks("float", s) <=> \E p \in 2 .. Len(s) - 1 : /\ s[p] = "." /\ All(s, 1, p - 1, Decimal)
                                                             /\ All(s, p + 1, Len(s), Decimal)
         /\ Looks("string", s) <=>
              /\ Len(s) > 1 /\ s[1] = Quote /\ s[Len(s)] = Quote
              /\ \A i \in 2 .. Len(s) : s[i] = Quote => (i = Len(s) <=> ~Escaped(s, i))
         /\ Looks("symbol", s) <=> s \in Spellings
<1>1. Looks("word", s) <=> s[1] \notin Decimal /\ All(s, 1, Len(s), WordChars)
  BY Zenon DEF Looks
<1>2. Looks("int", s) <=>
        \/ All(s, 1, Len(s), Decimal)
        \/ Len(s) > 1 /\ s[1] = "0" /\ s[2] \in {"x", "X"} /\ All(s, 3, Len(s), Digits.hex)
        \/ Len(s) > 1 /\ s[1] = "0" /\ s[2] \in {"b", "B"} /\ All(s, 3, Len(s), Digits.binary)
        \/ Len(s) = 3 /\ s[1] = Apostrophe /\ s[3] = Apostrophe /\ s[2] \notin {"\\", "\n"}
        \/ /\ Len(s) = 4 /\ s[1] = Apostrophe /\ s[4] = Apostrophe
           /\ s[2] = "\\" /\ s[3] \in Escapes
  BY Zenon DEF Looks, Apostrophe
<1>3. Looks("float", s) <=> \E p \in 2 .. Len(s) - 1 : /\ s[p] = "." /\ All(s, 1, p - 1, Decimal)
                                                       /\ All(s, p + 1, Len(s), Decimal)
  BY Zenon DEF Looks
<1>4. Looks("string", s) <=>
        /\ Len(s) > 1 /\ s[1] = Quote /\ s[Len(s)] = Quote
        /\ \A i \in 2 .. Len(s) : s[i] = Quote => (i = Len(s) <=> ~Escaped(s, i))
  BY Zenon DEF Looks, Quote
<1>5. Looks("symbol", s) <=> s \in Spellings
  BY Zenon DEF Looks
<1> QED BY <1>1, <1>2, <1>3, <1>4, <1>5, Zenon

\* The loop a character leads to tells its class.
LEMMA LoopsAre ==
  ASSUME NEW c
  PROVE  /\ Loop(c) = "word" => c \in Starts
         /\ Loop(c) = "number" => c \in Decimal
         /\ Loop(c) = "symbol" => c \in Symbols
         /\ Loop(c) = "char" => c = Apostrophe
         /\ Loop(c) = "bad" => /\ c \notin Starts /\ c \notin Decimal /\ c \notin Symbols
                               /\ c # Quote /\ c # Apostrophe
         /\ Loop(c) \in {"end", "word", "number", "symbol", "string", "char", "bad"}
<1>1. Loop(c) = CASE c = NUL -> "end"
                  [] c \in Starts -> "word"
                  [] c \in Decimal -> "number"
                  [] c \in Symbols -> "symbol"
                  [] c = Quote -> "string"
                  [] c = Apostrophe -> "char"
                  [] OTHER -> "bad"
  BY Zenon DEF Loop, Quote, Starts, Apostrophe
<1>2. CASE c = NUL
  <2>1. NUL \notin Starts /\ NUL \notin Decimal /\ NUL # Apostrophe
    BY DEF NUL, Letters, HexLetters, Decimal, Starts, Apostrophe
  <2>2. NUL \notin Symbols
    BY DEF NUL, Symbols, Seconds, Pairs
  <2>3. Loop(c) = "end"
    BY <1>1, <1>2, <2>1, <2>2, QuoteIs
  <2> QED BY <2>3
<1>3. CASE c # NUL
  BY <1>1, <1>3
<1> QED BY <1>2, <1>3

\* The end of the text, and what lies before it.
LEMMA EndFacts ==
  ASSUME src \in Sources
  PROVE  /\ End \in Nat /\ End \in 1 .. Len(src) + 1 /\ Len(src) \in Nat /\ CharAt(End) = NUL
         /\ \A m \in 1 .. End - 1 : CharAt(m) # NUL /\ m \in 1 .. Len(src) /\ CharAt(m) = src[m]
         /\ \A p \in 1 .. Len(src) + 1 : Clean(p) => p <= End
<1> DEFINE T == {n \in 1 .. Len(src) + 1 : CharAt(n) = NUL}
<1>1. Len(src) \in Nat /\ DOMAIN src = 1 .. Len(src)
  BY TextFacts
<1>2. T \in SUBSET Nat /\ Len(src) + 1 \in T
  BY <1>1, TextFacts
<1>3. PICK e \in T : \A n \in T : e <= n
  <2> HIDE DEF T
  <2> QED BY <1>2, LeastNat
<1>4. e \in 1 .. Len(src) + 1 /\ CharAt(e) = NUL /\ \A m \in 1 .. e - 1 : CharAt(m) # NUL
  BY <1>1, <1>3
<1>5. /\ End \in 1 .. Len(src) + 1 /\ CharAt(End) = NUL
      /\ \A m \in 1 .. End - 1 : CharAt(m) # NUL
  BY <1>4 DEF End
<1>6. PICK n \in 1 .. Len(src) + 1 : n = End
  BY <1>5
<1>7. \A m \in 1 .. n - 1 : m \in 1 .. Len(src)
  BY <1>1
<1>8. \A p \in 1 .. Len(src) + 1 : Clean(p) => p <= n
  BY <1>1, <1>5, <1>6 DEF Clean
<1> QED BY <1>1, <1>5, <1>6, <1>7, <1>8 DEF CharAt

\* Where no blank and no comment begins, no piece of trivia does.
LEMMA NoPiece ==
  ASSUME src \in Sources, NEW f \in 1 .. End - 1, CharAt(f) \notin Blanks,
         ~(CharAt(f) = "/" /\ CharAt(f + 1) \in {"/", "*"})
  PROVE  \A j \in f .. End - 1 : ~Piece(f, j)
<1> SUFFICES ASSUME NEW j \in f .. End - 1, Piece(f, j) PROVE FALSE
  OBVIOUS
<1>1. CharAt(f) = src[f]
  BY EndFacts
<1>2. j > f => f + 1 \in 1 .. End - 1
  BY EndFacts
<1>3. j > f => CharAt(f + 1) = src[f + 1]
  BY <1>2, EndFacts
<1> QED BY <1>1, <1>3 DEF Piece

\* Inside a part that begins with a quote, characters are escaped as in the
\* whole text.
LEMMA EscapedIn ==
  ASSUME src \in Sources, NEW f \in 1 .. Len(src), NEW j \in f .. Len(src), CharAt(f) = Quote,
         NEW n \in f + 1 .. j
  PROVE  Escaped(SubSeq(src, f, j), n - f + 1) <=> Escaped(src, n)
<1>1. PICK s : s = SubSeq(src, f, j)
  OBVIOUS
<1>2. PICK l \in Nat : l = Len(src) /\ f \in 1 .. l /\ j \in f .. l
  BY TextFacts
<1>3. /\ \A i \in 1 .. j - f + 1 : s[i] = CharAt(f + i - 1)
      /\ \A k \in 1 .. l : CharAt(k) = src[k]
  BY <1>1, <1>2, Slice, TextFacts DEF CharAt
<1>4. src[f] # "\\" /\ s[1] # "\\"
  <2>1. 1 \in 1 .. j - f + 1 /\ f + 1 - 1 = f
    BY <1>2
  <2> QED BY <1>2, <1>3, <2>1, QuoteIs
<1>5. ASSUME Escaped(s, n - f + 1) PROVE Escaped(src, n)
  <2>1. PICK b \in 1 .. (n - f + 1) - 1 :
          /\ ((n - f + 1) - b) % 2 = 1 /\ All(s, b, (n - f + 1) - 1, {"\\"})
          /\ b = 1 \/ s[b - 1] # "\\"
    BY <1>5 DEF Escaped
  <2>2. b # 1
    <3>1. b = 1 => 1 \in b .. (n - f + 1) - 1
      BY <1>2
    <3> QED BY <1>4, <2>1, <3>1 DEF All
  <2>3. PICK d \in f + 1 .. n - 1 : d = b + f - 1
    BY <1>2, <2>1, <2>2
  <2>4. d \in 1 .. n - 1 /\ n - d = (n - f + 1) - b /\ d - 1 \in 1 .. l /\ b - 1 \in 1 .. j - f + 1
        /\ f + (b - 1) - 1 = d - 1
    BY <1>2, <2>1, <2>2, <2>3
  <2>5. \A k \in d .. n - 1 : /\ k - f + 1 \in b .. (n - f + 1) - 1 /\ k - f + 1 \in 1 .. j - f + 1
                              /\ f + (k - f + 1) - 1 = k /\ k \in 1 .. l
    BY <1>2, <2>1, <2>2, <2>3
  <2>6. All(src, d, n - 1, {"\\"})
    <3>1. ASSUME NEW k \in d .. n - 1 PROVE src[k] \in {"\\"}
      <4>1. PICK i \in b .. (n - f + 1) - 1 : i \in 1 .. j - f + 1 /\ f + i - 1 = k /\ k \in 1 .. l
        BY <2>5
      <4> QED BY <1>3, <2>1, <4>1 DEF All
    <3> QED BY <3>1 DEF All
  <2>7. src[d - 1] # "\\"
    BY <1>3, <2>1, <2>2, <2>4
  <2> QED BY <2>1, <2>4, <2>6, <2>7 DEF Escaped
<1>6. ASSUME Escaped(src, n) PROVE Escaped(s, n - f + 1)
  <2>1. PICK d \in 1 .. n - 1 : /\ (n - d) % 2 = 1 /\ All(src, d, n - 1, {"\\"})
                                /\ d = 1 \/ src[d - 1] # "\\"
    BY <1>6 DEF Escaped
  <2>2. d > f
    <3>1. d <= f => f \in d .. n - 1
      BY <1>2
    <3>2. ~(d <= f)
      BY <1>4, <2>1, <3>1 DEF All
    <3> QED BY <1>2, <3>2
  <2>3. PICK b \in 2 .. n - f : b = d - f + 1
    BY <1>2, <2>1, <2>2
  <2>4. /\ b \in 1 .. (n - f + 1) - 1 /\ n - d = (n - f + 1) - b /\ d - 1 \in 1 .. l
        /\ b - 1 \in 1 .. j - f + 1 /\ f + (b - 1) - 1 = d - 1 /\ d # 1
    BY <1>2, <2>1, <2>2, <2>3
  <2>5. \A i \in b .. (n - f + 1) - 1 : /\ f + i - 1 \in d .. n - 1 /\ i \in 1 .. j - f + 1
                                        /\ f + i - 1 \in 1 .. l
    BY <1>2, <2>1, <2>2, <2>3
  <2>6. All(s, b, (n - f + 1) - 1, {"\\"})
    <3>1. ASSUME NEW i \in b .. (n - f + 1) - 1 PROVE s[i] \in {"\\"}
      <4>1. PICK k \in d .. n - 1 : k = f + i - 1 /\ i \in 1 .. j - f + 1 /\ k \in 1 .. l
        BY <2>5
      <4> QED BY <1>3, <2>1, <4>1 DEF All
    <3> QED BY <3>1 DEF All
  <2>7. s[b - 1] # "\\"
    BY <1>3, <2>1, <2>4
  <2> QED BY <2>1, <2>4, <2>6, <2>7 DEF Escaped
<1> QED BY <1>1, <1>5, <1>6

(* What each kind looks like where it stands in the text, from f up to e,    *)
(* without e.                                                                *)
Based(f, e, letters, digits) ==
  e >= f + 2 /\ CharAt(f) = "0" /\ CharAt(f + 1) \in letters /\ Span(f + 2, e, digits)

Fractional(f, e) == \E p \in f + 1 .. e - 2 : /\ CharAt(p) = "." /\ Span(f, p, Decimal)
                                              /\ Span(p + 1, e, Decimal)

OneChar(f, e) ==
  /\ CharAt(f) = Apostrophe
  /\ \/ e = f + 3 /\ CharAt(f + 1) \notin {"\\", "\n"} /\ CharAt(f + 2) = Apostrophe
     \/ e = f + 4 /\ CharAt(f + 1) = "\\" /\ CharAt(f + 2) \in Escapes /\ CharAt(f + 3) = Apostrophe

IntAt(f, e) == \/ Span(f, e, Decimal)
               \/ Based(f, e, {"x", "X"}, Digits.hex) \/ Based(f, e, {"b", "B"}, Digits.binary)
               \/ OneChar(f, e)

StringAt(f, e) ==
  /\ e >= f + 2 /\ CharAt(f) = Quote /\ CharAt(e - 1) = Quote
  /\ \A n \in f + 1 .. e - 1 : CharAt(n) = Quote => (n = e - 1 <=> ~Escaped(src, n))

SymbolAt(f, e) ==
  CharAt(f) \in Symbols /\ (e = f + 1 \/ (e = f + 2 /\ CharAt(f + 1) \in Follows(CharAt(f))))

\* The places of the first characters and of the last.
LEMMA SliceEnds ==
  ASSUME src \in Sources, NEW f \in 1 .. Len(src), NEW e \in f + 1 .. Len(src) + 1,
         NEW s, s = SubSeq(src, f, e - 1)
  PROVE  /\ f \in Nat /\ e \in Nat /\ e - f \in Nat /\ s \in Seq(STRING) /\ Len(s) = e - f
         /\ e - 1 \in f .. Len(src)
         /\ \A i \in 1 .. e - f : s[i] = CharAt(f + i - 1)
         /\ s[1] = CharAt(f)
         /\ e >= f + 2 => s[2] = CharAt(f + 1)
         /\ s[Len(s)] = CharAt(e - 1)
<1>1. Len(src) \in Nat
  BY TextFacts
<1>2. f \in Nat /\ e \in Nat /\ e - f \in Nat /\ e - 1 \in f .. Len(src)
  BY <1>1
<1>3. PICK j \in f .. Len(src) : j = e - 1
  BY <1>2
<1>4. j - f + 1 = e - f
  BY <1>2, <1>3
<1>5. s \in Seq(STRING) /\ Len(s) = e - f /\ \A i \in 1 .. e - f : s[i] = CharAt(f + i - 1)
  BY <1>3, <1>4, Slice
<1>6. /\ 1 \in 1 .. e - f /\ f + 1 - 1 = f
      /\ e >= f + 2 => 2 \in 1 .. e - f /\ f + 2 - 1 = f + 1
      /\ e - f \in 1 .. e - f /\ f + (e - f) - 1 = e - 1
  BY <1>2
<1> QED BY <1>2, <1>5, <1>6

\* A class of characters, from a place of the part to its end.
LEMMA SliceRest ==
  ASSUME src \in Sources, NEW f \in 1 .. Len(src), NEW e \in f + 1 .. Len(src) + 1,
         NEW s, s = SubSeq(src, f, e - 1), NEW chars
  PROVE  /\ All(s, 1, Len(s), chars) <=> Span(f, e, chars)
         /\ All(s, 3, Len(s), chars) <=> Span(f + 2, e, chars)
         /\ \A p \in 2 .. Len(s) - 1 : /\ All(s, 1, p - 1, chars) <=> Span(f, f + p - 1, chars)
                                       /\ All(s, p + 1, Len(s), chars) <=> Span(f + p, e, chars)
<1>1. f \in Nat /\ e \in Nat /\ e - f \in Nat /\ Len(s) = e - f
  BY SliceEnds
<1>2. PICK j \in f .. Len(src) : j = e - 1
  BY SliceEnds
<1>3. ASSUME NEW a \in Nat \ {0}, NEW b \in Nat, b <= e - f
      PROVE  All(s, a, b, chars) <=> Span(f + a - 1, f + b, chars)
  <2>1. b <= j - f + 1
    BY <1>1, <1>2, <1>3
  <2> QED BY <1>2, <2>1, SliceAll
<1>4. All(s, 1, e - f, chars) <=> Span(f + 1 - 1, f + (e - f), chars)
  BY <1>1, <1>3
<1>5. All(s, 3, e - f, chars) <=> Span(f + 3 - 1, f + (e - f), chars)
  BY <1>1, <1>3
<1>6. ASSUME NEW p \in 2 .. Len(s) - 1
      PROVE  /\ All(s, 1, p - 1, chars) <=> Span(f, f + p - 1, chars)
             /\ All(s, p + 1, Len(s), chars) <=> Span(f + p, e, chars)
  <2>1. p - 1 \in Nat /\ p - 1 <= e - f /\ p + 1 \in Nat \ {0}
    BY <1>1
  <2>2. All(s, 1, p - 1, chars) <=> Span(f + 1 - 1, f + (p - 1), chars)
    BY <1>3, <2>1
  <2>3. All(s, p + 1, e - f, chars) <=> Span(f + (p + 1) - 1, f + (e - f), chars)
    BY <1>1, <1>3, <2>1
  <2>4. f + 1 - 1 = f /\ f + (p - 1) = f + p - 1 /\ f + (p + 1) - 1 = f + p /\ f + (e - f) = e
    BY <1>1
  <2> QED BY <1>1, <2>2, <2>3, <2>4
<1>7. f + 1 - 1 = f /\ f + 3 - 1 = f + 2 /\ f + (e - f) = e
  BY <1>1
<1> QED BY <1>1, <1>4, <1>5, <1>6, <1>7

\* Sequences of one and of two elements.
LEMMA OneLong ==
  ASSUME NEW S, NEW s \in Seq(S)
  PROVE  (Len(s) = 1 => s = <<s[1]>>) /\ (Len(s) = 2 => s = <<s[1], s[2]>>)
<1>1. ASSUME Len(s) = 1 PROVE s = <<s[1]>>
  <2>1. s[1] \in S
    BY <1>1
  <2>2. <<s[1]>> \in Seq(S) /\ Len(<<s[1]>>) = 1 /\ <<s[1]>>[1] = s[1]
    BY <2>1
  <2>3. \A i \in 1 .. 1 : i = 1
    OBVIOUS
  <2> QED BY <1>1, <2>2, <2>3, SeqEqual
<1>2. ASSUME Len(s) = 2 PROVE s = <<s[1], s[2]>>
  <2>0. 1 \in 1 .. Len(s) /\ 2 \in 1 .. Len(s)
    BY <1>2
  <2>1. s[1] \in S /\ s[2] \in S
    BY <2>0, ElementOfSeq
  <2>2. /\ <<s[1], s[2]>> \in Seq(S) /\ Len(<<s[1], s[2]>>) = 2
        /\ <<s[1], s[2]>>[1] = s[1] /\ <<s[1], s[2]>>[2] = s[2]
    BY <2>1
  <2>3. \A i \in 1 .. 2 : i = 1 \/ i = 2
    OBVIOUS
  <2> QED BY <1>2, <2>2, <2>3, SeqEqual
<1> QED BY <1>1, <1>2

\* A part of the text looks like a number if its characters do.
LEMMA NumberLooks ==
  ASSUME src \in Sources, NEW f \in 1 .. Len(src), NEW e \in f + 1 .. Len(src) + 1,
         NEW s, s = SubSeq(src, f, e - 1)
  PROVE  /\ Looks("int", s) <=> IntAt(f, e)
         /\ Looks("float", s) <=> Fractional(f, e)
<1>1. /\ f \in Nat /\ e \in Nat /\ e - f \in Nat /\ s \in Seq(STRING) /\ Len(s) = e - f
      /\ e - 1 \in f .. Len(src)
      /\ \A i \in 1 .. e - f : s[i] = CharAt(f + i - 1)
      /\ s[1] = CharAt(f)
      /\ e >= f + 2 => s[2] = CharAt(f + 1)
      /\ s[Len(s)] = CharAt(e - 1)
  BY SliceEnds, SMTT(60)
<1>0. (e >= f + 3 => s[3] = CharAt(f + 2)) /\ (e >= f + 4 => s[4] = CharAt(f + 3))
  <2>1. e >= f + 3 => 3 \in 1 .. e - f /\ f + 3 - 1 = f + 2
    BY <1>1
  <2>2. e >= f + 4 => 4 \in 1 .. e - f /\ f + 4 - 1 = f + 3
    BY <1>1
  <2> QED BY <1>1, <2>1, <2>2
<1>2. /\ Len(s) > 1 <=> e >= f + 2
      /\ Len(s) = 3 <=> e = f + 3
      /\ Len(s) = 4 <=> e = f + 4
  BY <1>1
<1>3. ASSUME NEW chars PROVE /\ All(s, 1, Len(s), chars) <=> Span(f, e, chars)
                             /\ All(s, 3, Len(s), chars) <=> Span(f + 2, e, chars)
  BY SliceRest
<1>4. Looks("int", s) <=> IntAt(f, e)
  <2>1. ASSUME NEW letters, NEW digits
        PROVE  (Len(s) > 1 /\ s[1] = "0" /\ s[2] \in letters /\ All(s, 3, Len(s), digits))
                 <=> Based(f, e, letters, digits)
    BY <1>1, <1>2, <1>3 DEF Based
  <2>2. (\/ Len(s) = 3 /\ s[1] = Apostrophe /\ s[3] = Apostrophe /\ s[2] \notin {"\\", "\n"}
         \/ Len(s) = 4 /\ s[1] = Apostrophe /\ s[4] = Apostrophe /\ s[2] = "\\" /\ s[3] \in Escapes)
           <=> OneChar(f, e)
    <3>1. CASE e = f + 3
      <4>1. e >= f + 2 /\ e >= f + 3 /\ ~(e = f + 4)
        BY <1>1, <3>1
      <4> QED BY <1>0, <1>1, <1>2, <3>1, <4>1 DEF OneChar
    <3>2. CASE e = f + 4
      <4>1. e >= f + 2 /\ e >= f + 3 /\ e >= f + 4 /\ ~(e = f + 3)
        BY <1>1, <3>2
      <4> QED BY <1>0, <1>1, <1>2, <3>2, <4>1 DEF OneChar
    <3>3. CASE ~(e = f + 3) /\ ~(e = f + 4)
      BY <1>2, <3>3 DEF OneChar
    <3> QED BY <3>1, <3>2, <3>3
  <2>3. All(s, 1, Len(s), Decimal) <=> Span(f, e, Decimal)
    BY <1>3
  <2>4. (Len(s) > 1 /\ s[1] = "0" /\ s[2] \in {"x", "X"} /\ All(s, 3, Len(s), Digits.hex))
          <=> Based(f, e, {"x", "X"}, Digits.hex)
    BY <2>1
  <2>5. (Len(s) > 1 /\ s[1] = "0" /\ s[2] \in {"b", "B"} /\ All(s, 3, Len(s), Digits.binary))
          <=> Based(f, e, {"b", "B"}, Digits.binary)
    BY <2>1
  <2> QED BY <2>2, <2>3, <2>4, <2>5, LooksAre, Zenon DEF IntAt
<1>5. Looks("float", s) <=> Fractional(f, e)
  <2>1. ASSUME NEW p \in 2 .. Len(s) - 1
        PROVE  /\ s[p] = CharAt(f + p - 1)
               /\ All(s, 1, p - 1, Decimal) <=> Span(f, f + p - 1, Decimal)
               /\ All(s, p + 1, Len(s), Decimal) <=> Span(f + p, e, Decimal)
    <3>1. p \in 1 .. e - f
      BY <1>1
    <3> QED BY <1>1, <3>1, SliceRest
  <2>2. ASSUME Looks("float", s) PROVE Fractional(f, e)
    <3>1. PICK p \in 2 .. Len(s) - 1 : /\ s[p] = "." /\ All(s, 1, p - 1, Decimal)
                                       /\ All(s, p + 1, Len(s), Decimal)
      BY <2>2, LooksAre
    <3>2. PICK q \in f + 1 .. e - 2 : q = f + p - 1 /\ q + 1 = f + p
      BY <1>1
    <3>3. CharAt(q) = "." /\ Span(f, q, Decimal) /\ Span(q + 1, e, Decimal)
      BY <2>1, <3>1, <3>2
    <3> QED BY <3>3 DEF Fractional
  <2>3. ASSUME Fractional(f, e) PROVE Looks("float", s)
    <3>1. PICK q \in f + 1 .. e - 2 : /\ CharAt(q) = "." /\ Span(f, q, Decimal)
                                      /\ Span(q + 1, e, Decimal)
      BY <2>3 DEF Fractional
    <3>2. PICK p \in 2 .. Len(s) - 1 : q = f + p - 1 /\ q + 1 = f + p
      <4>1. q - f + 1 \in 2 .. (e - f) - 1 /\ q = f + (q - f + 1) - 1 /\ q + 1 = f + (q - f + 1)
        BY <1>1
      <4> QED BY <1>1, <4>1
    <3>3. s[p] = "." /\ All(s, 1, p - 1, Decimal) /\ All(s, p + 1, Len(s), Decimal)
      BY <2>1, <3>1, <3>2
    <3> QED BY <3>3, LooksAre
  <2> QED BY <2>2, <2>3
<1> QED BY <1>4, <1>5

\* And like a word, a string or an operator.
LEMMA OtherLooks ==
  ASSUME src \in Sources, NEW f \in 1 .. Len(src), NEW e \in f + 1 .. Len(src) + 1,
         NEW s, s = SubSeq(src, f, e - 1)
  PROVE  /\ Looks("word", s) <=> CharAt(f) \notin Decimal /\ Span(f, e, WordChars)
         /\ Looks("string", s) <=> StringAt(f, e)
         /\ Looks("symbol", s) <=> SymbolAt(f, e)
<1>1. /\ f \in Nat /\ e \in Nat /\ e - f \in Nat /\ s \in Seq(STRING) /\ Len(s) = e - f
      /\ e - 1 \in f .. Len(src)
      /\ \A i \in 1 .. e - f : s[i] = CharAt(f + i - 1)
      /\ s[1] = CharAt(f)
      /\ e >= f + 2 => s[2] = CharAt(f + 1)
      /\ s[Len(s)] = CharAt(e - 1)
  BY SliceEnds, SMTT(60)
<1>2. Looks("word", s) <=> CharAt(f) \notin Decimal /\ Span(f, e, WordChars)
  <2>1. All(s, 1, Len(s), WordChars) <=> Span(f, e, WordChars)
    BY SliceRest
  <2> QED BY <1>1, <2>1, LooksAre
<1>3. Looks("string", s) <=> StringAt(f, e)
  <2>1. Len(s) > 1 <=> e >= f + 2
    BY <1>1
  <2> SUFFICES ASSUME e >= f + 2, CharAt(f) = Quote
               PROVE  Looks("string", s) <=> StringAt(f, e)
    BY <1>1, <2>1, LooksAre DEF StringAt
  <2>2. PICK j \in f .. Len(src) : j = e - 1
    BY <1>1
  <2>3. ASSUME NEW n \in f + 1 .. e - 1, NEW i \in 2 .. Len(s), i = n - f + 1
        PROVE  s[i] = CharAt(n) /\ (Escaped(s, i) <=> Escaped(src, n)) /\ (i = Len(s) <=> n = e - 1)
    <3>1. i \in 1 .. e - f /\ f + i - 1 = n /\ (i = Len(s) <=> n = e - 1) /\ n \in f + 1 .. j
      BY <1>1, <2>2, <2>3
    <3>2. Escaped(SubSeq(src, f, j), n - f + 1) <=> Escaped(src, n)
      BY <2>2, <3>1, EscapedIn
    <3>3. s[i] = CharAt(f + i - 1)
      BY <1>1, <3>1
    <3> QED BY <2>2, <2>3, <3>1, <3>2, <3>3
  <2>4. ASSUME \A i \in 2 .. Len(s) : s[i] = Quote => (i = Len(s) <=> ~Escaped(s, i)),
               NEW n \in f + 1 .. e - 1
        PROVE  CharAt(n) = Quote => (n = e - 1 <=> ~Escaped(src, n))
    <3>1. PICK i \in 2 .. Len(s) : i = n - f + 1
      BY <1>1
    <3>2. s[i] = CharAt(n) /\ (Escaped(s, i) <=> Escaped(src, n)) /\ (i = Len(s) <=> n = e - 1)
      BY <2>3, <3>1
    <3>3. s[i] = Quote => (i = Len(s) <=> ~Escaped(s, i))
      BY <2>4
    <3> QED BY <3>2, <3>3, Zenon
  <2>5. ASSUME \A n \in f + 1 .. e - 1 : CharAt(n) = Quote => (n = e - 1 <=> ~Escaped(src, n)),
               NEW i \in 2 .. Len(s)
        PROVE  s[i] = Quote => (i = Len(s) <=> ~Escaped(s, i))
    <3>1. PICK n \in f + 1 .. e - 1 : i = n - f + 1
      <4>1. i + f - 1 \in f + 1 .. e - 1 /\ i = (i + f - 1) - f + 1
        BY <1>1
      <4> QED BY <4>1
    <3>2. s[i] = CharAt(n) /\ (Escaped(s, i) <=> Escaped(src, n)) /\ (i = Len(s) <=> n = e - 1)
      BY <2>3, <3>1
    <3>3. CharAt(n) = Quote => (n = e - 1 <=> ~Escaped(src, n))
      BY <2>5
    <3> QED BY <3>2, <3>3, Zenon
  <2>6. (\A i \in 2 .. Len(s) : s[i] = Quote => (i = Len(s) <=> ~Escaped(s, i)))
          <=> \A n \in f + 1 .. e - 1 : CharAt(n) = Quote => (n = e - 1 <=> ~Escaped(src, n))
    BY <2>4, <2>5
  <2>7. Looks("string", s) <=>
          /\ Len(s) > 1 /\ s[1] = Quote /\ s[Len(s)] = Quote
          /\ \A i \in 2 .. Len(s) : s[i] = Quote => (i = Len(s) <=> ~Escaped(s, i))
    BY LooksAre
  <2> QED BY <1>1, <2>1, <2>6, <2>7, Zenon DEF StringAt
<1>4. Looks("symbol", s) <=> SymbolAt(f, e)
  <2>1. ASSUME s \in Spellings PROVE SymbolAt(f, e)
    <3>1. s[1] \in Symbols /\ (Len(s) = 1 \/ (Len(s) = 2 /\ s[2] \in Follows(s[1])))
      BY <2>1, Spelled
    <3>2. CASE Len(s) = 1
      <4>1. e = f + 1
        BY <1>1, <3>2
      <4> QED BY <1>1, <3>1, <4>1 DEF SymbolAt
    <3>3. CASE Len(s) = 2 /\ s[2] \in Follows(s[1])
      <4>1. e = f + 2 /\ e >= f + 2
        BY <1>1, <3>3
      <4> QED BY <1>1, <3>1, <3>3, <4>1 DEF SymbolAt
    <3> QED BY <3>1, <3>2, <3>3
  <2>2. ASSUME SymbolAt(f, e) PROVE s \in Spellings
    <3>1. PICK c \in Symbols : c = CharAt(f)
      BY <2>2 DEF SymbolAt
    <3>2. CASE e = f + 1
      <4>1. Len(s) = 1 /\ s[1] = c
        BY <1>1, <3>1, <3>2
      <4>2. s = <<c>>
        BY <1>1, <4>1, OneLong
      <4> QED BY <4>2, Spells
    <3>3. CASE e = f + 2 /\ CharAt(f + 1) \in Follows(c)
      <4>1. PICK d \in Follows(c) : d = CharAt(f + 1)
        BY <3>3
      <4>2. Len(s) = 2 /\ s[1] = c /\ s[2] = d
        BY <1>1, <3>1, <3>3, <4>1
      <4>3. s = <<c, d>>
        BY <1>1, <4>2, OneLong
      <4> QED BY <4>3, Spells
    <3> QED BY <2>2, <3>1, <3>2, <3>3 DEF SymbolAt
  <2> QED BY <2>1, <2>2, LooksAre
<1> QED BY <1>2, <1>3, <1>4

\* What a lexeme is, by its first character.
LEMMA LexemeIs ==
  ASSUME src \in Sources, NEW f \in 1 .. End - 1, NEW j \in f .. End - 1, Lexeme(f, j)
  PROVE  /\ CharAt(f) \in Starts => Span(f, j + 1, WordChars)
         /\ CharAt(f) \in Symbols => SymbolAt(f, j + 1)
         /\ CharAt(f) = Quote => StringAt(f, j + 1)
         /\ CharAt(f) = Apostrophe => OneChar(f, j + 1)
         /\ CharAt(f) \in Decimal => \/ Span(f, j + 1, Decimal)
                                     \/ Based(f, j + 1, {"x", "X"}, Digits.hex)
                                     \/ Based(f, j + 1, {"b", "B"}, Digits.binary)
                                     \/ Fractional(f, j + 1)
         /\ \/ CharAt(f) \in Starts \/ CharAt(f) \in Symbols \/ CharAt(f) = Quote
            \/ CharAt(f) = Apostrophe \/ CharAt(f) \in Decimal
<1>1. End \in Nat /\ End - 1 <= Len(src) /\ Len(src) \in Nat
  BY EndFacts
<1>2. PICK e \in f + 1 .. Len(src) + 1 : e = j + 1 /\ e - 1 = j
  BY <1>1
<1>3. f \in 1 .. Len(src)
  BY <1>1
<1>4. PICK s : s = SubSeq(src, f, e - 1)
  OBVIOUS
<1>5. /\ e - f \in Nat /\ s \in Seq(STRING) /\ Len(s) = e - f
      /\ s[1] = CharAt(f)
  BY <1>3, <1>4, SliceEnds
<1>6. Len(s) >= 1
  BY <1>2, <1>3, <1>5, <1>1
<1>7. PICK k \in LexemeKinds : Looks(k, s)
  BY <1>2, <1>4 DEF Lexeme, LexemeKinds
<1>8. /\ k = "word" => CharAt(f) \in Starts
      /\ k = "int" => CharAt(f) \in Decimal \/ CharAt(f) = Apostrophe
      /\ k = "float" => CharAt(f) \in Decimal
      /\ k = "string" => CharAt(f) = Quote
      /\ k = "symbol" => CharAt(f) \in Symbols
  BY <1>5, <1>6, <1>7, FirstChar
<1>9. /\ Looks("int", s) <=> IntAt(f, e)
      /\ Looks("float", s) <=> Fractional(f, e)
  BY <1>3, <1>4, NumberLooks
<1>10. /\ Looks("word", s) <=> CharAt(f) \notin Decimal /\ Span(f, e, WordChars)
       /\ Looks("string", s) <=> StringAt(f, e)
       /\ Looks("symbol", s) <=> SymbolAt(f, e)
  BY <1>3, <1>4, OtherLooks
<1>11. CASE k = "word"
  BY <1>2, <1>7, <1>8, <1>10, <1>11, Classes
<1>12. CASE k = "int"
  <2>1. OneChar(f, e) => CharAt(f) = Apostrophe
    BY DEF OneChar
  <2>2. "0" \in Decimal
    BY DEF Decimal
  <2>3. Based(f, e, {"x", "X"}, Digits.hex) \/ Based(f, e, {"b", "B"}, Digits.binary)
          => CharAt(f) \in Decimal
    BY <2>2 DEF Based
  <2>4. Span(f, e, Decimal) => CharAt(f) \in Decimal
    <3>1. f \in f .. e - 1
      BY <1>2
    <3> QED BY <3>1 DEF Span
  <2>5. IntAt(f, e)
    BY <1>7, <1>9, <1>12
  <2> QED BY <1>2, <1>8, <1>12, <2>1, <2>3, <2>4, <2>5, Classes DEF IntAt
<1>13. CASE k = "float"
  BY <1>2, <1>7, <1>8, <1>9, <1>13, Classes
<1>14. CASE k = "string"
  BY <1>2, <1>7, <1>8, <1>10, <1>14, Classes
<1>15. CASE k = "symbol"
  BY <1>2, <1>7, <1>8, <1>10, <1>15, Classes
<1> QED BY <1>11, <1>12, <1>13, <1>14, <1>15 DEF LexemeKinds
-----------------------------------------------------------------------------
(* Each loop stops where no longer lexeme ends.                              *)

\* No lexeme from f ends at e - 1 or later: that of the text up to e is longest.
Longest(f, e) == \A j \in e .. End - 1 : ~Lexeme(f, j)

\* Words.
LEMMA WordBest ==
  ASSUME src \in Sources, NEW f \in 1 .. End - 1, NEW e \in f + 1 .. End,
         CharAt(f) \in Starts, Span(f, e, WordChars), CharAt(e) \notin WordChars
  PROVE  Looks("word", SubSeq(src, f, e - 1)) /\ Longest(f, e)
<1>1. End \in Nat /\ f \in 1 .. Len(src) /\ e \in f + 1 .. Len(src) + 1 /\ e \in Nat
  BY EndFacts
<1>2. Looks("word", SubSeq(src, f, e - 1))
  BY <1>1, OtherLooks, Classes
<1>3. ASSUME NEW j \in e .. End - 1, Lexeme(f, j) PROVE FALSE
  <2>1. j \in f .. End - 1 /\ e \in f .. (j + 1) - 1
    BY <1>1
  <2>2. Span(f, j + 1, WordChars)
    BY <1>3, <2>1, LexemeIs
  <2> QED BY <2>1, <2>2 DEF Span
<1> QED BY <1>2, <1>3 DEF Longest

\* Operators of one character and of two.
LEMMA SymbolBest ==
  ASSUME src \in Sources, NEW f \in 1 .. End - 1, NEW e \in f + 1 .. End, CharAt(f) \in Symbols,
         \/ e = f + 1 /\ CharAt(e) \notin Follows(CharAt(f))
         \/ e = f + 2 /\ CharAt(f + 1) \in Follows(CharAt(f))
  PROVE  Looks("symbol", SubSeq(src, f, e - 1)) /\ Longest(f, e)
<1>1. End \in Nat /\ f \in 1 .. Len(src) /\ e \in f + 1 .. Len(src) + 1 /\ e \in Nat
  BY EndFacts
<1>2. SymbolAt(f, e)
  BY DEF SymbolAt
<1>3. Looks("symbol", SubSeq(src, f, e - 1))
  BY <1>1, <1>2, OtherLooks
<1>4. ASSUME NEW j \in e .. End - 1, Lexeme(f, j) PROVE FALSE
  <2>1. j \in f .. End - 1 /\ j + 1 # f + 1 /\ (j + 1 = f + 2 => e = f + 1)
    BY <1>1
  <2>2. SymbolAt(f, j + 1)
    BY <1>4, <2>1, LexemeIs
  <2>3. j + 1 = f + 2 /\ CharAt(f + 1) \in Follows(CharAt(f))
    BY <2>1, <2>2 DEF SymbolAt
  <2> QED BY <1>1, <2>1, <2>3
<1> QED BY <1>3, <1>4 DEF Longest

\* Strings.
LEMMA StringBest ==
  ASSUME src \in Sources, NEW f \in 1 .. End - 1, NEW e \in f + 2 .. End, CharAt(f) = Quote,
         CharAt(e - 1) = Quote, ~Escaped(src, e - 1),
         \A n \in f + 1 .. e - 2 : CharAt(n) = Quote => Escaped(src, n)
  PROVE  Looks("string", SubSeq(src, f, e - 1)) /\ Longest(f, e)
<1>1. /\ End \in Nat /\ f \in 1 .. Len(src) /\ e \in f + 1 .. Len(src) + 1 /\ e \in Nat
      /\ e - 1 \in f + 1 .. End - 1
  BY EndFacts
<1>2. StringAt(f, e)
  <2>1. e >= f + 2 /\ \A n \in f + 1 .. e - 1 : n = e - 1 \/ n \in f + 1 .. e - 2
    BY <1>1
  <2>2. \A n \in f + 1 .. e - 2 : n # e - 1
    BY <1>1
  <2> QED BY <2>1, <2>2 DEF StringAt
<1>3. Looks("string", SubSeq(src, f, e - 1))
  BY <1>1, <1>2, OtherLooks
<1>4. ASSUME NEW j \in e .. End - 1, Lexeme(f, j) PROVE FALSE
  <2>1. j \in f .. End - 1 /\ e - 1 \in f + 1 .. (j + 1) - 1 /\ e - 1 # (j + 1) - 1
    BY <1>1
  <2>2. StringAt(f, j + 1)
    BY <1>4, <2>1, LexemeIs
  <2> QED BY <2>1, <2>2 DEF StringAt
<1> QED BY <1>3, <1>4 DEF Longest

\* A string that is never closed is no lexeme.
LEMMA StringOpen ==
  ASSUME src \in Sources, NEW f \in 1 .. End - 1, CharAt(f) = Quote,
         \A n \in f + 1 .. End - 1 : CharAt(n) = Quote => Escaped(src, n)
  PROVE  Longest(f, f)
<1>1. End \in Nat
  BY EndFacts
<1>2. ASSUME NEW j \in f .. End - 1, Lexeme(f, j) PROVE FALSE
  <2>1. StringAt(f, j + 1)
    BY <1>2, LexemeIs
  <2>2. (j + 1) - 1 = j /\ (j + 1 >= f + 2 => j \in f + 1 .. End - 1 /\ j \in f + 1 .. (j + 1) - 1)
    BY <1>1
  <2> QED BY <2>1, <2>2 DEF StringAt
<1> QED BY <1>2 DEF Longest

\* A point and the letters of the bases are no digits.
LEMMA BaseLetters ==
  /\ "." \notin Decimal /\ "x" \notin Decimal /\ "X" \notin Decimal
  /\ "b" \notin Decimal /\ "B" \notin Decimal
BY DEF Decimal

\* What ends where can be a number that begins with a digit.
LEMMA LongerNumber ==
  ASSUME src \in Sources, NEW f \in 1 .. End - 1, NEW j \in f .. End - 1, Lexeme(f, j),
         CharAt(f) \in Decimal
  PROVE  \/ Span(f, j + 1, Decimal)
         \/ Based(f, j + 1, {"x", "X"}, Digits.hex)
         \/ Based(f, j + 1, {"b", "B"}, Digits.binary)
         \/ \E p \in f + 1 .. (j + 1) - 2 : /\ CharAt(p) = "." /\ Span(f, p, Decimal)
                                           /\ Span(p + 1, j + 1, Decimal)
BY LexemeIs DEF Fractional

\* Digits only.
LEMMA DecimalBest ==
  ASSUME src \in Sources, NEW f \in 1 .. End - 1, NEW e \in f + 1 .. End,
         Span(f, e, Decimal), CharAt(e) \notin Decimal,
         ~(CharAt(e) = "." /\ CharAt(e + 1) \in Decimal),
         CharAt(f) = "0" => CharAt(f + 1) \notin {"x", "X", "b", "B"}
  PROVE  Looks("int", SubSeq(src, f, e - 1)) /\ Longest(f, e)
<1>1. End \in Nat /\ f \in 1 .. Len(src) /\ e \in f + 1 .. Len(src) + 1 /\ e \in Nat
  BY EndFacts
<1>2. Looks("int", SubSeq(src, f, e - 1))
  BY <1>1, NumberLooks DEF IntAt
<1>3. CharAt(f) \in Decimal
  <2>1. f \in f .. e - 1
    BY <1>1
  <2> QED BY <2>1 DEF Span
<1>4. ASSUME NEW j \in e .. End - 1, Lexeme(f, j) PROVE FALSE
  <2>1. j \in f .. End - 1 /\ e \in f .. (j + 1) - 1
    BY <1>1
  <2>2. ~Span(f, j + 1, Decimal)
    BY <2>1 DEF Span
  <2>3. ~Based(f, j + 1, {"x", "X"}, Digits.hex) /\ ~Based(f, j + 1, {"b", "B"}, Digits.binary)
    BY DEF Based
  <2>4. PICK p \in f + 1 .. (j + 1) - 2 : /\ CharAt(p) = "." /\ Span(f, p, Decimal)
                                          /\ Span(p + 1, j + 1, Decimal)
    BY <1>3, <1>4, <2>1, <2>2, <2>3, LongerNumber
  <2>5. CASE p < e
    <3>1. p \in f .. e - 1
      BY <1>1, <2>5
    <3> QED BY <2>4, <3>1, BaseLetters DEF Span
  <2>6. CASE p = e
    <3>1. e + 1 \in p + 1 .. (j + 1) - 1
      BY <1>1, <2>6
    <3> QED BY <2>4, <2>6, <3>1 DEF Span
  <2>7. CASE p > e
    <3>1. e \in f .. p - 1
      BY <1>1, <2>7
    <3> QED BY <2>4, <3>1 DEF Span
  <2> QED BY <1>1, <2>5, <2>6, <2>7
<1> QED BY <1>2, <1>4 DEF Longest

\* Digits of another base.
LEMMA BasedBest ==
  ASSUME src \in Sources, NEW f \in 1 .. End - 1, NEW e \in f + 1 .. End,
         NEW letters, NEW digits,
         \/ letters = {"x", "X"} /\ digits = Digits.hex
         \/ letters = {"b", "B"} /\ digits = Digits.binary,
         Based(f, e, letters, digits), CharAt(e) \notin digits
  PROVE  Looks("int", SubSeq(src, f, e - 1)) /\ Longest(f, e)
<1>1. End \in Nat /\ f \in 1 .. Len(src) /\ e \in f + 1 .. Len(src) + 1 /\ e \in Nat
  BY EndFacts
<1>2. Looks("int", SubSeq(src, f, e - 1))
  BY <1>1, NumberLooks DEF IntAt
<1>3. /\ e >= f + 2 /\ CharAt(f) = "0" /\ CharAt(f + 1) \in letters
      /\ CharAt(f + 1) \notin Decimal /\ CharAt(f + 1) # "." /\ CharAt(f) \in Decimal
  <2>1. "0" \in Decimal
    BY DEF Decimal
  <2> QED BY <2>1, BaseLetters DEF Based
<1>4. ASSUME NEW j \in e .. End - 1, Lexeme(f, j) PROVE FALSE
  <2>1. /\ j \in f .. End - 1 /\ e \in f + 2 .. (j + 1) - 1 /\ f + 1 \in f .. (j + 1) - 1
        /\ f + 1 \in Nat
    BY <1>1, <1>3
  <2>2. ~Span(f, j + 1, Decimal)
    BY <1>3, <2>1 DEF Span
  <2>3. ~Based(f, j + 1, {"x", "X"}, Digits.hex) /\ ~Based(f, j + 1, {"b", "B"}, Digits.binary)
    <3>1. ~Based(f, j + 1, letters, digits)
      BY <2>1 DEF Based, Span
    <3>2. CASE letters = {"x", "X"} /\ digits = Digits.hex
      <4>1. CharAt(f + 1) \notin {"b", "B"}
        BY <1>3, <3>2
      <4> QED BY <3>1, <3>2, <4>1 DEF Based
    <3>3. CASE letters = {"b", "B"} /\ digits = Digits.binary
      <4>1. CharAt(f + 1) \notin {"x", "X"}
        BY <1>3, <3>3
      <4> QED BY <3>1, <3>3, <4>1 DEF Based
    <3> QED BY <3>2, <3>3
  <2>4. PICK p \in f + 1 .. (j + 1) - 2 : CharAt(p) = "." /\ Span(f, p, Decimal)
    BY <1>3, <1>4, <2>1, <2>2, <2>3, LongerNumber
  <2>5. p # f + 1
    BY <1>3, <2>4
  <2>6. f + 1 \in f .. p - 1
    BY <2>1, <2>5
  <2> QED BY <1>3, <2>4, <2>6 DEF Span
<1> QED BY <1>2, <1>4 DEF Longest

\* Digits around a point.
LEMMA FractionBest ==
  ASSUME src \in Sources, NEW f \in 1 .. End - 1, NEW e \in f + 1 .. End,
         NEW p \in f + 1 .. e - 2, CharAt(p) = ".", Span(f, p, Decimal), Span(p + 1, e, Decimal),
         CharAt(e) \notin Decimal
  PROVE  Looks("float", SubSeq(src, f, e - 1)) /\ Longest(f, e)
<1>1. /\ End \in Nat /\ f \in 1 .. Len(src) /\ e \in f + 1 .. Len(src) + 1 /\ e \in Nat
      /\ p \in Nat
  BY EndFacts
<1>2. Looks("float", SubSeq(src, f, e - 1))
  <2>1. Fractional(f, e)
    BY DEF Fractional
  <2> QED BY <1>1, <2>1, NumberLooks
<1>3. CharAt(f) \in Decimal
  <2>1. f \in f .. p - 1
    BY <1>1
  <2> QED BY <2>1 DEF Span
<1>4. ASSUME NEW j \in e .. End - 1, Lexeme(f, j) PROVE FALSE
  <2>1. j \in f .. End - 1 /\ p \in f .. (j + 1) - 1
    BY <1>1
  <2>2. ~Span(f, j + 1, Decimal)
    BY <2>1, BaseLetters DEF Span
  <2>3. CharAt(f + 1) \notin {"x", "X", "b", "B"}
    <3>1. CASE p = f + 1
      BY <3>1
    <3>2. CASE p # f + 1
      <4>1. f + 1 \in f .. p - 1
        BY <1>1, <3>2
      <4>2. CharAt(f + 1) \in Decimal
        BY <4>1 DEF Span
      <4> QED BY <4>2, BaseLetters
    <3> QED BY <3>1, <3>2
  <2>4. ~Based(f, j + 1, {"x", "X"}, Digits.hex) /\ ~Based(f, j + 1, {"b", "B"}, Digits.binary)
    BY <2>3 DEF Based
  <2>5. PICK q \in f + 1 .. (j + 1) - 2 : /\ CharAt(q) = "." /\ Span(f, q, Decimal)
                                          /\ Span(q + 1, j + 1, Decimal)
    BY <1>3, <1>4, <2>1, <2>2, <2>4, LongerNumber
  <2>6. CASE q < p
    <3>1. q \in f .. p - 1
      BY <1>1, <2>6
    <3> QED BY <2>5, <3>1, BaseLetters DEF Span
  <2>7. CASE q = p
    <3>1. e \in q + 1 .. (j + 1) - 1
      BY <1>1, <2>7
    <3> QED BY <2>5, <3>1 DEF Span
  <2>8. CASE q > p
    <3>1. p \in f .. q - 1
      BY <1>1, <2>8
    <3> QED BY <2>5, <3>1, BaseLetters DEF Span
  <2> QED BY <1>1, <2>6, <2>7, <2>8
<1> QED BY <1>2, <1>4 DEF Longest

\* Character literals.
LEMMA CharBest ==
  ASSUME src \in Sources, NEW f \in 1 .. End - 1, NEW e \in f + 1 .. End, OneChar(f, e)
  PROVE  Looks("int", SubSeq(src, f, e - 1)) /\ Longest(f, e)
<1>1. End \in Nat /\ f \in 1 .. Len(src) /\ e \in f + 1 .. Len(src) + 1 /\ e \in Nat
  BY EndFacts
<1>2. Looks("int", SubSeq(src, f, e - 1))
  BY <1>1, NumberLooks DEF IntAt
<1>3. ASSUME NEW j \in e .. End - 1, Lexeme(f, j) PROVE FALSE
  <2>1. j \in f .. End - 1 /\ j + 1 > e /\ CharAt(f) = Apostrophe
    BY <1>1 DEF OneChar
  <2>2. OneChar(f, j + 1)
    BY <1>3, <2>1, LexemeIs
  <2>3. j + 1 = f + 4 /\ CharAt(f + 1) = "\\"
    BY <1>1, <2>1, <2>2 DEF OneChar
  <2>4. e = f + 3 /\ CharAt(f + 1) # "\\"
    BY <1>1, <2>1, <2>3 DEF OneChar
  <2> QED BY <2>3, <2>4
<1> QED BY <1>2, <1>3 DEF Longest

\* What begins like a character literal and is none.
LEMMA CharNone ==
  ASSUME src \in Sources, NEW f \in 1 .. End - 1, CharAt(f) = Apostrophe,
         \A e \in f + 1 .. End : ~OneChar(f, e)
  PROVE  Longest(f, f)
<1>1. End \in Nat
  BY EndFacts
<1>2. ASSUME NEW j \in f .. End - 1, Lexeme(f, j) PROVE FALSE
  <2>1. OneChar(f, j + 1) /\ j + 1 \in f + 1 .. End
    BY <1>1, <1>2, LexemeIs
  <2> QED BY <2>1
<1> QED BY <1>2 DEF Longest

\* What begins like nothing.
LEMMA BadNone ==
  ASSUME src \in Sources, NEW f \in 1 .. End - 1, Loop(CharAt(f)) = "bad"
  PROVE  Longest(f, f)
<1>1. PICK c : c = CharAt(f)
  OBVIOUS
<1>2. c \notin Starts /\ c \notin Decimal /\ c \notin Symbols /\ c # Quote /\ c # Apostrophe
  BY <1>1, LoopsAre
<1>3. ASSUME NEW j \in f .. End - 1, Lexeme(f, j) PROVE FALSE
  BY <1>1, <1>2, <1>3, LexemeIs
<1> QED BY <1>3 DEF Longest
-----------------------------------------------------------------------------
(* What the loops have read, and what they make of it.                       *)

\* In each loop, what the text from f up to c is like.
Said(c, m, f) ==
  /\ m \in TokenModes => /\ CharAt(f) \notin Blanks
                         /\ ~(CharAt(f) = "/" /\ CharAt(f + 1) \in {"/", "*"})
  /\ m = "word" => CharAt(f) \in Starts /\ Span(f, c, WordChars)
  /\ m = "number" => CharAt(f) \in Decimal /\ c = f + 1
  /\ m = "decimal" => /\ Span(f, c, Decimal)
                      /\ CharAt(f) = "0" => CharAt(f + 1) \notin {"x", "X", "b", "B"}
  /\ m = "hex" => Based(f, c, {"x", "X"}, Digits.hex)
  /\ m = "binary" => Based(f, c, {"b", "B"}, Digits.binary)
  /\ m = "fraction" => \E p \in f + 1 .. c - 1 :
                         /\ CharAt(p) = "." /\ Span(f, p, Decimal) /\ Span(p + 1, c, Decimal)
                         /\ c = p + 1 => CharAt(c) \in Decimal
  /\ m \in {"symbol", "char", "bad"} => c = f + 1 /\ Loop(CharAt(f)) = m
  /\ m = "string" => /\ CharAt(f) = Quote
                     /\ \A n \in f + 1 .. c - 1 : CharAt(n) = Quote => Escaped(src, n)

\* What is promised of a token from f up to e.
Good(kind, f, e) ==
  /\ \A j \in f .. End - 1 : ~Piece(f, j)
  /\ kind \notin {"eof", "error"} => Looks(kind, SubSeq(src, f, e - 1)) /\ Longest(f, e)
  /\ kind = "error" => Longest(f, f)

Munched(ts) == ts # <<>> => Good(ts[Len(ts)].kind, ts[Len(ts)].from, ts[Len(ts)].to)

MInv == Said(cur.p, mode, first.p) /\ Munched(toks)

\* The text does not change.
LEMMA NextMInv ==
  ASSUME UNCHANGED src, Said(cur'.p, mode', first'.p), Munched(toks')
  PROVE  MInv'
<1>1. src' = src
  OBVIOUS
<1>2. \A p : CharAt(p)' = CharAt(p)
  BY <1>1 DEF CharAt
<1>3. End' = End
  BY <1>1, <1>2 DEF End
<1>4. \A i, j : Piece(i, j)' = Piece(i, j)
  BY <1>1, <1>2 DEF Piece
<1>5. \A i, j : Lexeme(i, j)' = Lexeme(i, j)
  BY <1>1, Zenon DEF Lexeme
<1>6. Munched(toks)'
  BY <1>1, <1>3, <1>4, <1>5 DEF Munched, Good, Longest
<1>7. \A a, b, chars : Span(a, b, chars)' = Span(a, b, chars)
  BY <1>2 DEF Span
<1>8. \A a, b, l, d : Based(a, b, l, d)' = Based(a, b, l, d)
  BY <1>2, <1>7 DEF Based
<1>9. Said(cur.p, mode, first.p)'
  BY <1>1, <1>2, <1>7, <1>8 DEF Said
<1> QED BY <1>6, <1>9 DEF MInv

\* Between tokens nothing is said.
LEMMA Unsaid ==
  ASSUME NEW m \in {"trivia", "line", "block", "over"}, NEW c, NEW f
  PROVE  Said(c, m, f)
BY DEF Said, TokenModes, Digits

\* A step that makes no token.
LEMMA GoMunch ==
  ASSUME MInv, NEW c, NEW m, Goto(c, m), Said(c.p, m, first.p)
  PROVE  MInv'
<1>1. cur' = c /\ mode' = m /\ UNCHANGED <<src, first, toks>>
  BY DEF Goto
<1> QED BY <1>1, NextMInv DEF MInv

\* A step that makes one.
LEMMA EmitMunch ==
  ASSUME LInv, MInv, NEW c, NEW kind, Emit(kind, c), Good(kind, first.p, c.p)
  PROVE  MInv'
<1>1. /\ toks' = Append(toks, Made(kind, first, c)) /\ UNCHANGED src
      /\ mode' \in {"over", "trivia"}
  BY DEF Emit, Made
<1>2. PICK t : t = Made(kind, first, c) /\ t.kind = kind /\ t.from = first.p /\ t.to = c.p
  <2>1. /\ Made(kind, first, c).kind = kind
        /\ Made(kind, first, c).from = first.p /\ Made(kind, first, c).to = c.p
    BY DEF Made
  <2> QED BY <2>1
<1>3. toks \in Seq(Token) /\ Len(toks) \in Nat
  BY DEF LInv, LexState
<1>4. toks'[Len(toks')] = t
  <2>1. toks \in Seq(Token \cup {t})
    BY <1>3
  <2>2. Len(toks') = Len(toks) + 1 /\ toks'[Len(toks) + 1] = t
    BY <1>1, <1>2, <2>1, AppendProperties
  <2> QED BY <2>2
<1>5. Munched(toks')
  BY <1>2, <1>4 DEF Munched
<1> QED BY <1>1, <1>5, NextMInv, Unsaid

\* Where a token begins and where the lexer is in it.
LEMMA Within ==
  ASSUME LInv, mode \in TokenModes \ {"end"}
  PROVE  /\ src \in Sources /\ End \in Nat /\ first.p \in 1 .. End - 1 /\ cur.p \in first.p + 1 .. End
         /\ cur.p \in Nat /\ src[first.p] = CharAt(first.p)
         /\ CharAt(cur.p) # NUL => Advance(cur).p = cur.p + 1 /\ cur.p + 1 <= End
         /\ CharAt(cur.p) = NUL => cur.p = End
         /\ Peek(0) = CharAt(cur.p) /\ Peek(1) = CharAt(cur.p + 1)
<1>1. src \in Sources /\ CursorOK(cur) /\ CursorOK(first) /\ Here(cur, mode, first, toks)
  BY DEF LInv, LexState
<1>2. cur.p \in 1 .. Len(src) + 1 /\ first.p \in 1 .. Len(src) + 1 /\ Clean(cur.p)
  BY <1>1 DEF CursorOK, Cursor
<1>3. first.p < cur.p
  BY <1>1 DEF Here
<1>4. End \in Nat /\ cur.p <= End /\ CharAt(End) = NUL
  BY <1>1, <1>2, EndFacts
<1>5. PICK f \in Nat, c \in Nat : f = first.p /\ c = cur.p /\ 1 <= f /\ f < c /\ c <= End
  BY <1>1, <1>2, <1>3, <1>4, EndFacts
<1>6. f \in 1 .. End - 1 /\ c \in f + 1 .. End
  BY <1>4, <1>5
<1>7. src[f] = CharAt(f)
  BY <1>1, <1>6, EndFacts
<1>8. CharAt(c) = NUL => c = End
  BY <1>1, <1>2, <1>5, EndIs
<1>9. CharAt(c) # NUL => Advance(cur).p = c + 1 /\ c + 1 <= End
  <2>1. CharAt(c) # NUL => c # End
    BY <1>4
  <2> QED BY <1>1, <1>4, <1>5, <2>1, AdvanceOK
<1> QED BY <1>1, <1>4, <1>5, <1>6, <1>7, <1>8, <1>9, PeekIs

\* The next character belongs to a class as well.
LEMMA SpanNext ==
  ASSUME NEW f \in Nat, NEW c \in Nat, NEW chars, Span(f, c, chars), CharAt(c) \in chars
  PROVE  Span(f, c + 1, chars)
<1>1. \A n \in f .. (c + 1) - 1 : n \in f .. c - 1 \/ n = c
  OBVIOUS
<1> QED BY <1>1 DEF Span

\* A token begins: its loop is that of its first character.
LEMMA BeginMunch == LInv /\ MInv /\ Begin => MInv'
<1> SUFFICES ASSUME LInv, MInv, Begin PROVE MInv'
  OBVIOUS
<1>1. /\ mode = "trivia" /\ first' = cur /\ cur' = Advance(cur) /\ mode' = Loop(CharAt(cur.p))
      /\ UNCHANGED <<src, toks>> /\ CharAt(cur.p) \notin Blanks
      /\ ~(CharAt(cur.p) = "/" /\ CharAt(cur.p + 1) \in {"/", "*"})
  BY PeekIs DEF Begin, AtToken, AtLine, AtBlock
<1>2. src \in Sources /\ CursorOK(cur) /\ cur.p \in Nat
  BY <1>1, BetweenFacts, Ahead DEF AroundModes
<1>3. PICK f \in Nat : f = cur.p
  BY <1>2
<1>4. PICK c : c = Advance(cur).p
  OBVIOUS
<1>5. CharAt(f) # NUL => c = f + 1
  BY <1>2, <1>3, <1>4, AdvanceOK
<1>6. PICK m : m = Loop(CharAt(f))
  OBVIOUS
<1>7. m # "end" => c = f + 1
  <2>1. CharAt(f) = NUL => m = "end"
    <3>1. NUL \notin Letters \cup {"_"} /\ NUL \notin Decimal /\ NUL \notin Symbols
          /\ NUL # Quote /\ NUL # Apostrophe
      <4>1. NUL \notin Letters \cup {"_"} /\ NUL \notin Decimal /\ NUL # Apostrophe
        BY DEF NUL, Letters, HexLetters, Decimal, Apostrophe
      <4>2. NUL \notin Symbols
        BY DEF NUL, Symbols, Seconds, Pairs
      <4> QED BY <4>1, <4>2, QuoteIs
    <3>2. Loop(CharAt(f)) = CASE CharAt(f) = NUL -> "end"
                              [] CharAt(f) \in Letters \cup {"_"} -> "word"
                              [] CharAt(f) \in Decimal -> "number"
                              [] CharAt(f) \in Symbols -> "symbol"
                              [] CharAt(f) = Quote -> "string"
                              [] CharAt(f) = Apostrophe -> "char"
                              [] OTHER -> "bad"
      BY Zenon DEF Loop, Quote, Apostrophe
    <3> QED BY <1>6, <3>1, <3>2
  <2> QED BY <1>5, <2>1
<1>8. Said(c, m, f)
  <2>1. m \in {"end", "word", "number", "symbol", "string", "char", "bad"}
    BY <1>6, LoopsAre
  <2>2. CharAt(f) \notin Blanks /\ ~(CharAt(f) = "/" /\ CharAt(f + 1) \in {"/", "*"})
    BY <1>1, <1>3
  <2>3. m = "word" => CharAt(f) \in Starts /\ Span(f, c, WordChars)
    <3>1. m = "word" => CharAt(f) \in Starts /\ c = f + 1
      BY <1>6, <1>7, LoopsAre
    <3>2. \A n \in f .. (f + 1) - 1 : n = f
      OBVIOUS
    <3> QED BY <3>1, <3>2, Classes DEF Span
  <2>4. m = "number" => CharAt(f) \in Decimal /\ c = f + 1
    BY <1>6, <1>7, LoopsAre
  <2>5. m = "string" => /\ CharAt(f) = Quote
                        /\ \A n \in f + 1 .. c - 1 : CharAt(n) = Quote => Escaped(src, n)
    <3>1. m = "string" => CharAt(f) = Quote /\ c = f + 1
      BY <1>6, <1>7, LoopIs
    <3>2. \A n \in f + 1 .. (f + 1) - 1 : FALSE
      OBVIOUS
    <3> QED BY <3>1, <3>2
  <2> QED BY <1>6, <1>7, <2>1, <2>2, <2>3, <2>4, <2>5 DEF Said
<1> QED BY <1>1, <1>3, <1>4, <1>6, <1>8, NextMInv DEF MInv

\* Words go on, and end.
LEMMA WordMunch == LInv /\ MInv /\ (Word \/ EndWord) => MInv'
<1> SUFFICES ASSUME LInv, MInv, Word \/ EndWord PROVE MInv'
  OBVIOUS
<1>1. mode = "word" /\ mode \in TokenModes \ {"end"}
  BY DEF Word, EndWord, TokenModes
<1>2. PICK f \in Nat, c \in Nat : /\ f = first.p /\ c = cur.p /\ f \in 1 .. End - 1
                                  /\ c \in f + 1 .. End
  BY <1>1, Within
<1>3. src \in Sources /\ Peek(0) = CharAt(c) /\ (CharAt(c) # NUL => Advance(cur).p = c + 1)
  BY <1>1, <1>2, Within
<1>4. Said(c, "word", f) /\ CharAt(f) \in Starts /\ Span(f, c, WordChars)
  BY <1>1, <1>2 DEF MInv, Said
<1>5. CASE Word
  <2>1. CharAt(c) \in WordChars /\ Goto(Advance(cur), "word")
    BY <1>1, <1>3, <1>5 DEF Word, Stay
  <2>2. Advance(cur).p = c + 1
    <3>1. NUL \notin WordChars
      BY DEF NUL, WordChars, Letters, HexLetters, Decimal
    <3> QED BY <1>3, <2>1, <3>1
  <2>3. Said(c + 1, "word", f)
    BY <1>4, <2>1, SpanNext DEF Said, TokenModes
  <2> QED BY <1>2, <2>1, <2>2, <2>3, GoMunch
<1>6. CASE EndWord
  <2>1. CharAt(c) \notin WordChars /\ Emit("word", cur)
    BY <1>3, <1>6 DEF EndWord
  <2>2. Looks("word", SubSeq(src, f, c - 1)) /\ Longest(f, c)
    BY <1>2, <1>3, <1>4, <2>1, WordBest
  <2>3. \A j \in f .. End - 1 : ~Piece(f, j)
    BY <1>2, <1>3, <1>4, NoPiece DEF Said, TokenModes
  <2> QED BY <1>2, <2>1, <2>2, <2>3, EmitMunch DEF Good
<1> QED BY <1>5, <1>6

\* What may come second is not the terminator.
LEMMA FollowsNot == \A c \in Symbols : NUL \notin Follows(c)
<1>1. ASSUME NEW c \in Symbols PROVE NUL \notin Follows(c)
  <2>1. CASE c \in {"+", "*", "/", ":", "!"}
    BY <2>1, FollowsAre DEF NUL
  <2>2. CASE c \in {"-", "="}
    BY <2>2, FollowsAre DEF NUL
  <2>3. CASE c \in {"<", ">"}
    BY <2>3, FollowsAre DEF NUL
  <2>4. CASE c \in {".", "&", "|"}
    BY <2>4, FollowsAre DEF NUL
  <2>5. CASE c \in DOMAIN Seconds
    BY <2>5, FollowsAre
  <2> QED BY <2>1, <2>2, <2>3, <2>4, <2>5 DEF Symbols, Pairs
<1> QED BY <1>1

\* Operators, and characters that begin nothing, are made of what is there.
LEMMA SymbolMunch == LInv /\ MInv /\ (Symbol \/ Unexpected) => MInv'
<1> SUFFICES ASSUME LInv, MInv, Symbol \/ Unexpected PROVE MInv'
  OBVIOUS
<1>1. mode \in {"symbol", "bad"} /\ mode \in TokenModes \ {"end"}
  BY DEF Symbol, Unexpected, TokenModes
<1>2. PICK f \in Nat, c \in Nat : /\ f = first.p /\ c = cur.p /\ f \in 1 .. End - 1
                                  /\ c \in f + 1 .. End
  BY <1>1, Within
<1>3. /\ src \in Sources /\ Peek(0) = CharAt(c) /\ src[first.p] = CharAt(f) /\ End \in Nat
      /\ CharAt(c) # NUL => Advance(cur).p = c + 1 /\ c + 1 <= End
  BY <1>1, <1>2, Within
<1>4. c = f + 1 /\ Loop(CharAt(f)) = mode
  BY <1>1, <1>2 DEF MInv, Said
<1>5. \A j \in f .. End - 1 : ~Piece(f, j)
  <2>1. CharAt(f) \notin Blanks /\ ~(CharAt(f) = "/" /\ CharAt(f + 1) \in {"/", "*"})
    BY <1>1, <1>2 DEF MInv, Said
  <2> QED BY <1>2, <1>3, <2>1, NoPiece
<1>6. CASE Unexpected
  <2>1. mode = "bad" /\ Emit("error", cur)
    BY <1>6 DEF Unexpected
  <2>2. Longest(f, f)
    BY <1>2, <1>3, <1>4, <2>1, BadNone
  <2> QED BY <1>2, <1>5, <2>1, <2>2, EmitMunch DEF Good
<1>7. CASE Symbol
  <2>1. PICK e : /\ e = IF CharAt(c) \in Follows(CharAt(f)) THEN Advance(cur) ELSE cur
                 /\ mode = "symbol" /\ Emit("symbol", e)
    BY <1>3, <1>7 DEF Symbol
  <2>2. CharAt(f) \in Symbols
    BY <1>4, <2>1, LoopsAre
  <2>3. CASE CharAt(c) \in Follows(CharAt(f))
    <3>1. CharAt(c) # NUL
      BY <2>2, <2>3, FollowsNot
    <3>2. PICK n \in f + 1 .. End : n = e.p /\ n = f + 2
      BY <1>2, <1>3, <1>4, <2>1, <2>3, <3>1
    <3>3. Looks("symbol", SubSeq(src, f, n - 1)) /\ Longest(f, n)
      BY <1>2, <1>3, <1>4, <2>2, <2>3, <3>2, SymbolBest
    <3> QED BY <1>2, <1>5, <2>1, <3>2, <3>3, EmitMunch DEF Good
  <2>4. CASE CharAt(c) \notin Follows(CharAt(f))
    <3>1. e = cur /\ e.p = c
      BY <1>2, <2>1, <2>4
    <3>2. Looks("symbol", SubSeq(src, f, c - 1)) /\ Longest(f, c)
      BY <1>2, <1>3, <1>4, <2>2, <2>4, SymbolBest
    <3> QED BY <1>2, <1>5, <2>1, <3>1, <3>2, EmitMunch DEF Good
  <2> QED BY <2>3, <2>4
<1> QED BY <1>6, <1>7

\* What the loops for digits say.
LEMMA DigitsSaid ==
  ASSUME MInv, mode \in DOMAIN Digits \cup {"number"}, NEW f, f = first.p, NEW c, c = cur.p
  PROVE  /\ CharAt(f) \notin Blanks /\ ~(CharAt(f) = "/" /\ CharAt(f + 1) \in {"/", "*"})
         /\ mode = "number" => CharAt(f) \in Decimal /\ c = f + 1
         /\ mode = "decimal" => /\ Span(f, c, Decimal)
                                /\ CharAt(f) = "0" => CharAt(f + 1) \notin {"x", "X", "b", "B"}
         /\ mode = "hex" => Based(f, c, {"x", "X"}, Digits.hex)
         /\ mode = "binary" => Based(f, c, {"b", "B"}, Digits.binary)
         /\ mode = "fraction" => \E p \in f + 1 .. c - 1 :
                                   /\ CharAt(p) = "." /\ Span(f, p, Decimal)
                                   /\ Span(p + 1, c, Decimal)
                                   /\ c = p + 1 => CharAt(c) \in Decimal
<1>1. mode \in TokenModes
  BY DEF TokenModes
<1> QED BY <1>1 DEF MInv, Said

\* No class of digits has the terminator in it.
LEMMA DigitsNot == \A m \in DOMAIN Digits : NUL \notin Digits[m]
<1>1. NUL \notin Decimal /\ NUL \notin HexLetters /\ NUL \notin {"0", "1", "_"}
  BY DEF Decimal, HexLetters, NUL
<1>2. NUL # "_"
  BY DEF NUL
<1>3. ASSUME NEW m \in DOMAIN Digits PROVE NUL \notin Digits[m]
  <2>1. CASE m = "hex"
    BY <1>1, <1>2, <2>1 DEF Digits
  <2>2. CASE m = "binary"
    BY <1>1, <2>2 DEF Digits
  <2>3. CASE m = "decimal" \/ m = "fraction"
    <3>1. Digits.decimal = Decimal /\ Digits.fraction = Decimal
      BY DEF Digits
    <3>2. Digits["decimal"] = Decimal /\ Digits["fraction"] = Decimal
      BY <3>1
    <3> QED BY <1>1, <2>3, <3>2
  <2>4. m \in {"hex", "binary", "decimal", "fraction"}
    BY DEF Digits
  <2> QED BY <2>1, <2>2, <2>3, <2>4
<1> QED BY <1>3

\* The base of a number, and the next of its digits.
LEMMA DigitMunch == LInv /\ MInv /\ (Number \/ Digit \/ Point) => MInv'
<1> SUFFICES ASSUME LInv, MInv, Number \/ Digit \/ Point PROVE MInv'
  OBVIOUS
<1>1. mode \in DOMAIN Digits \cup {"number"} /\ mode \in TokenModes \ {"end"}
  BY DEF Number, Digit, Point, HasFraction, TokenModes, Digits
<1>2. PICK f \in Nat, c \in Nat : /\ f = first.p /\ c = cur.p /\ f \in 1 .. End - 1
                                  /\ c \in f + 1 .. End
  BY <1>1, Within
<1>3. /\ src \in Sources /\ Peek(0) = CharAt(c) /\ Peek(1) = CharAt(c + 1)
      /\ src[first.p] = CharAt(f) /\ End \in Nat
      /\ CharAt(c) # NUL => Advance(cur).p = c + 1
  BY <1>1, <1>2, Within
<1>4. CharAt(f) \notin Blanks /\ ~(CharAt(f) = "/" /\ CharAt(f + 1) \in {"/", "*"})
  BY <1>1, <1>2, DigitsSaid
<1>5. CASE Number
  <2>1. mode = "number" /\ Goto(IF Base = "decimal" THEN cur ELSE Advance(cur), Base)
    BY <1>5 DEF Number
  <2>2. CharAt(f) \in Decimal /\ c = f + 1
    BY <1>1, <1>2, <2>1, DigitsSaid
  <2>3. \A n \in f + 2 .. (c + 1) - 1 : FALSE
    BY <2>2
  <2>4. CASE CharAt(f) = "0" /\ CharAt(c) \in {"x", "X"}
    <3>1. Base = "hex"
      BY <1>3, <2>4 DEF Base
    <3>2. Goto(Advance(cur), "hex")
      BY <2>1, <3>1
    <3>3. Advance(cur).p = c + 1
      BY <1>3, <2>4 DEF NUL
    <3>4. Based(f, c + 1, {"x", "X"}, Digits.hex)
      BY <2>2, <2>3, <2>4 DEF Based, Span
    <3>5. Said(c + 1, "hex", f)
      BY <1>4, <3>4 DEF Said
    <3> QED BY <1>2, <3>2, <3>3, <3>5, GoMunch
  <2>5. CASE CharAt(f) = "0" /\ CharAt(c) \in {"b", "B"}
    <3>1. Base = "binary"
      BY <1>3, <2>5 DEF Base
    <3>2. Goto(Advance(cur), "binary")
      BY <2>1, <3>1
    <3>3. Advance(cur).p = c + 1
      BY <1>3, <2>5 DEF NUL
    <3>4. Based(f, c + 1, {"b", "B"}, Digits.binary)
      BY <2>2, <2>3, <2>5 DEF Based, Span
    <3>5. Said(c + 1, "binary", f)
      BY <1>4, <3>4 DEF Said
    <3> QED BY <1>2, <3>2, <3>3, <3>5, GoMunch
  <2>6. CASE ~(CharAt(f) = "0" /\ CharAt(c) \in {"x", "X", "b", "B"})
    <3>1. Base = "decimal"
      BY <1>3, <2>6 DEF Base
    <3>2. Goto(cur, "decimal")
      BY <2>1, <3>1
    <3>3. Span(f, c, Decimal)
      <4>1. \A n \in f .. c - 1 : n = f
        BY <2>2
      <4> QED BY <2>2, <4>1 DEF Span
    <3>4. Said(c, "decimal", f)
      BY <1>4, <2>2, <2>6, <3>3 DEF Said
    <3> QED BY <1>2, <3>2, <3>4, GoMunch
  <2> QED BY <2>4, <2>5, <2>6
<1>6. CASE Digit
  <2>1. mode \in DOMAIN Digits /\ CharAt(c) \in Digits[mode] /\ Goto(Advance(cur), mode)
    BY <1>3, <1>6 DEF Digit, Stay
  <2>2. Advance(cur).p = c + 1
    BY <1>3, <2>1, DigitsNot
  <2>3. mode = "decimal" => Said(c + 1, "decimal", f)
    <3>1. mode = "decimal" => Span(f, c, Decimal) /\ CharAt(c) \in Decimal
      BY <1>1, <1>2, <2>1, DigitsSaid DEF Digits
    <3>2. mode = "decimal" => Span(f, c + 1, Decimal)
      BY <3>1, SpanNext
    <3> QED BY <1>1, <1>2, <1>4, <3>2, DigitsSaid DEF Said
  <2>4. ASSUME NEW letters, NEW digits, Based(f, c, letters, digits), CharAt(c) \in digits
        PROVE  Based(f, c + 1, letters, digits)
    <3>1. c >= f + 2 /\ c + 1 >= f + 2 /\ f + 2 \in Nat
      BY <2>4 DEF Based
    <3>2. Span(f + 2, c + 1, digits)
      BY <2>4, <3>1, SpanNext DEF Based
    <3> QED BY <2>4, <3>1, <3>2 DEF Based
  <2>5. mode = "hex" => Said(c + 1, "hex", f)
    <3>1. mode = "hex" => Based(f, c + 1, {"x", "X"}, Digits.hex)
      BY <1>1, <1>2, <2>1, <2>4, DigitsSaid
    <3> QED BY <1>4, <3>1 DEF Said
  <2>6. mode = "binary" => Said(c + 1, "binary", f)
    <3>1. mode = "binary" => Based(f, c + 1, {"b", "B"}, Digits.binary)
      BY <1>1, <1>2, <2>1, <2>4, DigitsSaid
    <3> QED BY <1>4, <3>1 DEF Said
  <2>7. mode = "fraction" => Said(c + 1, "fraction", f)
    <3> SUFFICES ASSUME mode = "fraction" PROVE Said(c + 1, "fraction", f)
      OBVIOUS
    <3>1. PICK p \in f + 1 .. c - 1 : /\ CharAt(p) = "." /\ Span(f, p, Decimal)
                                      /\ Span(p + 1, c, Decimal)
      BY <1>1, <1>2, DigitsSaid
    <3>2. CharAt(c) \in Decimal
      BY <2>1 DEF Digits
    <3>3. p + 1 \in Nat /\ p \in f + 1 .. (c + 1) - 1 /\ c + 1 # p + 1
      BY <1>2
    <3>4. Span(p + 1, c + 1, Decimal)
      BY <3>1, <3>2, <3>3, SpanNext
    <3> QED BY <1>4, <3>1, <3>3, <3>4 DEF Said
  <2>8. Said(c + 1, mode, f)
    BY <2>1, <2>3, <2>5, <2>6, <2>7 DEF Digits
  <2> QED BY <1>2, <2>1, <2>2, <2>8, GoMunch
<1>7. CASE Point
  <2>1. /\ mode = "decimal" /\ CharAt(c) = "." /\ CharAt(c + 1) \in Decimal
        /\ Goto(Advance(cur), "fraction")
    BY <1>3, <1>7 DEF Point, HasFraction
  <2>2. Advance(cur).p = c + 1
    BY <1>3, <2>1 DEF NUL
  <2>3. Span(f, c, Decimal)
    BY <1>1, <1>2, <2>1, DigitsSaid
  <2>4. c \in f + 1 .. (c + 1) - 1 /\ \A n \in c + 1 .. (c + 1) - 1 : FALSE
    BY <1>2
  <2>5. Span(c + 1, c + 1, Decimal)
    BY <2>4 DEF Span
  <2>6. Said(c + 1, "fraction", f)
    BY <1>4, <2>1, <2>3, <2>4, <2>5 DEF Said
  <2> QED BY <1>2, <2>1, <2>2, <2>6, GoMunch
<1> QED BY <1>5, <1>6, <1>7

\* A number ends where it cannot go on.
LEMMA NumberMunch == LInv /\ MInv /\ EndNumber => MInv'
<1> SUFFICES ASSUME LInv, MInv, EndNumber PROVE MInv'
  OBVIOUS
<1>1. /\ mode \in DOMAIN Digits /\ mode \in DOMAIN Digits \cup {"number"}
      /\ mode \in TokenModes \ {"end"}
  BY DEF EndNumber, TokenModes, Digits
<1>2. PICK f \in Nat, c \in Nat : /\ f = first.p /\ c = cur.p /\ f \in 1 .. End - 1
                                  /\ c \in f + 1 .. End
  BY <1>1, Within
<1>3. /\ src \in Sources /\ Peek(0) = CharAt(c) /\ Peek(1) = CharAt(c + 1) /\ End \in Nat
  BY <1>1, <1>2, Within
<1>4. PICK kind : /\ kind = IF mode = "fraction" THEN "float" ELSE "int"
                  /\ Emit(kind, cur) /\ CharAt(c) \notin Digits[mode]
                  /\ mode = "decimal" => ~(CharAt(c) = "." /\ CharAt(c + 1) \in Decimal)
  BY <1>3 DEF EndNumber, HasFraction
<1>5. \A j \in f .. End - 1 : ~Piece(f, j)
  BY <1>1, <1>2, <1>3, NoPiece, DigitsSaid
<1>6. Looks(kind, SubSeq(src, f, c - 1)) /\ Longest(f, c)
  <2>1. CASE mode = "decimal"
    <3>1. kind = "int" /\ CharAt(c) \notin Decimal
      BY <1>4, <2>1 DEF Digits
    <3>2. Span(f, c, Decimal) /\ (CharAt(f) = "0" => CharAt(f + 1) \notin {"x", "X", "b", "B"})
      BY <1>1, <1>2, <2>1, DigitsSaid
    <3> QED BY <1>2, <1>3, <1>4, <2>1, <3>1, <3>2, DecimalBest
  <2>2. CASE mode = "hex"
    <3>1. kind = "int" /\ CharAt(c) \notin Digits.hex
      BY <1>4, <2>2
    <3>2. Based(f, c, {"x", "X"}, Digits.hex)
      BY <1>1, <1>2, <2>2, DigitsSaid
    <3> QED BY <1>2, <1>3, <3>1, <3>2, BasedBest
  <2>3. CASE mode = "binary"
    <3>1. kind = "int" /\ CharAt(c) \notin Digits.binary
      BY <1>4, <2>3
    <3>2. Based(f, c, {"b", "B"}, Digits.binary)
      BY <1>1, <1>2, <2>3, DigitsSaid
    <3> QED BY <1>2, <1>3, <3>1, <3>2, BasedBest
  <2>4. CASE mode = "fraction"
    <3>1. kind = "float" /\ CharAt(c) \notin Decimal
      BY <1>4, <2>4 DEF Digits
    <3>2. PICK p \in f + 1 .. c - 1 : /\ CharAt(p) = "." /\ Span(f, p, Decimal)
                                      /\ Span(p + 1, c, Decimal)
                                      /\ c = p + 1 => CharAt(c) \in Decimal
      BY <1>1, <1>2, <2>4, DigitsSaid
    <3>3. p \in f + 1 .. c - 2
      BY <1>2, <3>1, <3>2
    <3> QED BY <1>2, <1>3, <3>1, <3>2, <3>3, FractionBest
  <2> QED BY <1>1, <2>1, <2>2, <2>3, <2>4 DEF Digits
<1>7. kind \notin {"eof", "error"}
  BY <1>4
<1> QED BY <1>2, <1>4, <1>5, <1>6, <1>7, EmitMunch DEF Good

\* A string goes on up to the first quote that is not escaped.
LEMMA StringMunch == LInv /\ QInv /\ MInv /\ (String \/ EndString \/ OpenString) => MInv'
<1> SUFFICES ASSUME LInv, QInv, MInv, String \/ EndString \/ OpenString PROVE MInv'
  OBVIOUS
<1>1. mode = "string" /\ mode \in TokenModes \ {"end"}
  BY StringIs DEF OpenString, TokenModes
<1>2. PICK f \in Nat, c \in Nat : /\ f = first.p /\ c = cur.p /\ f \in 1 .. End - 1
                                  /\ c \in f + 1 .. End
  BY <1>1, Within
<1>3. /\ src \in Sources /\ Peek(0) = CharAt(c) /\ Peek(1) = CharAt(c + 1) /\ End \in Nat
      /\ CharAt(c) # NUL => Advance(cur).p = c + 1 /\ c + 1 <= End
      /\ CharAt(c) = NUL => c = End
  BY <1>1, <1>2, Within
<1>4. /\ CharAt(f) \notin Blanks /\ ~(CharAt(f) = "/" /\ CharAt(f + 1) \in {"/", "*"})
      /\ CharAt(f) = Quote /\ \A n \in f + 1 .. c - 1 : CharAt(n) = Quote => Escaped(src, n)
  BY <1>1, <1>2 DEF MInv, Said
<1>5. CharAt(c) # NUL => ~Escaped(src, c)
  BY <1>1, <1>2 DEF QInv, InString
<1>6. \A j \in f .. End - 1 : ~Piece(f, j)
  BY <1>2, <1>3, <1>4, NoPiece
<1>7. CASE String
  <2>1. CharAt(c) # NUL /\ CharAt(c) # Quote
    <3>1. String => Peek(0) # Quote
      BY Zenon DEF String, Quote
    <3> QED BY <1>3, <1>7, <3>1, StringIs
  <2>2. Goto(IF CharAt(c) = "\\" /\ CharAt(c + 1) # NUL THEN Advance(Advance(cur))
                                                        ELSE Advance(cur), "string")
    BY <1>1, <1>3, <1>7, StringIs
  <2>3. Advance(cur).p = c + 1 /\ CursorOK(Advance(cur))
    BY <1>3, <2>1, Ahead
  <2>4. CASE CharAt(c) = "\\" /\ CharAt(c + 1) # NUL
    <3>1. Goto(Advance(Advance(cur)), "string") /\ Advance(Advance(cur)).p = c + 2
      <4>1. Advance(Advance(cur)).p = (c + 1) + 1
        BY <1>3, <2>3, <2>4, AdvanceOK
      <4> QED BY <2>2, <2>4, <4>1
    <3>2. Escaped(src, c + 1)
      <4>1. src \in Seq(STRING) /\ c \in 1 .. Len(src) /\ src[c] = "\\"
        <5>1. c \in 1 .. End - 1
          BY <1>2, <1>3, <2>1
        <5> QED BY <1>3, <2>4, <5>1, EndFacts, TextFacts
      <4> QED BY <1>5, <2>1, <4>1, EscapedNext
    <3>3. \A n \in f + 1 .. (c + 2) - 1 : n \in f + 1 .. c - 1 \/ n = c \/ n = c + 1
      BY <1>2
    <3>4. Said(c + 2, "string", f)
      BY <1>4, <2>1, <3>2, <3>3 DEF Said
    <3> QED BY <1>2, <3>1, <3>4, GoMunch
  <2>5. CASE ~(CharAt(c) = "\\" /\ CharAt(c + 1) # NUL)
    <3>1. Goto(Advance(cur), "string")
      BY <2>2, <2>5
    <3>2. \A n \in f + 1 .. (c + 1) - 1 : n \in f + 1 .. c - 1 \/ n = c
      BY <1>2
    <3>3. Said(c + 1, "string", f)
      BY <1>4, <2>1, <3>2 DEF Said
    <3> QED BY <1>2, <2>3, <3>1, <3>3, GoMunch
  <2> QED BY <2>4, <2>5
<1>8. CASE EndString
  <2>1. CharAt(c) = Quote /\ Emit("string", Advance(cur)) /\ CharAt(c) # NUL
    BY <1>3, <1>8, StringIs, QuoteIs
  <2>2. PICK e \in f + 2 .. End : e = Advance(cur).p /\ e - 1 = c /\ e - 2 = c - 1
    BY <1>2, <1>3, <2>1
  <2>3. Looks("string", SubSeq(src, f, e - 1)) /\ Longest(f, e)
    BY <1>2, <1>3, <1>4, <1>5, <2>1, <2>2, StringBest
  <2> QED BY <1>2, <1>6, <2>1, <2>2, <2>3, EmitMunch DEF Good
<1>9. CASE OpenString
  <2>1. CharAt(c) = NUL /\ Emit("error", cur)
    BY <1>3, <1>9 DEF OpenString
  <2>2. Longest(f, f)
    BY <1>2, <1>3, <1>4, <2>1, StringOpen
  <2> QED BY <1>2, <1>6, <2>1, <2>2, EmitMunch DEF Good
<1> QED BY <1>7, <1>8, <1>9

\* What may be escaped is not the terminator.
LEMMA EscapesNot == NUL \notin Escapes
BY Zenon DEF NUL, Escapes

\* A character literal has one character, or one that is escaped.
LEMMA CharMunch == LInv /\ MInv /\ (BadChar \/ Char) => MInv'
<1> SUFFICES ASSUME LInv, MInv, BadChar \/ Char PROVE MInv'
  OBVIOUS
<1>1. mode = "char" /\ mode \in TokenModes \ {"end"}
  BY DEF BadChar, Char, TokenModes
<1>2. PICK f \in Nat, c \in Nat : /\ f = first.p /\ c = cur.p /\ f \in 1 .. End - 1
                                  /\ c \in f + 1 .. End
  BY <1>1, Within
<1>3. /\ src \in Sources /\ Peek(0) = CharAt(c) /\ Peek(1) = CharAt(c + 1) /\ End \in Nat
      /\ CharAt(c) # NUL => Advance(cur).p = c + 1 /\ c + 1 <= End
      /\ CharAt(c) = NUL => c = End
  BY <1>1, <1>2, Within
<1>4. /\ CharAt(f) \notin Blanks /\ ~(CharAt(f) = "/" /\ CharAt(f + 1) \in {"/", "*"})
      /\ CharAt(f) = Apostrophe /\ c = f + 1
  <2>1. /\ CharAt(f) \notin Blanks /\ ~(CharAt(f) = "/" /\ CharAt(f + 1) \in {"/", "*"})
        /\ Loop(CharAt(f)) = "char" /\ c = f + 1
    BY <1>1, <1>2 DEF MInv, Said
  <2> QED BY <2>1, LoopsAre
<1>5. \A j \in f .. End - 1 : ~Piece(f, j)
  BY <1>2, <1>3, <1>4, NoPiece
<1>6. CASE BadChar
  <2>1. CharAt(c) \in {NUL, "\n"} /\ Emit("error", cur)
    BY <1>3, <1>6 DEF BadChar
  <2>2. ASSUME NEW e \in f + 1 .. End, OneChar(f, e) PROVE FALSE
    <3>1. c # End
      BY <1>2, <1>3, <1>4, <2>2 DEF OneChar
    <3>2. CharAt(c) = "\n"
      BY <1>3, <2>1, <3>1
    <3> QED BY <1>4, <2>2, <3>2 DEF OneChar
  <2>3. Longest(f, f)
    BY <1>2, <1>3, <1>4, <2>2, CharNone
  <2> QED BY <1>2, <1>5, <2>1, <2>3, EmitMunch DEF Good
<1>7. CASE Char
  <2>1. CharAt(c) # NUL /\ CharAt(c) # "\n"
    BY <1>3, <1>7 DEF Char
  <2>2. PICK body : body = IF CharAt(c) = "\\" THEN Advance(Advance(cur)) ELSE Advance(cur)
    OBVIOUS
  <2>3. IF (CharAt(c) = "\\" => CharAt(c + 1) \in Escapes) /\ CharAt(body.p) = Apostrophe
          THEN Emit("int", Advance(body))
          ELSE Emit("error", body)
    BY <1>3, <1>7, <2>2 DEF Char, Apostrophe
  <2>4. Advance(cur).p = c + 1 /\ CursorOK(Advance(cur)) /\ CursorOK(body)
    BY <1>3, <2>1, <2>2, Ahead
  <2>5. body.p = IF CharAt(c) = "\\" /\ CharAt(c + 1) # NUL THEN c + 2 ELSE c + 1
    <3>1. CharAt(c + 1) # NUL => Advance(Advance(cur)).p = (c + 1) + 1
      BY <1>3, <2>4, AdvanceOK
    <3>2. CharAt(c + 1) = NUL => Advance(Advance(cur)) = Advance(cur)
      BY <1>3, <2>4, AdvanceOK
    <3> QED BY <2>2, <2>4, <3>1, <3>2
  <2>6. CASE (CharAt(c) = "\\" => CharAt(c + 1) \in Escapes) /\ CharAt(body.p) = Apostrophe
    <3>1. Emit("int", Advance(body))
      BY <2>3, <2>6
    <3>2. PICK e \in Nat : e = Advance(body).p /\ e = body.p + 1
      <4>1. Apostrophe # NUL
        BY DEF Apostrophe, NUL
      <4>2. Advance(body).p = body.p + 1
        BY <1>3, <2>4, <2>6, <4>1, AdvanceOK
      <4> QED BY <2>5, <4>2
    <3>3. e \in f + 1 .. End
      <4>1. CursorOK(Advance(body))
        BY <1>3, <2>4, AdvanceOK
      <4>2. e <= End
        BY <1>3, <3>2, <4>1, EndFacts DEF CursorOK, Cursor
      <4> QED BY <1>2, <1>4, <2>5, <3>2, <4>2
    <3>4. OneChar(f, e)
      <4>1. CASE CharAt(c) = "\\"
        <5>1. CharAt(c + 1) \in Escapes /\ CharAt(c + 1) # NUL
          BY <2>6, <4>1, EscapesNot
        <5>2. body.p = f + 3 /\ e = f + 4 /\ c + 1 = f + 2 /\ c = f + 1
          BY <1>4, <2>5, <3>2, <4>1, <5>1
        <5> QED BY <1>4, <2>6, <4>1, <5>1, <5>2 DEF OneChar
      <4>2. CASE CharAt(c) # "\\"
        <5>1. body.p = f + 2 /\ e = f + 3 /\ c = f + 1
          BY <1>4, <2>5, <3>2, <4>2
        <5> QED BY <1>4, <2>1, <2>6, <4>2, <5>1 DEF OneChar
      <4> QED BY <4>1, <4>2
    <3>5. Looks("int", SubSeq(src, f, e - 1)) /\ Longest(f, e)
      BY <1>2, <1>3, <3>3, <3>4, CharBest
    <3> QED BY <1>2, <1>5, <3>1, <3>2, <3>5, EmitMunch DEF Good
  <2>7. CASE ~((CharAt(c) = "\\" => CharAt(c + 1) \in Escapes) /\ CharAt(body.p) = Apostrophe)
    <3>1. Emit("error", body)
      BY <2>3, <2>7
    <3>2. ASSUME NEW e \in f + 1 .. End, OneChar(f, e) PROVE FALSE
      <4>1. CASE CharAt(c) = "\\"
        <5>1. CharAt(f + 2) \in Escapes /\ CharAt(f + 3) = Apostrophe /\ c + 1 = f + 2
          BY <1>4, <3>2, <4>1 DEF OneChar
        <5>2. body.p = f + 3
          BY <1>4, <2>5, <4>1, <5>1, EscapesNot
        <5> QED BY <2>7, <5>1, <5>2
      <4>2. CASE CharAt(c) # "\\"
        <5>1. CharAt(f + 2) = Apostrophe
          BY <1>4, <3>2, <4>2 DEF OneChar
        <5>2. body.p = f + 2
          BY <1>4, <2>5, <4>2
        <5> QED BY <2>7, <4>2, <5>1, <5>2
      <4> QED BY <4>1, <4>2
    <3>3. Longest(f, f)
      BY <1>2, <1>3, <1>4, <3>2, CharNone
    <3> QED BY <1>2, <1>5, <3>1, <3>3, EmitMunch DEF Good
  <2> QED BY <2>6, <2>7
<1> QED BY <1>6, <1>7

\* Every step of the lexer keeps what is said and promised.
LEMMA MunchStep == LInv /\ QInv /\ MInv /\ LexNext => MInv'
<1> SUFFICES ASSUME LInv, QInv, MInv, LexNext PROVE MInv'
  OBVIOUS
<1>1. CASE Blank \/ OpenLine \/ LineComment \/ EndLine \/ OpenBlock \/ BlockComment \/ EndBlock
  <2>1. PICK m, c : m \in {"trivia", "line", "block"} /\ Goto(c, m)
    BY <1>1 DEF Blank, OpenLine, LineComment, EndLine, OpenBlock, BlockComment, EndBlock, Stay
  <2> QED BY <2>1, Unsaid, GoMunch
<1>2. CASE EndOfFile
  <2>1. mode = "end" /\ mode \in TokenModes /\ Emit("eof", cur)
    BY <1>2 DEF EndOfFile, TokenModes
  <2>2. first = cur /\ CharAt(cur.p) = NUL /\ CursorOK(cur) /\ src \in Sources
    BY <2>1 DEF LInv, LexState, Here
  <2>3. first.p = End /\ End \in Nat
    BY <2>2, EndIs, EndFacts DEF CursorOK, Cursor
  <2>4. \A j \in first.p .. End - 1 : FALSE
    BY <2>3
  <2> QED BY <2>1, <2>4, EmitMunch DEF Good
<1> QED BY <1>1, <1>2, BeginMunch, WordMunch, SymbolMunch, DigitMunch, NumberMunch, StringMunch,
           CharMunch DEF LexNext

\* What is said holds when reading begins.
LEMMA InitMInv == LexInit => MInv
BY Unsaid DEF LexInit, MInv, Munched

\* Every step of reading keeps it: only the lexer moves and makes tokens.
LEMMA ReadMunch == RdInv /\ MInv /\ [ReadNext]_readvars => MInv'
<1> SUFFICES ASSUME RdInv, MInv, [ReadNext]_readvars PROVE MInv'
  OBVIOUS
<1>1. CASE Lex
  BY <1>1, MunchStep DEF Lex, RdInv
<1>2. CASE UNCHANGED lexvars
  <2>1. UNCHANGED <<src, cur, mode, first, toks>>
    BY <1>2 DEF lexvars
  <2> QED BY <2>1, NextMInv DEF MInv
<1> QED BY <1>1, <1>2 DEF ReadNext, dup_ident, PutOff, dup_ident_late, dup_string_lit, Pass,
                          Node, Release, readvars

\* What is promised of tokens is that they are the longest.
LEMMA MunchGiven == RdInv /\ MInv => MaximalMunch
<1> SUFFICES ASSUME RdInv, MInv, toks # <<>>, NEW t, t = Newest
             PROVE  /\ ~\E j \in t.from .. End - 1 : Piece(t.from, j)
                    /\ t.kind \notin {"eof", "error"} =>
                         /\ Looks(t.kind, Text(t))
                         /\ \A j \in t.to .. End - 1 : ~Lexeme(t.from, j)
                    /\ t.kind = "error" => \A j \in t.from .. End - 1 : ~Lexeme(t.from, j)
  BY DEF MaximalMunch
<1>1. Good(t.kind, t.from, t.to)
  BY DEF MInv, Munched, Newest
<1> QED BY <1>1 DEF Good, Longest, Text

\* A token is the longest that can be read where it begins; an error stands
\* only where no token can be read at all, and a comment is never taken for
\* operators (lexer.c 41-55, 96-244).
THEOREM MunchCorrect == ReadSpec => []MaximalMunch
<1>1. ReadInit => MInv
  BY InitMInv DEF ReadInit
<1> QED BY <1>1, ReadInvariant, ReadMunch, MunchGiven, PTL DEF ReadSpec
=============================================================================

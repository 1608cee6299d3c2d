---------------------------- MODULE Grouping_proofs ----------------------------
(* Proofs about how the parser groups: in a text that is accepted, each of    *)
(* its operators spans what the table of precedences says.                    *)
EXTENDS Parser_proofs

(* How the text is grouped.  The text says where an expression may start and  *)
(* how far it goes; for each call it is said where the call may be made and   *)
(* where it may return, in these terms and without the calls it makes.  What  *)
(* is still to do is safe: each call is made where it may be, wherever the    *)
(* one in front of it returns.                                                *)

At == Nat \ {0}

\* How many brackets are open in front of q.
Depth(q) == Tokens(toks, Openers, q - 1) - Tokens(toks, Closers, q - 1)

\* A stretch of text that closes what it opens, and nothing else.
Flush(p, q) == p <= q /\ Depth(q) = Depth(p) /\ \A r \in p .. q - 1 : Outer(r) >= Depth(p)

\* In the condition of a statement, and not in brackets there.
Conditions == {"if", "while", "for", "match"}
Ending == {"{", "}", ";"}
Fresheners == {"(", "[", "{", "}", ";"}
Conditional(p) ==
  \E k \in 1 .. p - 1 :
    /\ toks[k] \in Conditions /\ Level(k) = Depth(p)
    /\ \A r \in k + 1 .. p - 1 :
         Outer(r) >= Depth(p) /\ (Outer(r) = Depth(p) => toks[r] \notin Ending)
Calm(p, q) == Flush(p, q) /\ (Conditional(q) => Conditional(p))

\* What an expression n brackets deep, of operators of precedence min and
\* more, cannot reach over.
Bar(r, n, min) ==
  \/ Outer(r) < n
  \/ Outer(r) = n /\ (~InExpression(r) \/ (IsBinary(r) /\ Prec[toks[r]] < min))

\* An expression of such operators, and where one may start and must end.
Span(f, p, m) ==
  /\ f < p /\ Depth(p) = Depth(f) /\ EndsOperand(p - 1)
  /\ \A r \in f .. p - 1 : ~Bar(r, Depth(f), m)
  /\ Conditional(p) <=> Conditional(f)
Fence(p, m) ==
  /\ p > 1 /\ ~EndsOperand(p - 1)
  /\ m # UNARY => Bar(p - 1, Depth(p), IF m = ASSIGN THEN ASSIGN + 1 ELSE m)
Fresh(p) == Fence(p, ASSIGN) /\ ~Conditional(p)
Continues == {"(", "[", "."}
Exit(m, p) == toks[p] \notin Continues /\ (toks[p] \in DOMAIN Prec => Prec[toks[p]] < m)
-----------------------------------------------------------------------------
\* A token and the depth before and behind it.
LEMMA DepthAt ==
  ASSUME NEW q \in At
  PROVE  /\ Depth(q) \in Int /\ Depth(q + 1) \in Int /\ Outer(q) \in Int /\ Level(q) \in Int
         /\ toks[q] \in Openers => Depth(q + 1) = Depth(q) + 1 /\ Outer(q) = Depth(q) /\ Level(q) = Depth(q) + 1
         /\ toks[q] \in Closers => Depth(q + 1) = Depth(q) - 1 /\ Outer(q) = Depth(q) - 1 /\ Level(q) = Depth(q)
         /\ toks[q] \notin Brackets => Depth(q + 1) = Depth(q) /\ Outer(q) = Depth(q) /\ Level(q) = Depth(q)
<1>1. PICK m \in Nat : m = q - 1 /\ m + 1 = q /\ (q + 1) - 1 = q
  BY DEF At
<1>2. PICK a \in Nat, b \in Nat, c \in Nat, d \in Nat :
        /\ a = Tokens(toks, Openers, m) /\ b = Tokens(toks, Openers, q)
        /\ c = Tokens(toks, Closers, m) /\ d = Tokens(toks, Closers, q)
  BY Tally DEF At
<1>3. /\ toks[q] \in Openers => b = a + 1
      /\ toks[q] \notin Openers => b = a
      /\ toks[q] \in Closers => d = c + 1
      /\ toks[q] \notin Closers => d = c
  <2>1. ASSUME NEW T
        PROVE  /\ toks[q] \in T => Tokens(toks, T, q) = Tokens(toks, T, m) + 1
               /\ toks[q] \notin T => Tokens(toks, T, q) = Tokens(toks, T, m)
    <3>1. /\ toks[m + 1] \in T => Tokens(toks, T, m + 1) = Tokens(toks, T, m) + 1
          /\ toks[m + 1] \notin T => Tokens(toks, T, m + 1) = Tokens(toks, T, m)
      BY Tally
    <3> QED BY <1>1, <3>1
  <2> QED BY <1>2, <2>1
<1>4. Depth(q) = a - c /\ Depth(q + 1) = b - d
  BY <1>1, <1>2 DEF Depth
<1>5. Level(q) = b - c
  BY <1>1, <1>2 DEF Level, Tokens, Openers
<1>6. Outer(q) = IF toks[q] \in Brackets THEN (b - c) - 1 ELSE b - c
  BY <1>5 DEF Outer, Brackets, Openers
<1>7. toks[q] \in Brackets <=> toks[q] \in Openers \/ toks[q] \in Closers
  BY DEF Brackets
<1>8. ~(toks[q] \in Openers /\ toks[q] \in Closers)
  BY BracketsAre
<1> QED BY <1>2, <1>3, <1>4, <1>5, <1>6, <1>7, <1>8

\* A stretch of no token.
LEMMA FlushNone == \A p \in At : Flush(p, p)
BY DepthAt DEF Flush, At

\* One token that is no bracket.
LEMMA FlushOne == \A p \in At : toks[p] \notin Brackets => Flush(p, p + 1)
<1> SUFFICES ASSUME NEW p \in At, toks[p] \notin Brackets PROVE Flush(p, p + 1)
  OBVIOUS
<1>1. PICK q : q = p + 1 /\ p <= q /\ \A r \in p .. q - 1 : r = p
  BY DEF At
<1>2. PICK n \in Int : n = Depth(p) /\ Outer(p) = n /\ Depth(q) = n
  BY <1>1, DepthAt
<1>3. \A r \in p .. q - 1 : Outer(r) >= Depth(p)
  BY <1>1, <1>2
<1>4. Flush(p, q)
  BY <1>1, <1>2, <1>3, Zenon DEF Flush
<1> QED BY <1>1, <1>4

\* One stretch after the other.
LEMMA FlushTwo == \A p, q, s \in At : Flush(p, q) /\ Flush(q, s) => Flush(p, s)
<1> SUFFICES ASSUME NEW p \in At, NEW q \in At, NEW s \in At, Flush(p, q), Flush(q, s) PROVE Flush(p, s)
  OBVIOUS
<1>1. p <= q /\ q <= s /\ Depth(q) = Depth(p) /\ Depth(s) = Depth(q)
  BY DEF Flush
<1>2. ASSUME NEW r \in p .. s - 1 PROVE Outer(r) >= Depth(p)
  <2>1. r \in p .. q - 1 \/ r \in q .. s - 1
    BY <1>1 DEF At
  <2> QED BY <1>1, <2>1 DEF Flush
<1>3. p <= s
  BY <1>1 DEF At
<1> QED BY <1>1, <1>2, <1>3 DEF Flush

\* What stands in brackets, with them.
LEMMA FlushIn ==
  \A p, q \in At : toks[p] \in Openers /\ Flush(p + 1, q) /\ toks[q] \in Closers
    => /\ Flush(p, q + 1) /\ p < q /\ Outer(p) = Depth(p) /\ Outer(q) = Depth(p) /\ Depth(q) = Depth(p) + 1
       /\ \A r \in p + 1 .. q - 1 : Outer(r) > Depth(p)
<1> SUFFICES ASSUME NEW p \in At, NEW q \in At, toks[p] \in Openers, Flush(p + 1, q), toks[q] \in Closers
             PROVE  /\ Flush(p, q + 1) /\ p < q /\ Outer(p) = Depth(p) /\ Outer(q) = Depth(p)
                    /\ Depth(q) = Depth(p) + 1
                    /\ \A r \in p + 1 .. q - 1 : Outer(r) > Depth(p)
  OBVIOUS
<1>1. p + 1 <= q /\ Depth(q) = Depth(p + 1) /\ \A r \in p + 1 .. q - 1 : Outer(r) >= Depth(p + 1)
  BY DEF Flush
<1>2. PICK n \in Int : n = Depth(p) /\ Depth(p + 1) = n + 1 /\ Outer(p) = n /\ Depth(q + 1) = n /\ Outer(q) = n
  BY <1>1, DepthAt
<1>3. ASSUME NEW r \in p + 1 .. q - 1 PROVE Outer(r) > n
  <2>1. r \in At
    BY DEF At
  <2>2. Outer(r) \in Int /\ Outer(r) >= n + 1
    BY <1>1, <1>2, <2>1, DepthAt
  <2> QED BY <2>2
<1>4. ASSUME NEW r \in p .. (q + 1) - 1 PROVE Outer(r) >= n
  <2>1. r = p \/ r = q \/ r \in p + 1 .. q - 1
    BY <1>1 DEF At
  <2>2. CASE r \in p + 1 .. q - 1
    <3>1. r \in At
      BY <2>2 DEF At
    <3>2. Outer(r) \in Int /\ Outer(r) > n
      BY <1>3, <2>2, <3>1, DepthAt
    <3> QED BY <3>2
  <2> QED BY <1>2, <2>1, <2>2
<1>5. p < q /\ p <= q + 1
  BY <1>1 DEF At
<1> QED BY <1>1, <1>2, <1>3, <1>4, <1>5 DEF Flush

\* A token that begins a condition.
LEMMA ConditionBegins == \A p \in At : toks[p] \in Conditions => Conditional(p + 1)
<1> SUFFICES ASSUME NEW p \in At, toks[p] \in Conditions PROVE Conditional(p + 1)
  OBVIOUS
<1>1. toks[p] \notin Brackets
  BY BracketsAre DEF Brackets, Conditions
<1>2. Level(p) = Depth(p + 1)
  BY <1>1, DepthAt
<1>3. p \in 1 .. (p + 1) - 1 /\ \A r \in p + 1 .. (p + 1) - 1 : FALSE
  BY DEF At
<1> QED BY <1>2, <1>3 DEF Conditional

\* A token that ends one, or opens a bracket.
LEMMA ConditionOver == \A p \in At : toks[p] \in Fresheners => ~Conditional(p + 1)
<1> SUFFICES ASSUME NEW p \in At, toks[p] \in Fresheners, NEW k \in 1 .. (p + 1) - 1,
                    toks[k] \in Conditions,
                    \A r \in k + 1 .. (p + 1) - 1 :
                      Outer(r) >= Depth(p + 1) /\ (Outer(r) = Depth(p + 1) => toks[r] \notin Ending)
             PROVE  FALSE
  BY Zenon DEF Conditional
<1>1. /\ toks[p] \notin Conditions
      /\ toks[p] \in Openers \/ (toks[p] \in Ending /\ (toks[p] \in Closers \/ toks[p] \notin Brackets))
  BY BracketsAre, Zenon DEF Conditions, Ending, Brackets, Fresheners
<1>2. p \in k + 1 .. (p + 1) - 1
  <2>1. k # p
    BY <1>1, Zenon
  <2>2. p \in Nat /\ k \in 1 .. (p + 1) - 1
    BY Zenon DEF At
  <2> QED BY ONLY <2>1, <2>2
<1>3. Outer(p) >= Depth(p + 1) /\ (Outer(p) = Depth(p + 1) => toks[p] \notin Ending)
  BY <1>2, Zenon
<1>4. PICK n \in Int, m \in Int :
        /\ Depth(p + 1) = n /\ Outer(p) = m
        /\ toks[p] \in Openers => n = m + 1
        /\ toks[p] \notin Openers => n = m
  <2>1. PICK d \in Int : d = Depth(p)
    BY DepthAt, Zenon
  <2>2. PICK k1 : k1 = toks[p]
    BY Zenon
  <2>3. k1 \in Openers \/ k1 \in Closers \/ k1 \notin Brackets
    BY <1>1, <2>2, Zenon
  <2> QED BY <2>1, <2>2, <2>3, DepthAt
<1> QED BY <1>1, <1>3, <1>4

\* Without a token that begins one there is none but what was.
LEMMA ConditionBack ==
  \A p, q \in At :
    Flush(p, q) /\ (\A r \in p .. q - 1 : Outer(r) = Depth(p) => toks[r] \notin Conditions) => Calm(p, q)
<1> SUFFICES ASSUME NEW p \in At, NEW q \in At, Flush(p, q),
                    \A r \in p .. q - 1 : Outer(r) = Depth(p) => toks[r] \notin Conditions,
                    NEW k \in 1 .. q - 1, toks[k] \in Conditions, Level(k) = Depth(q),
                    \A r \in k + 1 .. q - 1 :
                      Outer(r) >= Depth(q) /\ (Outer(r) = Depth(q) => toks[r] \notin Ending)
             PROVE  Conditional(p)
  BY DEF Calm, Conditional
<1>1. p <= q /\ Depth(q) = Depth(p)
  BY DEF Flush
<1>2. toks[k] \notin Brackets /\ k \in At
  <2>1. toks[k] \notin Brackets
    BY BracketsAre DEF Brackets, Conditions
  <2>2. q \in Nat /\ k \in 1 .. q - 1
    BY DEF At
  <2>3. k \in Nat /\ k # 0
    BY ONLY <2>2
  <2> QED BY <2>1, <2>3 DEF At
<1>3. Outer(k) = Depth(p)
  BY <1>1, <1>2, DepthAt
<1>4. k \notin p .. q - 1
  BY <1>3
<1>5. k \in 1 .. p - 1 /\ \A r \in k + 1 .. p - 1 : r \in k + 1 .. q - 1
  <2>1. p \in Nat /\ q \in Nat /\ k \in 1 .. q - 1 /\ p <= q
    BY <1>1 DEF At
  <2> QED BY ONLY <1>4, <2>1
<1> QED BY <1>1, <1>5 DEF Conditional

\* Without a token that ends one it goes on.
LEMMA ConditionOn ==
  \A p, q \in At :
    Flush(p, q) /\ (\A r \in p .. q - 1 : Outer(r) = Depth(p) => toks[r] \notin Ending)
      => (Conditional(p) => Conditional(q))
<1> SUFFICES ASSUME NEW p \in At, NEW q \in At, Flush(p, q),
                    \A r \in p .. q - 1 : Outer(r) = Depth(p) => toks[r] \notin Ending,
                    NEW k \in 1 .. p - 1, toks[k] \in Conditions, Level(k) = Depth(p),
                    \A r \in k + 1 .. p - 1 :
                      Outer(r) >= Depth(p) /\ (Outer(r) = Depth(p) => toks[r] \notin Ending)
             PROVE  Conditional(q)
  BY DEF Conditional
<1>1. p <= q /\ Depth(q) = Depth(p) /\ \A r \in p .. q - 1 : Outer(r) >= Depth(p)
  BY DEF Flush
<1>2. k \in 1 .. q - 1 /\ \A r \in k + 1 .. q - 1 : r \in k + 1 .. p - 1 \/ r \in p .. q - 1
  <2>1. p \in Nat /\ q \in Nat /\ k \in 1 .. p - 1 /\ p <= q
    BY <1>1 DEF At
  <2> QED BY ONLY <2>1
<1>3. ASSUME NEW r \in k + 1 .. q - 1
      PROVE  Outer(r) >= Depth(q) /\ (Outer(r) = Depth(q) => toks[r] \notin Ending)
  BY <1>1, <1>2
<1> QED BY <1>1, <1>2, <1>3 DEF Conditional

\* The tokens that are no bracket and neither begin nor end a condition.
LEMMA TokenOn ==
  ASSUME NEW p \in At, toks[p] \notin Brackets \cup Conditions \cup Ending
  PROVE  /\ Flush(p, p + 1) /\ Depth(p + 1) = Depth(p) /\ Outer(p) = Depth(p) /\ Depth(p) \in Int
         /\ Conditional(p + 1) <=> Conditional(p)
<1>1. /\ p + 1 \in At /\ \A r \in p .. (p + 1) - 1 : r = p
  BY DEF At
<1>2. Flush(p, p + 1) /\ Depth(p + 1) = Depth(p) /\ Outer(p) = Depth(p) /\ Depth(p) \in Int
  BY FlushOne, DepthAt
<1>3. \A r \in p .. (p + 1) - 1 : toks[r] \notin Conditions /\ toks[r] \notin Ending
  BY <1>1, Zenon
<1>4. Conditional(p + 1) => Conditional(p)
  BY <1>1, <1>2, <1>3, ConditionBack, Zenon DEF Calm
<1>5. Conditional(p) => Conditional(p + 1)
  BY <1>1, <1>2, <1>3, ConditionOn, Zenon
<1> QED BY <1>2, <1>4, <1>5

\* The tokens of an expression.
LEMMA KindsIn ==
  /\ \A k \in Idents \cup Literals : k \notin Brackets \cup Conditions \cup Ending \cup DOMAIN Prec
  /\ \A k \in DOMAIN Prec \cup Unary : k \notin Brackets \cup Conditions \cup Ending
                                       /\ k \notin Idents \cup Literals \cup {")", "]", "}"}
  /\ "." \notin Brackets \cup Conditions \cup Ending \cup DOMAIN Prec
  /\ \A k \in Brackets : k \notin DOMAIN Prec /\ k \notin Conditions
<1>1. Brackets = {"(", "[", "{"} \cup {")", "]", "}"}
  BY BracketsAre DEF Brackets
<1>2. Idents \cup Literals = {"ident", "old", "int", "lit"}
  BY DEF Idents, Literals
<1>3. DOMAIN Prec = {"=", "||", "&&", "|", "^", "&", "==", "<", "..", "<<", "+", "-", "*"}
  BY PrecIs
<1>4. \A k \in Idents \cup Literals : k \notin Brackets \cup Conditions \cup Ending \cup DOMAIN Prec
  BY <1>1, <1>2, <1>3, Zenon DEF Conditions, Ending
<1>5. \A k \in DOMAIN Prec : k \notin Brackets \cup Conditions \cup Ending
                             /\ k \notin Idents \cup Literals \cup {")", "]", "}"}
  BY <1>1, <1>2, <1>3, Zenon DEF Conditions, Ending
<1>6. \A k \in Unary : k \notin Brackets \cup Conditions \cup Ending
                       /\ k \notin Idents \cup Literals \cup {")", "]", "}"}
  BY <1>1, <1>2, Zenon DEF Unary, Conditions, Ending
<1>7. "." \notin Brackets \cup Conditions \cup Ending \cup DOMAIN Prec
  BY <1>1, <1>3, Zenon DEF Conditions, Ending
<1>8. \A k \in Brackets : k \notin DOMAIN Prec /\ k \notin Conditions
  BY <1>1, <1>3, Zenon DEF Conditions
<1> QED BY <1>4, <1>5, <1>6, <1>7, <1>8, Zenon

\* What does not stand in the way.
LEMMA NoBar ==
  ASSUME NEW r \in At, NEW n \in Int, NEW m
  PROVE  /\ Outer(r) > n => ~Bar(r, n, m)
         /\ Outer(r) = n /\ InExpression(r) /\ ~IsBinary(r) => ~Bar(r, n, m)
         /\ ~Bar(r, n, m) => Outer(r) >= n
<1>1. Outer(r) \in Int
  BY DepthAt
<1> QED BY <1>1 DEF Bar

\* Operators that bind more strongly stand in the way of more.
LEMMA BarLess ==
  ASSUME NEW r \in At, NEW n \in Int, NEW m \in Int, NEW k \in Int, k <= m
  PROVE  Bar(r, n, k) => Bar(r, n, m)
<1>1. IsBinary(r) => Prec[toks[r]] \in Int
  <2>1. IsBinary(r) => toks[r] \in DOMAIN Prec
    BY DEF IsBinary
  <2> QED BY <2>1, PrecIs
<1>2. IsBinary(r) /\ Prec[toks[r]] < k => Prec[toks[r]] < m
  BY <1>1
<1> QED BY <1>2, Zenon DEF Bar

\* An expression of the stronger operators is one of all.
LEMMA SpanLess == \A f, p \in At : \A m, k \in Int : Span(f, p, m) /\ k <= m => Span(f, p, k)
<1> SUFFICES ASSUME NEW f \in At, NEW p \in At, NEW m \in Int, NEW k \in Int, Span(f, p, m), k <= m
             PROVE  Span(f, p, k)
  BY Zenon
<1>1. ASSUME NEW r \in f .. p - 1, ~Bar(r, Depth(f), m) PROVE ~Bar(r, Depth(f), k)
  <2>1. r \in At
    BY DEF At
  <2>2. Depth(f) \in Int
    BY DepthAt
  <2> QED BY <1>1, <2>1, <2>2, BarLess
<1> QED BY <1>1, Zenon DEF Span

\* An expression closes what it opens.
LEMMA SpanFlush == \A f, p \in At : \A m : Span(f, p, m) => Flush(f, p) /\ Calm(f, p)
<1> SUFFICES ASSUME NEW f \in At, NEW p \in At, NEW m, Span(f, p, m) PROVE Flush(f, p) /\ Calm(f, p)
  BY Zenon
<1>1. ASSUME NEW r \in f .. p - 1 PROVE Outer(r) >= Depth(f)
  <2>1. r \in At /\ Depth(f) \in Int
    BY DepthAt DEF At
  <2> QED BY <2>1, NoBar DEF Span
<1>2. f <= p
  BY DEF At, Span
<1>3. Flush(f, p)
  BY <1>1, <1>2, Zenon DEF Span, Flush
<1> QED BY <1>3, Zenon DEF Span, Calm

\* What is put in front of an expression.
LEMMA SpanJoin ==
  ASSUME NEW f \in At, NEW p \in At, NEW q \in At, NEW m,
         Flush(f, p), Conditional(p) <=> Conditional(f),
         \A r \in f .. p - 1 : ~Bar(r, Depth(f), m), Span(p, q, m)
  PROVE  Span(f, q, m)
<1>1. f <= p /\ Depth(p) = Depth(f) /\ p < q
  BY Zenon DEF Flush, Span
<1>2. f < q /\ \A r \in f .. q - 1 : r \in f .. p - 1 \/ r \in p .. q - 1
  <2>1. f \in Nat /\ p \in Nat /\ q \in Nat
    BY Zenon DEF At
  <2> QED BY ONLY <1>1, <2>1
<1>3. \A r \in f .. q - 1 : ~Bar(r, Depth(f), m)
  BY <1>1, <1>2, Zenon DEF Span
<1> QED BY <1>1, <1>2, <1>3, Zenon DEF Span

\* One stretch of an expression after the other.
LEMMA SpanTwo == \A f, p, q \in At : \A m : Span(f, p, m) /\ Span(p, q, m) => Span(f, q, m)
<1> SUFFICES ASSUME NEW f \in At, NEW p \in At, NEW q \in At, NEW m, Span(f, p, m), Span(p, q, m)
             PROVE  Span(f, q, m)
  BY Zenon
<1>1. Flush(f, p) /\ (Conditional(p) <=> Conditional(f)) /\ \A r \in f .. p - 1 : ~Bar(r, Depth(f), m)
  BY SpanFlush, Zenon DEF Span
<1> QED BY <1>1, SpanJoin

\* The places around a place.
LEMMA Nearby ==
  ASSUME NEW p \in At
  PROVE  /\ p \in Nat /\ p + 1 \in At /\ p + 2 \in At /\ p + 3 \in At /\ p + 1 > 1
         /\ (p + 1) - 1 = p /\ (p + 1) + 1 = p + 2 /\ (p + 2) - 1 = p + 1 /\ (p + 2) + 1 = p + 3
         /\ (p + 3) - 1 = p + 2 /\ p <= p /\ p < p + 1 /\ p <= p + 1 /\ p + 2 > 1 /\ p + 3 > 1
         /\ \A r \in p .. (p + 1) - 1 : r = p
BY DEF At

\* Stretches that are calm: of no token.
LEMMA CalmNone == \A p \in At : Calm(p, p)
BY FlushNone, Zenon DEF Calm

\* One after the other.
LEMMA CalmTwo == \A p, q, r \in At : Calm(p, q) /\ Calm(q, r) => Calm(p, r)
BY FlushTwo, Zenon DEF Calm

\* One token.
LEMMA CalmOne == \A p \in At : toks[p] \notin Brackets \cup Conditions \cup Ending => Calm(p, p + 1)
BY TokenOn, Zenon DEF Calm

\* What stands in brackets, with them.
LEMMA CalmIn ==
  \A p, q \in At : toks[p] \in Openers /\ Flush(p + 1, q) /\ toks[q] \in Closers => Calm(p, q + 1)
<1> SUFFICES ASSUME NEW p \in At, NEW q \in At, toks[p] \in Openers, Flush(p + 1, q), toks[q] \in Closers
             PROVE  Calm(p, q + 1)
  OBVIOUS
<1>1. Flush(p, q + 1) /\ \A r \in p + 1 .. q - 1 : Outer(r) > Depth(p)
  BY FlushIn
<1>2. q + 1 \in At
  BY Nearby
<1>3. toks[p] \notin Conditions /\ toks[q] \notin Conditions
  BY KindsIn DEF Brackets
<1>4. ASSUME NEW r \in p .. (q + 1) - 1, Outer(r) = Depth(p) PROVE toks[r] \notin Conditions
  <2>1. r = p \/ r = q \/ r \in p + 1 .. q - 1
    BY DEF At
  <2>2. r \notin p + 1 .. q - 1
    <3>1. Depth(p) \in Int
      BY DepthAt
    <3> QED BY <1>1, <1>4, <3>1
  <2> QED BY <1>3, <2>1, <2>2
<1> QED BY <1>1, <1>2, <1>4, ConditionBack

\* What is in brackets is an expression if the brackets are of one.
LEMMA SpanIn ==
  ASSUME NEW p \in At, NEW q \in At, NEW m, toks[p] \in Openers, Flush(p + 1, q), toks[q] \in Closers,
         InExpression(p), InExpression(q), EndsOperand(q), Conditional(q + 1) <=> Conditional(p)
  PROVE  Span(p, q + 1, m)
<1>1. /\ Flush(p, q + 1) /\ p < q /\ Outer(p) = Depth(p) /\ Outer(q) = Depth(p)
      /\ \A r \in p + 1 .. q - 1 : Outer(r) > Depth(p)
  BY FlushIn
<1>2. toks[p] \notin DOMAIN Prec /\ toks[q] \notin DOMAIN Prec
  BY KindsIn DEF Brackets
<1>3. ASSUME NEW r \in p .. (q + 1) - 1 PROVE ~Bar(r, Depth(p), m)
  <2>1. r \in At /\ Depth(p) \in Int
    BY DepthAt DEF At
  <2>2. r = p \/ r = q \/ r \in p + 1 .. q - 1
    BY DEF At
  <2>3. r \in p + 1 .. q - 1 \/ (Outer(r) = Depth(p) /\ InExpression(r) /\ ~IsBinary(r))
    BY <1>1, <1>2, <2>2 DEF IsBinary
  <2> QED BY <1>1, <2>1, <2>3, NoBar
<1>4. p < q + 1 /\ (q + 1) - 1 = q
  BY <1>1 DEF At
<1>5. Depth(q + 1) = Depth(p)
  BY <1>1 DEF Flush
<1> QED BY <1>3, <1>4, <1>5, Zenon DEF Span

\* Parentheses and indexes.
LEMMA SpanBracket ==
  ASSUME NEW p \in At, NEW q \in At, NEW m, toks[p] \in {"(", "["}, Flush(p + 1, q), toks[q] \in {")", "]"}
  PROVE  Span(p, q + 1, m)
<1>1. toks[p] \in Openers /\ toks[q] \in Closers
  BY BracketsAre, Zenon
<1>2. InExpression(p) /\ InExpression(q) /\ EndsOperand(q)
  BY Zenon DEF InExpression, EndsOperand
<1>3. toks[p] \notin Ending /\ toks[q] \notin Ending
  BY Zenon DEF Ending
<1>4. /\ Flush(p, q + 1) /\ \A r \in p + 1 .. q - 1 : Outer(r) > Depth(p)
  BY <1>1, FlushIn
<1>5. ASSUME NEW r \in p .. (q + 1) - 1, Outer(r) = Depth(p) PROVE toks[r] \notin Ending
  <2>1. r = p \/ r = q \/ r \in p + 1 .. q - 1
    BY DEF At
  <2>2. r \notin p + 1 .. q - 1
    <3>1. Depth(p) \in Int
      BY DepthAt
    <3> QED BY <1>4, <1>5, <3>1
  <2> QED BY <1>3, <2>1, <2>2
<1>6. q + 1 \in At
  BY Nearby
<1>7. Conditional(p) => Conditional(q + 1)
  BY <1>4, <1>5, <1>6, ConditionOn
<1>8. Conditional(q + 1) => Conditional(p)
  BY <1>1, CalmIn DEF Calm
<1> QED BY <1>1, <1>2, <1>7, <1>8, SpanIn

\* One token in front of an expression.
LEMMA SpanFront ==
  ASSUME NEW p \in At, NEW q \in At, NEW m, toks[p] \notin Brackets \cup Conditions \cup Ending,
         ~Bar(p, Depth(p), m), Span(p + 1, q, m)
  PROVE  Span(p, q, m)
<1>1. p + 1 \in At /\ \A r \in p .. (p + 1) - 1 : r = p
  BY Nearby
<1>2. Flush(p, p + 1) /\ (Conditional(p + 1) <=> Conditional(p))
  BY TokenOn
<1>3. \A r \in p .. (p + 1) - 1 : ~Bar(r, Depth(p), m)
  BY <1>1, Zenon
<1> QED BY <1>1, <1>2, <1>3, SpanJoin

\* Identifiers and literals, with and without a point in front.
LEMMA SpanToken == \A p \in At : \A m : toks[p] \in Idents \cup Literals => Span(p, p + 1, m)
<1> SUFFICES ASSUME NEW p \in At, NEW m, toks[p] \in Idents \cup Literals PROVE Span(p, p + 1, m)
  BY Zenon
<1>1. /\ Depth(p + 1) = Depth(p) /\ Outer(p) = Depth(p) /\ Depth(p) \in Int
      /\ Conditional(p + 1) <=> Conditional(p)
  BY KindsIn, TokenOn
<1>2. InExpression(p) /\ ~IsBinary(p) /\ EndsOperand(p)
  BY KindsIn, Zenon DEF InExpression, IsBinary, EndsOperand
<1>3. ~Bar(p, Depth(p), m)
  BY <1>1, <1>2, NoBar
<1>4. \A r \in p .. (p + 1) - 1 : ~Bar(r, Depth(p), m)
  BY <1>3, Nearby, Zenon
<1>5. p < p + 1 /\ (p + 1) - 1 = p
  BY Nearby
<1> QED BY <1>1, <1>2, <1>4, <1>5, Zenon DEF Span

\* A field.
LEMMA SpanField ==
  ASSUME NEW p \in At, NEW m, toks[p] = ".", toks[p + 1] \in Idents
  PROVE  Span(p, p + 2, m)
<1>1. toks[p] \notin Brackets \cup Conditions \cup Ending /\ toks[p] \notin DOMAIN Prec
  BY KindsIn, Zenon
<1>2. Outer(p) = Depth(p) /\ Depth(p) \in Int
  BY <1>1, TokenOn
<1>3. InExpression(p) /\ ~IsBinary(p)
  BY <1>1, Zenon DEF InExpression, IsBinary
<1>4. ~Bar(p, Depth(p), m)
  BY <1>2, <1>3, NoBar
<1>5. p + 1 \in At /\ p + 2 \in At /\ (p + 1) + 1 = p + 2
  BY Nearby
<1>6. Span(p + 1, p + 2, m)
  BY <1>5, SpanToken
<1> QED BY <1>1, <1>4, <1>5, <1>6, SpanFront

\* An operator in front of its operand, and one between its operands.
LEMMA SpanUnary ==
  ASSUME NEW p \in At, NEW q \in At, NEW m, toks[p] \in Unary, ~EndsOperand(p - 1), Span(p + 1, q, m)
  PROVE  Span(p, q, m)
<1>1. toks[p] \notin Brackets \cup Conditions \cup Ending
  BY KindsIn, Zenon
<1>2. Outer(p) = Depth(p) /\ Depth(p) \in Int
  BY <1>1, TokenOn
<1>3. InExpression(p) /\ ~IsBinary(p)
  BY Zenon DEF InExpression, IsBinary
<1>4. ~Bar(p, Depth(p), m)
  BY <1>2, <1>3, NoBar
<1> QED BY <1>1, <1>4, SpanFront

\* The precedences on both sides of an operator.
LEMMA Mins ==
  ASSUME NEW a, toks[a] \in DOMAIN Prec
  PROVE  /\ Prec[toks[a]] \in 1 .. 12 /\ LeftMin(a) \in 1 .. 12 /\ RightMin(toks[a]) \in 1 .. 13
         /\ Prec[toks[a]] <= LeftMin(a) /\ Prec[toks[a]] <= RightMin(toks[a])
         /\ ASSIGN = 1 /\ UNARY = 13
         /\ toks[a] = "=" => Prec[toks[a]] = 1 /\ LeftMin(a) = 2 /\ RightMin(toks[a]) = 1
         /\ toks[a] # "=" => LeftMin(a) = Prec[toks[a]] /\ RightMin(toks[a]) = Prec[toks[a]] + 1
                             /\ Prec[toks[a]] > 1
<1>1. Prec["="] = 1 /\ \A k \in DOMAIN Prec : k # "=" => Prec[k] \in 2 .. 12
  <2>1. /\ Prec["="] = 1 /\ Prec["||"] = 2 /\ Prec["&&"] = 3 /\ Prec["|"] = 4
        /\ Prec["^"] = 5 /\ Prec["&"] = 6 /\ Prec["=="] = 7 /\ Prec["<"] = 8
        /\ Prec[".."] = 9 /\ Prec["<<"] = 10 /\ Prec["+"] = 11 /\ Prec["-"] = 11
        /\ Prec["*"] = 12
    BY DEF Prec
  <2> QED BY <2>1, PrecIs
<1> QED BY <1>1 DEF LeftMin, RightMin, ASSIGN, UNARY

\* One operator between two operands.
LEMMA SpanBinary ==
  ASSUME NEW f \in At, NEW a \in At, NEW q \in At, NEW k \in Int,
         Span(f, a, LeftMin(a)), toks[a] \in DOMAIN Prec,
         Span(a + 1, q, RightMin(toks[a])), k <= Prec[toks[a]]
  PROVE  Span(f, q, k)
<1>1. PICK b \in Int, l \in Int, r \in Int :
        b = Prec[toks[a]] /\ l = LeftMin(a) /\ r = RightMin(toks[a]) /\ b <= l /\ b <= r
  BY Mins
<1>2. k <= l /\ k <= r
  BY <1>1
<1>3. Span(f, a, k)
  BY <1>1, <1>2, SpanLess
<1>4. a + 1 \in At
  BY Nearby
<1>5. Span(a + 1, q, k)
  BY <1>1, <1>2, <1>4, SpanLess
<1>6. toks[a] \notin Brackets \cup Conditions \cup Ending
  BY KindsIn, Zenon
<1>7. Outer(a) = Depth(a) /\ Depth(a) \in Int
  BY <1>6, TokenOn
<1>8. InExpression(a)
  BY Zenon DEF InExpression
<1>9. ~(Prec[toks[a]] < k)
  BY <1>1
<1>10. ~Bar(a, Depth(a), k)
  BY <1>7, <1>8, <1>9 DEF Bar
<1>11. Span(a, q, k)
  BY <1>5, <1>6, <1>10, SpanFront
<1> QED BY <1>3, <1>11, SpanTwo

\* The braces.
Brace == {"{"}
Unbrace == {"}"}

\* They are brackets, and nothing else that an expression is made of.
LEMMA BraceIs ==
  /\ Brace \subseteq Openers /\ Unbrace \subseteq Closers /\ Brace \subseteq Fresheners
  /\ Unbrace \subseteq Fresheners
  /\ \A k \in Brace \cup Unbrace : k \notin Idents \cup Literals \cup {")", "]"} /\ k \notin DOMAIN Prec
                                   /\ k \notin Unary /\ k \notin Continues
  /\ \A k \in Brace : k \notin Unbrace
<1>1. Openers = {"(", "[", "{"} /\ Closers = {")", "]", "}"}
  BY BracketsAre, Zenon
<1>2. Brace \subseteq Openers /\ Unbrace \subseteq Closers
  BY <1>1, Zenon DEF Brace, Unbrace
<1>3. Brace \subseteq Fresheners /\ Unbrace \subseteq Fresheners
  BY Zenon DEF Brace, Unbrace, Fresheners
<1>4. \A k \in Brace \cup Unbrace : k \notin Idents \cup Literals \cup {")", "]"} /\ k \notin Unary
                                    /\ k \notin Continues
  BY Zenon DEF Brace, Unbrace, Idents, Literals, Unary, Continues
<1>5. \A k \in Brace \cup Unbrace : k \notin DOMAIN Prec
  BY <1>2, KindsIn, Zenon DEF Brackets
<1>6. \A k \in Brace : k \notin Unbrace
  BY Zenon DEF Brace, Unbrace
<1> QED BY <1>2, <1>3, <1>4, <1>5, <1>6, Zenon

\* What opens and closes literals.
LEMMA LiteralIs ==
  /\ \A p : OpensLiteral(p) <=> /\ toks[p] \in Brace /\ ~InCondition(p) /\ toks[p - 1] \in Idents
                                /\ toks[p + 1] \in Idents /\ toks[p + 2] = "="
  /\ \A r : ClosesLiteral(r) <=> toks[r] \in Unbrace /\ \E q \in 1 .. r - 1 : Pair(q, r) /\ OpensLiteral(q)
<1>1. \A p : toks[p] \in Brace <=> toks[p] = "{"
  BY Zenon DEF Brace
<1>2. \A p : toks[p] \in Unbrace <=> toks[p] = "}"
  BY Zenon DEF Unbrace
<1> QED BY <1>1, <1>2, Zenon DEF OpensLiteral, ClosesLiteral

\* The two ways to say that a brace is in a condition.
LEMMA ConditionBrace == \A p \in At : toks[p] \in Brace => (InCondition(p) <=> Conditional(p))
<1> SUFFICES ASSUME NEW p \in At, toks[p] \in Brace PROVE InCondition(p) <=> Conditional(p)
  BY Zenon
<1>1. Outer(p) = Depth(p)
  BY BraceIs, DepthAt
<1> QED BY <1>1, Zenon DEF InCondition, Conditional, Conditions, Ending

\* Flush brackets are partners.
LEMMA PairFlush ==
  ASSUME NEW p \in At, NEW q \in At, toks[p] \in Brace, Flush(p + 1, q), toks[q] \in Unbrace
  PROVE  Pair(p, q)
<1>1. /\ Flush(p, q + 1) /\ p < q /\ Outer(p) = Depth(p) /\ Depth(q) = Depth(p) + 1
      /\ \A r \in p + 1 .. q - 1 : Outer(r) > Depth(p)
  BY FlushIn, BraceIs
<1>2. PICK n \in Int : n = Depth(p) /\ Level(p) = n + 1 /\ Level(q) = n + 1
  <2>1. Depth(p) \in Int /\ Level(p) = Depth(p) + 1 /\ Level(q) = Depth(q)
    BY BraceIs, DepthAt
  <2> QED BY <1>1, <2>1
<1>3. ASSUME NEW r \in p + 1 .. q - 1, toks[r] \in Closers PROVE Level(r) > n + 1
  <2>1. r \in At
    BY DEF At
  <2>2. PICK d \in Int : d = Depth(r) /\ Outer(r) = d - 1 /\ Level(r) = d
    BY <1>3, <2>1, DepthAt
  <2>3. d - 1 > n
    BY <1>1, <1>2, <2>2
  <2> QED BY <2>2, <2>3
<1>4. toks[p] \in DOMAIN Closing /\ toks[q] = Closing[toks[p]]
  BY BracketsAre, Zenon DEF Brace, Unbrace, Openers
<1>5. \A r \in p + 1 .. q - 1 : Level(r) > Level(p) \/ toks[r] \notin Closers
  BY <1>2, <1>3
<1>6. Level(q) = Level(p)
  BY <1>2
<1> QED BY <1>1, <1>4, <1>5, <1>6, Zenon DEF Pair

\* A bracket has no two partners in front of it.
LEMMA PairInner ==
  ASSUME NEW p \in At, NEW q \in At, NEW r \in At, Pair(p, r), Pair(q, r), p < q
  PROVE  FALSE
<1>1. /\ q < r /\ toks[p] \in Openers /\ toks[q] \in Openers /\ Level(q) = Level(p)
      /\ \A s \in p + 1 .. r - 1 : Level(s) > Level(p) \/ toks[s] \notin Closers
  BY DEF Pair, Openers
<1>2. PICK n \in Int : n = Level(p) /\ Depth(p + 1) = n /\ Depth(q) = n - 1
  <2>1. PICK a \in Int, b \in Int : a = Depth(p) /\ b = Depth(q) /\ Level(p) = a + 1 /\ Level(q) = b + 1
                                    /\ Depth(p + 1) = a + 1
    BY <1>1, DepthAt
  <2>2. a + 1 \in Int /\ b = (a + 1) - 1
    BY <1>1, <2>1
  <2> QED BY <2>1, <2>2
<1> DEFINE S == {i \in Nat : (p + 1) + i <= q => Depth((p + 1) + i) >= n}
<1>3. 0 \in S
  BY <1>2 DEF At
<1>4. ASSUME NEW i \in Nat, i \in S PROVE i + 1 \in S
  <2> SUFFICES ASSUME (p + 1) + (i + 1) <= q PROVE Depth((p + 1) + (i + 1)) >= n
    OBVIOUS
  <2>1. PICK s \in At : s = (p + 1) + i /\ s + 1 = (p + 1) + (i + 1) /\ s \in p + 1 .. r - 1 /\ s <= q
    <3>1. /\ (p + 1) + i \in At /\ ((p + 1) + i) + 1 = (p + 1) + (i + 1)
          /\ (p + 1) + i \in p + 1 .. r - 1 /\ (p + 1) + i <= q
      BY <1>1 DEF At
    <3> HIDE DEF S
    <3> QED BY <3>1
  <2>2. Depth(s) >= n
    BY <1>4, <2>1
  <2>3. PICK d \in Int, e \in Int, l \in Int :
          /\ d = Depth(s) /\ e = Depth(s + 1) /\ l = Level(s)
          /\ toks[s] \in Openers => e = d + 1
          /\ toks[s] \in Closers => e = d - 1 /\ l = d
          /\ toks[s] \notin Brackets => e = d
    BY <2>1, DepthAt
  <2>4. toks[s] \in Closers => l > n
    BY <1>1, <1>2, <2>1, <2>3
  <2>5. toks[s] \in Openers \/ toks[s] \in Closers \/ toks[s] \notin Brackets
    BY DEF Brackets
  <2>6. e >= n
    BY <2>2, <2>3, <2>4, <2>5
  <2> QED BY <2>1, <2>3, <2>6
<1>5. PICK i \in Nat : (p + 1) + i = q
  <2>1. q - (p + 1) \in Nat /\ (p + 1) + (q - (p + 1)) = q
    BY DEF At
  <2> HIDE DEF S
  <2> QED BY <2>1
<1>6. i \in S
  <2> HIDE DEF S
  <2> QED BY <1>3, <1>4, SetInduction
<1>7. Depth(q) >= n
  <2>1. q <= q
    BY DEF At
  <2> QED BY <1>5, <1>6, <2>1
<1> QED BY <1>2, <1>7

\* Nor behind it.
LEMMA PairOne == \A p, q, r \in At : Pair(p, r) /\ Pair(q, r) => p = q
<1> SUFFICES ASSUME NEW p \in At, NEW q \in At, NEW r \in At, Pair(p, r), Pair(q, r), p # q PROVE FALSE
  OBVIOUS
<1>1. p < q \/ q < p
  BY DEF At
<1> QED BY <1>1, PairInner

\* What braces do to the condition they are in, and what comes after them.
LEMMA BraceOpens ==
  ASSUME NEW p \in At, toks[p] \in Brace
  PROVE  Conditional(p) \/ toks[p - 1] \notin Idents => ~OpensLiteral(p)
BY ConditionBrace, LiteralIs

\* A struct literal.
LEMMA SpanLiteral ==
  ASSUME NEW p \in At, NEW q \in At, NEW m, OpensLiteral(p), Flush(p + 1, q), toks[q] \in Unbrace
  PROVE  Span(p, q + 1, m)
<1>1. toks[p] \in Brace /\ toks[p] \in Openers /\ toks[q] \in Closers
  BY LiteralIs, BraceIs
<1>2. p \in 1 .. q - 1
  <2>1. p < q
    BY <1>1, FlushIn
  <2> QED BY <2>1 DEF At
<1>3. ClosesLiteral(q)
  BY <1>1, <1>2, PairFlush, LiteralIs
<1>4. InExpression(p) /\ InExpression(q) /\ EndsOperand(q)
  BY <1>3, Zenon DEF InExpression, EndsOperand
<1>5. ~Conditional(p)
  BY <1>1, BraceOpens
<1>6. ~Conditional(q + 1)
  BY BraceIs, ConditionOver
<1> QED BY <1>1, <1>4, <1>5, <1>6, SpanIn

\* What an expression can start after: a token that is not of one.
LEMMA FenceOut ==
  ASSUME NEW p \in At, NEW m, toks[p] \notin Brackets, ~InExpression(p), ~EndsOperand(p)
  PROVE  Fence(p + 1, m)
<1>1. Outer(p) = Depth(p + 1)
  BY DepthAt
<1>2. (p + 1) - 1 = p /\ p + 1 > 1
  BY Nearby
<1>3. \A n : Bar(p, Depth(p + 1), n)
  BY <1>1, Zenon DEF Bar
<1> QED BY <1>2, <1>3, Zenon DEF Fence

\* An opening bracket of an expression.
LEMMA FreshIn == \A p \in At : toks[p] \in {"(", "["} => Fresh(p + 1) /\ \A m : Fence(p + 1, m)
<1> SUFFICES ASSUME NEW p \in At, toks[p] \in {"(", "["} PROVE Fresh(p + 1) /\ \A m : Fence(p + 1, m)
  BY Zenon
<1>1. toks[p] \in Openers /\ toks[p] \in Fresheners
  BY BracketsAre, Zenon DEF Fresheners
<1>2. toks[p] \notin Idents \cup Literals \cup {")", "]"} /\ toks[p] \notin Unbrace
  BY Zenon DEF Idents, Literals, Unbrace
<1>3. ~EndsOperand(p)
  BY <1>2, LiteralIs, Zenon DEF EndsOperand
<1>4. PICK d \in Int : Depth(p + 1) = d + 1 /\ Outer(p) = d
  BY <1>1, DepthAt
<1>5. Outer(p) < Depth(p + 1)
  BY <1>4
<1>6. \A n : Bar(p, Depth(p + 1), n)
  BY <1>5, Zenon DEF Bar
<1>7. (p + 1) - 1 = p /\ p + 1 > 1
  BY Nearby
<1>8. \A m : Fence(p + 1, m)
  BY <1>3, <1>6, <1>7, Zenon DEF Fence
<1> QED BY <1>1, <1>8, ConditionOver, Zenon DEF Fresh

\* A brace that opens, and one that closes a block.
LEMMA FreshBlock == \A p \in At : toks[p] \in Brace => Fresh(p + 1)
<1> SUFFICES ASSUME NEW p \in At, toks[p] \in Brace PROVE Fresh(p + 1)
  BY Zenon
<1>1. toks[p] \in Openers /\ toks[p] \in Fresheners
  BY BraceIs
<1>3. ~EndsOperand(p)
  BY BraceIs, LiteralIs, Zenon DEF EndsOperand
<1>4. PICK d \in Int : Depth(p + 1) = d + 1 /\ Outer(p) = d
  BY <1>1, DepthAt
<1>5. Outer(p) < Depth(p + 1)
  BY <1>4
<1>6. \A n : Bar(p, Depth(p + 1), n)
  BY <1>5, Zenon DEF Bar
<1>7. (p + 1) - 1 = p /\ p + 1 > 1
  BY Nearby
<1>8. \A m : Fence(p + 1, m)
  BY <1>3, <1>6, <1>7, Zenon DEF Fence
<1> QED BY <1>1, <1>8, ConditionOver, Zenon DEF Fresh

\* A block, behind which a statement may begin unless it was a literal.
LEMMA BlockOver ==
  ASSUME NEW p \in At, NEW q \in At, toks[p] \in Brace, Flush(p + 1, q), toks[q] \in Unbrace
  PROVE  Flush(p, q + 1) /\ (~OpensLiteral(p) => Fresh(q + 1))
<1>1. toks[p] \in Openers /\ toks[q] \in Closers /\ toks[q] \in Fresheners
  BY BraceIs
<1>2. Flush(p, q + 1)
  BY <1>1, FlushIn
<1>3. Pair(p, q)
  BY PairFlush
<1>4. ASSUME ~OpensLiteral(p) PROVE Fresh(q + 1)
  <2>1. ~ClosesLiteral(q)
    <3> SUFFICES ASSUME NEW s \in 1 .. q - 1, Pair(s, q), OpensLiteral(s) PROVE FALSE
      BY LiteralIs, Zenon
    <3>1. s \in At
      BY DEF At
    <3>2. s = p
      BY <1>3, <3>1, PairOne
    <3> QED BY <1>4, <3>2
  <2>2. ~EndsOperand(q)
    BY <2>1, BraceIs, Zenon DEF EndsOperand
  <2>3. ~InExpression(q)
    <3>1. toks[q] \notin {"(", ")", "[", "]", "."}
      BY Zenon DEF Unbrace
    <3>2. ~OpensLiteral(q)
      BY BraceIs, LiteralIs, Zenon
    <3> QED BY <2>1, <3>1, <3>2, BraceIs, Zenon DEF InExpression
  <2>4. PICK d \in Int : Depth(q + 1) = d /\ Outer(q) = d
    <3>1. PICK e \in Int : e = Depth(q) /\ Depth(q + 1) = e - 1 /\ Outer(q) = e - 1
      BY <1>1, DepthAt
    <3>2. e - 1 \in Int
      OBVIOUS
    <3> QED BY <3>1, <3>2
  <2>5. \A n : Bar(q, Depth(q + 1), n)
    BY <2>3, <2>4, Zenon DEF Bar
  <2>6. (q + 1) - 1 = q /\ q + 1 > 1
    BY Nearby
  <2>7. Fence(q + 1, ASSIGN)
    BY <2>2, <2>5, <2>6, Zenon DEF Fence
  <2> QED BY <1>1, <2>7, ConditionOver, Zenon DEF Fresh
<1> QED BY <1>2, <1>4

-----------------------------------------------------------------------------
(* What an operator spans.                                                    *)

\* What a call that expects an operand would read, and what an operator spans
\* when its right side ends in front of p.
Unread(p) == toks[p] \in Idents \cup Literals \cup {"!", "~"} \/ OpensLiteral(p)
Fits(f, a, p) ==
  /\ f <= a /\ a + 1 < p
  /\ IF IsBinary(a) THEN /\ f > 1 /\ f < a /\ Bars(f - 1, a, LeftMin(a))
                         /\ \A r \in f .. a - 1 : ~Bars(r, a, LeftMin(a))
     ELSE f = a
  /\ \A r \in a + 1 .. p - 1 : ~Bars(r, a, RightFrom(a))
Stopped(a, p) == Bars(p, a, RightFrom(a)) \/ Unread(p)

\* The operators of precedence m and more of an expression that starts at f:
\* those in front of p are done.
Loop(f, m, p) ==
  /\ Fence(f, m) /\ Span(f, p, m) /\ toks[p] \notin Continues
  /\ toks[p] \in DOMAIN Prec /\ Prec[toks[p]] >= m => Span(f, p, LeftMin(p))

\* Tokens that are not of an expression.
Semicolon == {";"}
Dividers == {",", ":=", "=>", "in", "return", "else"}

\* They are of no other kind.
LEMMA DividersAre ==
  /\ \A k \in Dividers \cup Semicolon \cup Conditions :
       /\ k \notin Brackets /\ k \notin DOMAIN Prec
       /\ k \notin Idents \cup Literals \cup Unary \cup {"(", ")", "[", "]", "."}
  /\ \A k \in Dividers : k \notin Brackets \cup Conditions \cup Ending
  /\ Semicolon \subseteq Fresheners
<1>1. Brackets = {"(", "[", "{"} \cup {")", "]", "}"}
  BY BracketsAre DEF Brackets
<1>2. DOMAIN Prec = {"=", "||", "&&", "|", "^", "&", "==", "<", "..", "<<", "+", "-", "*"}
  BY PrecIs
<1>3. \A k \in Dividers : /\ k \notin Brackets /\ k \notin DOMAIN Prec
                          /\ k \notin Idents \cup Literals \cup Unary \cup {"(", ")", "[", "]", "."}
  BY <1>1, <1>2, Zenon DEF Dividers, Idents, Literals, Unary
<1>4. \A k \in Semicolon : /\ k \notin Brackets /\ k \notin DOMAIN Prec
                           /\ k \notin Idents \cup Literals \cup Unary \cup {"(", ")", "[", "]", "."}
  BY <1>1, <1>2, Zenon DEF Semicolon, Idents, Literals, Unary
<1>5. \A k \in Conditions : /\ k \notin Brackets /\ k \notin DOMAIN Prec
                            /\ k \notin Idents \cup Literals \cup Unary \cup {"(", ")", "[", "]", "."}
  BY <1>1, <1>2, Zenon DEF Conditions, Idents, Literals, Unary
<1>6. \A k \in Dividers : k \notin Conditions /\ k \notin Ending
  BY Zenon DEF Dividers, Conditions, Ending
<1>7. Semicolon \subseteq Fresheners
  BY Zenon DEF Semicolon, Fresheners
<1> QED BY <1>3, <1>4, <1>5, <1>6, <1>7, Zenon

\* An expression may start behind them.
LEMMA FenceAfter ==
  \A p \in At : toks[p] \in Dividers \cup Semicolon \cup Conditions => \A m : Fence(p + 1, m)
<1> SUFFICES ASSUME NEW p \in At, toks[p] \in Dividers \cup Semicolon \cup Conditions, NEW m
             PROVE  Fence(p + 1, m)
  BY Zenon
<1>1. toks[p] \notin Brackets
  BY DividersAre, Zenon
<1>2. toks[p] \notin Brace /\ toks[p] \notin Unbrace
  BY <1>1, BraceIs DEF Brackets
<1>3. ~OpensLiteral(p) /\ ~ClosesLiteral(p)
  BY <1>2, LiteralIs, Zenon
<1>4. ~InExpression(p) /\ ~EndsOperand(p)
  BY <1>3, DividersAre, Zenon DEF InExpression, EndsOperand
<1> QED BY <1>1, <1>4, FenceOut

\* After a token that divides, after one that ends a statement, and in a condition.
LEMMA AfterDivider ==
  \A p \in At : toks[p] \in Dividers =>
    /\ Calm(p, p + 1) /\ (Conditional(p + 1) <=> Conditional(p)) /\ \A m : Fence(p + 1, m)
    /\ ~Conditional(p) => Fresh(p + 1)
<1> SUFFICES ASSUME NEW p \in At, toks[p] \in Dividers
             PROVE  /\ Calm(p, p + 1) /\ (Conditional(p + 1) <=> Conditional(p)) /\ \A m : Fence(p + 1, m)
                    /\ ~Conditional(p) => Fresh(p + 1)
  BY Zenon
<1>1. toks[p] \notin Brackets \cup Conditions \cup Ending
  BY DividersAre, Zenon
<1>2. Calm(p, p + 1) /\ (Conditional(p + 1) <=> Conditional(p))
  BY <1>1, CalmOne, TokenOn
<1>3. \A m : Fence(p + 1, m)
  BY FenceAfter, Zenon
<1> QED BY <1>2, <1>3, Zenon DEF Fresh

\* A semicolon.
LEMMA AfterSemicolon == \A p \in At : toks[p] \in Semicolon => Flush(p, p + 1) /\ Fresh(p + 1)
<1> SUFFICES ASSUME NEW p \in At, toks[p] \in Semicolon PROVE Flush(p, p + 1) /\ Fresh(p + 1)
  BY Zenon
<1>1. toks[p] \notin Brackets /\ toks[p] \in Fresheners
  BY DividersAre, Zenon
<1>2. Fence(p + 1, ASSIGN)
  BY FenceAfter, Zenon
<1> QED BY <1>1, <1>2, FlushOne, ConditionOver, Zenon DEF Fresh

\* A token that begins a condition.
LEMMA AfterCondition ==
  \A p \in At : toks[p] \in Conditions => Flush(p, p + 1) /\ Conditional(p + 1) /\ \A m : Fence(p + 1, m)
<1> SUFFICES ASSUME NEW p \in At, toks[p] \in Conditions
             PROVE  Flush(p, p + 1) /\ Conditional(p + 1) /\ \A m : Fence(p + 1, m)
  BY Zenon
<1>1. toks[p] \notin Brackets
  BY DividersAre, Zenon
<1>2. \A m : Fence(p + 1, m)
  BY FenceAfter, Zenon
<1> QED BY <1>1, <1>2, FlushOne, ConditionBegins, Zenon

\* After an operator.
LEMMA AfterUnary ==
  \A p \in At : toks[p] \in Unary => Fence(p + 1, UNARY) /\ (Conditional(p + 1) <=> Conditional(p))
<1> SUFFICES ASSUME NEW p \in At, toks[p] \in Unary
             PROVE  Fence(p + 1, UNARY) /\ (Conditional(p + 1) <=> Conditional(p))
  BY Zenon
<1>1. toks[p] \notin Brackets \cup Conditions \cup Ending
      /\ toks[p] \notin Idents \cup Literals \cup {")", "]", "}"}
  BY KindsIn, Zenon
<1>2. toks[p] \notin Unbrace
  BY <1>1, BraceIs, Zenon DEF Brackets
<1>3. ~EndsOperand(p)
  BY <1>1, <1>2, LiteralIs, Zenon DEF EndsOperand
<1>4. Conditional(p + 1) <=> Conditional(p)
  BY <1>1, TokenOn
<1>5. (p + 1) - 1 = p /\ p + 1 > 1
  BY Nearby
<1> QED BY <1>3, <1>4, <1>5, Zenon DEF Fence

\* One between operands.
LEMMA AfterBinary ==
  \A p \in At : toks[p] \in DOMAIN Prec /\ EndsOperand(p - 1) =>
    Fence(p + 1, RightMin(toks[p])) /\ (Conditional(p + 1) <=> Conditional(p)) /\ Calm(p, p + 1)
<1> SUFFICES ASSUME NEW p \in At, toks[p] \in DOMAIN Prec, EndsOperand(p - 1)
             PROVE  Fence(p + 1, RightMin(toks[p])) /\ (Conditional(p + 1) <=> Conditional(p)) /\ Calm(p, p + 1)
  BY Zenon
<1>1. toks[p] \notin Brackets \cup Conditions \cup Ending
      /\ toks[p] \notin Idents \cup Literals \cup {")", "]", "}"}
  BY KindsIn, Zenon
<1>2. toks[p] \notin Unbrace
  BY <1>1, BraceIs, Zenon DEF Brackets
<1>3. ~EndsOperand(p)
  BY <1>1, <1>2, LiteralIs, Zenon DEF EndsOperand
<1>4. Outer(p) = Depth(p + 1) /\ (Conditional(p + 1) <=> Conditional(p)) /\ Calm(p, p + 1)
  BY <1>1, TokenOn, CalmOne
<1>5. (p + 1) - 1 = p /\ p + 1 > 1
  BY Nearby
<1>6. IsBinary(p)
  BY DEF IsBinary
<1>7. PICK b \in Int, r \in Int : b = Prec[toks[p]] /\ r = RightMin(toks[p])
                                  /\ b < (IF r = ASSIGN THEN ASSIGN + 1 ELSE r)
  <2>1. PICK b \in Int, r \in Int : b = Prec[toks[p]] /\ r = RightMin(toks[p])
    BY Mins
  <2>2. (b = 1 /\ r = 1) \/ (r = b + 1 /\ b > 1)
    BY <2>1, Mins
  <2>3. ASSIGN = 1
    BY Mins
  <2>4. b < (IF r = 1 THEN 1 + 1 ELSE r)
    BY ONLY <2>1, <2>2
  <2> QED BY <2>1, <2>3, <2>4
<1>8. Bar(p, Depth(p + 1), IF RightMin(toks[p]) = ASSIGN THEN ASSIGN + 1 ELSE RightMin(toks[p]))
  BY <1>4, <1>6, <1>7, Zenon DEF Bar
<1> QED BY <1>3, <1>4, <1>5, <1>8, Zenon DEF Fence

\* What an operator is as wide as.
LEMMA OperatorAt ==
  ASSUME NEW a \in At, toks[a] \in DOMAIN Prec \cup Unary
  PROVE  /\ Level(a) = Depth(a) /\ Depth(a + 1) = Depth(a) /\ Depth(a) \in Int
         /\ \A r, m : Bars(r, a, m) <=> Bar(r, Depth(a), m)
<1>1. toks[a] \notin Brackets \cup Conditions \cup Ending
  BY KindsIn, Zenon
<1>2. Level(a) = Depth(a) /\ Depth(a + 1) = Depth(a) /\ Depth(a) \in Int
  BY <1>1, DepthAt
<1> QED BY <1>2, Zenon DEF Bars, Bar

\* Where an expression ends its operators end too, or something follows that
\* no call will read.
LEMMA StopsAt ==
  ASSUME NEW p \in At, NEW m, EndsOperand(p - 1), Exit(m, p)
  PROVE  Bar(p, Depth(p), m) \/ Unread(p)
<1>1. CASE toks[p] \in DOMAIN Prec
  <2>1. Outer(p) = Depth(p)
    BY <1>1, KindsIn, TokenOn
  <2>2. IsBinary(p) /\ Prec[toks[p]] < m
    BY <1>1 DEF IsBinary, Exit
  <2> QED BY <2>1, <2>2, Zenon DEF Bar
<1>2. CASE toks[p] \in Closers
  <2>1. PICK d \in Int : d = Depth(p) /\ Outer(p) = d - 1
    BY <1>2, DepthAt
  <2>2. Outer(p) < Depth(p)
    BY <2>1
  <2> QED BY <2>2, Zenon DEF Bar
<1>3. CASE toks[p] \in Brace
  <2>1. Outer(p) = Depth(p)
    BY <1>3, BraceIs, DepthAt
  <2>2. ASSUME ~OpensLiteral(p) PROVE ~InExpression(p)
    <3>1. toks[p] \notin {"(", ")", "[", "]", "."}
      BY <1>3, Zenon DEF Brace
    <3>2. ~ClosesLiteral(p)
      BY <1>3, BraceIs, LiteralIs, Zenon
    <3> QED BY <1>3, <2>2, <3>1, <3>2, BraceIs, Zenon DEF InExpression
  <2> QED BY <2>1, <2>2, Zenon DEF Bar, Unread
<1>4. CASE toks[p] \notin DOMAIN Prec /\ toks[p] \notin Closers /\ toks[p] \notin Brace /\ ~Unread(p)
  <2>1. toks[p] \notin Idents \cup Literals /\ toks[p] \notin {"(", "[", "."} /\ toks[p] \notin Unary
    <3>1. Unary \subseteq DOMAIN Prec \cup {"!", "~"}
      BY PrecIs, Zenon DEF Unary
    <3> QED BY <1>4, <3>1, Zenon DEF Unread, Exit, Continues
  <2>2. toks[p] \notin Brackets
    <3>1. Openers = {"(", "[", "{"}
      BY BracketsAre, Zenon
    <3> QED BY <1>4, <2>1, <3>1, Zenon DEF Brackets, Brace
  <2>3. toks[p] \notin {")", "]"} /\ toks[p] \notin Unbrace
    <3>1. Closers = {")", "]", "}"}
      BY BracketsAre, Zenon
    <3> QED BY <1>4, <3>1, Zenon DEF Unbrace
  <2>4. ~InExpression(p)
    BY <1>4, <2>1, <2>3, LiteralIs, Zenon DEF InExpression
  <2>5. Outer(p) = Depth(p)
    BY <2>2, DepthAt
  <2> QED BY <2>4, <2>5, Zenon DEF Bar
<1> QED BY <1>1, <1>2, <1>3, <1>4, Zenon

\* The operator in front of its operand.
LEMMA UnaryFits ==
  ASSUME NEW p \in At, NEW q \in At, toks[p] \in Unary, ~EndsOperand(p - 1),
         Span(p + 1, q, UNARY), Exit(UNARY, q)
  PROVE  Fits(p, p, q) /\ Stopped(p, q)
<1>1. /\ Depth(p + 1) = Depth(p)
      /\ \A r, m : Bars(r, p, m) <=> Bar(r, Depth(p), m)
  BY OperatorAt
<1>2. ~IsBinary(p) /\ RightFrom(p) = UNARY
  BY Zenon DEF IsBinary, RightFrom
<1>3. /\ p + 1 < q /\ Depth(q) = Depth(p) /\ EndsOperand(q - 1)
      /\ \A r \in p + 1 .. q - 1 : ~Bar(r, Depth(p), UNARY)
  BY <1>1, Zenon DEF Span
<1>4. Bar(q, Depth(p), UNARY) \/ Unread(q)
  BY <1>3, StopsAt
<1>5. p <= p
  BY Nearby
<1> QED BY <1>1, <1>2, <1>3, <1>4, <1>5, Zenon DEF Fits, Stopped

\* The operator between its operands.
LEMMA BinaryFits ==
  ASSUME NEW f \in At, NEW a \in At, NEW q \in At, NEW m \in Levels,
         Fence(f, m), Span(f, a, LeftMin(a)), toks[a] \in DOMAIN Prec, Prec[toks[a]] >= m,
         Span(a + 1, q, RightMin(toks[a])), Exit(RightMin(toks[a]), q)
  PROVE  Fits(f, a, q) /\ Stopped(a, q)
<1>1. /\ Depth(a + 1) = Depth(a) /\ Depth(a) \in Int
      /\ \A r, n : Bars(r, a, n) <=> Bar(r, Depth(a), n)
  BY OperatorAt
<1>2. /\ f < a /\ Depth(f) = Depth(a) /\ EndsOperand(a - 1)
      /\ \A r \in f .. a - 1 : ~Bar(r, Depth(a), LeftMin(a))
  BY Zenon DEF Span
<1>3. IsBinary(a) /\ RightFrom(a) = RightMin(toks[a])
  BY <1>2, Zenon DEF IsBinary, RightFrom, RightMin
<1>4. /\ a + 1 < q /\ Depth(q) = Depth(a) /\ EndsOperand(q - 1)
      /\ \A r \in a + 1 .. q - 1 : ~Bar(r, Depth(a), RightMin(toks[a]))
  BY <1>1, Zenon DEF Span
<1>5. Bar(q, Depth(a), RightMin(toks[a])) \/ Unread(q)
  BY <1>4, StopsAt
<1>6. f <= a
  BY <1>2 DEF At
<1>7. f > 1 /\ Bar(f - 1, Depth(a), LeftMin(a))
  <2>1. PICK b \in Int, l \in Int : b = Prec[toks[a]] /\ l = LeftMin(a)
    BY Mins
  <2>2. PICK n \in Int : n = IF m = ASSIGN THEN ASSIGN + 1 ELSE m
    BY DEF Levels, ASSIGN, Prec
  <2>3. n <= l /\ m # UNARY
    <3>1. /\ b \in 1 .. 12 /\ b <= l /\ ASSIGN = 1 /\ UNARY = 13 /\ b >= m
          /\ l = 2 \/ (l = b /\ b > 1)
      BY <2>1, Mins
    <3>2. m \in 1 .. 13 /\ n = IF m = 1 THEN 1 + 1 ELSE m
      BY <2>2, <3>1 DEF Levels
    <3>3. l \in Int
      BY <2>1
    <3>4. n <= l /\ m # 13
      BY ONLY <3>1, <3>2, <3>3
    <3> QED BY <3>1, <3>4
  <2>4. f > 1 /\ Bar(f - 1, Depth(a), n)
    BY <1>2, <2>2, <2>3, Zenon DEF Fence
  <2>5. f - 1 \in At
    BY <2>4 DEF At
  <2> QED BY <1>1, <2>1, <2>3, <2>4, <2>5, BarLess
<1> QED BY <1>1, <1>2, <1>3, <1>4, <1>5, <1>6, <1>7, Zenon DEF Fits, Stopped

\* The loop starts, takes an operator, and ends.
LEMMA LoopStarts ==
  ASSUME NEW f \in At, NEW m \in Levels, NEW p \in At, Fence(f, m), Span(f, p, UNARY), toks[p] \notin Continues
  PROVE  Loop(f, m, p)
<1>1. UNARY = 13 /\ UNARY \in Int
  BY DEF UNARY
<1>2. m \in Int /\ m <= UNARY
  BY <1>1 DEF Levels
<1>3. Span(f, p, m)
  BY <1>1, <1>2, SpanLess
<1>4. ASSUME toks[p] \in DOMAIN Prec PROVE Span(f, p, LeftMin(p))
  <2>1. PICK l \in 1 .. 12 : l = LeftMin(p)
    BY <1>4, Mins
  <2>2. l \in Int /\ l <= UNARY
    BY <1>1
  <2> QED BY <1>1, <2>1, <2>2, SpanLess
<1> QED BY <1>3, <1>4, Zenon DEF Loop

\* It takes an operator.
LEMMA LoopOn ==
  ASSUME NEW f \in At, NEW m \in Levels, NEW a \in At, NEW q \in At, Loop(f, m, a),
         toks[a] \in DOMAIN Prec, Prec[toks[a]] >= m,
         Span(a + 1, q, RightMin(toks[a])), Exit(RightMin(toks[a]), q)
  PROVE  Loop(f, m, q) /\ Fits(f, a, q) /\ Stopped(a, q)
<1>1. Fence(f, m) /\ Span(f, a, LeftMin(a))
  BY Zenon DEF Loop
<1>2. m \in Int
  BY DEF Levels
<1>3. PICK b \in Int, r \in Int : b = Prec[toks[a]] /\ r = RightMin(toks[a])
                                  /\ ((b = 1 /\ r = 1) \/ (r = b + 1 /\ b > 1))
  BY Mins
<1>4. Span(f, q, m)
  BY <1>1, <1>2, <1>3, SpanBinary
<1>5. ASSUME toks[q] \in DOMAIN Prec PROVE Span(f, q, LeftMin(q))
  <2>1. PICK c \in Int, l \in Int : c = Prec[toks[q]] /\ l = LeftMin(q) /\ c \in 1 .. 12
                                    /\ ((c = 1 /\ l = 2) \/ l = c)
    BY <1>5, Mins
  <2>2. c < r
    BY <1>3, <1>5, <2>1 DEF Exit
  <2>3. l <= b
    BY <1>3, <2>1, <2>2
  <2> QED BY <1>1, <1>3, <2>1, <2>3, SpanBinary
<1>6. toks[q] \notin Continues
  BY DEF Exit
<1> QED BY <1>1, <1>4, <1>5, <1>6, BinaryFits, Zenon DEF Loop

\* It ends.
LEMMA LoopEnds ==
  ASSUME NEW f \in At, NEW m \in Levels, NEW p \in At, Loop(f, m, p),
         ~(toks[p] \in DOMAIN Prec /\ Prec[toks[p]] >= m)
  PROVE  Span(f, p, m) /\ Exit(m, p)
<1>1. ASSUME toks[p] \in DOMAIN Prec PROVE Prec[toks[p]] < m
  <2>1. PICK b \in Int : b = Prec[toks[p]]
    BY <1>1, Mins
  <2>2. ~(b >= m)
    BY <1>1, <2>1
  <2>3. m \in Int
    BY DEF Levels
  <2> QED BY <2>1, <2>2, <2>3
<1> QED BY <1>1, Zenon DEF Loop, Exit

-----------------------------------------------------------------------------
(* What each call needs and does, and what a list of calls leads to.          *)

\* Where a call may be made: with c conditions in force in front of token p,
\* and k = 1 right after an operand.
Stops == {")", "]", "}", ";", "=>"}
Stmts == {"parse_stmt", "stmts", "else", "arms", "arm_body"}
Free == {"parse_module", "imports", "decls", "parse_attr_list", "parse_decl", "attr_arg",
         "fn", "params", "param", "more_params", "ret", "struct", "members", "invariants", "type"}
Starts(t, p, c, k) ==
  /\ t[1] = "expect" /\ k = 1 => t[2] \in Stops \/ (t[2] \in Brace /\ ~OpensLiteral(p))
  /\ t[1] \in Free \cup {"match", "suppress", "parse_type"} => k = 0
  /\ t[1] \in Stmts => k = 0 /\ Fresh(p)
  /\ t[1] = "parse_block" => (k = 1 => ~OpensLiteral(p))
  /\ t[1] = "init" => k = 0 /\ ~Conditional(p) /\ p > 1 /\ toks[p - 1] \in Idents
  /\ t[1] = "fields" => k = 0 /\ ~Conditional(p)
  /\ t[1] \in {"more_fields", "more_args"} => ~Conditional(p)
  /\ t[1] = "parse_primary" => k = 0 /\ Fence(p, UNARY) /\ (c = 0 => ~Conditional(p))
  /\ t[1] = "parse_precedence" => k = 0 /\ Fence(p, t[2]) /\ (c = 0 => ~Conditional(p))
  /\ t[1] = "operators" => Loop(t[2][2], t[2][1], p) /\ (c = 0 => ~Conditional(p))
  /\ t[1] = "node" => Fits(t[2][1], t[2][2], p) /\ Stopped(t[2][2], p)

\* Where it may return: with d in force in front of q, and j as k.
Yields(t, p, c, k, q, d, j) ==
  /\ t[1] = "expect" => q = p + 1 /\ IsA(toks[p], t[2]) /\ d = c /\ j = 0
  /\ t[1] = "match" => q = (IF IsA(toks[p], t[2]) THEN p + 1 ELSE p) /\ d = c /\ j = 0
  /\ t[1] = "suppress" => q = p /\ d = c + 1 /\ j = k
  /\ t[1] = "release" => q = p /\ c = d + 1 /\ j = k
  /\ t[1] = "restore" => q = p /\ d = t[2] /\ j = k
  /\ t[1] \in Free => j = 0
  /\ t[1] = "parse_type" => Calm(p, q) /\ p < q /\ toks[q - 1] \in Idents /\ d = c /\ j = 0
  /\ t[1] \in Stmts => Flush(p, q) /\ Fresh(q) /\ j = 0
  /\ t[1] = "parse_block" => Flush(p, q) /\ (~OpensLiteral(p) => Fresh(q)) /\ j = 0
  /\ t[1] = "init" => Flush(p, q)
  /\ t[1] \in {"fields", "more_fields", "more_args"} => d = c /\ Calm(p, q)
  /\ t[1] = "parse_primary" => d = c /\ Span(p, q, UNARY)
  /\ t[1] = "parse_call_or_postfix" => d = c /\ toks[q] \notin Continues
                                       /\ (q = p \/ (toks[p] \in Continues /\ Span(p, q, UNARY)))
  /\ t[1] = "parse_precedence" => d = c /\ Span(p, q, t[2]) /\ Exit(t[2], q)
  /\ t[1] = "operators" => d = c /\ Span(t[2][2], q, t[2][1]) /\ Exit(t[2][1], q)
  /\ t[1] = "node" => d = c /\ q = p

\* A call may be made, and returns to one of T; calls may be made one after
\* the other, and the last returns to one of T.
Points == At \X Nat \X {0, 1}
Safe(t, p, c, k, T) ==
  /\ Starts(t, p, c, k)
  /\ \A q \in At, d \in Nat, j \in {0, 1} : Yields(t, p, c, k, q, d, j) => <<q, d, j>> \in T
Chain(w, e, T) ==
  /\ e \in [1 .. Len(w) + 1 -> SUBSET Points] /\ e[Len(w) + 1] \subseteq T
  /\ \A i \in 1 .. Len(w) : \A q \in At, d \in Nat, j \in {0, 1} :
       <<q, d, j>> \in e[i] => Safe(w[i], q, d, j, e[i + 1])
Through(w, p, c, k, T) == \E e : Chain(w, e, T) /\ <<p, c, k>> \in e[1]
Onwards(w, T) == {z \in Points : Through(w, z[1], z[2], z[3], T)}

\* Every operator parsed spans what it should, so far as it is known.
Grouped(w, p, c, k, N) ==
  /\ Through(w, p, c, k, Points)
  /\ \A n \in N :
       /\ n.last < p /\ Fits(n.first, n.at, n.last + 1)
       /\ Bars(n.last + 1, n.at, RightFrom(n.at)) \/ (n.last + 1 = p /\ Unread(p))
       /\ n.last + 1 = p => k = 1
Groups == ~had_error => \E k \in {0, 1} : Grouped(todo, pos, no_struct_lit, k, nodes)
-----------------------------------------------------------------------------
\* What the text says does not change.
LEMMA SpansStay ==
  ASSUME toks' = toks
  PROVE  /\ \A t, p, c, k : Starts(t, p, c, k)' <=> Starts(t, p, c, k)
         /\ \A t, p, c, k, q, d, j : Yields(t, p, c, k, q, d, j)' <=> Yields(t, p, c, k, q, d, j)
         /\ \A f, a, p : Fits(f, a, p)' <=> Fits(f, a, p)
         /\ \A r, a : Bars(r, a, RightFrom(a))' <=> Bars(r, a, RightFrom(a))
         /\ \A p : Unread(p)' <=> Unread(p)
<1>1. \A q : Level(q)' = Level(q)
  BY DEF Level
<1>2. \A q : Outer(q)' = Outer(q)
  BY <1>1, Zenon DEF Outer
<1>3. \A q : Depth(q)' = Depth(q)
  BY Zenon DEF Depth, Tokens
<1>4. \A q, r : Pair(q, r)' <=> Pair(q, r)
  BY <1>1, Zenon DEF Pair
<1>5. \A q : InCondition(q)' <=> InCondition(q)
  BY <1>1, <1>2, Zenon DEF InCondition
<1>6. \A q : OpensLiteral(q)' <=> OpensLiteral(q)
  BY <1>5, Zenon DEF OpensLiteral
<1>7. \A q : ClosesLiteral(q)' <=> ClosesLiteral(q)
  BY <1>4, <1>6, Zenon DEF ClosesLiteral
<1>8. \A q : EndsOperand(q)' <=> EndsOperand(q)
  BY <1>7, Zenon DEF EndsOperand
<1>9. \A q : IsBinary(q)' <=> IsBinary(q)
  BY <1>8, Zenon DEF IsBinary
<1>10. \A q : InExpression(q)' <=> InExpression(q)
  BY <1>6, <1>7, Zenon DEF InExpression
<1>11. \A r, n, m : Bar(r, n, m)' <=> Bar(r, n, m)
  BY <1>2, <1>9, <1>10, Zenon DEF Bar
<1>12. \A r, q, m : Bars(r, q, m)' <=> Bars(r, q, m)
  BY <1>1, <1>2, <1>9, <1>10, Zenon DEF Bars
<1>13. \A q : LeftMin(q)' = LeftMin(q) /\ RightFrom(q)' = RightFrom(q)
  BY <1>9, Zenon DEF LeftMin, RightFrom
<1>14. \A q : Conditional(q)' <=> Conditional(q)
  BY <1>1, <1>2, <1>3, Zenon DEF Conditional
<1>15. \A p, q : Flush(p, q)' <=> Flush(p, q)
  BY <1>2, <1>3, Zenon DEF Flush
<1>16. \A p, q : Calm(p, q)' <=> Calm(p, q)
  BY <1>14, <1>15, Zenon DEF Calm
<1>17. \A f, p, m : Span(f, p, m)' <=> Span(f, p, m)
  BY <1>3, <1>8, <1>11, <1>14, Zenon DEF Span
<1>18. \A p, m : Fence(p, m)' <=> Fence(p, m)
  BY <1>3, <1>8, <1>11, Zenon DEF Fence
<1>19. \A p : Fresh(p)' <=> Fresh(p)
  BY <1>14, <1>18, Zenon DEF Fresh
<1>20. \A m, p : Exit(m, p)' <=> Exit(m, p)
  BY Zenon DEF Exit
<1>21. \A p : Unread(p)' <=> Unread(p)
  BY <1>6, Zenon DEF Unread
<1>22. \A f, a, p : Fits(f, a, p)' <=> Fits(f, a, p)
  BY <1>9, <1>12, <1>13, ZenonT(60) DEF Fits
<1>23. \A r, a : Bars(r, a, RightFrom(a))' <=> Bars(r, a, RightFrom(a))
  BY <1>12, <1>13, Zenon
<1>24. \A a, p : Stopped(a, p)' <=> Stopped(a, p)
  BY <1>21, <1>23, Zenon DEF Stopped
<1>25. \A f, m, p : Loop(f, m, p)' <=> Loop(f, m, p)
  BY <1>13, <1>17, <1>18, Zenon DEF Loop
<1>26. \A t, p, c, k : Starts(t, p, c, k)' <=> Starts(t, p, c, k)
  BY <1>6, <1>14, <1>18, <1>19, <1>22, <1>24, <1>25 DEF Starts
<1>27. \A t, p, c, k, q, d, j : Yields(t, p, c, k, q, d, j)' <=> Yields(t, p, c, k, q, d, j)
  BY <1>6, <1>15, <1>16, <1>17, <1>19, <1>20 DEF Yields
<1> QED BY <1>21, <1>22, <1>23, <1>26, <1>27, Zenon

\* So it is still grouped.
LEMMA GroupedStays ==
  ASSUME toks' = toks
  PROVE  \A w, p, c, k, N : Grouped(w, p, c, k, N)' <=> Grouped(w, p, c, k, N)
<1>1. \A t, p, c, k, T : Safe(t, p, c, k, T)' <=> Safe(t, p, c, k, T)
  BY SpansStay DEF Safe
<1>2. \A w, e, T : Chain(w, e, T)' <=> Chain(w, e, T)
  BY <1>1, ZenonT(60) DEF Chain
<1>3. \A w, p, c, k, T : Through(w, p, c, k, T)' <=> Through(w, p, c, k, T)
  BY <1>2, Zenon DEF Through
<1> QED BY <1>3, SpansStay DEF Grouped

\* What is grouped after a step.
LEMMA GroupsNow ==
  ASSUME toks' = toks, NEW w, NEW p, NEW c, NEW k \in {0, 1}, NEW N,
         todo' = w, pos' = p, no_struct_lit' = c, nodes' = N, Grouped(w, p, c, k, N)
  PROVE  Groups'
BY GroupedStays, Zenon DEF Groups

\* A call that is safe is safe with more to return to.
LEMMA SafeMore ==
  \A t, p, c, k, T, U : Safe(t, p, c, k, T) /\ T \subseteq U => Safe(t, p, c, k, U)
BY DEF Safe

\* The places calls can be made in.
LEMMA PointIs == \A q, d, j : <<q, d, j>> \in Points <=> q \in At /\ d \in Nat /\ j \in {0, 1}
BY DEF Points

\* Where a list of calls may be started.
LEMMA OnwardsIs ==
  \A w, T : /\ Onwards(w, T) \subseteq Points
            /\ \A q, d, j : <<q, d, j>> \in Onwards(w, T) <=>
                              q \in At /\ d \in Nat /\ j \in {0, 1} /\ Through(w, q, d, j, T)
<1> TAKE w, T
<1>1. \A q, d, j : <<q, d, j>>[1] = q /\ <<q, d, j>>[2] = d /\ <<q, d, j>>[3] = j
  OBVIOUS
<1>2. Onwards(w, T) \subseteq Points
  BY Zenon DEF Onwards
<1>3. ASSUME NEW q, NEW d, NEW j
      PROVE  <<q, d, j>> \in Onwards(w, T) <=> <<q, d, j>> \in Points /\ Through(w, q, d, j, T)
  BY <1>1, Zenon DEF Onwards
<1> QED BY <1>2, <1>3, PointIs

\* Nothing to do, and a first call.
LEMMA ThroughNone ==
  \A p \in At, c \in Nat, k \in {0, 1} : \A T \in SUBSET Points : <<p, c, k>> \in T => Through(<<>>, p, c, k, T)
<1> SUFFICES ASSUME NEW p \in At, NEW c \in Nat, NEW k \in {0, 1}, NEW T \in SUBSET Points, <<p, c, k>> \in T
             PROVE  Through(<<>>, p, c, k, T)
  BY Zenon
<1>1. PICK w : w = <<>> /\ Len(w) = 0
  OBVIOUS
<1>2. PICK e : e = [i \in 1 .. Len(w) + 1 |-> T]
  OBVIOUS
<1>3. e \in [1 .. Len(w) + 1 -> SUBSET Points] /\ e[Len(w) + 1] = T /\ e[1] = T /\ \A i \in 1 .. Len(w) : FALSE
  BY <1>1, <1>2
<1>4. Chain(w, e, T)
  BY <1>3, Zenon DEF Chain
<1> QED BY <1>1, <1>3, <1>4 DEF Through

\* A first call.
LEMMA ThroughHead ==
  ASSUME NEW S, NEW w \in Seq(S), w # <<>>, NEW p \in At, NEW c \in Nat, NEW k \in {0, 1}, NEW T,
         Through(w, p, c, k, T)
  PROVE  Safe(w[1], p, c, k, Onwards(Tail(w), T))
<1>1. PICK e : Chain(w, e, T) /\ <<p, c, k>> \in e[1]
  BY DEF Through
<1>2. PICK n \in Nat : n = Len(w) /\ n # 0
  BY EmptySeq, LenProperties
<1>3. Tail(w) \in Seq(S) /\ Len(Tail(w)) = n - 1 /\ \A i \in 1 .. n - 1 : Tail(w)[i] = w[i + 1]
  BY <1>2, HeadTailProperties
<1>4. /\ e \in [1 .. n + 1 -> SUBSET Points] /\ e[n + 1] \subseteq T
      /\ \A i \in 1 .. n : \A q \in At, d \in Nat, j \in {0, 1} :
           <<q, d, j>> \in e[i] => Safe(w[i], q, d, j, e[i + 1])
  BY <1>1, <1>2, Zenon DEF Chain
<1> DEFINE f == [i \in 1 .. (n - 1) + 1 |-> e[i + 1]]
<1>5. /\ f \in [1 .. (n - 1) + 1 -> SUBSET Points] /\ f[(n - 1) + 1] = e[n + 1] /\ f[1] = e[2]
      /\ \A i \in 1 .. n - 1 : f[i] = e[i + 1] /\ f[i + 1] = e[(i + 1) + 1] /\ i + 1 \in 1 .. n
  <2>1. \A i \in 1 .. (n - 1) + 1 : i + 1 \in 1 .. n + 1 /\ e[i + 1] \in SUBSET Points
    BY <1>2, <1>4
  <2>2. 1 + 1 = 2 /\ 1 \in 1 .. (n - 1) + 1 /\ (n - 1) + 1 \in 1 .. (n - 1) + 1 /\ ((n - 1) + 1) + 1 = n + 1
        /\ \A i \in 1 .. n - 1 : i \in 1 .. (n - 1) + 1 /\ i + 1 \in 1 .. (n - 1) + 1 /\ i + 1 \in 1 .. n
    BY <1>2
  <2> QED BY <2>1, <2>2
<1> HIDE DEF f
<1>6. Chain(Tail(w), f, T)
  <2>1. ASSUME NEW i \in 1 .. n - 1, NEW q \in At, NEW d \in Nat, NEW j \in {0, 1}, <<q, d, j>> \in f[i]
        PROVE  Safe(Tail(w)[i], q, d, j, f[i + 1])
    BY <1>3, <1>4, <1>5, <2>1, Zenon
  <2> QED BY <1>3, <1>4, <1>5, <2>1, Zenon DEF Chain
<1>7. ASSUME NEW q \in At, NEW d \in Nat, NEW j \in {0, 1}, <<q, d, j>> \in e[2]
      PROVE  <<q, d, j>> \in Onwards(Tail(w), T)
  <2>1. Through(Tail(w), q, d, j, T)
    BY <1>5, <1>6, <1>7, Zenon DEF Through
  <2> QED BY <2>1, OnwardsIs
<1>8. Safe(w[1], p, c, k, e[2])
  <2>1. 1 \in 1 .. n /\ 1 + 1 = 2
    BY <1>2
  <2> QED BY <1>1, <1>4, <2>1
<1> QED BY <1>7, <1>8, Zenon DEF Safe

\* One list of calls after the other.
LEMMA ThroughConcat ==
  ASSUME NEW S, NEW u \in Seq(S), NEW w \in Seq(S), NEW p \in At, NEW c \in Nat, NEW k \in {0, 1}, NEW T,
         Through(u, p, c, k, Onwards(w, T))
  PROVE  Through(u \o w, p, c, k, T)
<1>1. PICK n \in Nat, m \in Nat : n = Len(u) /\ m = Len(w)
  BY LenProperties
<1>2. /\ Len(u \o w) = n + m
      /\ \A i \in 1 .. n : (u \o w)[i] = u[i]
      /\ \A i \in 1 .. m : (u \o w)[n + i] = w[i]
  BY <1>1, ConcatProperties
<1>3. PICK e : Chain(u, e, Onwards(w, T)) /\ <<p, c, k>> \in e[1]
  BY DEF Through
<1>4. /\ e \in [1 .. n + 1 -> SUBSET Points] /\ e[n + 1] \subseteq Onwards(w, T)
      /\ \A i \in 1 .. n : \A q \in At, d \in Nat, j \in {0, 1} :
           <<q, d, j>> \in e[i] => Safe(u[i], q, d, j, e[i + 1])
  BY <1>1, <1>3, Zenon DEF Chain
<1> DEFINE f == [i \in 1 .. m + 1 |-> {z \in Points : \E g : Chain(w, g, T) /\ z \in g[i]}]
<1>5. f \in [1 .. m + 1 -> SUBSET Points]
  OBVIOUS
<1>6. \A i \in 1 .. m + 1 : \A z : z \in f[i] <=> z \in Points /\ \E g : Chain(w, g, T) /\ z \in g[i]
  BY Zenon
<1> HIDE DEF f
<1>7. f[m + 1] \subseteq T
  <2>1. m + 1 \in 1 .. m + 1
    BY <1>1
  <2>2. \A g : Chain(w, g, T) => g[m + 1] \subseteq T
    BY <1>1, Zenon DEF Chain
  <2> QED BY <1>6, <2>1, <2>2, Zenon
<1>8. ASSUME NEW i \in 1 .. m, NEW q \in At, NEW d \in Nat, NEW j \in {0, 1}, <<q, d, j>> \in f[i]
      PROVE  Safe(w[i], q, d, j, f[i + 1])
  <2>1. i \in 1 .. m + 1 /\ i + 1 \in 1 .. m + 1
    BY <1>1
  <2>2. PICK g : Chain(w, g, T) /\ <<q, d, j>> \in g[i]
    BY <1>6, <1>8, <2>1, Zenon
  <2>3. g \in [1 .. m + 1 -> SUBSET Points] /\ Safe(w[i], q, d, j, g[i + 1])
    BY <1>1, <2>2, Zenon DEF Chain
  <2>4. g[i + 1] \subseteq f[i + 1]
    <3>1. g[i + 1] \subseteq Points
      BY <2>1, <2>3
    <3> QED BY <1>6, <2>1, <2>2, <3>1, Zenon
  <2> QED BY <2>3, <2>4, SafeMore, Zenon
<1>9. Onwards(w, T) \subseteq f[1]
  <2>1. 1 \in 1 .. m + 1
    BY <1>1
  <2>2. ASSUME NEW z \in Onwards(w, T) PROVE z \in f[1]
    <3>1. z \in Points /\ Through(w, z[1], z[2], z[3], T)
      BY Zenon DEF Onwards
    <3>2. z = <<z[1], z[2], z[3]>>
      BY <3>1 DEF Points
    <3>3. PICK g : Chain(w, g, T) /\ z \in g[1]
      BY <3>1, <3>2 DEF Through
    <3> QED BY <1>6, <2>1, <3>1, <3>3, Zenon
  <2> QED BY <2>2
<1> DEFINE h == [i \in 1 .. (n + m) + 1 |-> IF i <= n THEN e[i] ELSE f[i - n]]
<1>10. h \in [1 .. (n + m) + 1 -> SUBSET Points]
  <2>1. ASSUME NEW i \in 1 .. (n + m) + 1 PROVE (IF i <= n THEN e[i] ELSE f[i - n]) \in SUBSET Points
    <3>1. i <= n => i \in 1 .. n + 1
      BY <1>1
    <3>2. ~(i <= n) => i - n \in 1 .. m + 1
      BY <1>1
    <3> QED BY <1>4, <1>5, <3>1, <3>2
  <2> QED BY <2>1
<1>11. \A i \in 1 .. n : h[i] = e[i]
  OBVIOUS
<1>12. \A i \in 1 .. m + 1 : h[n + i] = f[i]
  OBVIOUS
<1> HIDE DEF h
<1>13. \A i \in 1 .. n : e[i + 1] \subseteq h[i + 1]
  <2> SUFFICES ASSUME NEW i \in 1 .. n PROVE e[i + 1] \subseteq h[i + 1]
    OBVIOUS
  <2>1. CASE i = n
    <3>1. h[n + 1] = f[1] /\ e[n + 1] \subseteq f[1]
      <4>1. 1 \in 1 .. m + 1
        BY <1>1
      <4> QED BY <1>4, <1>9, <1>12, <4>1, Zenon
    <3> QED BY <2>1, <3>1
  <2>2. CASE i # n
    <3>1. i + 1 \in 1 .. n
      BY <2>2
    <3> QED BY <1>11, <3>1
  <2> QED BY <2>1, <2>2
<1>14. ASSUME NEW i \in 1 .. n + m, NEW q \in At, NEW d \in Nat, NEW j \in {0, 1}, <<q, d, j>> \in h[i]
       PROVE  Safe((u \o w)[i], q, d, j, h[i + 1])
  <2>1. CASE i \in 1 .. n
    <3>1. Safe(u[i], q, d, j, e[i + 1])
      BY <1>4, <1>11, <1>14, <2>1
    <3> QED BY <1>2, <1>13, <2>1, <3>1, SafeMore, Zenon
  <2>2. CASE i \notin 1 .. n
    <3>1. PICK l \in 1 .. m : i = n + l
      <4>1. i - n \in 1 .. m /\ i = n + (i - n)
        BY <1>1, <2>2
      <4> QED BY <4>1
    <3>2. l \in 1 .. m + 1 /\ l + 1 \in 1 .. m + 1 /\ i + 1 = n + (l + 1)
      BY <1>1, <3>1
    <3>3. h[i] = f[l] /\ h[i + 1] = f[l + 1] /\ (u \o w)[i] = w[l]
      BY <1>2, <1>12, <3>1, <3>2
    <3> QED BY <1>8, <1>14, <3>3
  <2> QED BY <2>1, <2>2
<1>15. h[(n + m) + 1] \subseteq T
  <2>1. m + 1 \in 1 .. m + 1 /\ (n + m) + 1 = n + (m + 1)
    BY <1>1
  <2> QED BY <1>7, <1>12, <2>1
<1>16. <<p, c, k>> \in h[1]
  <2>1. CASE n = 0
    <3>1. h[1] = f[1]
      <4>1. 1 \in 1 .. m + 1 /\ n + 1 = 1
        BY <1>1, <2>1
      <4> QED BY <1>12, <4>1
    <3> QED BY <1>3, <1>4, <1>9, <2>1, <3>1
  <2>2. CASE n # 0
    <3>1. 1 \in 1 .. n
      BY <1>1, <2>2
    <3> QED BY <1>3, <1>11, <3>1
  <2> QED BY <2>1, <2>2
<1>17. Chain(u \o w, h, T)
  BY <1>2, <1>10, <1>14, <1>15, Zenon DEF Chain
<1> QED BY <1>16, <1>17, Zenon DEF Through

\* Calls one by one.
LEMMA ThroughOne ==
  ASSUME NEW t, NEW p \in At, NEW c \in Nat, NEW k \in {0, 1}, NEW T \in SUBSET Points, Safe(t, p, c, k, T)
  PROVE  Through(<<t>>, p, c, k, T)
<1>1. PICK w : w = <<t>> /\ Len(w) = 1 /\ w[1] = t
  <2>1. Len(<<t>>) = 1 /\ <<t>>[1] = t
    OBVIOUS
  <2> QED BY <2>1, Zenon
<1>2. PICK e : e = [i \in 1 .. Len(w) + 1 |-> IF i = 1 THEN {<<p, c, k>>} ELSE T]
  OBVIOUS
<1>3. <<p, c, k>> \in Points
  BY PointIs
<1>4. /\ e \in [1 .. Len(w) + 1 -> SUBSET Points] /\ e[Len(w) + 1] = T /\ e[1] = {<<p, c, k>>} /\ e[1 + 1] = T
      /\ \A i \in 1 .. Len(w) : i = 1
  BY <1>1, <1>2, <1>3
<1>5. ASSUME NEW i \in 1 .. Len(w), NEW q \in At, NEW d \in Nat, NEW j \in {0, 1}, <<q, d, j>> \in e[i]
      PROVE  Safe(w[i], q, d, j, e[i + 1])
  <2>1. i = 1 /\ <<q, d, j>> = <<p, c, k>>
    BY <1>4, <1>5
  <2>2. q = p /\ d = c /\ j = k
    BY <2>1
  <2> QED BY <1>1, <1>4, <2>1, <2>2
<1>6. Chain(w, e, T)
  BY <1>4, <1>5, Zenon DEF Chain
<1> QED BY <1>1, <1>4, <1>6 DEF Through

\* A call, and the list behind it.
LEMMA ThroughNext ==
  ASSUME NEW S, NEW t \in S, NEW w \in Seq(S), NEW p \in At, NEW c \in Nat, NEW k \in {0, 1}, NEW T,
         Starts(t, p, c, k),
         \A q \in At, d \in Nat, j \in {0, 1} : Yields(t, p, c, k, q, d, j) => Through(w, q, d, j, T)
  PROVE  Through(<<t>> \o w, p, c, k, T)
<1>1. Safe(t, p, c, k, Onwards(w, T))
  BY OnwardsIs, Zenon DEF Safe
<1>2. Onwards(w, T) \in SUBSET Points
  BY OnwardsIs
<1>3. Through(<<t>>, p, c, k, Onwards(w, T))
  BY <1>1, <1>2, ThroughOne
<1>4. <<t>> \in Seq(S)
  OBVIOUS
<1> QED BY <1>3, <1>4, ThroughConcat

\* A list of tasks and its first one.
Behind(v, t, w) == v = <<t>> \o w /\ \E S : t \in S /\ w \in Seq(S)

\* Short lists.
LEMMA Behinds ==
  /\ \A a : Behind(<<a>>, a, <<>>)
  /\ \A a, b : Behind(<<a, b>>, a, <<b>>)
  /\ \A a, b, c : Behind(<<a, b, c>>, a, <<b, c>>)
  /\ \A a, b, c, d : Behind(<<a, b, c, d>>, a, <<b, c, d>>)
  /\ \A a, b, c, d, e : Behind(<<a, b, c, d, e>>, a, <<b, c, d, e>>)
<1>1. ASSUME NEW a PROVE Behind(<<a>>, a, <<>>)
  <2>1. PICK v : v = <<a>> /\ v \in Seq({a})
    <3>1. <<a>> \in Seq({a})
      OBVIOUS
    <3> QED BY <3>1, Zenon
  <2>2. v \o <<>> = v
    BY <2>1, ConcatEmptySeq
  <2>3. a \in {a} /\ <<>> \in Seq({a})
    OBVIOUS
  <2> QED BY <2>1, <2>2, <2>3, Zenon DEF Behind
<1>2. ASSUME NEW a, NEW b PROVE Behind(<<a, b>>, a, <<b>>)
  <2>1. a \in {a, b} /\ <<b>> \in Seq({a, b})
    OBVIOUS
  <2> QED BY <2>1, InFront, Zenon DEF Behind
<1>3. ASSUME NEW a, NEW b, NEW c PROVE Behind(<<a, b, c>>, a, <<b, c>>)
  <2>1. a \in {a, b, c} /\ <<b, c>> \in Seq({a, b, c})
    OBVIOUS
  <2> QED BY <2>1, InFront, Zenon DEF Behind
<1>4. ASSUME NEW a, NEW b, NEW c, NEW d PROVE Behind(<<a, b, c, d>>, a, <<b, c, d>>)
  <2>1. a \in {a, b, c, d} /\ <<b, c, d>> \in Seq({a, b, c, d})
    OBVIOUS
  <2> QED BY <2>1, InFront, ZenonT(60) DEF Behind
<1>5. ASSUME NEW a, NEW b, NEW c, NEW d, NEW e PROVE Behind(<<a, b, c, d, e>>, a, <<b, c, d, e>>)
  <2>1. a \in {a, b, c, d, e} /\ <<b, c, d, e>> \in Seq({a, b, c, d, e})
    OBVIOUS
  <2>2. <<a>> \o <<b, c, d, e>> = <<a, b, c, d, e>>
    <3>1. \A u, x, y, z, o : <<u>> \o <<x, y, z, o>> = <<u, x, y, z, o>>
      BY InFront, Zenon
    <3> QED BY <3>1, Zenon
  <2> QED BY <2>1, <2>2, Zenon DEF Behind
<1> QED BY <1>1, <1>2, <1>3, <1>4, <1>5, Zenon

\* A call that has been made, and one to make.
LEMMA Made ==
  ASSUME NEW t, NEW p \in At, NEW c \in Nat, NEW k \in {0, 1}, NEW T \in SUBSET Points, Safe(t, p, c, k, T)
  PROVE  /\ Starts(t, p, c, k)
         /\ \A q \in At, d \in Nat, j \in {0, 1} : Yields(t, p, c, k, q, d, j) => Through(<<>>, q, d, j, T)
BY ThroughNone DEF Safe

\* One to make.
LEMMA Make ==
  ASSUME NEW v, NEW t, NEW w, Behind(v, t, w), NEW p \in At, NEW c \in Nat, NEW k \in {0, 1}, NEW T,
         Starts(t, p, c, k),
         \A q \in At, d \in Nat, j \in {0, 1} : Yields(t, p, c, k, q, d, j) => Through(w, q, d, j, T)
  PROVE  Through(v, p, c, k, T)
<1>1. PICK S : v = <<t>> \o w /\ t \in S /\ w \in Seq(S)
  BY DEF Behind
<1>2. Through(<<t>> \o w, p, c, k, T)
  BY <1>1, ThroughNext
<1> QED BY <1>1, <1>2

\* What a kind of token is asked for.
LEMMA IsAIs == \A k : (IsA(k, "ident") <=> k \in Idents) /\ \A s : s # "ident" => (IsA(k, s) <=> k = s)
BY Zenon DEF IsA, Idents

\* A token that is expected.
LEMMA ExpectMade ==
  ASSUME NEW s, NEW p \in At, NEW c \in Nat, NEW k \in {0, 1}, NEW T \in SUBSET Points,
         Safe(Expect(s), p, c, k, T), IsA(toks[p], s)
  PROVE  /\ k = 1 => s \in Stops \/ (s \in Brace /\ ~OpensLiteral(p))
         /\ Through(<<>>, p + 1, c, 0, T)
<1>1. Expect(s)[1] = "expect" /\ Expect(s)[2] = s
  BY DEF Expect
<1>2. Yields(Expect(s), p, c, k, p + 1, c, 0) /\ p + 1 \in At
  BY <1>1, Nearby DEF Yields, Free, Stmts
<1> QED BY <1>1, <1>2, Made DEF Starts

\* One to expect.
LEMMA ExpectMake ==
  ASSUME NEW s, NEW v, NEW w, Behind(v, Expect(s), w),
         NEW p \in At, NEW c \in Nat, NEW k \in {0, 1}, NEW T,
         k = 1 => s \in Stops \/ (s \in Brace /\ ~OpensLiteral(p)),
         IsA(toks[p], s) => Through(w, p + 1, c, 0, T)
  PROVE  Through(v, p, c, k, T)
<1>1. Expect(s)[1] = "expect" /\ Expect(s)[2] = s
  BY DEF Expect
<1>2. Starts(Expect(s), p, c, k)
  BY <1>1 DEF Starts, Free, Stmts
<1>3. \A q, d, j : Yields(Expect(s), p, c, k, q, d, j) => IsA(toks[p], s) /\ q = p + 1 /\ d = c /\ j = 0
  BY <1>1 DEF Yields
<1> QED BY <1>2, <1>3, Make

\* A token that there may be.
LEMMA OptionalMade ==
  ASSUME NEW s, NEW p \in At, NEW c \in Nat, NEW k \in {0, 1}, NEW T \in SUBSET Points,
         Safe(Optional(s), p, c, k, T)
  PROVE  k = 0 /\ Through(<<>>, IF IsA(toks[p], s) THEN p + 1 ELSE p, c, 0, T)
<1>1. Optional(s)[1] = "match" /\ Optional(s)[2] = s
  BY DEF Optional
<1>2. PICK q \in At : q = IF IsA(toks[p], s) THEN p + 1 ELSE p
  BY Nearby
<1>3. Yields(Optional(s), p, c, k, q, c, 0)
  BY <1>1, <1>2 DEF Yields, Free, Stmts
<1> QED BY <1>1, <1>2, <1>3, Made DEF Starts

\* One to look for.
LEMMA OptionalMake ==
  ASSUME NEW s, NEW v, NEW w, Behind(v, Optional(s), w), NEW p \in At, NEW c \in Nat, NEW T,
         IsA(toks[p], s) => Through(w, p + 1, c, 0, T),
         ~IsA(toks[p], s) => Through(w, p, c, 0, T)
  PROVE  Through(v, p, c, 0, T)
<1>1. Optional(s)[1] = "match" /\ Optional(s)[2] = s
  BY DEF Optional
<1>2. Starts(Optional(s), p, c, 0)
  BY <1>1 DEF Starts, Free, Stmts
<1>3. \A q, d, j : Yields(Optional(s), p, c, 0, q, d, j)
                     => q = (IF IsA(toks[p], s) THEN p + 1 ELSE p) /\ d = c /\ j = 0
  BY <1>1 DEF Yields
<1> QED BY <1>2, <1>3, Make

\* A task and its parts.
LEMMA TaskIs == (\A f, x : <<f, x>>[1] = f /\ <<f, x>>[2] = x) /\ \A f : Call(f)[1] = f
BY DEF Call

\* The end of a condition.
LEMMA ReleaseMake ==
  ASSUME NEW v, NEW w, NEW x, NEW p \in At, NEW c \in Nat, NEW k \in {0, 1}, NEW T,
         Behind(v, <<"release", x>>, w), \A d \in Nat : c = d + 1 => Through(w, p, d, k, T)
  PROVE  Through(v, p, c, k, T)
<1>1. PICK t : t = <<"release", x>> /\ t[1] = "release"
  BY TaskIs, Zenon
<1>2. Starts(t, p, c, k)
  BY <1>1 DEF Starts, Free, Stmts
<1>3. \A q, d, j : Yields(t, p, c, k, q, d, j) => q = p /\ c = d + 1 /\ j = k
  BY <1>1 DEF Yields
<1> QED BY <1>1, <1>2, <1>3, Make

\* What begins and ends the part of a text with a condition in force.
LEMMA SuppressMade ==
  ASSUME NEW p \in At, NEW c \in Nat, NEW k \in {0, 1}, NEW T \in SUBSET Points
  PROVE  /\ \A x : Safe(<<"suppress", x>>, p, c, k, T) => Through(<<>>, p, c + 1, k, T)
         /\ \A x : c - 1 \in Nat /\ Safe(<<"release", x>>, p, c, k, T) => Through(<<>>, p, c - 1, k, T)
         /\ \A x \in Nat : Safe(<<"restore", x>>, p, c, k, T) => Through(<<>>, p, x, k, T)
<1>1. ASSUME NEW x PROVE Yields(<<"suppress", x>>, p, c, k, p, c + 1, k)
  <2>1. PICK t : t = <<"suppress", x>> /\ t[1] = "suppress"
    BY TaskIs, Zenon
  <2>2. Yields(t, p, c, k, p, c + 1, k)
    BY <2>1 DEF Yields, Free, Stmts
  <2> QED BY <2>1, <2>2
<1>2. c + 1 \in Nat
  OBVIOUS
<1>3. ASSUME NEW x PROVE c - 1 \in Nat => Yields(<<"release", x>>, p, c, k, p, c - 1, k)
  <2>1. PICK u : u = <<"release", x>> /\ u[1] = "release"
    BY TaskIs, Zenon
  <2>2. c = (c - 1) + 1
    OBVIOUS
  <2>3. Yields(u, p, c, k, p, c - 1, k)
    BY <2>1, <2>2 DEF Yields, Free, Stmts
  <2> QED BY <2>1, <2>3
<1>4. ASSUME NEW x PROVE Yields(<<"restore", x>>, p, c, k, p, x, k)
  <2>1. PICK u : u = <<"restore", x>> /\ u[1] = "restore" /\ u[2] = x
    <3>1. <<"restore", x>>[1] = "restore" /\ <<"restore", x>>[2] = x
      BY TaskIs
    <3> QED BY <3>1, Zenon
  <2>2. Yields(u, p, c, k, p, x, k)
    BY <2>1 DEF Yields, Free, Stmts
  <2> QED BY <2>1, <2>2
<1> QED BY <1>1, <1>2, <1>3, <1>4, Made, ZenonT(60)

\* The same of lists that begin so.
LEMMA SuppressMake ==
  ASSUME NEW v, NEW w, NEW p \in At, NEW c \in Nat, NEW k \in {0, 1}, NEW T
  PROVE  /\ Behind(v, Call("suppress"), w) /\ k = 0 /\ Through(w, p, c + 1, 0, T) => Through(v, p, c, k, T)
         /\ \A x \in Nat : Behind(v, <<"restore", x>>, w) /\ Through(w, p, x, k, T) => Through(v, p, c, k, T)
<1>1. ASSUME Behind(v, Call("suppress"), w), k = 0, Through(w, p, c + 1, 0, T) PROVE Through(v, p, c, k, T)
  <2>1. PICK t : t = Call("suppress") /\ t[1] = "suppress"
    BY TaskIs, Zenon
  <2>2. Starts(t, p, c, k)
    BY <1>1, <2>1 DEF Starts, Free, Stmts
  <2>3. \A q, d, j : Yields(t, p, c, k, q, d, j) => q = p /\ d = c + 1 /\ j = k
    BY <2>1 DEF Yields
  <2> QED BY <1>1, <2>1, <2>2, <2>3, Make
<1>2. ASSUME NEW x \in Nat, Behind(v, <<"restore", x>>, w), Through(w, p, x, k, T) PROVE Through(v, p, c, k, T)
  <2>1. PICK t : t = <<"restore", x>> /\ t[1] = "restore" /\ t[2] = x
    <3>1. <<"restore", x>>[1] = "restore" /\ <<"restore", x>>[2] = x
      BY TaskIs
    <3> QED BY <3>1, Zenon
  <2>2. Starts(t, p, c, k)
    BY <2>1 DEF Starts, Free, Stmts
  <2>3. \A q, d, j : Yields(t, p, c, k, q, d, j) => q = p /\ d = x /\ j = k
    BY <2>1 DEF Yields
  <2> QED BY <1>2, <2>1, <2>2, <2>3, Make
<1> QED BY <1>1, <1>2

\* What a call of the postfix operators behind an operand may take.
Tails(p, q) == toks[q] \notin Continues /\ (q = p \/ (toks[p] \in Continues /\ Span(p, q, UNARY)))

\* Statements, and what they are made of.
LEMMA StmtMade ==
  ASSUME NEW f \in Stmts, NEW p \in At, NEW c \in Nat, NEW k \in {0, 1}, NEW T \in SUBSET Points,
         Safe(Call(f), p, c, k, T)
  PROVE  /\ k = 0
         /\ Fresh(p)
         /\ \A q \in At, d \in Nat : Flush(p, q) /\ Fresh(q) => Through(<<>>, q, d, 0, T)
<1>1. PICK t : t = Call(f) /\ t[1] = f
  <2>1. Call(f)[1] = f
    BY TaskIs
  <2> QED BY <2>1, Zenon
<1>2. ASSUME NEW q \in At, NEW d \in Nat, Flush(p, q) /\ Fresh(q)
      PROVE  Through(<<>>, q, d, 0, T)
  <2>1. Yields(t, p, c, k, q, d, 0) /\ 0 \in {0, 1}
    BY <1>1, <1>2 DEF Yields, Free, Stmts, Tails
  <2> QED BY <1>1, <1>2, <2>1, Made
<1>3. k = 0 /\ Fresh(p)
  BY <1>1, Made DEF Starts
<1> QED BY <1>2, <1>3

\* One to parse.
LEMMA StmtMake ==
  ASSUME NEW f \in Stmts, NEW v, NEW w, Behind(v, Call(f), w), NEW p \in At, NEW c \in Nat, NEW T,
         Fresh(p),
         \A q \in At, d \in Nat : Flush(p, q) /\ Fresh(q) => Through(w, q, d, 0, T)
  PROVE  Through(v, p, c, 0, T)
<1>1. PICK t : t = Call(f) /\ t[1] = f
  <2>1. Call(f)[1] = f
    BY TaskIs
  <2> QED BY <2>1, Zenon
<1>2. \A q, d, j : Yields(t, p, c, 0, q, d, j) => Flush(p, q) /\ Fresh(q) /\ j = 0
  BY <1>1 DEF Yields, Tails
<1>3. Starts(t, p, c, 0)
  BY <1>1 DEF Starts, Free, Stmts
<1> QED BY <1>1, <1>2, <1>3, Make

\* Blocks.
LEMMA BlockMade ==
  ASSUME NEW p \in At, NEW c \in Nat, NEW k \in {0, 1}, NEW T \in SUBSET Points,
         Safe(Call("parse_block"), p, c, k, T)
  PROVE  /\ (k = 1 => ~OpensLiteral(p))
         /\ \A q \in At, d \in Nat : Flush(p, q) /\ (~OpensLiteral(p) => Fresh(q)) => Through(<<>>, q, d, 0, T)
<1>1. PICK t : t = Call("parse_block") /\ t[1] = "parse_block"
  <2>1. Call("parse_block")[1] = "parse_block"
    BY TaskIs
  <2> QED BY <2>1, Zenon
<1>2. ASSUME NEW q \in At, NEW d \in Nat, Flush(p, q) /\ (~OpensLiteral(p) => Fresh(q))
      PROVE  Through(<<>>, q, d, 0, T)
  <2>1. Yields(t, p, c, k, q, d, 0) /\ 0 \in {0, 1}
    BY <1>1, <1>2 DEF Yields, Free, Stmts, Tails
  <2> QED BY <1>1, <1>2, <2>1, Made
<1>3. (k = 1 => ~OpensLiteral(p))
  BY <1>1, Made DEF Starts
<1> QED BY <1>2, <1>3

\* One to parse.
LEMMA BlockMake ==
  ASSUME NEW v, NEW w, Behind(v, Call("parse_block"), w), NEW p \in At, NEW c \in Nat, NEW k \in {0, 1}, NEW T,
         (k = 1 => ~OpensLiteral(p)),
         \A q \in At, d \in Nat : Flush(p, q) /\ (~OpensLiteral(p) => Fresh(q)) => Through(w, q, d, 0, T)
  PROVE  Through(v, p, c, k, T)
<1>1. PICK t : t = Call("parse_block") /\ t[1] = "parse_block"
  <2>1. Call("parse_block")[1] = "parse_block"
    BY TaskIs
  <2> QED BY <2>1, Zenon
<1>2. \A q, d, j : Yields(t, p, c, k, q, d, j) => Flush(p, q) /\ (~OpensLiteral(p) => Fresh(q)) /\ j = 0
  BY <1>1 DEF Yields, Tails
<1>3. Starts(t, p, c, k)
  BY <1>1 DEF Starts, Free, Stmts
<1> QED BY <1>1, <1>2, <1>3, Make

\* Types.
LEMMA TypeMade ==
  ASSUME NEW p \in At, NEW c \in Nat, NEW k \in {0, 1}, NEW T \in SUBSET Points,
         Safe(Call("parse_type"), p, c, k, T)
  PROVE  /\ k = 0
         /\ \A q \in At : Calm(p, q) /\ p < q /\ toks[q - 1] \in Idents => Through(<<>>, q, c, 0, T)
<1>1. PICK t : t = Call("parse_type") /\ t[1] = "parse_type"
  <2>1. Call("parse_type")[1] = "parse_type"
    BY TaskIs
  <2> QED BY <2>1, Zenon
<1>2. ASSUME NEW q \in At, Calm(p, q) /\ p < q /\ toks[q - 1] \in Idents
      PROVE  Through(<<>>, q, c, 0, T)
  <2>1. Yields(t, p, c, k, q, c, 0) /\ 0 \in {0, 1}
    BY <1>1, <1>2 DEF Yields, Free, Stmts, Tails
  <2> QED BY <1>1, <1>2, <2>1, Made
<1>3. k = 0
  BY <1>1, Made DEF Starts
<1> QED BY <1>2, <1>3

\* One to parse.
LEMMA TypeMake ==
  ASSUME NEW v, NEW w, Behind(v, Call("parse_type"), w), NEW p \in At, NEW c \in Nat, NEW T,
         \A q \in At : Calm(p, q) /\ p < q /\ toks[q - 1] \in Idents => Through(w, q, c, 0, T)
  PROVE  Through(v, p, c, 0, T)
<1>1. PICK t : t = Call("parse_type") /\ t[1] = "parse_type"
  <2>1. Call("parse_type")[1] = "parse_type"
    BY TaskIs
  <2> QED BY <2>1, Zenon
<1>2. \A q, d, j : Yields(t, p, c, 0, q, d, j) => Calm(p, q) /\ p < q /\ toks[q - 1] \in Idents /\ d = c
                   /\ j = 0
  BY <1>1 DEF Yields, Tails
<1>3. Starts(t, p, c, 0)
  BY <1>1 DEF Starts, Free, Stmts
<1> QED BY <1>1, <1>2, <1>3, Make

\* Initial values.
LEMMA InitMade ==
  ASSUME NEW p \in At, NEW c \in Nat, NEW k \in {0, 1}, NEW T \in SUBSET Points,
         Safe(Call("init"), p, c, k, T)
  PROVE  /\ k = 0
         /\ ~Conditional(p) /\ p > 1 /\ toks[p - 1] \in Idents
         /\ \A q \in At, d \in Nat, j \in {0, 1} : Flush(p, q) => Through(<<>>, q, d, j, T)
<1>1. PICK t : t = Call("init") /\ t[1] = "init"
  <2>1. Call("init")[1] = "init"
    BY TaskIs
  <2> QED BY <2>1, Zenon
<1>2. ASSUME NEW q \in At, NEW d \in Nat, NEW j \in {0, 1}, Flush(p, q)
      PROVE  Through(<<>>, q, d, j, T)
  <2>1. Yields(t, p, c, k, q, d, j) /\ j \in {0, 1}
    BY <1>1, <1>2 DEF Yields, Free, Stmts, Tails
  <2> QED BY <1>1, <1>2, <2>1, Made
<1>3. k = 0 /\ ~Conditional(p) /\ p > 1 /\ toks[p - 1] \in Idents
  BY <1>1, Made DEF Starts
<1> QED BY <1>2, <1>3

\* One to parse.
LEMMA InitMake ==
  ASSUME NEW v, NEW w, Behind(v, Call("init"), w), NEW p \in At, NEW c \in Nat, NEW T,
         ~Conditional(p) /\ p > 1 /\ toks[p - 1] \in Idents,
         \A q \in At, d \in Nat, j \in {0, 1} : Flush(p, q) => Through(w, q, d, j, T)
  PROVE  Through(v, p, c, 0, T)
<1>1. PICK t : t = Call("init") /\ t[1] = "init"
  <2>1. Call("init")[1] = "init"
    BY TaskIs
  <2> QED BY <2>1, Zenon
<1>2. \A q, d, j : Yields(t, p, c, 0, q, d, j) => Flush(p, q)
  BY <1>1 DEF Yields, Tails
<1>3. Starts(t, p, c, 0)
  BY <1>1 DEF Starts, Free, Stmts
<1> QED BY <1>1, <1>2, <1>3, Make

\* Fields of a literal.
LEMMA FieldsMade ==
  ASSUME NEW p \in At, NEW c \in Nat, NEW k \in {0, 1}, NEW T \in SUBSET Points,
         Safe(Call("fields"), p, c, k, T)
  PROVE  /\ k = 0
         /\ ~Conditional(p)
         /\ \A q \in At, j \in {0, 1} : Calm(p, q) => Through(<<>>, q, c, j, T)
<1>1. PICK t : t = Call("fields") /\ t[1] = "fields"
  <2>1. Call("fields")[1] = "fields"
    BY TaskIs
  <2> QED BY <2>1, Zenon
<1>2. ASSUME NEW q \in At, NEW j \in {0, 1}, Calm(p, q)
      PROVE  Through(<<>>, q, c, j, T)
  <2>1. Yields(t, p, c, k, q, c, j) /\ j \in {0, 1}
    BY <1>1, <1>2 DEF Yields, Free, Stmts, Tails
  <2> QED BY <1>1, <1>2, <2>1, Made
<1>3. k = 0 /\ ~Conditional(p)
  BY <1>1, Made DEF Starts
<1> QED BY <1>2, <1>3

\* Those to parse.
LEMMA FieldsMake ==
  ASSUME NEW v, NEW w, Behind(v, Call("fields"), w), NEW p \in At, NEW c \in Nat, NEW T,
         ~Conditional(p),
         \A q \in At, j \in {0, 1} : Calm(p, q) => Through(w, q, c, j, T)
  PROVE  Through(v, p, c, 0, T)
<1>1. PICK t : t = Call("fields") /\ t[1] = "fields"
  <2>1. Call("fields")[1] = "fields"
    BY TaskIs
  <2> QED BY <2>1, Zenon
<1>2. \A q, d, j : Yields(t, p, c, 0, q, d, j) => Calm(p, q) /\ d = c
  BY <1>1 DEF Yields, Tails
<1>3. Starts(t, p, c, 0)
  BY <1>1 DEF Starts, Free, Stmts
<1> QED BY <1>1, <1>2, <1>3, Make

\* More fields, and more arguments.
LEMMA MoreMade ==
  ASSUME NEW f \in {"more_fields", "more_args"}, NEW p \in At, NEW c \in Nat, NEW k \in {0, 1},
         NEW T \in SUBSET Points,
         Safe(Call(f), p, c, k, T)
  PROVE  /\ ~Conditional(p)
         /\ \A q \in At, j \in {0, 1} : Calm(p, q) => Through(<<>>, q, c, j, T)
<1>1. PICK t : t = Call(f) /\ t[1] = f
  <2>1. Call(f)[1] = f
    BY TaskIs
  <2> QED BY <2>1, Zenon
<1>2. ASSUME NEW q \in At, NEW j \in {0, 1}, Calm(p, q)
      PROVE  Through(<<>>, q, c, j, T)
  <2>1. Yields(t, p, c, k, q, c, j) /\ j \in {0, 1}
    BY <1>1, <1>2 DEF Yields, Free, Stmts, Tails
  <2> QED BY <1>1, <1>2, <2>1, Made
<1>3. ~Conditional(p)
  BY <1>1, Made DEF Starts
<1> QED BY <1>2, <1>3

\* Those to parse.
LEMMA MoreMake ==
  ASSUME NEW f \in {"more_fields", "more_args"}, NEW v, NEW w, Behind(v, Call(f), w), NEW p \in At,
         NEW c \in Nat, NEW k \in {0, 1}, NEW T,
         ~Conditional(p),
         \A q \in At, j \in {0, 1} : Calm(p, q) => Through(w, q, c, j, T)
  PROVE  Through(v, p, c, k, T)
<1>1. PICK t : t = Call(f) /\ t[1] = f
  <2>1. Call(f)[1] = f
    BY TaskIs
  <2> QED BY <2>1, Zenon
<1>2. \A q, d, j : Yields(t, p, c, k, q, d, j) => Calm(p, q) /\ d = c
  BY <1>1 DEF Yields, Tails
<1>3. Starts(t, p, c, k)
  BY <1>1 DEF Starts, Free, Stmts
<1> QED BY <1>1, <1>2, <1>3, Make

\* Operands.
LEMMA PrimaryMade ==
  ASSUME NEW p \in At, NEW c \in Nat, NEW k \in {0, 1}, NEW T \in SUBSET Points,
         Safe(Call("parse_primary"), p, c, k, T)
  PROVE  /\ k = 0
         /\ Fence(p, UNARY) /\ (c = 0 => ~Conditional(p))
         /\ \A q \in At, j \in {0, 1} : Span(p, q, UNARY) => Through(<<>>, q, c, j, T)
<1>1. PICK t : t = Call("parse_primary") /\ t[1] = "parse_primary"
  <2>1. Call("parse_primary")[1] = "parse_primary"
    BY TaskIs
  <2> QED BY <2>1, Zenon
<1>2. ASSUME NEW q \in At, NEW j \in {0, 1}, Span(p, q, UNARY)
      PROVE  Through(<<>>, q, c, j, T)
  <2>1. Yields(t, p, c, k, q, c, j) /\ j \in {0, 1}
    BY <1>1, <1>2 DEF Yields, Free, Stmts, Tails
  <2> QED BY <1>1, <1>2, <2>1, Made
<1>3. k = 0 /\ Fence(p, UNARY) /\ (c = 0 => ~Conditional(p))
  BY <1>1, Made DEF Starts
<1> QED BY <1>2, <1>3

\* One to parse.
LEMMA PrimaryMake ==
  ASSUME NEW v, NEW w, Behind(v, Call("parse_primary"), w), NEW p \in At, NEW c \in Nat, NEW T,
         Fence(p, UNARY) /\ (c = 0 => ~Conditional(p)),
         \A q \in At, j \in {0, 1} : Span(p, q, UNARY) => Through(w, q, c, j, T)
  PROVE  Through(v, p, c, 0, T)
<1>1. PICK t : t = Call("parse_primary") /\ t[1] = "parse_primary"
  <2>1. Call("parse_primary")[1] = "parse_primary"
    BY TaskIs
  <2> QED BY <2>1, Zenon
<1>2. \A q, d, j : Yields(t, p, c, 0, q, d, j) => Span(p, q, UNARY) /\ d = c
  BY <1>1 DEF Yields, Tails
<1>3. Starts(t, p, c, 0)
  BY <1>1 DEF Starts, Free, Stmts
<1> QED BY <1>1, <1>2, <1>3, Make

\* What follows an operand.
LEMMA PostfixMade ==
  ASSUME NEW p \in At, NEW c \in Nat, NEW k \in {0, 1}, NEW T \in SUBSET Points,
         Safe(Call("parse_call_or_postfix"), p, c, k, T)
  PROVE  /\ \A q \in At, j \in {0, 1} : Tails(p, q) => Through(<<>>, q, c, j, T)
<1>1. PICK t : t = Call("parse_call_or_postfix") /\ t[1] = "parse_call_or_postfix"
  <2>1. Call("parse_call_or_postfix")[1] = "parse_call_or_postfix"
    BY TaskIs
  <2> QED BY <2>1, Zenon
<1>2. ASSUME NEW q \in At, NEW j \in {0, 1}, Tails(p, q)
      PROVE  Through(<<>>, q, c, j, T)
  <2>1. Yields(t, p, c, k, q, c, j) /\ j \in {0, 1}
    BY <1>1, <1>2 DEF Yields, Free, Stmts, Tails
  <2> QED BY <1>1, <1>2, <2>1, Made
<1> QED BY <1>2

\* What to parse of it.
LEMMA PostfixMake ==
  ASSUME NEW v, NEW w, Behind(v, Call("parse_call_or_postfix"), w), NEW p \in At, NEW c \in Nat,
         NEW k \in {0, 1}, NEW T,
         \A q \in At, j \in {0, 1} : Tails(p, q) => Through(w, q, c, j, T)
  PROVE  Through(v, p, c, k, T)
<1>1. PICK t : t = Call("parse_call_or_postfix") /\ t[1] = "parse_call_or_postfix"
  <2>1. Call("parse_call_or_postfix")[1] = "parse_call_or_postfix"
    BY TaskIs
  <2> QED BY <2>1, Zenon
<1>2. \A q, d, j : Yields(t, p, c, k, q, d, j) => Tails(p, q) /\ d = c
  BY <1>1 DEF Yields, Tails
<1>3. Starts(t, p, c, k)
  BY <1>1 DEF Starts, Free, Stmts
<1> QED BY <1>1, <1>2, <1>3, Make

\* Expressions of operators of precedence m and more.
LEMMA ExprMade ==
  ASSUME NEW m, NEW p \in At, NEW c \in Nat, NEW k \in {0, 1}, NEW T \in SUBSET Points,
         Safe(Precedence(m), p, c, k, T)
  PROVE  /\ k = 0
         /\ Fence(p, m) /\ (c = 0 => ~Conditional(p))
         /\ \A q \in At, j \in {0, 1} : Span(p, q, m) /\ Exit(m, q) => Through(<<>>, q, c, j, T)
<1>1. PICK t : t = Precedence(m) /\ t[1] = "parse_precedence" /\ t[2] = m
  <2>1. Precedence(m)[1] = "parse_precedence" /\ Precedence(m)[2] = m
    BY TaskIs DEF Precedence
  <2> QED BY <2>1, Zenon
<1>2. ASSUME NEW q \in At, NEW j \in {0, 1}, Span(p, q, m) /\ Exit(m, q)
      PROVE  Through(<<>>, q, c, j, T)
  <2>1. Yields(t, p, c, k, q, c, j) /\ j \in {0, 1}
    BY <1>1, <1>2 DEF Yields, Free, Stmts, Tails
  <2> QED BY <1>1, <1>2, <2>1, Made
<1>3. k = 0 /\ Fence(p, m) /\ (c = 0 => ~Conditional(p))
  BY <1>1, Made DEF Starts
<1> QED BY <1>2, <1>3

\* One to parse.
LEMMA ExprMake ==
  ASSUME NEW m, NEW v, NEW w, Behind(v, Precedence(m), w), NEW p \in At, NEW c \in Nat, NEW T,
         Fence(p, m) /\ (c = 0 => ~Conditional(p)),
         \A q \in At, j \in {0, 1} : Span(p, q, m) /\ Exit(m, q) => Through(w, q, c, j, T)
  PROVE  Through(v, p, c, 0, T)
<1>1. PICK t : t = Precedence(m) /\ t[1] = "parse_precedence" /\ t[2] = m
  <2>1. Precedence(m)[1] = "parse_precedence" /\ Precedence(m)[2] = m
    BY TaskIs DEF Precedence
  <2> QED BY <2>1, Zenon
<1>2. \A q, d, j : Yields(t, p, c, 0, q, d, j) => Span(p, q, m) /\ Exit(m, q) /\ d = c
  BY <1>1 DEF Yields, Tails
<1>3. Starts(t, p, c, 0)
  BY <1>1 DEF Starts, Free, Stmts
<1> QED BY <1>1, <1>2, <1>3, Make

\* More operators of such an expression, that starts at f.
LEMMA OperatorsMade ==
  ASSUME NEW f, NEW m, NEW p \in At, NEW c \in Nat, NEW k \in {0, 1}, NEW T \in SUBSET Points,
         Safe(<<"operators", <<m, f>>>>, p, c, k, T)
  PROVE  /\ Loop(f, m, p) /\ (c = 0 => ~Conditional(p))
         /\ \A q \in At, j \in {0, 1} : Span(f, q, m) /\ Exit(m, q) => Through(<<>>, q, c, j, T)
<1>1. PICK t : /\ t = <<"operators", <<m, f>>>>
               /\ t[1] = "operators" /\ t[2] = <<m, f>> /\ t[2][1] = m /\ t[2][2] = f
  <2>1. /\ <<"operators", <<m, f>>>>[1] = "operators" /\ <<"operators", <<m, f>>>>[2] = <<m, f>>
        /\ <<"operators", <<m, f>>>>[2][1] = m /\ <<"operators", <<m, f>>>>[2][2] = f
    BY TaskIs
  <2> QED BY <2>1, Zenon
<1>2. ASSUME NEW q \in At, NEW j \in {0, 1}, Span(f, q, m) /\ Exit(m, q)
      PROVE  Through(<<>>, q, c, j, T)
  <2>1. Yields(t, p, c, k, q, c, j) /\ j \in {0, 1}
    BY <1>1, <1>2 DEF Yields, Free, Stmts, Tails
  <2> QED BY <1>1, <1>2, <2>1, Made
<1>3. Loop(f, m, p) /\ (c = 0 => ~Conditional(p))
  BY <1>1, Made DEF Starts
<1> QED BY <1>2, <1>3

\* Those to parse.
LEMMA OperatorsMake ==
  ASSUME NEW f, NEW m, NEW v, NEW w, Behind(v, <<"operators", <<m, f>>>>, w), NEW p \in At,
         NEW c \in Nat, NEW k \in {0, 1}, NEW T,
         Loop(f, m, p) /\ (c = 0 => ~Conditional(p)),
         \A q \in At, j \in {0, 1} : Span(f, q, m) /\ Exit(m, q) => Through(w, q, c, j, T)
  PROVE  Through(v, p, c, k, T)
<1>1. PICK t : /\ t = <<"operators", <<m, f>>>>
               /\ t[1] = "operators" /\ t[2] = <<m, f>> /\ t[2][1] = m /\ t[2][2] = f
  <2>1. /\ <<"operators", <<m, f>>>>[1] = "operators" /\ <<"operators", <<m, f>>>>[2] = <<m, f>>
        /\ <<"operators", <<m, f>>>>[2][1] = m /\ <<"operators", <<m, f>>>>[2][2] = f
    BY TaskIs
  <2> QED BY <2>1, Zenon
<1>2. \A q, d, j : Yields(t, p, c, k, q, d, j) => Span(f, q, m) /\ Exit(m, q) /\ d = c
  BY <1>1 DEF Yields, Tails
<1>3. Starts(t, p, c, k)
  BY <1>1 DEF Starts, Free, Stmts
<1> QED BY <1>1, <1>2, <1>3, Make

\* An operator at a of an expression that starts at f is put into the tree.
LEMMA NodeMade ==
  ASSUME NEW f, NEW a, NEW p \in At, NEW c \in Nat, NEW k \in {0, 1}, NEW T \in SUBSET Points,
         Safe(<<"node", <<f, a>>>>, p, c, k, T)
  PROVE  /\ Fits(f, a, p) /\ Stopped(a, p)
         /\ \A j \in {0, 1} : Through(<<>>, p, c, j, T)
<1>1. PICK t : /\ t = <<"node", <<f, a>>>>
               /\ t[1] = "node" /\ t[2] = <<f, a>> /\ t[2][1] = f /\ t[2][2] = a
  <2>1. /\ <<"node", <<f, a>>>>[1] = "node" /\ <<"node", <<f, a>>>>[2] = <<f, a>>
        /\ <<"node", <<f, a>>>>[2][1] = f /\ <<"node", <<f, a>>>>[2][2] = a
    BY TaskIs
  <2> QED BY <2>1, Zenon
<1>2. ASSUME NEW j \in {0, 1}
      PROVE  Through(<<>>, p, c, j, T)
  <2>1. Yields(t, p, c, k, p, c, j) /\ j \in {0, 1}
    BY <1>1, <1>2 DEF Yields, Free, Stmts, Tails
  <2> QED BY <1>1, <1>2, <2>1, Made
<1>3. Fits(f, a, p) /\ Stopped(a, p)
  BY <1>1, Made DEF Starts
<1> QED BY <1>2, <1>3

\* One to put there.
LEMMA NodeMake ==
  ASSUME NEW f, NEW a, NEW v, NEW w, Behind(v, <<"node", <<f, a>>>>, w), NEW p \in At,
         NEW c \in Nat, NEW k \in {0, 1}, NEW T,
         Fits(f, a, p) /\ Stopped(a, p),
         \A j \in {0, 1} : Through(w, p, c, j, T)
  PROVE  Through(v, p, c, k, T)
<1>1. PICK t : /\ t = <<"node", <<f, a>>>>
               /\ t[1] = "node" /\ t[2] = <<f, a>> /\ t[2][1] = f /\ t[2][2] = a
  <2>1. /\ <<"node", <<f, a>>>>[1] = "node" /\ <<"node", <<f, a>>>>[2] = <<f, a>>
        /\ <<"node", <<f, a>>>>[2][1] = f /\ <<"node", <<f, a>>>>[2][2] = a
    BY TaskIs
  <2> QED BY <2>1, Zenon
<1>2. \A q, d, j : Yields(t, p, c, k, q, d, j) => q = p /\ d = c
  BY <1>1 DEF Yields, Tails
<1>3. Starts(t, p, c, k)
  BY <1>1 DEF Starts, Free, Stmts
<1> QED BY <1>1, <1>2, <1>3, Make

\* The rest is not inside an expression.
LEMMA FreeMade ==
  ASSUME NEW f \in Free, NEW p \in At, NEW c \in Nat, NEW k \in {0, 1}, NEW T \in SUBSET Points,
         Safe(Call(f), p, c, k, T)
  PROVE  /\ k = 0
         /\ \A q \in At, d \in Nat : Through(<<>>, q, d, 0, T)
<1>1. PICK t : t = Call(f) /\ t[1] = f
  <2>1. Call(f)[1] = f
    BY TaskIs
  <2> QED BY <2>1, Zenon
<1>2. ASSUME NEW q \in At, NEW d \in Nat
      PROVE  Through(<<>>, q, d, 0, T)
  <2>1. Yields(t, p, c, k, q, d, 0) /\ 0 \in {0, 1}
    BY <1>1, <1>2 DEF Yields, Free, Stmts, Tails
  <2> QED BY <1>1, <1>2, <2>1, Made
<1>3. k = 0
  BY <1>1, Made DEF Starts
<1> QED BY <1>2, <1>3

\* A list of tasks.
Listed(w) == \E S : w \in Seq(S)

\* Short ones.
LEMMA ListedAre ==
  /\ Listed(<<>>)
  /\ \A a : Listed(<<a>>)
  /\ \A a, b : Listed(<<a, b>>)
  /\ \A a, b, c : Listed(<<a, b, c>>)
  /\ \A a, b, c, d : Listed(<<a, b, c, d>>)
  /\ \A a, b, c, d, e : Listed(<<a, b, c, d, e>>)
<1>1. Listed(<<>>)
  <2>1. <<>> \in Seq({})
    OBVIOUS
  <2> QED BY <2>1 DEF Listed
<1>2. ASSUME NEW a PROVE Listed(<<a>>)
  <2>1. <<a>> \in Seq({a})
    OBVIOUS
  <2> QED BY <2>1 DEF Listed
<1>3. ASSUME NEW a, NEW b PROVE Listed(<<a, b>>)
  <2>1. <<a, b>> \in Seq({a, b})
    OBVIOUS
  <2> QED BY <2>1 DEF Listed
<1>4. ASSUME NEW a, NEW b, NEW c PROVE Listed(<<a, b, c>>)
  <2>1. <<a, b, c>> \in Seq({a, b, c})
    OBVIOUS
  <2> QED BY <2>1 DEF Listed
<1>5. ASSUME NEW a, NEW b, NEW c, NEW d PROVE Listed(<<a, b, c, d>>)
  <2>1. <<a, b, c, d>> \in Seq({a, b, c, d})
    OBVIOUS
  <2> QED BY <2>1 DEF Listed
<1>6. ASSUME NEW a, NEW b, NEW c, NEW d, NEW e PROVE Listed(<<a, b, c, d, e>>)
  <2>1. <<a, b, c, d, e>> \in Seq({a, b, c, d, e})
    OBVIOUS
  <2> QED BY <2>1 DEF Listed
<1> QED BY <1>1, <1>2, <1>3, <1>4, <1>5, <1>6

\* Lists one after the other.
LEMMA ListedConcat == \A u, w : Listed(u) /\ Listed(w) => Listed(u \o w)
<1> SUFFICES ASSUME NEW u, NEW w, Listed(u), Listed(w) PROVE Listed(u \o w)
  OBVIOUS
<1>1. PICK R, S : u \in Seq(R) /\ w \in Seq(S)
  BY DEF Listed
<1>2. u \in Seq(R \cup S) /\ w \in Seq(R \cup S)
  BY <1>1, SeqMonotonic
<1>3. u \o w \in Seq(R \cup S)
  BY <1>2, ConcatProperties
<1> QED BY <1>3 DEF Listed

\* A call t in front of token p reads n tokens and leaves w to do.
Goes(t, p, c, n, w, d) ==
  /\ Listed(w)
  /\ \A k \in {0, 1}, T \in SUBSET Points :
       Safe(t, p, c, k, T) => /\ n # 0 => ~(k = 1 /\ Unread(p))
                              /\ Through(w, p + n, d, IF n = 0 THEN k ELSE 0, T)

\* One that reads.
LEMMA GoesOn ==
  ASSUME NEW t, NEW p, NEW c, NEW n \in 1 .. 2, NEW w, NEW d, Listed(w),
         \A k \in {0, 1}, T \in SUBSET Points :
           Safe(t, p, c, k, T) => ~(k = 1 /\ Unread(p)) /\ Through(w, p + n, d, 0, T)
  PROVE  Goes(t, p, c, n, w, d)
<1>1. n # 0
  OBVIOUS
<1> QED BY <1>1, Zenon DEF Goes

\* One that reads nothing.
LEMMA GoesStay ==
  ASSUME NEW t, NEW p \in At, NEW c, NEW w, NEW d, Listed(w),
         \A k \in {0, 1}, T \in SUBSET Points : Safe(t, p, c, k, T) => Through(w, p, d, k, T)
  PROVE  Goes(t, p, c, 0, w, d)
<1>1. p + 0 = p
  BY DEF At
<1> QED BY <1>1, Zenon DEF Goes

\* Kinds that are not those of identifiers.
Signs == {"(", ")", "[", "]", "{", "}", ";", ",", "=>", "=", ":", "in", "int", "_"}

\* They are asked for by name.
LEMMA SignsAre ==
  /\ \A s \in Signs : \A k : IsA(k, s) <=> k = s
  /\ Brace \subseteq Signs /\ Unbrace \subseteq Signs /\ Semicolon \subseteq Signs
  /\ Unbrace \subseteq Stops /\ Semicolon \subseteq Stops
<1>1. \A s \in Signs : s # "ident"
  BY Zenon DEF Signs
<1>2. Brace \subseteq Signs /\ Unbrace \subseteq Signs /\ Semicolon \subseteq Signs
  BY Zenon DEF Signs, Brace, Unbrace, Semicolon
<1>3. Unbrace \subseteq Stops /\ Semicolon \subseteq Stops
  BY Zenon DEF Stops, Unbrace, Semicolon
<1> QED BY <1>1, <1>2, <1>3, IsAIs, Zenon

\* No literal starts in a condition, or where no operand is in front.
LEMMA NoLiteral ==
  /\ \A p \in At : Conditional(p) => ~OpensLiteral(p)
  /\ \A p : toks[p - 1] \notin Idents => ~OpensLiteral(p)
  /\ \A p : \A m : Fence(p, m) => ~OpensLiteral(p)
  /\ \A p : Fresh(p) => ~OpensLiteral(p)
<1>1. \A p \in At : Conditional(p) => ~OpensLiteral(p)
  BY ConditionBrace, LiteralIs, Zenon
<1>2. \A p : toks[p - 1] \notin Idents => ~OpensLiteral(p)
  BY LiteralIs, Zenon
<1>3. \A p : \A m : Fence(p, m) => ~OpensLiteral(p)
  BY <1>2, Zenon DEF Fence, EndsOperand
<1> QED BY <1>1, <1>2, <1>3, Zenon DEF Fresh

\* A token that is expected where an operand has ended, and where none has.
LEMMA ThenStop ==
  ASSUME NEW s \in Stops \cap Signs, NEW v, NEW w, Behind(v, Expect(s), w),
         NEW p \in At, NEW c \in Nat, NEW k \in {0, 1}, NEW T,
         toks[p] = s => Through(w, p + 1, c, 0, T)
  PROVE  Through(v, p, c, k, T)
<1>1. IsA(toks[p], s) => toks[p] = s
  BY SignsAre
<1> QED BY <1>1, ExpectMake

\* One of any kind.
LEMMA ThenSign ==
  ASSUME NEW s \in Signs, NEW v, NEW w, Behind(v, Expect(s), w), NEW p \in At, NEW c \in Nat, NEW T,
         toks[p] = s => Through(w, p + 1, c, 0, T)
  PROVE  Through(v, p, c, 0, T)
<1>1. IsA(toks[p], s) => toks[p] = s
  BY SignsAre
<1> QED BY <1>1, ExpectMake

\* An identifier.
LEMMA ThenIdent ==
  ASSUME NEW v, NEW w, Behind(v, Expect("ident"), w), NEW p \in At, NEW c \in Nat, NEW T,
         toks[p] \in Idents => Through(w, p + 1, c, 0, T)
  PROVE  Through(v, p, c, 0, T)
<1>1. IsA(toks[p], "ident") => toks[p] \in Idents
  BY IsAIs, Zenon
<1> QED BY <1>1, ExpectMake

\* An expression, from where one may start.
LEMMA ThenExpr ==
  ASSUME NEW v, NEW w, Behind(v, parse_expr, w), NEW p \in At, NEW c \in Nat, NEW T,
         Fence(p, ASSIGN), c = 0 => ~Conditional(p),
         \A q \in At, j \in {0, 1} : Span(p, q, ASSIGN) => Through(w, q, c, j, T)
  PROVE  Through(v, p, c, 0, T)
<1>1. PICK m : m = ASSIGN /\ parse_expr = Precedence(m)
  BY Zenon DEF parse_expr
<1> QED BY <1>1, ExprMake

\* A condition, and a block.
LEMMA ThenCondition ==
  ASSUME NEW S, NEW w \in Seq(S), NEW p \in At, NEW c \in Nat, NEW T,
         Conditional(p), Fence(p, ASSIGN),
         \A q \in At, j \in {0, 1} : Span(p, q, ASSIGN) => Through(w, q, c, j, T)
  PROVE  Through(Condition \o w, p, c, 0, T)
<1>1. PICK a, b, r, x : /\ a = Call("suppress") /\ b = parse_expr /\ x = 1 /\ r = <<"release", x>>
                        /\ Condition = <<a, b, r>>
  BY Zenon DEF Condition
<1>2. PICK U \in SUBSET Points : U = Onwards(w, T)
  BY OnwardsIs
<1>3. ASSUME NEW q \in At, NEW j \in {0, 1}, Span(p, q, ASSIGN) PROVE Through(<<>>, q, c, j, U)
  <2>1. <<q, c, j>> \in U
    BY <1>2, <1>3, OnwardsIs
  <2> QED BY <2>1, ThroughNone
<1>4. ASSUME NEW q \in At, NEW j \in {0, 1}, Span(p, q, ASSIGN) PROVE Through(<<r>>, q, c + 1, j, U)
  <2>1. Behind(<<r>>, <<"release", x>>, <<>>)
    BY <1>1, Behinds
  <2>2. \A d \in Nat : c + 1 = d + 1 => Through(<<>>, q, d, j, U)
    <3>1. \A d \in Nat : c + 1 = d + 1 => d = c
      OBVIOUS
    <3> QED BY <1>3, <1>4, <3>1
  <2>3. PICK e \in Nat : e = c + 1
    OBVIOUS
  <2>4. \A d \in Nat : e = d + 1 => Through(<<>>, q, d, j, U)
    BY <2>2, <2>3
  <2>5. Through(<<r>>, q, e, j, U)
    BY <2>1, <2>4, ReleaseMake
  <2> QED BY <2>3, <2>5
<1>5. Through(<<b, r>>, p, c + 1, 0, U)
  <2>1. Behind(<<b, r>>, b, <<r>>)
    BY Behinds
  <2>2. c + 1 \in Nat /\ c + 1 # 0
    OBVIOUS
  <2> QED BY <1>1, <1>4, <2>1, <2>2, ThenExpr
<1>6. Through(<<a, b, r>>, p, c, 0, U)
  <2>1. Behind(<<a, b, r>>, a, <<b, r>>)
    BY Behinds
  <2> QED BY <1>1, <1>5, <2>1, SuppressMake
<1>7. PICK R : R = S \cup {a, b, r} /\ w \in Seq(R) /\ Condition \in Seq(R)
  <2>1. <<a, b, r>> \in Seq(S \cup {a, b, r})
    OBVIOUS
  <2>2. w \in Seq(S \cup {a, b, r})
    BY SeqMonotonic
  <2> QED BY <1>1, <2>1, <2>2
<1>8. Through(Condition, p, c, 0, Onwards(w, T))
  BY <1>1, <1>2, <1>6
<1> QED BY <1>7, <1>8, ThroughConcat

\* A block.
LEMMA ThenBlock ==
  ASSUME NEW v, NEW w, Behind(v, Call("parse_block"), w), NEW p \in At, NEW c \in Nat, NEW k \in {0, 1}, NEW T,
         ~OpensLiteral(p),
         \A q \in At, d \in Nat : Flush(p, q) /\ Fresh(q) => Through(w, q, d, 0, T)
  PROVE  Through(v, p, c, k, T)
BY BlockMake

\* The semicolon of a statement that starts at f, and an expression in front of it.
LEMMA ThenSemi ==
  ASSUME NEW s \in Semicolon, NEW f \in At, NEW p \in At, NEW c \in Nat, NEW k \in {0, 1}, NEW T, Flush(f, p),
         \A q \in At, d \in Nat : Flush(f, q) /\ Fresh(q) => Through(<<>>, q, d, 0, T)
  PROVE  Through(<<Expect(s)>>, p, c, k, T)
<1>1. PICK a : a = Expect(s) /\ Behind(<<a>>, a, <<>>)
  BY Behinds
<1>2. ASSUME toks[p] = s PROVE Through(<<>>, p + 1, c, 0, T)
  <2>1. Flush(p, p + 1) /\ Fresh(p + 1) /\ p + 1 \in At
    BY <1>2, AfterSemicolon, Nearby
  <2>2. Flush(f, p + 1)
    BY <2>1, FlushTwo
  <2> QED BY <2>1, <2>2
<1>3. s \in Stops \cap Signs
  BY SignsAre
<1> QED BY <1>1, <1>2, <1>3, ThenStop

\* The expression with it.
LEMMA ThenExprSemi ==
  ASSUME NEW s \in Semicolon, NEW f \in At, NEW p \in At, NEW c \in Nat, NEW T, Flush(f, p),
         Fence(p, ASSIGN), ~Conditional(p),
         \A q \in At, d \in Nat : Flush(f, q) /\ Fresh(q) => Through(<<>>, q, d, 0, T)
  PROVE  Through(<<parse_expr, Expect(s)>>, p, c, 0, T)
<1>1. PICK a, b : a = parse_expr /\ b = Expect(s) /\ Behind(<<a, b>>, a, <<b>>)
  BY Behinds
<1>2. ASSUME NEW q \in At, NEW j \in {0, 1}, Span(p, q, ASSIGN) PROVE Through(<<b>>, q, c, j, T)
  <2>1. Flush(f, q)
    BY <1>2, SpanFlush, FlushTwo
  <2> QED BY <1>1, <2>1, ThenSemi
<1> QED BY <1>1, <1>2, ThenExpr

-----------------------------------------------------------------------------
(* Every step keeps the operators as the text groups them.                    *)

\* A step that does the first task keeps the invariant.
LEMMA GroupsMove ==
  ASSUME Core, Tree, Groups, ~had_error, NEW f, NEW n \in 0 .. 2, NEW w, Do(f, n, w), n # 0 => Here # "eof",
         nodes' = nodes, NEW d \in Nat, no_struct_lit' = d,
         NEW t, todo[1] = t, Goes(t, pos, no_struct_lit, n, w, d)
  PROVE  Groups'
<1>1. PICK k \in {0, 1} : Grouped(todo, pos, no_struct_lit, k, nodes)
  BY DEF Groups
<1>2. pos \in At /\ pos + n \in At /\ pos \in Nat /\ no_struct_lit \in Nat /\ todo \in Seq(Tasks(pos))
      /\ todo # <<>>
  BY TextAt DEF Core, At, Do, Doing
<1>3. toks' = toks /\ pos' = pos + n /\ todo' = w \o Tail(todo)
  <2>1. n = 0 => pos + n = pos
    BY <1>2
  <2> QED BY <2>1 DEF Do
<1>4. PICK T : T = Onwards(Tail(todo), Points)
  OBVIOUS
<1>5. T \in SUBSET Points
  BY <1>4, OnwardsIs
<1>6. Safe(t, pos, no_struct_lit, k, T)
  BY <1>1, <1>2, <1>4, ThroughHead DEF Grouped
<1>7. PICK j \in {0, 1} : j = IF n = 0 THEN k ELSE 0
  OBVIOUS
<1>8. (n # 0 => ~(k = 1 /\ Unread(pos))) /\ Through(w, pos + n, d, j, T)
  BY <1>5, <1>6, <1>7, Zenon DEF Goes
<1>9. Through(w \o Tail(todo), pos + n, d, j, Points)
  <2>1. PICK S : w \in Seq(S)
    BY DEF Goes, Listed
  <2>2. PICK R : R = S \cup Tasks(pos)
    OBVIOUS
  <2>3. Tail(todo) \in Seq(Tasks(pos))
    BY <1>2
  <2>4. w \in Seq(R) /\ Tail(todo) \in Seq(R)
    BY <2>1, <2>2, <2>3, SeqMonotonic
  <2> QED BY <1>2, <1>4, <1>8, <2>4, ThroughConcat
<1>10. ASSUME NEW m \in nodes
       PROVE  /\ m.last < pos + n /\ Fits(m.first, m.at, m.last + 1)
              /\ Bars(m.last + 1, m.at, RightFrom(m.at)) \/ (m.last + 1 = pos + n /\ Unread(pos + n))
              /\ m.last + 1 = pos + n => j = 1
  <2>1. m.last < pos /\ Fits(m.first, m.at, m.last + 1)
        /\ (Bars(m.last + 1, m.at, RightFrom(m.at)) \/ (m.last + 1 = pos /\ Unread(pos)))
        /\ (m.last + 1 = pos => k = 1)
    BY <1>1 DEF Grouped
  <2>2. m.last \in Nat
    <3>1. m \in [first : Positions, at : Positions, last : Positions]
      BY DEF Tree
    <3>2. Positions \subseteq Nat
      <4>1. Positions = 1 .. Len(toks) /\ Len(toks) \in Nat
        BY TextAt DEF Positions
      <4> QED BY <4>1
    <3>3. m.last \in Positions
      BY <3>1
    <3> QED BY <3>2, <3>3
  <2>3. CASE n = 0
    BY <1>2, <1>7, <2>1, <2>3
  <2>4. CASE n # 0
    <3>1. m.last < pos + n /\ m.last + 1 # pos + n
      BY <1>2, <2>1, <2>2, <2>4
    <3> QED BY <1>8, <2>1, <2>4, <3>1
  <2> QED BY <2>3, <2>4
<1>11. Grouped(w \o Tail(todo), pos + n, d, j, nodes)
  BY <1>9, <1>10 DEF Grouped
<1> QED BY <1>3, <1>11, GroupsNow

\* The calls have no argument.
LEMMA HeadCall ==
  ASSUME Core, NEW f \in CallNames, Doing(f)
  PROVE  todo[1] = Call(f)
<1>1. f \notin Watched
  BY DEF CallNames, Watched
<1>2. todo[1] \in Flat(pos) /\ todo[1][1] = f
  BY <1>1, HeadFlat DEF Doing
<1>3. f \notin {"expect", "match", "parse_precedence", "operators", "node"}
  BY DEF CallNames
<1>4. todo[1] \in CallNames \X {""}
  BY <1>2, <1>3 DEF Flat
<1>5. PICK x : todo[1] = <<f, x>>
  BY HeadArg
<1>6. <<f, x>> \in CallNames \X {""} => x = ""
  OBVIOUS
<1> QED BY <1>4, <1>5, <1>6 DEF Call

\* One that leaves the rest as it is.
LEMMA GroupsCall ==
  ASSUME Core, Tree, Groups, ~had_error, Plain, NEW f \in CallNames, NEW n \in 0 .. 2, NEW w,
         Do(f, n, w), n # 0 => Here # "eof", Goes(Call(f), pos, no_struct_lit, n, w, no_struct_lit)
  PROVE  Groups'
<1>1. todo[1] = Call(f)
  BY HeadCall DEF Do
<1>2. no_struct_lit \in Nat /\ no_struct_lit' = no_struct_lit /\ nodes' = nodes
  BY DEF Core, Plain, tree
<1> QED BY <1>1, <1>2, GroupsMove

\* What may be to do outside of statements, in any order.
FreeNames == Free \cup {"parse_type", "parse_block"}
Freely == FreeNames \X {""} \cup {"expect", "match"} \X (FlatKinds \cup Brackets)

\* The tasks of that kind.
LEMMA FreelyAre ==
  /\ \A f \in FreeNames : Call(f) \in Freely
  /\ \A s \in FlatKinds \cup Brackets : Expect(s) \in Freely /\ Optional(s) \in Freely
  /\ \A t \in Freely : t[1] \in FreeNames \cup {"expect", "match"}
<1>1. \A f \in FreeNames : <<f, "">> \in Freely
  BY DEF Freely
<1>2. \A s \in FlatKinds \cup Brackets : <<"expect", s>> \in Freely /\ <<"match", s>> \in Freely
  BY DEF Freely
<1>3. \A t \in Freely : t[1] \in FreeNames \cup {"expect", "match"}
  BY DEF Freely
<1> QED BY <1>1, <1>2, <1>3, Zenon DEF Call, Expect, Optional

\* Lists of it.
LEMMA FreeLists ==
  /\ <<>> \in Seq(Freely)
  /\ \A a \in Freely : <<a>> \in Seq(Freely)
  /\ \A a, b \in Freely : <<a, b>> \in Seq(Freely)
  /\ \A a, b, c \in Freely : <<a, b, c>> \in Seq(Freely)
  /\ \A a, b, c, d \in Freely : <<a, b, c, d>> \in Seq(Freely)
  /\ \A a, b, c, d, e \in Freely : <<a, b, c, d, e>> \in Seq(Freely)
OBVIOUS

\* Where such a call returns another may be made.
Ready == At \X Nat \X {0}

\* It may be made in any such place.
LEMMA FreeSafe ==
  ASSUME NEW t \in Freely, NEW q \in At, NEW d \in Nat
  PROVE  Safe(t, q, d, 0, Ready)
<1>1. t[1] \in Free \cup {"parse_type", "parse_block", "expect", "match"}
  BY FreelyAre DEF FreeNames
<1>2. Starts(t, q, d, 0)
  BY <1>1 DEF Starts, Free, Stmts
<1>3. \A r \in At, e \in Nat, j \in {0, 1} : Yields(t, q, d, 0, r, e, j) => j = 0
  BY <1>1 DEF Yields
<1> QED BY <1>2, <1>3 DEF Safe, Ready

\* So may any list of them.
LEMMA FreeThrough ==
  ASSUME NEW w \in Seq(Freely), NEW p \in At, NEW c \in Nat, NEW T \in SUBSET Points, Ready \subseteq T
  PROVE  Through(w, p, c, 0, T)
<1>1. PICK n \in Nat : n = Len(w) /\ \A i \in 1 .. n : w[i] \in Freely
  OBVIOUS
<1>2. Ready \in SUBSET Points
  BY DEF Ready, Points
<1>3. PICK e : e = [i \in 1 .. n + 1 |-> Ready]
  OBVIOUS
<1>4. e \in [1 .. n + 1 -> SUBSET Points] /\ \A i \in 1 .. n + 1 : e[i] = Ready
  BY <1>2, <1>3
<1>5. ASSUME NEW i \in 1 .. n, NEW q \in At, NEW d \in Nat, NEW j \in {0, 1}, <<q, d, j>> \in e[i]
      PROVE  Safe(w[i], q, d, j, e[i + 1])
  <2>1. i \in 1 .. n + 1 /\ i + 1 \in 1 .. n + 1
    OBVIOUS
  <2>2. j = 0 /\ e[i + 1] = Ready
    BY <1>4, <1>5, <2>1 DEF Ready
  <2> QED BY <1>1, <2>2, FreeSafe
<1>6. n + 1 \in 1 .. n + 1 /\ 1 \in 1 .. n + 1
  OBVIOUS
<1>7. e[n + 1] \subseteq T /\ <<p, c, 0>> \in e[1]
  <2>1. <<p, c, 0>> \in Ready
    BY DEF Ready
  <2> QED BY <1>4, <1>6, <2>1
<1>8. Chain(w, e, T)
  BY <1>1, <1>4, <1>5, <1>7, Zenon DEF Chain
<1> QED BY <1>7, <1>8 DEF Through

\* A call outside of statements.
LEMMA FreeGoes ==
  ASSUME NEW f \in Free, NEW p \in At, NEW c \in Nat, NEW n \in 0 .. 2, NEW w \in Seq(Freely)
  PROVE  Goes(Call(f), p, c, n, w, c)
<1>1. Listed(w)
  BY DEF Listed
<1>2. ASSUME NEW k \in {0, 1}, NEW T \in SUBSET Points, Safe(Call(f), p, c, k, T)
      PROVE  k = 0 /\ Through(w, p + n, c, 0, T)
  <2>1. k = 0
    BY <1>2, FreeMade
  <2>2. PICK t : t = Call(f) /\ t[1] = f
    BY TaskIs, Zenon
  <2>3. ASSUME NEW q \in At, NEW d \in Nat PROVE <<q, d, 0>> \in T
    <3>1. Yields(t, p, c, k, q, d, 0)
      BY <2>2 DEF Yields, Free, Stmts
    <3> QED BY <1>2, <2>2, <3>1 DEF Safe
  <2>4. Ready \subseteq T
    BY <2>3 DEF Ready
  <2>5. p + n \in At
    BY DEF At
  <2> QED BY <2>1, <2>4, <2>5, FreeThrough
<1>3. CASE n = 0
  BY <1>1, <1>2, <1>3, GoesStay
<1>4. CASE n # 0
  BY <1>1, <1>2, <1>4, GoesOn
<1> QED BY <1>3, <1>4

\* The tasks of such calls.
LEMMA FreeMarks ==
  /\ Expect("ident") \in Freely /\ Expect(":") \in Freely /\ Expect("=") \in Freely
  /\ Expect("(") \in Freely /\ Expect(")") \in Freely /\ Expect("{") \in Freely /\ Expect("}") \in Freely
  /\ Optional(";") \in Freely /\ Optional(",") \in Freely
  /\ \A f \in Free \cup {"parse_type", "parse_block"} : Call(f) \in Freely
  /\ \A f \in Keywords : f \in Free
<1>1. "ident" \in FlatKinds /\ ":" \in FlatKinds /\ "=" \in FlatKinds /\ ";" \in FlatKinds /\ "," \in FlatKinds
  BY Zenon DEF FlatKinds
<1>2. "(" \in Brackets /\ ")" \in Brackets /\ "{" \in Brackets /\ "}" \in Brackets
  BY BracketsAre, Zenon DEF Brackets
<1>3. \A f \in Keywords : f \in Free
  BY Zenon DEF Keywords, Free
<1> QED BY <1>1, <1>2, <1>3, FreelyAre, Zenon DEF FreeNames

\* A step outside of statements.
LEMMA GroupsFree ==
  ASSUME Core, Tree, Groups, ~had_error, NEW f \in Free, NEW n \in 0 .. 2, NEW w \in Seq(Freely),
         Do(f, n, w), n # 0 => Here # "eof", nodes' = nodes, no_struct_lit' = no_struct_lit
  PROVE  Groups'
<1>1. f \in CallNames
  BY DEF Free, CallNames
<1>2. todo[1] = Call(f)
  BY <1>1, HeadCall DEF Do
<1>3. no_struct_lit \in Nat /\ pos \in At
  BY TextAt DEF Core, At
<1>4. Goes(Call(f), pos, no_struct_lit, n, w, no_struct_lit)
  BY <1>3, FreeGoes
<1> QED BY <1>2, <1>3, <1>4, GroupsMove

\* The argument of an attribute.
LEMMA GoesAttrArg ==
  ASSUME NEW p \in At, NEW c \in Nat, toks[p] = "("
  PROVE  Goes(Call("attr_arg"), p, c, 1, <<parse_expr, Expect(")")>>, c)
<1>1. PICK a, b, s : a = parse_expr /\ s = ")" /\ b = Expect(s) /\ s \in Stops \cap Signs
  BY Zenon DEF Stops, Signs
<1>2. Behind(<<a, b>>, a, <<b>>) /\ Behind(<<b>>, b, <<>>) /\ Listed(<<a, b>>)
  BY Behinds, ListedAre
<1>3. p + 1 \in At /\ Fence(p + 1, ASSIGN) /\ ~Conditional(p + 1)
  BY Nearby, FreshIn DEF Fresh
<1>4. ASSUME NEW k \in {0, 1}, NEW T \in SUBSET Points, Safe(Call("attr_arg"), p, c, k, T)
      PROVE  k = 0 /\ Through(<<a, b>>, p + 1, c, 0, T)
  <2>1. "attr_arg" \in Free
    BY DEF Free
  <2>2. k = 0 /\ \A q \in At, d \in Nat : Through(<<>>, q, d, 0, T)
    BY <1>4, <2>1, FreeMade
  <2>3. ASSUME NEW q \in At, NEW j \in {0, 1} PROVE Through(<<b>>, q, c, j, T)
    <3>1. Through(<<>>, q + 1, c, 0, T)
      BY <2>2, Nearby
    <3> QED BY <1>1, <1>2, <3>1, ThenStop
  <2> QED BY <1>1, <1>2, <1>3, <2>2, <2>3, ThenExpr
<1>5. 1 \in 1 .. 2 /\ \A k \in {0, 1}, T \in SUBSET Points :
        Safe(Call("attr_arg"), p, c, k, T) => ~(k = 1 /\ Unread(p)) /\ Through(<<a, b>>, p + 1, c, 0, T)
  BY <1>4
<1>6. Goes(Call("attr_arg"), p, c, 1, <<a, b>>, c)
  BY <1>2, <1>5, GoesOn
<1> QED BY <1>1, <1>6, Zenon

\* Attributes.
LEMMA Groups_parse_attr_list ==
  Core /\ Tree /\ Groups /\ ~had_error /\ parse_attr_list /\ ~had_error' => Groups'
<1> SUFFICES ASSUME Core, Tree, Groups, ~had_error, parse_attr_list, ~had_error' PROVE Groups'
  OBVIOUS
<1>1. ASSUME Here = "@",
             Do("parse_attr_list", 1, <<Expect("ident"), Call("attr_arg"), Call("parse_attr_list")>>),
             UNCHANGED <<no_struct_lit, nodes>>
      PROVE  Groups'
  <2>1. <<Expect("ident"), Call("attr_arg"), Call("parse_attr_list")>> \in Seq(Freely)
    BY FreeMarks, FreeLists, Zenon DEF Free
  <2>2. "parse_attr_list" \in Free /\ 1 \in 0 .. 2 /\ Here # "eof"
    <3>1. Here = "@"
      BY <1>1
    <3>2. Here # "eof"
      BY <3>1, Zenon DEF Keywords
    <3>3. "parse_attr_list" \in Free /\ 1 \in 0 .. 2
      BY DEF Free
    <3> QED BY <3>2, <3>3
  <2>3. nodes' = nodes /\ no_struct_lit' = no_struct_lit
    BY <1>1 DEF Plain, tree
  <2> QED BY <1>1, <2>1, <2>2, <2>3, GroupsFree
<1>2. ASSUME Do("parse_attr_list", 0, <<>>), Plain
      PROVE  Groups'
  <2>1. <<>> \in Seq(Freely)
    BY FreeMarks, FreeLists, Zenon DEF Free
  <2>2. "parse_attr_list" \in Free /\ 0 \in 0 .. 2 /\ (0 # 0 => Here # "eof")
    BY DEF Free
  <2>3. nodes' = nodes /\ no_struct_lit' = no_struct_lit
    BY <1>2 DEF Plain, tree
  <2> QED BY <1>2, <2>1, <2>2, <2>3, GroupsFree
<1>3. ASSUME Here = "(",
             Do("attr_arg", 1, <<parse_expr, Expect(")")>>), Plain
      PROVE  Groups'
  <2>1. Goes(Call("attr_arg"), pos, no_struct_lit, 1, <<parse_expr, Expect(")")>>, no_struct_lit)
    <3>1. pos \in At /\ no_struct_lit \in Nat
      BY TextAt DEF Core, At
    <3> QED BY <1>3, <3>1, GoesAttrArg DEF Here
  <2>2. "attr_arg" \in CallNames /\ 1 \in 0 .. 2 /\ Here # "eof"
    BY <1>3 DEF CallNames
  <2> QED BY <1>3, <2>1, <2>2, GroupsCall
<1>4. ASSUME Do("attr_arg", 0, <<>>), Plain
      PROVE  Groups'
  <2>1. <<>> \in Seq(Freely)
    BY FreeMarks, FreeLists, Zenon DEF Free
  <2>2. "attr_arg" \in Free /\ 0 \in 0 .. 2 /\ (0 # 0 => Here # "eof")
    BY DEF Free
  <2>3. nodes' = nodes /\ no_struct_lit' = no_struct_lit
    BY <1>4 DEF Plain, tree
  <2> QED BY <1>4, <2>1, <2>2, <2>3, GroupsFree
<1> QED BY <1>1, <1>2, <1>3, <1>4, Zenon DEF parse_attr_list

\* A declaration.
LEMMA Groups_parse_decl == Core /\ Tree /\ Groups /\ ~had_error /\ parse_decl /\ ~had_error' => Groups'
<1> SUFFICES ASSUME Core, Tree, Groups, ~had_error, parse_decl, ~had_error' PROVE Groups'
  OBVIOUS
<1>1. ASSUME Here \in Keywords,
             Do("parse_decl", 1, <<Expect("ident"), Call(Here)>>), UNCHANGED <<no_struct_lit, nodes>>
      PROVE  Groups'
  <2>1. <<Expect("ident"), Call(Here)>> \in Seq(Freely)
    BY <1>1, FreeMarks, FreeLists, Zenon DEF Free
  <2>2. "parse_decl" \in Free /\ 1 \in 0 .. 2 /\ Here # "eof"
    <3>1. Here \in Keywords
      BY <1>1
    <3>2. Here # "eof"
      BY <3>1, Zenon DEF Keywords
    <3>3. "parse_decl" \in Free /\ 1 \in 0 .. 2
      BY DEF Free
    <3> QED BY <3>2, <3>3
  <2>3. nodes' = nodes /\ no_struct_lit' = no_struct_lit
    BY <1>1 DEF Plain, tree
  <2> QED BY <1>1, <2>1, <2>2, <2>3, GroupsFree
<1> QED BY <1>1, Zenon DEF parse_decl, Error

\* Functions.
LEMMA Groups_parse_fn == Core /\ Tree /\ Groups /\ ~had_error /\ parse_fn /\ ~had_error' => Groups'
<1> SUFFICES ASSUME Core, Tree, Groups, ~had_error, parse_fn, ~had_error' PROVE Groups'
  OBVIOUS
<1>1. ASSUME Do("fn", 0, <<Expect("("), Call("params"), Expect(")"), Call("ret"), Call("parse_block")>>), Plain
      PROVE  Groups'
  <2>1. <<Expect("("), Call("params"), Expect(")"), Call("ret"), Call("parse_block")>> \in Seq(Freely)
    BY FreeMarks, FreeLists, Zenon DEF Free
  <2>2. "fn" \in Free /\ 0 \in 0 .. 2 /\ (0 # 0 => Here # "eof")
    BY DEF Free
  <2>3. nodes' = nodes /\ no_struct_lit' = no_struct_lit
    BY <1>1 DEF Plain, tree
  <2> QED BY <1>1, <2>1, <2>2, <2>3, GroupsFree
<1>2. ASSUME Do("params", 0, <<>>), Plain
      PROVE  Groups'
  <2>1. <<>> \in Seq(Freely)
    BY FreeMarks, FreeLists, Zenon DEF Free
  <2>2. "params" \in Free /\ 0 \in 0 .. 2 /\ (0 # 0 => Here # "eof")
    BY DEF Free
  <2>3. nodes' = nodes /\ no_struct_lit' = no_struct_lit
    BY <1>2 DEF Plain, tree
  <2> QED BY <1>2, <2>1, <2>2, <2>3, GroupsFree
<1>3. ASSUME Do("params", 0, <<Call("param"), Call("more_params")>>), Plain
      PROVE  Groups'
  <2>1. <<Call("param"), Call("more_params")>> \in Seq(Freely)
    BY FreeMarks, FreeLists, Zenon DEF Free
  <2>2. "params" \in Free /\ 0 \in 0 .. 2 /\ (0 # 0 => Here # "eof")
    BY DEF Free
  <2>3. nodes' = nodes /\ no_struct_lit' = no_struct_lit
    BY <1>3 DEF Plain, tree
  <2> QED BY <1>3, <2>1, <2>2, <2>3, GroupsFree
<1>4. ASSUME Do("param", 0, <<Expect("ident"), Expect(":"), Call("parse_type")>>), Plain
      PROVE  Groups'
  <2>1. <<Expect("ident"), Expect(":"), Call("parse_type")>> \in Seq(Freely)
    BY FreeMarks, FreeLists, Zenon DEF Free
  <2>2. "param" \in Free /\ 0 \in 0 .. 2 /\ (0 # 0 => Here # "eof")
    BY DEF Free
  <2>3. nodes' = nodes /\ no_struct_lit' = no_struct_lit
    BY <1>4 DEF Plain, tree
  <2> QED BY <1>4, <2>1, <2>2, <2>3, GroupsFree
<1>5. ASSUME Here = ",",
             Do("more_params", 1, <<Call("param"), Call("more_params")>>), Plain
      PROVE  Groups'
  <2>1. <<Call("param"), Call("more_params")>> \in Seq(Freely)
    BY FreeMarks, FreeLists, Zenon DEF Free
  <2>2. "more_params" \in Free /\ 1 \in 0 .. 2 /\ Here # "eof"
    <3>1. Here = ","
      BY <1>5
    <3>2. Here # "eof"
      BY <3>1, Zenon DEF Keywords
    <3>3. "more_params" \in Free /\ 1 \in 0 .. 2
      BY DEF Free
    <3> QED BY <3>2, <3>3
  <2>3. nodes' = nodes /\ no_struct_lit' = no_struct_lit
    BY <1>5 DEF Plain, tree
  <2> QED BY <1>5, <2>1, <2>2, <2>3, GroupsFree
<1>6. ASSUME Do("more_params", 0, <<>>), Plain
      PROVE  Groups'
  <2>1. <<>> \in Seq(Freely)
    BY FreeMarks, FreeLists, Zenon DEF Free
  <2>2. "more_params" \in Free /\ 0 \in 0 .. 2 /\ (0 # 0 => Here # "eof")
    BY DEF Free
  <2>3. nodes' = nodes /\ no_struct_lit' = no_struct_lit
    BY <1>6 DEF Plain, tree
  <2> QED BY <1>6, <2>1, <2>2, <2>3, GroupsFree
<1>7. ASSUME Here = "->",
             Do("ret", 1, <<Call("parse_type")>>), Plain
      PROVE  Groups'
  <2>1. <<Call("parse_type")>> \in Seq(Freely)
    BY FreeMarks, FreeLists, Zenon DEF Free
  <2>2. "ret" \in Free /\ 1 \in 0 .. 2 /\ Here # "eof"
    <3>1. Here = "->"
      BY <1>7
    <3>2. Here # "eof"
      BY <3>1, Zenon DEF Keywords
    <3>3. "ret" \in Free /\ 1 \in 0 .. 2
      BY DEF Free
    <3> QED BY <3>2, <3>3
  <2>3. nodes' = nodes /\ no_struct_lit' = no_struct_lit
    BY <1>7 DEF Plain, tree
  <2> QED BY <1>7, <2>1, <2>2, <2>3, GroupsFree
<1>8. ASSUME Do("ret", 0, <<>>), Plain
      PROVE  Groups'
  <2>1. <<>> \in Seq(Freely)
    BY FreeMarks, FreeLists, Zenon DEF Free
  <2>2. "ret" \in Free /\ 0 \in 0 .. 2 /\ (0 # 0 => Here # "eof")
    BY DEF Free
  <2>3. nodes' = nodes /\ no_struct_lit' = no_struct_lit
    BY <1>8 DEF Plain, tree
  <2> QED BY <1>8, <2>1, <2>2, <2>3, GroupsFree
<1> QED BY <1>1, <1>2, <1>3, <1>4, <1>5, <1>6, <1>7, <1>8, Zenon DEF parse_fn

\* Structs.
LEMMA Groups_parse_struct == Core /\ Tree /\ Groups /\ ~had_error /\ parse_struct /\ ~had_error' => Groups'
<1> SUFFICES ASSUME Core, Tree, Groups, ~had_error, parse_struct, ~had_error' PROVE Groups'
  OBVIOUS
<1>1. ASSUME Do("struct", 0, <<Expect("{"), Call("members"), Expect("}")>>), Plain
      PROVE  Groups'
  <2>1. <<Expect("{"), Call("members"), Expect("}")>> \in Seq(Freely)
    BY FreeMarks, FreeLists, Zenon DEF Free
  <2>2. "struct" \in Free /\ 0 \in 0 .. 2 /\ (0 # 0 => Here # "eof")
    BY DEF Free
  <2>3. nodes' = nodes /\ no_struct_lit' = no_struct_lit
    BY <1>1 DEF Plain, tree
  <2> QED BY <1>1, <2>1, <2>2, <2>3, GroupsFree
<1>2. ASSUME Do("members", 0, <<>>), Plain
      PROVE  Groups'
  <2>1. <<>> \in Seq(Freely)
    BY FreeMarks, FreeLists, Zenon DEF Free
  <2>2. "members" \in Free /\ 0 \in 0 .. 2 /\ (0 # 0 => Here # "eof")
    BY DEF Free
  <2>3. nodes' = nodes /\ no_struct_lit' = no_struct_lit
    BY <1>2 DEF Plain, tree
  <2> QED BY <1>2, <2>1, <2>2, <2>3, GroupsFree
<1>3. ASSUME Do("members", 0, <<Call("parse_attr_list"), Call("invariants"), Call("members")>>),
             UNCHANGED <<no_struct_lit, nodes>>
      PROVE  Groups'
  <2>1. <<Call("parse_attr_list"), Call("invariants"), Call("members")>> \in Seq(Freely)
    BY FreeMarks, FreeLists, Zenon DEF Free
  <2>2. "members" \in Free /\ 0 \in 0 .. 2 /\ (0 # 0 => Here # "eof")
    BY DEF Free
  <2>3. nodes' = nodes /\ no_struct_lit' = no_struct_lit
    BY <1>3 DEF Plain, tree
  <2> QED BY <1>3, <2>1, <2>2, <2>3, GroupsFree
<1>4. ASSUME Do("invariants", 0, <<>>), UNCHANGED <<no_struct_lit, nodes>>
      PROVE  Groups'
  <2>1. <<>> \in Seq(Freely)
    BY FreeMarks, FreeLists, Zenon DEF Free
  <2>2. "invariants" \in Free /\ 0 \in 0 .. 2 /\ (0 # 0 => Here # "eof")
    BY DEF Free
  <2>3. nodes' = nodes /\ no_struct_lit' = no_struct_lit
    BY <1>4 DEF Plain, tree
  <2> QED BY <1>4, <2>1, <2>2, <2>3, GroupsFree
<1>5. ASSUME Do("members", 0,
                <<Expect("ident"), Expect(":"), Call("parse_type"), Optional(","), Call("members")>>), Plain
      PROVE  Groups'
  <2>1. <<Expect("ident"), Expect(":"), Call("parse_type"), Optional(","), Call("members")>> \in Seq(Freely)
    BY FreeMarks, FreeLists, Zenon DEF Free
  <2>2. "members" \in Free /\ 0 \in 0 .. 2 /\ (0 # 0 => Here # "eof")
    BY DEF Free
  <2>3. nodes' = nodes /\ no_struct_lit' = no_struct_lit
    BY <1>5 DEF Plain, tree
  <2> QED BY <1>5, <2>1, <2>2, <2>3, GroupsFree
<1> QED BY <1>1, <1>2, <1>3, <1>4, <1>5, Zenon DEF parse_struct, parse_struct_list

\* Aliases.
LEMMA Groups_parse_type_alias ==
  Core /\ Tree /\ Groups /\ ~had_error /\ parse_type_alias /\ ~had_error' => Groups'
<1> SUFFICES ASSUME Core, Tree, Groups, ~had_error, parse_type_alias, ~had_error' PROVE Groups'
  OBVIOUS
<1>1. ASSUME Do("type", 0, <<Expect("="), Call("parse_type")>>), Plain
      PROVE  Groups'
  <2>1. <<Expect("="), Call("parse_type")>> \in Seq(Freely)
    BY FreeMarks, FreeLists, Zenon DEF Free
  <2>2. "type" \in Free /\ 0 \in 0 .. 2 /\ (0 # 0 => Here # "eof")
    BY DEF Free
  <2>3. nodes' = nodes /\ no_struct_lit' = no_struct_lit
    BY <1>1 DEF Plain, tree
  <2> QED BY <1>1, <2>1, <2>2, <2>3, GroupsFree
<1> QED BY <1>1, Zenon DEF parse_type_alias

\* A module.
LEMMA Groups_parse_module == Core /\ Tree /\ Groups /\ ~had_error /\ parse_module /\ ~had_error' => Groups'
<1> SUFFICES ASSUME Core, Tree, Groups, ~had_error, parse_module, ~had_error' PROVE Groups'
  OBVIOUS
<1>1. ASSUME Here = "module",
             Do("parse_module", 1, <<Expect("ident"), Optional(";")>> \o <<Call("imports"), Call("decls")>>),
             Plain
      PROVE  Groups'
  <2>1. <<Expect("ident"), Optional(";")>> \o <<Call("imports"), Call("decls")>> \in Seq(Freely)
    <3>1. <<Expect("ident"), Optional(";")>> \in Seq(Freely)
          /\ <<Call("imports"), Call("decls")>> \in Seq(Freely)
      BY FreeMarks, FreeLists, Zenon DEF Free
    <3> QED BY <3>1, ConcatProperties
  <2>2. "parse_module" \in Free /\ 1 \in 0 .. 2 /\ Here # "eof"
    <3>1. Here = "module"
      BY <1>1
    <3>2. Here # "eof"
      BY <3>1, Zenon DEF Keywords
    <3>3. "parse_module" \in Free /\ 1 \in 0 .. 2
      BY DEF Free
    <3> QED BY <3>2, <3>3
  <2>3. nodes' = nodes /\ no_struct_lit' = no_struct_lit
    BY <1>1 DEF Plain, tree
  <2> QED BY <1>1, <2>1, <2>2, <2>3, GroupsFree
<1>2. ASSUME Do("parse_module", 0, <<>> \o <<Call("imports"), Call("decls")>>), Plain
      PROVE  Groups'
  <2>1. <<>> \o <<Call("imports"), Call("decls")>> \in Seq(Freely)
    <3>1. <<>> \in Seq(Freely) /\ <<Call("imports"), Call("decls")>> \in Seq(Freely)
      BY FreeMarks, FreeLists, Zenon DEF Free
    <3> QED BY <3>1, ConcatProperties
  <2>2. "parse_module" \in Free /\ 0 \in 0 .. 2 /\ (0 # 0 => Here # "eof")
    BY DEF Free
  <2>3. nodes' = nodes /\ no_struct_lit' = no_struct_lit
    BY <1>2 DEF Plain, tree
  <2> QED BY <1>2, <2>1, <2>2, <2>3, GroupsFree
<1>3. ASSUME Here = "import",
             Do("imports", 1, <<Expect("ident"), Optional(";"), Call("imports")>>), Plain
      PROVE  Groups'
  <2>1. <<Expect("ident"), Optional(";"), Call("imports")>> \in Seq(Freely)
    BY FreeMarks, FreeLists, Zenon DEF Free
  <2>2. "imports" \in Free /\ 1 \in 0 .. 2 /\ Here # "eof"
    <3>1. Here = "import"
      BY <1>3
    <3>2. Here # "eof"
      BY <3>1, Zenon DEF Keywords
    <3>3. "imports" \in Free /\ 1 \in 0 .. 2
      BY DEF Free
    <3> QED BY <3>2, <3>3
  <2>3. nodes' = nodes /\ no_struct_lit' = no_struct_lit
    BY <1>3 DEF Plain, tree
  <2> QED BY <1>3, <2>1, <2>2, <2>3, GroupsFree
<1>4. ASSUME Do("imports", 0, <<>>), Plain
      PROVE  Groups'
  <2>1. <<>> \in Seq(Freely)
    BY FreeMarks, FreeLists, Zenon DEF Free
  <2>2. "imports" \in Free /\ 0 \in 0 .. 2 /\ (0 # 0 => Here # "eof")
    BY DEF Free
  <2>3. nodes' = nodes /\ no_struct_lit' = no_struct_lit
    BY <1>4 DEF Plain, tree
  <2> QED BY <1>4, <2>1, <2>2, <2>3, GroupsFree
<1>5. ASSUME Do("decls", 0, <<Call("parse_attr_list"), Call("parse_decl"), Call("decls")>>),
             UNCHANGED <<no_struct_lit, nodes>>
      PROVE  Groups'
  <2>1. <<Call("parse_attr_list"), Call("parse_decl"), Call("decls")>> \in Seq(Freely)
    BY FreeMarks, FreeLists, Zenon DEF Free
  <2>2. "decls" \in Free /\ 0 \in 0 .. 2 /\ (0 # 0 => Here # "eof")
    BY DEF Free
  <2>3. nodes' = nodes /\ no_struct_lit' = no_struct_lit
    BY <1>5 DEF Plain, tree
  <2> QED BY <1>5, <2>1, <2>2, <2>3, GroupsFree
<1>6. ASSUME Do("decls", 0, <<>>), Plain
      PROVE  Groups'
  <2>1. <<>> \in Seq(Freely)
    BY FreeMarks, FreeLists, Zenon DEF Free
  <2>2. "decls" \in Free /\ 0 \in 0 .. 2 /\ (0 # 0 => Here # "eof")
    BY DEF Free
  <2>3. nodes' = nodes /\ no_struct_lit' = no_struct_lit
    BY <1>6 DEF Plain, tree
  <2> QED BY <1>6, <2>1, <2>2, <2>3, GroupsFree
<1> QED BY <1>1, <1>2, <1>3, <1>4, <1>5, <1>6, Zenon DEF parse_module

\* What no call would read as an operand.
LEMMA ReadIs ==
  /\ \A p : toks[p] \in Stops \cup Continues \cup Dividers \cup DOMAIN Prec => ~Unread(p)
  /\ \A p : toks[p] \in Brace /\ ~OpensLiteral(p) => ~Unread(p)
<1>1. \A k \in Stops \cup Continues \cup Dividers : k \notin Idents \cup Literals \cup {"!", "~"}
                                                    /\ k \notin Brace
  BY Zenon DEF Stops, Continues, Dividers, Idents, Literals, Brace
<1>2. \A k \in DOMAIN Prec : k \notin Idents \cup Literals \cup {"!", "~"} /\ k \notin Brace
  BY PrecIs, Zenon DEF Idents, Literals, Brace
<1>3. \A k \in Brace : k \notin Idents \cup Literals \cup {"!", "~"}
  BY Zenon DEF Idents, Literals, Brace
<1> QED BY <1>1, <1>2, <1>3, LiteralIs, Zenon DEF Unread

\* The token that is expected.
LEMMA GoesExpect ==
  ASSUME NEW s, NEW p \in At, NEW c \in Nat, IsA(toks[p], s)
  PROVE  Goes(Expect(s), p, c, 1, <<>>, c)
<1>1. ASSUME NEW k \in {0, 1}, NEW T \in SUBSET Points, Safe(Expect(s), p, c, k, T)
      PROVE  ~(k = 1 /\ Unread(p)) /\ Through(<<>>, p + 1, c, 0, T)
  <2>1. (k = 1 => s \in Stops \/ (s \in Brace /\ ~OpensLiteral(p))) /\ Through(<<>>, p + 1, c, 0, T)
    BY <1>1, ExpectMade
  <2>2. \A t \in Stops \cup Brace : t # "ident"
    BY Zenon DEF Stops, Brace
  <2>3. k = 1 => toks[p] = s
    BY <2>1, <2>2, IsAIs, Zenon
  <2> QED BY <2>1, <2>3, ReadIs
<1>2. 1 \in 1 .. 2
  OBVIOUS
<1> QED BY <1>1, <1>2, ListedAre, GoesOn

\* The token that there may be.
LEMMA GoesMatch ==
  ASSUME NEW s, NEW p \in At, NEW c \in Nat, NEW n, n = IF IsA(toks[p], s) THEN 1 ELSE 0
  PROVE  Goes(Optional(s), p, c, n, <<>>, c)
<1>1. ASSUME NEW k \in {0, 1}, NEW T \in SUBSET Points, Safe(Optional(s), p, c, k, T)
      PROVE  k = 0 /\ Through(<<>>, IF IsA(toks[p], s) THEN p + 1 ELSE p, c, 0, T)
  BY <1>1, OptionalMade
<1>2. CASE IsA(toks[p], s)
  <2>1. n = 1 /\ 1 \in 1 .. 2
    BY <1>2
  <2>2. \A k \in {0, 1}, T \in SUBSET Points :
          Safe(Optional(s), p, c, k, T) => ~(k = 1 /\ Unread(p)) /\ Through(<<>>, p + 1, c, 0, T)
    BY <1>1, <1>2
  <2> QED BY <2>1, <2>2, ListedAre, GoesOn
<1>3. CASE ~IsA(toks[p], s)
  <2>1. n = 0
    BY <1>3
  <2>2. \A k \in {0, 1}, T \in SUBSET Points : Safe(Optional(s), p, c, k, T) => Through(<<>>, p, c, k, T)
    BY <1>1, <1>3
  <2> QED BY <2>1, <2>2, ListedAre, GoesStay
<1> QED BY <1>2, <1>3

\* What is expected ends no text.
LEMMA WantMore ==
  ASSUME Core, NEW f \in {"expect", "match"}, Doing(f), IsA(Here, Arg)
  PROVE  Here # "eof"
<1>1. Arg \in FlatKinds \cup Brackets
  BY HeadArg
<1>2. "eof" \notin FlatKinds \cup Brackets /\ "eof" \notin Idents
  BY BracketsAre, Zenon DEF FlatKinds, Brackets, Idents
<1> QED BY <1>1, <1>2, IsAIs, Zenon

\* Tokens that are expected.
LEMMA Groups_expect == Core /\ Tree /\ Groups /\ ~had_error /\ (expect \/ match) /\ ~had_error' => Groups'
<1> SUFFICES ASSUME Core, Tree, Groups, ~had_error, expect \/ match, ~had_error' PROVE Groups'
  OBVIOUS
<1>0. pos \in At /\ no_struct_lit \in Nat
  BY TextAt DEF Core, At
<1>1. ASSUME Do("expect", 1, <<>>), IsA(Here, Arg), Plain PROVE Groups'
  <2>1. PICK s : s = Arg /\ todo[1] = Expect(s)
    BY <1>1, HeadArg, Zenon DEF Do, Expect
  <2>2. Goes(Expect(s), pos, no_struct_lit, 1, <<>>, no_struct_lit)
    BY <1>0, <1>1, <2>1, GoesExpect DEF Here
  <2>3. Here # "eof" /\ 1 \in 0 .. 2
    BY <1>1, WantMore DEF Do
  <2>4. nodes' = nodes /\ no_struct_lit' = no_struct_lit
    BY <1>1 DEF Plain, tree
  <2> QED BY <1>0, <1>1, <2>1, <2>2, <2>3, <2>4, GroupsMove
<1>2. ASSUME Do("match", IF IsA(Here, Arg) THEN 1 ELSE 0, <<>>), Plain PROVE Groups'
  <2>1. PICK s : s = Arg /\ todo[1] = Optional(s)
    BY <1>2, HeadArg, Zenon DEF Do, Optional
  <2>2. PICK n \in 0 .. 2 : n = IF IsA(Here, Arg) THEN 1 ELSE 0
    OBVIOUS
  <2>3. Goes(Optional(s), pos, no_struct_lit, n, <<>>, no_struct_lit)
    BY <1>0, <2>1, <2>2, GoesMatch DEF Here
  <2>4. n # 0 => Here # "eof"
    BY <1>2, <2>2, WantMore DEF Do
  <2>5. nodes' = nodes /\ no_struct_lit' = no_struct_lit
    BY <1>2 DEF Plain, tree
  <2>6. Do("match", n, <<>>)
    BY <1>2, <2>2
  <2> QED BY <1>0, <2>1, <2>3, <2>4, <2>5, <2>6, GroupsMove
<1> QED BY <1>1, <1>2, Zenon DEF expect, match, Error

\* What puts a condition in force, and takes it away.
LEMMA Groups_condition == Core /\ Tree /\ Groups /\ ~had_error /\ (suppress \/ release) /\ Core' => Groups'
<1> SUFFICES ASSUME Core, Tree, Groups, ~had_error, suppress \/ release, Core' PROVE Groups'
  OBVIOUS
<1>0. pos \in At /\ no_struct_lit \in Nat /\ no_struct_lit' \in Nat /\ 0 \in 0 .. 2
  BY TextAt DEF Core, At
<1>1. PICK c \in Nat, d \in Nat : c = no_struct_lit /\ d = no_struct_lit'
  BY <1>0
<1>2. ASSUME Do("suppress", 0, <<>>), no_struct_lit' = no_struct_lit + 1, nodes' = nodes PROVE Groups'
  <2>1. PICK t : t = <<"suppress", Arg>> /\ todo[1] = t
    BY <1>2, HeadArg DEF Do
  <2>2. d = c + 1
    BY <1>1, <1>2
  <2>3. \A k \in {0, 1}, T \in SUBSET Points : Safe(t, pos, c, k, T) => Through(<<>>, pos, c + 1, k, T)
    BY <1>0, <2>1, SuppressMade
  <2>4. Goes(t, pos, c, 0, <<>>, d)
    BY <1>0, <2>2, <2>3, ListedAre, GoesStay
  <2> QED BY <1>0, <1>1, <1>2, <2>1, <2>4, GroupsMove
<1>3. ASSUME Do("release", 0, <<>>), no_struct_lit' = no_struct_lit - 1, nodes' = nodes PROVE Groups'
  <2>1. PICK t : t = <<"release", Arg>> /\ todo[1] = t
    BY <1>3, HeadArg DEF Do
  <2>2. d = c - 1 /\ c - 1 \in Nat
    BY <1>1, <1>3
  <2>3. \A k \in {0, 1}, T \in SUBSET Points : Safe(t, pos, c, k, T) => Through(<<>>, pos, c - 1, k, T)
    BY <1>0, <2>1, <2>2, SuppressMade
  <2>4. Goes(t, pos, c, 0, <<>>, d)
    BY <1>0, <2>2, <2>3, ListedAre, GoesStay
  <2> QED BY <1>0, <1>1, <1>3, <2>1, <2>4, GroupsMove
<1>4. ASSUME Do("restore", 0, <<>>), no_struct_lit' = Arg, nodes' = nodes PROVE Groups'
  <2>1. PICK t : t = <<"restore", Arg>> /\ todo[1] = t
    BY <1>4, HeadArg DEF Do
  <2>2. d = Arg /\ Arg \in Nat
    BY <1>1, <1>4
  <2>3. \A k \in {0, 1}, T \in SUBSET Points : Safe(t, pos, c, k, T) => Through(<<>>, pos, d, k, T)
    BY <1>0, <2>1, <2>2, SuppressMade
  <2>4. Goes(t, pos, c, 0, <<>>, d)
    BY <1>0, <2>3, ListedAre, GoesStay
  <2> QED BY <1>0, <1>1, <1>4, <2>1, <2>4, GroupsMove
<1> QED BY <1>2, <1>3, <1>4, Zenon DEF suppress, release, tree

\* The rest of a type.
LEMMA TypeOn ==
  ASSUME NEW p \in At, NEW r \in At, NEW c \in Nat, NEW k \in {0, 1}, NEW T \in SUBSET Points, Calm(p, r),
         p <= r,
         Safe(Call("parse_type"), p, c, k, T), NEW v, Behind(v, Call("parse_type"), <<>>)
  PROVE  Through(v, r, c, 0, T)
<1>1. \A q \in At : Calm(p, q) /\ p < q /\ toks[q - 1] \in Idents => Through(<<>>, q, c, 0, T)
  BY TypeMade
<1>2. ASSUME NEW q \in At, Calm(r, q) /\ r < q /\ toks[q - 1] \in Idents PROVE Through(<<>>, q, c, 0, T)
  <2>1. Calm(p, q)
    BY <1>2, CalmTwo
  <2>2. p < q
    BY <1>2 DEF At
  <2> QED BY <1>1, <1>2, <2>1, <2>2
<1> QED BY <1>2, TypeMake

\* A pointer.
LEMMA GoesPointer ==
  ASSUME NEW p \in At, NEW c \in Nat, toks[p] = "*"
  PROVE  Goes(Call("parse_type"), p, c, 1, <<Call("parse_type")>>, c)
<1>1. Calm(p, p + 1) /\ p <= p + 1 /\ p + 1 \in At
  <2>1. toks[p] \notin Brackets \cup Conditions \cup Ending
    BY KindsIn, PrecIs
  <2> QED BY <2>1, CalmOne, Nearby
<1>2. ASSUME NEW k \in {0, 1}, NEW T \in SUBSET Points, Safe(Call("parse_type"), p, c, k, T)
      PROVE  ~(k = 1 /\ Unread(p)) /\ Through(<<Call("parse_type")>>, p + 1, c, 0, T)
  <2>1. k = 0
    BY <1>2, TypeMade
  <2>2. Through(<<Call("parse_type")>>, p + 1, c, 0, T)
    BY <1>1, <1>2, TypeOn, Behinds
  <2> QED BY <2>1, <2>2
<1>3. 1 \in 1 .. 2
  OBVIOUS
<1> QED BY <1>2, <1>3, ListedAre, GoesOn

\* A slice.
LEMMA GoesSlice ==
  ASSUME NEW p \in At, NEW c \in Nat, toks[p] = "[", toks[p + 1] = "]"
  PROVE  Goes(Call("parse_type"), p, c, 2, <<Call("parse_type")>>, c)
<1>1. Calm(p, p + 2) /\ p <= p + 2 /\ p + 2 \in At
  <2>1. Flush(p + 1, p + 1) /\ p + 1 \in At /\ (p + 1) + 1 = p + 2
    BY Nearby, FlushNone
  <2>2. toks[p] \in Openers /\ toks[p + 1] \in Closers
    BY BracketsAre
  <2>3. Calm(p, (p + 1) + 1)
    BY <2>1, <2>2, CalmIn
  <2>4. p <= p + 2
    BY DEF At
  <2> QED BY <2>1, <2>3, <2>4, Nearby
<1>2. ASSUME NEW k \in {0, 1}, NEW T \in SUBSET Points, Safe(Call("parse_type"), p, c, k, T)
      PROVE  ~(k = 1 /\ Unread(p)) /\ Through(<<Call("parse_type")>>, p + 2, c, 0, T)
  <2>1. k = 0
    BY <1>2, TypeMade
  <2>2. Through(<<Call("parse_type")>>, p + 2, c, 0, T)
    BY <1>1, <1>2, TypeOn, Behinds
  <2> QED BY <2>1, <2>2
<1>3. 2 \in 1 .. 2
  OBVIOUS
<1> QED BY <1>2, <1>3, ListedAre, GoesOn

\* An array.
LEMMA GoesArray ==
  ASSUME NEW p \in At, NEW c \in Nat, toks[p] = "["
  PROVE  Goes(Call("parse_type"), p, c, 1, <<Expect("int"), Expect("]"), Call("parse_type")>>, c)
<1>1. PICK s, u, a, b, d : /\ s = "int" /\ u = "]" /\ a = Expect(s) /\ b = Expect(u) /\ d = Call("parse_type")
                           /\ s \in Signs /\ u \in Signs /\ s \in Literals
  BY Zenon DEF Signs, Literals
<1>2. Behind(<<a, b, d>>, a, <<b, d>>) /\ Behind(<<b, d>>, b, <<d>>) /\ Behind(<<d>>, d, <<>>)
      /\ Listed(<<a, b, d>>)
  BY Behinds, ListedAre
<1>3. p + 1 \in At /\ p + 2 \in At /\ p + 3 \in At /\ (p + 1) + 1 = p + 2 /\ (p + 2) + 1 = p + 3 /\ p <= p + 3
  BY Nearby DEF At
<1>4. ASSUME NEW k \in {0, 1}, NEW T \in SUBSET Points, Safe(Call("parse_type"), p, c, k, T)
      PROVE  ~(k = 1 /\ Unread(p)) /\ Through(<<a, b, d>>, p + 1, c, 0, T)
  <2>1. k = 0
    BY <1>4, TypeMade
  <2>2. ASSUME toks[p + 1] = s, toks[p + 2] = u PROVE Through(<<d>>, p + 3, c, 0, T)
    <3>1. Flush(p + 1, p + 2)
      <4>1. toks[p + 1] \notin Brackets
        BY <1>1, <2>2, KindsIn
      <4>2. Flush(p + 1, (p + 1) + 1)
        BY <1>3, <4>1, FlushOne
      <4> QED BY <1>3, <4>2
    <3>2. toks[p] \in Openers /\ toks[p + 2] \in Closers
      BY <1>1, <2>2, BracketsAre
    <3>3. Calm(p, (p + 2) + 1)
      BY <1>3, <3>1, <3>2, CalmIn
    <3>4. Calm(p, p + 3)
      BY <1>3, <3>3
    <3> QED BY <1>1, <1>2, <1>3, <1>4, <3>4, TypeOn
  <2>3. ASSUME toks[p + 1] = s PROVE Through(<<b, d>>, p + 2, c, 0, T)
    <3>1. toks[p + 2] = u => Through(<<d>>, (p + 2) + 1, c, 0, T)
      BY <1>3, <2>2, <2>3
    <3> QED BY <1>1, <1>2, <1>3, <3>1, ThenSign
  <2>4. Through(<<a, b, d>>, p + 1, c, 0, T)
    <3>1. toks[p + 1] = s => Through(<<b, d>>, (p + 1) + 1, c, 0, T)
      BY <1>3, <2>3
    <3> QED BY <1>1, <1>2, <1>3, <3>1, ThenSign
  <2> QED BY <2>1, <2>4
<1>5. 1 \in 1 .. 2
  OBVIOUS
<1>6. Goes(Call("parse_type"), p, c, 1, <<a, b, d>>, c)
  BY <1>2, <1>4, <1>5, GoesOn
<1> QED BY <1>1, <1>6, Zenon

\* A name.
LEMMA GoesNamed ==
  ASSUME NEW p \in At, NEW c \in Nat, toks[p] \in Idents
  PROVE  Goes(Call("parse_type"), p, c, 1, <<>>, c)
<1>1. Calm(p, p + 1) /\ p < p + 1 /\ p + 1 \in At /\ toks[(p + 1) - 1] \in Idents
  BY CalmOne, KindsIn, Nearby
<1>2. ASSUME NEW k \in {0, 1}, NEW T \in SUBSET Points, Safe(Call("parse_type"), p, c, k, T)
      PROVE  ~(k = 1 /\ Unread(p)) /\ Through(<<>>, p + 1, c, 0, T)
  BY <1>1, <1>2, TypeMade
<1>3. 1 \in 1 .. 2
  OBVIOUS
<1> QED BY <1>2, <1>3, ListedAre, GoesOn

\* Types.
LEMMA Groups_parse_type == Core /\ Tree /\ Groups /\ ~had_error /\ parse_type /\ ~had_error' => Groups'
<1> SUFFICES ASSUME Core, Tree, Groups, ~had_error, parse_type, ~had_error' PROVE Groups'
  OBVIOUS
<1>0. /\ pos \in At /\ no_struct_lit \in Nat /\ "parse_type" \in CallNames /\ 1 \in 0 .. 2 /\ 2 \in 0 .. 2
  BY TextAt DEF Core, At, CallNames
<1>1. ASSUME Here = "*", Do("parse_type", 1, <<Call("parse_type")>>), Plain PROVE Groups'
  <2>1. Goes(Call("parse_type"), pos, no_struct_lit, 1, <<Call("parse_type")>>, no_struct_lit)
    BY <1>0, <1>1, GoesPointer DEF Here
  <2> QED BY <1>0, <1>1, <2>1, GroupsCall
<1>2. ASSUME Here = "[", Ahead(1) = "]", Do("parse_type", 2, <<Call("parse_type")>>), Plain PROVE Groups'
  <2>1. Goes(Call("parse_type"), pos, no_struct_lit, 2, <<Call("parse_type")>>, no_struct_lit)
    BY <1>0, <1>2, GoesSlice DEF Here, Ahead
  <2> QED BY <1>0, <1>2, <2>1, GroupsCall
<1>3. ASSUME Here = "[", Do("parse_type", 1, <<Expect("int"), Expect("]"), Call("parse_type")>>), Plain
      PROVE  Groups'
  <2>1. Goes(Call("parse_type"), pos, no_struct_lit, 1, <<Expect("int"), Expect("]"), Call("parse_type")>>,
        no_struct_lit)
    BY <1>0, <1>3, GoesArray DEF Here
  <2> QED BY <1>0, <1>3, <2>1, GroupsCall
<1>4. ASSUME Here \in Idents, Do("parse_type", 1, <<>>), Plain PROVE Groups'
  <2>1. Goes(Call("parse_type"), pos, no_struct_lit, 1, <<>>, no_struct_lit)
    BY <1>0, <1>4, GoesNamed DEF Here
  <2>2. Here # "eof"
    BY <1>4 DEF Idents
  <2> QED BY <1>0, <1>4, <2>1, <2>2, GroupsCall
<1> QED BY <1>1, <1>2, <1>3, <1>4, Zenon DEF parse_type, Error

\* A name or a literal.
LEMMA GoesToken ==
  ASSUME NEW p \in At, NEW c \in Nat, toks[p] \in Idents \cup Literals
  PROVE  Goes(Call("parse_primary"), p, c, 1, <<>>, c)
<1>1. Span(p, p + 1, UNARY) /\ p + 1 \in At
  BY SpanToken, Nearby
<1>2. ASSUME NEW k \in {0, 1}, NEW T \in SUBSET Points, Safe(Call("parse_primary"), p, c, k, T)
      PROVE  ~(k = 1 /\ Unread(p)) /\ Through(<<>>, p + 1, c, 0, T)
  BY <1>1, <1>2, PrimaryMade
<1>3. 1 \in 1 .. 2
  OBVIOUS
<1> QED BY <1>2, <1>3, ListedAre, GoesOn

\* What old is applied to.
LEMMA GoesOld ==
  ASSUME NEW p \in At, NEW c \in Nat, toks[p] \in Idents, toks[p + 1] = "("
  PROVE  Goes(Call("parse_primary"), p, c, 2, <<parse_expr, Expect(")")>>, c)
<1>1. PICK a, b, s : a = parse_expr /\ s = ")" /\ b = Expect(s) /\ s \in Stops \cap Signs
  BY Zenon DEF Stops, Signs
<1>2. Behind(<<a, b>>, a, <<b>>) /\ Behind(<<b>>, b, <<>>) /\ Listed(<<a, b>>)
  BY Behinds, ListedAre
<1>3. /\ p + 1 \in At /\ p + 2 \in At /\ (p + 1) + 1 = p + 2
      /\ Fence(p + 2, ASSIGN) /\ ~Conditional(p + 2) /\ Span(p, p + 1, UNARY)
  <2>1. Fresh((p + 1) + 1)
    BY Nearby, FreshIn
  <2> QED BY <2>1, Nearby, SpanToken DEF Fresh
<1>4. ASSUME NEW k \in {0, 1}, NEW T \in SUBSET Points, Safe(Call("parse_primary"), p, c, k, T)
      PROVE  ~(k = 1 /\ Unread(p)) /\ Through(<<a, b>>, p + 2, c, 0, T)
  <2>1. k = 0 /\ \A q \in At, j \in {0, 1} : Span(p, q, UNARY) => Through(<<>>, q, c, j, T)
    BY <1>4, PrimaryMade
  <2>2. ASSUME NEW q \in At, NEW j \in {0, 1}, Span(p + 2, q, ASSIGN) PROVE Through(<<b>>, q, c, j, T)
    <3>1. ASSUME toks[q] = s PROVE Through(<<>>, q + 1, c, 0, T)
      <4>1. Flush((p + 1) + 1, q) /\ q + 1 \in At
        BY <1>3, <2>2, SpanFlush, Nearby
      <4>2. toks[p + 1] \in {"(", "["} /\ toks[q] \in {")", "]"}
        BY <1>1, <3>1
      <4>3. Span(p + 1, q + 1, UNARY)
        BY <1>3, <4>1, <4>2, SpanBracket
      <4>4. Span(p, q + 1, UNARY)
        BY <1>3, <4>1, <4>3, SpanTwo
      <4> QED BY <2>1, <4>1, <4>4
    <3> QED BY <1>1, <1>2, <3>1, ThenStop
  <2> QED BY <1>1, <1>2, <1>3, <2>1, <2>2, ThenExpr
<1>5. 2 \in 1 .. 2
  OBVIOUS
<1>6. Goes(Call("parse_primary"), p, c, 2, <<a, b>>, c)
  BY <1>2, <1>4, <1>5, GoesOn
<1> QED BY <1>1, <1>6, Zenon

\* A struct literal, outside of conditions.
LEMMA GoesLiteral ==
  ASSUME NEW p \in At, NEW s \in Unbrace,
         toks[p] \in Idents, toks[p + 1] \in Brace, toks[p + 2] \in Idents, toks[p + 3] = "="
  PROVE  Goes(Call("parse_primary"), p, 0, 2, <<Call("fields"), Expect(s)>>, 0)
<1>1. PICK a, b : a = Call("fields") /\ b = Expect(s) /\ s \in Stops \cap Signs
  BY SignsAre, Zenon
<1>2. Behind(<<a, b>>, a, <<b>>) /\ Behind(<<b>>, b, <<>>) /\ Listed(<<a, b>>)
  BY Behinds, ListedAre
<1>3. /\ p + 1 \in At /\ p + 2 \in At /\ (p + 1) + 1 = p + 2 /\ (p + 1) + 2 = p + 3 /\ (p + 1) - 1 = p
      /\ Span(p, p + 1, UNARY) /\ 0 \in Nat
  BY Nearby, SpanToken DEF At
<1>4. ~Conditional(p + 2)
  <2>1. Fresh((p + 1) + 1)
    BY <1>3, FreshBlock
  <2> QED BY <1>3, <2>1 DEF Fresh
<1>5. ASSUME NEW k \in {0, 1}, NEW T \in SUBSET Points, Safe(Call("parse_primary"), p, 0, k, T)
      PROVE  ~(k = 1 /\ Unread(p)) /\ Through(<<a, b>>, p + 2, 0, 0, T)
  <2>1. /\ k = 0 /\ \A q \in At, j \in {0, 1} : Span(p, q, UNARY) => Through(<<>>, q, 0, j, T)
        /\ ~Conditional(p)
    BY <1>3, <1>5, PrimaryMade
  <2>2. OpensLiteral(p + 1)
    <3>1. ~Conditional(p + 1)
      BY <1>3, <2>1 DEF Span
    <3>2. ~InCondition(p + 1)
      BY <1>3, <3>1, ConditionBrace
    <3>3. toks[(p + 1) - 1] \in Idents /\ toks[(p + 1) + 1] \in Idents /\ toks[(p + 1) + 2] = "="
      BY <1>3
    <3> QED BY <3>2, <3>3, LiteralIs
  <2>3. ASSUME NEW q \in At, NEW j \in {0, 1}, Calm(p + 2, q) PROVE Through(<<b>>, q, 0, j, T)
    <3>1. ASSUME toks[q] = s PROVE Through(<<>>, q + 1, 0, 0, T)
      <4>1. Flush((p + 1) + 1, q) /\ q + 1 \in At
        BY <1>3, <2>3, Nearby DEF Calm
      <4>2. Span(p + 1, q + 1, UNARY)
        BY <1>3, <2>2, <3>1, <4>1, SpanLiteral
      <4>3. Span(p, q + 1, UNARY)
        BY <1>3, <4>1, <4>2, SpanTwo
      <4> QED BY <2>1, <4>1, <4>3
    <3> QED BY <1>1, <1>2, <1>3, <3>1, ThenStop
  <2> QED BY <1>1, <1>2, <1>3, <1>4, <2>1, <2>3, FieldsMake
<1>6. 2 \in 1 .. 2
  OBVIOUS
<1>7. Goes(Call("parse_primary"), p, 0, 2, <<a, b>>, 0)
  BY <1>2, <1>5, <1>6, GoesOn
<1> QED BY <1>1, <1>7, Zenon

\* An operator in front of its operand.
LEMMA GoesUnary ==
  ASSUME NEW p \in At, NEW c \in Nat, toks[p] \in Unary
  PROVE  Goes(Call("parse_primary"), p, c, 1, <<Precedence(UNARY), <<"node", <<p, p>>>>>>, c)
<1>1. PICK m, a, b : m = UNARY /\ a = Precedence(m) /\ b = <<"node", <<p, p>>>>
  OBVIOUS
<1>2. Behind(<<a, b>>, a, <<b>>) /\ Behind(<<b>>, b, <<>>) /\ Listed(<<a, b>>)
  BY Behinds, ListedAre
<1>3. p + 1 \in At /\ Fence(p + 1, UNARY) /\ (Conditional(p + 1) <=> Conditional(p))
  BY Nearby, AfterUnary
<1>4. ASSUME NEW k \in {0, 1}, NEW T \in SUBSET Points, Safe(Call("parse_primary"), p, c, k, T)
      PROVE  ~(k = 1 /\ Unread(p)) /\ Through(<<a, b>>, p + 1, c, 0, T)
  <2>1. /\ k = 0 /\ \A q \in At, j \in {0, 1} : Span(p, q, UNARY) => Through(<<>>, q, c, j, T)
        /\ Fence(p, UNARY) /\ (c = 0 => ~Conditional(p))
    BY <1>4, PrimaryMade
  <2>2. ~EndsOperand(p - 1)
    BY <2>1 DEF Fence
  <2>3. ASSUME NEW q \in At, NEW j \in {0, 1}, Span(p + 1, q, m), Exit(m, q) PROVE Through(<<b>>, q, c, j, T)
    <3>1. Fits(p, p, q) /\ Stopped(p, q)
      BY <1>1, <2>2, <2>3, UnaryFits
    <3>2. Span(p, q, UNARY)
      BY <1>1, <2>2, <2>3, SpanUnary
    <3>3. \A i \in {0, 1} : Through(<<>>, q, c, i, T)
      BY <2>1, <3>2
    <3> QED BY <1>1, <1>2, <3>1, <3>3, NodeMake
  <2>4. Fence(p + 1, m) /\ (c = 0 => ~Conditional(p + 1))
    BY <1>1, <1>3, <2>1
  <2>5. Behind(<<a, b>>, Precedence(m), <<b>>)
    BY <1>1, <1>2
  <2>6. Through(<<a, b>>, p + 1, c, 0, T)
    BY <1>3, <2>3, <2>4, <2>5, ExprMake
  <2> QED BY <2>1, <2>6
<1>5. 1 \in 1 .. 2
  OBVIOUS
<1>6. Goes(Call("parse_primary"), p, c, 1, <<a, b>>, c)
  BY <1>2, <1>4, <1>5, GoesOn
<1> QED BY <1>1, <1>6, Zenon

\* What is in parentheses.
LEMMA GoesGroup ==
  ASSUME NEW p \in At, NEW c \in Nat, toks[p] = "("
  PROVE  Goes(Call("parse_primary"), p, c, 1, <<parse_expr, <<"restore", c>>, Expect(")")>>, 0)
<1>1. PICK a, b, d, s : /\ a = parse_expr /\ s = ")" /\ b = Expect(s) /\ s \in Stops \cap Signs
                        /\ d = <<"restore", c>>
  BY Zenon DEF Stops, Signs
<1>2. /\ Behind(<<a, d, b>>, a, <<d, b>>) /\ Behind(<<d, b>>, d, <<b>>) /\ Behind(<<b>>, b, <<>>)
      /\ Listed(<<a, d, b>>)
  BY Behinds, ListedAre
<1>3. p + 1 \in At /\ Fence(p + 1, ASSIGN) /\ ~Conditional(p + 1) /\ 0 \in Nat
  BY Nearby, FreshIn DEF Fresh
<1>4. ASSUME NEW k \in {0, 1}, NEW T \in SUBSET Points, Safe(Call("parse_primary"), p, c, k, T)
      PROVE  ~(k = 1 /\ Unread(p)) /\ Through(<<a, d, b>>, p + 1, 0, 0, T)
  <2>1. k = 0 /\ \A q \in At, j \in {0, 1} : Span(p, q, UNARY) => Through(<<>>, q, c, j, T)
    BY <1>4, PrimaryMade
  <2>2. ASSUME NEW q \in At, NEW j \in {0, 1}, Span(p + 1, q, ASSIGN) PROVE Through(<<d, b>>, q, 0, j, T)
    <3>1. ASSUME toks[q] = s PROVE Through(<<>>, q + 1, c, 0, T)
      <4>1. Flush(p + 1, q) /\ q + 1 \in At
        BY <1>3, <2>2, SpanFlush, Nearby
      <4>2. toks[p] \in {"(", "["} /\ toks[q] \in {")", "]"}
        BY <1>1, <3>1
      <4>3. Span(p, q + 1, UNARY)
        BY <4>1, <4>2, SpanBracket
      <4> QED BY <2>1, <4>1, <4>3
    <3>2. Through(<<b>>, q, c, j, T)
      BY <1>1, <1>2, <3>1, ThenStop
    <3>3. Behind(<<d, b>>, <<"restore", c>>, <<b>>)
      BY <1>1, <1>2
    <3> QED BY <1>3, <3>2, <3>3, SuppressMake
  <2>3. Through(<<a, d, b>>, p + 1, 0, 0, T)
    BY <1>1, <1>2, <1>3, <2>2, ThenExpr
  <2> QED BY <2>1, <2>3
<1>5. 1 \in 1 .. 2
  OBVIOUS
<1>6. Goes(Call("parse_primary"), p, c, 1, <<a, d, b>>, 0)
  BY <1>2, <1>4, <1>5, GoesOn
<1> QED BY <1>1, <1>6, Zenon

\* Operands.
LEMMA Groups_parse_primary == Core /\ Tree /\ Groups /\ ~had_error /\ parse_primary /\ ~had_error' => Groups'
<1> SUFFICES ASSUME Core, Tree, Groups, ~had_error, parse_primary, ~had_error' PROVE Groups'
  OBVIOUS
<1>0. /\ pos \in At /\ no_struct_lit \in Nat /\ "parse_primary" \in CallNames /\ 1 \in 0 .. 2 /\ 2 \in 0 .. 2
      /\ 0 \in Nat
  BY TextAt DEF Core, At, CallNames
<1>1. ASSUME Here \in Idents \cup Literals, Do("parse_primary", 1, <<>>), Plain PROVE Groups'
  <2>1. Goes(Call("parse_primary"), pos, no_struct_lit, 1, <<>>, no_struct_lit)
    BY <1>0, <1>1, GoesToken DEF Here
  <2>2. Here # "eof"
    BY <1>1 DEF Idents, Literals
  <2> QED BY <1>0, <1>1, <2>1, <2>2, GroupsCall
<1>2. ASSUME IsOld, Do("parse_primary", 2, <<parse_expr, Expect(")")>>), Plain PROVE Groups'
  <2>1. toks[pos] \in Idents /\ toks[pos + 1] = "(" /\ Here # "eof"
    BY <1>2 DEF IsOld, Here, Ahead, Idents
  <2>2. Goes(Call("parse_primary"), pos, no_struct_lit, 2, <<parse_expr, Expect(")")>>, no_struct_lit)
    BY <1>0, <2>1, GoesOld
  <2> QED BY <1>0, <1>2, <2>1, <2>2, GroupsCall
<1>3. ASSUME StructLit, Do("parse_primary", 2, <<Call("fields"), Expect("}")>>), Plain PROVE Groups'
  <2>1. PICK s \in Unbrace : Expect(s) = Expect("}")
    BY Zenon DEF Unbrace
  <2>2. /\ toks[pos] \in Idents /\ toks[pos + 1] \in Brace /\ toks[pos + 2] \in Idents
        /\ toks[pos + 3] = "=" /\ no_struct_lit = 0
    BY <1>3, Zenon DEF StructLit, Here, Ahead, Brace
  <2>3. Here # "eof"
    BY <2>2 DEF Here, Idents
  <2>4. Goes(Call("parse_primary"), pos, 0, 2, <<Call("fields"), Expect(s)>>, 0)
    BY <1>0, <2>2, GoesLiteral
  <2>5. Goes(Call("parse_primary"), pos, no_struct_lit, 2, <<Call("fields"), Expect("}")>>, no_struct_lit)
    BY <2>1, <2>2, <2>4, Zenon
  <2> QED BY <1>0, <1>3, <2>3, <2>5, GroupsCall
<1>4. ASSUME Here \in Unary, Do("parse_primary", 1, <<Precedence(UNARY), <<"node", <<pos, pos>>>>>>), Plain
      PROVE  Groups'
  <2>1. Goes(Call("parse_primary"), pos, no_struct_lit, 1, <<Precedence(UNARY), <<"node", <<pos, pos>>>>>>,
        no_struct_lit)
    BY <1>0, <1>4, GoesUnary DEF Here
  <2>2. Here # "eof"
    BY <1>4 DEF Unary
  <2> QED BY <1>0, <1>4, <2>1, <2>2, GroupsCall
<1>5. ASSUME Group PROVE Groups'
  <2>1. /\ Here = "(" /\ no_struct_lit' = 0 /\ nodes' = nodes
        /\ Do("parse_primary", 1, <<parse_expr, <<"restore", no_struct_lit>>, Expect(")")>>)
    BY <1>5 DEF Group, tree
  <2>2. Goes(Call("parse_primary"), pos, no_struct_lit, 1,
             <<parse_expr, <<"restore", no_struct_lit>>, Expect(")")>>, 0)
    BY <1>0, <2>1, GoesGroup DEF Here
  <2>3. todo[1] = Call("parse_primary")
    BY <1>0, <2>1, HeadCall DEF Do
  <2>4. Here # "eof"
    BY <2>1
  <2> QED BY <1>0, <2>1, <2>2, <2>3, <2>4, GroupsMove
<1>6. Operand \/ Group
  BY Zenon DEF parse_primary, NoOperand, Error
<1>7. CASE Operand
  BY <1>1, <1>2, <1>3, <1>4, <1>7, Zenon DEF Operand
<1> QED BY <1>5, <1>6, <1>7

\* No more fields, and one field and maybe more.
LEMMA GoesNoField ==
  ASSUME NEW p \in At, NEW c \in Nat, NEW f \in {"fields", "more_fields", "more_args"}
  PROVE  Goes(Call(f), p, c, 0, <<>>, c)
<1>1. ASSUME NEW k \in {0, 1}, NEW T \in SUBSET Points, Safe(Call(f), p, c, k, T)
      PROVE  Through(<<>>, p, c, k, T)
  <2>1. f = "fields" => Through(<<>>, p, c, k, T)
    BY <1>1, FieldsMade, CalmNone
  <2>2. f # "fields" => Through(<<>>, p, c, k, T)
    BY <1>1, MoreMade, CalmNone
  <2> QED BY <2>1, <2>2
<1> QED BY <1>1, ListedAre, GoesStay

\* A field.
LEMMA GoesField ==
  ASSUME NEW p \in At, NEW c \in Nat
  PROVE  Goes(Call("fields"), p, c, 0, <<Expect("ident"), Expect("="), parse_expr, Call("more_fields")>>, c)
<1>1. PICK a, b, e, m, s : /\ a = Expect("ident") /\ s = "=" /\ b = Expect(s) /\ s \in Signs /\ e = parse_expr
                           /\ m = Call("more_fields")
  BY Zenon DEF Signs
<1>2. /\ Behind(<<a, b, e, m>>, a, <<b, e, m>>) /\ Behind(<<b, e, m>>, b, <<e, m>>)
      /\ Behind(<<e, m>>, e, <<m>>)
      /\ Behind(<<m>>, m, <<>>) /\ Listed(<<a, b, e, m>>)
  BY Behinds, ListedAre
<1>3. p + 1 \in At /\ p + 2 \in At /\ (p + 1) + 1 = p + 2 /\ (p + 1) - 1 = p
  BY Nearby
<1>4. ASSUME NEW k \in {0, 1}, NEW T \in SUBSET Points, Safe(Call("fields"), p, c, k, T)
      PROVE  Through(<<a, b, e, m>>, p, c, k, T)
  <2>1. k = 0 /\ ~Conditional(p) /\ \A q \in At, j \in {0, 1} : Calm(p, q) => Through(<<>>, q, c, j, T)
    BY <1>4, FieldsMade
  <2>2. ASSUME toks[p] \in Idents, toks[p + 1] = s PROVE Through(<<e, m>>, p + 2, c, 0, T)
    <3>1. toks[p + 1] \in DOMAIN Prec /\ EndsOperand((p + 1) - 1) /\ RightMin(toks[p + 1]) = ASSIGN
      BY <1>1, <1>3, <2>2, PrecIs DEF EndsOperand, RightMin
    <3>2. Fence(p + 2, ASSIGN) /\ (Conditional(p + 2) <=> Conditional(p + 1)) /\ Calm(p + 1, p + 2)
      BY <1>3, <3>1, AfterBinary
    <3>3. Span(p, p + 1, UNARY) /\ Calm(p, p + 1)
      BY <1>3, <2>2, SpanToken, SpanFlush
    <3>4. ~Conditional(p + 2) /\ Calm(p, p + 2)
      BY <1>3, <2>1, <3>2, <3>3, CalmTwo DEF Span
    <3>5. ASSUME NEW q \in At, NEW j \in {0, 1}, Span(p + 2, q, ASSIGN) PROVE Through(<<m>>, q, c, j, T)
      <4>1. ~Conditional(q)
        BY <3>4, <3>5 DEF Span
      <4>2. Calm(p, q)
        BY <1>3, <3>4, <3>5, SpanFlush, CalmTwo
      <4>3. \A r \in At, i \in {0, 1} : Calm(q, r) => Through(<<>>, r, c, i, T)
        BY <2>1, <4>2, CalmTwo
      <4>4. Behind(<<m>>, Call("more_fields"), <<>>)
        BY <1>1, <1>2
      <4> QED BY <4>1, <4>3, <4>4, MoreMake
    <3> QED BY <1>1, <1>2, <1>3, <3>2, <3>4, <3>5, ThenExpr
  <2>3. ASSUME toks[p] \in Idents PROVE Through(<<b, e, m>>, p + 1, c, 0, T)
    <3>1. toks[p + 1] = s => Through(<<e, m>>, (p + 1) + 1, c, 0, T)
      BY <1>3, <2>2, <2>3
    <3> QED BY <1>1, <1>2, <1>3, <3>1, ThenSign
  <2>4. Through(<<a, b, e, m>>, p, c, 0, T)
    BY <1>1, <1>2, <2>3, ThenIdent
  <2> QED BY <2>1, <2>4
<1>5. Goes(Call("fields"), p, c, 0, <<a, b, e, m>>, c)
  BY <1>2, <1>4, GoesStay
<1> QED BY <1>1, <1>5, Zenon

\* A comma between fields, and between arguments.
LEMMA GoesComma ==
  ASSUME NEW p \in At, NEW c \in Nat, toks[p] \in Dividers
  PROVE  /\ Goes(Call("more_fields"), p, c, 1, <<Call("fields")>>, c)
         /\ Goes(Call("more_args"), p, c, 1, <<parse_expr, Call("more_args")>>, c)
<1>1. /\ ~Unread(p) /\ p + 1 \in At /\ Calm(p, p + 1) /\ (Conditional(p + 1) <=> Conditional(p))
      /\ Fence(p + 1, ASSIGN) /\ 1 \in 1 .. 2
  BY AfterDivider, ReadIs, Nearby
<1>3. ASSUME NEW k \in {0, 1}, NEW T \in SUBSET Points, Safe(Call("more_fields"), p, c, k, T)
      PROVE  ~(k = 1 /\ Unread(p)) /\ Through(<<Call("fields")>>, p + 1, c, 0, T)
  <2>1. ~Conditional(p) /\ \A q \in At, j \in {0, 1} : Calm(p, q) => Through(<<>>, q, c, j, T)
    BY <1>3, MoreMade
  <2>2. \A q \in At, j \in {0, 1} : Calm(p + 1, q) => Through(<<>>, q, c, j, T)
    BY <1>1, <2>1, CalmTwo
  <2>3. Through(<<Call("fields")>>, p + 1, c, 0, T)
    BY <1>1, <2>1, <2>2, FieldsMake, Behinds
  <2> QED BY <1>1, <2>3
<1>4. Goes(Call("more_fields"), p, c, 1, <<Call("fields")>>, c)
  BY <1>1, <1>3, ListedAre, GoesOn
<1>5. PICK a, m : a = parse_expr /\ m = Call("more_args")
  OBVIOUS
<1>6. Behind(<<a, m>>, a, <<m>>) /\ Behind(<<m>>, m, <<>>) /\ Listed(<<a, m>>)
  BY Behinds, ListedAre
<1>7. ASSUME NEW k \in {0, 1}, NEW T \in SUBSET Points, Safe(Call("more_args"), p, c, k, T)
      PROVE  ~(k = 1 /\ Unread(p)) /\ Through(<<a, m>>, p + 1, c, 0, T)
  <2>1. ~Conditional(p) /\ \A q \in At, j \in {0, 1} : Calm(p, q) => Through(<<>>, q, c, j, T)
    BY <1>7, MoreMade
  <2>2. ASSUME NEW q \in At, NEW j \in {0, 1}, Span(p + 1, q, ASSIGN) PROVE Through(<<m>>, q, c, j, T)
    <3>1. ~Conditional(q)
      BY <1>1, <2>1, <2>2 DEF Span
    <3>2. Calm(p, q)
      BY <1>1, <2>2, SpanFlush, CalmTwo
    <3>3. \A r \in At, i \in {0, 1} : Calm(q, r) => Through(<<>>, r, c, i, T)
      BY <2>1, <3>2, CalmTwo
    <3>4. Behind(<<m>>, Call("more_args"), <<>>)
      BY <1>5, <1>6
    <3> QED BY <3>1, <3>3, <3>4, MoreMake
  <2>3. Through(<<a, m>>, p + 1, c, 0, T)
    BY <1>1, <1>5, <1>6, <2>1, <2>2, ThenExpr
  <2> QED BY <1>1, <2>3
<1>8. Goes(Call("more_args"), p, c, 1, <<a, m>>, c)
  BY <1>1, <1>6, <1>7, GoesOn
<1> QED BY <1>4, <1>5, <1>8

\* Fields.
LEMMA Groups_fields == Core /\ Tree /\ Groups /\ ~had_error /\ fields /\ ~had_error' => Groups'
<1> SUFFICES ASSUME Core, Tree, Groups, ~had_error, fields, ~had_error' PROVE Groups'
  OBVIOUS
<1>0. /\ pos \in At /\ no_struct_lit \in Nat /\ "fields" \in CallNames /\ "more_fields" \in CallNames
      /\ 0 \in 0 .. 2 /\ 1 \in 0 .. 2 /\ (0 # 0 => Here # "eof")
  BY TextAt DEF Core, At, CallNames
<1>1. ASSUME Do("fields", 0, <<>>), Plain PROVE Groups'
  <2>1. Goes(Call("fields"), pos, no_struct_lit, 0, <<>>, no_struct_lit)
    BY <1>0, GoesNoField
  <2> QED BY <1>0, <1>1, <2>1, GroupsCall
<1>2. ASSUME Do("fields", 0, <<Expect("ident"), Expect("="), parse_expr, Call("more_fields")>>), Plain
      PROVE  Groups'
  <2>1. Goes(Call("fields"), pos, no_struct_lit, 0,
             <<Expect("ident"), Expect("="), parse_expr, Call("more_fields")>>, no_struct_lit)
    BY <1>0, GoesField
  <2> QED BY <1>0, <1>2, <2>1, GroupsCall
<1>3. ASSUME Here = ",", Do("more_fields", 1, <<Call("fields")>>), Plain PROVE Groups'
  <2>1. toks[pos] \in Dividers /\ Here # "eof"
    BY <1>3, Zenon DEF Here, Dividers
  <2>2. Goes(Call("more_fields"), pos, no_struct_lit, 1, <<Call("fields")>>, no_struct_lit)
    BY ONLY <1>0, <2>1, GoesComma
  <2> QED BY <1>0, <1>3, <2>1, <2>2, GroupsCall
<1>4. ASSUME Do("more_fields", 0, <<>>), Plain PROVE Groups'
  <2>1. Goes(Call("more_fields"), pos, no_struct_lit, 0, <<>>, no_struct_lit)
    BY <1>0, GoesNoField
  <2> QED BY <1>0, <1>4, <2>1, GroupsCall
<1> QED BY <1>1, <1>2, <1>3, <1>4, Zenon DEF fields

\* A postfix operator and those behind it.
LEMMA TailsOn ==
  ASSUME NEW p \in At, NEW r \in At, NEW q \in At, toks[p] \in Continues, Span(p, r, UNARY), Tails(r, q)
  PROVE  Tails(p, q)
<1>1. Span(p, q, UNARY)
  <2>1. CASE q = r
    BY <2>1
  <2>2. CASE q # r
    BY <2>2, SpanTwo DEF Tails
  <2> QED BY <2>1, <2>2
<1> QED BY <1>1 DEF Tails

\* The first is done, up to r.
LEMMA PostfixOn ==
  ASSUME NEW p \in At, NEW r \in At, NEW c \in Nat, NEW k \in {0, 1}, NEW T \in SUBSET Points,
         Safe(Call("parse_call_or_postfix"), p, c, k, T), toks[p] \in Continues, Span(p, r, UNARY),
         NEW v, Behind(v, Call("parse_call_or_postfix"), <<>>)
  PROVE  Through(v, r, c, 0, T)
<1>1. \A q \in At, j \in {0, 1} : Tails(p, q) => Through(<<>>, q, c, j, T)
  BY PostfixMade
<1>2. \A q \in At, j \in {0, 1} : Tails(r, q) => Through(<<>>, q, c, j, T)
  BY <1>1, TailsOn
<1> QED BY <1>2, PostfixMake

\* A call without arguments.
LEMMA GoesCallEmpty ==
  ASSUME NEW p \in At, NEW c \in Nat, toks[p] = "(", toks[p + 1] = ")"
  PROVE  Goes(Call("parse_call_or_postfix"), p, c, 2, <<Call("parse_call_or_postfix")>>, c)
<1>1. PICK a : a = Call("parse_call_or_postfix") /\ Behind(<<a>>, a, <<>>) /\ Listed(<<a>>)
  BY Behinds, ListedAre
<1>2. Span(p, p + 2, UNARY) /\ p + 2 \in At
  <2>1. Flush(p + 1, p + 1) /\ p + 1 \in At /\ (p + 1) + 1 = p + 2
    BY Nearby, FlushNone
  <2>2. Span(p, (p + 1) + 1, UNARY)
    BY <2>1, SpanBracket
  <2> QED BY <2>1, <2>2, Nearby
<1>3. toks[p] \in Continues /\ ~Unread(p)
  BY ReadIs DEF Continues
<1>4. ASSUME NEW k \in {0, 1}, NEW T \in SUBSET Points, Safe(a, p, c, k, T)
      PROVE  ~(k = 1 /\ Unread(p)) /\ Through(<<a>>, p + 2, c, 0, T)
  BY <1>1, <1>2, <1>3, <1>4, PostfixOn
<1>5. 2 \in 1 .. 2
  OBVIOUS
<1> QED BY <1>1, <1>4, <1>5, GoesOn

\* A call with arguments.
LEMMA GoesCall ==
  ASSUME NEW p \in At, NEW c \in Nat, toks[p] = "("
  PROVE  Goes(Call("parse_call_or_postfix"), p, c, 1,
              <<parse_expr, Call("more_args"), Expect(")"), Call("parse_call_or_postfix")>>, c)
<1>1. PICK a, e, m, b, s : /\ a = Call("parse_call_or_postfix") /\ e = parse_expr /\ m = Call("more_args")
                           /\ s = ")" /\ b = Expect(s) /\ s \in Stops \cap Signs
  BY Zenon DEF Stops, Signs
<1>2. /\ Behind(<<e, m, b, a>>, e, <<m, b, a>>) /\ Behind(<<m, b, a>>, m, <<b, a>>)
      /\ Behind(<<b, a>>, b, <<a>>)
      /\ Behind(<<a>>, a, <<>>) /\ Listed(<<e, m, b, a>>)
  BY Behinds, ListedAre
<1>3. /\ p + 1 \in At /\ Fence(p + 1, ASSIGN) /\ ~Conditional(p + 1)
      /\ toks[p] \in Continues /\ ~Unread(p)
  BY Nearby, FreshIn, ReadIs DEF Fresh, Continues
<1>4. ASSUME NEW k \in {0, 1}, NEW T \in SUBSET Points, Safe(a, p, c, k, T)
      PROVE  ~(k = 1 /\ Unread(p)) /\ Through(<<e, m, b, a>>, p + 1, c, 0, T)
  <2>1. ASSUME NEW q \in At, NEW j \in {0, 1}, Flush(p + 1, q) PROVE Through(<<b, a>>, q, c, j, T)
    <3>1. ASSUME toks[q] = s PROVE Through(<<a>>, q + 1, c, 0, T)
      <4>1. toks[p] \in {"(", "["} /\ toks[q] \in {")", "]"}
        BY <1>1, <3>1
      <4>2. Span(p, q + 1, UNARY) /\ q + 1 \in At
        BY <2>1, <4>1, SpanBracket, Nearby
      <4> QED BY <1>1, <1>2, <1>3, <1>4, <4>2, PostfixOn
    <3> QED BY <1>1, <1>2, <3>1, ThenStop
  <2>2. ASSUME NEW q \in At, NEW j \in {0, 1}, Span(p + 1, q, ASSIGN) PROVE Through(<<m, b, a>>, q, c, j, T)
    <3>1. ~Conditional(q) /\ Flush(p + 1, q)
      BY <1>3, <2>2, SpanFlush DEF Span
    <3>2. ASSUME NEW r \in At, NEW i \in {0, 1}, Calm(q, r) PROVE Through(<<b, a>>, r, c, i, T)
      <4>1. Flush(p + 1, r)
        BY <1>3, <3>1, <3>2, FlushTwo DEF Calm
      <4> QED BY <2>1, <4>1
    <3>3. Behind(<<m, b, a>>, Call("more_args"), <<b, a>>)
      BY <1>1, <1>2
    <3> QED BY <3>1, <3>2, <3>3, MoreMake
  <2>3. Through(<<e, m, b, a>>, p + 1, c, 0, T)
    BY <1>1, <1>2, <1>3, <2>2, ThenExpr
  <2> QED BY <1>3, <2>3
<1>5. 1 \in 1 .. 2
  OBVIOUS
<1>6. Goes(a, p, c, 1, <<e, m, b, a>>, c)
  BY <1>2, <1>4, <1>5, GoesOn
<1> QED BY <1>1, <1>6, Zenon

\* An index.
LEMMA GoesIndex ==
  ASSUME NEW p \in At, NEW c \in Nat, toks[p] = "["
  PROVE  Goes(Call("parse_call_or_postfix"), p, c, 1,
              <<parse_expr, Expect("]"), Call("parse_call_or_postfix")>>, c)
<1>1. PICK a, e, b, s : /\ a = Call("parse_call_or_postfix") /\ e = parse_expr
                        /\ s = "]" /\ b = Expect(s) /\ s \in Stops \cap Signs
  BY Zenon DEF Stops, Signs
<1>2. /\ Behind(<<e, b, a>>, e, <<b, a>>) /\ Behind(<<b, a>>, b, <<a>>)
      /\ Behind(<<a>>, a, <<>>) /\ Listed(<<e, b, a>>)
  BY Behinds, ListedAre
<1>3. /\ p + 1 \in At /\ Fence(p + 1, ASSIGN) /\ ~Conditional(p + 1)
      /\ toks[p] \in Continues /\ ~Unread(p)
  BY Nearby, FreshIn, ReadIs DEF Fresh, Continues
<1>4. ASSUME NEW k \in {0, 1}, NEW T \in SUBSET Points, Safe(a, p, c, k, T)
      PROVE  ~(k = 1 /\ Unread(p)) /\ Through(<<e, b, a>>, p + 1, c, 0, T)
  <2>1. ASSUME NEW q \in At, NEW j \in {0, 1}, Span(p + 1, q, ASSIGN) PROVE Through(<<b, a>>, q, c, j, T)
    <3>1. ASSUME toks[q] = s PROVE Through(<<a>>, q + 1, c, 0, T)
      <4>1. toks[p] \in {"(", "["} /\ toks[q] \in {")", "]"} /\ Flush(p + 1, q)
        BY <1>1, <1>3, <2>1, <3>1, SpanFlush
      <4>2. Span(p, q + 1, UNARY) /\ q + 1 \in At
        BY <4>1, SpanBracket, Nearby
      <4> QED BY <1>1, <1>2, <1>3, <1>4, <4>2, PostfixOn
    <3> QED BY <1>1, <1>2, <3>1, ThenStop
  <2>2. Through(<<e, b, a>>, p + 1, c, 0, T)
    BY <1>1, <1>2, <1>3, <2>1, ThenExpr
  <2> QED BY <1>3, <2>2
<1>5. 1 \in 1 .. 2
  OBVIOUS
<1>6. Goes(a, p, c, 1, <<e, b, a>>, c)
  BY <1>2, <1>4, <1>5, GoesOn
<1> QED BY <1>1, <1>6, Zenon

\* A field.
LEMMA GoesMember ==
  ASSUME NEW p \in At, NEW c \in Nat, toks[p] = "."
  PROVE  Goes(Call("parse_call_or_postfix"), p, c, 1, <<Expect("ident"), Call("parse_call_or_postfix")>>, c)
<1>1. PICK a, b : a = Call("parse_call_or_postfix") /\ b = Expect("ident")
  OBVIOUS
<1>2. Behind(<<b, a>>, b, <<a>>) /\ Behind(<<a>>, a, <<>>) /\ Listed(<<b, a>>)
  BY Behinds, ListedAre
<1>3. p + 1 \in At /\ p + 2 \in At /\ (p + 1) + 1 = p + 2 /\ toks[p] \in Continues /\ ~Unread(p)
  BY Nearby, ReadIs DEF Continues
<1>4. ASSUME NEW k \in {0, 1}, NEW T \in SUBSET Points, Safe(a, p, c, k, T)
      PROVE  ~(k = 1 /\ Unread(p)) /\ Through(<<b, a>>, p + 1, c, 0, T)
  <2>1. ASSUME toks[p + 1] \in Idents PROVE Through(<<a>>, (p + 1) + 1, c, 0, T)
    <3>1. Span(p, p + 2, UNARY)
      BY <2>1, SpanField
    <3> QED BY <1>1, <1>2, <1>3, <1>4, <3>1, PostfixOn
  <2> QED BY <1>1, <1>2, <1>3, <2>1, ThenIdent
<1>5. 1 \in 1 .. 2
  OBVIOUS
<1>6. Goes(a, p, c, 1, <<b, a>>, c)
  BY <1>2, <1>4, <1>5, GoesOn
<1> QED BY <1>1, <1>6

\* No postfix operator.
LEMMA GoesNoPostfix ==
  ASSUME NEW p \in At, NEW c \in Nat, toks[p] \notin Continues
  PROVE  Goes(Call("parse_call_or_postfix"), p, c, 0, <<>>, c)
<1>1. ASSUME NEW k \in {0, 1}, NEW T \in SUBSET Points, Safe(Call("parse_call_or_postfix"), p, c, k, T)
      PROVE  Through(<<>>, p, c, k, T)
  <2>1. Tails(p, p)
    BY DEF Tails
  <2> QED BY <1>1, <2>1, PostfixMade
<1> QED BY <1>1, ListedAre, GoesStay

\* Postfix operators.
LEMMA Groups_parse_call_or_postfix ==
  Core /\ Tree /\ Groups /\ ~had_error /\ parse_call_or_postfix /\ ~had_error' => Groups'
<1> SUFFICES ASSUME Core, Tree, Groups, ~had_error, parse_call_or_postfix, ~had_error' PROVE Groups'
  OBVIOUS
<1> DEFINE f == "parse_call_or_postfix"
           again == Call(f)
<1>0. /\ pos \in At /\ no_struct_lit \in Nat /\ f \in CallNames /\ "more_args" \in CallNames
      /\ 0 \in 0 .. 2 /\ 1 \in 0 .. 2 /\ 2 \in 0 .. 2 /\ (0 # 0 => Here # "eof")
  BY TextAt DEF Core, At, CallNames
<1>1. ASSUME Here = "(", Ahead(1) = ")", Do(f, 2, <<again>>), Plain PROVE Groups'
  <2>1. Goes(Call(f), pos, no_struct_lit, 2, <<again>>, no_struct_lit)
    BY <1>0, <1>1, GoesCallEmpty DEF Here, Ahead
  <2> QED BY <1>0, <1>1, <2>1, GroupsCall
<1>2. ASSUME Here = "(", Do(f, 1, <<parse_expr, Call("more_args"), Expect(")"), again>>), Plain PROVE Groups'
  <2>1. Goes(Call(f), pos, no_struct_lit, 1, <<parse_expr, Call("more_args"), Expect(")"), again>>,
        no_struct_lit)
    BY <1>0, <1>2, GoesCall DEF Here
  <2> QED BY <1>0, <1>2, <2>1, GroupsCall
<1>3. ASSUME Here = "[", Do(f, 1, <<parse_expr, Expect("]"), again>>), Plain PROVE Groups'
  <2>1. Goes(Call(f), pos, no_struct_lit, 1, <<parse_expr, Expect("]"), again>>, no_struct_lit)
    BY <1>0, <1>3, GoesIndex DEF Here
  <2> QED BY <1>0, <1>3, <2>1, GroupsCall
<1>4. ASSUME Here = ".", Do(f, 1, <<Expect("ident"), again>>), Plain PROVE Groups'
  <2>1. Goes(Call(f), pos, no_struct_lit, 1, <<Expect("ident"), again>>, no_struct_lit)
    BY <1>0, <1>4, GoesMember DEF Here
  <2> QED BY <1>0, <1>4, <2>1, GroupsCall
<1>5. ASSUME Here \notin {"(", "[", "."}, Do(f, 0, <<>>), Plain PROVE Groups'
  <2>1. Goes(Call(f), pos, no_struct_lit, 0, <<>>, no_struct_lit)
    BY <1>0, <1>5, GoesNoPostfix DEF Here, Continues
  <2> QED BY <1>0, <1>5, <2>1, GroupsCall
<1>6. ASSUME Here = ",", Do("more_args", 1, <<parse_expr, Call("more_args")>>), Plain PROVE Groups'
  <2>1. toks[pos] \in Dividers /\ Here # "eof"
    BY <1>6, Zenon DEF Here, Dividers
  <2>2. Goes(Call("more_args"), pos, no_struct_lit, 1, <<parse_expr, Call("more_args")>>, no_struct_lit)
    BY ONLY <1>0, <2>1, GoesComma
  <2> QED BY <1>0, <1>6, <2>1, <2>2, GroupsCall
<1>7. ASSUME Do("more_args", 0, <<>>), Plain PROVE Groups'
  <2>1. Goes(Call("more_args"), pos, no_struct_lit, 0, <<>>, no_struct_lit)
    BY <1>0, GoesNoField
  <2> QED BY <1>0, <1>7, <2>1, GroupsCall
<1> QED BY <1>1, <1>2, <1>3, <1>4, <1>5, <1>6, <1>7, Zenon DEF parse_call_or_postfix

\* An expression: an operand, what follows it, and operators.
LEMMA GoesPrecedence ==
  ASSUME NEW m \in Levels, NEW p \in At, NEW c \in Nat
  PROVE  Goes(Precedence(m), p, c, 0,
              <<Call("parse_primary"), Call("parse_call_or_postfix"), <<"operators", <<m, p>>>>>>, c)
<1>1. PICK a, b, o : a = Call("parse_primary") /\ b = Call("parse_call_or_postfix")
                     /\ o = <<"operators", <<m, p>>>>
  OBVIOUS
<1>2. /\ Behind(<<a, b, o>>, a, <<b, o>>) /\ Behind(<<b, o>>, b, <<o>>) /\ Behind(<<o>>, o, <<>>)
      /\ Listed(<<a, b, o>>)
  BY Behinds, ListedAre
<1>3. ASSUME NEW k \in {0, 1}, NEW T \in SUBSET Points, Safe(Precedence(m), p, c, k, T)
      PROVE  Through(<<a, b, o>>, p, c, k, T)
  <2>1. /\ k = 0 /\ Fence(p, m) /\ (c = 0 => ~Conditional(p))
        /\ \A q \in At, j \in {0, 1} : Span(p, q, m) /\ Exit(m, q) => Through(<<>>, q, c, j, T)
    BY <1>3, ExprMade
  <2>2. Fence(p, UNARY)
    BY <2>1 DEF Fence
  <2>3. ASSUME NEW q \in At, NEW j \in {0, 1}, Span(p, q, UNARY), toks[q] \notin Continues
        PROVE  Through(<<o>>, q, c, j, T)
    <3>1. Loop(p, m, q) /\ (c = 0 => ~Conditional(q))
      BY <2>1, <2>3, LoopStarts DEF Span
    <3>2. Behind(<<o>>, <<"operators", <<m, p>>>>, <<>>)
      BY <1>1, <1>2
    <3> QED BY <2>1, <3>1, <3>2, OperatorsMake
  <2>4. ASSUME NEW q \in At, NEW j \in {0, 1}, Span(p, q, UNARY) PROVE Through(<<b, o>>, q, c, j, T)
    <3>1. ASSUME NEW r \in At, NEW i \in {0, 1}, Tails(q, r) PROVE Through(<<o>>, r, c, i, T)
      <4>1. toks[r] \notin Continues /\ Span(p, r, UNARY)
        BY <2>4, <3>1, SpanTwo DEF Tails
      <4> QED BY <2>3, <4>1
    <3>2. Behind(<<b, o>>, Call("parse_call_or_postfix"), <<o>>)
      BY <1>1, <1>2
    <3> QED BY <3>1, <3>2, PostfixMake
  <2>5. Behind(<<a, b, o>>, Call("parse_primary"), <<b, o>>)
    BY <1>1, <1>2
  <2> QED BY <2>1, <2>2, <2>4, <2>5, PrimaryMake
<1>4. Goes(Precedence(m), p, c, 0, <<a, b, o>>, c)
  BY <1>2, <1>3, GoesStay
<1> QED BY <1>1, <1>4

\* An operator that binds, with and without postfix operators behind its operand.
LEMMA GoesOperator ==
  ASSUME NEW m \in Levels, NEW f \in At, NEW p \in At, NEW c \in Nat,
         toks[p] \in DOMAIN Prec, Prec[toks[p]] >= m, NEW x, NEW y, NEW o, NEW z,
         x = Precedence(RightMin(toks[p])), y = <<"node", <<f, p>>>>,
         z = Call("parse_call_or_postfix"), o = <<"operators", <<m, f>>>>
  PROVE  /\ Goes(o, p, c, 1, <<x, y, o>>, c)
         /\ Goes(o, p, c, 1, <<x, y, z, o>>, c)
<1>1. PICK n : n = RightMin(toks[p]) /\ x = Precedence(n)
  OBVIOUS
<1>2. /\ Behind(<<x, y, o>>, x, <<y, o>>) /\ Behind(<<y, o>>, y, <<o>>) /\ Behind(<<o>>, o, <<>>)
      /\ Behind(<<x, y, z, o>>, x, <<y, z, o>>) /\ Behind(<<y, z, o>>, y, <<z, o>>)
      /\ Behind(<<z, o>>, z, <<o>>)
      /\ Listed(<<x, y, o>>) /\ Listed(<<x, y, z, o>>)
  BY Behinds, ListedAre
<1>3. p + 1 \in At /\ ~Unread(p) /\ 1 \in 1 .. 2
  BY Nearby, ReadIs
<1>4. ASSUME NEW k \in {0, 1}, NEW T \in SUBSET Points, Safe(o, p, c, k, T)
      PROVE  Through(<<x, y, o>>, p + 1, c, 0, T) /\ Through(<<x, y, z, o>>, p + 1, c, 0, T)
  <2>1. /\ Loop(f, m, p) /\ (c = 0 => ~Conditional(p))
        /\ \A q \in At, j \in {0, 1} : Span(f, q, m) /\ Exit(m, q) => Through(<<>>, q, c, j, T)
    BY <1>4, OperatorsMade
  <2>2. Fence(p + 1, n) /\ (c = 0 => ~Conditional(p + 1))
    <3>1. EndsOperand(p - 1)
      BY <2>1 DEF Loop, Span
    <3> QED BY <1>1, <2>1, <3>1, AfterBinary
  <2>3. ASSUME NEW q \in At, Span(p + 1, q, n), Exit(n, q)
        PROVE  /\ Fits(f, p, q) /\ Stopped(p, q)
               /\ \A j \in {0, 1} : Through(<<o>>, q, c, j, T) /\ Through(<<z, o>>, q, c, j, T)
    <3>1. Loop(f, m, q) /\ Fits(f, p, q) /\ Stopped(p, q)
      BY <1>1, <2>1, <2>3, LoopOn
    <3>2. c = 0 => ~Conditional(q)
      BY <2>2, <2>3 DEF Span
    <3>3. ASSUME NEW j \in {0, 1} PROVE Through(<<o>>, q, c, j, T)
      <4>1. Behind(<<o>>, <<"operators", <<m, f>>>>, <<>>)
        BY <1>2
      <4> QED BY <2>1, <3>1, <3>2, <4>1, OperatorsMake
    <3>4. ASSUME NEW j \in {0, 1} PROVE Through(<<z, o>>, q, c, j, T)
      <4>1. \A r : Tails(q, r) => r = q
        BY <2>3 DEF Tails, Exit
      <4>2. \A r \in At, i \in {0, 1} : Tails(q, r) => Through(<<o>>, r, c, i, T)
        BY <3>3, <4>1
      <4>3. Behind(<<z, o>>, Call("parse_call_or_postfix"), <<o>>)
        BY <1>2
      <4> QED BY <4>2, <4>3, PostfixMake
    <3> QED BY <3>1, <3>3, <3>4
  <2>4. ASSUME NEW q \in At, NEW j \in {0, 1}, Span(p + 1, q, n), Exit(n, q)
        PROVE  Through(<<y, o>>, q, c, j, T) /\ Through(<<y, z, o>>, q, c, j, T)
    <3>1. /\ Fits(f, p, q) /\ Stopped(p, q)
          /\ \A i \in {0, 1} : Through(<<o>>, q, c, i, T) /\ Through(<<z, o>>, q, c, i, T)
      BY <2>3, <2>4
    <3>2. Behind(<<y, o>>, <<"node", <<f, p>>>>, <<o>>) /\ Behind(<<y, z, o>>, <<"node", <<f, p>>>>, <<z, o>>)
      BY <1>2
    <3>3. Through(<<y, o>>, q, c, j, T)
      BY <3>1, <3>2, NodeMake
    <3>4. Through(<<y, z, o>>, q, c, j, T)
      BY <3>1, <3>2, NodeMake
    <3> QED BY <3>3, <3>4
  <2>5. Behind(<<x, y, o>>, Precedence(n), <<y, o>>) /\ Behind(<<x, y, z, o>>, Precedence(n), <<y, z, o>>)
    BY <1>1, <1>2
  <2>6. Through(<<x, y, o>>, p + 1, c, 0, T)
    BY <1>3, <2>2, <2>4, <2>5, ExprMake
  <2>7. Through(<<x, y, z, o>>, p + 1, c, 0, T)
    BY <1>3, <2>2, <2>4, <2>5, ExprMake
  <2> QED BY <2>6, <2>7
<1>5. Goes(o, p, c, 1, <<x, y, o>>, c)
  BY <1>2, <1>3, <1>4, GoesOn
<1>6. Goes(o, p, c, 1, <<x, y, z, o>>, c)
  BY <1>2, <1>3, <1>4, GoesOn
<1> QED BY <1>5, <1>6

\* No operator that binds.
LEMMA GoesNoOperator ==
  ASSUME NEW m \in Levels, NEW f \in At, NEW p \in At, NEW c \in Nat,
         ~(toks[p] \in DOMAIN Prec /\ Prec[toks[p]] >= m)
  PROVE  Goes(<<"operators", <<m, f>>>>, p, c, 0, <<>>, c)
<1>1. ASSUME NEW k \in {0, 1}, NEW T \in SUBSET Points, Safe(<<"operators", <<m, f>>>>, p, c, k, T)
      PROVE  Through(<<>>, p, c, k, T)
  <2>1. /\ Loop(f, m, p)
        /\ \A q \in At, j \in {0, 1} : Span(f, q, m) /\ Exit(m, q) => Through(<<>>, q, c, j, T)
    BY <1>1, OperatorsMade
  <2> QED BY <2>1, LoopEnds
<1> QED BY <1>1, ListedAre, GoesStay

\* Expressions.
LEMMA Groups_parse_precedence == Core /\ Tree /\ Groups /\ ~had_error /\ parse_precedence => Groups'
<1> SUFFICES ASSUME Core, Tree, Groups, ~had_error, parse_precedence PROVE Groups'
  OBVIOUS
<1>0. pos \in At /\ no_struct_lit \in Nat /\ 0 \in 0 .. 2 /\ (0 # 0 => Here # "eof")
  BY TextAt DEF Core, At
<1>1. PICK w : /\ w = <<Call("parse_primary"), Call("parse_call_or_postfix"), <<"operators", <<Arg, pos>>>>>>
               /\ Do("parse_precedence", 0, w)
  BY DEF parse_precedence
<1>2. PICK m \in Levels : m = Arg /\ todo[1] = Precedence(m)
  BY <1>1, HeadArg DEF Do, Precedence
<1>3. Goes(Precedence(m), pos, no_struct_lit, 0, w, no_struct_lit)
  BY <1>0, <1>1, <1>2, GoesPrecedence
<1>4. nodes' = nodes /\ no_struct_lit' = no_struct_lit
  BY DEF parse_precedence, Plain, tree
<1> QED BY <1>0, <1>1, <1>2, <1>3, <1>4, GroupsMove

\* Operators.
LEMMA Groups_operators == Core /\ Tree /\ Groups /\ ~had_error /\ operators => Groups'
<1> SUFFICES ASSUME Core, Tree, Groups, ~had_error, operators PROVE Groups'
  OBVIOUS
<1>0. pos \in At /\ no_struct_lit \in Nat /\ 0 \in 0 .. 2 /\ 1 \in 0 .. 2 /\ (0 # 0 => Here # "eof")
  BY TextAt DEF Core, At
<1>1. Doing("operators") /\ nodes' = nodes /\ no_struct_lit' = no_struct_lit
  BY DEF operators, Plain, tree
<1>2. PICK m \in Levels, f \in At : Arg = <<m, f>>
  <2>1. Arg \in Levels \X (1 .. pos)
    BY <1>1, HeadArg
  <2>2. Arg = <<Arg[1], Arg[2]>> /\ Arg[1] \in Levels /\ Arg[2] \in 1 .. pos
    BY <2>1
  <2>3. 1 .. pos \subseteq At
    BY DEF At
  <2> QED BY <2>2, <2>3
<1>3. PICK o : o = <<"operators", <<m, f>>>> /\ todo[1] = o /\ Arg[1] = m /\ Arg[2] = f
               /\ <<"operators", Arg>> = o
  BY <1>1, <1>2, HeadArg
<1>4. CASE Binds
  <2>1. toks[pos] \in DOMAIN Prec /\ Prec[toks[pos]] >= m
    BY <1>3, <1>4 DEF Binds, Here
  <2>2. Here # "eof"
    BY <2>1, PrecIs DEF Here
  <2>3. PICK x, y, z : /\ x = Precedence(RightMin(toks[pos])) /\ y = <<"node", <<f, pos>>>>
                       /\ z = Call("parse_call_or_postfix")
    OBVIOUS
  <2>4. Do("operators", 1, <<x, y>> \o (IF Here \in {"=", ".."} THEN <<>> ELSE <<z>>) \o <<o>>)
    BY <1>3, <1>4, <2>3, Zenon DEF operators, Here
  <2>5. PICK w : Do("operators", 1, w) /\ w \in {<<x, y, o>>, <<x, y, z, o>>}
    <3>1. <<x, y>> \o (IF Here \in {"=", ".."} THEN <<>> ELSE <<z>>) \o <<o>> \in {<<x, y, o>>, <<x, y, z, o>>}
      <4>1. (<<x, y>> \o <<>>) \o <<o>> = <<x, y, o>>
        <5>1. <<x, y>> \in Seq({x, y})
          OBVIOUS
        <5>2. <<x, y>> \o <<>> = <<x, y>>
          BY <5>1, ConcatEmptySeq
        <5> QED BY <5>2, Longer, Zenon
      <4>2. (<<x, y>> \o <<z>>) \o <<o>> = <<x, y, z, o>>
        BY Glue
      <4> QED BY <4>1, <4>2, Zenon
    <3> QED BY <2>4, <3>1
  <2>6. Goes(o, pos, no_struct_lit, 1, w, no_struct_lit)
    BY <1>0, <1>3, <2>1, <2>3, <2>5, GoesOperator,
      ZenonT(60)
  <2> QED BY <1>0, <1>1, <1>3, <2>2, <2>5, <2>6, GroupsMove
<1>5. CASE ~Binds
  <2>1. ~(toks[pos] \in DOMAIN Prec /\ Prec[toks[pos]] >= m)
    BY <1>3, <1>5 DEF Binds, Here
  <2>2. Goes(o, pos, no_struct_lit, 0, <<>>, no_struct_lit)
    BY <1>0, <1>3, <2>1, GoesNoOperator
  <2>3. Do("operators", 0, <<>>)
    BY <1>5, Zenon DEF operators
  <2> QED BY <1>0, <1>1, <1>3, <2>2, <2>3, GroupsMove
<1> QED BY <1>4, <1>5

\* An operator with its operands: the next token, if not beyond what it can
\* reach, is one that no call will read.
LEMMA Groups_node == Core /\ Tree /\ Groups /\ ~had_error /\ node => Groups'
<1> SUFFICES ASSUME Core, Tree, Groups, ~had_error, node PROVE Groups'
  OBVIOUS
<1>1. PICK k \in {0, 1} : Grouped(todo, pos, no_struct_lit, k, nodes)
  BY DEF Groups
<1>2. pos \in At /\ pos \in Nat /\ no_struct_lit \in Nat /\ todo \in Seq(Tasks(pos)) /\ todo # <<>>
  BY TextAt DEF Core, At, node, Do, Doing
<1>3. Do("node", 0, <<>>) /\ no_struct_lit' = no_struct_lit
  BY DEF node
<1>4. toks' = toks /\ pos' = pos /\ todo' = Tail(todo)
  <2>1. <<>> \o Tail(todo) = Tail(todo)
    BY <1>2, ConcatEmptySeq
  <2> QED BY <1>3, <2>1, ReadsNothing
<1>5. PICK f, a : Arg = <<f, a>>
  <2>1. Arg \in (1 .. pos) \X (1 .. pos - 1)
    BY <1>3, HeadArg DEF Do
  <2>2. Arg = <<Arg[1], Arg[2]>>
    BY <2>1
  <2> QED BY <2>2
<1>6. PICK t : t = <<"node", <<f, a>>>> /\ todo[1] = t
  BY <1>3, <1>5, HeadArg DEF Do
<1>7. PICK T : T = Onwards(Tail(todo), Points)
  OBVIOUS
<1>8. T \in SUBSET Points
  BY <1>7, OnwardsIs
<1>9. Safe(t, pos, no_struct_lit, k, T)
  BY <1>1, <1>2, <1>6, <1>7, ThroughHead DEF Grouped
<1>10. Fits(f, a, pos) /\ Stopped(a, pos) /\ Through(<<>>, pos, no_struct_lit, 1, T)
  BY <1>2, <1>6, <1>8, <1>9, NodeMade
<1>11. Through(Tail(todo), pos, no_struct_lit, 1, Points)
  <2>1. <<>> \in Seq(Tasks(pos)) /\ Tail(todo) \in Seq(Tasks(pos)) /\ <<>> \o Tail(todo) = Tail(todo)
    BY <1>2, ConcatEmptySeq
  <2> QED BY <1>2, <1>7, <1>10, <2>1, ThroughConcat
<1>12. PICK n : n = [first |-> f, at |-> a, last |-> pos - 1] /\ nodes' = nodes \cup {n}
  BY <1>5 DEF node
<1>13. ASSUME NEW m \in nodes \cup {n}
       PROVE  /\ m.last < pos /\ Fits(m.first, m.at, m.last + 1)
              /\ Bars(m.last + 1, m.at, RightFrom(m.at)) \/ (m.last + 1 = pos /\ Unread(pos))
              /\ m.last + 1 = pos => 1 = 1
  <2>1. CASE m \in nodes
    BY <1>1, <2>1 DEF Grouped
  <2>2. CASE m = n
    <3>1. m.first = f /\ m.at = a /\ m.last = pos - 1 /\ m.last < pos /\ m.last + 1 = pos
      BY <1>2, <1>12, <2>2
    <3> QED BY <1>10, <3>1 DEF Stopped
  <2> QED BY <2>1, <2>2
<1>14. Grouped(Tail(todo), pos, no_struct_lit, 1, nodes \cup {n})
  BY <1>11, <1>13 DEF Grouped
<1>15. 1 \in {0, 1}
  OBVIOUS
<1> QED BY <1>3, <1>4, <1>12, <1>14, <1>15, GroupsNow

\* What a statement that starts at p may return to.
Leave(p, T) == \A q \in At, d \in Nat : Flush(p, q) /\ Fresh(q) => Through(<<>>, q, d, 0, T)

\* One that starts later may return there too.
LEMMA LeaveOn == \A p, r \in At : \A T : Flush(p, r) /\ Leave(p, T) => Leave(r, T)
BY FlushTwo DEF Leave

\* A statement, and what one is made of.
LEMMA StmtGoes ==
  ASSUME NEW f \in Stmts, NEW p \in At, NEW c \in Nat, NEW n \in 0 .. 2, NEW w, Listed(w),
         \A T \in SUBSET Points : Fresh(p) /\ Leave(p, T) => Through(w, p + n, c, 0, T)
  PROVE  Goes(Call(f), p, c, n, w, c)
<1>1. ASSUME NEW k \in {0, 1}, NEW T \in SUBSET Points, Safe(Call(f), p, c, k, T)
      PROVE  k = 0 /\ Through(w, p + n, c, 0, T)
  BY <1>1, StmtMade DEF Leave
<1>2. CASE n = 0
  <2>1. p + n = p
    BY <1>2 DEF At
  <2> QED BY <1>1, <1>2, <2>1, GoesStay
<1>3. CASE n # 0
  BY <1>1, <1>3, GoesOn
<1> QED BY <1>2, <1>3

\* A part of a statement that starts at p is the next to do.
LEMMA StmtNext ==
  ASSUME NEW f \in Stmts, NEW p \in At, NEW r \in At, NEW c \in Nat, NEW T, NEW v, NEW w, Behind(v, Call(f), w),
         Fresh(r), Flush(p, r),
         \A q \in At, d \in Nat : Flush(p, q) /\ Fresh(q) => Through(w, q, d, 0, T)
  PROVE  Through(v, r, c, 0, T)
<1>1. \A q \in At, d \in Nat : Flush(r, q) /\ Fresh(q) => Through(w, q, d, 0, T)
  BY FlushTwo
<1> QED BY <1>1, StmtMake

\* A block of it.
LEMMA BlockNext ==
  ASSUME NEW p \in At, NEW r \in At, NEW c \in Nat, NEW k \in {0, 1}, NEW T, NEW v, NEW w,
         Behind(v, Call("parse_block"), w), ~OpensLiteral(r), Flush(p, r),
         \A q \in At, d \in Nat : Flush(p, q) /\ Fresh(q) => Through(w, q, d, 0, T)
  PROVE  Through(v, r, c, k, T)
<1>1. \A q \in At, d \in Nat : Flush(r, q) /\ Fresh(q) => Through(w, q, d, 0, T)
  BY FlushTwo
<1> QED BY <1>1, ThenBlock

\* Nothing more.
LEMMA GoesStmtEnd ==
  ASSUME NEW f \in Stmts, NEW p \in At, NEW c \in Nat
  PROVE  Goes(Call(f), p, c, 0, <<>>, c)
<1>1. p + 0 = p /\ 0 \in 0 .. 2
  BY DEF At
<1>2. ASSUME NEW T \in SUBSET Points, Fresh(p), Leave(p, T) PROVE Through(<<>>, p + 0, c, 0, T)
  BY <1>1, <1>2, FlushNone DEF Leave
<1> QED BY <1>1, <1>2, ListedAre, StmtGoes

\* Statements with a condition.
LEMMA GoesIf ==
  ASSUME NEW p \in At, NEW c \in Nat, toks[p] \in Conditions
  PROVE  /\ Goes(Call("parse_stmt"), p, c, 1, Condition \o <<Call("parse_block"), Call("else")>>, c)
         /\ Goes(Call("parse_stmt"), p, c, 1, Condition \o <<Call("parse_block")>>, c)
<1>1. PICK a, b : a = Call("parse_block") /\ b = Call("else") /\ "else" \in Stmts /\ "parse_stmt" \in Stmts
  BY DEF Stmts
<1>2. /\ Behind(<<a, b>>, a, <<b>>) /\ Behind(<<b>>, b, <<>>) /\ Behind(<<a>>, a, <<>>)
      /\ Listed(<<a, b>>) /\ Listed(<<a>>)
  BY Behinds, ListedAre
<1>3. Listed(Condition \o <<a, b>>) /\ Listed(Condition \o <<a>>)
  BY <1>2, ListedAre, ListedConcat, Zenon DEF Condition
<1>4. p + 1 \in At /\ Flush(p, p + 1) /\ Conditional(p + 1) /\ Fence(p + 1, ASSIGN) /\ 1 \in 0 .. 2
  BY Nearby, AfterCondition
<1>5. ASSUME NEW q \in At, Span(p + 1, q, ASSIGN) PROVE Flush(p, q) /\ ~OpensLiteral(q)
  <2>1. Conditional(q)
    BY <1>4, <1>5 DEF Span
  <2> QED BY <1>4, <1>5, <2>1, SpanFlush, FlushTwo, NoLiteral
<1>6. ASSUME NEW T, Leave(p, T), NEW q \in At, NEW d \in Nat, Flush(p, q), Fresh(q)
      PROVE  Through(<<>>, q, d, 0, T) /\ Through(<<b>>, q, d, 0, T)
  <2>1. \A r \in At, e \in Nat : Flush(p, r) /\ Fresh(r) => Through(<<>>, r, e, 0, T)
    BY <1>6 DEF Leave
  <2> QED BY <1>1, <1>2, <1>6, <2>1, StmtNext
<1>7. ASSUME NEW T \in SUBSET Points, Leave(p, T), NEW q \in At, NEW j \in {0, 1}, Span(p + 1, q, ASSIGN)
      PROVE  Through(<<a, b>>, q, c, j, T) /\ Through(<<a>>, q, c, j, T)
  <2>1. Flush(p, q) /\ ~OpensLiteral(q)
    BY <1>5, <1>7
  <2>2. Behind(<<a, b>>, Call("parse_block"), <<b>>) /\ Behind(<<a>>, Call("parse_block"), <<>>)
    BY <1>1, <1>2
  <2>3. Through(<<a, b>>, q, c, j, T)
    BY <1>6, <1>7, <2>1, <2>2, BlockNext
  <2>4. Through(<<a>>, q, c, j, T)
    BY <1>6, <1>7, <2>1, <2>2, BlockNext
  <2> QED BY <2>3, <2>4
<1>8. ASSUME NEW T \in SUBSET Points, Leave(p, T)
      PROVE  Through(Condition \o <<a, b>>, p + 1, c, 0, T) /\ Through(Condition \o <<a>>, p + 1, c, 0, T)
  <2>1. <<a, b>> \in Seq({a, b}) /\ <<a>> \in Seq({a, b})
    OBVIOUS
  <2>2. Through(Condition \o <<a, b>>, p + 1, c, 0, T)
    BY <1>4, <1>7, <1>8, <2>1, ThenCondition
  <2>3. Through(Condition \o <<a>>, p + 1, c, 0, T)
    BY <1>4, <1>7, <1>8, <2>1, ThenCondition
  <2> QED BY <2>2, <2>3
<1>9. Goes(Call("parse_stmt"), p, c, 1, Condition \o <<a, b>>, c)
  BY <1>1, <1>3, <1>4, <1>8, StmtGoes
<1>10. Goes(Call("parse_stmt"), p, c, 1, Condition \o <<a>>, c)
  BY <1>1, <1>3, <1>4, <1>8, StmtGoes
<1> QED BY <1>1, <1>9, <1>10

\* A loop over a range.
LEMMA GoesFor ==
  ASSUME NEW p \in At, NEW c \in Nat, toks[p] \in Conditions
  PROVE  Goes(Call("parse_stmt"), p, c, 1,
              <<Expect("ident"), Expect("in")>> \o Condition \o <<Call("parse_block")>>, c)
<1>1. PICK a, b, d, s : /\ a = Expect("ident") /\ s = "in" /\ b = Expect(s) /\ s \in Signs /\ s \in Dividers
                        /\ d = Call("parse_block") /\ "parse_stmt" \in Stmts
  BY Zenon DEF Signs, Dividers, Stmts
<1>2. PICK u, v : u = Condition \o <<d>> /\ v = <<b>> \o u
  OBVIOUS
<1>3. PICK S : /\ <<a>> \in Seq(S) /\ <<b>> \in Seq(S) /\ Condition \in Seq(S) /\ <<d>> \in Seq(S)
               /\ a \in S /\ b \in S
  <2>1. PICK x, y, z : Condition = <<x, y, z>>
    BY Zenon DEF Condition
  <2>2. PICK S : S = {a, b, d, x, y, z}
    OBVIOUS
  <2>3. <<x, y, z>> \in Seq(S) /\ <<a>> \in Seq(S) /\ <<b>> \in Seq(S) /\ <<d>> \in Seq(S) /\ a \in S /\ b \in S
    BY <2>2
  <2> QED BY <2>1, <2>3
<1>4. u \in Seq(S) /\ v \in Seq(S) /\ <<a>> \o v \in Seq(S)
  BY <1>2, <1>3, ConcatProperties
<1>5. (<<a, b>> \o Condition) \o <<d>> = <<a>> \o v
  <2>1. <<a, b>> = <<a>> \o <<b>>
    BY Longer
  <2>2. (<<a>> \o <<b>>) \o Condition = <<a>> \o (<<b>> \o Condition)
    BY <1>3, ConcatAssociative
  <2>3. <<b>> \o Condition \in Seq(S)
    BY <1>3, ConcatProperties
  <2>4. (<<a>> \o (<<b>> \o Condition)) \o <<d>> = <<a>> \o ((<<b>> \o Condition) \o <<d>>)
    BY <1>3, <2>3, ConcatAssociative
  <2>5. (<<b>> \o Condition) \o <<d>> = <<b>> \o (Condition \o <<d>>)
    BY <1>3, ConcatAssociative
  <2> QED BY <1>2, <2>1, <2>2, <2>4, <2>5
<1>6. Behind(<<a>> \o v, a, v) /\ Behind(v, b, u) /\ Behind(<<d>>, d, <<>>) /\ Listed(<<a>> \o v)
  BY <1>2, <1>3, <1>4, Behinds DEF Behind, Listed
<1>7. /\ p + 1 \in At /\ p + 2 \in At /\ p + 3 \in At /\ (p + 1) + 1 = p + 2 /\ (p + 2) + 1 = p + 3
      /\ Flush(p, p + 1) /\ Conditional(p + 1) /\ 1 \in 0 .. 2
  BY Nearby, AfterCondition
<1>8. ASSUME NEW T \in SUBSET Points, Leave(p, T) PROVE Through(<<a>> \o v, p + 1, c, 0, T)
  <2>1. ASSUME toks[p + 1] \in Idents, toks[p + 2] = s PROVE Through(u, p + 3, c, 0, T)
    <3>1. Span(p + 1, (p + 1) + 1, UNARY)
      BY <1>7, <2>1, SpanToken
    <3>2. Flush(p, p + 2) /\ Conditional(p + 2)
      BY <1>7, <3>1, SpanFlush, FlushTwo DEF Span
    <3>3. Calm(p + 2, p + 3) /\ Conditional(p + 3) /\ Fence(p + 3, ASSIGN)
      BY <1>1, <1>7, <2>1, <3>2, AfterDivider
    <3>4. Flush(p, p + 3)
      BY <1>7, <3>2, <3>3, FlushTwo DEF Calm
    <3>5. ASSUME NEW q \in At, NEW j \in {0, 1}, Span(p + 3, q, ASSIGN) PROVE Through(<<d>>, q, c, j, T)
      <4>1. Conditional(q) /\ Flush(p, q)
        BY <1>7, <3>3, <3>4, <3>5, SpanFlush, FlushTwo DEF Span
      <4>2. Behind(<<d>>, Call("parse_block"), <<>>)
        BY <1>1, <1>6
      <4> QED BY <1>8, <4>1, <4>2, NoLiteral, BlockNext DEF Leave
    <3> QED BY <1>2, <1>3, <1>7, <3>3, <3>5, ThenCondition
  <2>2. ASSUME toks[p + 1] \in Idents PROVE Through(v, (p + 1) + 1, c, 0, T)
    <3>1. toks[p + 2] = s => Through(u, (p + 2) + 1, c, 0, T)
      BY <1>7, <2>1, <2>2
    <3>2. Through(v, p + 2, c, 0, T)
      BY <1>1, <1>6, <1>7, <3>1, ThenSign
    <3> QED BY <1>7, <3>2
  <2> QED BY <1>1, <1>6, <1>7, <2>2, ThenIdent
<1>9. Goes(Call("parse_stmt"), p, c, 1, <<a>> \o v, c)
  BY <1>1, <1>6, <1>7, <1>8, StmtGoes
<1>10. Goes(Call("parse_stmt"), p, c, 1, (<<a, b>> \o Condition) \o <<d>>, c)
  BY <1>5, <1>9
<1> QED BY <1>1, <1>10, Zenon

\* What stands between braces, when the one that opens them has been read.
LEMMA BracesOn ==
  ASSUME NEW f \in Stmts, NEW p \in At, NEW q \in At, NEW c \in Nat, NEW T, NEW s \in Unbrace,
         toks[q] \in Brace, Flush(p, q),
         \A r \in At, d \in Nat : Flush(p, r) /\ (~OpensLiteral(q) => Fresh(r)) => Through(<<>>, r, d, 0, T)
  PROVE  Through(<<Call(f), Expect(s)>>, q + 1, c, 0, T)
<1>1. PICK a, b : a = Call(f) /\ b = Expect(s) /\ s \in Stops \cap Signs
  BY SignsAre
<1>2. Behind(<<a, b>>, a, <<b>>) /\ Behind(<<b>>, b, <<>>)
  BY Behinds
<1>3. q + 1 \in At /\ Fresh(q + 1)
  BY Nearby, FreshBlock
<1>4. ASSUME NEW r \in At, NEW d \in Nat, Flush(q + 1, r) PROVE Through(<<b>>, r, d, 0, T)
  <2>1. ASSUME toks[r] = s PROVE Through(<<>>, r + 1, d, 0, T)
    <3>1. Flush(q, r + 1) /\ (~OpensLiteral(q) => Fresh(r + 1)) /\ r + 1 \in At
      BY <1>4, <2>1, BlockOver, Nearby
    <3>2. Flush(p, r + 1)
      BY <3>1, FlushTwo
    <3> QED BY <3>1, <3>2
  <2> QED BY <1>1, <1>2, <2>1, ThenStop
<1>5. Through(<<a, b>>, q + 1, c, 0, T)
  BY <1>1, <1>2, <1>3, <1>4, StmtMake
<1> QED BY <1>1, <1>5

\* The same from where the opening brace is expected.
LEMMA BracesNext ==
  ASSUME NEW f \in Stmts, NEW p \in At, NEW q \in At, NEW c \in Nat, NEW k \in {0, 1}, NEW T,
         NEW o \in Brace, NEW s \in Unbrace, Flush(p, q), k = 1 => ~OpensLiteral(q),
         \A r \in At, d \in Nat : Flush(p, r) /\ (~OpensLiteral(q) => Fresh(r)) => Through(<<>>, r, d, 0, T)
  PROVE  Through(<<Expect(o), Call(f), Expect(s)>>, q, c, k, T)
<1>1. PICK u, a, b : u = Expect(o) /\ a = Call(f) /\ b = Expect(s)
  OBVIOUS
<1>2. Behind(<<u, a, b>>, u, <<a, b>>)
  BY Behinds
<1>3. IsA(toks[q], o) => toks[q] \in Brace
  BY SignsAre
<1>4. toks[q] \in Brace => Through(<<a, b>>, q + 1, c, 0, T)
  BY <1>1, BracesOn
<1> QED BY <1>1, <1>2, <1>3, <1>4, ExpectMake

\* A block, and a statement that is one.
LEMMA GoesBlock ==
  ASSUME NEW p \in At, NEW c \in Nat, NEW o \in Brace, NEW s \in Unbrace
  PROVE  Goes(Call("parse_block"), p, c, 0, <<Expect(o), Call("stmts"), Expect(s)>>, c)
<1>1. ASSUME NEW k \in {0, 1}, NEW T \in SUBSET Points, Safe(Call("parse_block"), p, c, k, T)
      PROVE  Through(<<Expect(o), Call("stmts"), Expect(s)>>, p, c, k, T)
  <2>1. /\ k = 1 => ~OpensLiteral(p)
        /\ \A q \in At, d \in Nat : Flush(p, q) /\ (~OpensLiteral(p) => Fresh(q)) => Through(<<>>, q, d, 0, T)
    BY <1>1, BlockMade
  <2>2. "stmts" \in Stmts /\ Flush(p, p)
    BY FlushNone DEF Stmts
  <2> QED BY <2>1, <2>2, BracesNext
<1> QED BY <1>1, ListedAre, GoesStay

\* A statement that is a block, and one that is a statement.
LEMMA GoesInner ==
  ASSUME NEW f \in Stmts, NEW p \in At, NEW c \in Nat
  PROVE  /\ Goes(Call(f), p, c, 0, <<Call("parse_block")>>, c)
         /\ Goes(Call(f), p, c, 0, <<Call("parse_stmt")>>, c)
         /\ toks[p] \in Dividers => /\ Goes(Call(f), p, c, 1, <<Call("parse_block")>>, c)
                                    /\ Goes(Call(f), p, c, 1, <<Call("parse_stmt")>>, c)
<1>1. PICK a, b : a = Call("parse_block") /\ b = Call("parse_stmt") /\ "parse_stmt" \in Stmts
  BY DEF Stmts
<1>2. Behind(<<a>>, a, <<>>) /\ Behind(<<b>>, b, <<>>) /\ Listed(<<a>>) /\ Listed(<<b>>)
  BY Behinds, ListedAre
<1>3. p + 0 = p /\ 0 \in 0 .. 2 /\ 1 \in 0 .. 2 /\ p + 1 \in At /\ Flush(p, p)
  BY Nearby, FlushNone DEF At
<1>4. ASSUME NEW T \in SUBSET Points, Leave(p, T), NEW r \in At, Fresh(r), Flush(p, r)
      PROVE  Through(<<a>>, r, c, 0, T) /\ Through(<<b>>, r, c, 0, T)
  <2>1. ~OpensLiteral(r)
    BY <1>4, NoLiteral
  <2>2. Through(<<a>>, r, c, 0, T)
    BY <1>1, <1>2, <1>4, <2>1, BlockNext DEF Leave
  <2>3. Through(<<b>>, r, c, 0, T)
    BY <1>1, <1>2, <1>4, StmtNext DEF Leave
  <2> QED BY <2>2, <2>3
<1>5. Goes(Call(f), p, c, 0, <<a>>, c) /\ Goes(Call(f), p, c, 0, <<b>>, c)
  BY <1>2, <1>3, <1>4, StmtGoes
<1>6. ASSUME toks[p] \in Dividers PROVE Goes(Call(f), p, c, 1, <<a>>, c) /\ Goes(Call(f), p, c, 1, <<b>>, c)
  <2>1. ASSUME Fresh(p) PROVE Fresh(p + 1) /\ Flush(p, p + 1)
    BY <1>6, <2>1, AfterDivider DEF Fresh, Calm
  <2>2. \A T \in SUBSET Points : Fresh(p) /\ Leave(p, T) => Through(<<a>>, p + 1, c, 0, T)
    BY <1>3, <1>4, <2>1
  <2>3. \A T \in SUBSET Points : Fresh(p) /\ Leave(p, T) => Through(<<b>>, p + 1, c, 0, T)
    BY <1>3, <1>4, <2>1
  <2>4. Goes(Call(f), p, c, 1, <<a>>, c)
    BY <1>2, <1>3, <2>2, StmtGoes
  <2>5. Goes(Call(f), p, c, 1, <<b>>, c)
    BY <1>2, <1>3, <2>3, StmtGoes
  <2> QED BY <2>4, <2>5
<1> QED BY <1>1, <1>5, <1>6

\* Statements one after the other.
LEMMA GoesStmts ==
  ASSUME NEW p \in At, NEW c \in Nat
  PROVE  Goes(Call("stmts"), p, c, 0, <<Call("parse_stmt"), Call("stmts")>>, c)
<1>1. PICK a, b : a = Call("parse_stmt") /\ b = Call("stmts") /\ "parse_stmt" \in Stmts /\ "stmts" \in Stmts
  BY DEF Stmts
<1>2. Behind(<<a, b>>, a, <<b>>) /\ Behind(<<b>>, b, <<>>) /\ Listed(<<a, b>>)
  BY Behinds, ListedAre
<1>3. p + 0 = p /\ 0 \in 0 .. 2 /\ Flush(p, p)
  BY FlushNone DEF At
<1>4. ASSUME NEW T \in SUBSET Points, Fresh(p), Leave(p, T) PROVE Through(<<a, b>>, p, c, 0, T)
  <2>1. \A q \in At, d \in Nat : Flush(p, q) /\ Fresh(q) => Through(<<>>, q, d, 0, T)
    BY <1>4 DEF Leave
  <2>2. ASSUME NEW q \in At, NEW d \in Nat, Flush(p, q), Fresh(q) PROVE Through(<<b>>, q, d, 0, T)
    BY <1>1, <1>2, <2>1, <2>2, StmtNext
  <2> QED BY <1>1, <1>2, <1>3, <1>4, <2>2, StmtNext
<1>5. Goes(Call("stmts"), p, c, 0, <<a, b>>, c)
  BY <1>1, <1>2, <1>3, <1>4, StmtGoes
<1> QED BY <1>1, <1>5

\* A match.
LEMMA GoesMatchStmt ==
  ASSUME NEW p \in At, NEW c \in Nat, toks[p] \in Conditions, NEW o \in Brace, NEW s \in Unbrace
  PROVE  Goes(Call("parse_stmt"), p, c, 1, Condition \o <<Expect(o), Call("arms"), Expect(s)>>, c)
<1>1. PICK w, S : w = <<Expect(o), Call("arms"), Expect(s)>> /\ w \in Seq(S)
  <2>1. PICK x, y, z : x = Expect(o) /\ y = Call("arms") /\ z = Expect(s)
    OBVIOUS
  <2>2. <<x, y, z>> \in Seq({x, y, z})
    OBVIOUS
  <2> QED BY <2>1, <2>2
<1>2. Listed(Condition \o w)
  BY <1>1, ListedAre, ListedConcat, Zenon DEF Condition, Listed
<1>3. p + 1 \in At /\ Flush(p, p + 1) /\ Conditional(p + 1) /\ Fence(p + 1, ASSIGN) /\ 1 \in 0 .. 2
  BY Nearby, AfterCondition
<1>4. ASSUME NEW T \in SUBSET Points, Leave(p, T) PROVE Through(Condition \o w, p + 1, c, 0, T)
  <2>1. ASSUME NEW q \in At, NEW j \in {0, 1}, Span(p + 1, q, ASSIGN) PROVE Through(w, q, c, j, T)
    <3>1. Conditional(q) /\ Flush(p, q)
      BY <1>3, <2>1, SpanFlush, FlushTwo DEF Span
    <3>2. ~OpensLiteral(q) /\ "arms" \in Stmts
      BY <3>1, NoLiteral DEF Stmts
    <3>3. \A r \in At, d \in Nat : Flush(p, r) /\ (~OpensLiteral(q) => Fresh(r)) => Through(<<>>, r, d, 0, T)
      BY <1>4, <3>2 DEF Leave
    <3> QED BY <1>1, <3>1, <3>2, <3>3, BracesNext
  <2> QED BY <1>1, <1>3, <2>1, ThenCondition
<1>5. "parse_stmt" \in Stmts
  BY DEF Stmts
<1>6. Goes(Call("parse_stmt"), p, c, 1, Condition \o w, c)
  BY <1>2, <1>3, <1>4, <1>5, StmtGoes
<1> QED BY <1>1, <1>6

\* An arm behind its pattern.
LEMMA ArmOn ==
  ASSUME NEW p \in At, NEW q \in At, NEW c \in Nat, NEW j \in {0, 1}, NEW T, Flush(p, q), ~Conditional(q),
         Leave(p, T), NEW g \in Dividers \cap Stops \cap Signs, NEW e \in Dividers, e # "ident"
  PROVE  Through(<<Expect(g), Call("arm_body"), Optional(e), Call("arms")>>, q, c, j, T)
<1>1. PICK u, a, b, d : /\ u = Expect(g) /\ a = Call("arm_body") /\ b = Optional(e) /\ d = Call("arms")
                        /\ "arm_body" \in Stmts /\ "arms" \in Stmts
  BY DEF Stmts
<1>2. /\ Behind(<<u, a, b, d>>, u, <<a, b, d>>) /\ Behind(<<a, b, d>>, a, <<b, d>>)
      /\ Behind(<<b, d>>, b, <<d>>)
      /\ Behind(<<d>>, d, <<>>)
  BY Behinds
<1>3. ASSUME NEW r \in At, NEW i \in Nat, Flush(p, r), Fresh(r) PROVE Through(<<d>>, r, i, 0, T)
  BY <1>1, <1>2, <1>3, StmtNext DEF Leave
<1>4. ASSUME NEW r \in At, NEW i \in Nat, Flush(p, r), Fresh(r) PROVE Through(<<b, d>>, r, i, 0, T)
  <2>1. ASSUME IsA(toks[r], e) PROVE Through(<<d>>, r + 1, i, 0, T)
    <3>1. toks[r] \in Dividers /\ r + 1 \in At
      BY <2>1, IsAIs, Nearby
    <3>2. Flush(p, r + 1) /\ Fresh(r + 1)
      BY <1>4, <3>1, AfterDivider, FlushTwo DEF Calm, Fresh
    <3> QED BY <1>3, <3>1, <3>2
  <2> QED BY <1>1, <1>2, <1>3, <1>4, <2>1, OptionalMake
<1>5. ASSUME toks[q] = g PROVE Through(<<a, b, d>>, q + 1, c, 0, T)
  <2>1. q + 1 \in At /\ Fresh(q + 1) /\ Flush(p, q + 1)
    BY <1>5, AfterDivider, FlushTwo, Nearby DEF Calm
  <2> QED BY <1>1, <1>2, <1>4, <2>1, StmtNext
<1>6. Through(<<u, a, b, d>>, q, c, j, T)
  BY <1>1, <1>2, <1>5, ThenStop
<1> QED BY <1>1, <1>6

\* The whole arm.
LEMMA GoesArm ==
  ASSUME NEW p \in At, NEW c \in Nat, NEW g \in Dividers \cap Stops \cap Signs, NEW e \in Dividers, e # "ident"
  PROVE  /\ Goes(Call("arms"), p, c, 0, <<parse_expr, Expect(g), Call("arm_body"), Optional(e), Call("arms")>>,
                 c)
         /\ \A k \in Signs \ (Brackets \cup Conditions \cup Ending) : toks[p] = k =>
              Goes(Call("arms"), p, c, 0,
                   <<Optional(k), Expect(g), Call("arm_body"), Optional(e), Call("arms")>>, c)
<1>1. PICK u, a, b, d, x : /\ u = Expect(g) /\ a = Call("arm_body") /\ b = Optional(e) /\ d = Call("arms")
                           /\ x = parse_expr /\ "arms" \in Stmts
  BY DEF Stmts
<1>2. p + 0 = p /\ 0 \in 0 .. 2 /\ p + 1 \in At
  BY Nearby DEF At
<1>3. ASSUME NEW T \in SUBSET Points, Leave(p, T), NEW q \in At, NEW j \in {0, 1}, Flush(p, q), ~Conditional(q)
      PROVE  Through(<<u, a, b, d>>, q, c, j, T)
  BY <1>1, <1>3, ArmOn
<1>4. Behind(<<x, u, a, b, d>>, x, <<u, a, b, d>>) /\ Listed(<<x, u, a, b, d>>)
  BY Behinds, ListedAre
<1>5. ASSUME NEW T \in SUBSET Points, Fresh(p), Leave(p, T) PROVE Through(<<x, u, a, b, d>>, p, c, 0, T)
  <2>1. Fence(p, ASSIGN) /\ ~Conditional(p)
    BY <1>5 DEF Fresh
  <2>2. ASSUME NEW q \in At, NEW j \in {0, 1}, Span(p, q, ASSIGN) PROVE Through(<<u, a, b, d>>, q, c, j, T)
    <3>1. Flush(p, q) /\ ~Conditional(q)
      BY <2>1, <2>2, SpanFlush DEF Span
    <3> QED BY <1>3, <1>5, <3>1
  <2> QED BY <1>1, <1>4, <2>1, <2>2, ThenExpr
<1>6. Goes(Call("arms"), p, c, 0, <<x, u, a, b, d>>, c)
  BY <1>1, <1>2, <1>4, <1>5, StmtGoes
<1>7. ASSUME NEW k \in Signs \ (Brackets \cup Conditions \cup Ending), toks[p] = k
      PROVE  Goes(Call("arms"), p, c, 0, <<Optional(k), u, a, b, d>>, c)
  <2>1. PICK y : y = Optional(k)
    OBVIOUS
  <2>2. Behind(<<y, u, a, b, d>>, y, <<u, a, b, d>>) /\ Listed(<<y, u, a, b, d>>)
    BY Behinds, ListedAre
  <2>3. ASSUME NEW T \in SUBSET Points, Fresh(p), Leave(p, T) PROVE Through(<<y, u, a, b, d>>, p, c, 0, T)
    <3>1. Calm(p, p + 1)
      BY <1>7, CalmOne
    <3>2. Flush(p, p + 1) /\ ~Conditional(p + 1)
      BY <2>3, <3>1 DEF Calm, Fresh
    <3>3. Through(<<u, a, b, d>>, p + 1, c, 0, T)
      BY <1>2, <1>3, <2>3, <3>2
    <3>4. IsA(toks[p], k)
      BY <1>7, SignsAre
    <3> QED BY <2>1, <2>2, <3>3, <3>4, OptionalMake
  <2>4. Goes(Call("arms"), p, c, 0, <<y, u, a, b, d>>, c)
    BY <1>1, <1>2, <2>2, <2>3, StmtGoes
  <2> QED BY <2>1, <2>4
<1> QED BY <1>1, <1>6, <1>7

\* Statements that are one expression, or none.
LEMMA GoesSemi ==
  ASSUME NEW p \in At, NEW c \in Nat, NEW s \in Semicolon, toks[p] \notin Brackets
  PROVE  Goes(Call("parse_stmt"), p, c, 1, <<Expect(s)>>, c)
<1>1. p + 1 \in At /\ Flush(p, p + 1) /\ 1 \in 0 .. 2 /\ "parse_stmt" \in Stmts /\ 0 \in {0, 1}
  BY Nearby, FlushOne DEF Stmts
<1>2. ASSUME NEW T \in SUBSET Points, Leave(p, T) PROVE Through(<<Expect(s)>>, p + 1, c, 0, T)
  BY <1>1, <1>2, ThenSemi DEF Leave
<1> QED BY <1>1, <1>2, ListedAre, StmtGoes

\* One expression.
LEMMA GoesExpr ==
  ASSUME NEW p \in At, NEW c \in Nat, NEW s \in Semicolon
  PROVE  /\ Goes(Call("parse_stmt"), p, c, 0, <<parse_expr, Expect(s)>>, c)
         /\ toks[p] \in Dividers => Goes(Call("parse_stmt"), p, c, 1, <<parse_expr, Expect(s)>>, c)
<1>1. /\ p + 1 \in At /\ p + 0 = p /\ Flush(p, p) /\ 0 \in 0 .. 2 /\ 1 \in 0 .. 2 /\ "parse_stmt" \in Stmts
      /\ Listed(<<parse_expr, Expect(s)>>)
  BY Nearby, FlushNone, ListedAre DEF At, Stmts
<1>2. ASSUME NEW T \in SUBSET Points, Leave(p, T), NEW r \in At, Fresh(r), Flush(p, r)
      PROVE  Through(<<parse_expr, Expect(s)>>, r, c, 0, T)
  BY <1>2, ThenExprSemi DEF Leave, Fresh
<1>3. Goes(Call("parse_stmt"), p, c, 0, <<parse_expr, Expect(s)>>, c)
  BY <1>1, <1>2, StmtGoes
<1>4. ASSUME toks[p] \in Dividers PROVE Goes(Call("parse_stmt"), p, c, 1, <<parse_expr, Expect(s)>>, c)
  <2>1. Fresh(p) => Fresh(p + 1) /\ Flush(p, p + 1)
    BY <1>4, AfterDivider DEF Fresh, Calm
  <2>2. \A T \in SUBSET Points : Fresh(p) /\ Leave(p, T) => Through(<<parse_expr, Expect(s)>>, p + 1, c, 0, T)
    BY <1>1, <1>2, <2>1
  <2> QED BY <1>1, <2>2, StmtGoes
<1> QED BY <1>3, <1>4

\* An assertion.
LEMMA GoesAssert ==
  ASSUME NEW p \in At, NEW c \in Nat, NEW s \in Semicolon, toks[p] \notin Brackets
  PROVE  Goes(Call("parse_stmt"), p, c, 1, <<Expect("("), parse_expr, Expect(")"), Expect(s)>>, c)
<1>1. PICK x, y, u, a, b, d : /\ x = "(" /\ y = ")" /\ u = Expect(x) /\ a = parse_expr /\ b = Expect(y)
                              /\ d = Expect(s)
                              /\ x \in Signs /\ y \in Stops \cap Signs
  BY Zenon DEF Signs, Stops
<1>2. /\ Behind(<<u, a, b, d>>, u, <<a, b, d>>) /\ Behind(<<a, b, d>>, a, <<b, d>>)
      /\ Behind(<<b, d>>, b, <<d>>)
      /\ Listed(<<u, a, b, d>>)
  BY Behinds, ListedAre
<1>3. /\ p + 1 \in At /\ p + 2 \in At /\ (p + 1) + 1 = p + 2 /\ Flush(p, p + 1) /\ 1 \in 0 .. 2
      /\ "parse_stmt" \in Stmts
  BY Nearby, FlushOne DEF Stmts
<1>4. ASSUME NEW T \in SUBSET Points, Leave(p, T) PROVE Through(<<u, a, b, d>>, p + 1, c, 0, T)
  <2>1. ASSUME toks[p + 1] = x PROVE Through(<<a, b, d>>, (p + 1) + 1, c, 0, T)
    <3>1. Fence(p + 2, ASSIGN) /\ ~Conditional(p + 2)
      BY <1>1, <1>3, <2>1, FreshIn DEF Fresh
    <3>2. ASSUME NEW q \in At, NEW j \in {0, 1}, Span(p + 2, q, ASSIGN) PROVE Through(<<b, d>>, q, c, j, T)
      <4>1. ASSUME toks[q] = y PROVE Through(<<d>>, q + 1, c, 0, T)
        <5>1. Span(p + 1, q + 1, ASSIGN)
          BY <1>1, <1>3, <2>1, <3>2, <4>1, SpanFlush, SpanBracket
        <5>2. Flush(p, q + 1) /\ q + 1 \in At
          BY <1>3, <5>1, SpanFlush, FlushTwo, Nearby
        <5> QED BY <1>1, <1>4, <5>2, ThenSemi DEF Leave
      <4> QED BY <1>1, <1>2, <4>1, ThenStop
    <3> QED BY <1>1, <1>2, <1>3, <3>1, <3>2, ThenExpr
  <2> QED BY <1>1, <1>2, <1>3, <2>1, ThenSign
<1>5. Goes(Call("parse_stmt"), p, c, 1, <<u, a, b, d>>, c)
  BY <1>2, <1>3, <1>4, StmtGoes
<1> QED BY <1>1, <1>5, Zenon

\* A definition by its value, and one by its type.
LEMMA GoesLet ==
  ASSUME NEW p \in At, NEW c \in Nat, NEW s \in Semicolon, toks[p] \in Idents
  PROVE  /\ toks[p + 1] \in Dividers => Goes(Call("parse_stmt"), p, c, 2, <<parse_expr, Expect(s)>>, c)
         /\ toks[p + 1] = ":" =>
              Goes(Call("parse_stmt"), p, c, 2, <<Call("parse_type"), Call("init"), Expect(s)>>, c)
<1>1. /\ p + 1 \in At /\ p + 2 \in At /\ (p + 1) + 1 = p + 2 /\ Calm(p, p + 1) /\ 2 \in 0 .. 2
      /\ "parse_stmt" \in Stmts /\ 0 \in {0, 1}
  <2>1. Calm(p, p + 1)
    BY CalmOne, KindsIn
  <2>2. "parse_stmt" \in Stmts
    BY DEF Stmts
  <2> QED BY <2>1, <2>2, Nearby
<1>2. ASSUME toks[p + 1] \in Dividers PROVE Goes(Call("parse_stmt"), p, c, 2, <<parse_expr, Expect(s)>>, c)
  <2>1. Calm(p + 1, p + 2) /\ Fence(p + 2, ASSIGN)
    BY <1>1, <1>2, AfterDivider
  <2>2. Calm(p, p + 2)
    BY <1>1, <2>1, CalmTwo
  <2>3. ASSUME NEW T \in SUBSET Points, Fresh(p), Leave(p, T)
        PROVE  Through(<<parse_expr, Expect(s)>>, p + 2, c, 0, T)
    <3>1. Flush(p, p + 2) /\ ~Conditional(p + 2)
      BY <2>2, <2>3 DEF Calm, Fresh
    <3> QED BY <1>1, <2>1, <2>3, <3>1, ThenExprSemi DEF Leave
  <2> QED BY <1>1, <2>3, ListedAre, StmtGoes
<1>3. ASSUME toks[p + 1] = ":"
      PROVE  Goes(Call("parse_stmt"), p, c, 2, <<Call("parse_type"), Call("init"), Expect(s)>>, c)
  <2>1. PICK a, b, d : a = Call("parse_type") /\ b = Call("init") /\ d = Expect(s)
    OBVIOUS
  <2>2. /\ Behind(<<a, b, d>>, a, <<b, d>>) /\ Behind(<<b, d>>, b, <<d>>) /\ Listed(<<a, b, d>>)
    BY Behinds, ListedAre
  <2>3. ":" \notin Brackets \cup Conditions \cup Ending
    <3>1. Brackets = {"(", "[", "{"} \cup {")", "]", "}"}
      BY BracketsAre DEF Brackets
    <3> QED BY <3>1, Zenon DEF Conditions, Ending
  <2>4. Calm(p, p + 2)
    BY <1>1, <1>3, <2>3, CalmOne, CalmTwo
  <2>5. ASSUME NEW T \in SUBSET Points, Fresh(p), Leave(p, T) PROVE Through(<<a, b, d>>, p + 2, c, 0, T)
    <3>1. ASSUME NEW q \in At, Calm(p + 2, q), p + 2 < q, toks[q - 1] \in Idents
          PROVE  Through(<<b, d>>, q, c, 0, T)
      <4>1. Calm(p, q)
        BY <1>1, <2>4, <3>1, CalmTwo
      <4>2. ~Conditional(q) /\ Flush(p, q) /\ q > 1
        BY <2>5, <3>1, <4>1 DEF Calm, Fresh, At
      <4>3. ASSUME NEW r \in At, NEW e \in Nat, NEW j \in {0, 1}, Flush(q, r) PROVE Through(<<d>>, r, e, j, T)
        <5>1. Flush(p, r)
          BY <4>2, <4>3, FlushTwo
        <5> QED BY <2>1, <2>5, <4>3, <5>1, ThenSemi DEF Leave
      <4> QED BY <2>1, <2>2, <3>1, <4>2, <4>3, InitMake
    <3> QED BY <1>1, <2>1, <2>2, <3>1, TypeMake
  <2>6. Goes(Call("parse_stmt"), p, c, 2, <<a, b, d>>, c)
    BY <1>1, <2>2, <2>5, StmtGoes
  <2> QED BY <2>1, <2>6
<1> QED BY <1>2, <1>3

\* The value behind a type, and none.
LEMMA GoesInit ==
  ASSUME NEW p \in At, NEW c \in Nat
  PROVE  /\ toks[p] = "=" => Goes(Call("init"), p, c, 1, <<parse_expr>>, c)
         /\ Goes(Call("init"), p, c, 0, <<>>, c)
<1>1. p + 1 \in At /\ 1 \in 1 .. 2 /\ Flush(p, p)
  BY Nearby, FlushNone
<1>2. Goes(Call("init"), p, c, 0, <<>>, c)
  <2>1. ASSUME NEW k \in {0, 1}, NEW T \in SUBSET Points, Safe(Call("init"), p, c, k, T)
        PROVE  Through(<<>>, p, c, k, T)
    BY <1>1, <2>1, InitMade
  <2> QED BY <2>1, ListedAre, GoesStay
<1>3. ASSUME toks[p] = "=" PROVE Goes(Call("init"), p, c, 1, <<parse_expr>>, c)
  <2>1. PICK x : x = parse_expr
    OBVIOUS
  <2>2. Behind(<<x>>, x, <<>>) /\ Listed(<<x>>)
    BY Behinds, ListedAre
  <2>3. toks[p] \in DOMAIN Prec /\ RightMin(toks[p]) = ASSIGN
    BY <1>3, PrecIs DEF RightMin
  <2>4. ASSUME NEW k \in {0, 1}, NEW T \in SUBSET Points, Safe(Call("init"), p, c, k, T)
        PROVE  ~(k = 1 /\ Unread(p)) /\ Through(<<x>>, p + 1, c, 0, T)
    <3>1. /\ k = 0 /\ ~Conditional(p) /\ toks[p - 1] \in Idents
          /\ \A q \in At, d \in Nat, j \in {0, 1} : Flush(p, q) => Through(<<>>, q, d, j, T)
      BY <2>4, InitMade
    <3>2. EndsOperand(p - 1)
      BY <3>1 DEF EndsOperand
    <3>3. Fence(p + 1, ASSIGN) /\ ~Conditional(p + 1) /\ Flush(p, p + 1)
      BY <2>3, <3>1, <3>2, AfterBinary DEF Calm
    <3>4. ASSUME NEW q \in At, NEW j \in {0, 1}, Span(p + 1, q, ASSIGN) PROVE Through(<<>>, q, c, j, T)
      BY <1>1, <3>1, <3>3, <3>4, SpanFlush, FlushTwo
    <3> QED BY <1>1, <2>1, <2>2, <3>1, <3>3, <3>4, ThenExpr
  <2>5. Goes(Call("init"), p, c, 1, <<x>>, c)
    BY <1>1, <2>2, <2>4, GoesOn
  <2> QED BY <2>1, <2>5
<1> QED BY <1>2, <1>3

\* Statements with a condition.
LEMMA Groups_Compound == Core /\ Tree /\ Groups /\ ~had_error /\ Compound /\ ~had_error' => Groups'
<1> SUFFICES ASSUME Core, Tree, Groups, ~had_error, Compound, ~had_error' PROVE Groups'
  OBVIOUS
<1>0. /\ pos \in At /\ no_struct_lit \in Nat /\ 0 \in 0 .. 2 /\ 1 \in 0 .. 2 /\ 2 \in 0 .. 2
      /\ (0 # 0 => Here # "eof")
      /\ "parse_stmt" \in CallNames /\ "else" \in CallNames /\ "arms" \in CallNames /\ "arm_body" \in CallNames
      /\ "parse_stmt" \in Stmts /\ "else" \in Stmts /\ "arms" \in Stmts /\ "arm_body" \in Stmts
  BY TextAt DEF Core, At, CallNames, Stmts
<1>1. ASSUME Here = "if", Do("parse_stmt", 1, Condition \o <<Call("parse_block"), Call("else")>>), Plain
      PROVE  Groups'
  <2>1. toks[pos] \in Conditions /\ Here # "eof"
    BY <1>1, Zenon DEF Here, Conditions
  <2>2. Goes(Call("parse_stmt"), pos, no_struct_lit, 1, Condition \o <<Call("parse_block"), Call("else")>>,
             no_struct_lit)
    BY ONLY <1>0, <2>1, GoesIf
  <2> QED BY <1>0, <1>1, <2>1, <2>2, GroupsCall
<1>2. ASSUME Here = "while", Do("parse_stmt", 1, Condition \o <<Call("parse_block")>>), Plain
      PROVE  Groups'
  <2>1. toks[pos] \in Conditions /\ Here # "eof"
    BY <1>2, Zenon DEF Here, Conditions
  <2>2. Goes(Call("parse_stmt"), pos, no_struct_lit, 1, Condition \o <<Call("parse_block")>>, no_struct_lit)
    BY ONLY <1>0, <2>1, GoesIf
  <2> QED BY <1>0, <1>2, <2>1, <2>2, GroupsCall
<1>3. ASSUME Here = "for",
             Do("parse_stmt", 1, <<Expect("ident"), Expect("in")>> \o Condition \o <<Call("parse_block")>>),
             Plain
      PROVE  Groups'
  <2>1. toks[pos] \in Conditions /\ Here # "eof"
    BY <1>3, Zenon DEF Here, Conditions
  <2>2. Goes(Call("parse_stmt"), pos, no_struct_lit, 1,
             <<Expect("ident"), Expect("in")>> \o Condition \o <<Call("parse_block")>>, no_struct_lit)
    BY ONLY <1>0, <2>1, GoesFor
  <2> QED BY <1>0, <1>3, <2>1, <2>2, GroupsCall
<1>4. ASSUME Here = "match", Do("parse_stmt", 1, Condition \o <<Expect("{"), Call("arms"), Expect("}")>>), Plain
      PROVE  Groups'
  <2>1. PICK o \in Brace, s \in Unbrace : Expect(o) = Expect("{") /\ Expect(s) = Expect("}")
    BY Zenon DEF Brace, Unbrace
  <2>2. toks[pos] \in Conditions /\ Here # "eof"
    BY <1>4, Zenon DEF Here, Conditions
  <2>3. Goes(Call("parse_stmt"), pos, no_struct_lit, 1, Condition \o <<Expect(o), Call("arms"), Expect(s)>>,
             no_struct_lit)
    BY ONLY <1>0, <2>2, GoesMatchStmt
  <2>4. Goes(Call("parse_stmt"), pos, no_struct_lit, 1,
             Condition \o <<Expect("{"), Call("arms"), Expect("}")>>, no_struct_lit)
    BY <2>1, <2>3, Zenon
  <2> QED BY <1>0, <1>4, <2>2, <2>4, GroupsCall
<1>5. ASSUME Here = "else", Plain,
             Do("else", 1, <<IF Ahead(1) = "if" THEN Call("parse_stmt") ELSE Call("parse_block")>>)
      PROVE  Groups'
  <2>1. toks[pos] \in Dividers /\ Here # "eof"
    BY <1>5, Zenon DEF Here, Dividers
  <2>2. /\ Goes(Call("else"), pos, no_struct_lit, 1, <<Call("parse_block")>>, no_struct_lit)
        /\ Goes(Call("else"), pos, no_struct_lit, 1, <<Call("parse_stmt")>>, no_struct_lit)
    BY ONLY <1>0, <2>1, GoesInner
  <2>3. CASE Ahead(1) = "if"
    <3>1. Do("else", 1, <<Call("parse_stmt")>>)
      BY <1>5, <2>3, Zenon
    <3> QED BY <1>0, <1>5, <2>1, <2>2, <3>1, GroupsCall
  <2>4. CASE Ahead(1) # "if"
    <3>1. Do("else", 1, <<Call("parse_block")>>)
      BY <1>5, <2>4, Zenon
    <3> QED BY <1>0, <1>5, <2>1, <2>2, <3>1, GroupsCall
  <2> QED BY <2>3, <2>4
<1>6. ASSUME Do("else", 0, <<>>), Plain
      PROVE  Groups'
  <2>1. Goes(Call("else"), pos, no_struct_lit, 0, <<>>, no_struct_lit)
    BY ONLY <1>0, GoesStmtEnd
  <2> QED BY <1>0, <1>6, <2>1, GroupsCall
<1>7. ASSUME Do("arms", 0, <<>>), Plain
      PROVE  Groups'
  <2>1. Goes(Call("arms"), pos, no_struct_lit, 0, <<>>, no_struct_lit)
    BY ONLY <1>0, GoesStmtEnd
  <2> QED BY <1>0, <1>7, <2>1, GroupsCall
<1>8. ASSUME Do("arms", 0, <<IF Here = "_" THEN Optional("_") ELSE parse_expr, Expect("=>"), Call("arm_body"),
                            Optional(","), Call("arms")>>), Plain
      PROVE  Groups'
  <2>1. PICK g \in Dividers \cap Stops \cap Signs, e \in Dividers :
          Expect(g) = Expect("=>") /\ Optional(e) = Optional(",") /\ e # "ident"
    BY Zenon DEF Dividers, Stops, Signs
  <2>2. /\ Goes(Call("arms"), pos, no_struct_lit, 0,
               <<parse_expr, Expect(g), Call("arm_body"), Optional(e), Call("arms")>>, no_struct_lit)
        /\ \A k \in Signs \ (Brackets \cup Conditions \cup Ending) : toks[pos] = k =>
             Goes(Call("arms"), pos, no_struct_lit, 0,
                  <<Optional(k), Expect(g), Call("arm_body"), Optional(e), Call("arms")>>, no_struct_lit)
    BY ONLY <1>0, <2>1, GoesArm
  <2>3. CASE Here = "_"
    <3>1. Brackets = {"(", "[", "{"} \cup {")", "]", "}"}
      BY BracketsAre DEF Brackets
    <3>2. PICK k \in Signs \ (Brackets \cup Conditions \cup Ending) : k = "_"
      BY <3>1, Zenon DEF Signs, Conditions, Ending
    <3>3. Goes(Call("arms"), pos, no_struct_lit, 0,
               <<Optional(k), Expect(g), Call("arm_body"), Optional(e), Call("arms")>>, no_struct_lit)
      BY <2>2, <2>3, <3>2, Zenon DEF Here
    <3>4. Do("arms", 0, <<Optional("_"), Expect("=>"), Call("arm_body"), Optional(","), Call("arms")>>)
      BY <1>8, <2>3, Zenon
    <3>5. Do("arms", 0, <<Optional(k), Expect(g), Call("arm_body"), Optional(e), Call("arms")>>)
      BY <2>1, <3>2, <3>4, Zenon
    <3> QED BY <1>0, <1>8, <3>3, <3>5, GroupsCall
  <2>4. CASE Here # "_"
    <3>1. Do("arms", 0, <<parse_expr, Expect("=>"), Call("arm_body"), Optional(","), Call("arms")>>)
      BY <1>8, <2>4, Zenon
    <3>2. Do("arms", 0, <<parse_expr, Expect(g), Call("arm_body"), Optional(e), Call("arms")>>)
      BY <2>1, <3>1, Zenon
    <3> QED BY <1>0, <1>8, <2>2, <3>2, GroupsCall
  <2> QED BY <2>3, <2>4, Zenon
<1>9. ASSUME Do("arm_body", 0, <<IF Here = "{" THEN Call("parse_block") ELSE Call("parse_stmt")>>), Plain
      PROVE  Groups'
  <2>1. /\ Goes(Call("arm_body"), pos, no_struct_lit, 0, <<Call("parse_block")>>, no_struct_lit)
        /\ Goes(Call("arm_body"), pos, no_struct_lit, 0, <<Call("parse_stmt")>>, no_struct_lit)
    BY ONLY <1>0, GoesInner
  <2>2. Do("arm_body", 0, <<Call("parse_block")>>) \/ Do("arm_body", 0, <<Call("parse_stmt")>>)
    BY <1>9, Zenon
  <2>3. Plain
    BY <1>9
  <2> QED BY <1>0, <2>1, <2>2, <2>3, GroupsCall
<1> QED BY <1>1, <1>2, <1>3, <1>4, <1>5, <1>6, <1>7, <1>8, <1>9, Zenon DEF Compound

\* The other statements.
LEMMA Groups_Simple == Core /\ Tree /\ Groups /\ ~had_error /\ Simple /\ ~had_error' => Groups'
<1> SUFFICES ASSUME Core, Tree, Groups, ~had_error, Simple, ~had_error' PROVE Groups'
  OBVIOUS
<1>0. /\ pos \in At /\ no_struct_lit \in Nat /\ 0 \in 0 .. 2 /\ 1 \in 0 .. 2 /\ 2 \in 0 .. 2
      /\ (0 # 0 => Here # "eof")
      /\ "parse_stmt" \in CallNames /\ "parse_stmt" \in Stmts
  BY TextAt DEF Core, At, CallNames, Stmts
<1>1. PICK m \in Semicolon : Expect(m) = Expect(";")
  BY Zenon DEF Semicolon
<1>2. ASSUME Here = "return", Plain,
             Do("parse_stmt", 1,
                (IF Ahead(1) \in {";", "eof"} THEN <<>> ELSE <<parse_expr>>) \o <<Expect(";")>>)
      PROVE  Groups'
  <2>1. toks[pos] \in Dividers /\ Here # "eof"
    BY <1>2, Zenon DEF Here, Dividers
  <2>2. toks[pos] \notin Brackets
    BY ONLY <2>1, DividersAre, Zenon
  <2>3. /\ Goes(Call("parse_stmt"), pos, no_struct_lit, 1, <<Expect(m)>>, no_struct_lit)
        /\ Goes(Call("parse_stmt"), pos, no_struct_lit, 1, <<parse_expr, Expect(m)>>, no_struct_lit)
    BY ONLY <1>0, <2>1, <2>2, GoesSemi, GoesExpr
  <2>4. \A x, y : <<>> \o <<y>> = <<y>> /\ <<x>> \o <<y>> = <<x, y>>
    <3> TAKE x, y
    <3>1. <<y>> \in Seq({y})
      OBVIOUS
    <3>2. <<>> \o <<y>> = <<y>>
      BY <3>1, ConcatEmptySeq
    <3>3. <<x>> \o <<y>> = <<x, y>>
      BY Longer
    <3> QED BY <3>2, <3>3
  <2>5. \/ Do("parse_stmt", 1, <<>> \o <<Expect(";")>>)
        \/ Do("parse_stmt", 1, <<parse_expr>> \o <<Expect(";")>>)
    BY <1>2, Zenon
  <2>6. Do("parse_stmt", 1, <<Expect(m)>>) \/ Do("parse_stmt", 1, <<parse_expr, Expect(m)>>)
    BY <1>1, <2>4, <2>5, Zenon
  <2>7. Plain
    BY <1>2
  <2> QED BY <1>0, <2>1, <2>3, <2>6, <2>7, GroupsCall
<1>3. ASSUME Here = "assert", Do("parse_stmt", 1, <<Expect("("), parse_expr, Expect(")"), Expect(";")>>), Plain
      PROVE  Groups'
  <2>1. Brackets = {"(", "[", "{"} \cup {")", "]", "}"}
    BY BracketsAre DEF Brackets
  <2>2. toks[pos] \notin Brackets /\ Here # "eof"
    BY <1>3, <2>1, Zenon DEF Here
  <2>3. Goes(Call("parse_stmt"), pos, no_struct_lit, 1, <<Expect("("), parse_expr, Expect(")"), Expect(m)>>,
             no_struct_lit)
    BY ONLY <1>0, <2>2, GoesAssert
  <2>4. Do("parse_stmt", 1, <<Expect("("), parse_expr, Expect(")"), Expect(m)>>)
    BY <1>1, <1>3, Zenon
  <2> QED BY <1>0, <1>3, <2>2, <2>3, <2>4, GroupsCall
<1>4. ASSUME Here = "break", Do("parse_stmt", 1, <<Expect(";")>>), Plain PROVE Groups'
  <2>1. Brackets = {"(", "[", "{"} \cup {")", "]", "}"}
    BY BracketsAre DEF Brackets
  <2>2. toks[pos] \notin Brackets /\ Here # "eof"
    BY <1>4, <2>1, Zenon DEF Here
  <2>3. Goes(Call("parse_stmt"), pos, no_struct_lit, 1, <<Expect(m)>>, no_struct_lit)
    BY ONLY <1>0, <2>2, GoesSemi
  <2>4. Do("parse_stmt", 1, <<Expect(m)>>)
    BY <1>1, <1>4, Zenon
  <2> QED BY <1>0, <1>4, <2>2, <2>3, <2>4, GroupsCall
<1>5. ASSUME Do("parse_stmt", 0, <<Call("parse_block")>>), Plain PROVE Groups'
  <2>1. Goes(Call("parse_stmt"), pos, no_struct_lit, 0, <<Call("parse_block")>>, no_struct_lit)
    BY ONLY <1>0, GoesInner
  <2> QED BY <1>0, <1>5, <2>1, GroupsCall
<1>6. ASSUME Do("parse_stmt", 0, <<parse_expr, Expect(";")>>), Plain PROVE Groups'
  <2>1. Goes(Call("parse_stmt"), pos, no_struct_lit, 0, <<parse_expr, Expect(m)>>, no_struct_lit)
    BY ONLY <1>0, GoesExpr
  <2>2. Do("parse_stmt", 0, <<parse_expr, Expect(m)>>) /\ Plain
    BY <1>1, <1>6, Zenon
  <2> QED BY <1>0, <2>1, <2>2, GroupsCall
<1> QED BY <1>2, <1>3, <1>4, <1>5, <1>6, Zenon DEF Simple

\* Definitions.
LEMMA Groups_parse_let == Core /\ Tree /\ Groups /\ ~had_error /\ parse_let /\ ~had_error' => Groups'
<1> SUFFICES ASSUME Core, Tree, Groups, ~had_error, parse_let, ~had_error' PROVE Groups'
  OBVIOUS
<1>0. /\ pos \in At /\ no_struct_lit \in Nat /\ 0 \in 0 .. 2 /\ 1 \in 0 .. 2 /\ 2 \in 0 .. 2
      /\ (0 # 0 => Here # "eof")
      /\ "parse_stmt" \in CallNames /\ "init" \in CallNames /\ "parse_stmt" \in Stmts
  BY TextAt DEF Core, At, CallNames, Stmts
<1>1. PICK m \in Semicolon : Expect(m) = Expect(";")
  BY Zenon DEF Semicolon
<1>2. ASSUME IsLet, Plain,
             Do("parse_stmt", 2, (IF Ahead(1) = ":=" THEN <<parse_expr>>
                                  ELSE <<Call("parse_type"), Call("init")>>) \o <<Expect(";")>>)
      PROVE  Groups'
  <2>1. toks[pos] \in Idents /\ Ahead(1) = toks[pos + 1] /\ (Ahead(1) = ":=" \/ Ahead(1) = ":")
    BY <1>2, Zenon DEF IsLet, Here, Ahead
  <2>2. Here # "eof" /\ Plain
    BY <1>2, <2>1, Zenon DEF Here, Idents
  <2>3. \A x, y, z : <<x>> \o <<y>> = <<x, y>> /\ <<x, y>> \o <<z>> = <<x, y, z>>
    BY Longer
  <2>4. CASE Ahead(1) = ":="
    <3>1. toks[pos + 1] \in Dividers
      BY <2>1, <2>4, Zenon DEF Dividers
    <3>2. Goes(Call("parse_stmt"), pos, no_struct_lit, 2, <<parse_expr, Expect(m)>>, no_struct_lit)
      BY ONLY <1>0, <2>1, <3>1, GoesLet
    <3>3. Do("parse_stmt", 2, <<parse_expr>> \o <<Expect(";")>>)
      BY <1>2, <2>4, Zenon
    <3>4. Do("parse_stmt", 2, <<parse_expr, Expect(m)>>)
      BY <1>1, <2>3, <3>3, Zenon
    <3> QED BY <1>0, <2>2, <3>2, <3>4, GroupsCall
  <2>5. CASE Ahead(1) = ":"
    <3>1. toks[pos + 1] = ":" /\ Ahead(1) # ":="
      BY <2>1, <2>5, Zenon
    <3>2. Goes(Call("parse_stmt"), pos, no_struct_lit, 2, <<Call("parse_type"), Call("init"), Expect(m)>>,
               no_struct_lit)
      BY ONLY <1>0, <2>1, <3>1, GoesLet
    <3>3. Do("parse_stmt", 2, <<Call("parse_type"), Call("init")>> \o <<Expect(";")>>)
      BY <1>2, <3>1, Zenon
    <3>4. Do("parse_stmt", 2, <<Call("parse_type"), Call("init"), Expect(m)>>)
      BY <1>1, <2>3, <3>3, Zenon
    <3> QED BY <1>0, <2>2, <3>2, <3>4, GroupsCall
  <2> QED BY <2>1, <2>4, <2>5, Zenon
<1>3. ASSUME Here = "=", Do("init", 1, <<parse_expr>>), Plain PROVE Groups'
  <2>1. Goes(Call("init"), pos, no_struct_lit, 1, <<parse_expr>>, no_struct_lit)
    BY <1>0, <1>3, GoesInit DEF Here
  <2> QED BY <1>0, <1>3, <2>1, GroupsCall
<1>4. ASSUME Do("init", 0, <<>>), Plain PROVE Groups'
  <2>1. Goes(Call("init"), pos, no_struct_lit, 0, <<>>, no_struct_lit)
    BY <1>0, GoesInit
  <2> QED BY <1>0, <1>4, <2>1, GroupsCall
<1> QED BY <1>2, <1>3, <1>4, Zenon DEF parse_let

\* Blocks.
LEMMA Groups_parse_block == Core /\ Tree /\ Groups /\ ~had_error /\ parse_block /\ ~had_error' => Groups'
<1> SUFFICES ASSUME Core, Tree, Groups, ~had_error, parse_block, ~had_error' PROVE Groups'
  OBVIOUS
<1>0. /\ pos \in At /\ no_struct_lit \in Nat /\ 0 \in 0 .. 2 /\ 1 \in 0 .. 2 /\ 2 \in 0 .. 2
      /\ (0 # 0 => Here # "eof")
      /\ "parse_block" \in CallNames /\ "stmts" \in CallNames /\ "stmts" \in Stmts
  BY TextAt DEF Core, At, CallNames, Stmts
<1>1. ASSUME Do("parse_block", 0, <<Expect("{"), Call("stmts"), Expect("}")>>), Plain
      PROVE  Groups'
  <2>1. PICK o \in Brace, s \in Unbrace : Expect(o) = Expect("{") /\ Expect(s) = Expect("}")
    BY Zenon DEF Brace, Unbrace
  <2>2. Goes(Call("parse_block"), pos, no_struct_lit, 0, <<Expect(o), Call("stmts"), Expect(s)>>, no_struct_lit)
    BY ONLY <1>0, GoesBlock
  <2>3. Goes(Call("parse_block"), pos, no_struct_lit, 0, <<Expect("{"), Call("stmts"), Expect("}")>>,
             no_struct_lit)
    BY <2>1, <2>2, Zenon
  <2> QED BY <1>0, <1>1, <2>3, GroupsCall
<1>2. ASSUME Do("stmts", 0, <<>>), Plain
      PROVE  Groups'
  <2>1. Goes(Call("stmts"), pos, no_struct_lit, 0, <<>>, no_struct_lit)
    BY ONLY <1>0, GoesStmtEnd
  <2> QED BY <1>0, <1>2, <2>1, GroupsCall
<1>3. ASSUME Do("stmts", 0, <<Call("parse_stmt"), Call("stmts")>>), Plain
      PROVE  Groups'
  <2>1. Goes(Call("stmts"), pos, no_struct_lit, 0, <<Call("parse_stmt"), Call("stmts")>>, no_struct_lit)
    BY ONLY <1>0, GoesStmts
  <2> QED BY <1>0, <1>3, <2>1, GroupsCall
<1> QED BY <1>1, <1>2, <1>3, Zenon DEF parse_block

-----------------------------------------------------------------------------
(* At the end they span what the table of precedences says.                   *)

\* Nothing has been parsed at first, and a module may start anywhere.
LEMMA GroupsInit == Init => Groups
<1> SUFFICES ASSUME Init PROVE Groups
  OBVIOUS
<1>1. /\ pos = 1 /\ todo = <<Call("parse_module")>> /\ no_struct_lit = 0 /\ nodes = {}
      /\ 1 \in At /\ 0 \in Nat /\ 0 \in {0, 1} /\ "parse_module" \in Free
  BY DEF Init, At, Free
<1>2. Call("parse_module") \in Freely
  BY <1>1, FreeMarks
<1>3. <<Call("parse_module")>> \in Seq(Freely)
  BY <1>2, FreeLists
<1>4. Ready \subseteq Points
  BY DEF Ready, Points
<1>5. Through(<<Call("parse_module")>>, 1, 0, 0, Points)
  BY <1>1, <1>3, <1>4, FreeThrough
<1>6. Grouped(todo, pos, no_struct_lit, 0, nodes)
  BY <1>1, <1>5 DEF Grouped
<1> QED BY <1>1, <1>6 DEF Groups

\* Every step keeps it.
LEMMA GroupsNext == PInv /\ Groups /\ [Next]_vars => Groups'
<1> SUFFICES ASSUME PInv, Groups, [Next]_vars PROVE Groups'
  OBVIOUS
<1>1. Core /\ Tree
  BY DEF PInv
<1>2. CASE Next
  <2>1. CASE had_error'
    BY <2>1 DEF Groups
  <2>2. CASE ~had_error'
    <3>1. ~had_error /\ Core'
      BY <1>1, <1>2, <2>2, ErrorStays, CoreNext DEF Kept
    <3>2. CASE expect \/ match \/ parse_type \/ parse_primary \/ suppress \/ release \/ fields
      BY <1>1, <2>2, <3>1, <3>2, Groups_expect, Groups_parse_type, Groups_parse_primary, Groups_condition,
         Groups_fields
    <3>3. CASE parse_call_or_postfix \/ parse_precedence \/ operators \/ node
      BY <1>1, <2>2, <3>1, <3>3, Groups_parse_call_or_postfix, Groups_parse_precedence, Groups_operators,
         Groups_node
    <3>4. CASE Compound \/ Simple \/ parse_let \/ parse_block
      BY <1>1, <2>2, <3>1, <3>4, Groups_Compound, Groups_Simple, Groups_parse_let, Groups_parse_block
    <3>5. CASE parse_attr_list \/ parse_decl \/ parse_fn \/ parse_struct \/ parse_type_alias \/ parse_module
      BY <1>1, <2>2, <3>1, <3>5, Groups_parse_attr_list, Groups_parse_decl, Groups_parse_fn,
         Groups_parse_struct, Groups_parse_type_alias, Groups_parse_module
    <3> QED BY <1>2, <3>2, <3>3, <3>4, <3>5 DEF Next
  <2> QED BY <2>1, <2>2
<1>3. CASE UNCHANGED vars
  <2>1. /\ toks' = toks /\ pos' = pos /\ todo' = todo /\ had_error' = had_error
        /\ no_struct_lit' = no_struct_lit /\ nodes' = nodes
    BY <1>3 DEF vars, tree
  <2>2. CASE had_error
    BY <2>1, <2>2 DEF Groups
  <2>3. CASE ~had_error
    <3>1. PICK k \in {0, 1} : Grouped(todo, pos, no_struct_lit, k, nodes)
      BY <2>3 DEF Groups
    <3> QED BY <2>1, <3>1, GroupsNow
  <2> QED BY <2>2, <2>3
<1> QED BY <1>2, <1>3

\* It holds always.
LEMMA GroupsAlways == Spec => [](PInv /\ Groups)
<1>1. Init => PInv /\ Groups
  BY PInvInit, GroupsInit
<1>2. (PInv /\ Groups) /\ [Next]_vars => (PInv /\ Groups)'
  BY PInvNext, GroupsNext
<1> QED BY <1>1, <1>2, PTL DEF Spec

\* The first token of an operator between operands.
LEMMA FirstIs ==
  ASSUME NEW f \in Nat, NEW a \in Nat, f > 1, f < a, IsBinary(a), Bars(f - 1, a, LeftMin(a)),
         \A r \in f .. a - 1 : ~Bars(r, a, LeftMin(a))
  PROVE  First(a) = f
<1> DEFINE P(p) == (\A r \in p .. a - 1 : ~Bars(r, a, LeftMin(a))) /\ Bars(p - 1, a, LeftMin(a))
<1>1. f \in 2 .. a /\ P(f)
  OBVIOUS
<1>2. ASSUME NEW p \in 2 .. a, P(p) PROVE p = f
  <2>1. CASE p < f
    <3>1. f - 1 \in p .. a - 1
      BY <2>1
    <3> QED BY <1>2, <3>1
  <2>2. CASE f < p
    <3>1. p - 1 \in f .. a - 1
      BY <2>2
    <3> QED BY <1>2, <3>1
  <2> QED BY <2>1, <2>2
<1> HIDE DEF P
<1>3. (CHOOSE p \in 2 .. a : P(p)) = f
  BY <1>1, <1>2
<1> QED BY <1>3 DEF First, P

\* Its last token.
LEMMA LastIs ==
  ASSUME NEW a \in Nat, NEW q \in Nat, a < q, q <= Len(toks), Len(toks) \in Nat,
         Bars(q + 1, a, RightFrom(a)), \A r \in a + 1 .. q : ~Bars(r, a, RightFrom(a))
  PROVE  Last(a) = q
<1> DEFINE P(p) == (\A r \in a + 1 .. p : ~Bars(r, a, RightFrom(a))) /\ Bars(p + 1, a, RightFrom(a))
<1>1. q \in a .. Len(toks) /\ P(q)
  OBVIOUS
<1>2. ASSUME NEW p \in a .. Len(toks), P(p) PROVE p = q
  <2>1. CASE p < q
    <3>1. p + 1 \in a + 1 .. q
      BY <2>1
    <3> QED BY <1>2, <3>1
  <2>2. CASE q < p
    <3>1. q + 1 \in a + 1 .. p
      BY <2>2
    <3> QED BY <1>2, <3>1
  <2> QED BY <2>1, <2>2
<1> HIDE DEF P
<1>3. (CHOOSE p \in a .. Len(toks) : P(p)) = q
  BY <1>1, <1>2
<1> QED BY <1>3 DEF Last, P

\* When nothing is left to do, every operator spans what the table says.
LEMMA GroupsShow == PInv /\ Groups => Grouping
<1> SUFFICES ASSUME PInv, Groups, todo = <<>>, ~had_error, NEW n \in nodes
             PROVE  n.first = First(n.at) /\ n.last = Last(n.at)
  BY DEF Grouping, Accepted, Done
<1>1. Core /\ Bottom /\ Tree /\ todo # <<Call("parse_module")>>
  BY DEF PInv
<1>2. toks[pos] = "eof"
  BY <1>1 DEF Bottom, Here
<1>3. ~Unread(pos)
  BY <1>2, Zenon DEF Unread, Idents, Literals, OpensLiteral
<1>4. PICK k \in {0, 1} : Grouped(todo, pos, no_struct_lit, k, nodes)
  BY DEF Groups
<1>5. PICK f, a, q : f = n.first /\ a = n.at /\ q = n.last
  OBVIOUS
<1>6. Len(toks) \in Nat /\ pos \in Nat /\ pos <= Len(toks) /\ f \in Nat /\ a \in Nat /\ q \in Nat
  <2>1. n \in [first : Positions, at : Positions, last : Positions]
    BY <1>1 DEF Tree
  <2>2. Positions \subseteq Nat
    <3>1. Positions = 1 .. Len(toks) /\ Len(toks) \in Nat
      BY <1>1, TextAt DEF Positions
    <3> QED BY <3>1
  <2>3. f \in Positions /\ a \in Positions /\ q \in Positions
    BY <1>5, <2>1
  <2> QED BY <1>1, <2>2, <2>3, TextAt
<1>7. q < pos /\ Fits(f, a, q + 1) /\ Bars(q + 1, a, RightFrom(a))
  BY <1>3, <1>4, <1>5 DEF Grouped
<1>8. q <= Len(toks) /\ a < q /\ a + 1 .. (q + 1) - 1 = a + 1 .. q
  BY <1>6, <1>7 DEF Fits
<1>9. \A r \in a + 1 .. q : ~Bars(r, a, RightFrom(a))
  BY <1>7, <1>8 DEF Fits
<1>10. Last(a) = q
  BY <1>6, <1>7, <1>8, <1>9, LastIs
<1>11. First(a) = f
  <2>1. CASE IsBinary(a)
    BY <1>6, <1>7, <2>1, FirstIs DEF Fits
  <2>2. CASE ~IsBinary(a)
    BY <1>7, <2>2 DEF Fits, First
  <2> QED BY <2>1, <2>2
<1> QED BY <1>5, <1>10, <1>11

\* Operators span what the table of precedences says: those of one level group
\* to the left, assignments to the right (parser.c 145-182, 345-383).
THEOREM GroupingCorrect == Spec => []Grouping
BY GroupsAlways, GroupsShow, PTL
=============================================================================

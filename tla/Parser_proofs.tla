----------------------------- MODULE Parser_proofs -----------------------------
(* Proofs about the parser: every variable keeps its type, a text that is     *)
(* accepted has no error token and no bracket without a partner, and each of  *)
(* its attributes is on the declaration it belongs to.                        *)
EXTENDS Parser, FiniteSetTheorems, SequenceTheorems, TLAPS

(* Induction over the naturals: the theorems of the library take an operator  *)
(* as a parameter, so a set and its least element do the work.                *)

\* A set of natural numbers with an element has a least one.
LEMMA LeastNat ==
  ASSUME NEW T \in SUBSET Nat, T # {}
  PROVE  \E x \in T : \A y \in T : x <= y
<1>1. PICK x \in T : \A y \in T : ~(<<y, x>> \in OpToRel(<, Nat))
  BY NatLessThanWellFounded, WFMin
<1>2. \A y \in T : ~(y < x)
  BY <1>1 DEF OpToRel
<1> QED BY <1>2

\* Induction: a set that holds 0, and with every number the next one, holds
\* every natural number.
LEMMA SetInduction ==
  ASSUME NEW S, 0 \in S, \A n \in Nat : n \in S => n + 1 \in S
  PROVE  \A n \in Nat : n \in S
<1> SUFFICES ASSUME NEW m \in Nat, m \notin S PROVE FALSE
  OBVIOUS
<1> DEFINE T == {n \in Nat : n \notin S}
<1>1. PICK x \in T : \A y \in T : x <= y
  <2>1. T \in SUBSET Nat /\ m \in T
    OBVIOUS
  <2> HIDE DEF T
  <2> QED BY <2>1, LeastNat
<1>2. x \in Nat /\ x # 0 /\ x \notin S
  OBVIOUS
<1>3. x - 1 \in Nat /\ x - 1 \in S
  BY <1>1, <1>2
<1>4. (x - 1) + 1 \in S
  BY <1>3
<1> QED BY <1>2, <1>4

(* What the calls that are still to do will do, and what the text read has    *)
(* done: each opens and closes brackets, and enters and leaves conditions.    *)

Openers == DOMAIN Closing
Brackets == Openers \cup Closers
Stacks == Seq(Openers)

\* Token k takes the open brackets from a to b.
Turn(k, a, b) ==
  /\ a \in Stacks /\ b \in Stacks
  /\ k \in Openers => b = Append(a, k)
  /\ k \in Closers => \E o \in Openers : Closing[o] = k /\ a = Append(b, o)
  /\ k \notin Brackets => b = a

\* Task t takes the number of conditions from a to b.
Count(t, a, b) ==
  /\ a \in Nat /\ b \in Nat
  /\ t[1] = "suppress" => b = a + 1
  /\ t[1] = "release" => a = b + 1
  /\ t[1] = "restore" => b = t[2]
  /\ t[1] \notin {"suppress", "release", "restore"} => b = a

\* Both views of a task.
Views == {"open", "lits"}
Good(v) == IF v = "open" THEN Stacks ELSE Nat
Step(v, t, a, b) ==
  IF v = "open" THEN Turn(IF t[1] = "expect" THEN t[2] ELSE "", a, b) ELSE Count(t, a, b)

\* The tasks w, one after the other, take a to b.
Path(v, w, a, b) ==
  \E e \in [1 .. Len(w) + 1 -> Good(v)] :
    e[1] = a /\ e[Len(w) + 1] = b /\ \A i \in 1 .. Len(w) : Step(v, w[i], e[i], e[i + 1])

\* The tokens of t before p leave the brackets s open.
Reads(t, p, s) ==
  \E e \in [1 .. p -> Stacks] :
    e[1] = <<>> /\ e[p] = s /\ \A i \in 1 .. p - 1 : Turn(t[i], e[i], e[i + 1])

\* The tasks there can be when the parser is at p, those first that neither
\* view sees.
CallNames == {
  "parse_module", "imports", "decls", "parse_attr_list", "parse_decl", "attr_arg",
  "fn", "params", "param", "more_params", "ret", "struct", "members", "invariants", "type",
  "parse_block", "stmts", "parse_stmt", "else", "arms", "arm_body", "init", "parse_type",
  "parse_primary", "parse_call_or_postfix", "fields", "more_fields", "more_args"}
FlatKinds == {"ident", "int", "in", "=", "=>", ":", ";", ",", "_"}
Levels == 1 .. 13
Flat(p) ==
  CallNames \X {""} \cup {"expect", "match"} \X FlatKinds \cup {"parse_precedence"} \X Levels
  \cup {"operators"} \X (Levels \X (1 .. p)) \cup {"node"} \X ((1 .. p) \X (1 .. p - 1))
Tasks(p) ==
  Flat(p) \cup {"expect"} \X Brackets \cup {"suppress"} \X {""} \cup {"release"} \X {1}
  \cup {"restore"} \X Nat

(* The inductive invariant.                                                   *)

\* What is still to do will leave every condition that has been entered, and,
\* if nothing is wrong so far, close every bracket that has been opened.
Core ==
  /\ toks \in Inputs /\ pos \in 1 .. Len(toks)
  /\ no_struct_lit \in Nat /\ had_error \in BOOLEAN
  /\ todo \in Seq(Tasks(pos))
  /\ Path("lits", todo, no_struct_lit, 0)
  /\ ~had_error =>
       /\ \A q \in 1 .. pos - 1 : toks[q] # "error"
       /\ \E s \in Stacks : Reads(toks, pos, s) /\ Path("open", todo, s, <<>>)

\* What ends the list of tasks is the list of declarations, which ends with
\* the text.
Bottom ==
  \/ todo = <<Call("parse_module")>>
  \/ todo # <<>> /\ todo[Len(todo)] = Call("decls")
  \/ todo = <<>> /\ Here = "eof"

\* What is kept of the tree.
Tree ==
  /\ attrs \in Seq(Positions)
  /\ decls \in Seq([at : Positions, attrs : Seq(Positions), invariants : Seq(Positions)])
  /\ nodes \subseteq [first : Positions, at : Positions, last : Positions]

PInv == Core /\ Bottom /\ Tree
-----------------------------------------------------------------------------
(* Kinds of tokens.                                                           *)

\* The brackets.
LEMMA BracketsAre ==
  /\ Openers = {"(", "[", "{"} /\ Closers = {")", "]", "}"}
  /\ Closing["("] = ")" /\ Closing["["] = "]" /\ Closing["{"] = "}"
<1>1. Openers = {"(", "[", "{"}
  BY DEF Openers, Closing
<1>2. Closing["("] = ")" /\ Closing["["] = "]" /\ Closing["{"] = "}"
  BY DEF Closing
<1>3. Closers = {Closing[k] : k \in {"(", "[", "{"}}
  BY <1>1 DEF Closers, Openers
<1> QED BY <1>1, <1>2, <1>3

\* The levels of the table of precedences.
LEMMA PrecIs ==
  /\ DOMAIN Prec = {"=", "||", "&&", "|", "^", "&", "==", "<", "..", "<<", "+", "-", "*"}
  /\ \A k \in DOMAIN Prec : Prec[k] \in 1 .. 12
<1>1. DOMAIN Prec = {"=", "||", "&&", "|", "^", "&", "==", "<", "..", "<<", "+", "-", "*"}
  BY DEF Prec
<1>2. /\ Prec["="] = 1 /\ Prec["||"] = 2 /\ Prec["&&"] = 3 /\ Prec["|"] = 4
      /\ Prec["^"] = 5 /\ Prec["&"] = 6 /\ Prec["=="] = 7 /\ Prec["<"] = 8
      /\ Prec[".."] = 9 /\ Prec["<<"] = 10 /\ Prec["+"] = 11 /\ Prec["-"] = 11
      /\ Prec["*"] = 12
  BY DEF Prec
<1> QED BY <1>1, <1>2

\* Brackets open and close one at a time.
LEMMA TurnLen ==
  ASSUME NEW k, NEW a, NEW b, Turn(k, a, b)
  PROVE  /\ Len(a) \in Nat /\ Len(b) \in Nat
         /\ k \in Openers => Len(b) = Len(a) + 1
         /\ k \in Closers => Len(a) = Len(b) + 1
         /\ k \notin Brackets => b = a
BY DEF Turn, Stacks

\* A tuple made longer.
LEMMA Longer ==
  /\ \A a, b : <<a>> \o <<b>> = <<a, b>>
  /\ \A a, b, c : <<a, b>> \o <<c>> = <<a, b, c>>
  /\ \A a, b, c, d : <<a, b, c>> \o <<d>> = <<a, b, c, d>>
  /\ \A a, b, c, d, e : <<a, b, c, d>> \o <<e>> = <<a, b, c, d, e>>
<1>1. ASSUME NEW a, NEW b PROVE <<a>> \o <<b>> = <<a, b>>
  <2> DEFINE S == {a, b}
  <2>1. PICK w, r, u : w = <<a>> /\ r = Append(w, b) /\ u = <<a, b>>
    OBVIOUS
  <2>2. w \in Seq(S) /\ u \in Seq(S) /\ b \in S /\ Len(w) = 1
    BY <2>1
  <2>3. r \in Seq(S) /\ Len(r) = Len(w) + 1 /\ r[Len(w) + 1] = b /\ \A i \in 1 .. Len(w) : r[i] = w[i]
    BY <2>1, <2>2, AppendProperties
  <2>4. Len(r) = 2 /\ r[1] = a /\ r[2] = b
    BY <2>1, <2>2, <2>3
  <2>5. Len(u) = 2 /\ u[1] = a /\ u[2] = b
    BY <2>1
  <2>6. \A i \in 1 .. 2 : i = 1 \/ i = 2
    OBVIOUS
  <2>7. \A i \in 1 .. Len(r) : r[i] = u[i]
    BY <2>4, <2>5, <2>6
  <2>8. r = u
    <3> HIDE DEF S
    <3> QED BY ONLY <2>2, <2>3, <2>4, <2>5, <2>7, SeqEqual
  <2>9. r = w \o <<b>>
    <3> HIDE DEF S
    <3> QED BY <2>1, <2>2, AppendIsConcat
  <2> QED BY <2>1, <2>8, <2>9
<1>2. ASSUME NEW a, NEW b, NEW c PROVE <<a, b>> \o <<c>> = <<a, b, c>>
  <2> DEFINE S == {a, b, c}
  <2>1. PICK w, r, u : w = <<a, b>> /\ r = Append(w, c) /\ u = <<a, b, c>>
    OBVIOUS
  <2>2. w \in Seq(S) /\ u \in Seq(S) /\ c \in S /\ Len(w) = 2
    BY <2>1
  <2>3. r \in Seq(S) /\ Len(r) = Len(w) + 1 /\ r[Len(w) + 1] = c /\ \A i \in 1 .. Len(w) : r[i] = w[i]
    BY <2>1, <2>2, AppendProperties
  <2>4. Len(r) = 3 /\ r[1] = a /\ r[2] = b /\ r[3] = c
    BY <2>1, <2>2, <2>3
  <2>5. Len(u) = 3 /\ u[1] = a /\ u[2] = b /\ u[3] = c
    BY <2>1
  <2>6. \A i \in 1 .. 3 : i = 1 \/ i = 2 \/ i = 3
    OBVIOUS
  <2>7. \A i \in 1 .. Len(r) : r[i] = u[i]
    BY <2>4, <2>5, <2>6
  <2>8. r = u
    <3> HIDE DEF S
    <3> QED BY ONLY <2>2, <2>3, <2>4, <2>5, <2>7, SeqEqual
  <2>9. r = w \o <<c>>
    <3> HIDE DEF S
    <3> QED BY <2>1, <2>2, AppendIsConcat
  <2> QED BY <2>1, <2>8, <2>9
<1>3. ASSUME NEW a, NEW b, NEW c, NEW d PROVE <<a, b, c>> \o <<d>> = <<a, b, c, d>>
  <2> DEFINE S == {a, b, c, d}
  <2>1. PICK w, r, u : w = <<a, b, c>> /\ r = Append(w, d) /\ u = <<a, b, c, d>>
    OBVIOUS
  <2>2. w \in Seq(S) /\ u \in Seq(S) /\ d \in S /\ Len(w) = 3
    BY <2>1
  <2>3. r \in Seq(S) /\ Len(r) = Len(w) + 1 /\ r[Len(w) + 1] = d /\ \A i \in 1 .. Len(w) : r[i] = w[i]
    BY <2>1, <2>2, AppendProperties
  <2>4. Len(r) = 4 /\ r[1] = a /\ r[2] = b /\ r[3] = c /\ r[4] = d
    BY <2>1, <2>2, <2>3
  <2>5. Len(u) = 4 /\ u[1] = a /\ u[2] = b /\ u[3] = c /\ u[4] = d
    BY <2>1
  <2>6. \A i \in 1 .. 4 : i = 1 \/ i = 2 \/ i = 3 \/ i = 4
    OBVIOUS
  <2>7. \A i \in 1 .. Len(r) : r[i] = u[i]
    BY <2>4, <2>5, <2>6
  <2>8. r = u
    <3> HIDE DEF S
    <3> QED BY ONLY <2>2, <2>3, <2>4, <2>5, <2>7, SeqEqual
  <2>9. r = w \o <<d>>
    <3> HIDE DEF S
    <3> QED BY <2>1, <2>2, AppendIsConcat
  <2> QED BY <2>1, <2>8, <2>9
<1>4. ASSUME NEW a, NEW b, NEW c, NEW d, NEW e PROVE <<a, b, c, d>> \o <<e>> = <<a, b, c, d, e>>
  <2> DEFINE S == {a, b, c, d, e}
  <2>1. PICK w, r, u : w = <<a, b, c, d>> /\ r = Append(w, e) /\ u = <<a, b, c, d, e>>
    OBVIOUS
  <2>2. w \in Seq(S) /\ u \in Seq(S) /\ e \in S /\ Len(w) = 4
    BY <2>1
  <2>3. r \in Seq(S) /\ Len(r) = Len(w) + 1 /\ r[Len(w) + 1] = e /\ \A i \in 1 .. Len(w) : r[i] = w[i]
    BY <2>1, <2>2, AppendProperties
  <2>4. Len(r) = 5 /\ r[1] = a /\ r[2] = b /\ r[3] = c /\ r[4] = d /\ r[5] = e
    BY <2>1, <2>2, <2>3
  <2>5. Len(u) = 5 /\ u[1] = a /\ u[2] = b /\ u[3] = c /\ u[4] = d /\ u[5] = e
    BY <2>1
  <2>6. \A i \in 1 .. 5 : i = 1 \/ i = 2 \/ i = 3 \/ i = 4 \/ i = 5
    OBVIOUS
  <2>7. \A i \in 1 .. Len(r) : r[i] = u[i]
    BY <2>4, <2>5, <2>6
  <2>8. r = u
    <3> HIDE DEF S
    <3> QED BY ONLY <2>2, <2>3, <2>4, <2>5, <2>7, SeqEqual
  <2>9. r = w \o <<e>>
    <3> HIDE DEF S
    <3> QED BY <2>1, <2>2, AppendIsConcat
  <2> QED BY <2>1, <2>8, <2>9
<1> QED BY <1>1, <1>2, <1>3, <1>4

\* Tuples put together.
LEMMA Glue ==
  /\ \A a, b : (<<a>> \o <<b>>) \o <<>> = <<a, b>>
  /\ \A a, b, c : (<<a>> \o <<b>>) \o <<c>> = <<a, b, c>>
  /\ \A a, b, c : <<a>> \o (<<b>> \o <<c>>) = <<a, b, c>>
  /\ \A a, b, c, d : (<<a, b>> \o <<c>>) \o <<d>> = <<a, b, c, d>>
  /\ \A a, b, c, d : <<a, b, c>> \o <<d>> = <<a, b, c, d>>
  /\ \A a, b, c, d, e : <<a, b, c>> \o <<d, e>> = <<a, b, c, d, e>>
<1>1. ASSUME NEW a, NEW b PROVE (<<a>> \o <<b>>) \o <<>> = <<a, b>>
  <2>1. <<a, b>> \in Seq({a, b})
    OBVIOUS
  <2> QED BY <2>1, Longer, ConcatEmptySeq
<1>2. ASSUME NEW a, NEW b, NEW c PROVE <<a>> \o (<<b>> \o <<c>>) = <<a, b, c>>
  <2>1. <<a>> \in Seq({a, b, c}) /\ <<b>> \in Seq({a, b, c}) /\ <<c>> \in Seq({a, b, c})
    OBVIOUS
  <2>2. (<<a>> \o <<b>>) \o <<c>> = <<a>> \o (<<b>> \o <<c>>)
    BY <2>1, ConcatAssociative
  <2>3. <<a>> \o <<b>> = <<a, b>> /\ <<a, b>> \o <<c>> = <<a, b, c>>
    BY Longer
  <2> QED BY <2>2, <2>3
<1>3. ASSUME NEW a, NEW b, NEW c, NEW d, NEW e PROVE <<a, b, c>> \o <<d, e>> = <<a, b, c, d, e>>
  <2> DEFINE S == {a, b, c, d, e}
  <2>1. <<a, b, c>> \in Seq(S) /\ <<d>> \in Seq(S) /\ <<e>> \in Seq(S)
    OBVIOUS
  <2>2. (<<a, b, c>> \o <<d>>) \o <<e>> = <<a, b, c>> \o (<<d>> \o <<e>>)
    <3> HIDE DEF S
    <3> QED BY <2>1, ConcatAssociative
  <2>3. <<a, b, c>> \o <<d>> = <<a, b, c, d>> /\ <<d>> \o <<e>> = <<d, e>>
        /\ <<a, b, c, d>> \o <<e>> = <<a, b, c, d, e>>
    BY Longer
  <2> QED BY <2>2, <2>3
<1>4. ASSUME NEW a, NEW b, NEW c PROVE (<<a>> \o <<b>>) \o <<c>> = <<a, b, c>>
  <2>1. <<a>> \o <<b>> = <<a, b>> /\ <<a, b>> \o <<c>> = <<a, b, c>>
    BY Longer
  <2> QED BY <2>1
<1>5. ASSUME NEW a, NEW b, NEW c, NEW d PROVE (<<a, b>> \o <<c>>) \o <<d>> = <<a, b, c, d>>
  <2>1. <<a, b>> \o <<c>> = <<a, b, c>> /\ <<a, b, c>> \o <<d>> = <<a, b, c, d>>
    BY Longer
  <2> QED BY <2>1
<1>6. ASSUME NEW a, NEW b, NEW c, NEW d PROVE <<a, b, c>> \o <<d>> = <<a, b, c, d>>
  BY Longer
<1> QED BY <1>1, <1>2, <1>3, <1>4, <1>5, <1>6

\* The first task of a path.
LEMMA PathHead ==
  ASSUME NEW v \in Views, NEW S, NEW w \in Seq(S), w # <<>>, NEW a, NEW b, Path(v, w, a, b)
  PROVE  \E m \in Good(v) : Step(v, w[1], a, m) /\ Path(v, Tail(w), m, b)
<1>1. PICK e \in [1 .. Len(w) + 1 -> Good(v)] :
        e[1] = a /\ e[Len(w) + 1] = b /\ \A i \in 1 .. Len(w) : Step(v, w[i], e[i], e[i + 1])
  BY DEF Path
<1>2. PICK n \in Nat : n = Len(Tail(w)) /\ Len(w) = n + 1 /\ \A i \in 1 .. n : Tail(w)[i] = w[i + 1]
  <2>1. /\ Head(w) \in S /\ Tail(w) \in Seq(S) /\ Len(Tail(w)) = Len(w) - 1
        /\ \A i \in 1 .. Len(Tail(w)) : Tail(w)[i] = w[i + 1]
    BY HeadTailProperties
  <2>2. PICK n \in Nat : n = Len(Tail(w))
    BY <2>1, LenProperties
  <2>3. Len(w) \in Nat
    BY LenProperties
  <2>4. Len(w) = n + 1
    BY <2>1, <2>2, <2>3
  <2>5. \A i \in 1 .. n : Tail(w)[i] = w[i + 1]
    BY <2>1, <2>2
  <2> QED BY <2>2, <2>4, <2>5
<1> DEFINE f == [i \in 1 .. n + 1 |-> e[i + 1]]
<1>3. f \in [1 .. n + 1 -> Good(v)] /\ f[1] = e[2] /\ f[n + 1] = b
  BY <1>1, <1>2
<1>4. ASSUME NEW i \in 1 .. n PROVE Step(v, Tail(w)[i], f[i], f[i + 1])
  <2>1. i + 1 \in 1 .. Len(w) /\ Tail(w)[i] = w[i + 1] /\ f[i] = e[i + 1] /\ f[i + 1] = e[(i + 1) + 1]
    BY <1>2
  <2> QED BY <1>1, <2>1
<1>5. Path(v, Tail(w), e[2], b)
  <2> HIDE DEF f
  <2> QED BY <1>2, <1>3, <1>4 DEF Path
<1>6. Step(v, w[1], a, e[2]) /\ e[2] \in Good(v)
  <2>1. 1 \in 1 .. Len(w) /\ 1 + 1 = 2 /\ 2 \in 1 .. Len(w) + 1
    BY <1>2
  <2> QED BY <1>1, <2>1
<1> QED BY <1>5, <1>6

\* Paths one after the other.
LEMMA PathConcat ==
  ASSUME NEW v \in Views, NEW S, NEW w \in Seq(S), NEW u \in Seq(S), NEW a, NEW m, NEW b,
         Path(v, w, a, m), Path(v, u, m, b)
  PROVE  Path(v, w \o u, a, b)
<1>1. PICK n \in Nat, k \in Nat : n = Len(w) /\ k = Len(u)
  BY LenProperties
<1>2. PICK e \in [1 .. n + 1 -> Good(v)] :
        e[1] = a /\ e[n + 1] = m /\ \A i \in 1 .. n : Step(v, w[i], e[i], e[i + 1])
  BY <1>1 DEF Path
<1>3. PICK f \in [1 .. k + 1 -> Good(v)] :
        f[1] = m /\ f[k + 1] = b /\ \A i \in 1 .. k : Step(v, u[i], f[i], f[i + 1])
  BY <1>1 DEF Path
<1>4. /\ Len(w \o u) = n + k
      /\ \A i \in 1 .. n : (w \o u)[i] = w[i]
      /\ \A i \in 1 .. k : (w \o u)[n + i] = u[i]
  BY <1>1, ConcatProperties
<1> DEFINE g == [i \in 1 .. (n + k) + 1 |-> IF i <= n THEN e[i] ELSE f[i - n]]
<1>5. g \in [1 .. (n + k) + 1 -> Good(v)]
  OBVIOUS
<1>6. \A i \in 1 .. n + 1 : g[i] = e[i]
  <2> SUFFICES ASSUME NEW i \in 1 .. n + 1 PROVE g[i] = e[i]
    OBVIOUS
  <2>1. CASE i = n + 1
    BY <1>2, <1>3, <2>1
  <2> QED BY <2>1
<1>7. \A i \in 1 .. k + 1 : g[n + i] = f[i]
  OBVIOUS
<1>8. ASSUME NEW i \in 1 .. n + k PROVE Step(v, (w \o u)[i], g[i], g[i + 1])
  <2> HIDE DEF g
  <2>1. CASE i <= n
    <3>1. i \in 1 .. n /\ i \in 1 .. n + 1 /\ i + 1 \in 1 .. n + 1
      BY <2>1
    <3> QED BY <1>2, <1>4, <1>6, <3>1
  <2>2. CASE i > n
    <3>1. PICK j \in 1 .. k : i = n + j
      <4>1. i - n \in 1 .. k /\ i = n + (i - n)
        BY <2>2
      <4> QED BY <4>1
    <3>2. j \in 1 .. k + 1 /\ j + 1 \in 1 .. k + 1 /\ i + 1 = n + (j + 1)
      BY <3>1
    <3> QED BY <1>3, <1>4, <1>7, <3>1, <3>2
  <2>3. i <= n \/ i > n
    OBVIOUS
  <2> QED BY <2>1, <2>2, <2>3
<1>9. g[1] = a /\ g[(n + k) + 1] = b
  <2>1. 1 \in 1 .. n + 1 /\ k + 1 \in 1 .. k + 1 /\ (n + k) + 1 = n + (k + 1)
    OBVIOUS
  <2> HIDE DEF g
  <2> QED BY <1>2, <1>3, <1>6, <1>7, <2>1
<1> HIDE DEF g
<1> QED BY <1>4, <1>5, <1>8, <1>9 DEF Path

\* No task, no change; and a path of one task.
LEMMA PathNone == \A v \in Views : \A a \in Good(v) : \A b : Path(v, <<>>, a, b) <=> b = a
<1> TAKE v \in Views
<1> TAKE a \in Good(v)
<1> TAKE b
<1>1. Len(<<>>) = 0
  OBVIOUS
<1>2. ASSUME b = a PROVE Path(v, <<>>, a, b)
  <2>1. PICK e : e = [i \in 1 .. Len(<<>>) + 1 |-> a]
    OBVIOUS
  <2>2. e \in [1 .. Len(<<>>) + 1 -> Good(v)] /\ e[1] = a /\ e[Len(<<>>) + 1] = a
    BY <1>1, <2>1
  <2>3. \A i \in 1 .. Len(<<>>) : FALSE
    BY <1>1
  <2> QED BY <1>2, <2>2, <2>3 DEF Path
<1>3. ASSUME Path(v, <<>>, a, b) PROVE b = a
  BY <1>1, <1>3 DEF Path
<1> QED BY <1>2, <1>3

\* The path of one task is its step.
LEMMA PathOne ==
  ASSUME NEW v \in Views, NEW t, NEW a \in Good(v), NEW b \in Good(v), Step(v, t, a, b)
  PROVE  Path(v, <<t>>, a, b)
<1> DEFINE e == [i \in 1 .. 1 + 1 |-> IF i = 1 THEN a ELSE b]
<1>1. Len(<<t>>) = 1 /\ <<t>>[1] = t
  OBVIOUS
<1>2. e \in [1 .. 1 + 1 -> Good(v)] /\ e[1] = a /\ e[1 + 1] = b
  OBVIOUS
<1>3. \A i \in 1 .. 1 : Step(v, <<t>>[i], e[i], e[i + 1])
  <2>1. \A i \in 1 .. 1 : i = 1
    OBVIOUS
  <2> HIDE DEF e
  <2> QED BY <1>1, <1>2, <2>1
<1> HIDE DEF e
<1> QED BY <1>1, <1>2, <1>3 DEF Path
-----------------------------------------------------------------------------
(* Tasks that leave things as they are, and tasks that close one bracket.     *)

Even(w, p) == w \in Seq(Tasks(p)) /\ \A v \in Views : \A a \in Good(v) : Path(v, w, a, a)

Closes(o, w, p) ==
  /\ w \in Seq(Tasks(p))
  /\ \A s \in Stacks : Path("open", w, Append(s, o), s)
  /\ \A n \in Nat : Path("lits", w, n, n)

\* What was to do at p can be to do further on.
LEMMA TasksGrow == ASSUME NEW p \in Nat, NEW q \in Nat, p <= q PROVE Flat(p) \subseteq Flat(q) /\ Tasks(p) \subseteq Tasks(q)
<1>1. 1 .. p \subseteq 1 .. q /\ 1 .. p - 1 \subseteq 1 .. q - 1
  OBVIOUS
<1>2. Flat(p) \subseteq Flat(q)
  BY <1>1, ZenonT(60) DEF Flat
<1> QED BY <1>2 DEF Tasks

\* Neither view sees a flat task.
LEMMA FlatStep ==
  ASSUME NEW p, NEW t \in Flat(p), NEW v \in Views, NEW a \in Good(v)
  PROVE  Step(v, t, a, a)
<1>1. /\ t[1] = "expect" => t[2] \in FlatKinds
      /\ t[1] \notin {"suppress", "release", "restore"}
  <2>1. CASE t \in CallNames \X {""}
    BY <2>1 DEF CallNames
  <2>2. CASE t \in {"expect", "match"} \X FlatKinds
    BY <2>2
  <2> QED BY <2>1, <2>2 DEF Flat
<1>2. "" \notin Brackets /\ \A k \in FlatKinds : k \notin Brackets
  BY BracketsAre DEF Brackets, FlatKinds
<1>3. CASE v = "open"
  <2>1. PICK k : k = IF t[1] = "expect" THEN t[2] ELSE ""
    OBVIOUS
  <2>2. k \notin Brackets /\ a \in Stacks
    BY <1>1, <1>2, <1>3, <2>1 DEF Good
  <2>3. Turn(k, a, a)
    BY <2>2 DEF Turn, Brackets
  <2> QED BY <1>3, <2>1, <2>3 DEF Step
<1>4. CASE v = "lits"
  BY <1>1, <1>4 DEF Step, Count, Good
<1> QED BY <1>3, <1>4 DEF Views

\* Tasks that neither view sees leave all as it is.
LEMMA EvenFlat == \A p \in Nat : \A w \in Seq(Flat(p)) : Even(w, p)
<1> SUFFICES ASSUME NEW p \in Nat, NEW w \in Seq(Flat(p)) PROVE Even(w, p)
  OBVIOUS
<1>1. w \in Seq(Tasks(p))
  BY SeqMonotonic DEF Tasks
<1>2. PICK n \in Nat : n = Len(w)
  BY LenProperties
<1>3. \A i \in 1 .. n : w[i] \in Flat(p)
  BY <1>2, ElementOfSeq
<1>4. ASSUME NEW v \in Views, NEW a \in Good(v) PROVE Path(v, w, a, a)
  <2>1. PICK e : e = [i \in 1 .. n + 1 |-> a]
    OBVIOUS
  <2>2. e \in [1 .. n + 1 -> Good(v)] /\ \A i \in 1 .. n + 1 : e[i] = a
    BY <2>1
  <2>3. 1 \in 1 .. n + 1 /\ n + 1 \in 1 .. n + 1 /\ \A i \in 1 .. n : i \in 1 .. n + 1 /\ i + 1 \in 1 .. n + 1
    OBVIOUS
  <2>4. ASSUME NEW i \in 1 .. n PROVE Step(v, w[i], e[i], e[i + 1])
    BY <1>3, <2>2, <2>3, FlatStep
  <2> QED BY <1>2, <2>2, <2>3, <2>4 DEF Path
<1> QED BY <1>1, <1>4 DEF Even

\* So do two such lists, one after the other.
LEMMA EvenConcat ==
  \A p \in Nat : \A w, u : Even(w, p) /\ Even(u, p) => Even(w \o u, p)
<1> SUFFICES ASSUME NEW p \in Nat, NEW w, NEW u, Even(w, p), Even(u, p) PROVE Even(w \o u, p)
  OBVIOUS
<1>1. w \in Seq(Tasks(p)) /\ u \in Seq(Tasks(p))
  BY DEF Even
<1>2. w \o u \in Seq(Tasks(p))
  BY <1>1, ConcatProperties
<1>3. ASSUME NEW v \in Views, NEW a \in Good(v) PROVE Path(v, w \o u, a, a)
  <2>1. Path(v, w, a, a) /\ Path(v, u, a, a)
    BY DEF Even
  <2> QED BY <1>1, <2>1, PathConcat
<1> QED BY <1>2, <1>3 DEF Even

\* What stands between a bracket read and what follows its partner.
LEMMA ClosesIs ==
  \A p \in Nat : \A o \in Openers : \A w, u :
    Even(w, p) /\ Even(u, p) => Closes(o, (w \o <<Expect(Closing[o])>>) \o u, p)
<1> SUFFICES ASSUME NEW p \in Nat, NEW o \in Openers, NEW w, NEW u, Even(w, p), Even(u, p)
             PROVE  Closes(o, (w \o <<Expect(Closing[o])>>) \o u, p)
  OBVIOUS
<1>1. PICK c : c = Closing[o]
  OBVIOUS
<1>2. c \in Closers /\ c \in Brackets /\ c \notin Openers
  BY <1>1, BracketsAre DEF Brackets
<1>3. Expect(c) \in Tasks(p) /\ Expect(c)[1] = "expect" /\ Expect(c)[2] = c
  BY <1>2 DEF Expect, Tasks
<1>4. w \in Seq(Tasks(p)) /\ u \in Seq(Tasks(p)) /\ <<Expect(c)>> \in Seq(Tasks(p))
  BY <1>3 DEF Even
<1>5. w \o <<Expect(c)>> \in Seq(Tasks(p))
  BY <1>4, ConcatProperties
<1>6. (w \o <<Expect(c)>>) \o u \in Seq(Tasks(p))
  BY <1>4, <1>5, ConcatProperties
<1>7. ASSUME NEW v \in Views, NEW a \in Good(v), NEW b \in Good(v), Step(v, Expect(c), b, a)
      PROVE  Path(v, (w \o <<Expect(c)>>) \o u, b, a)
  <2>1. Path(v, w, b, b) /\ Path(v, u, a, a) /\ Path(v, <<Expect(c)>>, b, a)
    BY <1>7, PathOne DEF Even
  <2>2. Path(v, w \o <<Expect(c)>>, b, a)
    BY <1>4, <2>1, PathConcat
  <2> QED BY <1>4, <1>5, <2>1, <2>2, PathConcat
<1>8. ASSUME NEW s \in Stacks PROVE Path("open", (w \o <<Expect(c)>>) \o u, Append(s, o), s)
  <2>1. Append(s, o) \in Stacks
    BY AppendProperties DEF Stacks
  <2>2. Turn(c, Append(s, o), s)
    BY <1>1, <1>2, <2>1 DEF Turn
  <2>3. Step("open", Expect(c), Append(s, o), s) /\ "open" \in Views
        /\ s \in Good("open") /\ Append(s, o) \in Good("open")
    BY <1>3, <2>1, <2>2 DEF Step, Views, Good
  <2> QED BY <1>7, <2>3
<1>9. ASSUME NEW n \in Nat PROVE Path("lits", (w \o <<Expect(c)>>) \o u, n, n)
  <2>1. Step("lits", Expect(c), n, n) /\ "lits" \in Views /\ n \in Good("lits")
    BY <1>3 DEF Step, Views, Good, Count
  <2> QED BY <1>7, <2>1
<1> QED BY <1>1, <1>6, <1>8, <1>9 DEF Closes

\* A pair of brackets that are both still to come.
LEMMA EvenPair ==
  \A p \in Nat : \A o \in Openers : \A t \in Flat(p) : Even(<<Expect(o), t, Expect(Closing[o])>>, p)
<1> SUFFICES ASSUME NEW p \in Nat, NEW o \in Openers, NEW t \in Flat(p)
             PROVE  Even(<<Expect(o), t, Expect(Closing[o])>>, p)
  OBVIOUS
<1>1. PICK u : u = (<<t>> \o <<Expect(Closing[o])>>) \o <<>>
  OBVIOUS
<1>2. Closes(o, u, p)
  <2>1. <<t>> \in Seq(Flat(p)) /\ <<>> \in Seq(Flat(p))
    OBVIOUS
  <2>2. Even(<<t>>, p) /\ Even(<<>>, p)
    BY <2>1, EvenFlat
  <2> QED BY <1>1, <2>2, ClosesIs
<1>3. Expect(o) \in Tasks(p) /\ Expect(o)[1] = "expect" /\ Expect(o)[2] = o /\ o \notin Closers
  BY BracketsAre DEF Expect, Tasks, Brackets
<1>4. u \in Seq(Tasks(p)) /\ <<Expect(o)>> \in Seq(Tasks(p))
  BY <1>2, <1>3 DEF Closes
<1>5. <<Expect(o)>> \o u = <<Expect(o), t, Expect(Closing[o])>>
  <2>1. u = <<t, Expect(Closing[o])>> /\ u = <<t>> \o <<Expect(Closing[o])>>
    BY <1>1, Glue
  <2>2. <<Expect(o)>> \o (<<t>> \o <<Expect(Closing[o])>>) = <<Expect(o), t, Expect(Closing[o])>>
    BY Glue
  <2> QED BY <2>1, <2>2
<1>6. <<Expect(o)>> \o u \in Seq(Tasks(p))
  BY <1>4, ConcatProperties
<1>7. ASSUME NEW a \in Stacks PROVE Path("open", <<Expect(o)>> \o u, a, a)
  <2>1. Append(a, o) \in Stacks
    BY AppendProperties DEF Stacks
  <2>2. Turn(o, a, Append(a, o))
    BY <1>3, <2>1 DEF Turn, Brackets
  <2>3. Step("open", Expect(o), a, Append(a, o)) /\ "open" \in Views
        /\ a \in Good("open") /\ Append(a, o) \in Good("open")
    BY <1>3, <2>1, <2>2 DEF Step, Views, Good
  <2>4. Path("open", <<Expect(o)>>, a, Append(a, o))
    BY <2>3, PathOne
  <2>5. Path("open", u, Append(a, o), a)
    BY <1>2 DEF Closes
  <2> QED BY <1>4, <2>3, <2>4, <2>5, PathConcat
<1>8. ASSUME NEW n \in Nat PROVE Path("lits", <<Expect(o)>> \o u, n, n)
  <2>1. Step("lits", Expect(o), n, n) /\ "lits" \in Views /\ n \in Good("lits")
    BY <1>3 DEF Step, Views, Good, Count
  <2>2. Path("lits", <<Expect(o)>>, n, n)
    BY <2>1, PathOne
  <2>3. Path("lits", u, n, n)
    BY <1>2 DEF Closes
  <2> QED BY <1>4, <2>1, <2>2, <2>3, PathConcat
<1> QED BY <1>5, <1>6, <1>7, <1>8 DEF Even, Views, Good

\* What is read in a condition.
LEMMA EvenCondition == \A p \in Nat : Even(Condition, p)
<1> SUFFICES ASSUME NEW p \in Nat PROVE Even(Condition, p)
  OBVIOUS
<1>1. PICK x, y : x = <<"suppress", "">> /\ y = <<"release", 1>>
  OBVIOUS
<1>2. ASSIGN = 1
  BY PrecIs DEF ASSIGN, Prec
<1>3. parse_expr \in Flat(p) /\ parse_expr \in Tasks(p)
  <2>1. parse_expr = <<"parse_precedence", 1>> /\ 1 \in Levels
    BY <1>2 DEF parse_expr, Precedence, Levels
  <2>2. parse_expr \in {"parse_precedence"} \X Levels
    BY <2>1
  <2> QED BY <2>2 DEF Flat, Tasks
<1>4. x \in Tasks(p) /\ y \in Tasks(p)
  BY <1>1 DEF Tasks
<1>5. Condition = <<x>> \o (<<parse_expr>> \o <<y>>)
  <2>1. Condition = <<x, parse_expr, y>>
    BY <1>1 DEF Condition, Call
  <2> QED BY <2>1, Glue
<1>6. <<x>> \in Seq(Tasks(p)) /\ <<y>> \in Seq(Tasks(p)) /\ <<parse_expr>> \in Seq(Tasks(p))
  BY <1>3, <1>4
<1>7. <<parse_expr>> \o <<y>> \in Seq(Tasks(p))
  BY <1>6, ConcatProperties
<1>8. Condition \in Seq(Tasks(p))
  BY <1>5, <1>6, <1>7, ConcatProperties
<1>9. ASSUME NEW v \in Views, NEW a \in Good(v), NEW b \in Good(v), Step(v, x, a, b), Step(v, y, b, a)
      PROVE  Path(v, Condition, a, a)
  <2>1. Path(v, <<x>>, a, b) /\ Path(v, <<y>>, b, a)
    BY <1>9, PathOne
  <2>2. Path(v, <<parse_expr>>, b, b)
    BY <1>3, FlatStep, PathOne
  <2>3. Path(v, <<parse_expr>> \o <<y>>, b, a)
    BY <1>6, <2>1, <2>2, PathConcat
  <2> QED BY <1>5, <1>6, <1>7, <2>1, <2>3, PathConcat
<1>10. ASSUME NEW s \in Stacks PROVE Path("open", Condition, s, s)
  <2>1. "" \notin Brackets
    BY BracketsAre DEF Brackets
  <2>2. Turn("", s, s)
    BY <2>1 DEF Turn, Brackets
  <2>3. Step("open", x, s, s) /\ Step("open", y, s, s) /\ "open" \in Views /\ s \in Good("open")
    BY <1>1, <2>2 DEF Step, Views, Good
  <2> QED BY <1>9, <2>3
<1>11. ASSUME NEW n \in Nat PROVE Path("lits", Condition, n, n)
  <2>1. x[1] = "suppress" /\ y[1] = "release"
    BY <1>1
  <2>2. Count(x, n, n + 1) /\ Count(y, n + 1, n)
    BY <2>1 DEF Count
  <2>3. Step("lits", x, n, n + 1) /\ Step("lits", y, n + 1, n) /\ "lits" \in Views
        /\ n \in Good("lits") /\ n + 1 \in Good("lits")
    BY <2>1, <2>2 DEF Step, Views, Good
  <2> QED BY <1>9, <2>3
<1> QED BY <1>8, <1>10, <1>11 DEF Even, Views, Good
-----------------------------------------------------------------------------
(* Reading on.                                                                *)

\* Nothing read, nothing open.
LEMMA ReadNone == \A t : Reads(t, 1, <<>>)
<1> SUFFICES ASSUME NEW t PROVE Reads(t, 1, <<>>)
  OBVIOUS
<1>1. PICK e : e = [i \in 1 .. 1 |-> <<>>]
  OBVIOUS
<1>2. <<>> \in Stacks
  BY DEF Stacks
<1>3. e \in [1 .. 1 -> Stacks] /\ e[1] = <<>> /\ \A i \in 1 .. 1 - 1 : FALSE
  BY <1>1, <1>2
<1> QED BY <1>3 DEF Reads

\* One token more.
LEMMA ReadOn ==
  ASSUME NEW t, NEW p \in Nat, p # 0, NEW s, NEW u, Reads(t, p, s), Turn(t[p], s, u)
  PROVE  Reads(t, p + 1, u)
<1>1. PICK e \in [1 .. p -> Stacks] :
        e[1] = <<>> /\ e[p] = s /\ \A i \in 1 .. p - 1 : Turn(t[i], e[i], e[i + 1])
  BY DEF Reads
<1> DEFINE f == [i \in 1 .. p + 1 |-> IF i = p + 1 THEN u ELSE e[i]]
<1>2. u \in Stacks
  BY DEF Turn
<1>3. f \in [1 .. p + 1 -> Stacks] /\ f[p + 1] = u /\ \A i \in 1 .. p : f[i] = e[i]
  BY <1>2
<1> HIDE DEF f
<1>4. ASSUME NEW i \in 1 .. (p + 1) - 1 PROVE Turn(t[i], f[i], f[i + 1])
  <2>1. CASE i = p
    BY <1>1, <1>3, <2>1
  <2>2. CASE i # p
    <3>1. i \in 1 .. p - 1 /\ i \in 1 .. p /\ i + 1 \in 1 .. p
      BY <2>2
    <3> QED BY <1>1, <1>3, <3>1
  <2> QED BY <2>1, <2>2
<1>5. f[1] = <<>>
  <2>1. 1 \in 1 .. p
    OBVIOUS
  <2> QED BY <1>1, <1>3, <2>1
<1> QED BY <1>3, <1>4, <1>5 DEF Reads

\* The parser is at a token of the text, and only the last one ends it.
LEMMA TextAt ==
  ASSUME Core
  PROVE  /\ Len(toks) \in Nat /\ pos \in Nat /\ pos # 0 /\ pos <= Len(toks)
         /\ \A q \in 1 .. Len(toks) : toks[q] \in Kinds
         /\ \A q \in 1 .. Len(toks) : q # Len(toks) => toks[q] # "eof"
         /\ toks[Len(toks)] = "eof" /\ DOMAIN toks = 1 .. Len(toks)
<1>1. toks \in Seq(Kinds) /\ Ended(toks) /\ pos \in 1 .. Len(toks)
  BY InputsAssumption DEF Core
<1>2. DOMAIN toks = 1 .. Len(toks) /\ Len(toks) \in Nat
  BY <1>1, LenProperties
<1>3. \A q \in 1 .. Len(toks) : toks[q] \in Kinds
  BY <1>1, ElementOfSeq
<1>4. \A q \in 1 .. Len(toks) : toks[q] = "eof" <=> q = Len(toks)
  BY <1>1, <1>2 DEF Ended
<1>5. pos \in Nat /\ pos # 0 /\ pos <= Len(toks) /\ Len(toks) \in 1 .. Len(toks)
  BY <1>1, <1>2
<1>6. \A q \in 1 .. Len(toks) : q # Len(toks) => toks[q] # "eof"
  BY <1>4, Zenon
<1>7. toks[Len(toks)] = "eof"
  BY <1>4, <1>5, Zenon
<1> QED BY <1>2, <1>3, <1>5, <1>6, <1>7

\* Before the end of the text there is a next token.
LEMMA OneMore ==
  ASSUME Core, Here # "eof"
  PROVE  pos + 1 \in 1 .. Len(toks) /\ pos + 1 \in Nat /\ pos + 1 # 0 /\ \A q \in pos .. pos + 1 - 1 : q = pos
<1>1. pos # Len(toks)
  BY TextAt DEF Here
<1>2. PICK n \in Nat, p \in Nat : n = Len(toks) /\ p = pos
  BY TextAt
<1>3. p # 0 /\ p <= n /\ p # n
  BY <1>1, <1>2, TextAt
<1>4. p + 1 \in 1 .. n /\ p + 1 \in Nat /\ p + 1 # 0 /\ \A q \in p .. p + 1 - 1 : q = p
  BY ONLY <1>3
<1> QED BY <1>2, <1>4

\* Where tokens follow, the text does not end.
LEMMA NotLast ==
  ASSUME Core, NEW n \in 1 .. 2, pos + n \in 1 .. Len(toks)
  PROVE  Here # "eof"
<1>1. PICK p \in Nat, k \in Nat : p = pos /\ k = Len(toks) /\ p # 0
  BY TextAt
<1>2. p + n \in 1 .. k
  BY <1>1
<1>3. p \in 1 .. k /\ p # k
  BY ONLY <1>1, <1>2
<1> QED BY <1>1, <1>3, TextAt DEF Here

\* Before two tokens that do not end the text there is a third.
LEMMA TwoMore ==
  ASSUME Core, Here # "eof", Ahead(1) # "eof"
  PROVE  /\ pos + 2 \in 1 .. Len(toks) /\ (pos + 1) + 1 = pos + 2
         /\ \A q \in pos .. pos + 2 - 1 : q = pos \/ q = pos + 1
<1>1. pos + 1 # Len(toks)
  BY TextAt DEF Ahead
<1>2. PICK n \in Nat, p \in Nat : n = Len(toks) /\ p = pos
  BY TextAt
<1>3. p + 1 \in 1 .. n /\ p + 1 # n
  BY <1>1, <1>2, OneMore
<1>4. p + 2 \in 1 .. n /\ (p + 1) + 1 = p + 2 /\ \A q \in p .. p + 2 - 1 : q = p \/ q = p + 1
  BY ONLY <1>3
<1> QED BY <1>2, <1>4

\* The next n tokens leave the brackets open as they are, or open o.
Passed(n) ==
  /\ n \in 0 .. 2 /\ pos + n \in 1 .. Len(toks) /\ \A q \in pos .. pos + n - 1 : toks[q] # "error"
  /\ \A s \in Stacks : Reads(toks, pos, s) => Reads(toks, pos + n, s)
Opened(n, o) ==
  /\ n \in 1 .. 2 /\ o \in Openers
  /\ pos + n \in 1 .. Len(toks) /\ \A q \in pos .. pos + n - 1 : toks[q] # "error"
  /\ \A s \in Stacks : Reads(toks, pos, s) => Reads(toks, pos + n, Append(s, o))

Plainly(k) == k \notin {"(", "[", "{", ")", "]", "}", "error", "eof"}

\* A plain token leaves the open brackets alone.
LEMMA PlainTurn == \A k : Plainly(k) => \A s \in Stacks : Turn(k, s, s)
BY BracketsAre DEF Plainly, Turn, Brackets

\* An opening bracket goes on top of them.
LEMMA OpenTurn == \A o \in Openers : \A s \in Stacks : Turn(o, s, Append(s, o)) /\ Append(s, o) \in Stacks
<1> SUFFICES ASSUME NEW o \in Openers, NEW s \in Stacks
             PROVE Turn(o, s, Append(s, o)) /\ Append(s, o) \in Stacks
  OBVIOUS
<1>1. Append(s, o) \in Stacks
  BY AppendProperties DEF Stacks
<1>2. o \notin Closers /\ o \in Brackets
  BY BracketsAre DEF Brackets
<1> QED BY <1>1, <1>2 DEF Turn

\* Its closing one takes it away.
LEMMA CloseTurn == \A o \in Openers : \A s \in Stacks : Turn(Closing[o], Append(s, o), s)
<1> SUFFICES ASSUME NEW o \in Openers, NEW s \in Stacks
             PROVE Turn(Closing[o], Append(s, o), s)
  OBVIOUS
<1>1. Append(s, o) \in Stacks
  BY OpenTurn
<1>2. Closing[o] \in Closers /\ Closing[o] \notin Openers /\ Closing[o] \in Brackets
  BY BracketsAre DEF Brackets
<1> QED BY <1>1, <1>2 DEF Turn

\* Nothing is read.
LEMMA PassNone == Core => Passed(0)
<1> SUFFICES ASSUME Core PROVE Passed(0)
  OBVIOUS
<1>1. pos \in 1 .. Len(toks) /\ pos \in Nat
  BY DEF Core
<1>2. pos + 0 = pos /\ \A q \in pos .. pos + 0 - 1 : FALSE
  BY <1>1
<1> QED BY <1>1, <1>2 DEF Passed

\* One plain token is read.
LEMMA PassOne == Core /\ Plainly(Here) => Passed(1)
<1> SUFFICES ASSUME Core, Plainly(Here) PROVE Passed(1)
  OBVIOUS
<1>1. pos + 1 \in 1 .. Len(toks) /\ \A q \in pos .. pos + 1 - 1 : q = pos
  BY OneMore DEF Plainly
<1>2. ASSUME NEW s \in Stacks, Reads(toks, pos, s) PROVE Reads(toks, pos + 1, s)
  <2>1. Turn(toks[pos], s, s)
    BY PlainTurn DEF Here
  <2> QED BY <1>2, <2>1, ReadOn, TextAt
<1>3. toks[pos] # "error"
  BY DEF Plainly, Here
<1> QED BY <1>1, <1>2, <1>3 DEF Passed

\* One opening bracket is read.
LEMMA OpenOne == Core /\ Here \in Openers => Opened(1, Here)
<1> SUFFICES ASSUME Core, Here \in Openers PROVE Opened(1, Here)
  OBVIOUS
<1>1. Here # "eof" /\ Here # "error"
  BY BracketsAre
<1>2. pos + 1 \in 1 .. Len(toks) /\ \A q \in pos .. pos + 1 - 1 : q = pos
  BY <1>1, OneMore
<1>3. ASSUME NEW s \in Stacks, Reads(toks, pos, s) PROVE Reads(toks, pos + 1, Append(s, Here))
  <2>1. Turn(toks[pos], s, Append(s, Here))
    BY OpenTurn DEF Here
  <2> QED BY <1>3, <2>1, ReadOn, TextAt
<1> QED BY <1>1, <1>2, <1>3 DEF Opened, Here

\* Two tokens: the first is plain and the second plain or a bracket, or the two
\* are a pair of brackets.
LEMMA PassTwo == Core /\ Plainly(Here) /\ Plainly(Ahead(1)) => Passed(2)
<1> SUFFICES ASSUME Core, Plainly(Here), Plainly(Ahead(1)) PROVE Passed(2)
  OBVIOUS
<1>1. pos + 1 \in 1 .. Len(toks) /\ pos + 1 \in Nat /\ pos + 1 # 0
  BY OneMore DEF Plainly
<1>2. pos + 2 \in 1 .. Len(toks) /\ (pos + 1) + 1 = pos + 2
      /\ \A q \in pos .. pos + 2 - 1 : q = pos \/ q = pos + 1
  BY TwoMore DEF Plainly
<1>3. ASSUME NEW s \in Stacks, Reads(toks, pos, s) PROVE Reads(toks, pos + 2, s)
  <2>1. Turn(toks[pos], s, s) /\ Turn(toks[pos + 1], s, s)
    BY PlainTurn DEF Here, Ahead
  <2>2. Reads(toks, pos + 1, s)
    BY <1>3, <2>1, ReadOn, TextAt
  <2>3. Reads(toks, (pos + 1) + 1, s)
    BY <1>1, <2>1, <2>2, ReadOn
  <2> QED BY <1>2, <2>3
<1>4. toks[pos] # "error" /\ toks[pos + 1] # "error"
  BY DEF Plainly, Here, Ahead
<1> QED BY <1>2, <1>3, <1>4 DEF Passed

\* A plain token and an opening bracket are read.
LEMMA OpenTwo == Core /\ Plainly(Here) /\ Ahead(1) \in Openers => Opened(2, Ahead(1))
<1> SUFFICES ASSUME Core, Plainly(Here), Ahead(1) \in Openers PROVE Opened(2, Ahead(1))
  OBVIOUS
<1>1. pos + 1 \in 1 .. Len(toks) /\ pos + 1 \in Nat /\ pos + 1 # 0
  BY OneMore DEF Plainly
<1>2. Ahead(1) # "eof" /\ Ahead(1) # "error"
  BY BracketsAre
<1>3. pos + 2 \in 1 .. Len(toks) /\ (pos + 1) + 1 = pos + 2
      /\ \A q \in pos .. pos + 2 - 1 : q = pos \/ q = pos + 1
  BY <1>1, <1>2, TwoMore DEF Plainly
<1>4. ASSUME NEW s \in Stacks, Reads(toks, pos, s) PROVE Reads(toks, pos + 2, Append(s, Ahead(1)))
  <2>1. Turn(toks[pos], s, s) /\ Turn(toks[pos + 1], s, Append(s, Ahead(1)))
    BY PlainTurn, OpenTurn DEF Here, Ahead
  <2>2. Reads(toks, pos + 1, s)
    BY <1>4, <2>1, ReadOn, TextAt
  <2>3. Reads(toks, (pos + 1) + 1, Append(s, Ahead(1)))
    BY <1>1, <2>1, <2>2, ReadOn
  <2> QED BY <1>3, <2>3
<1>5. toks[pos] # "error" /\ toks[pos + 1] # "error"
  BY <1>2 DEF Plainly, Here, Ahead
<1> QED BY <1>3, <1>4, <1>5 DEF Opened

\* A bracket and its partner are read.
LEMMA PassPair == Core /\ Here \in Openers /\ Ahead(1) = Closing[Here] => Passed(2)
<1> SUFFICES ASSUME Core, Here \in Openers, Ahead(1) = Closing[Here] PROVE Passed(2)
  OBVIOUS
<1>1. Here # "eof" /\ Here # "error" /\ Ahead(1) # "eof" /\ Ahead(1) # "error"
  BY BracketsAre
<1>2. pos + 1 \in 1 .. Len(toks) /\ pos + 1 \in Nat /\ pos + 1 # 0
  BY <1>1, OneMore
<1>3. pos + 2 \in 1 .. Len(toks) /\ (pos + 1) + 1 = pos + 2
      /\ \A q \in pos .. pos + 2 - 1 : q = pos \/ q = pos + 1
  BY <1>1, <1>2, TwoMore DEF Plainly
<1>4. ASSUME NEW s \in Stacks, Reads(toks, pos, s) PROVE Reads(toks, pos + 2, s)
  <2>1. Turn(toks[pos], s, Append(s, Here)) /\ Turn(toks[pos + 1], Append(s, Here), s)
    BY OpenTurn, CloseTurn DEF Here, Ahead
  <2>2. Reads(toks, pos + 1, Append(s, Here))
    BY <1>4, <2>1, ReadOn, TextAt
  <2>3. Reads(toks, (pos + 1) + 1, s)
    BY <1>2, <2>1, <2>2, ReadOn
  <2> QED BY <1>3, <2>3
<1>5. toks[pos] # "error" /\ toks[pos + 1] # "error"
  BY <1>1 DEF Here, Ahead
<1> QED BY <1>3, <1>4, <1>5 DEF Passed
-----------------------------------------------------------------------------
(* Steps.                                                                     *)

\* The tasks that either view sees.
Watched == {"expect", "suppress", "release", "restore"}

\* The first task, when it is not one of those, is flat.
LEMMA HeadFlat ==
  ASSUME Core, NEW f, f \notin Watched, Doing(f)
  PROVE  todo[1] \in Flat(pos)
<1>1. todo \in Seq(Tasks(pos)) /\ todo # <<>> /\ todo[1][1] = f
  BY DEF Core, Doing
<1>2. todo[1] \in Tasks(pos)
  BY <1>1
<1>3. todo[1][1] \notin Watched
  BY <1>1
<1> QED BY <1>2, <1>3 DEF Tasks, Watched

\* What is before r is before p or from p on.
LEMMA Between == \A p, r \in Nat : \A q \in 1 .. r - 1 : q \in 1 .. p - 1 \/ q \in p .. r - 1
OBVIOUS

\* What every step keeps; what is at the end of the list of tasks stays there.
SameEnd == Tail(todo) # <<>> => todo' # <<>> /\ todo'[Len(todo')] = todo[Len(todo)]
Kept == Core' /\ SameEnd /\ toks' = toks

\* What it takes to keep the promise: a step that does the first task puts
\* tasks w in its place that with the tokens it reads come to the same.
LEMMA Keeps ==
  ASSUME Core, todo # <<>>, NEW w,
         todo' = w \o Tail(todo), w \in Seq(Tasks(pos')), toks' = toks,
         pos' \in pos .. Len(toks), no_struct_lit' \in Nat, had_error' \in BOOLEAN,
         \A m \in Nat : Count(todo[1], no_struct_lit, m) => Path("lits", w, no_struct_lit', m),
         ~had_error' =>
           /\ ~had_error /\ \A q \in pos .. pos' - 1 : toks[q] # "error"
           /\ \A s, m \in Stacks : Reads(toks, pos, s) /\ Step("open", todo[1], s, m)
                => \E u \in Stacks : Reads(toks, pos', u) /\ Path("open", w, u, m)
  PROVE  Kept
<1>1. todo \in Seq(Tasks(pos)) /\ Tail(todo) \in Seq(Tasks(pos))
  <2>1. todo \in Seq(Tasks(pos))
    BY DEF Core
  <2> QED BY <2>1, HeadTailProperties
<1>2. pos \in Nat /\ pos' \in Nat /\ pos <= pos' /\ pos' \in 1 .. Len(toks)
  <2>1. PICK p \in Nat, n \in Nat : p = pos /\ n = Len(toks) /\ p # 0
    BY TextAt
  <2>2. PICK r \in p .. n : r = pos'
    BY <2>1
  <2>3. r \in Nat /\ p <= r /\ r \in 1 .. n
    BY ONLY <2>1
  <2> QED BY <2>1, <2>2, <2>3
<1>3. Tail(todo) \in Seq(Tasks(pos'))
  BY <1>1, <1>2, TasksGrow, SeqMonotonic
<1>4. w \o Tail(todo) \in Seq(Tasks(pos'))
  BY <1>3, ConcatProperties
<1>5. Path("lits", w \o Tail(todo), no_struct_lit', 0)
  <2>1. "lits" \in Views /\ Good("lits") = Nat /\ Path("lits", todo, no_struct_lit, 0)
    BY DEF Views, Good, Core
  <2>2. PICK m \in Nat : Step("lits", todo[1], no_struct_lit, m) /\ Path("lits", Tail(todo), m, 0)
    BY <1>1, <2>1, PathHead
  <2>3. Count(todo[1], no_struct_lit, m)
    BY <2>2 DEF Step
  <2>4. Path("lits", w, no_struct_lit', m)
    BY <2>3
  <2> QED BY <1>3, <2>1, <2>2, <2>4, PathConcat
<1>6. ASSUME ~had_error'
      PROVE  /\ \A q \in 1 .. pos' - 1 : toks[q] # "error"
             /\ \E s \in Stacks : Reads(toks, pos', s) /\ Path("open", w \o Tail(todo), s, <<>>)
  <2>1. ~had_error /\ \A q \in pos .. pos' - 1 : toks[q] # "error"
    BY <1>6
  <2>2. \A q \in 1 .. pos - 1 : toks[q] # "error"
    BY <2>1 DEF Core
  <2>3. ASSUME NEW q \in 1 .. pos' - 1 PROVE toks[q] # "error"
    <3>1. PICK p \in Nat, r \in Nat : p = pos /\ r = pos'
      BY <1>2
    <3>2. q \in 1 .. r - 1
      BY <3>1
    <3>3. q \in 1 .. p - 1 \/ q \in p .. r - 1
      BY <3>2, Between
    <3>4. q \in 1 .. pos - 1 \/ q \in pos .. pos' - 1
      BY <3>1, <3>3
    <3> QED BY <2>1, <2>2, <3>4
  <2>4. PICK s \in Stacks : Reads(toks, pos, s) /\ Path("open", todo, s, <<>>)
    BY <2>1 DEF Core
  <2>5. "open" \in Views /\ Good("open") = Stacks
    BY DEF Views, Good
  <2>6. PICK m \in Stacks : Step("open", todo[1], s, m) /\ Path("open", Tail(todo), m, <<>>)
    BY <1>1, <2>4, <2>5, PathHead
  <2>7. PICK u \in Stacks : Reads(toks, pos', u) /\ Path("open", w, u, m)
    BY <1>6, <2>4, <2>6
  <2>8. Path("open", w \o Tail(todo), u, <<>>)
    BY <1>3, <2>5, <2>6, <2>7, PathConcat
  <2> QED BY <2>3, <2>7, <2>8
<1>7. toks \in Inputs
  BY DEF Core
<1>8. Core'
  BY <1>2, <1>4, <1>5, <1>6, <1>7 DEF Core
<1>9. ASSUME Tail(todo) # <<>> PROVE todo' # <<>> /\ todo'[Len(todo')] = todo[Len(todo)]
  <2>1. PICK n \in Nat, k \in Nat : n = Len(w) /\ k = Len(Tail(todo))
    BY <1>3, LenProperties
  <2>2. k # 0
    BY <1>3, <1>9, <2>1, EmptySeq
  <2>3. Len(todo) = k + 1 /\ Tail(todo)[k] = todo[k + 1]
    <3>1. /\ Len(Tail(todo)) = Len(todo) - 1 /\ Len(todo) \in Nat
          /\ \A i \in 1 .. Len(Tail(todo)) : Tail(todo)[i] = todo[i + 1]
      BY <1>1, HeadTailProperties, LenProperties
    <3> QED BY <2>1, <2>2, <3>1
  <2>4. Len(todo') = n + k /\ todo'[n + k] = Tail(todo)[k]
    <3>1. /\ Len(w \o Tail(todo)) = Len(w) + Len(Tail(todo))
          /\ \A i \in 1 .. Len(w) + Len(Tail(todo)) :
               (w \o Tail(todo))[i] = IF i <= Len(w) THEN w[i] ELSE Tail(todo)[i - Len(w)]
      BY <1>3, ConcatProperties
    <3>2. n + k \in 1 .. n + k /\ ~(n + k <= n) /\ (n + k) - n = k
      BY <2>2
    <3> QED BY <2>1, <3>1, <3>2
  <2>5. todo' # <<>>
    BY <2>1, <2>2, <2>4
  <2> QED BY <2>3, <2>4, <2>5
<1> QED BY <1>8, <1>9 DEF Kept, SameEnd

Same == UNCHANGED <<no_struct_lit, had_error>>

\* A flat task is done: n tokens are read and flat or paired tasks are put in.
LEMMA Move ==
  ASSUME Core, Same, NEW f, f \notin Watched, NEW n, NEW w, Do(f, n, w), Passed(n), Even(w, pos + n)
  PROVE  Kept
<1>1. todo # <<>> /\ todo[1] \in Flat(pos) /\ todo' = w \o Tail(todo) /\ toks' = toks
  BY HeadFlat DEF Do, Doing
<1>2. pos' = pos + n /\ pos' \in pos .. Len(toks) /\ n \in Nat /\ pos \in Nat /\ pos' \in Nat
  <2>1. n \in 0 .. 2 /\ pos + n \in 1 .. Len(toks) /\ pos \in Nat /\ Len(toks) \in Nat
    BY TextAt DEF Passed
  <2>2. Here = "eof" => n = 0
    BY <2>1, NotLast
  <2>3. pos' = IF Here = "eof" THEN pos ELSE pos + n
    BY DEF Do
  <2> QED BY <2>1, <2>2, <2>3
<1>3. w \in Seq(Tasks(pos'))
  BY <1>2 DEF Even
<1>4. no_struct_lit' = no_struct_lit /\ had_error' = had_error
      /\ no_struct_lit \in Nat /\ had_error \in BOOLEAN
  BY DEF Core, Same
<1>5. "open" \in Views /\ "lits" \in Views /\ Good("open") = Stacks /\ Good("lits") = Nat
  BY DEF Views, Good
<1>6. ASSUME NEW m \in Nat, Count(todo[1], no_struct_lit, m)
      PROVE Path("lits", w, no_struct_lit', m)
  <2>1. todo[1][1] \notin {"suppress", "release", "restore"}
    BY DEF Do, Doing, Watched
  <2>2. m = no_struct_lit
    BY <1>6, <2>1 DEF Count
  <2> QED BY <1>4, <1>5, <2>2 DEF Even
<1>7. ASSUME ~had_error'
      PROVE  /\ ~had_error /\ \A q \in pos .. pos' - 1 : toks[q] # "error"
             /\ \A s, m \in Stacks : Reads(toks, pos, s) /\ Step("open", todo[1], s, m)
                  => \E u \in Stacks : Reads(toks, pos', u) /\ Path("open", w, u, m)
  <2>1. \A q \in pos .. pos' - 1 : toks[q] # "error"
    <3>1. \A q \in pos .. pos + n - 1 : toks[q] # "error"
      BY DEF Passed
    <3>2. pos' - 1 = pos + n - 1
      BY <1>2
    <3> QED BY <3>1, <3>2
  <2>2. ASSUME NEW s \in Stacks, NEW m \in Stacks, Reads(toks, pos, s), Step("open", todo[1], s, m)
        PROVE  \E u \in Stacks : Reads(toks, pos', u) /\ Path("open", w, u, m)
    <3>1. todo[1][1] # "expect" /\ "" \notin Brackets
      BY BracketsAre DEF Do, Doing, Watched, Brackets
    <3>2. m = s
      BY <2>2, <3>1 DEF Step, Turn
    <3>3. Reads(toks, pos', s)
      BY <1>2, <2>2 DEF Passed
    <3>4. Path("open", w, s, s)
      BY <1>5 DEF Even
    <3> QED BY <3>2, <3>3, <3>4
  <2>3. ~had_error
    BY <1>4, <1>7
  <2> QED BY <2>1, <2>2, <2>3
<1> QED BY <1>1, <1>2, <1>3, <1>4, <1>6, <1>7, Keeps

\* A flat task is done: n tokens are read, the last one opens a bracket, and
\* tasks are put in that close it.
LEMMA MoveIn ==
  ASSUME Core, Same, NEW f, f \notin Watched, NEW n, NEW o, NEW w,
         Do(f, n, w), Opened(n, o), Closes(o, w, pos + n)
  PROVE  Kept
<1>1. todo # <<>> /\ todo[1] \in Flat(pos) /\ todo' = w \o Tail(todo) /\ toks' = toks
  BY HeadFlat DEF Do, Doing
<1>2. pos' = pos + n /\ pos' \in pos .. Len(toks) /\ n \in Nat /\ pos \in Nat /\ pos' \in Nat
  <2>1. n \in 1 .. 2 /\ pos + n \in 1 .. Len(toks) /\ pos \in Nat /\ Len(toks) \in Nat
    BY TextAt DEF Opened
  <2>2. Here # "eof"
    BY <2>1, NotLast
  <2>3. pos' = IF Here = "eof" THEN pos ELSE pos + n
    BY DEF Do
  <2> QED BY <2>1, <2>2, <2>3
<1>3. w \in Seq(Tasks(pos'))
  BY <1>2 DEF Closes
<1>4. no_struct_lit' = no_struct_lit /\ had_error' = had_error
      /\ no_struct_lit \in Nat /\ had_error \in BOOLEAN
  BY DEF Core, Same
<1>6. ASSUME NEW m \in Nat, Count(todo[1], no_struct_lit, m)
      PROVE Path("lits", w, no_struct_lit', m)
  <2>1. todo[1][1] \notin {"suppress", "release", "restore"}
    BY DEF Do, Doing, Watched
  <2>2. m = no_struct_lit
    BY <1>6, <2>1 DEF Count
  <2> QED BY <1>4, <2>2 DEF Closes
<1>7. ASSUME ~had_error'
      PROVE  /\ ~had_error /\ \A q \in pos .. pos' - 1 : toks[q] # "error"
             /\ \A s, m \in Stacks : Reads(toks, pos, s) /\ Step("open", todo[1], s, m)
                  => \E u \in Stacks : Reads(toks, pos', u) /\ Path("open", w, u, m)
  <2>1. \A q \in pos .. pos' - 1 : toks[q] # "error"
    <3>1. \A q \in pos .. pos + n - 1 : toks[q] # "error"
      BY DEF Opened
    <3>2. pos' - 1 = pos + n - 1
      BY <1>2
    <3> QED BY <3>1, <3>2
  <2>2. ASSUME NEW s \in Stacks, NEW m \in Stacks, Reads(toks, pos, s), Step("open", todo[1], s, m)
        PROVE  \E u \in Stacks : Reads(toks, pos', u) /\ Path("open", w, u, m)
    <3>1. todo[1][1] # "expect" /\ "" \notin Brackets
      BY BracketsAre DEF Do, Doing, Watched, Brackets
    <3>2. m = s
      BY <2>2, <3>1 DEF Step, Turn
    <3>3. Reads(toks, pos', Append(s, o)) /\ Append(s, o) \in Stacks
      BY <1>2, <2>2, OpenTurn DEF Opened
    <3>4. Path("open", w, Append(s, o), s)
      BY DEF Closes
    <3> QED BY <3>2, <3>3, <3>4
  <2>3. ~had_error
    BY <1>4, <1>7
  <2> QED BY <2>1, <2>2, <2>3
<1> QED BY <1>1, <1>2, <1>3, <1>4, <1>6, <1>7, Keeps

\* A task is given up, with an error.
LEMMA MoveBad ==
  ASSUME Core, NEW f, f \notin {"suppress", "release", "restore"},
         NEW n \in 0 .. 1, Do(f, n, <<>>), had_error' = TRUE, no_struct_lit' = no_struct_lit
  PROVE  Kept
<1>1. todo # <<>> /\ todo' = <<>> \o Tail(todo) /\ toks' = toks
  BY DEF Do, Doing
<1>2. pos' \in pos .. Len(toks)
  <2>1. pos' = IF Here = "eof" THEN pos ELSE pos + n
    BY DEF Do
  <2>2. pos \in Nat /\ Len(toks) \in Nat /\ pos <= Len(toks)
    BY TextAt
  <2>3. CASE Here = "eof"
    BY <2>1, <2>2, <2>3
  <2>4. CASE Here # "eof"
    BY <2>1, <2>2, <2>4, OneMore
  <2> QED BY <2>3, <2>4
<1>3. <<>> \in Seq(Tasks(pos'))
  OBVIOUS
<1>4. no_struct_lit' \in Nat /\ had_error' \in BOOLEAN /\ no_struct_lit \in Nat /\ had_error'
  BY DEF Core
<1>5. ASSUME NEW m \in Nat, Count(todo[1], no_struct_lit, m)
      PROVE Path("lits", <<>>, no_struct_lit', m)
  <2>1. todo[1][1] \notin {"suppress", "release", "restore"}
    BY DEF Do, Doing
  <2>2. m = no_struct_lit
    BY <1>5, <2>1 DEF Count
  <2>3. "lits" \in Views /\ Good("lits") = Nat
    BY DEF Views, Good
  <2> QED BY <1>4, <2>2, <2>3, PathNone
<1> QED BY <1>1, <1>2, <1>3, <1>4, <1>5, Keeps
-----------------------------------------------------------------------------
(* Every action of the parser is such a step.                                 *)

\* Calls are tasks that neither view sees.
LEMMA CallFlat == \A p : \A f \in CallNames : Call(f) \in Flat(p)
BY DEF Call, Flat

\* Tokens that are no brackets.
LEMMA WantFlat == \A p : \A k \in FlatKinds : Expect(k) \in Flat(p) /\ Optional(k) \in Flat(p)
BY DEF Expect, Optional, Flat

\* Expressions.
LEMMA PrecedenceFlat == \A p : parse_expr \in Flat(p) /\ \A n \in Levels : Precedence(n) \in Flat(p)
<1>1. \A p : \A n \in Levels : Precedence(n) \in Flat(p)
  BY DEF Precedence, Flat
<1>2. ASSIGN \in Levels
  BY PrecIs DEF ASSIGN, Levels
<1> QED BY <1>1, <1>2 DEF parse_expr

\* No task at all.
LEMMA EvenNone == \A p \in Nat : Even(<<>>, p)
<1>1. \A p \in Nat : <<>> \in Seq(Flat(p))
  OBVIOUS
<1> QED BY <1>1, EvenFlat

\* One task.
LEMMA Even1 == \A p \in Nat : \A a \in Flat(p) : Even(<<a>>, p)
<1>1. \A p \in Nat : \A a \in Flat(p) : <<a>> \in Seq(Flat(p))
  OBVIOUS
<1> QED BY <1>1, EvenFlat

\* Two tasks.
LEMMA Even2 == \A p \in Nat : \A a, b \in Flat(p) : Even(<<a, b>>, p)
<1>1. \A p \in Nat : \A a, b \in Flat(p) : <<a, b>> \in Seq(Flat(p))
  OBVIOUS
<1> QED BY <1>1, EvenFlat

\* Three tasks.
LEMMA Even3 == \A p \in Nat : \A a, b, c \in Flat(p) : Even(<<a, b, c>>, p)
<1>1. \A p \in Nat : \A a, b, c \in Flat(p) : <<a, b, c>> \in Seq(Flat(p))
  OBVIOUS
<1> QED BY <1>1, EvenFlat

\* Four tasks.
LEMMA Even4 == \A p \in Nat : \A a, b, c, d \in Flat(p) : Even(<<a, b, c, d>>, p)
<1>1. \A p \in Nat : \A a, b, c, d \in Flat(p) : <<a, b, c, d>> \in Seq(Flat(p))
  OBVIOUS
<1> QED BY <1>1, EvenFlat

\* Five tasks.
LEMMA Even5 == \A p \in Nat : \A a, b, c, d, e \in Flat(p) : Even(<<a, b, c, d, e>>, p)
<1>1. \A p \in Nat : \A a, b, c, d, e \in Flat(p) : <<a, b, c, d, e>> \in Seq(Flat(p))
  OBVIOUS
<1> QED BY <1>1, EvenFlat

\* Tasks that close a bracket: one before it.
LEMMA Closes2 == \A p \in Nat : \A o \in Openers : \A a \in Flat(p) :
  Closes(o, <<a, Expect(Closing[o])>>, p)
<1> SUFFICES ASSUME NEW p \in Nat, NEW o \in Openers, NEW a \in Flat(p)
             PROVE  Closes(o, <<a, Expect(Closing[o])>>, p)
  OBVIOUS
<1>1. Closes(o, (<<a>> \o <<Expect(Closing[o])>>) \o <<>>, p)
  BY Even1, EvenNone, ClosesIs
<1>2. (<<a>> \o <<Expect(Closing[o])>>) \o <<>> = <<a, Expect(Closing[o])>>
  BY Glue
<1> QED BY <1>1, <1>2

\* The same with one task after the bracket.
LEMMA Closes3 == \A p \in Nat : \A o \in Openers : \A a, b \in Flat(p) :
  Closes(o, <<a, Expect(Closing[o]), b>>, p)
<1> SUFFICES ASSUME NEW p \in Nat, NEW o \in Openers, NEW a \in Flat(p), NEW b \in Flat(p)
             PROVE  Closes(o, <<a, Expect(Closing[o]), b>>, p)
  OBVIOUS
<1>1. Closes(o, (<<a>> \o <<Expect(Closing[o])>>) \o <<b>>, p)
  BY Even1, ClosesIs
<1>2. (<<a>> \o <<Expect(Closing[o])>>) \o <<b>> = <<a, Expect(Closing[o]), b>>
  BY Glue
<1> QED BY <1>1, <1>2

\* And with two before it.
LEMMA Closes4 == \A p \in Nat : \A o \in Openers : \A a, b, c \in Flat(p) :
  Closes(o, <<a, b, Expect(Closing[o]), c>>, p)
<1> SUFFICES ASSUME NEW p \in Nat, NEW o \in Openers, NEW a \in Flat(p), NEW b \in Flat(p), NEW c \in Flat(p)
             PROVE  Closes(o, <<a, b, Expect(Closing[o]), c>>, p)
  OBVIOUS
<1>1. Closes(o, (<<a, b>> \o <<Expect(Closing[o])>>) \o <<c>>, p)
  BY Even1, Even2, ClosesIs
<1>2. (<<a, b>> \o <<Expect(Closing[o])>>) \o <<c>> = <<a, b, Expect(Closing[o]), c>>
  BY Glue
<1> QED BY <1>1, <1>2

\* What the first task is called with.
LEMMA HeadArg ==
  ASSUME Core, NEW f, Doing(f)
  PROVE  /\ todo[1] = <<f, Arg>> /\ todo[1] \in Tasks(pos)
         /\ f = "expect" => Arg \in FlatKinds \cup Brackets
         /\ f = "match" => Arg \in FlatKinds
         /\ f = "parse_precedence" => Arg \in Levels
         /\ f = "operators" => Arg \in Levels \X (1 .. pos)
         /\ f = "node" => Arg \in (1 .. pos) \X (1 .. pos - 1)
         /\ f = "restore" => Arg \in Nat
<1>1. todo \in Seq(Tasks(pos)) /\ todo # <<>> /\ todo[1][1] = f
  BY DEF Core, Doing
<1>2. todo[1] \in Tasks(pos)
  BY <1>1
<1>3. PICK t \in Tasks(pos) : t = todo[1] /\ t[1] = f /\ t[2] = Arg
  BY <1>1, <1>2 DEF Arg
<1>4. t = <<f, Arg>>
  <2>1. \A A, B : t \in A \X B => t = <<t[1], t[2]>>
    OBVIOUS
  <2>2. \E A, B : t \in A \X B
    BY Zenon DEF Tasks, Flat
  <2> QED BY <1>3, <2>1, <2>2
<1>5. f \notin CallNames \/ f \notin {"expect", "match", "parse_precedence", "operators", "node", "restore"}
  BY DEF CallNames
<1>6. /\ f = "expect" => Arg \in FlatKinds \cup Brackets
      /\ f = "match" => Arg \in FlatKinds
      /\ f = "parse_precedence" => Arg \in Levels
  BY <1>3, <1>5 DEF Tasks, Flat
<1>7. f = "operators" => Arg \in Levels \X (1 .. pos)
  BY <1>3, <1>5 DEF Tasks, Flat
<1>8. f = "node" => Arg \in (1 .. pos) \X (1 .. pos - 1)
  BY <1>3, <1>5 DEF Tasks, Flat
<1>9. f = "restore" => Arg \in Nat
  BY <1>3, <1>5 DEF Tasks, Flat
<1> QED BY <1>2, <1>3, <1>4, <1>6, <1>7, <1>8, <1>9

\* Operators still to come, and operators waiting for their right side.
LEMMA OperatorsFlat == \A p \in Nat : \A n \in Levels : \A q \in 1 .. p : <<"operators", <<n, q>>>> \in Flat(p)
BY DEF Flat

\* An operator that waits for its right side.
LEMMA NodeFlat == \A p \in Nat : \A q, r \in 1 .. p : <<"node", <<q, r>>>> \in Flat(p + 1)
<1> SUFFICES ASSUME NEW p \in Nat, NEW q \in 1 .. p, NEW r \in 1 .. p
             PROVE  <<"node", <<q, r>>>> \in Flat(p + 1)
  OBVIOUS
<1>1. q \in 1 .. p + 1 /\ r \in 1 .. (p + 1) - 1
  OBVIOUS
<1> QED BY <1>1 DEF Flat

\* Positions that are read from.
LEMMA Near ==
  ASSUME Core
  PROVE  pos \in Nat /\ pos \in 1 .. pos /\ pos + 0 = pos /\ pos + 1 \in Nat /\ pos + 2 \in Nat
<1>1. pos \in 1 .. Len(toks)
  BY DEF Core
<1>2. pos \in Nat /\ pos # 0
  BY <1>1
<1> QED BY <1>2

\* A type.
LEMMA Core_parse_type == Core /\ parse_type => Kept
<1> SUFFICES ASSUME Core, parse_type PROVE Kept
  OBVIOUS
<1>0. pos \in Nat /\ pos + 0 = pos /\ pos + 1 \in Nat /\ pos + 2 \in Nat
  BY Near
<1>1. ASSUME Here = "*", Do("parse_type", 1, <<Call("parse_type")>>), Plain PROVE Kept
  <2>1. Passed(1)
    BY <1>1, PassOne DEF Plainly
  <2>2. Even(<<Call("parse_type")>>, pos + 1)
    BY <1>0, Even1, CallFlat DEF CallNames
  <2> QED BY <1>1, <2>1, <2>2, Move DEF Watched, Plain, Same
<1>2. ASSUME Here = "[", Ahead(1) = "]",
            Do("parse_type", 2, <<Call("parse_type")>>),
            Plain
      PROVE  Kept
  <2>1. Passed(2)
    BY <1>2, PassPair, BracketsAre
  <2>2. Even(<<Call("parse_type")>>, pos + 2)
    BY <1>0, Even1, CallFlat DEF CallNames
  <2> QED BY <1>2, <2>1, <2>2, Move DEF Watched, Plain, Same
<1>3. ASSUME Here = "[", Ahead(1) # "]",
            Do("parse_type", 1, <<Expect("int"), Expect("]"), Call("parse_type")>>),
            Plain
      PROVE  Kept
  <2>1. Opened(1, "[")
    BY <1>3, OpenOne, BracketsAre
  <2>2. Closes("[", <<Expect("int"), Expect("]"), Call("parse_type")>>, pos + 1)
    BY <1>0, Closes3, BracketsAre, CallFlat, WantFlat DEF CallNames, FlatKinds
  <2> QED BY <1>3, <2>1, <2>2, MoveIn DEF Watched, Plain, Same
<1>4. ASSUME Here \in Idents, Do("parse_type", 1, <<>>), Plain PROVE Kept
  <2>1. Passed(1)
    BY <1>4, PassOne DEF Plainly, Idents
  <2>2. Even(<<>>, pos + 1)
    BY <1>0, EvenNone
  <2> QED BY <1>4, <2>1, <2>2, Move DEF Watched, Plain, Same
<1>5. ASSUME Do("parse_type", 1, <<>>), Error PROVE Kept
  BY <1>5, MoveBad DEF Error
<1> QED BY <1>1, <1>2, <1>3, <1>4, <1>5 DEF parse_type

\* An operand that is not in parentheses.
LEMMA Core_Operand == Core /\ Operand => Kept
<1> SUFFICES ASSUME Core, Operand PROVE Kept
  OBVIOUS
<1>0. pos \in Nat /\ pos + 0 = pos /\ pos + 1 \in Nat /\ pos + 2 \in Nat
  BY Near
<1>1. ASSUME Here \in Literals, Do("parse_primary", 1, <<>>), Plain PROVE Kept
  <2>1. Passed(1)
    BY <1>1, PassOne DEF Plainly, Literals
  <2>2. Even(<<>>, pos + 1)
    BY <1>0, EvenNone
  <2> QED BY <1>1, <2>1, <2>2, Move DEF Watched, Plain, Same
<1>2. ASSUME IsOld, Do("parse_primary", 2, <<parse_expr, Expect(")")>>), Plain PROVE Kept
  <2>1. Opened(2, "(")
    BY <1>2, OpenTwo, BracketsAre DEF IsOld, Plainly
  <2>2. Closes("(", <<parse_expr, Expect(")")>>, pos + 2)
    BY <1>0, Closes2, BracketsAre, PrecedenceFlat
  <2> QED BY <1>2, <2>1, <2>2, MoveIn DEF Watched, Plain, Same
<1>3. ASSUME StructLit, Do("parse_primary", 2, <<Call("fields"), Expect("}")>>), Plain PROVE Kept
  <2>1. Opened(2, "{")
    BY <1>3, OpenTwo, BracketsAre DEF StructLit, Plainly, Idents
  <2>2. Closes("{", <<Call("fields"), Expect("}")>>, pos + 2)
    BY <1>0, Closes2, BracketsAre, CallFlat DEF CallNames
  <2> QED BY <1>3, <2>1, <2>2, MoveIn DEF Watched, Plain, Same
<1>4. ASSUME Here \in Idents, Do("parse_primary", 1, <<>>), Plain PROVE Kept
  <2>1. Passed(1)
    BY <1>4, PassOne DEF Plainly, Idents
  <2>2. Even(<<>>, pos + 1)
    BY <1>0, EvenNone
  <2> QED BY <1>4, <2>1, <2>2, Move DEF Watched, Plain, Same
<1>5. ASSUME Here \in Unary,
            Do("parse_primary", 1, <<Precedence(UNARY), <<"node", <<pos, pos>>>>>>),
            Plain
      PROVE  Kept
  <2>1. Passed(1)
    BY <1>5, PassOne DEF Plainly, Unary
  <2>2. Even(<<Precedence(UNARY), <<"node", <<pos, pos>>>>>>, pos + 1)
    <3>1. UNARY \in Levels
      BY DEF UNARY, Levels
    <3>2. <<"node", <<pos, pos>>>> \in Flat(pos + 1)
      BY Near, NodeFlat
    <3> QED BY <1>0, <3>1, <3>2, Even2, PrecedenceFlat
  <2> QED BY <1>5, <2>1, <2>2, Move DEF Watched, Plain, Same
<1> QED BY <1>1, <1>2, <1>3, <1>4, <1>5 DEF Operand

\* The fields of a struct literal.
LEMMA Core_fields == Core /\ fields => Kept
<1> SUFFICES ASSUME Core, fields PROVE Kept
  OBVIOUS
<1>0. pos \in Nat /\ pos + 0 = pos /\ pos + 1 \in Nat /\ pos + 2 \in Nat
  BY Near
<1>1. ASSUME Do("fields", 0, <<>>), Plain PROVE Kept
  <2>1. Passed(0)
    BY PassNone
  <2>2. Even(<<>>, pos + 0)
    BY <1>0, EvenNone
  <2> QED BY <1>1, <2>1, <2>2, Move DEF Watched, Plain, Same
<1>2. ASSUME Do("fields", 0, <<Expect("ident"), Expect("="), parse_expr, Call("more_fields")>>),
            Plain
      PROVE  Kept
  <2>1. Passed(0)
    BY PassNone
  <2>2. Even(<<Expect("ident"), Expect("="), parse_expr, Call("more_fields")>>, pos + 0)
    BY <1>0, Even4, CallFlat, WantFlat, PrecedenceFlat DEF CallNames, FlatKinds
  <2> QED BY <1>2, <2>1, <2>2, Move DEF Watched, Plain, Same
<1>3. ASSUME Here = ",", Do("more_fields", 1, <<Call("fields")>>), Plain PROVE Kept
  <2>1. Passed(1)
    BY <1>3, PassOne DEF Plainly
  <2>2. Even(<<Call("fields")>>, pos + 1)
    BY <1>0, Even1, CallFlat DEF CallNames
  <2> QED BY <1>3, <2>1, <2>2, Move DEF Watched, Plain, Same
<1>4. ASSUME Do("more_fields", 0, <<>>), Plain PROVE Kept
  <2>1. Passed(0)
    BY PassNone
  <2>2. Even(<<>>, pos + 0)
    BY <1>0, EvenNone
  <2> QED BY <1>4, <2>1, <2>2, Move DEF Watched, Plain, Same
<1> QED BY <1>1, <1>2, <1>3, <1>4 DEF fields

\* Calls, indexes and fields.
LEMMA Core_parse_call_or_postfix == Core /\ parse_call_or_postfix => Kept
<1> SUFFICES ASSUME Core, parse_call_or_postfix PROVE Kept
  OBVIOUS
<1>0. pos \in Nat /\ pos + 0 = pos /\ pos + 1 \in Nat /\ pos + 2 \in Nat
  BY Near
<1>1. ASSUME Here = "(", Ahead(1) = ")",
            Do("parse_call_or_postfix", 2, <<Call("parse_call_or_postfix")>>),
            Plain
      PROVE  Kept
  <2>1. Passed(2)
    BY <1>1, PassPair, BracketsAre
  <2>2. Even(<<Call("parse_call_or_postfix")>>, pos + 2)
    BY <1>0, Even1, CallFlat DEF CallNames
  <2> QED BY <1>1, <2>1, <2>2, Move DEF Watched, Plain, Same
<1>2. ASSUME Here = "(",
            Do("parse_call_or_postfix", 1, <<parse_expr, Call("more_args"), Expect(")"), Call("parse_call_or_postfix")>>),
            Plain
      PROVE  Kept
  <2>1. Opened(1, "(")
    BY <1>2, OpenOne, BracketsAre
  <2>2. Closes("(", <<parse_expr, Call("more_args"), Expect(")"), Call("parse_call_or_postfix")>>, pos + 1)
    BY <1>0, Closes4, BracketsAre, PrecedenceFlat, CallFlat DEF CallNames
  <2> QED BY <1>2, <2>1, <2>2, MoveIn DEF Watched, Plain, Same
<1>3. ASSUME Here = "[",
            Do("parse_call_or_postfix", 1, <<parse_expr, Expect("]"), Call("parse_call_or_postfix")>>),
            Plain
      PROVE  Kept
  <2>1. Opened(1, "[")
    BY <1>3, OpenOne, BracketsAre
  <2>2. Closes("[", <<parse_expr, Expect("]"), Call("parse_call_or_postfix")>>, pos + 1)
    BY <1>0, Closes3, BracketsAre, PrecedenceFlat, CallFlat DEF CallNames
  <2> QED BY <1>3, <2>1, <2>2, MoveIn DEF Watched, Plain, Same
<1>4. ASSUME Here = ".",
            Do("parse_call_or_postfix", 1, <<Expect("ident"), Call("parse_call_or_postfix")>>),
            Plain
      PROVE  Kept
  <2>1. Passed(1)
    BY <1>4, PassOne DEF Plainly
  <2>2. Even(<<Expect("ident"), Call("parse_call_or_postfix")>>, pos + 1)
    BY <1>0, Even2, CallFlat, WantFlat DEF CallNames, FlatKinds
  <2> QED BY <1>4, <2>1, <2>2, Move DEF Watched, Plain, Same
<1>5. ASSUME Do("parse_call_or_postfix", 0, <<>>), Plain PROVE Kept
  <2>1. Passed(0)
    BY PassNone
  <2>2. Even(<<>>, pos + 0)
    BY <1>0, EvenNone
  <2> QED BY <1>5, <2>1, <2>2, Move DEF Watched, Plain, Same
<1>6. ASSUME Here = ",", Do("more_args", 1, <<parse_expr, Call("more_args")>>), Plain PROVE Kept
  <2>1. Passed(1)
    BY <1>6, PassOne DEF Plainly
  <2>2. Even(<<parse_expr, Call("more_args")>>, pos + 1)
    BY <1>0, Even2, CallFlat, PrecedenceFlat DEF CallNames
  <2> QED BY <1>6, <2>1, <2>2, Move DEF Watched, Plain, Same
<1>7. ASSUME Do("more_args", 0, <<>>), Plain PROVE Kept
  <2>1. Passed(0)
    BY PassNone
  <2>2. Even(<<>>, pos + 0)
    BY <1>0, EvenNone
  <2> QED BY <1>7, <2>1, <2>2, Move DEF Watched, Plain, Same
<1> QED BY <1>1, <1>2, <1>3, <1>4, <1>5, <1>6, <1>7 DEF parse_call_or_postfix

\* An expression begins.
LEMMA Core_parse_precedence == Core /\ parse_precedence => Kept
<1> SUFFICES ASSUME Core, parse_precedence PROVE Kept
  OBVIOUS
<1>0. pos \in Nat /\ pos + 0 = pos /\ pos + 1 \in Nat /\ pos + 2 \in Nat
  BY Near
<1>1. ASSUME Do("parse_precedence", 0, <<Call("parse_primary"), Call("parse_call_or_postfix"), <<"operators", <<Arg, pos>>>>>>),
            Plain
      PROVE  Kept
  <2>1. Passed(0)
    BY PassNone
  <2>2. Even(<<Call("parse_primary"), Call("parse_call_or_postfix"), <<"operators", <<Arg, pos>>>>>>, pos + 0)
    <3>1. <<"operators", <<Arg, pos>>>> \in Flat(pos + 0)
      BY Near, <1>1, HeadArg, OperatorsFlat DEF Do
    <3> QED BY <1>0, <3>1, Even3, CallFlat DEF CallNames
  <2> QED BY <1>1, <2>1, <2>2, Move DEF Watched, Plain, Same
<1> QED BY <1>1 DEF parse_precedence

\* Conditions, loops and matches.
LEMMA Core_Compound == Core /\ Compound => Kept
<1> SUFFICES ASSUME Core, Compound PROVE Kept
  OBVIOUS
<1>0. pos \in Nat /\ pos + 0 = pos /\ pos + 1 \in Nat /\ pos + 2 \in Nat
  BY Near
<1>1. ASSUME Here = "if",
            Do("parse_stmt", 1, Condition \o <<Call("parse_block"), Call("else")>>),
            Plain
      PROVE  Kept
  <2>1. Passed(1)
    BY <1>1, PassOne DEF Plainly
  <2>2. Even(Condition \o <<Call("parse_block"), Call("else")>>, pos + 1)
    <3>1. Even(<<Call("parse_block"), Call("else")>>, pos + 1)
      BY <1>0, Even2, CallFlat DEF CallNames
    <3> QED BY <1>0, <3>1, EvenCondition, EvenConcat
  <2> QED BY <1>1, <2>1, <2>2, Move DEF Watched, Plain, Same
<1>2. ASSUME Here = "while",
            Do("parse_stmt", 1, Condition \o <<Call("parse_block")>>),
            Plain
      PROVE  Kept
  <2>1. Passed(1)
    BY <1>2, PassOne DEF Plainly
  <2>2. Even(Condition \o <<Call("parse_block")>>, pos + 1)
    <3>1. Even(<<Call("parse_block")>>, pos + 1)
      BY <1>0, Even1, CallFlat DEF CallNames
    <3> QED BY <1>0, <3>1, EvenCondition, EvenConcat
  <2> QED BY <1>2, <2>1, <2>2, Move DEF Watched, Plain, Same
<1>3. ASSUME Here = "for",
            Do("parse_stmt", 1, <<Expect("ident"), Expect("in")>> \o Condition \o <<Call("parse_block")>>),
            Plain
      PROVE  Kept
  <2>1. Passed(1)
    BY <1>3, PassOne DEF Plainly
  <2>2. Even(<<Expect("ident"), Expect("in")>> \o Condition \o <<Call("parse_block")>>, pos + 1)
    <3>1. Even(<<Call("parse_block")>>, pos + 1) /\ Even(<<Expect("ident"), Expect("in")>>, pos + 1)
      BY <1>0, Even1, Even2, CallFlat, WantFlat DEF CallNames, FlatKinds
    <3>2. Even(<<Expect("ident"), Expect("in")>> \o Condition, pos + 1)
      BY <1>0, <3>1, EvenCondition, EvenConcat
    <3> QED BY <1>0, <3>1, <3>2, EvenConcat
  <2> QED BY <1>3, <2>1, <2>2, Move DEF Watched, Plain, Same
<1>4. ASSUME Here = "match",
            Do("parse_stmt", 1, Condition \o <<Expect("{"), Call("arms"), Expect("}")>>),
            Plain
      PROVE  Kept
  <2>1. Passed(1)
    BY <1>4, PassOne DEF Plainly
  <2>2. Even(Condition \o <<Expect("{"), Call("arms"), Expect("}")>>, pos + 1)
    <3>1. Even(<<Expect("{"), Call("arms"), Expect("}")>>, pos + 1)
      BY <1>0, EvenPair, BracketsAre, CallFlat DEF CallNames
    <3> QED BY <1>0, <3>1, EvenCondition, EvenConcat
  <2> QED BY <1>4, <2>1, <2>2, Move DEF Watched, Plain, Same
<1>5. ASSUME Here = "else",
            Do("else", 1, <<IF Ahead(1) = "if" THEN Call("parse_stmt") ELSE Call("parse_block")>>),
            Plain
      PROVE  Kept
  <2>1. Passed(1)
    BY <1>5, PassOne DEF Plainly
  <2>2. Even(<<IF Ahead(1) = "if" THEN Call("parse_stmt") ELSE Call("parse_block")>>, pos + 1)
    BY <1>0, Even1, CallFlat DEF CallNames
  <2> QED BY <1>5, <2>1, <2>2, Move DEF Watched, Plain, Same
<1>6. ASSUME Do("else", 0, <<>>), Plain PROVE Kept
  <2>1. Passed(0)
    BY PassNone
  <2>2. Even(<<>>, pos + 0)
    BY <1>0, EvenNone
  <2> QED BY <1>6, <2>1, <2>2, Move DEF Watched, Plain, Same
<1>7. ASSUME Do("arms", 0, <<>>), Plain PROVE Kept
  <2>1. Passed(0)
    BY PassNone
  <2>2. Even(<<>>, pos + 0)
    BY <1>0, EvenNone
  <2> QED BY <1>7, <2>1, <2>2, Move DEF Watched, Plain, Same
<1>8. ASSUME Do("arms", 0, <<IF Here = "_" THEN Optional("_") ELSE parse_expr, Expect("=>"), Call("arm_body"), Optional(","), Call("arms")>>),
            Plain
      PROVE  Kept
  <2>1. Passed(0)
    BY PassNone
  <2>2. Even(<<IF Here = "_" THEN Optional("_") ELSE parse_expr, Expect("=>"), Call("arm_body"), Optional(","), Call("arms")>>, pos + 0)
    <3>1. (IF Here = "_" THEN Optional("_") ELSE parse_expr) \in Flat(pos + 0)
      BY WantFlat, PrecedenceFlat DEF FlatKinds
    <3> QED BY <1>0, <3>1, Even5, CallFlat, WantFlat DEF CallNames, FlatKinds
  <2> QED BY <1>8, <2>1, <2>2, Move DEF Watched, Plain, Same
<1>9. ASSUME Do("arm_body", 0, <<IF Here = "{" THEN Call("parse_block") ELSE Call("parse_stmt")>>),
            Plain
      PROVE  Kept
  <2>1. Passed(0)
    BY PassNone
  <2>2. Even(<<IF Here = "{" THEN Call("parse_block") ELSE Call("parse_stmt")>>, pos + 0)
    BY <1>0, Even1, CallFlat DEF CallNames
  <2> QED BY <1>9, <2>1, <2>2, Move DEF Watched, Plain, Same
<1> QED BY <1>1, <1>2, <1>3, <1>4, <1>5, <1>6, <1>7, <1>8, <1>9 DEF Compound

\* The other statements, but declarations of variables.
LEMMA Core_Simple == Core /\ Simple => Kept
<1> SUFFICES ASSUME Core, Simple PROVE Kept
  OBVIOUS
<1>0. pos \in Nat /\ pos + 0 = pos /\ pos + 1 \in Nat /\ pos + 2 \in Nat
  BY Near
<1>1. ASSUME Here = "return",
            Do("parse_stmt", 1, (IF Ahead(1) \in {";", "eof"} THEN <<>> ELSE <<parse_expr>>) \o <<Expect(";")>>),
            Plain
      PROVE  Kept
  <2>1. Passed(1)
    BY <1>1, PassOne DEF Plainly
  <2>2. Even((IF Ahead(1) \in {";", "eof"} THEN <<>> ELSE <<parse_expr>>) \o <<Expect(";")>>, pos + 1)
    <3>1. Even(IF Ahead(1) \in {";", "eof"} THEN <<>> ELSE <<parse_expr>>, pos + 1)
      BY <1>0, EvenNone, Even1, PrecedenceFlat
    <3>2. Even(<<Expect(";")>>, pos + 1)
      BY <1>0, Even1, WantFlat DEF FlatKinds
    <3> QED BY <1>0, <3>1, <3>2, EvenConcat
  <2> QED BY <1>1, <2>1, <2>2, Move DEF Watched, Plain, Same
<1>2. ASSUME Here = "assert",
            Do("parse_stmt", 1, <<Expect("("), parse_expr, Expect(")"), Expect(";")>>),
            Plain
      PROVE  Kept
  <2>1. Passed(1)
    BY <1>2, PassOne DEF Plainly
  <2>2. Even(<<Expect("("), parse_expr, Expect(")"), Expect(";")>>, pos + 1)
    <3>1. Even(<<Expect("("), parse_expr, Expect(")")>>, pos + 1)
      BY <1>0, EvenPair, BracketsAre, PrecedenceFlat
    <3>2. Even(<<Expect(";")>>, pos + 1)
      BY <1>0, Even1, WantFlat DEF FlatKinds
    <3>3. Even(<<Expect("("), parse_expr, Expect(")")>> \o <<Expect(";")>>, pos + 1)
      BY <1>0, <3>1, <3>2, EvenConcat
    <3>4. <<Expect("("), parse_expr, Expect(")")>> \o <<Expect(";")>>
          = <<Expect("("), parse_expr, Expect(")"), Expect(";")>>
      BY Longer, ZenonT(60)
    <3> QED BY <3>3, <3>4
  <2> QED BY <1>2, <2>1, <2>2, Move DEF Watched, Plain, Same
<1>3. ASSUME Here = "break", Do("parse_stmt", 1, <<Expect(";")>>), Plain PROVE Kept
  <2>1. Passed(1)
    BY <1>3, PassOne DEF Plainly
  <2>2. Even(<<Expect(";")>>, pos + 1)
    BY <1>0, Even1, WantFlat DEF FlatKinds
  <2> QED BY <1>3, <2>1, <2>2, Move DEF Watched, Plain, Same
<1>4. ASSUME Do("parse_stmt", 0, <<Call("parse_block")>>), Plain PROVE Kept
  <2>1. Passed(0)
    BY PassNone
  <2>2. Even(<<Call("parse_block")>>, pos + 0)
    BY <1>0, Even1, CallFlat DEF CallNames
  <2> QED BY <1>4, <2>1, <2>2, Move DEF Watched, Plain, Same
<1>5. ASSUME Do("parse_stmt", 0, <<parse_expr, Expect(";")>>), Plain PROVE Kept
  <2>1. Passed(0)
    BY PassNone
  <2>2. Even(<<parse_expr, Expect(";")>>, pos + 0)
    BY <1>0, Even2, WantFlat, PrecedenceFlat DEF FlatKinds
  <2> QED BY <1>5, <2>1, <2>2, Move DEF Watched, Plain, Same
<1> QED BY <1>1, <1>2, <1>3, <1>4, <1>5 DEF Simple

\* Declarations of variables.
LEMMA Core_parse_let == Core /\ parse_let => Kept
<1> SUFFICES ASSUME Core, parse_let PROVE Kept
  OBVIOUS
<1>0. pos \in Nat /\ pos + 0 = pos /\ pos + 1 \in Nat /\ pos + 2 \in Nat
  BY Near
<1>1. ASSUME IsLet,
            Do("parse_stmt", 2, (IF Ahead(1) = ":=" THEN <<parse_expr>> ELSE <<Call("parse_type"), Call("init")>>) \o <<Expect(";")>>),
            Plain
      PROVE  Kept
  <2>1. Passed(2)
    BY <1>1, PassTwo DEF IsLet, Plainly, Idents
  <2>2. Even((IF Ahead(1) = ":=" THEN <<parse_expr>> ELSE <<Call("parse_type"), Call("init")>>) \o <<Expect(";")>>, pos + 2)
    <3>1. Even(IF Ahead(1) = ":=" THEN <<parse_expr>> ELSE <<Call("parse_type"), Call("init")>>, pos + 2)
      BY <1>0, Even1, Even2, PrecedenceFlat, CallFlat DEF CallNames
    <3>2. Even(<<Expect(";")>>, pos + 2)
      BY <1>0, Even1, WantFlat DEF FlatKinds
    <3> QED BY <1>0, <3>1, <3>2, EvenConcat
  <2> QED BY <1>1, <2>1, <2>2, Move DEF Watched, Plain, Same
<1>2. ASSUME Here = "=", Do("init", 1, <<parse_expr>>), Plain PROVE Kept
  <2>1. Passed(1)
    BY <1>2, PassOne DEF Plainly
  <2>2. Even(<<parse_expr>>, pos + 1)
    BY <1>0, Even1, PrecedenceFlat
  <2> QED BY <1>2, <2>1, <2>2, Move DEF Watched, Plain, Same
<1>3. ASSUME Do("init", 0, <<>>), Plain PROVE Kept
  <2>1. Passed(0)
    BY PassNone
  <2>2. Even(<<>>, pos + 0)
    BY <1>0, EvenNone
  <2> QED BY <1>3, <2>1, <2>2, Move DEF Watched, Plain, Same
<1> QED BY <1>1, <1>2, <1>3 DEF parse_let

\* Blocks.
LEMMA Core_parse_block == Core /\ parse_block => Kept
<1> SUFFICES ASSUME Core, parse_block PROVE Kept
  OBVIOUS
<1>0. pos \in Nat /\ pos + 0 = pos /\ pos + 1 \in Nat /\ pos + 2 \in Nat
  BY Near
<1>1. ASSUME Do("parse_block", 0, <<Expect("{"), Call("stmts"), Expect("}")>>), Plain PROVE Kept
  <2>1. Passed(0)
    BY PassNone
  <2>2. Even(<<Expect("{"), Call("stmts"), Expect("}")>>, pos + 0)
    BY <1>0, EvenPair, BracketsAre, CallFlat DEF CallNames
  <2> QED BY <1>1, <2>1, <2>2, Move DEF Watched, Plain, Same
<1>2. ASSUME Do("stmts", 0, <<>>), Plain PROVE Kept
  <2>1. Passed(0)
    BY PassNone
  <2>2. Even(<<>>, pos + 0)
    BY <1>0, EvenNone
  <2> QED BY <1>2, <2>1, <2>2, Move DEF Watched, Plain, Same
<1>3. ASSUME Do("stmts", 0, <<Call("parse_stmt"), Call("stmts")>>), Plain PROVE Kept
  <2>1. Passed(0)
    BY PassNone
  <2>2. Even(<<Call("parse_stmt"), Call("stmts")>>, pos + 0)
    BY <1>0, Even2, CallFlat DEF CallNames
  <2> QED BY <1>3, <2>1, <2>2, Move DEF Watched, Plain, Same
<1> QED BY <1>1, <1>2, <1>3 DEF parse_block

\* Functions.
LEMMA Core_parse_fn == Core /\ parse_fn => Kept
<1> SUFFICES ASSUME Core, parse_fn PROVE Kept
  OBVIOUS
<1>0. pos \in Nat /\ pos + 0 = pos /\ pos + 1 \in Nat /\ pos + 2 \in Nat
  BY Near
<1>1. ASSUME Do("fn", 0, <<Expect("("), Call("params"), Expect(")"), Call("ret"), Call("parse_block")>>),
            Plain
      PROVE  Kept
  <2>1. Passed(0)
    BY PassNone
  <2>2. Even(<<Expect("("), Call("params"), Expect(")"), Call("ret"), Call("parse_block")>>, pos + 0)
    <3>1. Even(<<Expect("("), Call("params"), Expect(")")>>, pos + 0)
      BY <1>0, EvenPair, BracketsAre, CallFlat DEF CallNames
    <3>2. Even(<<Call("ret"), Call("parse_block")>>, pos + 0)
      BY <1>0, Even2, CallFlat DEF CallNames
    <3>3. Even(<<Expect("("), Call("params"), Expect(")")>> \o <<Call("ret"), Call("parse_block")>>, pos + 0)
      BY <1>0, <3>1, <3>2, EvenConcat
    <3>4. <<Expect("("), Call("params"), Expect(")")>> \o <<Call("ret"), Call("parse_block")>>
          = <<Expect("("), Call("params"), Expect(")"), Call("ret"), Call("parse_block")>>
      BY Glue
    <3> QED BY <3>3, <3>4
  <2> QED BY <1>1, <2>1, <2>2, Move DEF Watched, Plain, Same
<1>2. ASSUME Do("params", 0, <<>>), Plain PROVE Kept
  <2>1. Passed(0)
    BY PassNone
  <2>2. Even(<<>>, pos + 0)
    BY <1>0, EvenNone
  <2> QED BY <1>2, <2>1, <2>2, Move DEF Watched, Plain, Same
<1>3. ASSUME Do("params", 0, <<Call("param"), Call("more_params")>>), Plain PROVE Kept
  <2>1. Passed(0)
    BY PassNone
  <2>2. Even(<<Call("param"), Call("more_params")>>, pos + 0)
    BY <1>0, Even2, CallFlat DEF CallNames
  <2> QED BY <1>3, <2>1, <2>2, Move DEF Watched, Plain, Same
<1>4. ASSUME Do("param", 0, <<Expect("ident"), Expect(":"), Call("parse_type")>>), Plain PROVE Kept
  <2>1. Passed(0)
    BY PassNone
  <2>2. Even(<<Expect("ident"), Expect(":"), Call("parse_type")>>, pos + 0)
    BY <1>0, Even3, CallFlat, WantFlat DEF CallNames, FlatKinds
  <2> QED BY <1>4, <2>1, <2>2, Move DEF Watched, Plain, Same
<1>5. ASSUME Here = ",",
            Do("more_params", 1, <<Call("param"), Call("more_params")>>),
            Plain
      PROVE  Kept
  <2>1. Passed(1)
    BY <1>5, PassOne DEF Plainly
  <2>2. Even(<<Call("param"), Call("more_params")>>, pos + 1)
    BY <1>0, Even2, CallFlat DEF CallNames
  <2> QED BY <1>5, <2>1, <2>2, Move DEF Watched, Plain, Same
<1>6. ASSUME Do("more_params", 0, <<>>), Plain PROVE Kept
  <2>1. Passed(0)
    BY PassNone
  <2>2. Even(<<>>, pos + 0)
    BY <1>0, EvenNone
  <2> QED BY <1>6, <2>1, <2>2, Move DEF Watched, Plain, Same
<1>7. ASSUME Here = "->", Do("ret", 1, <<Call("parse_type")>>), Plain PROVE Kept
  <2>1. Passed(1)
    BY <1>7, PassOne DEF Plainly
  <2>2. Even(<<Call("parse_type")>>, pos + 1)
    BY <1>0, Even1, CallFlat DEF CallNames
  <2> QED BY <1>7, <2>1, <2>2, Move DEF Watched, Plain, Same
<1>8. ASSUME Do("ret", 0, <<>>), Plain PROVE Kept
  <2>1. Passed(0)
    BY PassNone
  <2>2. Even(<<>>, pos + 0)
    BY <1>0, EvenNone
  <2> QED BY <1>8, <2>1, <2>2, Move DEF Watched, Plain, Same
<1> QED BY <1>1, <1>2, <1>3, <1>4, <1>5, <1>6, <1>7, <1>8 DEF parse_fn

\* Aliases.
LEMMA Core_parse_type_alias == Core /\ parse_type_alias => Kept
<1> SUFFICES ASSUME Core, parse_type_alias PROVE Kept
  OBVIOUS
<1>0. pos \in Nat /\ pos + 0 = pos /\ pos + 1 \in Nat /\ pos + 2 \in Nat
  BY Near
<1>1. ASSUME Do("type", 0, <<Expect("="), Call("parse_type")>>), Plain PROVE Kept
  <2>1. Passed(0)
    BY PassNone
  <2>2. Even(<<Expect("="), Call("parse_type")>>, pos + 0)
    BY <1>0, Even2, CallFlat, WantFlat DEF CallNames, FlatKinds
  <2> QED BY <1>1, <2>1, <2>2, Move DEF Watched, Plain, Same
<1> QED BY <1>1 DEF parse_type_alias

\* What is no operand.
LEMMA Core_NoOperand == Core /\ NoOperand => Kept
<1> SUFFICES ASSUME Core, NoOperand PROVE Kept
  OBVIOUS
<1>0. pos \in Nat /\ pos + 0 = pos /\ pos + 1 \in Nat /\ pos + 2 \in Nat
  BY Near
<1>1. ASSUME Do("parse_primary", 1, <<>>), Error PROVE Kept
  BY <1>1, MoveBad DEF Error
<1> QED BY <1>1 DEF NoOperand

\* What may stand there.
LEMMA Core_match == Core /\ match => Kept
<1> SUFFICES ASSUME Core, match PROVE Kept
  OBVIOUS
<1>0. pos \in Nat /\ pos + 0 = pos /\ pos + 1 \in Nat /\ pos + 2 \in Nat
  BY Near
<1>1. ASSUME IsA(Here, Arg), Do("match", 1, <<>>), Plain PROVE Kept
  <2>1. Passed(1)
    BY <1>1, HeadArg, PassOne DEF Do, IsA, FlatKinds, Idents, Plainly
  <2>2. Even(<<>>, pos + 1)
    BY <1>0, EvenNone
  <2> QED BY <1>1, <2>1, <2>2, Move DEF Watched, Plain, Same
<1>2. ASSUME Do("match", 0, <<>>), Plain PROVE Kept
  <2>1. Passed(0)
    BY PassNone
  <2>2. Even(<<>>, pos + 0)
    BY <1>0, EvenNone
  <2> QED BY <1>2, <2>1, <2>2, Move DEF Watched, Plain, Same
<1> QED BY <1>1, <1>2 DEF match

\* Operators.
LEMMA Core_operators == Core /\ operators => Kept
<1> SUFFICES ASSUME Core, operators PROVE Kept
  OBVIOUS
<1>0. pos \in Nat /\ pos + 0 = pos /\ pos + 1 \in Nat /\ pos + 2 \in Nat
  BY Near
<1>1. ASSUME Binds,
            Do("operators", 1, <<Precedence(RightMin(Here)), <<"node", <<Arg[2], pos>>>>>>
              \o (IF Here \in {"=", ".."} THEN <<>> ELSE <<Call("parse_call_or_postfix")>>)
              \o <<<<"operators", Arg>>>>),
            Plain
      PROVE  Kept
  <2>1. Passed(1)
    BY <1>1, PassOne, PrecIs DEF Binds, Plainly
  <2>2. Even(<<Precedence(RightMin(Here)), <<"node", <<Arg[2], pos>>>>>>
              \o (IF Here \in {"=", ".."} THEN <<>> ELSE <<Call("parse_call_or_postfix")>>)
              \o <<<<"operators", Arg>>>>, pos + 1)
    <3>1. Here \in DOMAIN Prec /\ RightMin(Here) \in Levels
      BY <1>1, PrecIs DEF Binds, RightMin, ASSIGN, Levels
    <3>2. PICK t : t = <<"operators", Arg>> /\ t = todo[1] /\ Arg \in Levels \X (1 .. pos)
      BY <1>1, HeadArg DEF Do
    <3>3. t \in Flat(pos) /\ t \in Flat(pos + 1)
      BY Near, <1>1, <3>2, HeadFlat, TasksGrow DEF Do, Watched
    <3>4. Arg[2] \in 1 .. pos
      BY <3>2
    <3>5. <<"node", <<Arg[2], pos>>>> \in Flat(pos + 1)
      BY Near, <3>4, NodeFlat
    <3>6. Even(<<Precedence(RightMin(Here)), <<"node", <<Arg[2], pos>>>>>>, pos + 1)
      BY <1>0, <3>1, <3>5, PrecedenceFlat, Even2
    <3>7. Even(IF Here \in {"=", ".."} THEN <<>> ELSE <<Call("parse_call_or_postfix")>>, pos + 1)
      BY <1>0, EvenNone, Even1, CallFlat DEF CallNames
    <3>8. Even(<<t>>, pos + 1)
      BY <1>0, <3>3, Even1
    <3> QED BY <1>0, <3>2, <3>6, <3>7, <3>8, EvenConcat
  <2> QED BY <1>1, <2>1, <2>2, Move DEF Watched, Plain, Same
<1>2. ASSUME Do("operators", 0, <<>>), Plain PROVE Kept
  <2>1. Passed(0)
    BY PassNone
  <2>2. Even(<<>>, pos + 0)
    BY <1>0, EvenNone
  <2> QED BY <1>2, <2>1, <2>2, Move DEF Watched, Plain, Same
<1> QED BY <1>1, <1>2 DEF operators

\* An operator and its operands.
LEMMA Core_node == Core /\ node => Kept
<1> SUFFICES ASSUME Core, node PROVE Kept
  OBVIOUS
<1>0. pos \in Nat /\ pos + 0 = pos /\ pos + 1 \in Nat /\ pos + 2 \in Nat
  BY Near
<1>1. ASSUME Do("node", 0, <<>>), Same PROVE Kept
  <2>1. Passed(0)
    BY PassNone
  <2>2. Even(<<>>, pos + 0)
    BY <1>0, EvenNone
  <2> QED BY <1>1, <2>1, <2>2, Move DEF Watched, Plain, Same
<1> QED BY <1>1 DEF node, Same

\* Attribute lists.
LEMMA Core_parse_attr_list == Core /\ parse_attr_list => Kept
<1> SUFFICES ASSUME Core, parse_attr_list PROVE Kept
  OBVIOUS
<1>0. pos \in Nat /\ pos + 0 = pos /\ pos + 1 \in Nat /\ pos + 2 \in Nat
  BY Near
<1>1. ASSUME Here = "@",
            Do("parse_attr_list", 1, <<Expect("ident"), Call("attr_arg"), Call("parse_attr_list")>>),
            Same
      PROVE  Kept
  <2>1. Passed(1)
    BY <1>1, PassOne DEF Plainly
  <2>2. Even(<<Expect("ident"), Call("attr_arg"), Call("parse_attr_list")>>, pos + 1)
    BY <1>0, Even3, CallFlat, WantFlat DEF CallNames, FlatKinds
  <2> QED BY <1>1, <2>1, <2>2, Move DEF Watched, Plain, Same
<1>2. ASSUME Do("parse_attr_list", 0, <<>>), Plain PROVE Kept
  <2>1. Passed(0)
    BY PassNone
  <2>2. Even(<<>>, pos + 0)
    BY <1>0, EvenNone
  <2> QED BY <1>2, <2>1, <2>2, Move DEF Watched, Plain, Same
<1>3. ASSUME Here = "(", Do("attr_arg", 1, <<parse_expr, Expect(")")>>), Plain PROVE Kept
  <2>1. Opened(1, "(")
    BY <1>3, OpenOne, BracketsAre
  <2>2. Closes("(", <<parse_expr, Expect(")")>>, pos + 1)
    BY <1>0, Closes2, BracketsAre, PrecedenceFlat
  <2> QED BY <1>3, <2>1, <2>2, MoveIn DEF Watched, Plain, Same
<1>4. ASSUME Do("attr_arg", 0, <<>>), Plain PROVE Kept
  <2>1. Passed(0)
    BY PassNone
  <2>2. Even(<<>>, pos + 0)
    BY <1>0, EvenNone
  <2> QED BY <1>4, <2>1, <2>2, Move DEF Watched, Plain, Same
<1> QED BY <1>1, <1>2, <1>3, <1>4 DEF parse_attr_list, Same

\* A declaration.
LEMMA Core_parse_decl == Core /\ parse_decl => Kept
<1> SUFFICES ASSUME Core, parse_decl PROVE Kept
  OBVIOUS
<1>0. pos \in Nat /\ pos + 0 = pos /\ pos + 1 \in Nat /\ pos + 2 \in Nat
  BY Near
<1>1. ASSUME Here \in Keywords,
            Do("parse_decl", 1, <<Expect("ident"), Call(Here)>>),
            Same
      PROVE  Kept
  <2>1. Passed(1)
    BY <1>1, PassOne DEF Plainly, Keywords
  <2>2. Even(<<Expect("ident"), Call(Here)>>, pos + 1)
    BY <1>0, <1>1, Even2, WantFlat, CallFlat DEF Keywords, CallNames, FlatKinds
  <2> QED BY <1>1, <2>1, <2>2, Move DEF Watched, Plain, Same
<1>2. ASSUME Do("parse_decl", 1, <<>>), Error PROVE Kept
  BY <1>2, MoveBad DEF Error
<1> QED BY <1>1, <1>2 DEF parse_decl, Same

\* Structs.
LEMMA Core_parse_struct == Core /\ parse_struct => Kept
<1> SUFFICES ASSUME Core, parse_struct PROVE Kept
  OBVIOUS
<1>0. pos \in Nat /\ pos + 0 = pos /\ pos + 1 \in Nat /\ pos + 2 \in Nat
  BY Near
<1>1. ASSUME Do("struct", 0, <<Expect("{"), Call("members"), Expect("}")>>), Plain PROVE Kept
  <2>1. Passed(0)
    BY PassNone
  <2>2. Even(<<Expect("{"), Call("members"), Expect("}")>>, pos + 0)
    BY <1>0, EvenPair, BracketsAre, CallFlat DEF CallNames
  <2> QED BY <1>1, <2>1, <2>2, Move DEF Watched, Plain, Same
<1>2. ASSUME Do("members", 0, <<>>), Plain PROVE Kept
  <2>1. Passed(0)
    BY PassNone
  <2>2. Even(<<>>, pos + 0)
    BY <1>0, EvenNone
  <2> QED BY <1>2, <2>1, <2>2, Move DEF Watched, Plain, Same
<1>3. ASSUME Do("members", 0, <<Call("parse_attr_list"), Call("invariants"), Call("members")>>),
            Same
      PROVE  Kept
  <2>1. Passed(0)
    BY PassNone
  <2>2. Even(<<Call("parse_attr_list"), Call("invariants"), Call("members")>>, pos + 0)
    BY <1>0, Even3, CallFlat DEF CallNames
  <2> QED BY <1>3, <2>1, <2>2, Move DEF Watched, Plain, Same
<1>4. ASSUME Do("invariants", 0, <<>>), Same PROVE Kept
  <2>1. Passed(0)
    BY PassNone
  <2>2. Even(<<>>, pos + 0)
    BY <1>0, EvenNone
  <2> QED BY <1>4, <2>1, <2>2, Move DEF Watched, Plain, Same
<1>5. ASSUME Do("members", 0, <<Expect("ident"), Expect(":"), Call("parse_type"), Optional(","), Call("members")>>),
            Plain
      PROVE  Kept
  <2>1. Passed(0)
    BY PassNone
  <2>2. Even(<<Expect("ident"), Expect(":"), Call("parse_type"), Optional(","), Call("members")>>, pos + 0)
    BY <1>0, Even5, CallFlat, WantFlat DEF CallNames, FlatKinds
  <2> QED BY <1>5, <2>1, <2>2, Move DEF Watched, Plain, Same
<1> QED BY <1>1, <1>2, <1>3, <1>4, <1>5 DEF parse_struct, parse_struct_list, Same

\* A module.
LEMMA Core_parse_module == Core /\ parse_module => Kept
<1> SUFFICES ASSUME Core, parse_module PROVE Kept
  OBVIOUS
<1>0. pos \in Nat /\ pos + 0 = pos /\ pos + 1 \in Nat /\ pos + 2 \in Nat
  BY Near
<1>1. ASSUME Here = "module",
            Do("parse_module", 1, <<Expect("ident"), Optional(";")>> \o <<Call("imports"), Call("decls")>>),
            Plain
      PROVE  Kept
  <2>1. Passed(1)
    BY <1>1, PassOne DEF Plainly
  <2>2. Even(<<Expect("ident"), Optional(";")>> \o <<Call("imports"), Call("decls")>>, pos + 1)
    <3>1. Even(<<Expect("ident"), Optional(";")>>, pos + 1) /\ Even(<<Call("imports"), Call("decls")>>, pos + 1)
      BY <1>0, Even2, CallFlat, WantFlat DEF CallNames, FlatKinds
    <3> QED BY <1>0, <3>1, EvenConcat
  <2> QED BY <1>1, <2>1, <2>2, Move DEF Watched, Plain, Same
<1>2. ASSUME Do("parse_module", 0, <<>> \o <<Call("imports"), Call("decls")>>), Plain PROVE Kept
  <2>1. Passed(0)
    BY PassNone
  <2>2. Even(<<>> \o <<Call("imports"), Call("decls")>>, pos + 0)
    <3>1. Even(<<>>, pos + 0) /\ Even(<<Call("imports"), Call("decls")>>, pos + 0)
      BY <1>0, EvenNone, Even2, CallFlat DEF CallNames
    <3> QED BY <1>0, <3>1, EvenConcat
  <2> QED BY <1>2, <2>1, <2>2, Move DEF Watched, Plain, Same
<1>3. ASSUME Here = "import",
            Do("imports", 1, <<Expect("ident"), Optional(";"), Call("imports")>>),
            Plain
      PROVE  Kept
  <2>1. Passed(1)
    BY <1>3, PassOne DEF Plainly
  <2>2. Even(<<Expect("ident"), Optional(";"), Call("imports")>>, pos + 1)
    BY <1>0, Even3, CallFlat, WantFlat DEF CallNames, FlatKinds
  <2> QED BY <1>3, <2>1, <2>2, Move DEF Watched, Plain, Same
<1>4. ASSUME Do("imports", 0, <<>>), Plain PROVE Kept
  <2>1. Passed(0)
    BY PassNone
  <2>2. Even(<<>>, pos + 0)
    BY <1>0, EvenNone
  <2> QED BY <1>4, <2>1, <2>2, Move DEF Watched, Plain, Same
<1>5. ASSUME Do("decls", 0, <<Call("parse_attr_list"), Call("parse_decl"), Call("decls")>>),
            Same
      PROVE  Kept
  <2>1. Passed(0)
    BY PassNone
  <2>2. Even(<<Call("parse_attr_list"), Call("parse_decl"), Call("decls")>>, pos + 0)
    BY <1>0, Even3, CallFlat DEF CallNames
  <2> QED BY <1>5, <2>1, <2>2, Move DEF Watched, Plain, Same
<1>6. ASSUME Do("decls", 0, <<>>), Plain PROVE Kept
  <2>1. Passed(0)
    BY PassNone
  <2>2. Even(<<>>, pos + 0)
    BY <1>0, EvenNone
  <2> QED BY <1>6, <2>1, <2>2, Move DEF Watched, Plain, Same
<1> QED BY <1>1, <1>2, <1>3, <1>4, <1>5, <1>6 DEF parse_module, Same

\* A token is expected and there: what it opens or closes is no longer to do
\* but done.
LEMMA Core_expect == Core /\ expect => Kept
<1> SUFFICES ASSUME Core, expect PROVE Kept
  OBVIOUS
<1>1. ASSUME Do("expect", 0, <<>>), Error PROVE Kept
  BY <1>1, MoveBad DEF Error
<1>2. ASSUME Do("expect", 1, <<>>), IsA(Here, Arg), Plain PROVE Kept
  <2>1. todo # <<>> /\ todo' = <<>> \o Tail(todo) /\ toks' = toks /\ Doing("expect")
        /\ pos' = IF Here = "eof" THEN pos ELSE pos + 1
    BY <1>2 DEF Do, Doing
  <2>2. todo[1][1] = "expect" /\ todo[1][2] = Arg /\ Arg \in FlatKinds \cup Brackets
    BY <2>1, HeadArg DEF Doing, Arg
  <2>3. Here = Arg \/ (Arg = "ident" /\ Plainly(Here))
    BY <1>2 DEF IsA, Idents, Plainly
  <2>4. Here # "eof" /\ Here # "error"
    BY <2>2, <2>3, BracketsAre DEF FlatKinds, Brackets, Plainly
  <2>5. pos' = pos + 1 /\ pos + 1 \in 1 .. Len(toks) /\ \A q \in pos .. pos + 1 - 1 : q = pos
    BY <2>1, <2>4, OneMore
  <2>6. pos' \in pos .. Len(toks) /\ pos' - 1 = pos + 1 - 1
    BY <2>5, Near
  <2>7. <<>> \in Seq(Tasks(pos'))
    OBVIOUS
  <2>8. no_struct_lit' = no_struct_lit /\ had_error' = had_error
        /\ no_struct_lit \in Nat /\ had_error \in BOOLEAN
    BY <1>2 DEF Plain, Core
  <2>9. ASSUME NEW m \in Nat, Count(todo[1], no_struct_lit, m) PROVE Path("lits", <<>>, no_struct_lit', m)
    <3>1. m = no_struct_lit
      BY <2>2, <2>9 DEF Count
    <3>2. "lits" \in Views /\ Good("lits") = Nat
      BY DEF Views, Good
    <3> QED BY <2>8, <3>1, <3>2, PathNone
  <2>10. ASSUME NEW s \in Stacks, NEW m \in Stacks, Reads(toks, pos, s), Step("open", todo[1], s, m)
         PROVE  \E u \in Stacks : Reads(toks, pos', u) /\ Path("open", <<>>, u, m)
    <3>1. Turn(Arg, s, m)
      BY <2>2, <2>10 DEF Step
    <3>2. Turn(toks[pos], s, m)
      <4>1. CASE Here = Arg
        BY <3>1, <4>1 DEF Here
      <4>2. CASE Arg = "ident" /\ Plainly(Here)
        <5>1. m = s
          BY <3>1, <4>2, BracketsAre DEF Turn, Brackets
        <5> QED BY <4>2, <5>1, PlainTurn DEF Here
      <4> QED BY <2>3, <4>1, <4>2
    <3>3. Reads(toks, pos', m)
      BY <2>5, <2>10, <3>2, ReadOn, TextAt
    <3>4. Path("open", <<>>, m, m)
      BY PathNone DEF Views, Good
    <3> QED BY <3>3, <3>4
  <2>11. \A q \in pos .. pos' - 1 : toks[q] # "error"
    BY <2>4, <2>5, <2>6 DEF Here
  <2>12. ~had_error' => ~had_error
    BY <2>8
  <2> QED BY <2>1, <2>6, <2>7, <2>8, <2>9, <2>10, <2>11, <2>12, Keeps
<1> QED BY <1>1, <1>2 DEF expect

\* A condition begins or ends.
LEMMA MoveCount ==
  ASSUME Core, NEW f \in {"suppress", "release", "restore"}, Do(f, 0, <<>>), had_error' = had_error,
         \A m \in Nat : Count(todo[1], no_struct_lit, m) => no_struct_lit' = m
  PROVE  Kept
<1>1. todo # <<>> /\ todo' = <<>> \o Tail(todo) /\ toks' = toks /\ todo[1][1] = f
      /\ pos' = IF Here = "eof" THEN pos ELSE pos + 0
  BY DEF Do, Doing
<1>2. pos' = pos /\ pos \in Nat
  BY <1>1, Near
<1>3. pos' \in pos .. Len(toks)
  <2>1. pos \in 1 .. Len(toks)
    BY DEF Core
  <2> QED BY <1>2, <2>1
<1>4. "lits" \in Views /\ Good("lits") = Nat /\ "open" \in Views /\ Good("open") = Stacks
  BY DEF Views, Good
<1>5. no_struct_lit' \in Nat
  <2>1. todo \in Seq(Tasks(pos)) /\ Path("lits", todo, no_struct_lit, 0)
    BY DEF Core
  <2>2. PICK m \in Nat : Step("lits", todo[1], no_struct_lit, m)
    BY <1>1, <1>4, <2>1, PathHead
  <2>3. Count(todo[1], no_struct_lit, m)
    BY <2>2 DEF Step
  <2> QED BY <2>3
<1>6. <<>> \in Seq(Tasks(pos')) /\ had_error' \in BOOLEAN
  BY DEF Core
<1>7. \A m \in Nat : Count(todo[1], no_struct_lit, m) => Path("lits", <<>>, no_struct_lit', m)
  BY <1>4, <1>5, PathNone
<1>8. ASSUME NEW s \in Stacks, NEW m \in Stacks, Reads(toks, pos, s), Step("open", todo[1], s, m)
      PROVE  \E u \in Stacks : Reads(toks, pos', u) /\ Path("open", <<>>, u, m)
  <2>1. todo[1][1] # "expect" /\ "" \notin Brackets
    BY <1>1, BracketsAre DEF Brackets
  <2>2. m = s
    BY <1>8, <2>1 DEF Step, Turn
  <2>3. Path("open", <<>>, s, s)
    BY <1>4, PathNone
  <2> QED BY <1>2, <1>8, <2>2, <2>3
<1>9. \A q \in pos .. pos' - 1 : FALSE
  BY <1>2
<1> QED BY <1>1, <1>3, <1>5, <1>6, <1>7, <1>8, <1>9, Keeps

\* A condition begins.
LEMMA Core_suppress == Core /\ suppress => Kept
<1> SUFFICES ASSUME Core, suppress PROVE Kept
  OBVIOUS
<1>1. Do("suppress", 0, <<>>) /\ no_struct_lit' = no_struct_lit + 1 /\ had_error' = had_error
  BY DEF suppress
<1>2. todo[1][1] = "suppress"
  BY <1>1 DEF Do, Doing
<1>3. \A m \in Nat : Count(todo[1], no_struct_lit, m) => no_struct_lit' = m
  BY <1>1, <1>2 DEF Count
<1> QED BY <1>1, <1>3, MoveCount

\* A condition ends, or what parentheses lifted is put back.
LEMMA Core_release == Core /\ release => Kept
<1> SUFFICES ASSUME Core, release PROVE Kept
  OBVIOUS
<1>1. ASSUME Do("release", 0, <<>>), no_struct_lit' = no_struct_lit - 1, had_error' = had_error
      PROVE  Kept
  <2>1. todo[1][1] = "release"
    BY <1>1 DEF Do, Doing
  <2>2. \A m \in Nat : Count(todo[1], no_struct_lit, m) => no_struct_lit' = m
    BY <1>1, <2>1 DEF Count
  <2> QED BY <1>1, <2>2, MoveCount
<1>2. ASSUME Do("restore", 0, <<>>), no_struct_lit' = Arg, had_error' = had_error
      PROVE  Kept
  <2>1. todo[1][1] = "restore" /\ todo[1][2] = Arg
    BY <1>2 DEF Do, Doing, Arg
  <2>2. \A m \in Nat : Count(todo[1], no_struct_lit, m) => no_struct_lit' = m
    BY <1>2, <2>1 DEF Count
  <2> QED BY <1>2, <2>2, MoveCount
<1> QED BY <1>1, <1>2 DEF release

\* Parentheses: what they lift they put back.
LEMMA Core_Group == Core /\ Group => Kept
<1> SUFFICES ASSUME Core, Group PROVE Kept
  OBVIOUS
<1>1. PICK b, c, w : b = <<"restore", no_struct_lit>> /\ c = Expect(")") /\ w = <<parse_expr, b, c>>
  OBVIOUS
<1>2. Here = "(" /\ Do("parse_primary", 1, w) /\ no_struct_lit' = 0 /\ had_error' = had_error
  BY <1>1 DEF Group
<1>3. Opened(1, "(") /\ Here # "eof"
  BY <1>2, OpenOne, BracketsAre
<1>4. todo # <<>> /\ todo[1] \in Flat(pos) /\ todo[1][1] = "parse_primary"
      /\ todo' = w \o Tail(todo) /\ toks' = toks /\ pos' = pos + 1
  BY <1>2, <1>3, HeadFlat DEF Do, Doing, Watched
<1>5. no_struct_lit \in Nat /\ had_error \in BOOLEAN
  BY DEF Core
<1>6. parse_expr \in Flat(pos') /\ parse_expr \in Tasks(pos') /\ b \in Tasks(pos') /\ c \in Tasks(pos')
  BY <1>1, <1>5, PrecedenceFlat, BracketsAre DEF Tasks, Expect, Brackets
<1>7. <<parse_expr>> \in Seq(Tasks(pos')) /\ <<b>> \in Seq(Tasks(pos')) /\ <<c>> \in Seq(Tasks(pos'))
  BY <1>6
<1>8. w = <<parse_expr>> \o (<<b>> \o <<c>>)
  BY <1>1, Glue
<1>9. <<b>> \o <<c>> \in Seq(Tasks(pos'))
  BY <1>7, ConcatProperties
<1>10. w \in Seq(Tasks(pos'))
  BY <1>7, <1>8, <1>9, ConcatProperties
<1>11. ASSUME NEW v \in Views, NEW x \in Good(v), NEW y \in Good(v), NEW z \in Good(v),
              Step(v, b, x, y), Step(v, c, y, z)
       PROVE  Path(v, w, x, z)
  <2>1. Path(v, <<b>>, x, y) /\ Path(v, <<c>>, y, z)
    BY <1>11, PathOne
  <2>2. Path(v, <<b>> \o <<c>>, x, z)
    BY <1>7, <2>1, PathConcat
  <2>3. Path(v, <<parse_expr>>, x, x)
    BY <1>6, FlatStep, PathOne
  <2> QED BY <1>7, <1>8, <1>9, <2>2, <2>3, PathConcat
<1>12. b[1] = "restore" /\ b[2] = no_struct_lit /\ c[1] = "expect" /\ c[2] = ")"
  BY <1>1 DEF Expect
<1>13. ASSUME NEW m \in Nat, Count(todo[1], no_struct_lit, m) PROVE Path("lits", w, no_struct_lit', m)
  <2>1. m = no_struct_lit
    BY <1>4, <1>13 DEF Count
  <2>2. Count(b, 0, m) /\ Count(c, m, m)
    BY <1>12, <2>1 DEF Count
  <2>3. Step("lits", b, 0, m) /\ Step("lits", c, m, m) /\ "lits" \in Views
        /\ 0 \in Good("lits") /\ m \in Good("lits")
    BY <2>2 DEF Step, Views, Good
  <2> QED BY <1>2, <1>11, <2>3
<1>14. ASSUME NEW s \in Stacks, NEW m \in Stacks, Reads(toks, pos, s), Step("open", todo[1], s, m)
       PROVE  \E u \in Stacks : Reads(toks, pos', u) /\ Path("open", w, u, m)
  <2>1. todo[1][1] # "expect" /\ "" \notin Brackets
    BY <1>4, BracketsAre DEF Brackets
  <2>2. m = s
    BY <1>14, <2>1 DEF Step, Turn
  <2>3. PICK u \in Stacks : u = Append(s, "(") /\ Turn(")", u, s)
    BY OpenTurn, CloseTurn, BracketsAre
  <2>4. Reads(toks, pos', u)
    BY <1>3, <1>4, <1>14, <2>3 DEF Opened
  <2>5. Turn("", u, u)
    BY <2>1 DEF Turn, Brackets
  <2>6. Step("open", b, u, u) /\ Step("open", c, u, s) /\ "open" \in Views
        /\ u \in Good("open") /\ s \in Good("open")
    BY <1>12, <2>3, <2>5 DEF Step, Views, Good
  <2>7. Path("open", w, u, s)
    BY <1>11, <2>6
  <2> QED BY <2>2, <2>4, <2>7
<1>15. pos' \in pos .. Len(toks) /\ no_struct_lit' \in Nat /\ had_error' \in BOOLEAN
  BY <1>2, <1>3, <1>4, <1>5, OneMore, Near
<1>16. \A q \in pos .. pos' - 1 : toks[q] # "error"
  <2>1. \A q \in pos .. pos + 1 - 1 : toks[q] # "error"
    BY <1>3 DEF Opened
  <2>2. pos' - 1 = pos + 1 - 1
    BY <1>4, Near
  <2> QED BY <2>1, <2>2
<1>17. ~had_error' => ~had_error
  BY <1>2
<1> QED BY <1>4, <1>10, <1>13, <1>14, <1>15, <1>16, <1>17, Keeps

\* Together.
LEMMA CoreNext == Core /\ Next => Kept
<1> SUFFICES ASSUME Core, Next PROVE Kept
  OBVIOUS
<1>2. CASE parse_primary
  BY <1>2, Core_Operand, Core_Group, Core_NoOperand DEF parse_primary
<1>3. CASE expect \/ match \/ parse_type \/ suppress \/ release \/ fields
  BY <1>3, Core_expect, Core_match, Core_parse_type, Core_suppress, Core_release, Core_fields
<1>4. CASE parse_call_or_postfix \/ parse_precedence \/ operators \/ node
  BY <1>4, Core_parse_call_or_postfix, Core_parse_precedence, Core_operators, Core_node
<1>5. CASE Compound \/ Simple \/ parse_let \/ parse_block
  BY <1>5, Core_Compound, Core_Simple, Core_parse_let, Core_parse_block
<1>6. CASE parse_attr_list \/ parse_decl \/ parse_fn \/ parse_struct \/ parse_type_alias \/ parse_module
  BY <1>6, Core_parse_attr_list, Core_parse_decl, Core_parse_fn, Core_parse_struct,
     Core_parse_type_alias, Core_parse_module
<1> QED BY <1>2, <1>3, <1>4, <1>5, <1>6 DEF Next

\* It holds at first.
LEMMA CoreInit == Init => Core
<1> SUFFICES ASSUME Init PROVE Core
  OBVIOUS
<1>1. /\ toks \in Inputs /\ pos = 1 /\ todo = <<Call("parse_module")>> /\ no_struct_lit = 0
      /\ had_error = FALSE
  BY DEF Init
<1>2. toks \in Seq(Kinds) /\ toks # <<>>
  BY <1>1, InputsAssumption DEF Ended
<1>3. pos \in 1 .. Len(toks)
  BY <1>1, <1>2, EmptySeq
<1>4. Call("parse_module") \in Flat(pos)
  BY CallFlat DEF CallNames
<1>5. Even(todo, pos)
  BY <1>1, <1>3, <1>4, Even1
<1>6. "lits" \in Views /\ "open" \in Views /\ Good("lits") = Nat /\ Good("open") = Stacks /\ <<>> \in Stacks
  BY DEF Views, Good, Stacks
<1>7. Path("lits", todo, no_struct_lit, 0) /\ Path("open", todo, <<>>, <<>>) /\ todo \in Seq(Tasks(pos))
  BY <1>1, <1>5, <1>6 DEF Even
<1>8. Reads(toks, pos, <<>>) /\ \A q \in 1 .. pos - 1 : FALSE
  BY <1>1, ReadNone
<1> QED BY <1>1, <1>3, <1>6, <1>7, <1>8 DEF Core
-----------------------------------------------------------------------------
(* What the list of tasks ends with, and the tree.                            *)

\* What each action does first.
LEMMA Does ==
  /\ expect => Doing("expect")
  /\ match => Doing("match")
  /\ parse_type => Doing("parse_type")
  /\ parse_primary => Doing("parse_primary")
  /\ suppress => Doing("suppress")
  /\ release => Doing("release") \/ Doing("restore")
  /\ fields => Doing("fields") \/ Doing("more_fields")
  /\ parse_call_or_postfix => Doing("parse_call_or_postfix") \/ Doing("more_args")
  /\ parse_precedence => Doing("parse_precedence")
  /\ operators => Doing("operators")
  /\ node => Doing("node")
  /\ Compound => Doing("parse_stmt") \/ Doing("else") \/ Doing("arms") \/ Doing("arm_body")
  /\ Simple => Doing("parse_stmt")
  /\ parse_let => Doing("parse_stmt") \/ Doing("init")
  /\ parse_block => Doing("parse_block") \/ Doing("stmts")
  /\ parse_attr_list => Doing("parse_attr_list") \/ Doing("attr_arg")
  /\ parse_decl => Doing("parse_decl")
  /\ parse_fn => Doing("fn") \/ Doing("params") \/ Doing("param") \/ Doing("more_params") \/ Doing("ret")
  /\ parse_struct => Doing("struct") \/ Doing("members") \/ Doing("invariants")
  /\ parse_type_alias => Doing("type")
  /\ parse_module => Doing("parse_module") \/ Doing("imports") \/ Doing("decls")
<1>1. expect => Doing("expect")
  BY Zenon DEF expect, Do
<1>2. match => Doing("match")
  BY Zenon DEF match, Do
<1>3. parse_type => Doing("parse_type")
  BY Zenon DEF parse_type, Do
<1>4. parse_primary => Doing("parse_primary")
  BY Zenon DEF parse_primary, Operand, Group, NoOperand, Do
<1>5. suppress => Doing("suppress")
  BY Zenon DEF suppress, Do
<1>6. release => Doing("release") \/ Doing("restore")
  BY Zenon DEF release, Do
<1>7. fields => Doing("fields") \/ Doing("more_fields")
  BY Zenon DEF fields, Do
<1>8. parse_call_or_postfix => Doing("parse_call_or_postfix") \/ Doing("more_args")
  BY Zenon DEF parse_call_or_postfix, Do
<1>9. parse_precedence => Doing("parse_precedence")
  BY Zenon DEF parse_precedence, Do
<1>10. operators => Doing("operators")
  BY Zenon DEF operators, Do
<1>11. node => Doing("node")
  BY Zenon DEF node, Do
<1>12. Compound => Doing("parse_stmt") \/ Doing("else") \/ Doing("arms") \/ Doing("arm_body")
  BY Zenon DEF Compound, Do
<1>13. Simple => Doing("parse_stmt")
  BY Zenon DEF Simple, Do
<1>14. parse_let => Doing("parse_stmt") \/ Doing("init")
  BY Zenon DEF parse_let, Do
<1>15. parse_block => Doing("parse_block") \/ Doing("stmts")
  BY Zenon DEF parse_block, Do
<1>16. parse_attr_list => Doing("parse_attr_list") \/ Doing("attr_arg")
  BY Zenon DEF parse_attr_list, Do
<1>17. parse_decl => Doing("parse_decl")
  BY Zenon DEF parse_decl, Do
<1>18. parse_fn => Doing("fn") \/ Doing("params") \/ Doing("param") \/ Doing("more_params") \/ Doing("ret")
  BY Zenon DEF parse_fn, Do
<1>19. parse_struct => Doing("struct") \/ Doing("members") \/ Doing("invariants")
  BY Zenon DEF parse_struct, parse_struct_list, Do
<1>20. parse_type_alias => Doing("type")
  BY Zenon DEF parse_type_alias, Do
<1>21. parse_module => Doing("parse_module") \/ Doing("imports") \/ Doing("decls")
  BY Zenon DEF parse_module, Do
<1> QED BY <1>1, <1>2, <1>3, <1>4, <1>5, <1>6, <1>7, <1>8, <1>9, <1>10, <1>11, <1>12, <1>13, <1>14, <1>15, <1>16, <1>17, <1>18, <1>19, <1>20, <1>21

\* What a list ends with that two tasks are put at the end of.
LEMMA TwoLast ==
  ASSUME NEW S, NEW w \in Seq(S), NEW b \in S, NEW c \in S
  PROVE  \E u \in Seq(S) : u = w \o <<b, c>> /\ u # <<>> /\ u[Len(u)] = c
<1>1. PICK v : v = <<b, c>>
  OBVIOUS
<1>2. v \in Seq(S) /\ Len(v) = 2 /\ v[2] = c
  BY <1>1
<1>3. PICK u : u = w \o v
  OBVIOUS
<1>4. PICK k \in Nat : k = Len(w)
  BY LenProperties
<1>5. /\ u \in Seq(S) /\ Len(u) = k + 2
      /\ \A i \in 1 .. k + 2 : u[i] = IF i <= k THEN w[i] ELSE v[i - k]
  <2>1. /\ w \o v \in Seq(S) /\ Len(w \o v) = Len(w) + Len(v)
        /\ \A i \in 1 .. Len(w) + Len(v) : (w \o v)[i] = IF i <= Len(w) THEN w[i] ELSE v[i - Len(w)]
    BY <1>2, ConcatProperties
  <2>2. u \in Seq(S) /\ Len(u) = Len(w) + Len(v)
        /\ \A i \in 1 .. Len(w) + Len(v) : u[i] = IF i <= Len(w) THEN w[i] ELSE v[i - Len(w)]
    BY <1>3, <2>1
  <2> QED BY <1>2, <1>4, <2>2
<1>6. k + 2 \in 1 .. k + 2 /\ ~(k + 2 <= k) /\ (k + 2) - k = 2
  OBVIOUS
<1>7. u[k + 2] = c
  BY <1>2, <1>5, <1>6
<1>8. u # <<>>
  BY <1>5, EmptySeq
<1> QED BY <1>1, <1>3, <1>5, <1>7, <1>8

\* The list of tasks ends as it did, or its one task was to parse the module or
\* its declarations.
LEMMA BottomNext == Core /\ Bottom /\ Next => Bottom'
<1> SUFFICES ASSUME Core, Bottom, Next PROVE Bottom'
  OBVIOUS
<1>1. Core' /\ SameEnd /\ toks' = toks
  BY CoreNext DEF Kept
<1>0. PICK t : t = Tail(todo)
  OBVIOUS
<1>2. PICK n \in Nat : n = Len(todo) /\ todo \in Seq(Tasks(pos)) /\ Tail(todo) \in Seq(Tasks(pos)) /\ todo # <<>>
          /\ n # 0 /\ Len(t) = n - 1 /\ t \in Seq(Tasks(pos))
  <2>1. todo # <<>>
    BY Does, Zenon DEF Next, Doing
  <2>2. todo \in Seq(Tasks(pos))
    BY DEF Core
  <2> QED BY <1>0, <2>1, <2>2, HeadTailProperties, LenProperties, EmptySeq
<1>3. CASE Tail(todo) # <<>>
  <2>1. n # 1
    BY <1>0, <1>2, <1>3, EmptySeq
  <2>2. todo # <<Call("parse_module")>>
    BY <1>2, <2>1
  <2>3. todo[Len(todo)] = Call("decls")
    BY <1>2, <2>2 DEF Bottom
  <2> QED BY <1>1, <1>3, <2>3 DEF SameEnd, Bottom
<1>4. CASE Tail(todo) = <<>>
  <2>1. n = 1
    <3>1. t = <<>>
      BY <1>0, <1>4
    <3>2. Len(t) = 0
      BY <3>1
    <3>3. 0 = n - 1
      BY <1>2, <3>2
    <3> QED BY ONLY <3>3
  <2>2. todo[1] = Call("parse_module") \/ todo[1] = Call("decls")
    BY <1>2, <2>1 DEF Bottom
  <2>3. todo[1][1] = "parse_module" \/ todo[1][1] = "decls"
    <3>1. Call("parse_module")[1] = "parse_module" /\ Call("decls")[1] = "decls"
      BY DEF Call
    <3> QED BY <2>2, <3>1, Zenon
  <2>4. parse_module
    BY <2>3, Does DEF Next, Doing
  <2>5. ASSUME NEW m, NEW w, Do("parse_module", m, w \o <<Call("imports"), Call("decls")>>),
               w = <<>> \/ w = <<Expect("ident"), Optional(";")>>
        PROVE  Bottom'
    <3>0. PICK b, c, d, e : b = Call("imports") /\ c = Call("decls") /\ d = Expect("ident") /\ e = Optional(";")
      OBVIOUS
    <3> DEFINE S == {b, c, d, e}
    <3>1. w \in Seq(S)
      <4>1. <<>> \in Seq(S) /\ <<d, e>> \in Seq(S)
        OBVIOUS
      <4>2. w = <<>> \/ w = <<d, e>>
        BY <2>5, <3>0
      <4> HIDE DEF S
      <4> QED BY <4>1, <4>2, Zenon
    <3>2. PICK u \in Seq(S) : u = w \o <<b, c>> /\ u # <<>> /\ u[Len(u)] = c
      <4>1. b \in S /\ c \in S
        OBVIOUS
      <4> HIDE DEF S
      <4> QED BY <3>1, <4>1, TwoLast, ZenonT(60)
    <3>3. todo' = u
      <4>1. todo' = u \o <<>>
        BY <1>4, <2>5, <3>0, <3>2 DEF Do
      <4> QED BY <3>2, <4>1, ConcatEmptySeq
    <3> QED BY <3>0, <3>2, <3>3 DEF Bottom
  <2>6. CASE Doing("parse_module")
    <3>1. Doing("imports") \/ Doing("decls") => FALSE
      BY <2>6 DEF Doing
    <3>2. Do("parse_module", IF Here = "module" THEN 1 ELSE 0,
             (IF Here = "module" THEN <<Expect("ident"), Optional(";")>> ELSE <<>>)
             \o <<Call("imports"), Call("decls")>>)
      BY <2>4, <3>1, Zenon DEF parse_module, Do
    <3> QED BY <2>5, <3>2, Zenon
  <2>7. CASE ~Doing("parse_module")
    <3>1. Doing("decls") /\ ~Doing("imports")
      BY <1>2, <2>3, <2>7 DEF Doing
    <3>2. CASE Do("decls", 0, <<Call("parse_attr_list"), Call("parse_decl"), Call("decls")>>)
      <4>1. PICK u : u = <<Call("parse_attr_list"), Call("parse_decl"), Call("decls")>> 
        OBVIOUS
      <4>2. u \in Seq({Call("parse_attr_list"), Call("parse_decl"), Call("decls")}) /\ Len(u) = 3 /\ u[3] = Call("decls")
        BY <4>1
      <4>3. todo' = u \o <<>>
        BY <1>4, <3>2, <4>1 DEF Do
      <4>4. todo' = u
        BY <4>2, <4>3, ConcatEmptySeq
      <4>5. u # <<>>
        BY <4>2, SMTT(60)
      <4> QED BY <4>2, <4>4, <4>5 DEF Bottom
    <3>3. CASE Here = "eof" /\ Do("decls", 0, <<>>)
      <4>1. todo' = <<>> \o <<>> /\ pos' = pos
        BY <1>4, <3>3 DEF Do
      <4>2. <<>> \o <<>> = <<>>
        <5>1. <<>> \in Seq({})
          OBVIOUS
        <5> QED BY <5>1, ConcatEmptySeq
      <4>3. Here' = Here
        BY <1>1, <4>1 DEF Here
      <4> QED BY <3>3, <4>1, <4>2, <4>3 DEF Bottom
    <3> QED BY <2>4, <2>7, <3>1, <3>2, <3>3, Zenon DEF parse_module, Do
  <2> QED BY <2>6, <2>7
<1> QED BY <1>3, <1>4

\* Where the parser is and has been are places in the text.
LEMMA Places == Core => DOMAIN toks = 1 .. Len(toks) /\ \A q \in 1 .. pos : q \in Positions
<1> SUFFICES ASSUME Core PROVE DOMAIN toks = 1 .. Len(toks) /\ \A q \in 1 .. pos : q \in Positions
  OBVIOUS
<1>1. DOMAIN toks = 1 .. Len(toks)
  BY TextAt
<1>2. PICK p \in Nat, n \in Nat : p = pos /\ n = Len(toks) /\ p <= n
  BY TextAt
<1>3. \A q \in 1 .. p : q \in 1 .. n
  BY ONLY <1>2
<1> QED BY <1>1, <1>2, <1>3 DEF Positions

\* What is kept of the tree are places in the text.
LEMMA TreeNext == Core /\ Tree /\ Next => Tree'
<1> SUFFICES ASSUME Core, Tree, Next PROVE Tree'
  OBVIOUS
<1>1. toks' = toks
  BY CoreNext DEF Kept
<1>2. PICK P, D, N : /\ P = Positions /\ D = [at : P, attrs : Seq(P), invariants : Seq(P)]
                     /\ N = [first : P, at : P, last : P]
  OBVIOUS
<1>3. attrs \in Seq(P) /\ decls \in Seq(D) /\ nodes \subseteq N
  BY <1>2 DEF Tree
<1>4. Positions' = P
  BY <1>1, <1>2 DEF Positions
<1>5. SUFFICES attrs' \in Seq(P) /\ decls' \in Seq(D) /\ nodes' \subseteq N
  BY <1>2, <1>4 DEF Tree
<1>6. pos \in P /\ \A q \in 1 .. pos - 1 : q \in P
  <2>1. pos \in Nat /\ pos \in 1 .. pos
    BY Near
  <2>2. \A q \in 1 .. pos - 1 : q \in 1 .. pos
    BY <2>1
  <2> QED BY <1>2, <2>1, <2>2, Places
<1>7. CASE UNCHANGED tree
  BY <1>3, <1>7 DEF tree
<1>8. CASE attrs' = <<>> /\ UNCHANGED <<decls, nodes>>
  BY <1>3, <1>8
<1>9. CASE node
  <2>1. PICK x \in (1 .. pos) \X (1 .. pos - 1) : x = Arg
    BY <1>9, HeadArg DEF node, Do
  <2>2. nodes' = nodes \cup {[first |-> x[1], at |-> x[2], last |-> pos - 1]}
    BY <1>9, <2>1 DEF node
  <2>3. x[1] \in 1 .. pos /\ x[2] \in 1 .. pos - 1
    BY <2>1
  <2>4. x[1] \in P /\ x[2] \in P
    BY <1>2, <1>6, <2>3, Places
  <2>5. pos - 1 \in P
    <3>1. pos \in Nat
      BY Near
    <3>2. pos - 1 \in 1 .. pos - 1
      BY <2>3, <3>1
    <3> QED BY <1>6, <3>2
  <2>6. [first |-> x[1], at |-> x[2], last |-> pos - 1] \in N
    BY <1>2, <2>4, <2>5
  <2>7. nodes' \subseteq N
    BY <1>3, <2>2, <2>6
  <2> QED BY <1>3, <1>9, <2>7 DEF node
<1>10. CASE parse_attr_list
  <2>1. CASE attrs' = Append(attrs, pos) /\ UNCHANGED <<decls, nodes>>
    BY <1>3, <1>6, <2>1, AppendProperties
  <2> QED BY <1>7, <1>10, <2>1 DEF parse_attr_list, Plain
<1>11. CASE parse_decl
  <2>1. CASE decls' = Append(decls, [at |-> pos, attrs |-> attrs, invariants |-> <<>>])
             /\ UNCHANGED <<attrs, nodes>>
    <3>1. [at |-> pos, attrs |-> attrs, invariants |-> <<>>] \in D
      <4>1. <<>> \in Seq(P)
        OBVIOUS
      <4> QED BY <1>2, <1>3, <1>6, <4>1
    <3>2. decls' \in Seq(D)
      BY <1>3, <2>1, <3>1, AppendProperties
    <3> QED BY <1>3, <2>1, <3>2
  <2> QED BY <1>7, <1>11, <2>1 DEF parse_decl, Error
<1>12. CASE parse_struct
  <2>1. CASE decls' = [decls EXCEPT ![Len(decls)].invariants = @ \o attrs] /\ UNCHANGED <<attrs, nodes>>
    <3>1. PICK d \in Seq(D), a \in Seq(P) : d = decls /\ a = attrs
      BY <1>3
    <3>2. PICK e : e = [d EXCEPT ![Len(d)].invariants = @ \o a]
      OBVIOUS
    <3>3. e \in Seq(D)
      <4>1. CASE d = <<>>
        <5>1. DOMAIN d = {}
          BY <4>1
        <5>2. e = d
          BY <3>2, <5>1
        <5> QED BY <5>2
      <4>2. CASE d # <<>>
        <5>1. PICK k \in 1 .. Len(d) : k = Len(d) /\ d[k] \in D
          BY <4>2, EmptySeq, LenProperties, ElementOfSeq
        <5>2. d[k].invariants \in Seq(P)
          BY <1>2, <5>1
        <5>3. d[k].invariants \o a \in Seq(P)
          BY <5>2, ConcatProperties
        <5>4. PICK r : r = [d[k] EXCEPT !.invariants = d[k].invariants \o a]
          OBVIOUS
        <5>5. r \in D
          BY <1>2, <5>1, <5>3, <5>4
        <5>6. e = [d EXCEPT ![k] = r]
          BY <3>2, <5>1, <5>4
        <5> QED BY <5>5, <5>6, ExceptSeq
      <4> QED BY <4>1, <4>2
    <3> QED BY <1>3, <2>1, <3>1, <3>2, <3>3
  <2> QED BY <1>7, <1>8, <1>12, <2>1 DEF parse_struct, parse_struct_list, Plain
<1>13. CASE parse_module
  BY <1>7, <1>8, <1>13 DEF parse_module, Plain
<1>14. CASE expect \/ match \/ parse_type \/ suppress \/ release \/ fields
  BY <1>7, <1>14 DEF expect, match, parse_type, suppress, release, fields, Plain, Error
<1>15. CASE parse_primary \/ parse_call_or_postfix \/ parse_precedence \/ operators
  BY <1>7, <1>15 DEF parse_primary, Operand, Group, NoOperand, parse_call_or_postfix, parse_precedence,
     operators, Plain, Error
<1>16. CASE Compound \/ Simple \/ parse_let \/ parse_block \/ parse_fn \/ parse_type_alias
  BY <1>7, <1>16 DEF Compound, Simple, parse_let, parse_block, parse_fn, parse_type_alias, Plain
<1> QED BY <1>9, <1>10, <1>11, <1>12, <1>13, <1>14, <1>15, <1>16 DEF Next
-----------------------------------------------------------------------------
(* The invariant.                                                             *)

\* It holds at first.
LEMMA PInvInit == Init => PInv
<1> SUFFICES ASSUME Init PROVE PInv
  OBVIOUS
<1>1. Core
  BY CoreInit
<1>2. Bottom
  BY DEF Init, Bottom
<1>3. attrs = <<>> /\ decls = <<>> /\ nodes = {}
  BY DEF Init
<1>4. Tree
  BY <1>3 DEF Tree
<1> QED BY <1>1, <1>2, <1>4 DEF PInv

\* Every step keeps it.
LEMMA PInvNext == PInv /\ [Next]_vars => PInv'
<1> SUFFICES ASSUME PInv, [Next]_vars PROVE PInv'
  OBVIOUS
<1>1. CASE Next
  BY <1>1, CoreNext, BottomNext, TreeNext DEF PInv, Kept
<1>2. CASE UNCHANGED vars
  <2>1. /\ toks' = toks /\ pos' = pos /\ todo' = todo /\ no_struct_lit' = no_struct_lit
        /\ had_error' = had_error /\ attrs' = attrs /\ decls' = decls /\ nodes' = nodes
    BY <1>2 DEF vars, tree
  <2>2. Core'
    BY <2>1 DEF PInv, Core
  <2>3. Bottom'
    BY <2>1 DEF PInv, Bottom, Here
  <2>4. Positions' = Positions
    BY <2>1 DEF Positions
  <2>5. Tree'
    BY <2>1, <2>4 DEF PInv, Tree
  <2> QED BY <2>2, <2>3, <2>5 DEF PInv
<1> QED BY <1>1, <1>2

\* It always holds.
LEMMA PInvAlways == Spec => []PInv
BY PInvInit, PInvNext, PTL DEF Spec

\* Every variable keeps its type.
THEOREM ParseTypeCorrect == Spec => []TypeOK
<1>1. ASSUME PInv PROVE TypeOK
  <2>1. Core /\ Tree
    BY <1>1 DEF PInv
  <2>2. toks \in Seq(Kinds) /\ pos \in 1 .. Len(toks) /\ no_struct_lit \in Nat /\ had_error \in BOOLEAN
    BY <2>1, InputsAssumption DEF Core
  <2>3. pos \in Positions
    BY <2>1, <2>2, Places DEF Positions
  <2> QED BY <2>1, <2>2, <2>3 DEF Tree, TypeOK
<1> QED BY <1>1, PInvAlways, PTL
-----------------------------------------------------------------------------
(* A text whose brackets are all read one on top of the other, and of which   *)
(* none is left, has them in pairs.                                           *)

\* How many of the first n tokens of t are in T.
Tokens(t, T, n) == Cardinality({p \in 1 .. n : t[p] \in T})

\* They are counted one by one.
LEMMA Tally ==
  ASSUME NEW t, NEW T
  PROVE  /\ Tokens(t, T, 0) = 0
         /\ \A n \in Nat : /\ Tokens(t, T, n) \in Nat
                           /\ t[n + 1] \in T => Tokens(t, T, n + 1) = Tokens(t, T, n) + 1
                           /\ t[n + 1] \notin T => Tokens(t, T, n + 1) = Tokens(t, T, n)
<1>1. Tokens(t, T, 0) = 0
  <2>1. {p \in 1 .. 0 : t[p] \in T} = {}
    OBVIOUS
  <2> QED BY <2>1, FS_EmptySet DEF Tokens
<1>2. ASSUME NEW n \in Nat
      PROVE  /\ Tokens(t, T, n) \in Nat
             /\ t[n + 1] \in T => Tokens(t, T, n + 1) = Tokens(t, T, n) + 1
             /\ t[n + 1] \notin T => Tokens(t, T, n + 1) = Tokens(t, T, n)
  <2>1. PICK A, B : A = {p \in 1 .. n : t[p] \in T} /\ B = {p \in 1 .. n + 1 : t[p] \in T}
    OBVIOUS
  <2>2. Tokens(t, T, n) = Cardinality(A) /\ Tokens(t, T, n + 1) = Cardinality(B)
    BY <2>1 DEF Tokens
  <2>3. IsFiniteSet(A)
    <3>1. IsFiniteSet(1 .. n) /\ A \subseteq 1 .. n
      BY <2>1, FS_Interval
    <3> QED BY <3>1, FS_Subset
  <2>4. t[n + 1] \notin T => B = A
    BY <2>1
  <2>5. t[n + 1] \in T => B = A \cup {n + 1} /\ n + 1 \notin A
    BY <2>1
  <2>6. Cardinality(A) \in Nat
    BY <2>3, FS_CardinalityType
  <2> QED BY <2>2, <2>3, <2>4, <2>5, <2>6, FS_AddElement
<1> QED BY <1>1, <1>2

\* The brackets open before each of the first N tokens of t.
Run(t, N, e) ==
  /\ N \in Nat /\ N # 0 /\ e \in [1 .. N -> Stacks] /\ e[1] = <<>>
  /\ \A i \in 1 .. N - 1 : Turn(t[i], e[i], e[i + 1])

\* A token opens or closes one bracket, or none.
LEMMA RunStep ==
  ASSUME NEW t, NEW N, NEW e, Run(t, N, e), NEW i \in 1 .. N - 1
  PROVE  /\ N \in Nat /\ i \in 1 .. N /\ i + 1 \in 1 .. N /\ i \in Nat
         /\ Turn(t[i], e[i], e[i + 1]) /\ e[i] \in Stacks /\ e[i + 1] \in Stacks
         /\ Len(e[i]) \in Nat /\ Len(e[i + 1]) \in Nat
         /\ t[i] \in Openers => Len(e[i + 1]) = Len(e[i]) + 1
         /\ t[i] \in Closers => Len(e[i]) = Len(e[i + 1]) + 1
         /\ t[i] \notin Brackets => Len(e[i + 1]) = Len(e[i])
<1>1. N \in Nat /\ i \in 1 .. N /\ i + 1 \in 1 .. N /\ i \in Nat
  BY DEF Run
<1>2. Turn(t[i], e[i], e[i + 1]) /\ e[i] \in Stacks /\ e[i + 1] \in Stacks
  BY <1>1 DEF Run
<1> QED BY <1>1, <1>2, TurnLen

\* What is open is what has been opened and not closed.
LEMMA RunCount ==
  ASSUME NEW t, NEW N, NEW e, Run(t, N, e)
  PROVE  \A n \in 0 .. N - 1 : Tokens(t, Openers, n) - Tokens(t, Closers, n) = Len(e[n + 1])
<1> DEFINE S == {n \in Nat : n <= N - 1 => Tokens(t, Openers, n) - Tokens(t, Closers, n) = Len(e[n + 1])}
<1>1. N \in Nat /\ N # 0
  BY DEF Run
<1>2. 0 \in S
  <2>1. Tokens(t, Openers, 0) = 0 /\ Tokens(t, Closers, 0) = 0
    BY Tally
  <2>2. Len(e[0 + 1]) = 0
    BY DEF Run
  <2> QED BY <2>1, <2>2
<1>3. ASSUME NEW n \in Nat, n \in S PROVE n + 1 \in S
  <2> SUFFICES ASSUME n + 1 <= N - 1
               PROVE  Tokens(t, Openers, n + 1) - Tokens(t, Closers, n + 1) = Len(e[(n + 1) + 1])
    OBVIOUS
  <2>1. Tokens(t, Openers, n) - Tokens(t, Closers, n) = Len(e[n + 1])
    BY <1>1, <1>3
  <2>2. PICK i : i = n + 1 /\ i \in 1 .. N - 1
    BY <1>1
  <2>3. ASSUME NEW T
        PROVE  /\ Tokens(t, T, n) \in Nat /\ Tokens(t, T, i) \in Nat
               /\ t[i] \in T => Tokens(t, T, i) = Tokens(t, T, n) + 1
               /\ t[i] \notin T => Tokens(t, T, i) = Tokens(t, T, n)
    <3>1. /\ Tokens(t, T, n) \in Nat
          /\ t[n + 1] \in T => Tokens(t, T, n + 1) = Tokens(t, T, n) + 1
          /\ t[n + 1] \notin T => Tokens(t, T, n + 1) = Tokens(t, T, n)
      BY Tally
    <3> QED BY <2>2, <3>1
  <2>4. PICK x \in Nat, y \in Nat, z \in Nat, w \in Nat :
          /\ x = Tokens(t, Openers, n) /\ y = Tokens(t, Closers, n)
          /\ z = Tokens(t, Openers, i) /\ w = Tokens(t, Closers, i)
          /\ t[i] \in Openers => z = x + 1
          /\ t[i] \notin Openers => z = x
          /\ t[i] \in Closers => w = y + 1
          /\ t[i] \notin Closers => w = y
    BY <2>3
  <2>5. PICK a \in Nat, b \in Nat : a = Len(e[i]) /\ b = Len(e[i + 1])
    BY <2>2, RunStep
  <2>6. /\ t[i] \in Openers => b = a + 1
        /\ t[i] \in Closers => a = b + 1
        /\ t[i] \notin Brackets => b = a
    BY <2>2, <2>5, RunStep, SMTT(60)
  <2>7. x - y = a
    BY <2>1, <2>2, <2>4, <2>5
  <2>8. t[i] \in Openers => t[i] \notin Closers
    BY BracketsAre
  <2>9. z - w = b
    <3>1. CASE t[i] \in Openers
      BY <2>4, <2>6, <2>7, <2>8, <3>1
    <3>2. CASE t[i] \in Closers
      BY <2>4, <2>6, <2>7, <2>8, <3>2
    <3>3. CASE t[i] \notin Brackets
      <4>1. t[i] \notin Openers /\ t[i] \notin Closers
        BY <3>3 DEF Brackets
      <4> QED BY <2>4, <2>6, <2>7, <3>3, <4>1
    <3> QED BY <3>1, <3>2, <3>3 DEF Brackets
  <2> QED BY <2>2, <2>4, <2>5, <2>9
<1>4. \A n \in Nat : n \in S
  <2> HIDE DEF S
  <2> QED BY <1>2, <1>3, SetInduction
<1>5. \A n \in 0 .. N - 1 : n \in Nat /\ n <= N - 1
  BY <1>1
<1> QED BY <1>4, <1>5

\* A token changes what is open at the top only.
LEMMA TurnSame ==
  ASSUME NEW k, NEW a, NEW b, Turn(k, a, b), NEW i \in 1 .. Len(a), i \in 1 .. Len(b)
  PROVE  a[i] = b[i]
<1>1. a \in Stacks /\ b \in Stacks
  BY DEF Turn
<1>2. CASE k \in Openers
  BY <1>1, <1>2, AppendProperties DEF Turn, Stacks
<1>3. CASE k \in Closers
  <2>1. PICK o \in Openers : a = Append(b, o)
    BY <1>3 DEF Turn
  <2> QED BY <1>1, <2>1, AppendProperties DEF Stacks
<1>4. CASE k \notin Brackets
  BY <1>4 DEF Turn
<1> QED BY <1>2, <1>3, <1>4 DEF Brackets

\* While no fewer brackets are open than after q, these are the same.
LEMMA RunSame ==
  ASSUME NEW t, NEW N, NEW e, Run(t, N, e), NEW q \in 1 .. N, NEW r \in q .. N,
         \A p \in q .. r : Len(e[p]) >= Len(e[q])
  PROVE  \A i \in 1 .. Len(e[q]) : e[r][i] = e[q][i]
<1> SUFFICES ASSUME NEW i \in 1 .. Len(e[q]) PROVE e[r][i] = e[q][i]
  OBVIOUS
<1> DEFINE S == {n \in Nat : q + n <= r => e[q + n][i] = e[q][i]}
<1>1. N \in Nat /\ q \in Nat /\ r \in Nat /\ q # 0 /\ q <= r /\ r <= N /\ Len(e[q]) \in Nat
  <2>1. N \in Nat /\ e[q] \in Stacks
    BY DEF Run
  <2>2. Len(e[q]) \in Nat
    BY <2>1, LenProperties DEF Stacks
  <2> QED BY <2>1, <2>2
<1>2. 0 \in S
  BY <1>1
<1>3. ASSUME NEW n \in Nat, n \in S PROVE n + 1 \in S
  <2> SUFFICES ASSUME q + (n + 1) <= r PROVE e[q + (n + 1)][i] = e[q][i]
    OBVIOUS
  <2>1. PICK p \in Nat : p = q + n /\ p + 1 = q + (n + 1)
    BY <1>1
  <2>2. p \in 1 .. N - 1 /\ p \in q .. r /\ p + 1 \in q .. r
    BY <1>1, <2>1
  <2>3. e[p][i] = e[q][i]
    BY <1>1, <1>3, <2>1
  <2>4. Turn(t[p], e[p], e[p + 1]) /\ Len(e[p]) \in Nat /\ Len(e[p + 1]) \in Nat
    BY <2>2, RunStep
  <2>5. i \in 1 .. Len(e[p]) /\ i \in 1 .. Len(e[p + 1])
    <3>1. Len(e[p]) >= Len(e[q]) /\ Len(e[p + 1]) >= Len(e[q])
      BY <2>2
    <3> QED BY <1>1, <2>4, <3>1
  <2>6. e[p][i] = e[p + 1][i]
    BY <2>4, <2>5, TurnSame
  <2> QED BY <2>1, <2>3, <2>6
<1>4. \A n \in Nat : n \in S
  <2> HIDE DEF S
  <2> QED BY <1>2, <1>3, SetInduction
<1>5. r - q \in Nat /\ q + (r - q) = r
  BY <1>1
<1>6. r - q \in S
  <2> HIDE DEF S
  <2> QED BY <1>4, <1>5
<1> QED BY <1>1, <1>5, <1>6

\* The bracket at r closes the one at q: between them nothing closes it.
Partners(t, N, e, q, r) ==
  /\ q \in 1 .. N - 1 /\ r \in 1 .. N - 1 /\ q < r /\ t[q] \in Openers /\ t[r] \in Closers
  /\ Len(e[r]) = Len(e[q + 1])
  /\ \A p \in q + 1 .. r : Len(e[p]) >= Len(e[q + 1])

\* They are of one kind.
LEMMA PartnersAre ==
  ASSUME NEW t, NEW N, NEW e, Run(t, N, e), NEW q, NEW r, Partners(t, N, e, q, r)
  PROVE  t[r] = Closing[t[q]]
<1>1. q \in 1 .. N - 1 /\ r \in 1 .. N - 1 /\ q < r /\ t[q] \in Openers /\ t[r] \in Closers
  BY DEF Partners
<1>2. e[q] \in Stacks /\ e[q + 1] = Append(e[q], t[q]) /\ q + 1 \in 1 .. N /\ q \in Nat /\ N \in Nat
  BY <1>1, RunStep DEF Turn
<1>3. PICK o \in Openers : Closing[o] = t[r] /\ e[r] = Append(e[r + 1], o)
  BY <1>1, RunStep DEF Turn
<1>4. e[r + 1] \in Stacks
  BY <1>1, RunStep
<1>5. PICK k \in Nat : k = Len(e[q]) /\ Len(e[q + 1]) = k + 1 /\ e[q + 1][k + 1] = t[q]
  BY <1>1, <1>2, AppendProperties, LenProperties DEF Stacks
<1>6. Len(e[r]) = k + 1
  BY <1>5 DEF Partners
<1>7. e[r][k + 1] = o
  <2>1. PICK a, b : a \in Stacks /\ a = e[r + 1] /\ b = e[r] /\ b = Append(a, o)
    BY <1>3, <1>4
  <2>2. Len(a) \in Nat /\ Len(b) = Len(a) + 1 /\ b[Len(a) + 1] = o
    BY <2>1, AppendProperties, LenProperties DEF Stacks
  <2>3. Len(a) = k
    BY <1>6, <2>1, <2>2
  <2> QED BY <2>1, <2>2, <2>3
<1>8. r \in q + 1 .. N
  BY <1>1, <1>2
<1>9. \A i \in 1 .. Len(e[q + 1]) : e[r][i] = e[q + 1][i]
  <2>1. \A p \in q + 1 .. r : Len(e[p]) >= Len(e[q + 1])
    BY DEF Partners
  <2>2. q + 1 \in 1 .. N
    BY <1>2
  <2> QED BY <1>8, <2>1, <2>2, RunSame
<1>10. k + 1 \in 1 .. Len(e[q + 1])
  BY <1>5
<1> QED BY <1>3, <1>5, <1>7, <1>9, <1>10

\* What is opened is closed.
LEMMA Closed ==
  ASSUME NEW t, NEW N, NEW e, Run(t, N, e), e[N] = <<>>, NEW q \in 1 .. N - 1, t[q] \in Openers
  PROVE  \E r : Partners(t, N, e, q, r)
<1>1. N \in Nat /\ q \in Nat /\ q + 1 \in 1 .. N /\ q # 0
  BY RunStep
<1>2. PICK k \in Nat : k = Len(e[q + 1]) /\ k > 0
  BY RunStep
<1>3. \A p \in 1 .. N : Len(e[p]) \in Nat
  BY LenProperties DEF Run, Stacks
<1>4. Len(e[N]) = 0
  OBVIOUS
<1> DEFINE T == {p \in q + 1 .. N : Len(e[p]) < k}
<1>5. T \in SUBSET Nat /\ N \in T
  BY <1>1, <1>2, <1>4
<1>6. PICK m \in T : \A y \in T : m <= y
  <2> HIDE DEF T
  <2> QED BY <1>5, LeastNat
<1>7. m \in q + 1 .. N /\ Len(e[m]) < k /\ m # q + 1
  BY <1>2, <1>6
<1>8. PICK r \in Nat : r = m - 1 /\ r \in q + 1 .. N - 1 /\ r + 1 = m /\ r \in 1 .. N - 1
  BY <1>1, <1>7
<1>9. \A p \in q + 1 .. r : Len(e[p]) >= k
  <2> SUFFICES ASSUME NEW p \in q + 1 .. r PROVE Len(e[p]) >= k
    OBVIOUS
  <2>1. p \in q + 1 .. N /\ p \in 1 .. N /\ ~(m <= p)
    BY <1>1, <1>8
  <2>2. p \notin T
    BY <1>6, <2>1
  <2> QED BY <1>2, <1>3, <2>1, <2>2
<1>10. Len(e[r]) >= k /\ Len(e[r + 1]) < k
  <2>1. r \in q + 1 .. r
    BY <1>1, <1>8
  <2> QED BY <1>7, <1>8, <1>9, <2>1
<1>11. t[r] \in Closers /\ Len(e[r]) = k
  <2>1. PICK a \in Nat, b \in Nat :
          /\ a = Len(e[r]) /\ b = Len(e[r + 1])
          /\ t[r] \in Openers => b = a + 1
          /\ t[r] \in Closers => a = b + 1
          /\ t[r] \notin Brackets => b = a
    BY <1>8, RunStep, SMTT(60)
  <2>2. a >= k /\ b < k
    BY <1>10, <2>1
  <2>3. t[r] \notin Openers /\ t[r] \in Brackets
    BY <1>2, <2>1, <2>2
  <2>4. t[r] \in Closers
    BY <2>3 DEF Brackets
  <2>5. a = k
    BY <1>2, <2>1, <2>2, <2>4
  <2> QED BY <2>1, <2>4, <2>5
<1>12. q < r
  BY <1>1, <1>8
<1> QED BY <1>2, <1>8, <1>9, <1>11, <1>12 DEF Partners

\* What is closed was opened.
LEMMA WasOpen ==
  ASSUME NEW t, NEW N, NEW e, Run(t, N, e), NEW r \in 1 .. N - 1, t[r] \in Closers
  PROVE  \E q : Partners(t, N, e, q, r)
<1>1. N \in Nat /\ r \in Nat /\ r \in 1 .. N /\ r # 0
  BY RunStep
<1>2. PICK k \in Nat : k = Len(e[r]) /\ k > 0
  BY RunStep
<1>3. \A p \in 1 .. N : Len(e[p]) \in Nat
  BY LenProperties DEF Run, Stacks
<1>4. Len(e[1]) = 0
  BY DEF Run
<1> DEFINE T == {d \in 1 .. r - 1 : Len(e[r - d]) < k}
<1>5. r # 1
  BY <1>2, <1>4
<1>6. T \in SUBSET Nat /\ r - 1 \in T
  <2>1. r - (r - 1) = 1 /\ r - 1 \in 1 .. r - 1
    BY <1>1, <1>5
  <2> QED BY <1>2, <1>4, <2>1
<1>7. PICK m \in T : \A y \in T : m <= y
  <2> HIDE DEF T
  <2> QED BY <1>6, LeastNat
<1>8. PICK q \in Nat : q = r - m /\ m = r - q /\ q \in 1 .. r - 1 /\ q \in 1 .. N - 1 /\ Len(e[q]) < k /\ m \in Nat
  BY <1>1, <1>7
<1>9. \A p \in q + 1 .. r : Len(e[p]) >= k
  <2> SUFFICES ASSUME NEW p \in q + 1 .. r, p # r PROVE Len(e[p]) >= k
    BY <1>2
  <2>1. r - p \in 1 .. r - 1 /\ p \in 1 .. N /\ ~(m <= r - p) /\ r - (r - p) = p
    BY <1>1, <1>8
  <2>2. r - p \notin T
    BY <1>7, <2>1
  <2> QED BY <1>2, <1>3, <2>1, <2>2
<1>10. Len(e[q + 1]) >= k
  <2>1. q + 1 \in q + 1 .. r
    BY <1>1, <1>8
  <2> QED BY <1>9, <2>1
<1>11. t[q] \in Openers /\ Len(e[q + 1]) = k
  <2>1. PICK a \in Nat, b \in Nat :
          /\ a = Len(e[q]) /\ b = Len(e[q + 1])
          /\ t[q] \in Openers => b = a + 1
          /\ t[q] \in Closers => a = b + 1
          /\ t[q] \notin Brackets => b = a
    BY <1>8, RunStep, SMTT(60)
  <2>2. a < k /\ b >= k
    BY <1>8, <1>10, <2>1
  <2>3. t[q] \notin Closers /\ t[q] \in Brackets
    BY <1>2, <2>1, <2>2
  <2>4. t[q] \in Openers
    BY <2>3 DEF Brackets
  <2>5. b = k
    BY <1>2, <2>1, <2>2, <2>4
  <2> QED BY <2>1, <2>4, <2>5
<1>12. q < r
  BY <1>1, <1>8
<1> QED BY <1>2, <1>8, <1>9, <1>11, <1>12 DEF Partners

\* The level of a bracket is what is open inside it.
LEMMA LevelIs ==
  ASSUME NEW N, NEW e, Run(toks, N, e), NEW q \in 1 .. N - 1
  PROVE  /\ toks[q] \in Closers => Level(q) = Len(e[q])
         /\ toks[q] \notin Closers => Level(q) = Len(e[q + 1])
<1>1. N \in Nat /\ q \in Nat /\ q # 0
  BY RunStep
<1>2. PICK m \in Nat : m = q - 1 /\ m + 1 = q /\ m \in 0 .. N - 1 /\ q \in 0 .. N - 1
  BY <1>1
<1>3. Level(q) = Tokens(toks, Openers, q) - Tokens(toks, Closers, m)
  BY <1>2 DEF Level, Tokens, Openers
<1>4. Tokens(toks, Openers, q) - Tokens(toks, Closers, q) = Len(e[q + 1])
  BY <1>2, RunCount
<1>5. Tokens(toks, Openers, m) - Tokens(toks, Closers, m) = Len(e[q])
  <2>1. Tokens(toks, Openers, m) - Tokens(toks, Closers, m) = Len(e[m + 1])
    BY <1>2, RunCount
  <2> QED BY <1>2, <2>1
<1>6. ASSUME NEW T, toks[q] \notin T PROVE Tokens(toks, T, q) = Tokens(toks, T, m)
  <2>1. toks[m + 1] \notin T => Tokens(toks, T, m + 1) = Tokens(toks, T, m)
    BY Tally
  <2> QED BY <1>2, <1>6, <2>1
<1>7. CASE toks[q] \in Closers
  <2>1. toks[q] \notin Openers
    BY <1>7, BracketsAre
  <2>2. Tokens(toks, Openers, q) = Tokens(toks, Openers, m)
    BY <1>6, <2>1
  <2> QED BY <1>3, <1>5, <1>7, <2>2
<1>8. CASE toks[q] \notin Closers
  <2>1. Tokens(toks, Closers, q) = Tokens(toks, Closers, m)
    BY <1>6, <1>8
  <2> QED BY <1>3, <1>4, <1>8, <2>1
<1> QED BY <1>7, <1>8

\* Partners are a pair of brackets, as the text has it.
LEMMA PairIs ==
  ASSUME NEW N, NEW e, Run(toks, N, e), NEW q, NEW r, Partners(toks, N, e, q, r)
  PROVE  Pair(q, r)
<1>1. /\ q \in 1 .. N - 1 /\ r \in 1 .. N - 1 /\ q < r /\ toks[q] \in Openers /\ toks[r] \in Closers
      /\ Len(e[r]) = Len(e[q + 1])
  BY DEF Partners
<1>2. toks[r] = Closing[toks[q]]
  BY PartnersAre
<1>3. PICK k \in Nat : k = Len(e[q + 1])
  BY <1>1, RunStep
<1>4. toks[q] \notin Closers
  BY <1>1, BracketsAre
<1>5. Level(q) = k /\ Level(r) = k
  BY <1>1, <1>3, <1>4, LevelIs
<1>6. ASSUME NEW p \in q + 1 .. r - 1, toks[p] \in Closers PROVE Level(p) > Level(q)
  <2>1. N \in Nat /\ q \in Nat /\ r \in Nat
    BY <1>1, RunStep
  <2>2. p \in 1 .. N - 1 /\ p \in q + 1 .. r /\ p + 1 \in q + 1 .. r
    BY <1>1, <2>1
  <2>3. PICK a \in Nat, b \in Nat : a = Len(e[p]) /\ b = Len(e[p + 1]) /\ a = b + 1
    BY <1>6, <2>2, RunStep
  <2>4. b >= k
    BY <1>3, <2>2, <2>3 DEF Partners
  <2>5. Level(p) = a
    BY <1>6, <2>2, <2>3, LevelIs
  <2> QED BY <1>5, <2>3, <2>4, <2>5
<1> QED BY <1>1, <1>2, <1>5, <1>6 DEF Pair, Openers

\* No error is lost: when a module is accepted, its last token has been
\* reached past no error token, and every bracket has its partner.
LEMMA PInvSound == PInv => Sound
<1> SUFFICES ASSUME PInv, todo = <<>>, ~had_error
             PROVE  /\ \A q \in Positions : toks[q] # "error"
                    /\ \A q \in Positions :
                         /\ toks[q] \in Openers => \E r \in Positions : Pair(q, r)
                         /\ toks[q] \in Closers => \E p \in Positions : Pair(p, q)
  BY DEF Sound, Accepted, Done, Openers
<1>1. Core /\ Bottom
  BY DEF PInv
<1>2. toks[pos] = "eof"
  <2>1. todo # <<Call("parse_module")>>
    OBVIOUS
  <2> QED BY <1>1, <2>1 DEF Bottom, Here
<1>3. PICK N \in Nat : N = pos /\ N = Len(toks) /\ N # 0 /\ Positions = 1 .. N
  <2>1. pos \in 1 .. Len(toks)
    BY <1>1 DEF Core
  <2>2. pos = Len(toks)
    BY <1>1, <1>2, <2>1, TextAt
  <2> QED BY <1>1, <2>2, TextAt, Places DEF Positions
<1>4. PICK s \in Stacks : Reads(toks, N, s) /\ Path("open", <<>>, s, <<>>)
  BY <1>1, <1>3 DEF Core
<1>5. s = <<>>
  BY <1>4, PathNone DEF Views, Good
<1>6. PICK e : Run(toks, N, e) /\ e[N] = <<>>
  <2>1. PICK e \in [1 .. N -> Stacks] :
          e[1] = <<>> /\ e[N] = <<>> /\ \A i \in 1 .. N - 1 : Turn(toks[i], e[i], e[i + 1])
    BY <1>4, <1>5 DEF Reads
  <2> QED BY <1>3, <2>1 DEF Run
<1>7. ASSUME NEW q \in Positions PROVE toks[q] # "error"
  <2>1. \A p \in 1 .. N - 1 : toks[p] # "error"
    BY <1>1, <1>3 DEF Core
  <2>2. CASE q = N
    BY <1>2, <1>3, <2>2
  <2>3. CASE q # N
    <3>1. q \in 1 .. N - 1
      BY <1>3, <2>3
    <3> QED BY <2>1, <3>1
  <2> QED BY <2>2, <2>3
<1>8. ASSUME NEW q \in Positions, toks[q] \in Brackets PROVE q \in 1 .. N - 1
  <2>1. q # N
    BY <1>2, <1>3, <1>8, BracketsAre DEF Brackets
  <2> QED BY <1>3, <2>1
<1>9. \A q, r : Partners(toks, N, e, q, r) => q \in Positions /\ r \in Positions
  BY <1>3 DEF Partners
<1>10. ASSUME NEW q \in Positions, toks[q] \in Openers PROVE \E r \in Positions : Pair(q, r)
  <2>1. q \in 1 .. N - 1
    BY <1>8, <1>10 DEF Brackets
  <2>2. PICK r : Partners(toks, N, e, q, r)
    BY <1>6, <1>10, <2>1, Closed
  <2> QED BY <1>6, <1>9, <2>2, PairIs
<1>11. ASSUME NEW q \in Positions, toks[q] \in Closers PROVE \E p \in Positions : Pair(p, q)
  <2>1. q \in 1 .. N - 1
    BY <1>8, <1>11 DEF Brackets
  <2>2. PICK p : Partners(toks, N, e, p, q)
    BY <1>6, <1>11, <2>1, WasOpen
  <2> QED BY <1>6, <1>9, <2>2, PairIs
<1> QED BY <1>7, <1>10, <1>11

\* No error token and no bracket without a partner is in a text that is
\* accepted, wherever recovery has skipped to (main.c 191-195).
THEOREM SoundCorrect == Spec => []Sound
BY PInvAlways, PInvSound, PTL
-----------------------------------------------------------------------------
(* Where attributes end up.                                                   *)

\* The calls that have to do with attributes and declarations, and the tasks
\* that do not.
Special == {"parse_module", "decls", "parse_attr_list", "parse_decl", "struct", "members", "invariants"}
DullNames == {
  "expect", "match", "parse_precedence", "operators", "node", "suppress", "release", "restore",
  "imports", "attr_arg", "fn", "params", "param", "more_params", "ret", "type",
  "parse_block", "stmts", "parse_stmt", "else", "arms", "arm_body", "init", "parse_type",
  "parse_primary", "parse_call_or_postfix", "fields", "more_fields", "more_args"}
Wanted == {"ident", "int", "in", "=", "=>", ":", ";", ",", "_", "(", ")", "[", "]", "{", "}"}
DullArgs == {""} \cup Wanted \cup Nat \cup Nat \X Nat
Dull == DullNames \X DullArgs

\* Tokens that only those calls read.
Marks == Keywords \cup {"@"}

\* A step that has nothing to do with attributes and declarations.
Quiet ==
  /\ toks' = toks /\ pos' \in pos .. Len(toks) /\ attrs' = attrs /\ decls' = decls
  /\ \E w \in Seq(Dull) : todo' = w \o Tail(todo)
  /\ \A q \in pos .. pos' - 1 : toks[q] \notin Marks

\* Which tasks are dull.
LEMMA DullIs ==
  /\ \A f \in DullNames : Call(f) \in Dull
  /\ \A k \in Wanted : Expect(k) \in Dull /\ Optional(k) \in Dull
  /\ parse_expr \in Dull
  /\ \A n \in Nat : Precedence(n) \in Dull /\ <<"restore", n>> \in Dull
  /\ \A n, q \in Nat : <<"operators", <<n, q>>>> \in Dull /\ <<"node", <<n, q>>>> \in Dull
  /\ Call("suppress") \in Dull /\ <<"release", 1>> \in Dull
<1>1. \A f \in DullNames : \A a \in DullArgs : <<f, a>> \in Dull
  BY DEF Dull
<1>2. \A a : a = "" \/ a \in Wanted \/ a \in Nat \/ a \in Nat \X Nat => a \in DullArgs
  BY Zenon DEF DullArgs
<1>3. /\ "expect" \in DullNames /\ "match" \in DullNames /\ "parse_precedence" \in DullNames
      /\ "restore" \in DullNames /\ "operators" \in DullNames /\ "node" \in DullNames
      /\ "suppress" \in DullNames /\ "release" \in DullNames
  BY DEF DullNames
<1>4. \A n \in Nat : Precedence(n) \in Dull /\ <<"restore", n>> \in Dull
  BY <1>1, <1>2, <1>3 DEF Precedence
<1>5. \A n, q \in Nat : <<"operators", <<n, q>>>> \in Dull /\ <<"node", <<n, q>>>> \in Dull
  <2> TAKE n, q \in Nat
  <2>1. <<n, q>> \in DullArgs
    BY <1>2
  <2> QED BY <1>1, <1>3, <2>1
<1>6. parse_expr \in Dull
  <2>1. ASSIGN \in Nat
    BY PrecIs DEF ASSIGN
  <2> QED BY <1>4, <2>1 DEF parse_expr
<1>7. Call("suppress") \in Dull /\ <<"release", 1>> \in Dull
  BY <1>1, <1>2, <1>3 DEF Call
<1>8. \A k \in Wanted : Expect(k) \in Dull /\ Optional(k) \in Dull
  BY <1>1, <1>2, <1>3 DEF Expect, Optional
<1>9. \A f \in DullNames : Call(f) \in Dull
  BY <1>1, <1>2 DEF Call
<1> QED BY <1>4, <1>5, <1>6, <1>7, <1>8, <1>9

\* None of them is one of the special calls.
LEMMA DullNot == \A t \in Dull : t[1] \notin Special
<1>1. \A t \in Dull : t[1] \in DullNames
  BY DEF Dull
<1>2. \A f \in DullNames : f \notin Special
  BY DEF DullNames, Special
<1> QED BY <1>1, <1>2

\* Lists of them.
LEMMA DullLists ==
  /\ <<>> \in Seq(Dull)
  /\ \A a \in Dull : <<a>> \in Seq(Dull)
  /\ \A a, b \in Dull : <<a, b>> \in Seq(Dull)
  /\ \A a, b, c \in Dull : <<a, b, c>> \in Seq(Dull)
  /\ \A a, b, c, d \in Dull : <<a, b, c, d>> \in Seq(Dull)
  /\ \A a, b, c, d, e \in Dull : <<a, b, c, d, e>> \in Seq(Dull)
OBVIOUS

\* One after the other.
LEMMA DullConcat == \A u, w \in Seq(Dull) : u \o w \in Seq(Dull)
BY ConcatProperties

\* The tasks of a condition.
LEMMA DullCondition == Condition \in Seq(Dull)
BY DullIs, DullLists DEF Condition

\* The next n tokens are no keyword and no "@".
Skips(n) == n \in 0 .. 2 /\ pos + n \in 1 .. Len(toks) /\ \A q \in pos .. pos + n - 1 : toks[q] \notin Marks

\* No token.
LEMMA SkipNone == Core => Skips(0)
<1> SUFFICES ASSUME Core PROVE Skips(0)
  OBVIOUS
<1>1. pos \in 1 .. Len(toks) /\ pos \in Nat
  BY Near DEF Core
<1>2. pos + 0 = pos /\ \A q \in pos .. pos + 0 - 1 : FALSE
  BY <1>1
<1> QED BY <1>1, <1>2 DEF Skips

\* One token.
LEMMA SkipOne == Core /\ Here \notin Marks \cup {"eof"} => Skips(1)
<1> SUFFICES ASSUME Core, Here \notin Marks \cup {"eof"} PROVE Skips(1)
  OBVIOUS
<1>1. pos + 1 \in 1 .. Len(toks) /\ \A q \in pos .. pos + 1 - 1 : q = pos
  BY OneMore
<1> QED BY <1>1 DEF Skips, Here

\* Two tokens.
LEMMA SkipTwo == Core /\ Here \notin Marks \cup {"eof"} /\ Ahead(1) \notin Marks \cup {"eof"} => Skips(2)
<1> SUFFICES ASSUME Core, Here \notin Marks \cup {"eof"}, Ahead(1) \notin Marks \cup {"eof"} PROVE Skips(2)
  OBVIOUS
<1>1. pos + 2 \in 1 .. Len(toks) /\ \A q \in pos .. pos + 2 - 1 : q = pos \/ q = pos + 1
  BY TwoMore
<1> QED BY <1>1 DEF Skips, Here, Ahead

\* A task that is done with such tokens and replaced by dull ones is a quiet
\* step, when the tree is left alone.
LEMMA QuietMove ==
  ASSUME Core, NEW f, NEW n, NEW w \in Seq(Dull), Do(f, n, w), Skips(n), attrs' = attrs, decls' = decls
  PROVE  Quiet
<1>1. todo' = w \o Tail(todo) /\ toks' = toks /\ pos' = IF Here = "eof" THEN pos ELSE pos + n
  BY DEF Do
<1>2. pos' \in pos .. Len(toks) /\ pos' - 1 = pos + n - 1
  <2>1. n \in 0 .. 2 /\ pos + n \in 1 .. Len(toks) /\ pos \in Nat /\ Len(toks) \in Nat
    BY TextAt DEF Skips
  <2>2. Here = "eof" => n = 0
    BY <2>1, NotLast
  <2>3. pos' = pos + n
    BY <1>1, <2>1, <2>2
  <2> QED BY <2>1, <2>3
<1>3. \A q \in pos .. pos' - 1 : toks[q] \notin Marks
  BY <1>2 DEF Skips
<1> QED BY <1>1, <1>2, <1>3 DEF Quiet

\* A type.
LEMMA Quiet_parse_type == Core /\ parse_type /\ ~had_error' => Quiet
<1> SUFFICES ASSUME Core, parse_type, ~had_error' PROVE Quiet
  OBVIOUS
<1>1. ASSUME Here = "*", Do("parse_type", 1, <<Call("parse_type")>>), Plain PROVE Quiet
  <2>1. Skips(1)
    BY <1>1, SkipOne DEF Marks, Keywords
  <2>2. <<Call("parse_type")>> \in Seq(Dull)
    BY DullIs, DullLists DEF DullNames, Wanted
  <2> QED BY <1>1, <2>1, <2>2, QuietMove DEF Plain, tree
<1>2. ASSUME Here = "[", Ahead(1) = "]", Do("parse_type", 2, <<Call("parse_type")>>), Plain PROVE Quiet
  <2>1. Skips(2)
    BY <1>2, SkipTwo DEF Marks, Keywords
  <2>2. <<Call("parse_type")>> \in Seq(Dull)
    BY DullIs, DullLists DEF DullNames, Wanted
  <2> QED BY <1>2, <2>1, <2>2, QuietMove DEF Plain, tree
<1>3. ASSUME Here = "[",
             Do("parse_type", 1, <<Expect("int"), Expect("]"), Call("parse_type")>>),
             Plain
      PROVE  Quiet
  <2>1. Skips(1)
    BY <1>3, SkipOne DEF Marks, Keywords
  <2>2. <<Expect("int"), Expect("]"), Call("parse_type")>> \in Seq(Dull)
    BY DullIs, DullLists DEF DullNames, Wanted
  <2> QED BY <1>3, <2>1, <2>2, QuietMove DEF Plain, tree
<1>4. ASSUME Here \in Idents, Do("parse_type", 1, <<>>), Plain PROVE Quiet
  <2>1. Skips(1)
    BY <1>4, SkipOne DEF Marks, Keywords, Idents
  <2>2. <<>> \in Seq(Dull)
    BY DullLists
  <2> QED BY <1>4, <2>1, <2>2, QuietMove DEF Plain, tree
<1> QED BY <1>1, <1>2, <1>3, <1>4 DEF parse_type, Error

\* An operand.
LEMMA Quiet_Operand == Core /\ Operand /\ ~had_error' => Quiet
<1> SUFFICES ASSUME Core, Operand, ~had_error' PROVE Quiet
  OBVIOUS
<1>1. ASSUME Here \in Literals, Do("parse_primary", 1, <<>>), Plain PROVE Quiet
  <2>1. Skips(1)
    BY <1>1, SkipOne DEF Marks, Keywords, Literals
  <2>2. <<>> \in Seq(Dull)
    BY DullLists
  <2> QED BY <1>1, <2>1, <2>2, QuietMove DEF Plain, tree
<1>2. ASSUME IsOld, Do("parse_primary", 2, <<parse_expr, Expect(")")>>), Plain PROVE Quiet
  <2>1. Skips(2)
    BY <1>2, SkipTwo DEF Marks, Keywords, IsOld, Idents
  <2>2. <<parse_expr, Expect(")")>> \in Seq(Dull)
    BY DullIs, DullLists DEF DullNames, Wanted
  <2> QED BY <1>2, <2>1, <2>2, QuietMove DEF Plain, tree
<1>3. ASSUME StructLit, Do("parse_primary", 2, <<Call("fields"), Expect("}")>>), Plain PROVE Quiet
  <2>1. Skips(2)
    BY <1>3, SkipTwo DEF Marks, Keywords, StructLit, Idents
  <2>2. <<Call("fields"), Expect("}")>> \in Seq(Dull)
    BY DullIs, DullLists DEF DullNames, Wanted
  <2> QED BY <1>3, <2>1, <2>2, QuietMove DEF Plain, tree
<1>4. ASSUME Here \in Idents, Do("parse_primary", 1, <<>>), Plain PROVE Quiet
  <2>1. Skips(1)
    BY <1>4, SkipOne DEF Marks, Keywords, Idents
  <2>2. <<>> \in Seq(Dull)
    BY DullLists
  <2> QED BY <1>4, <2>1, <2>2, QuietMove DEF Plain, tree
<1>5. ASSUME Here \in Unary,
             Do("parse_primary", 1, <<Precedence(UNARY), <<"node", <<pos, pos>>>>>>),
             Plain
      PROVE  Quiet
  <2>1. Skips(1)
    BY <1>5, SkipOne DEF Marks, Keywords, Unary
  <2>2. <<Precedence(UNARY), <<"node", <<pos, pos>>>>>> \in Seq(Dull)
    BY DullIs, DullLists, Near DEF DullNames, Wanted, UNARY
  <2> QED BY <1>5, <2>1, <2>2, QuietMove DEF Plain, tree
<1> QED BY <1>1, <1>2, <1>3, <1>4, <1>5 DEF Operand

\* The fields of a literal.
LEMMA Quiet_fields == Core /\ fields /\ ~had_error' => Quiet
<1> SUFFICES ASSUME Core, fields, ~had_error' PROVE Quiet
  OBVIOUS
<1>1. ASSUME Do("fields", 0, <<>>), Plain PROVE Quiet
  <2>1. Skips(0)
    BY SkipNone
  <2>2. <<>> \in Seq(Dull)
    BY DullLists
  <2> QED BY <1>1, <2>1, <2>2, QuietMove DEF Plain, tree
<1>2. ASSUME Do("fields", 0, <<Expect("ident"), Expect("="), parse_expr, Call("more_fields")>>),
             Plain
      PROVE  Quiet
  <2>1. Skips(0)
    BY SkipNone
  <2>2. <<Expect("ident"), Expect("="), parse_expr, Call("more_fields")>> \in Seq(Dull)
    BY DullIs, DullLists DEF DullNames, Wanted
  <2> QED BY <1>2, <2>1, <2>2, QuietMove DEF Plain, tree
<1>3. ASSUME Here = ",", Do("more_fields", 1, <<Call("fields")>>), Plain PROVE Quiet
  <2>1. Skips(1)
    BY <1>3, SkipOne DEF Marks, Keywords
  <2>2. <<Call("fields")>> \in Seq(Dull)
    BY DullIs, DullLists DEF DullNames, Wanted
  <2> QED BY <1>3, <2>1, <2>2, QuietMove DEF Plain, tree
<1>4. ASSUME Do("more_fields", 0, <<>>), Plain PROVE Quiet
  <2>1. Skips(0)
    BY SkipNone
  <2>2. <<>> \in Seq(Dull)
    BY DullLists
  <2> QED BY <1>4, <2>1, <2>2, QuietMove DEF Plain, tree
<1> QED BY <1>1, <1>2, <1>3, <1>4 DEF fields

\* What follows an operand.
LEMMA Quiet_parse_call_or_postfix == Core /\ parse_call_or_postfix /\ ~had_error' => Quiet
<1> SUFFICES ASSUME Core, parse_call_or_postfix, ~had_error' PROVE Quiet
  OBVIOUS
<1>1. ASSUME Here = "(",
             Ahead(1) = ")",
             Do("parse_call_or_postfix", 2, <<Call("parse_call_or_postfix")>>),
             Plain
      PROVE  Quiet
  <2>1. Skips(2)
    BY <1>1, SkipTwo DEF Marks, Keywords
  <2>2. <<Call("parse_call_or_postfix")>> \in Seq(Dull)
    BY DullIs, DullLists DEF DullNames, Wanted
  <2> QED BY <1>1, <2>1, <2>2, QuietMove DEF Plain, tree
<1>2. ASSUME Here = "(",
             Do("parse_call_or_postfix", 1, <<parse_expr, Call("more_args"), Expect(")"), Call("parse_call_or_postfix")>>),
             Plain
      PROVE  Quiet
  <2>1. Skips(1)
    BY <1>2, SkipOne DEF Marks, Keywords
  <2>2. <<parse_expr, Call("more_args"), Expect(")"), Call("parse_call_or_postfix")>> \in Seq(Dull)
    BY DullIs, DullLists DEF DullNames, Wanted
  <2> QED BY <1>2, <2>1, <2>2, QuietMove DEF Plain, tree
<1>3. ASSUME Here = "[",
             Do("parse_call_or_postfix", 1, <<parse_expr, Expect("]"), Call("parse_call_or_postfix")>>),
             Plain
      PROVE  Quiet
  <2>1. Skips(1)
    BY <1>3, SkipOne DEF Marks, Keywords
  <2>2. <<parse_expr, Expect("]"), Call("parse_call_or_postfix")>> \in Seq(Dull)
    BY DullIs, DullLists DEF DullNames, Wanted
  <2> QED BY <1>3, <2>1, <2>2, QuietMove DEF Plain, tree
<1>4. ASSUME Here = ".",
             Do("parse_call_or_postfix", 1, <<Expect("ident"), Call("parse_call_or_postfix")>>),
             Plain
      PROVE  Quiet
  <2>1. Skips(1)
    BY <1>4, SkipOne DEF Marks, Keywords
  <2>2. <<Expect("ident"), Call("parse_call_or_postfix")>> \in Seq(Dull)
    BY DullIs, DullLists DEF DullNames, Wanted
  <2> QED BY <1>4, <2>1, <2>2, QuietMove DEF Plain, tree
<1>5. ASSUME Do("parse_call_or_postfix", 0, <<>>), Plain PROVE Quiet
  <2>1. Skips(0)
    BY SkipNone
  <2>2. <<>> \in Seq(Dull)
    BY DullLists
  <2> QED BY <1>5, <2>1, <2>2, QuietMove DEF Plain, tree
<1>6. ASSUME Here = ",", Do("more_args", 1, <<parse_expr, Call("more_args")>>), Plain PROVE Quiet
  <2>1. Skips(1)
    BY <1>6, SkipOne DEF Marks, Keywords
  <2>2. <<parse_expr, Call("more_args")>> \in Seq(Dull)
    BY DullIs, DullLists DEF DullNames, Wanted
  <2> QED BY <1>6, <2>1, <2>2, QuietMove DEF Plain, tree
<1>7. ASSUME Do("more_args", 0, <<>>), Plain PROVE Quiet
  <2>1. Skips(0)
    BY SkipNone
  <2>2. <<>> \in Seq(Dull)
    BY DullLists
  <2> QED BY <1>7, <2>1, <2>2, QuietMove DEF Plain, tree
<1> QED BY <1>1, <1>2, <1>3, <1>4, <1>5, <1>6, <1>7 DEF parse_call_or_postfix

\* Operands and operators.
LEMMA Quiet_parse_precedence == Core /\ parse_precedence /\ ~had_error' => Quiet
<1> SUFFICES ASSUME Core, parse_precedence, ~had_error' PROVE Quiet
  OBVIOUS
<1>1. ASSUME Do("parse_precedence", 0, <<Call("parse_primary"), Call("parse_call_or_postfix"), <<"operators", <<Arg, pos>>>>>>),
             Plain
      PROVE  Quiet
  <2>1. Skips(0)
    BY SkipNone
  <2>2. <<Call("parse_primary"), Call("parse_call_or_postfix"), <<"operators", <<Arg, pos>>>>>> \in Seq(Dull)
    <3>1. Arg \in Levels
      BY <1>1, HeadArg DEF Do
    <3>2. Arg \in Nat /\ pos \in Nat
      BY <3>1, Near DEF Levels
    <3> QED BY <3>2, DullIs, DullLists DEF DullNames
  <2> QED BY <1>1, <2>1, <2>2, QuietMove DEF Plain, tree
<1> QED BY <1>1 DEF parse_precedence

\* Statements with blocks.
LEMMA Quiet_Compound == Core /\ Compound /\ ~had_error' => Quiet
<1> SUFFICES ASSUME Core, Compound, ~had_error' PROVE Quiet
  OBVIOUS
<1>1. ASSUME Here = "if",
             Do("parse_stmt", 1, Condition \o <<Call("parse_block"), Call("else")>>),
             Plain
      PROVE  Quiet
  <2>1. Skips(1)
    BY <1>1, SkipOne DEF Marks, Keywords
  <2>2. Condition \o <<Call("parse_block"), Call("else")>> \in Seq(Dull)
    <3>1. Condition \in Seq(Dull) /\ <<Call("parse_block"), Call("else")>> \in Seq(Dull)
      BY DullIs, DullLists, DullCondition DEF DullNames, Wanted
    <3> QED BY <3>1, DullConcat
  <2> QED BY <1>1, <2>1, <2>2, QuietMove DEF Plain, tree
<1>2. ASSUME Here = "while",
             Do("parse_stmt", 1, Condition \o <<Call("parse_block")>>),
             Plain
      PROVE  Quiet
  <2>1. Skips(1)
    BY <1>2, SkipOne DEF Marks, Keywords
  <2>2. Condition \o <<Call("parse_block")>> \in Seq(Dull)
    <3>1. Condition \in Seq(Dull) /\ <<Call("parse_block")>> \in Seq(Dull)
      BY DullIs, DullLists, DullCondition DEF DullNames, Wanted
    <3> QED BY <3>1, DullConcat
  <2> QED BY <1>2, <2>1, <2>2, QuietMove DEF Plain, tree
<1>3. ASSUME Here = "for",
             Do("parse_stmt", 1, <<Expect("ident"), Expect("in")>> \o Condition \o <<Call("parse_block")>>),
             Plain
      PROVE  Quiet
  <2>1. Skips(1)
    BY <1>3, SkipOne DEF Marks, Keywords
  <2>2. <<Expect("ident"), Expect("in")>> \o Condition \o <<Call("parse_block")>> \in Seq(Dull)
    <3>1. <<Expect("ident"), Expect("in")>> \in Seq(Dull) /\ Condition \in Seq(Dull) /\ <<Call("parse_block")>> \in Seq(Dull)
      BY DullIs, DullLists, DullCondition DEF DullNames, Wanted
    <3> QED BY <3>1, DullConcat
  <2> QED BY <1>3, <2>1, <2>2, QuietMove DEF Plain, tree
<1>4. ASSUME Here = "match",
             Do("parse_stmt", 1, Condition \o <<Expect("{"), Call("arms"), Expect("}")>>),
             Plain
      PROVE  Quiet
  <2>1. Skips(1)
    BY <1>4, SkipOne DEF Marks, Keywords
  <2>2. Condition \o <<Expect("{"), Call("arms"), Expect("}")>> \in Seq(Dull)
    <3>1. Condition \in Seq(Dull) /\ <<Expect("{"), Call("arms"), Expect("}")>> \in Seq(Dull)
      BY DullIs, DullLists, DullCondition DEF DullNames, Wanted
    <3> QED BY <3>1, DullConcat
  <2> QED BY <1>4, <2>1, <2>2, QuietMove DEF Plain, tree
<1>5. ASSUME Here = "else",
             Do("else", 1, <<IF Ahead(1) = "if" THEN Call("parse_stmt") ELSE Call("parse_block")>>),
             Plain
      PROVE  Quiet
  <2>1. Skips(1)
    BY <1>5, SkipOne DEF Marks, Keywords
  <2>2. <<IF Ahead(1) = "if" THEN Call("parse_stmt") ELSE Call("parse_block")>> \in Seq(Dull)
    BY DullIs, DullLists DEF DullNames, Wanted
  <2> QED BY <1>5, <2>1, <2>2, QuietMove DEF Plain, tree
<1>6. ASSUME Do("else", 0, <<>>), Plain PROVE Quiet
  <2>1. Skips(0)
    BY SkipNone
  <2>2. <<>> \in Seq(Dull)
    BY DullLists
  <2> QED BY <1>6, <2>1, <2>2, QuietMove DEF Plain, tree
<1>7. ASSUME Do("arms", 0, <<>>), Plain PROVE Quiet
  <2>1. Skips(0)
    BY SkipNone
  <2>2. <<>> \in Seq(Dull)
    BY DullLists
  <2> QED BY <1>7, <2>1, <2>2, QuietMove DEF Plain, tree
<1>8. ASSUME Do("arms", 0, <<IF Here = "_" THEN Optional("_") ELSE parse_expr, Expect("=>"), Call("arm_body"), Optional(","), Call("arms")>>),
             Plain
      PROVE  Quiet
  <2>1. Skips(0)
    BY SkipNone
  <2>2. <<IF Here = "_" THEN Optional("_") ELSE parse_expr, Expect("=>"), Call("arm_body"), Optional(","), Call("arms")>> \in Seq(Dull)
    BY DullIs, DullLists DEF DullNames, Wanted
  <2> QED BY <1>8, <2>1, <2>2, QuietMove DEF Plain, tree
<1>9. ASSUME Do("arm_body", 0, <<IF Here = "{" THEN Call("parse_block") ELSE Call("parse_stmt")>>),
             Plain
      PROVE  Quiet
  <2>1. Skips(0)
    BY SkipNone
  <2>2. <<IF Here = "{" THEN Call("parse_block") ELSE Call("parse_stmt")>> \in Seq(Dull)
    BY DullIs, DullLists DEF DullNames, Wanted
  <2> QED BY <1>9, <2>1, <2>2, QuietMove DEF Plain, tree
<1> QED BY <1>1, <1>2, <1>3, <1>4, <1>5, <1>6, <1>7, <1>8, <1>9 DEF Compound

\* Statements without.
LEMMA Quiet_Simple == Core /\ Simple /\ ~had_error' => Quiet
<1> SUFFICES ASSUME Core, Simple, ~had_error' PROVE Quiet
  OBVIOUS
<1>1. ASSUME Here = "return",
             Do("parse_stmt", 1, (IF Ahead(1) \in {";", "eof"} THEN <<>> ELSE <<parse_expr>>) \o <<Expect(";")>>),
             Plain
      PROVE  Quiet
  <2>1. Skips(1)
    BY <1>1, SkipOne DEF Marks, Keywords
  <2>2. (IF Ahead(1) \in {";", "eof"} THEN <<>> ELSE <<parse_expr>>) \o <<Expect(";")>> \in Seq(Dull)
    <3>1. (IF Ahead(1) \in {";", "eof"} THEN <<>> ELSE <<parse_expr>>) \in Seq(Dull) /\ <<Expect(";")>> \in Seq(Dull)
      BY DullIs, DullLists, DullCondition DEF DullNames, Wanted
    <3> QED BY <3>1, DullConcat
  <2> QED BY <1>1, <2>1, <2>2, QuietMove DEF Plain, tree
<1>2. ASSUME Here = "assert",
             Do("parse_stmt", 1, <<Expect("("), parse_expr, Expect(")"), Expect(";")>>),
             Plain
      PROVE  Quiet
  <2>1. Skips(1)
    BY <1>2, SkipOne DEF Marks, Keywords
  <2>2. <<Expect("("), parse_expr, Expect(")"), Expect(";")>> \in Seq(Dull)
    BY DullIs, DullLists DEF DullNames, Wanted
  <2> QED BY <1>2, <2>1, <2>2, QuietMove DEF Plain, tree
<1>3. ASSUME Here = "break", Do("parse_stmt", 1, <<Expect(";")>>), Plain PROVE Quiet
  <2>1. Skips(1)
    BY <1>3, SkipOne DEF Marks, Keywords
  <2>2. <<Expect(";")>> \in Seq(Dull)
    BY DullIs, DullLists DEF DullNames, Wanted
  <2> QED BY <1>3, <2>1, <2>2, QuietMove DEF Plain, tree
<1>4. ASSUME Do("parse_stmt", 0, <<Call("parse_block")>>), Plain PROVE Quiet
  <2>1. Skips(0)
    BY SkipNone
  <2>2. <<Call("parse_block")>> \in Seq(Dull)
    BY DullIs, DullLists DEF DullNames, Wanted
  <2> QED BY <1>4, <2>1, <2>2, QuietMove DEF Plain, tree
<1>5. ASSUME Do("parse_stmt", 0, <<parse_expr, Expect(";")>>), Plain PROVE Quiet
  <2>1. Skips(0)
    BY SkipNone
  <2>2. <<parse_expr, Expect(";")>> \in Seq(Dull)
    BY DullIs, DullLists DEF DullNames, Wanted
  <2> QED BY <1>5, <2>1, <2>2, QuietMove DEF Plain, tree
<1> QED BY <1>1, <1>2, <1>3, <1>4, <1>5 DEF Simple

\* Declarations of variables.
LEMMA Quiet_parse_let == Core /\ parse_let /\ ~had_error' => Quiet
<1> SUFFICES ASSUME Core, parse_let, ~had_error' PROVE Quiet
  OBVIOUS
<1>1. ASSUME IsLet,
             Do("parse_stmt", 2, (IF Ahead(1) = ":=" THEN <<parse_expr>> ELSE <<Call("parse_type"), Call("init")>>) \o <<Expect(";")>>),
             Plain
      PROVE  Quiet
  <2>1. Skips(2)
    BY <1>1, SkipTwo DEF Marks, Keywords, IsLet, Idents
  <2>2. (IF Ahead(1) = ":=" THEN <<parse_expr>> ELSE <<Call("parse_type"), Call("init")>>) \o <<Expect(";")>> \in Seq(Dull)
    <3>1. (IF Ahead(1) = ":=" THEN <<parse_expr>> ELSE <<Call("parse_type"), Call("init")>>) \in Seq(Dull) /\ <<Expect(";")>> \in Seq(Dull)
      BY DullIs, DullLists, DullCondition DEF DullNames, Wanted
    <3> QED BY <3>1, DullConcat
  <2> QED BY <1>1, <2>1, <2>2, QuietMove DEF Plain, tree
<1>2. ASSUME Here = "=", Do("init", 1, <<parse_expr>>), Plain PROVE Quiet
  <2>1. Skips(1)
    BY <1>2, SkipOne DEF Marks, Keywords
  <2>2. <<parse_expr>> \in Seq(Dull)
    BY DullIs, DullLists DEF DullNames, Wanted
  <2> QED BY <1>2, <2>1, <2>2, QuietMove DEF Plain, tree
<1>3. ASSUME Do("init", 0, <<>>), Plain PROVE Quiet
  <2>1. Skips(0)
    BY SkipNone
  <2>2. <<>> \in Seq(Dull)
    BY DullLists
  <2> QED BY <1>3, <2>1, <2>2, QuietMove DEF Plain, tree
<1> QED BY <1>1, <1>2, <1>3 DEF parse_let

\* Blocks.
LEMMA Quiet_parse_block == Core /\ parse_block /\ ~had_error' => Quiet
<1> SUFFICES ASSUME Core, parse_block, ~had_error' PROVE Quiet
  OBVIOUS
<1>1. ASSUME Do("parse_block", 0, <<Expect("{"), Call("stmts"), Expect("}")>>), Plain PROVE Quiet
  <2>1. Skips(0)
    BY SkipNone
  <2>2. <<Expect("{"), Call("stmts"), Expect("}")>> \in Seq(Dull)
    BY DullIs, DullLists DEF DullNames, Wanted
  <2> QED BY <1>1, <2>1, <2>2, QuietMove DEF Plain, tree
<1>2. ASSUME Do("stmts", 0, <<>>), Plain PROVE Quiet
  <2>1. Skips(0)
    BY SkipNone
  <2>2. <<>> \in Seq(Dull)
    BY DullLists
  <2> QED BY <1>2, <2>1, <2>2, QuietMove DEF Plain, tree
<1>3. ASSUME Do("stmts", 0, <<Call("parse_stmt"), Call("stmts")>>), Plain PROVE Quiet
  <2>1. Skips(0)
    BY SkipNone
  <2>2. <<Call("parse_stmt"), Call("stmts")>> \in Seq(Dull)
    BY DullIs, DullLists DEF DullNames, Wanted
  <2> QED BY <1>3, <2>1, <2>2, QuietMove DEF Plain, tree
<1> QED BY <1>1, <1>2, <1>3 DEF parse_block

\* Functions.
LEMMA Quiet_parse_fn == Core /\ parse_fn /\ ~had_error' => Quiet
<1> SUFFICES ASSUME Core, parse_fn, ~had_error' PROVE Quiet
  OBVIOUS
<1>1. ASSUME Do("fn", 0, <<Expect("("), Call("params"), Expect(")"), Call("ret"), Call("parse_block")>>),
             Plain
      PROVE  Quiet
  <2>1. Skips(0)
    BY SkipNone
  <2>2. <<Expect("("), Call("params"), Expect(")"), Call("ret"), Call("parse_block")>> \in Seq(Dull)
    BY DullIs, DullLists DEF DullNames, Wanted
  <2> QED BY <1>1, <2>1, <2>2, QuietMove DEF Plain, tree
<1>2. ASSUME Do("params", 0, <<>>), Plain PROVE Quiet
  <2>1. Skips(0)
    BY SkipNone
  <2>2. <<>> \in Seq(Dull)
    BY DullLists
  <2> QED BY <1>2, <2>1, <2>2, QuietMove DEF Plain, tree
<1>3. ASSUME Do("params", 0, <<Call("param"), Call("more_params")>>), Plain PROVE Quiet
  <2>1. Skips(0)
    BY SkipNone
  <2>2. <<Call("param"), Call("more_params")>> \in Seq(Dull)
    BY DullIs, DullLists DEF DullNames, Wanted
  <2> QED BY <1>3, <2>1, <2>2, QuietMove DEF Plain, tree
<1>4. ASSUME Do("param", 0, <<Expect("ident"), Expect(":"), Call("parse_type")>>), Plain PROVE Quiet
  <2>1. Skips(0)
    BY SkipNone
  <2>2. <<Expect("ident"), Expect(":"), Call("parse_type")>> \in Seq(Dull)
    BY DullIs, DullLists DEF DullNames, Wanted
  <2> QED BY <1>4, <2>1, <2>2, QuietMove DEF Plain, tree
<1>5. ASSUME Here = ",", Do("more_params", 1, <<Call("param"), Call("more_params")>>), Plain PROVE Quiet
  <2>1. Skips(1)
    BY <1>5, SkipOne DEF Marks, Keywords
  <2>2. <<Call("param"), Call("more_params")>> \in Seq(Dull)
    BY DullIs, DullLists DEF DullNames, Wanted
  <2> QED BY <1>5, <2>1, <2>2, QuietMove DEF Plain, tree
<1>6. ASSUME Do("more_params", 0, <<>>), Plain PROVE Quiet
  <2>1. Skips(0)
    BY SkipNone
  <2>2. <<>> \in Seq(Dull)
    BY DullLists
  <2> QED BY <1>6, <2>1, <2>2, QuietMove DEF Plain, tree
<1>7. ASSUME Here = "->", Do("ret", 1, <<Call("parse_type")>>), Plain PROVE Quiet
  <2>1. Skips(1)
    BY <1>7, SkipOne DEF Marks, Keywords
  <2>2. <<Call("parse_type")>> \in Seq(Dull)
    BY DullIs, DullLists DEF DullNames, Wanted
  <2> QED BY <1>7, <2>1, <2>2, QuietMove DEF Plain, tree
<1>8. ASSUME Do("ret", 0, <<>>), Plain PROVE Quiet
  <2>1. Skips(0)
    BY SkipNone
  <2>2. <<>> \in Seq(Dull)
    BY DullLists
  <2> QED BY <1>8, <2>1, <2>2, QuietMove DEF Plain, tree
<1> QED BY <1>1, <1>2, <1>3, <1>4, <1>5, <1>6, <1>7, <1>8 DEF parse_fn

\* Aliases.
LEMMA Quiet_parse_type_alias == Core /\ parse_type_alias /\ ~had_error' => Quiet
<1> SUFFICES ASSUME Core, parse_type_alias, ~had_error' PROVE Quiet
  OBVIOUS
<1>1. ASSUME Do("type", 0, <<Expect("="), Call("parse_type")>>), Plain PROVE Quiet
  <2>1. Skips(0)
    BY SkipNone
  <2>2. <<Expect("="), Call("parse_type")>> \in Seq(Dull)
    BY DullIs, DullLists DEF DullNames, Wanted
  <2> QED BY <1>1, <2>1, <2>2, QuietMove DEF Plain, tree
<1> QED BY <1>1 DEF parse_type_alias

\* A token that is expected and there, and one that may be there.
LEMMA Quiet_expect == Core /\ (expect \/ match) /\ ~had_error' => Quiet
<1> SUFFICES ASSUME Core, expect \/ match, ~had_error' PROVE Quiet
  OBVIOUS
<1>1. ASSUME IsA(Here, Arg), Arg \in FlatKinds \cup Brackets PROVE Skips(1)
  <2>1. Here \in Idents \cup Wanted
    BY <1>1, BracketsAre DEF IsA, FlatKinds, Brackets, Wanted
  <2> QED BY <2>1, SkipOne DEF Idents, Wanted, Marks, Keywords
<1>2. ASSUME NEW f, f \in {"expect", "match"}, Doing(f) PROVE Arg \in FlatKinds \cup Brackets
  BY <1>2, HeadArg
<1>3. ASSUME Do("expect", 1, <<>>), IsA(Here, Arg), Plain PROVE Quiet
  <2>1. Skips(1)
    BY <1>1, <1>2, <1>3 DEF Do
  <2> QED BY <1>3, <2>1, DullLists, QuietMove DEF Plain, tree
<1>4. ASSUME match PROVE Quiet
  <2>1. Skips(IF IsA(Here, Arg) THEN 1 ELSE 0)
    BY <1>1, <1>2, <1>4, SkipNone DEF match, Do
  <2> QED BY <1>4, <2>1, DullLists, QuietMove DEF match, Plain, tree
<1> QED BY <1>3, <1>4 DEF expect, Error

\* Conditions and parentheses.
LEMMA Quiet_condition == Core /\ (suppress \/ release \/ Group) => Quiet
<1> SUFFICES ASSUME Core, suppress \/ release \/ Group PROVE Quiet
  OBVIOUS
<1>1. CASE suppress
  BY <1>1, SkipNone, DullLists, QuietMove DEF suppress, tree
<1>2. CASE release
  BY <1>2, SkipNone, DullLists, QuietMove DEF release, tree
<1>3. CASE Group
  <2>1. Skips(1)
    BY <1>3, SkipOne DEF Group, Marks, Keywords
  <2>2. <<parse_expr, <<"restore", no_struct_lit>>, Expect(")")>> \in Seq(Dull)
    <3>1. no_struct_lit \in Nat
      BY DEF Core
    <3> QED BY <3>1, DullIs, DullLists DEF Wanted
  <2> QED BY <1>3, <2>1, <2>2, QuietMove DEF Group, tree
<1> QED BY <1>1, <1>2, <1>3

\* An operator, and the end of its right side.
LEMMA Quiet_operators == Core /\ (operators \/ node) => Quiet
<1> SUFFICES ASSUME Core, operators \/ node PROVE Quiet
  OBVIOUS
<1>1. CASE node
  BY <1>1, SkipNone, DullLists, QuietMove DEF node
<1>2. ASSUME operators, Binds,
             Do("operators", 1,
                <<Precedence(RightMin(Here)), <<"node", <<Arg[2], pos>>>>>>
                \o (IF Here \in {"=", ".."} THEN <<>> ELSE <<Call("parse_call_or_postfix")>>)
                \o <<<<"operators", Arg>>>>)
      PROVE  Quiet
  <2>1. Skips(1)
    BY <1>2, SkipOne, PrecIs DEF Binds, Marks, Keywords
  <2>2. PICK a \in Levels, q \in 1 .. pos : Arg = <<a, q>>
    BY <1>2, HeadArg DEF Do
  <2>3. a \in Nat /\ q \in Nat /\ pos \in Nat /\ Arg[2] = q
    BY <2>2, Near DEF Levels
  <2>4. RightMin(Here) \in Nat
    <3>1. Here \in DOMAIN Prec
      BY <1>2 DEF Binds
    <3>2. ASSIGN \in Nat /\ Prec[Here] \in Nat
      BY <3>1, PrecIs DEF ASSIGN
    <3> QED BY <3>2 DEF RightMin
  <2>5. <<Precedence(RightMin(Here)), <<"node", <<Arg[2], pos>>>>>> \in Seq(Dull)
    BY <2>3, <2>4, DullIs, DullLists
  <2>6. (IF Here \in {"=", ".."} THEN <<>> ELSE <<Call("parse_call_or_postfix")>>) \in Seq(Dull)
    BY DullIs, DullLists DEF DullNames
  <2>7. <<<<"operators", Arg>>>> \in Seq(Dull)
    BY <2>2, <2>3, DullIs, DullLists
  <2>8. <<Precedence(RightMin(Here)), <<"node", <<Arg[2], pos>>>>>>
          \o (IF Here \in {"=", ".."} THEN <<>> ELSE <<Call("parse_call_or_postfix")>>)
          \o <<<<"operators", Arg>>>> \in Seq(Dull)
    BY <2>5, <2>6, <2>7, DullConcat
  <2> QED BY <1>2, <2>1, <2>8, QuietMove DEF operators, Plain, tree
<1>3. ASSUME operators, Do("operators", 0, <<>>) PROVE Quiet
  BY <1>3, SkipNone, DullLists, QuietMove DEF operators, Plain, tree
<1>4. CASE operators
  BY <1>2, <1>3, <1>4, Zenon DEF operators
<1> QED BY <1>1, <1>4

\* The argument of an attribute.
LEMMA Quiet_attr_arg == Core /\ parse_attr_list /\ ~Doing("parse_attr_list") => Quiet
<1> SUFFICES ASSUME Core, parse_attr_list, ~Doing("parse_attr_list") PROVE Quiet
  OBVIOUS
<1>1. ASSUME Here = "(", Do("attr_arg", 1, <<parse_expr, Expect(")")>>), Plain PROVE Quiet
  <2>1. Skips(1)
    BY <1>1, SkipOne DEF Marks, Keywords
  <2>2. <<parse_expr, Expect(")")>> \in Seq(Dull)
    BY DullIs, DullLists DEF Wanted
  <2> QED BY <1>1, <2>1, <2>2, QuietMove DEF Plain, tree
<1>2. ASSUME Do("attr_arg", 0, <<>>), Plain PROVE Quiet
  BY <1>2, SkipNone, DullLists, QuietMove DEF Plain, tree
<1> QED BY <1>1, <1>2, Zenon DEF parse_attr_list, Do

\* Imports.
LEMMA Quiet_imports == Core /\ parse_module /\ Doing("imports") => Quiet
<1> SUFFICES ASSUME Core, parse_module, Doing("imports") PROVE Quiet
  OBVIOUS
<1>0. ~Doing("parse_module") /\ ~Doing("decls")
  BY DEF Doing
<1>1. ASSUME Here = "import", Do("imports", 1, <<Expect("ident"), Optional(";"), Call("imports")>>), Plain
      PROVE  Quiet
  <2>1. Skips(1)
    BY <1>1, SkipOne DEF Marks, Keywords
  <2>2. <<Expect("ident"), Optional(";"), Call("imports")>> \in Seq(Dull)
    BY DullIs, DullLists DEF Wanted, DullNames
  <2> QED BY <1>1, <2>1, <2>2, QuietMove DEF Plain, tree
<1>2. ASSUME Do("imports", 0, <<>>), Plain PROVE Quiet
  BY <1>2, SkipNone, DullLists, QuietMove DEF Plain, tree
<1> QED BY <1>0, <1>1, <1>2, Zenon DEF parse_module, Do

\* A step that goes well is quiet unless a special call comes first.
LEMMA QuietNext ==
  ASSUME Core, Next, ~had_error', todo[1][1] \notin Special
  PROVE  Quiet
<1>0. \A f \in Special : ~Doing(f)
  BY DEF Doing
<1>1. ~Doing("parse_attr_list") /\ ~parse_decl /\ ~parse_struct
  BY <1>0, Does DEF Special
<1>2. parse_module => Doing("imports")
  BY <1>0, Does DEF Special
<1>3. CASE expect \/ match \/ parse_type \/ suppress \/ release \/ fields
  BY <1>3, Quiet_expect, Quiet_parse_type, Quiet_condition, Quiet_fields
<1>4. CASE parse_primary
  BY <1>4, Quiet_Operand, Quiet_condition DEF parse_primary, NoOperand, Error
<1>5. CASE parse_call_or_postfix \/ parse_precedence \/ operators \/ node
  BY <1>5, Quiet_parse_call_or_postfix, Quiet_parse_precedence, Quiet_operators
<1>6. CASE Compound \/ Simple \/ parse_let \/ parse_block
  BY <1>6, Quiet_Compound, Quiet_Simple, Quiet_parse_let, Quiet_parse_block
<1>7. CASE parse_attr_list \/ parse_fn \/ parse_type_alias \/ parse_module
  BY <1>1, <1>2, <1>7, Quiet_attr_arg, Quiet_parse_fn, Quiet_parse_type_alias, Quiet_imports
<1> QED BY <1>1, <1>3, <1>4, <1>5, <1>6, <1>7 DEF Next

\* An error is not forgotten.
LEMMA ErrorStays == Next /\ had_error => had_error'
<1> SUFFICES ASSUME Next, had_error PROVE had_error'
  OBVIOUS
<1> DEFINE Stays == had_error' = had_error \/ had_error' = TRUE
<1>1. expect \/ match \/ parse_type \/ suppress \/ release \/ fields => Stays
  BY DEF expect, match, parse_type, suppress, release, fields, Plain, Error
<1>2. parse_primary => Stays
  BY DEF parse_primary, Operand, Group, NoOperand, Plain, Error
<1>3. parse_call_or_postfix \/ parse_precedence \/ operators \/ node => Stays
  BY DEF parse_call_or_postfix, parse_precedence, operators, node, Plain
<1>4. Compound \/ Simple \/ parse_let \/ parse_block => Stays
  BY DEF Compound, Simple, parse_let, parse_block, Plain
<1>5. parse_attr_list \/ parse_decl => Stays
  BY DEF parse_attr_list, parse_decl, Plain, Error
<1>6. parse_fn \/ parse_struct \/ parse_type_alias \/ parse_module => Stays
  BY DEF parse_fn, parse_struct, parse_struct_list, parse_type_alias, parse_module, Plain
<1>7. Stays
  BY <1>1, <1>2, <1>3, <1>4, <1>5, <1>6 DEF Next
<1> QED BY <1>7
-----------------------------------------------------------------------------
(* What is collected of a text with keywords at K, and attributes outside of  *)
(* brackets at O and inside at I, when everything before n has been read.     *)

Decl == [at : Nat, attrs : Seq(Nat), invariants : Seq(Nat)]

\* The attributes in front of n with no keyword in between, and those after
\* the keyword at p, before any other.
Loose(O, K, n) == {q \in O : q < n /\ \A k \in K : ~(q <= k /\ k < n)}
Within(I, K, p, n) == {q \in I : p < q /\ q < n /\ \A k \in K : ~(p < k /\ k <= q)}

\* The invariants of the d-th declaration; the last one also gets i.
Own(ds, d, i) == IF d = Len(ds) THEN ds[d].invariants \o i ELSE ds[d].invariants

\* Of what has been read, f is waiting for a declaration, i for the end of the
\* list, and every other attribute is on its declaration.
Filed(O, I, K, n, f, i, ds) ==
  /\ InOrder(f, Loose(O, K, n))
  /\ \A d \in 1 .. Len(ds) :
       /\ ds[d].at \in K /\ ds[d].at < n
       /\ InOrder(ds[d].attrs, Loose(O, K, ds[d].at))
       /\ InOrder(Own(ds, d, i), Within(I, K, ds[d].at, n))
       /\ d = Len(ds) <=> \A k \in K : ~(ds[d].at < k /\ k < n)
  /\ \A q \in I : q < n => \E k \in K : k < q

\* What is put at the end of a list is put at the end of what ends with it.
LEMMA AppendBehind ==
  ASSUME NEW S, NEW u \in Seq(S), NEW v \in Seq(S), NEW x \in S
  PROVE  u \o Append(v, x) = Append(u \o v, x)
<1>1. PICK w : w = <<x>>
  OBVIOUS
<1>2. w \in Seq(S)
  BY <1>1
<1>3. Append(v, x) = v \o w /\ Append(u \o v, x) = (u \o v) \o w
  BY <1>1, AppendIsConcat, ConcatProperties
<1>4. (u \o v) \o w = u \o (v \o w)
  BY <1>2, ConcatAssociative
<1> QED BY <1>3, <1>4

\* Nothing is an empty list.
LEMMA InOrderNone == \A S : InOrder(<<>>, S) <=> S = {}
<1> TAKE S
<1>1. DOMAIN <<>> = {}
  OBVIOUS
<1>2. {<<>>[i] : i \in DOMAIN <<>>} = {}
  BY <1>1
<1> QED BY <1>1, <1>2 DEF InOrder

\* What comes after everything in the list is put at its end.
LEMMA InOrderAppend ==
  ASSUME NEW s \in Seq(Nat), NEW S, NEW n \in Nat, InOrder(s, S), \A x \in S : x < n
  PROVE  InOrder(Append(s, n), S \cup {n})
<1>1. PICK k \in Nat, t \in {Append(s, n)} : k = Len(s) /\ t = Append(s, n)
  BY LenProperties
<1>2. t \in Seq(Nat) /\ Len(t) = k + 1 /\ t[k + 1] = n /\ \A i \in 1 .. k : t[i] = s[i]
  BY <1>1, AppendProperties
<1>3. DOMAIN s = 1 .. k /\ DOMAIN t = 1 .. k + 1
  BY <1>1, <1>2, LenProperties
<1>4. \A i \in 1 .. k : s[i] \in S /\ s[i] < n
  BY <1>3 DEF InOrder
<1>5. \A x \in S : \E i \in 1 .. k : x = s[i]
  BY <1>3 DEF InOrder
<1>6. \A i, j \in 1 .. k : i < j => s[i] < s[j]
  BY <1>3 DEF InOrder
<1>7. {t[i] : i \in 1 .. k + 1} = S \cup {n}
  <2>1. \A i \in 1 .. k + 1 : i \in 1 .. k \/ i = k + 1
    OBVIOUS
  <2>2. \A i \in 1 .. k : i \in 1 .. k + 1
    OBVIOUS
  <2>3. k + 1 \in 1 .. k + 1
    OBVIOUS
  <2>4. ASSUME NEW i \in 1 .. k + 1 PROVE t[i] \in S \cup {n}
    BY <1>2, <1>4, <2>1
  <2>5. ASSUME NEW x \in S \cup {n} PROVE \E i \in 1 .. k + 1 : x = t[i]
    <3>1. CASE x \in S
      <4>1. PICK i \in 1 .. k : x = s[i]
        BY <1>5, <3>1
      <4> QED BY <1>2, <2>2, <4>1
    <3>2. CASE x = n
      BY <1>2, <2>3, <3>2
    <3> QED BY <3>1, <3>2
  <2> QED BY <2>4, <2>5
<1>8. \A i, j \in 1 .. k + 1 : i < j => t[i] < t[j]
  <2> SUFFICES ASSUME NEW i \in 1 .. k + 1, NEW j \in 1 .. k + 1, i < j PROVE t[i] < t[j]
    OBVIOUS
  <2>1. i \in 1 .. k
    OBVIOUS
  <2>2. CASE j = k + 1
    BY <1>2, <1>4, <2>1, <2>2
  <2>3. CASE j # k + 1
    <3>1. j \in 1 .. k
      BY <2>3
    <3> QED BY <1>2, <1>6, <2>1, <3>1
  <2> QED BY <2>2, <2>3
<1> QED BY <1>1, <1>3, <1>7, <1>8 DEF InOrder

\* Tokens that are no marks change nothing.
LEMMA FiledSkip ==
  ASSUME NEW O \in SUBSET Nat, NEW I \in SUBSET Nat, NEW K \in SUBSET Nat, NEW n \in Nat, NEW m \in Nat, n <= m,
         NEW f, NEW i, NEW ds \in Seq(Decl), Filed(O, I, K, n, f, i, ds),
         \A q \in n .. m - 1 : q \notin O /\ q \notin I /\ q \notin K
  PROVE  Filed(O, I, K, m, f, i, ds)
<1>1. \A q \in Nat : q \in O \/ q \in I \/ q \in K => (q < n <=> q < m)
  <2> TAKE q \in Nat
  <2>1. q < m /\ ~(q < n) => q \in n .. m - 1
    OBVIOUS
  <2> QED BY <2>1
<1>2. Loose(O, K, m) = Loose(O, K, n)
  BY <1>1 DEF Loose
<1>3. \A p \in Nat : Within(I, K, p, m) = Within(I, K, p, n)
  BY <1>1 DEF Within
<1>4. ASSUME NEW d \in 1 .. Len(ds)
      PROVE  /\ ds[d].at \in K /\ ds[d].at < m
             /\ InOrder(ds[d].attrs, Loose(O, K, ds[d].at))
             /\ InOrder(Own(ds, d, i), Within(I, K, ds[d].at, m))
             /\ d = Len(ds) <=> \A k \in K : ~(ds[d].at < k /\ k < m)
  <2>1. /\ ds[d].at \in K /\ ds[d].at < n
        /\ InOrder(ds[d].attrs, Loose(O, K, ds[d].at))
        /\ InOrder(Own(ds, d, i), Within(I, K, ds[d].at, n))
        /\ d = Len(ds) <=> \A k \in K : ~(ds[d].at < k /\ k < n)
    BY DEF Filed
  <2>2. (\A k \in K : ~(ds[d].at < k /\ k < n)) <=> (\A k \in K : ~(ds[d].at < k /\ k < m))
    BY <1>1
  <2>3. ds[d].at \in Nat
    BY <2>1
  <2>4. ds[d].at < m
    BY <1>1, <2>1, <2>3
  <2> QED BY <1>3, <2>1, <2>2, <2>3, <2>4
<1>5. \A q \in I : q < m => \E k \in K : k < q
  BY <1>1 DEF Filed
<1>6. InOrder(f, Loose(O, K, m))
  BY <1>2 DEF Filed
<1> QED BY <1>4, <1>5, <1>6 DEF Filed

\* An attribute in front of a declaration waits for it.
LEMMA FiledFront ==
  ASSUME NEW O \in SUBSET Nat, NEW I \in SUBSET Nat, NEW K \in SUBSET Nat, NEW n \in Nat,
         NEW f \in Seq(Nat), NEW i, NEW ds \in Seq(Decl), Filed(O, I, K, n, f, i, ds),
         n \in O, n \notin I, n \notin K
  PROVE  Filed(O, I, K, n + 1, Append(f, n), i, ds)
<1>1. \A q \in Nat : q < n + 1 <=> q < n \/ q = n
  OBVIOUS
<1>2. Loose(O, K, n + 1) = Loose(O, K, n) \cup {n}
  <2>1. \A k \in K : (k < n + 1 <=> k < n) /\ ~(n <= k /\ k < n + 1)
    OBVIOUS
  <2>2. \A q \in O : q < n + 1 <=> q < n \/ q = n
    BY <1>1
  <2>3. n < n + 1
    OBVIOUS
  <2>4. ASSUME NEW q PROVE q \in Loose(O, K, n + 1) <=> q \in Loose(O, K, n) \/ q = n
    <3>1. CASE q = n
      BY <2>1, <2>3, <3>1 DEF Loose
    <3>2. CASE q # n
      BY <2>1, <2>2, <3>2, Zenon DEF Loose
    <3> QED BY <3>1, <3>2
  <2> QED BY <2>4
<1>3. \A x \in Loose(O, K, n) : x < n
  BY DEF Loose
<1>4. InOrder(Append(f, n), Loose(O, K, n + 1))
  <2>1. InOrder(f, Loose(O, K, n))
    BY DEF Filed
  <2> QED BY <1>2, <1>3, <2>1, InOrderAppend
<1>5. \A p \in Nat : Within(I, K, p, n + 1) = Within(I, K, p, n)
  BY <1>1 DEF Within
<1>6. ASSUME NEW d \in 1 .. Len(ds)
      PROVE  /\ ds[d].at \in K /\ ds[d].at < n + 1
             /\ InOrder(ds[d].attrs, Loose(O, K, ds[d].at))
             /\ InOrder(Own(ds, d, i), Within(I, K, ds[d].at, n + 1))
             /\ d = Len(ds) <=> \A k \in K : ~(ds[d].at < k /\ k < n + 1)
  <2>1. /\ ds[d].at \in K /\ ds[d].at < n
        /\ InOrder(ds[d].attrs, Loose(O, K, ds[d].at))
        /\ InOrder(Own(ds, d, i), Within(I, K, ds[d].at, n))
        /\ d = Len(ds) <=> \A k \in K : ~(ds[d].at < k /\ k < n)
    BY DEF Filed
  <2>2. (\A k \in K : ~(ds[d].at < k /\ k < n)) <=> (\A k \in K : ~(ds[d].at < k /\ k < n + 1))
    BY <1>1
  <2>3. ds[d].at \in Nat
    BY <2>1
  <2>4. ds[d].at < n + 1
    BY <1>1, <2>1, <2>3
  <2> QED BY <1>5, <2>1, <2>2, <2>3, <2>4
<1>7. \A q \in I : q < n + 1 => \E k \in K : k < q
  BY <1>1 DEF Filed
<1> QED BY <1>4, <1>6, <1>7 DEF Filed

\* An attribute inside a struct waits for the end of its list.
LEMMA FiledInner ==
  ASSUME NEW O \in SUBSET Nat, NEW I \in SUBSET Nat, NEW K \in SUBSET Nat, NEW n \in Nat,
         NEW f, NEW i \in Seq(Nat), NEW ds \in Seq(Decl), Filed(O, I, K, n, f, i, ds), ds # <<>>,
         n \notin O, n \in I, n \notin K
  PROVE  Filed(O, I, K, n + 1, f, Append(i, n), ds)
<1>1. \A q \in Nat : q < n + 1 <=> q < n \/ q = n
  OBVIOUS
<1>2. Loose(O, K, n + 1) = Loose(O, K, n)
  BY <1>1 DEF Loose
<1>3. PICK m \in Nat : m = Len(ds) /\ m \in 1 .. m
  BY EmptySeq, LenProperties
<1>4. ASSUME NEW d \in 1 .. Len(ds)
      PROVE  /\ ds[d].at \in K /\ ds[d].at < n + 1 /\ ds[d].at < n
             /\ InOrder(ds[d].attrs, Loose(O, K, ds[d].at))
             /\ InOrder(Own(ds, d, Append(i, n)), Within(I, K, ds[d].at, n + 1))
             /\ d = Len(ds) <=> \A k \in K : ~(ds[d].at < k /\ k < n + 1)
  <2>1. /\ ds[d].at \in K /\ ds[d].at < n
        /\ InOrder(ds[d].attrs, Loose(O, K, ds[d].at))
        /\ InOrder(Own(ds, d, i), Within(I, K, ds[d].at, n))
        /\ d = Len(ds) <=> \A k \in K : ~(ds[d].at < k /\ k < n)
    BY DEF Filed
  <2>2. (\A k \in K : ~(ds[d].at < k /\ k < n)) <=> (\A k \in K : ~(ds[d].at < k /\ k < n + 1))
    BY <1>1
  <2>3. PICK a \in Nat : a = ds[d].at
    BY <2>1
  <2>4. a < n + 1
    BY <1>1, <2>1, <2>3
  <2>5. CASE d = Len(ds)
    <3>1. Within(I, K, a, n + 1) = Within(I, K, a, n) \cup {n}
      <4>1. \A k \in K : ~(a < k /\ k <= n)
        <5>1. \A k \in K : k <= n <=> k < n + 1
          OBVIOUS
        <5> QED BY <2>1, <2>2, <2>3, <2>5, <5>1
      <4>2. a < n
        BY <2>1, <2>3
      <4> QED BY <1>1, <4>1, <4>2 DEF Within
    <3>2. ds[d].invariants \in Seq(Nat)
      <4>1. ds[d] \in Decl
        BY ElementOfSeq
      <4> QED BY <4>1 DEF Decl
    <3>3. PICK v \in Seq(Nat) : v = ds[d].invariants \o i
      BY <3>2, ConcatProperties
    <3>4. InOrder(v, Within(I, K, a, n))
      BY <2>1, <2>3, <2>5, <3>3 DEF Own
    <3>5. \A x \in Within(I, K, a, n) : x < n
      BY DEF Within
    <3>6. InOrder(Append(v, n), Within(I, K, a, n) \cup {n})
      BY <3>4, <3>5, InOrderAppend
    <3>7. Own(ds, d, Append(i, n)) = Append(v, n)
      <4>1. PICK u \in Seq(Nat) : u = ds[d].invariants
        BY <3>2
      <4>2. u \o Append(i, n) = Append(u \o i, n)
        <5>1. u \in Seq(Nat) /\ i \in Seq(Nat) /\ n \in Nat
          OBVIOUS
        <5> QED BY ONLY <5>1, AppendBehind, SMTT(60)
      <4> QED BY <2>5, <3>3, <4>1, <4>2 DEF Own
    <3>8. InOrder(Own(ds, d, Append(i, n)), Within(I, K, ds[d].at, n + 1))
      BY <2>3, <3>1, <3>6, <3>7
    <3> QED BY <2>1, <2>2, <2>3, <2>4, <3>8
  <2>6. CASE d # Len(ds)
    <3>1. Within(I, K, a, n + 1) = Within(I, K, a, n)
      <4>1. ~\A k \in K : ~(a < k /\ k <= n)
        <5>1. \A k \in K : k < n => k <= n
          OBVIOUS
        <5> QED BY <2>1, <2>3, <2>6, <5>1
      <4> QED BY <1>1, <4>1 DEF Within
    <3>2. Own(ds, d, Append(i, n)) = Own(ds, d, i)
      BY <2>6 DEF Own
    <3> QED BY <2>1, <2>2, <2>3, <2>4, <3>1, <3>2
  <2> QED BY <2>5, <2>6
<1>5. \A q \in I : q < n + 1 => \E k \in K : k < q
  <2>1. ds[m].at \in K /\ ds[m].at < n
    BY <1>3, <1>4
  <2> QED BY <1>1, <2>1 DEF Filed
<1>6. InOrder(f, Loose(O, K, n + 1))
  BY <1>2 DEF Filed
<1> QED BY <1>4, <1>5, <1>6 DEF Filed

\* At a keyword what has been waiting is put on a new declaration.
LEMMA FiledDecl ==
  ASSUME NEW O \in SUBSET Nat, NEW I \in SUBSET Nat, NEW K \in SUBSET Nat, NEW n \in Nat,
         NEW f \in Seq(Nat), NEW ds \in Seq(Decl), Filed(O, I, K, n, f, <<>>, ds),
         n \notin O, n \notin I, n \in K
  PROVE  Filed(O, I, K, n + 1, <<>>, <<>>, Append(ds, [at |-> n, attrs |-> f, invariants |-> <<>>]))
<1>1. \A q \in Nat : q < n + 1 <=> q < n \/ q = n
  OBVIOUS
<1>2. PICK e : e = [at |-> n, attrs |-> f, invariants |-> <<>>]
  OBVIOUS
<1>3. e \in Decl /\ e.at = n /\ e.attrs = f /\ e.invariants = <<>>
  <2>1. <<>> \in Seq(Nat)
    OBVIOUS
  <2> QED BY <1>2, <2>1 DEF Decl
<1>4. PICK m \in Nat, c \in Seq(Decl) : m = Len(ds) /\ c = Append(ds, e)
  BY <1>3, AppendProperties, LenProperties
<1>5. Len(c) = m + 1 /\ c[m + 1] = e /\ \A d \in 1 .. m : c[d] = ds[d]
  BY <1>3, <1>4, AppendProperties
<1>6. Loose(O, K, n + 1) = {}
  <2>1. n < n + 1 /\ \A q \in O : q < n + 1 => q <= n
    OBVIOUS
  <2> QED BY <2>1 DEF Loose
<1>7. \A p \in Nat : Within(I, K, p, n + 1) = Within(I, K, p, n)
  BY <1>1 DEF Within
<1>8. Within(I, K, n, n) = {}
  <2>1. \A q \in Nat : ~(n < q /\ q < n)
    OBVIOUS
  <2> QED BY <2>1 DEF Within
<1>9. <<>> \o <<>> = <<>>
  <2>1. <<>> \in Seq({})
    OBVIOUS
  <2> QED BY <2>1, ConcatEmptySeq
<1>10. ASSUME NEW d \in 1 .. m + 1
       PROVE  /\ c[d].at \in K /\ c[d].at < n + 1
              /\ InOrder(c[d].attrs, Loose(O, K, c[d].at))
              /\ InOrder(Own(c, d, <<>>), Within(I, K, c[d].at, n + 1))
              /\ d = m + 1 <=> \A k \in K : ~(c[d].at < k /\ k < n + 1)
  <2>1. CASE d = m + 1
    <3>1. c[d].at = n /\ c[d].attrs = f /\ Own(c, d, <<>>) = <<>>
      BY <1>3, <1>5, <1>9, <2>1 DEF Own
    <3>2. InOrder(f, Loose(O, K, n))
      BY DEF Filed
    <3>3. InOrder(<<>>, Within(I, K, n, n + 1))
      BY <1>7, <1>8, InOrderNone
    <3>4. \A k \in K : ~(n < k /\ k < n + 1)
      OBVIOUS
    <3>5. n < n + 1
      OBVIOUS
    <3> QED BY <2>1, <3>1, <3>2, <3>3, <3>4, <3>5
  <2>2. CASE d # m + 1
    <3>1. d \in 1 .. m /\ c[d] = ds[d]
      BY <1>5, <2>2
    <3>2. /\ ds[d].at \in K /\ ds[d].at < n
          /\ InOrder(ds[d].attrs, Loose(O, K, ds[d].at))
          /\ InOrder(Own(ds, d, <<>>), Within(I, K, ds[d].at, n))
      BY <1>4, <3>1 DEF Filed
    <3>3. PICK a \in Nat : a = ds[d].at /\ a < n
      BY <3>2
    <3>7. a < n + 1
      BY <3>3
    <3>4. Own(c, d, <<>>) = ds[d].invariants
      BY <1>5, <2>2, <3>1 DEF Own
    <3>5. Own(ds, d, <<>>) = ds[d].invariants
      <4>1. ds[d] \in Decl
        BY <1>4, <3>1, ElementOfSeq
      <4>2. PICK v \in Seq(Nat) : v = ds[d].invariants
        BY <4>1 DEF Decl
      <4>3. v \o <<>> = v
        BY ConcatEmptySeq
      <4> QED BY <4>2, <4>3 DEF Own
    <3>6. ~\A k \in K : ~(a < k /\ k < n + 1)
      <4>1. n < n + 1
        OBVIOUS
      <4> QED BY <3>3, <4>1
    <3> QED BY <1>7, <2>2, <3>1, <3>2, <3>3, <3>4, <3>5, <3>6, <3>7
  <2> QED BY <2>1, <2>2
<1>11. \A q \in I : q < n + 1 => \E k \in K : k < q
  BY <1>1 DEF Filed
<1>12. InOrder(<<>>, Loose(O, K, n + 1))
  BY <1>6, InOrderNone
<1>13. Filed(O, I, K, n + 1, <<>>, <<>>, c)
  BY <1>5, <1>10, <1>11, <1>12 DEF Filed
<1> QED BY <1>2, <1>4, <1>13

\* At the end of a list inside a struct what has been waiting is put among its
\* invariants.
LEMMA FiledInvariants ==
  ASSUME NEW O \in SUBSET Nat, NEW I \in SUBSET Nat, NEW K \in SUBSET Nat, NEW n \in Nat,
         NEW f, NEW i \in Seq(Nat), NEW ds \in Seq(Decl), Filed(O, I, K, n, f, i, ds), ds # <<>>
  PROVE  Filed(O, I, K, n, f, <<>>, [ds EXCEPT ![Len(ds)].invariants = @ \o i])
<1>1. PICK m \in Nat : m = Len(ds) /\ m \in 1 .. m /\ DOMAIN ds = 1 .. m
  BY EmptySeq, LenProperties
<1>2. PICK e : e = [ds EXCEPT ![m].invariants = @ \o i]
  OBVIOUS
<1>3. PICK r \in Decl : r = ds[m]
  BY <1>1, ElementOfSeq
<1>4. PICK v \in Seq(Nat) : v = r.invariants \o i
  <2>1. r.invariants \in Seq(Nat)
    BY <1>3 DEF Decl
  <2> QED BY <2>1, ConcatProperties
<1>5. PICK s : s = [r EXCEPT !.invariants = v]
  OBVIOUS
<1>6. s \in Decl /\ s.at = r.at /\ s.attrs = r.attrs /\ s.invariants = v
  BY <1>3, <1>5 DEF Decl
<1>7. e = [ds EXCEPT ![m] = s]
  BY <1>1, <1>2, <1>3, <1>4, <1>5
<1>8. e \in Seq(Decl) /\ Len(e) = m /\ e[m] = s /\ \A d \in 1 .. m : d # m => e[d] = ds[d]
  <2>1. e \in Seq(Decl) /\ Len(e) = Len(ds)
    BY <1>1, <1>6, <1>7, ExceptSeq
  <2> QED BY <1>1, <1>7, <2>1
<1>9. v \o <<>> = v
  BY ConcatEmptySeq
<1>10. ASSUME NEW d \in 1 .. m
       PROVE  /\ e[d].at = ds[d].at /\ e[d].attrs = ds[d].attrs
              /\ Own(e, d, <<>>) = Own(ds, d, i)
  <2>1. CASE d = m
    BY <1>1, <1>3, <1>4, <1>6, <1>8, <1>9, <2>1 DEF Own
  <2>2. CASE d # m
    BY <1>1, <1>8, <2>2 DEF Own
  <2> QED BY <2>1, <2>2
<1>11. ASSUME NEW d \in 1 .. m
       PROVE  /\ e[d].at \in K /\ e[d].at < n
              /\ InOrder(e[d].attrs, Loose(O, K, e[d].at))
              /\ InOrder(Own(e, d, <<>>), Within(I, K, e[d].at, n))
              /\ d = m <=> \A k \in K : ~(e[d].at < k /\ k < n)
  <2>1. /\ ds[d].at \in K /\ ds[d].at < n
        /\ InOrder(ds[d].attrs, Loose(O, K, ds[d].at))
        /\ InOrder(Own(ds, d, i), Within(I, K, ds[d].at, n))
        /\ d = m <=> \A k \in K : ~(ds[d].at < k /\ k < n)
    BY <1>1 DEF Filed
  <2> QED BY <1>10, <2>1
<1>12. Filed(O, I, K, n, f, <<>>, e)
  BY <1>8, <1>11 DEF Filed
<1> QED BY <1>1, <1>2, <1>12

\* Nothing is there at first.
LEMMA FiledNone ==
  ASSUME NEW O, NEW I, NEW K, \A q \in O \cup I : q \in Nat /\ q >= 1
  PROVE  Filed(O, I, K, 1, <<>>, <<>>, <<>>)
<1>1. \A q \in O \cup I : ~(q < 1)
  OBVIOUS
<1>2. Loose(O, K, 1) = {}
  BY <1>1 DEF Loose
<1>3. \A d \in 1 .. Len(<<>>) : FALSE
  OBVIOUS
<1>4. InOrder(<<>>, Loose(O, K, 1))
  BY <1>2, InOrderNone
<1>5. \A q \in I : q < 1 => \E k \in K : k < q
  BY <1>1
<1> QED BY <1>3, <1>4, <1>5 DEF Filed
-----------------------------------------------------------------------------
\* The next and the last member of a set of numbers.
LEMMA NextOne ==
  ASSUME NEW K \in SUBSET Nat, NEW q \in Nat, NEW k \in K, q <= k
  PROVE  \E p \in K : q <= p /\ \A r \in K : ~(q <= r /\ r < p)
<1> DEFINE T == {p \in K : q <= p}
<1>1. T \in SUBSET Nat /\ k \in T
  OBVIOUS
<1>2. PICK m \in T : \A y \in T : m <= y
  <2> HIDE DEF T
  <2> QED BY <1>1, LeastNat
<1>3. \A r \in K : q <= r => m <= r
  BY <1>2
<1>4. \A r \in K : q <= r => ~(r < m)
  BY <1>3
<1> QED BY <1>2, <1>4

\* The same backwards.
LEMMA LastOne ==
  ASSUME NEW K \in SUBSET Nat, NEW q \in Nat, NEW k \in K, k < q
  PROVE  \E p \in K : p < q /\ \A r \in K : ~(p < r /\ r < q)
<1> DEFINE T == {d \in 1 .. q : q - d \in K}
<1>1. T \in SUBSET Nat /\ q - k \in T
  <2>1. q - k \in 1 .. q /\ q - (q - k) = k
    OBVIOUS
  <2> QED BY <2>1
<1>2. PICK m \in T : \A y \in T : m <= y
  <2> HIDE DEF T
  <2> QED BY <1>1, LeastNat
<1>3. PICK p \in K : p = q - m /\ m \in 1 .. q
  BY <1>2
<1>4. ASSUME NEW r \in K, p < r, r < q PROVE FALSE
  <2>1. q - r \in 1 .. q /\ q - (q - r) = r
    BY <1>4
  <2>2. q - r \in T
    BY <2>1
  <2>3. m <= q - r
    BY <1>2, <2>2
  <2> QED BY <1>3, <1>4, <2>3
<1> QED BY <1>3, <1>4

\* The attributes of the text outside of brackets and inside, and its keywords.
Outs == {q \in Positions : toks[q] = "@" /\ ~Inside(q)}
Ins == {q \in Positions : toks[q] = "@" /\ Inside(q)}
Keys == {q \in Positions : toks[q] \in Keywords}

\* They are numbers, and no token is two of them.
LEMMA MarkSets ==
  ASSUME Core
  PROVE  /\ Outs \in SUBSET Nat /\ Ins \in SUBSET Nat /\ Keys \in SUBSET Nat
         /\ \A q \in Outs \cup Ins \cup Keys : q \in Nat /\ q >= 1 /\ q \in 1 .. Len(toks) /\ q # Len(toks) /\ toks[q] \in Marks
         /\ \A q : q \in Keys => q \notin Outs /\ q \notin Ins
         /\ \A q : q \in Outs => q \notin Ins
<1>1. DOMAIN toks = 1 .. Len(toks) /\ Len(toks) \in Nat /\ toks[Len(toks)] = "eof"
  BY TextAt
<1>2. Positions = 1 .. Len(toks)
  BY <1>1 DEF Positions
<1>3. \A q \in Outs \cup Ins \cup Keys : q \in Positions /\ toks[q] \in Marks
  BY DEF Outs, Ins, Keys, Marks
<1>4. "eof" \notin Marks
  BY DEF Marks, Keywords
<1>5. \A q \in Outs \cup Ins \cup Keys : q \in 1 .. Len(toks) /\ q # Len(toks) /\ toks[q] \in Marks
  BY <1>1, <1>2, <1>3, <1>4
<1>6. \A q \in 1 .. Len(toks) : q \in Nat /\ q >= 1
  BY <1>1
<1>7. \A q : q \in Keys => q \notin Outs /\ q \notin Ins
  BY DEF Outs, Ins, Keys, Keywords
<1>8. \A q : q \in Outs => q \notin Ins
  BY DEF Outs, Ins
<1> QED BY <1>5, <1>6, <1>7, <1>8

\* Outside, a declaration is the home of an attribute when its keyword is the
\* next one.
LEMMA HomeOut ==
  ASSUME Core, NEW q \in Outs, NEW k \in Keys, q <= k, NEW p \in Keys
  PROVE  Home(q) = p <=> q < p /\ \A r \in Keys : ~(q <= r /\ r < p)
<1>1. PICK n \in Nat : n = Len(toks) /\ Positions = 1 .. n
  BY TextAt DEF Positions
<1>2. q \in 1 .. n /\ ~Inside(q) /\ \A r \in Keys : r \in 1 .. n
  BY <1>1 DEF Outs, Keys
<1>3. \A r \in 1 .. n : toks[r] \in Keywords <=> r \in Keys
  BY <1>1 DEF Keys
<1> DEFINE IsHome(x) == x \in q .. n /\ toks[x] \in Keywords /\ \A r \in q .. x - 1 : toks[r] \notin Keywords
           Nearest(x) == x \in Keys /\ q <= x /\ \A r \in Keys : ~(q <= r /\ r < x)
<1>4. ASSUME NEW x PROVE IsHome(x) <=> Nearest(x)
  <2>1. ASSUME IsHome(x) PROVE Nearest(x)
    <3>1. x \in 1 .. n /\ q <= x /\ x \in Keys
      BY <1>2, <1>3, <2>1
    <3>2. ASSUME NEW r \in Keys, q <= r, r < x PROVE FALSE
      <4>1. r \in q .. x - 1 /\ r \in 1 .. n
        BY <1>2, <3>1, <3>2
      <4> QED BY <1>3, <2>1, <3>2, <4>1
    <3> QED BY <3>1, <3>2
  <2>2. ASSUME Nearest(x) PROVE IsHome(x)
    <3>1. x \in 1 .. n /\ x \in q .. n /\ toks[x] \in Keywords
      BY <1>2, <1>3, <2>2
    <3>2. ASSUME NEW r \in q .. x - 1 PROVE toks[r] \notin Keywords
      <4>1. r \in 1 .. n /\ q <= r /\ r < x
        BY <1>2, <3>1
      <4> QED BY <1>3, <2>2, <4>1
    <3> QED BY <3>1, <3>2
  <2> QED BY <2>1, <2>2
<1>5. PICK x : Nearest(x)
  BY MarkSets, NextOne
<1>6. \A y : Nearest(y) => y = x
  <2>1. ASSUME NEW y, Nearest(y) PROVE y = x
    <3>1. x \in Nat /\ y \in Nat /\ ~(y < x) /\ ~(x < y)
      BY <1>5, <2>1, MarkSets
    <3> QED BY <3>1
  <2> QED BY <2>1
<1>7. Home(q) = CHOOSE y \in q .. n : toks[y] \in Keywords /\ \A r \in q .. y - 1 : toks[r] \notin Keywords
  BY <1>1, <1>2 DEF Home
<1>8. IsHome(Home(q))
  <2>1. IsHome(x)
    BY <1>4, <1>5
  <2> QED BY <1>7, <2>1
<1> HIDE DEF IsHome
<1>9. Nearest(Home(q))
  BY <1>4, <1>8
<1>10. Home(q) = x
  <2> HIDE DEF Nearest
  <2> QED BY <1>6, <1>9
<1>11. Nearest(p) => q < p
  <2>1. toks[q] = "@" /\ q \in Nat /\ p \in Nat
    BY MarkSets DEF Outs
  <2>2. q # p
    BY MarkSets
  <2> QED BY <2>1, <2>2
<1>12. q < p /\ (\A r \in Keys : ~(q <= r /\ r < p)) => Nearest(p)
  BY MarkSets
<1>13. Home(q) = p <=> Nearest(p)
  <2> HIDE DEF Nearest
  <2> QED BY <1>5, <1>6, <1>10
<1> QED BY <1>11, <1>12, <1>13

\* Inside, when it is the last one.
LEMMA HomeIn ==
  ASSUME Core, NEW q \in Ins, NEW k \in Keys, k < q, NEW p \in Keys
  PROVE  Home(q) = p <=> p < q /\ \A r \in Keys : ~(p < r /\ r <= q)
<1>1. PICK n \in Nat : n = Len(toks) /\ Positions = 1 .. n
  BY TextAt DEF Positions
<1>2. q \in 1 .. n /\ Inside(q) /\ \A r \in Keys : r \in 1 .. n
  BY <1>1 DEF Ins, Keys
<1>3. \A r \in 1 .. n : toks[r] \in Keywords <=> r \in Keys
  BY <1>1 DEF Keys
<1>0. q \notin Keys
  BY MarkSets
<1> DEFINE IsHome(x) == x \in 1 .. q /\ toks[x] \in Keywords /\ \A r \in x + 1 .. q : toks[r] \notin Keywords
           Nearest(x) == x \in Keys /\ x < q /\ \A r \in Keys : ~(x < r /\ r <= q)
<1>4. ASSUME NEW x PROVE IsHome(x) <=> Nearest(x)
  <2>1. ASSUME IsHome(x) PROVE Nearest(x)
    <3>1. x \in 1 .. n /\ x <= q /\ x \in Keys
      BY <1>2, <1>3, <2>1
    <3>2. x < q
      BY <1>0, <1>2, <3>1
    <3>3. ASSUME NEW r \in Keys, x < r, r <= q PROVE FALSE
      <4>1. r \in x + 1 .. q /\ r \in 1 .. n
        BY <1>2, <3>1, <3>3
      <4> QED BY <1>3, <2>1, <3>3, <4>1
    <3> QED BY <3>1, <3>2, <3>3
  <2>2. ASSUME Nearest(x) PROVE IsHome(x)
    <3>1. x \in 1 .. n /\ x \in 1 .. q /\ toks[x] \in Keywords
      BY <1>2, <1>3, <2>2
    <3>2. ASSUME NEW r \in x + 1 .. q PROVE toks[r] \notin Keywords
      <4>1. r \in 1 .. n /\ x < r /\ r <= q
        BY <1>2, <3>1
      <4> QED BY <1>3, <2>2, <4>1
    <3> QED BY <3>1, <3>2
  <2> QED BY <2>1, <2>2
<1>5. PICK x : Nearest(x)
  <2>1. q \in Nat /\ Keys \in SUBSET Nat
    BY MarkSets
  <2>2. PICK x \in Keys : x < q /\ \A r \in Keys : ~(x < r /\ r < q)
    BY <2>1, LastOne
  <2>3. ASSUME NEW r \in Keys, x < r, r <= q PROVE FALSE
    <3>1. r # q
      BY <1>0
    <3>2. r < q
      BY <2>1, <2>3, <3>1
    <3> QED BY <2>2, <2>3, <3>2
  <2> QED BY <2>2, <2>3
<1>6. \A y : Nearest(y) => y = x
  <2>1. ASSUME NEW y, Nearest(y) PROVE y = x
    <3>1. x \in Nat /\ y \in Nat /\ q \in Nat /\ ~(y < x /\ x <= q) /\ ~(x < y /\ y <= q) /\ x < q /\ y < q
      BY <1>5, <2>1, MarkSets
    <3> QED BY <3>1
  <2> QED BY <2>1
<1>7. Home(q) = CHOOSE y \in 1 .. q : toks[y] \in Keywords /\ \A r \in y + 1 .. q : toks[r] \notin Keywords
  BY <1>2 DEF Home
<1>8. IsHome(Home(q))
  <2>1. IsHome(x)
    BY <1>4, <1>5
  <2> QED BY <1>7, <2>1
<1> HIDE DEF IsHome
<1>9. Nearest(Home(q))
  BY <1>4, <1>8
<1>10. Home(q) = x
  <2> HIDE DEF Nearest
  <2> QED BY <1>6, <1>9
<1>11. Home(q) = p <=> Nearest(p)
  <2> HIDE DEF Nearest
  <2> QED BY <1>5, <1>6, <1>10
<1> QED BY <1>11
-----------------------------------------------------------------------------
(* The tasks on the way to a declaration.                                     *)

\* A task in front.
LEMMA InFront ==
  /\ \A a, b : <<a>> \o <<b>> = <<a, b>>
  /\ \A a, b, c : <<a>> \o <<b, c>> = <<a, b, c>>
  /\ \A a, b, c, d : <<a>> \o <<b, c, d>> = <<a, b, c, d>>
  /\ \A a, b, c, d, e : <<a>> \o <<b, c, d, e>> = <<a, b, c, d, e>>
<1>1. \A a, b : <<a>> \o <<b>> = <<a, b>>
  BY Longer
<1>2. ASSUME NEW a, NEW b, NEW c PROVE <<a>> \o <<b, c>> = <<a, b, c>>
  <2>1. <<b>> \o <<c>> = <<b, c>> /\ <<a>> \o (<<b>> \o <<c>>) = <<a, b, c>>
    BY Longer, Glue
  <2> QED BY <2>1
<1>3. ASSUME NEW a, NEW b, NEW c, NEW d PROVE <<a>> \o <<b, c, d>> = <<a, b, c, d>>
  <2> DEFINE S == {a, b, c, d}
  <2>1. PICK x, y, z : x = <<a>> /\ y = <<b, c>> /\ z = <<d>>
    OBVIOUS
  <2>2. x \in Seq(S) /\ y \in Seq(S) /\ z \in Seq(S)
    BY <2>1
  <2>3. (x \o y) \o z = x \o (y \o z)
    <3> HIDE DEF S
    <3> QED BY <2>2, ConcatAssociative
  <2>4. y \o z = <<b, c, d>> /\ x \o y = <<a, b, c>>
    BY <1>2, <2>1, Longer
  <2>5. (x \o y) \o z = <<a, b, c, d>>
    <3>1. <<a, b, c>> \o <<d>> = <<a, b, c, d>>
      BY Longer
    <3> QED BY <2>1, <2>4, <3>1
  <2> QED BY <2>1, <2>3, <2>4, <2>5
<1>4. ASSUME NEW a, NEW b, NEW c, NEW d, NEW e PROVE <<a>> \o <<b, c, d, e>> = <<a, b, c, d, e>>
  <2> DEFINE S == {a, b, c, d, e}
  <2>1. PICK x, y, z : x = <<a>> /\ y = <<b, c, d>> /\ z = <<e>>
    OBVIOUS
  <2>2. x \in Seq(S) /\ y \in Seq(S) /\ z \in Seq(S)
    BY <2>1
  <2>3. (x \o y) \o z = x \o (y \o z)
    <3> HIDE DEF S
    <3> QED BY <2>2, ConcatAssociative
  <2>4. y \o z = <<b, c, d, e>> /\ x \o y = <<a, b, c, d>>
    BY <1>3, <2>1, Longer
  <2>5. (x \o y) \o z = <<a, b, c, d, e>>
    <3>1. <<a, b, c, d>> \o <<e>> = <<a, b, c, d, e>>
      BY Longer
    <3> QED BY <2>1, <2>4, <3>1
  <2> QED BY <2>1, <2>3, <2>4, <2>5
<1> QED BY <1>1, <1>2, <1>3, <1>4

\* The last of the tasks put in may as well have been there.
LEMMA Regroup ==
  ASSUME NEW S, NEW x \in Seq(S), NEW c \in S, NEW y \in Seq(S)
  PROVE  (x \o <<c>>) \o y = x \o (<<c>> \o y)
<1>1. PICK z : z = <<c>>
  OBVIOUS
<1>2. z \in Seq(S)
  BY <1>1
<1>3. (x \o z) \o y = x \o (z \o y)
  BY <1>2, ConcatAssociative
<1> QED BY <1>1, <1>3

\* The lists of tasks the parser goes through between declarations, in front
\* of one, inside a struct and in a list there.
Decls == <<Call("decls")>>
InList == <<Call("parse_attr_list"), Call("parse_decl"), Call("decls")>>
AtDecl == <<Call("parse_decl"), Call("decls")>>
AtStruct == <<Call("struct"), Call("decls")>>
AtMember == <<Call("members"), Expect("}"), Call("decls")>>
InMemberList ==
  <<Call("parse_attr_list"), Call("invariants"), Call("members"), Expect("}"), Call("decls")>>
AtMemberListEnd == <<Call("invariants"), Call("members"), Expect("}"), Call("decls")>>

\* What is in them.
AnyTask == Dull \cup Special \X {""}

\* What is to do before u has nothing to do with it.
Leads(t, u) == \E w \in Seq(Dull) : t = w \o u

\* What of the attributes a and the declarations ds is filed when u is left.
Stage(u, O, I, K, n, a, ds) ==
  \/ u \in {<<>>, <<Call("parse_module")>>, Decls} /\ Filed(O, I, K, n, <<>>, <<>>, ds)
  \/ u \in {InList, AtDecl} /\ Filed(O, I, K, n, a, <<>>, ds)
  \/ u \in {AtStruct, AtMember} /\ ds # <<>> /\ Filed(O, I, K, n, <<>>, <<>>, ds)
  \/ u \in {InMemberList, AtMemberListEnd} /\ ds # <<>> /\ Filed(O, I, K, n, <<>>, a, ds)

\* Every attribute that has been read is where it belongs.
Attribs == ~had_error => \E u : Leads(todo, u) /\ Stage(u, Outs, Ins, Keys, pos, attrs, decls)

\* The lists and what they start with.
LEMMA ListsAre ==
  /\ Decls \in Seq(AnyTask) /\ InList \in Seq(AnyTask) /\ AtDecl \in Seq(AnyTask) /\ AtStruct \in Seq(AnyTask)
  /\ AtMember \in Seq(AnyTask) /\ InMemberList \in Seq(AnyTask) /\ AtMemberListEnd \in Seq(AnyTask)
  /\ <<>> \in Seq(AnyTask) /\ <<Call("parse_module")>> \in Seq(AnyTask)
  /\ Decls # <<>> /\ InList # <<>> /\ AtDecl # <<>> /\ AtStruct # <<>>
  /\ AtMember # <<>> /\ InMemberList # <<>> /\ AtMemberListEnd # <<>>
  /\ Decls[1][1] = "decls" /\ InList[1][1] = "parse_attr_list" /\ AtDecl[1][1] = "parse_decl"
  /\ AtStruct[1][1] = "struct" /\ AtMember[1][1] = "members" /\ InMemberList[1][1] = "parse_attr_list"
  /\ AtMemberListEnd[1][1] = "invariants" /\ <<Call("parse_module")>>[1][1] = "parse_module"
  /\ Tail(Decls) = <<>> /\ Tail(InList) = AtDecl /\ Tail(AtDecl) = Decls /\ Tail(AtStruct) = Decls
  /\ Tail(InMemberList) = AtMemberListEnd /\ Tail(AtMemberListEnd) = AtMember
  /\ Tail(AtMember) = <<Expect("}"), Call("decls")>> /\ Tail(<<Call("parse_module")>>) = <<>>
<1>1. \A f \in Special : Call(f) \in AnyTask /\ Call(f)[1] = f
  BY DEF Call, AnyTask
<1>2. Expect("}") \in AnyTask
  BY DullIs DEF AnyTask, Wanted
<1>3. PICK m, d, l, k, s, b, e, i :
        /\ m = Call("parse_module") /\ d = Call("decls") /\ l = Call("parse_attr_list") /\ k = Call("parse_decl")
        /\ s = Call("struct") /\ b = Call("members") /\ e = Expect("}") /\ i = Call("invariants")
  OBVIOUS
<1>4. /\ m \in AnyTask /\ d \in AnyTask /\ l \in AnyTask /\ k \in AnyTask
      /\ s \in AnyTask /\ b \in AnyTask /\ e \in AnyTask /\ i \in AnyTask
      /\ m[1] = "parse_module" /\ d[1] = "decls" /\ l[1] = "parse_attr_list" /\ k[1] = "parse_decl"
      /\ s[1] = "struct" /\ b[1] = "members" /\ i[1] = "invariants"
  BY <1>1, <1>2, <1>3 DEF Special
<1>5. /\ Decls = <<d>> /\ InList = <<l, k, d>> /\ AtDecl = <<k, d>> /\ AtStruct = <<s, d>>
      /\ AtMember = <<b, e, d>> /\ InMemberList = <<l, i, b, e, d>> /\ AtMemberListEnd = <<i, b, e, d>>
  BY <1>3 DEF Decls, InList, AtDecl, AtStruct, AtMember, InMemberList, AtMemberListEnd
<1>6. /\ <<d>> \in Seq(AnyTask) /\ <<l, k, d>> \in Seq(AnyTask) /\ <<k, d>> \in Seq(AnyTask)
      /\ <<s, d>> \in Seq(AnyTask) /\ <<b, e, d>> \in Seq(AnyTask) /\ <<l, i, b, e, d>> \in Seq(AnyTask)
      /\ <<i, b, e, d>> \in Seq(AnyTask) /\ <<>> \in Seq(AnyTask) /\ <<m>> \in Seq(AnyTask)
  BY <1>4
<1>7. /\ <<d>> # <<>> /\ <<l, k, d>> # <<>> /\ <<k, d>> # <<>> /\ <<s, d>> # <<>>
      /\ <<b, e, d>> # <<>> /\ <<l, i, b, e, d>> # <<>> /\ <<i, b, e, d>> # <<>>
  OBVIOUS
<1>8. /\ <<d>>[1] = d /\ <<l, k, d>>[1] = l /\ <<k, d>>[1] = k /\ <<s, d>>[1] = s
      /\ <<b, e, d>>[1] = b /\ <<l, i, b, e, d>>[1] = l /\ <<i, b, e, d>>[1] = i /\ <<m>>[1] = m
  OBVIOUS
<1>9. /\ Tail(<<d>>) = <<>> /\ Tail(<<l, k, d>>) = <<k, d>> /\ Tail(<<k, d>>) = <<d>> /\ Tail(<<s, d>>) = <<d>>
      /\ Tail(<<l, i, b, e, d>>) = <<i, b, e, d>> /\ Tail(<<i, b, e, d>>) = <<b, e, d>>
      /\ Tail(<<b, e, d>>) = <<e, d>> /\ Tail(<<m>>) = <<>>
  OBVIOUS
<1>10. <<e, d>> = <<Expect("}"), Call("decls")>> /\ <<m>> = <<Call("parse_module")>>
  BY <1>3
<1> QED BY <1>4, <1>5, <1>6, <1>7, <1>8, <1>9, <1>10

\* The first of two lists loses its first task.
LEMMA TailConcat ==
  ASSUME NEW S, NEW v \in Seq(S), NEW u \in Seq(S), v # <<>>
  PROVE  Tail(v \o u) = Tail(v) \o u
<1>1. PICK n \in Nat, k \in Nat : n = Len(v) /\ k = Len(u) /\ n # 0
  BY EmptySeq, LenProperties
<1>2. PICK t : t = v \o u
  OBVIOUS
<1>3. t \in Seq(S) /\ Len(t) = n + k /\ \A i \in 1 .. n + k : t[i] = IF i <= n THEN v[i] ELSE u[i - n]
  <2>1. /\ v \o u \in Seq(S) /\ Len(v \o u) = Len(v) + Len(u)
        /\ \A i \in 1 .. Len(v) + Len(u) : (v \o u)[i] = IF i <= Len(v) THEN v[i] ELSE u[i - Len(v)]
    BY ConcatProperties
  <2> QED BY <1>1, <1>2, <2>1
<1>4. t # <<>>
  BY <1>1, <1>3, EmptySeq
<1>5. PICK y : y = Tail(t)
  OBVIOUS
<1>6. y \in Seq(S) /\ Len(y) = (n + k) - 1 /\ \A i \in 1 .. (n + k) - 1 : y[i] = t[i + 1]
  BY <1>3, <1>4, <1>5, HeadTailProperties
<1>7. PICK x : x = Tail(v)
  OBVIOUS
<1>8. x \in Seq(S) /\ Len(x) = n - 1 /\ \A i \in 1 .. n - 1 : x[i] = v[i + 1]
  BY <1>1, <1>7, HeadTailProperties
<1>9. PICK z : z = x \o u
  OBVIOUS
<1>10. z \in Seq(S) /\ Len(z) = (n - 1) + k
       /\ \A i \in 1 .. (n - 1) + k : z[i] = IF i <= n - 1 THEN x[i] ELSE u[i - (n - 1)]
  <2>1. /\ x \o u \in Seq(S) /\ Len(x \o u) = Len(x) + Len(u)
        /\ \A i \in 1 .. Len(x) + Len(u) : (x \o u)[i] = IF i <= Len(x) THEN x[i] ELSE u[i - Len(x)]
    BY <1>8, ConcatProperties
  <2> QED BY <1>1, <1>8, <1>9, <2>1
<1>11. ASSUME NEW i \in 1 .. (n + k) - 1 PROVE y[i] = z[i]
  <2>1. i \in 1 .. (n - 1) + k /\ i + 1 \in 1 .. n + k
    BY <1>1
  <2>2. y[i] = t[i + 1]
    BY <1>6
  <2>3. t[i + 1] = IF i + 1 <= n THEN v[i + 1] ELSE u[(i + 1) - n]
    BY <1>3, <2>1
  <2>4. z[i] = IF i <= n - 1 THEN x[i] ELSE u[i - (n - 1)]
    BY <1>10, <2>1
  <2>5. CASE i <= n - 1
    <3>1. i \in 1 .. n - 1 /\ i + 1 <= n
      BY <1>1, <2>5
    <3> QED BY <1>8, <2>2, <2>3, <2>4, <2>5, <3>1
  <2>6. CASE ~(i <= n - 1)
    <3>1. ~(i + 1 <= n) /\ (i + 1) - n = i - (n - 1)
      BY <1>1, <2>6
    <3> QED BY <2>2, <2>3, <2>4, <2>6, <3>1
  <2> QED BY <2>5, <2>6
<1>12. Len(y) = Len(z)
  BY <1>1, <1>6, <1>10
<1>13. y = z
  BY ONLY <1>6, <1>10, <1>11, <1>12, SeqEqual
<1> QED BY <1>2, <1>5, <1>7, <1>9, <1>13

\* Dull tasks come before the first special one.
LEMMA LeadsQuiet ==
  ASSUME NEW t, t # <<>>, NEW u \in Seq(AnyTask), u = <<>> \/ u[1][1] \in Special,
         Leads(t, u), t[1][1] \notin Special, NEW w \in Seq(Dull)
  PROVE  Leads(w \o Tail(t), u)
<1>1. PICK v \in Seq(Dull) : t = v \o u
  BY DEF Leads
<1>2. v # <<>>
  <2>1. SUFFICES ASSUME v = <<>> PROVE FALSE
    OBVIOUS
  <2>2. t = u
    BY <1>1, <2>1, ConcatEmptySeq
  <2> QED BY <2>2
<1>3. Dull \subseteq AnyTask
  BY DEF AnyTask
<1>4. v \in Seq(AnyTask) /\ w \in Seq(AnyTask)
  BY <1>3, SeqMonotonic
<1>5. PICK x \in Seq(Dull) : x = Tail(v)
  BY <1>2, HeadTailProperties
<1>6. x \in Seq(AnyTask)
  BY <1>3, SeqMonotonic
<1>7. Tail(t) = x \o u
  BY <1>1, <1>2, <1>4, <1>5, TailConcat
<1>8. w \o (x \o u) = (w \o x) \o u
  <2>1. w \in Seq(AnyTask) /\ x \in Seq(AnyTask) /\ u \in Seq(AnyTask)
    BY <1>4, <1>6
  <2> QED BY ONLY <2>1, ConcatAssociative, SMTT(60)
<1>9. w \o x \in Seq(Dull)
  BY DullConcat
<1> QED BY <1>7, <1>8, <1>9 DEF Leads

\* When a special one is first, there is no dull one before it.
LEMMA LeadsSpecial ==
  ASSUME NEW t, NEW u \in Seq(AnyTask), Leads(t, u), t # <<>>, t[1][1] \in Special
  PROVE  t = u
<1>1. PICK v \in Seq(Dull) : t = v \o u
  BY DEF Leads
<1>2. v = <<>>
  <2> SUFFICES ASSUME v # <<>> PROVE FALSE
    OBVIOUS
  <2>1. PICK n \in Nat, k \in Nat : n = Len(v) /\ k = Len(u) /\ n # 0
    BY EmptySeq, LenProperties
  <2>2. v[1] \in Dull
    <3>1. 1 \in 1 .. Len(v)
      BY <2>1
    <3> QED BY <3>1, ElementOfSeq
  <2>3. t[1] = v[1]
    <3>1. \A i \in 1 .. n + k : t[i] = IF i <= n THEN v[i] ELSE u[i - n]
      <4>1. \A i \in 1 .. Len(v) + Len(u) : (v \o u)[i] = IF i <= Len(v) THEN v[i] ELSE u[i - Len(v)]
        BY ConcatProperties, SMTT(60)
      <4> QED BY <1>1, <2>1, <4>1
    <3>2. 1 \in 1 .. n + k /\ 1 <= n
      BY <2>1
    <3> QED BY <3>1, <3>2
  <2> QED BY <2>2, <2>3, DullNot
<1> QED BY <1>1, <1>2, ConcatEmptySeq

\* What is open around an attribute that comes next is its level.
LEMMA LevelHere ==
  ASSUME Core, Here = "@", NEW s \in Stacks, Reads(toks, pos, s)
  PROVE  Level(pos) = Len(s) /\ pos \in Positions
<1>1. Passed(1)
  BY PassOne DEF Plainly
<1>2. Reads(toks, pos + 1, s)
  BY <1>1 DEF Passed
<1>3. PICK p \in Nat : p = pos /\ p # 0 /\ p \in 1 .. (p + 1) - 1
  <2>1. PICK p \in Nat, n \in Nat : p = pos /\ n = Len(toks) /\ p \in 1 .. n
    <3>1. pos \in 1 .. Len(toks) /\ pos \in Nat
      BY Near DEF Core
    <3>2. Len(toks) \in Nat
      BY TextAt
    <3> QED BY <3>1, <3>2
  <2>2. p # 0 /\ p \in 1 .. (p + 1) - 1
    BY ONLY <2>1
  <2> QED BY <2>1, <2>2
<1>4. PICK e \in [1 .. p + 1 -> Stacks] :
        e[1] = <<>> /\ e[p + 1] = s /\ \A i \in 1 .. (p + 1) - 1 : Turn(toks[i], e[i], e[i + 1])
  BY <1>2, <1>3 DEF Reads
<1>5. Run(toks, p + 1, e)
  BY <1>3, <1>4 DEF Run
<1>6. toks[p] \notin Closers
  BY <1>3, BracketsAre DEF Here
<1>7. Level(p) = Len(e[p + 1])
  BY <1>3, <1>5, <1>6, LevelIs
<1>8. pos \in Positions
  BY Near, Places
<1> QED BY <1>3, <1>4, <1>7, <1>8

\* A call opens and closes nothing by itself.
LEMMA PathCall ==
  ASSUME NEW S, NEW t \in Seq(S), t # <<>>, NEW a, NEW b, Path("open", t, a, b), t[1][1] # "expect"
  PROVE  Path("open", Tail(t), a, b)
<1>1. "open" \in Views /\ Good("open") = Stacks
  BY DEF Views, Good
<1>2. PICK m \in Stacks : Step("open", t[1], a, m) /\ Path("open", Tail(t), m, b)
  BY <1>1, PathHead
<1>3. "" \notin Brackets
  BY BracketsAre DEF Brackets
<1>4. m = a
  BY <1>2, <1>3 DEF Step, Turn
<1> QED BY <1>2, <1>4

\* In front of a declaration no bracket is open.
LEMMA ReadOut == Core /\ ~had_error /\ Here = "@" /\ todo = InList => pos \in Outs
<1> SUFFICES ASSUME Core, ~had_error, Here = "@", todo = InList PROVE pos \in Outs
  OBVIOUS
<1>1. PICK s \in Stacks : Reads(toks, pos, s) /\ Path("open", InList, s, <<>>)
  BY DEF Core
<1>2. Path("open", AtDecl, s, <<>>)
  BY <1>1, ListsAre, PathCall
<1>3. Path("open", Decls, s, <<>>)
  BY <1>2, ListsAre, PathCall
<1>4. Path("open", <<>>, s, <<>>)
  BY <1>3, ListsAre, PathCall
<1>5. s = <<>>
  BY <1>4, PathNone DEF Views, Good
<1>6. Level(pos) = 0 /\ pos \in Positions
  <2>1. Len(<<>>) = 0
    OBVIOUS
  <2> QED BY <1>1, <1>5, <2>1, LevelHere
<1>7. ~Inside(pos)
  BY <1>6 DEF Inside
<1> QED BY <1>6, <1>7 DEF Outs, Here

\* In a list inside a struct its brace is open.
LEMMA ReadIn == Core /\ ~had_error /\ Here = "@" /\ todo = InMemberList => pos \in Ins
<1> SUFFICES ASSUME Core, ~had_error, Here = "@", todo = InMemberList PROVE pos \in Ins
  OBVIOUS
<1>1. PICK s \in Stacks : Reads(toks, pos, s) /\ Path("open", InMemberList, s, <<>>)
  BY DEF Core
<1>2. Path("open", AtMemberListEnd, s, <<>>)
  BY <1>1, ListsAre, PathCall
<1>3. Path("open", AtMember, s, <<>>)
  BY <1>2, ListsAre, PathCall
<1>4. PICK t, x, y : x = Expect("}") /\ y = Call("decls") /\ t = <<x, y>>
  OBVIOUS
<1>5. Path("open", t, s, <<>>)
  BY <1>3, <1>4, ListsAre, PathCall
<1>6. t \in Seq({x, y}) /\ t # <<>> /\ t[1] = x
  <2>1. t = <<x, y>>
    BY <1>4
  <2>2. t \in Seq({x, y}) /\ t # <<>>
    BY ONLY <2>1
  <2>3. t[1] = x
    BY ONLY <2>1
  <2> QED BY <2>2, <2>3
<1>7. PICK m \in Stacks : Step("open", t[1], s, m)
  BY <1>5, <1>6, PathHead DEF Views, Good
<1>8. Turn("}", s, m)
  <2>1. t[1][1] = "expect" /\ t[1][2] = "}"
    BY <1>4, <1>6 DEF Expect
  <2> QED BY <1>7, <2>1, Zenon DEF Step
<1>9. PICK o \in Openers : s = Append(m, o)
  BY <1>8, BracketsAre DEF Turn
<1>10. PICK k \in Nat : k = Len(m) /\ Len(s) = k + 1
  BY <1>9, AppendProperties, LenProperties DEF Stacks
<1>11. Level(pos) = k + 1 /\ pos \in Positions
  BY <1>1, <1>10, LevelHere
<1>12. Inside(pos)
  BY <1>11 DEF Inside
<1> QED BY <1>11, <1>12 DEF Ins, Here

\* Where attributes and keywords are depends on the text only.
LEMMA MarksStay == toks' = toks => Outs' = Outs /\ Ins' = Ins /\ Keys' = Keys
<1> SUFFICES ASSUME toks' = toks PROVE Outs' = Outs /\ Ins' = Ins /\ Keys' = Keys
  OBVIOUS
<1>1. Positions' = Positions
  BY DEF Positions
<1>2. \A q : Inside(q)' <=> Inside(q)
  BY DEF Inside, Level
<1> QED BY <1>1, <1>2 DEF Outs, Ins, Keys

\* What it takes to keep the promise.
LEMMA Onward ==
  ASSUME toks' = toks, NEW u, Leads(todo', u), Stage(u, Outs, Ins, Keys, pos', attrs', decls')
  PROVE  Attribs'
BY MarksStay DEF Attribs

\* The lists of the tree are lists of numbers.
LEMMA TreeNat == Core /\ Tree => attrs \in Seq(Nat) /\ decls \in Seq(Decl)
<1> SUFFICES ASSUME Core, Tree PROVE attrs \in Seq(Nat) /\ decls \in Seq(Decl)
  OBVIOUS
<1>1. PICK n \in Nat, P \in {Positions} : n = Len(toks) /\ P = Positions /\ P = 1 .. n
  BY TextAt DEF Positions
<1>2. P \subseteq Nat
  BY <1>1
<1>3. \A s \in Seq(P) : s \in Seq(Nat)
  BY <1>2, SeqMonotonic
<1>4. [at : P, attrs : Seq(P), invariants : Seq(P)] \subseteq Decl
  BY <1>2, <1>3 DEF Decl
<1>5. attrs \in Seq(P) /\ decls \in Seq([at : P, attrs : Seq(P), invariants : Seq(P)])
  BY <1>1 DEF Tree
<1>6. \A S : S \subseteq Decl => Seq(S) \subseteq Seq(Decl)
  BY SeqMonotonic
<1> QED BY <1>3, <1>4, <1>5, <1>6

\* A quiet step keeps it.
LEMMA QuietKeeps == Core /\ Tree /\ Attribs /\ ~had_error /\ todo # <<>> /\ todo[1][1] \notin Special /\ Quiet => Attribs'
<1> SUFFICES ASSUME Core, Tree, Attribs, ~had_error, todo # <<>>, todo[1][1] \notin Special, Quiet
             PROVE  Attribs'
  OBVIOUS
<1>1. PICK u : Leads(todo, u) /\ Stage(u, Outs, Ins, Keys, pos, attrs, decls)
  BY DEF Attribs
<1>2. u \in Seq(AnyTask) /\ (u = <<>> \/ u[1][1] \in Special)
  BY <1>1, ListsAre, ZenonT(60) DEF Stage, Special
<1>3. PICK w \in Seq(Dull) : todo' = w \o Tail(todo)
  BY DEF Quiet
<1>4. Leads(todo', u)
  BY <1>1, <1>2, <1>3, LeadsQuiet
<1>5. PICK n \in Nat, m \in Nat : n = pos /\ m = pos' /\ n <= m
  <2>1. PICK n \in Nat, k \in Nat : n = pos /\ k = Len(toks)
    BY TextAt
  <2>2. PICK m \in n .. k : m = pos'
    BY <2>1 DEF Quiet
  <2>3. m \in Nat /\ n <= m
    BY <2>1
  <2> QED BY <2>1, <2>2, <2>3
<1>6. \A q \in n .. m - 1 : q \notin Outs /\ q \notin Ins /\ q \notin Keys
  <2>1. \A q \in n .. m - 1 : toks[q] \notin Marks
    BY <1>5 DEF Quiet
  <2> QED BY <2>1, MarkSets
<1>7. decls \in Seq(Decl) /\ Outs \in SUBSET Nat /\ Ins \in SUBSET Nat /\ Keys \in SUBSET Nat
  BY TreeNat, MarkSets
<1>8. \A f, i : Filed(Outs, Ins, Keys, n, f, i, decls) => Filed(Outs, Ins, Keys, m, f, i, decls)
  BY <1>5, <1>6, <1>7, FiledSkip
<1>9. Stage(u, Outs, Ins, Keys, m, attrs, decls)
  BY <1>1, <1>5, <1>8 DEF Stage
<1>10. toks' = toks /\ attrs' = attrs /\ decls' = decls
  BY DEF Quiet
<1> QED BY <1>4, <1>5, <1>9, <1>10, Onward

\* Which action does a special call.
LEMMA SpecialDoes ==
  ASSUME Next, NEW f, todo[1][1] = f
  PROVE  /\ f \in {"parse_module", "decls"} => parse_module
         /\ f = "parse_attr_list" => parse_attr_list
         /\ f = "parse_decl" => parse_decl
         /\ f \in {"struct", "members", "invariants"} => parse_struct
<1>1. \A g : Doing(g) => g = f
  BY DEF Doing
<1>2. f \in Special => /\ ~expect /\ ~match /\ ~parse_type /\ ~parse_primary /\ ~suppress /\ ~release
                       /\ ~fields /\ ~parse_call_or_postfix /\ ~parse_precedence /\ ~operators /\ ~node
  BY <1>1, Does DEF Special
<1>3. f \in Special => ~Compound /\ ~Simple /\ ~parse_let /\ ~parse_block /\ ~parse_fn /\ ~parse_type_alias
  BY <1>1, Does DEF Special
<1>4. ASSUME f \in Special PROVE parse_attr_list \/ parse_decl \/ parse_struct \/ parse_module
  BY <1>2, <1>3, <1>4 DEF Next
<1>5. parse_attr_list => f \notin Special \ {"parse_attr_list"}
  BY <1>1, Does DEF Special
<1>6. parse_decl => f = "parse_decl"
  BY <1>1, Does
<1>7. parse_struct => f \in {"struct", "members", "invariants"}
  BY <1>1, Does
<1>8. parse_module => f \notin Special \ {"parse_module", "decls"}
  BY <1>1, Does DEF Special
<1> QED BY <1>4, <1>5, <1>6, <1>7, <1>8 DEF Special

\* What a step that reads nothing does.
LEMMA ReadsNothing ==
  ASSUME Core, NEW f, NEW w, Do(f, 0, w)
  PROVE  toks' = toks /\ pos' = pos /\ todo' = w \o Tail(todo) /\ todo[1][1] = f
<1>1. pos + 0 = pos
  BY Near
<1> QED BY <1>1 DEF Do, Doing

\* One that reads a token.
LEMMA ReadsOne ==
  ASSUME Core, NEW f, NEW w, Do(f, 1, w), Here # "eof"
  PROVE  toks' = toks /\ pos' = pos + 1 /\ todo' = w \o Tail(todo) /\ todo[1][1] = f
BY DEF Do, Doing

\* Nothing in front, and what is not special.
LEMMA LeadsTo ==
  ASSUME NEW u \in Seq(AnyTask)
  PROVE  <<>> \o u = u /\ Leads(u, u) /\ \A w \in Seq(Dull) : Leads(w \o u, u)
<1>1. <<>> \o u = u
  BY ConcatEmptySeq
<1>2. \A w \in Seq(Dull) : Leads(w \o u, u)
  BY DEF Leads
<1>3. Leads(<<>> \o u, u)
  BY <1>2, DullLists
<1> QED BY <1>1, <1>2, <1>3

\* What is put in front of the last task put in is not special.
LEMMA LeadsOver ==
  ASSUME NEW w \in Seq(Dull), NEW c \in AnyTask, NEW y \in Seq(AnyTask)
  PROVE  Leads((w \o <<c>>) \o y, <<c>> \o y)
<1>1. w \in Seq(AnyTask)
  <2>1. Dull \subseteq AnyTask
    BY DEF AnyTask
  <2> QED BY <2>1, SeqMonotonic
<1>2. (w \o <<c>>) \o y = w \o (<<c>> \o y)
  BY <1>1, Regroup
<1> QED BY <1>2 DEF Leads

\* The tasks that are special, and those of the lists that are not.
LEMMA TasksAre ==
  /\ \A f \in Special : Call(f) \in AnyTask
  /\ Expect("ident") \in Dull /\ Expect("{") \in Dull /\ Expect("}") \in Dull /\ Expect(":") \in Dull
  /\ Optional(",") \in Dull /\ Call("parse_type") \in Dull /\ Call("attr_arg") \in Dull
  /\ Call("fn") \in Dull /\ Call("type") \in Dull /\ Dull \subseteq AnyTask
<1>1. \A f \in Special : Call(f) \in AnyTask
  BY DEF Call, AnyTask
<1>2. Expect("ident") \in Dull /\ Expect("{") \in Dull /\ Expect("}") \in Dull /\ Expect(":") \in Dull
  BY DullIs DEF Wanted
<1>3. Optional(",") \in Dull
  BY DullIs DEF Wanted
<1>4. Call("parse_type") \in Dull /\ Call("attr_arg") \in Dull /\ Call("fn") \in Dull /\ Call("type") \in Dull
  BY DullIs DEF DullNames
<1> QED BY <1>1, <1>2, <1>3, <1>4 DEF AnyTask

\* The start.
LEMMA AttribsModule ==
  ASSUME Core, Tree, Next, todo = <<Call("parse_module")>>, Filed(Outs, Ins, Keys, pos, <<>>, <<>>, decls)
  PROVE  Attribs'
<1>1. todo[1][1] = "parse_module" /\ Tail(todo) = <<>>
  BY ListsAre
<1>2. parse_module
  BY <1>1, SpecialDoes
<1> DEFINE W == IF Here = "module" THEN <<Expect("ident"), Optional(";")>> ELSE <<>>
<1>3. Do("parse_module", IF Here = "module" THEN 1 ELSE 0, W \o <<Call("imports"), Call("decls")>>) /\ Plain
  BY <1>1, <1>2 DEF parse_module, Do, Doing
<1>4. W \in Seq(Dull)
  BY DullIs, DullLists DEF Wanted
<1>5. Call("imports") \in Dull
  BY DullIs DEF DullNames
<1>6. Leads(todo', Decls)
  <2>1. PICK w, c, d : w = W /\ c = Call("imports") /\ d = Call("decls")
    OBVIOUS
  <2>2. todo' = (w \o <<c, d>>) \o <<>>
    BY <1>1, <1>3, <2>1 DEF Do
  <2>3. w \in Seq(Dull) /\ c \in Dull
    BY <1>4, <1>5, <2>1
  <2> HIDE DEF W
  <2>4. d \in AnyTask /\ Decls = <<d>>
    BY <2>1, TasksAre DEF Special, Decls
  <2>5. w \in Seq(AnyTask) /\ c \in AnyTask
    BY <2>3, TasksAre, SeqMonotonic
  <2>6. <<c, d>> \in Seq(AnyTask) /\ <<d>> \in Seq(AnyTask) /\ <<c>> \in Seq(Dull) /\ <<>> \in Seq(AnyTask)
    BY <2>3, <2>4, <2>5
  <2>7. todo' = w \o <<c, d>>
    <3>1. w \o <<c, d>> \in Seq(AnyTask)
      BY <2>5, <2>6, ConcatProperties
    <3> QED BY <2>2, <3>1, ConcatEmptySeq
  <2>8. <<c>> \o <<d>> = <<c, d>>
    BY InFront
  <2>9. (w \o <<c>>) \o <<d>> = w \o (<<c>> \o <<d>>)
    BY <2>5, <2>6, Regroup
  <2>10. w \o <<c>> \in Seq(Dull)
    BY <2>3, <2>6, DullConcat
  <2> QED BY <2>4, <2>7, <2>8, <2>9, <2>10 DEF Leads
<1>7. Filed(Outs, Ins, Keys, pos', <<>>, <<>>, decls)
  <2>1. CASE Here = "module"
    <3>1. Skips(1) /\ Here # "eof"
      BY <2>1, SkipOne DEF Marks, Keywords
    <3>2. pos' = pos + 1
      BY <1>3, <2>1, <3>1 DEF Do
    <3>3. PICK n \in Nat : n = pos /\ pos' = n + 1
      BY <3>2, Near
    <3>4. \A q \in n .. (n + 1) - 1 : q \notin Outs /\ q \notin Ins /\ q \notin Keys
      <4>1. \A q \in n .. (n + 1) - 1 : toks[q] \notin Marks
        BY <3>1, <3>3 DEF Skips
      <4> QED BY <4>1, MarkSets
    <3>5. n + 1 \in Nat /\ n <= n + 1
      OBVIOUS
    <3> QED BY <3>3, <3>4, <3>5, FiledSkip, MarkSets, TreeNat
  <2>2. CASE Here # "module"
    <3>1. pos' = pos
      BY <1>3, <2>2, ReadsNothing
    <3> QED BY <3>1
  <2> QED BY <2>1, <2>2
<1>8. toks' = toks /\ decls' = decls
  BY <1>3 DEF Do, Plain, tree
<1>9. Stage(Decls, Outs, Ins, Keys, pos', attrs', decls')
  BY <1>7, <1>8 DEF Stage
<1> QED BY <1>6, <1>8, <1>9, Onward

\* Between declarations.
LEMMA AttribsDecls ==
  ASSUME Core, Tree, Next, todo = Decls, Filed(Outs, Ins, Keys, pos, <<>>, <<>>, decls)
  PROVE  Attribs'
<1>1. todo[1][1] = "decls" /\ Tail(todo) = <<>>
  BY ListsAre
<1>2. parse_module
  BY <1>1, SpecialDoes
<1>3. CASE Here # "eof"
  <2>1. Do("decls", 0, InList) /\ attrs' = <<>> /\ decls' = decls
    BY <1>1, <1>2, <1>3 DEF parse_module, Do, Doing, InList
  <2>2. toks' = toks /\ pos' = pos /\ todo' = InList \o <<>>
    BY <1>1, <2>1, ReadsNothing
  <2>3. todo' = InList
    BY <2>2, ListsAre, ConcatEmptySeq
  <2>4. Leads(todo', InList)
    BY <2>3, ListsAre, LeadsTo
  <2>5. Stage(InList, Outs, Ins, Keys, pos', attrs', decls')
    BY <2>1, <2>2 DEF Stage
  <2> QED BY <2>2, <2>4, <2>5, Onward
<1>4. CASE Here = "eof"
  <2>1. Do("decls", 0, <<>>) /\ decls' = decls
    BY <1>1, <1>2, <1>4 DEF parse_module, Do, Doing, Plain, tree
  <2>2. toks' = toks /\ pos' = pos /\ todo' = <<>> \o <<>>
    BY <1>1, <2>1, ReadsNothing
  <2>3. Leads(todo', <<>>)
    BY <2>2, ListsAre, LeadsTo
  <2>5. Stage(<<>>, Outs, Ins, Keys, pos', attrs', decls')
    BY <2>1, <2>2 DEF Stage
  <2> QED BY <2>2, <2>3, <2>5, Onward
<1> QED BY <1>3, <1>4

\* In the list in front of a declaration.
LEMMA AttribsList ==
  ASSUME Core, Tree, Next, ~had_error, todo = InList, Filed(Outs, Ins, Keys, pos, attrs, <<>>, decls)
  PROVE  Attribs'
<1>1. todo[1][1] = "parse_attr_list" /\ Tail(todo) = AtDecl
  BY ListsAre
<1>2. parse_attr_list
  BY <1>1, SpecialDoes
<1> DEFINE W == <<Expect("ident"), Call("attr_arg"), Call("parse_attr_list")>>
<1>3. CASE Here = "@"
  <2>1. Do("parse_attr_list", 1, W) /\ attrs' = Append(attrs, pos) /\ decls' = decls
    BY <1>1, <1>2, <1>3 DEF parse_attr_list, Do, Doing
  <2>2. toks' = toks /\ pos' = pos + 1 /\ todo' = W \o AtDecl
    BY <1>1, <1>3, <2>1, ReadsOne
  <2>3. Leads(todo', InList)
    <3>1. PICK a, b, c, k, d : /\ a = Expect("ident") /\ b = Call("attr_arg") /\ c = Call("parse_attr_list")
                               /\ k = Call("parse_decl") /\ d = Call("decls")
      OBVIOUS
    <3>2. todo' = <<a, b, c>> \o <<k, d>> /\ InList = <<c, k, d>>
      BY <2>2, <3>1 DEF AtDecl, InList
    <3>4. <<a, b>> \in Seq(Dull) /\ c \in AnyTask /\ <<k, d>> \in Seq(AnyTask)
      <4>1. a \in Dull /\ b \in Dull /\ c \in AnyTask
        BY <3>1, TasksAre DEF Special
      <4>2. <<k, d>> \in Seq(AnyTask)
        BY <3>1, ListsAre DEF AtDecl
      <4> QED BY <4>1, <4>2, DullLists
    <3>5. <<a, b>> \o <<c>> = <<a, b, c>> /\ <<c>> \o <<k, d>> = <<c, k, d>>
      BY Longer, InFront
    <3>6. Leads((<<a, b>> \o <<c>>) \o <<k, d>>, <<c>> \o <<k, d>>)
      BY <3>4, LeadsOver
    <3> QED BY <3>2, <3>5, <3>6
  <2>4. Filed(Outs, Ins, Keys, pos + 1, Append(attrs, pos), <<>>, decls)
    <3>1. pos \in Outs /\ pos \notin Ins /\ pos \notin Keys
      BY <1>3, ReadOut, MarkSets
    <3> QED BY <3>1, FiledFront, MarkSets, TreeNat, Near
  <2>5. Stage(InList, Outs, Ins, Keys, pos', attrs', decls')
    BY <2>1, <2>2, <2>4 DEF Stage
  <2> QED BY <2>2, <2>3, <2>5, Onward
<1>4. CASE Here # "@"
  <2>1. Do("parse_attr_list", 0, <<>>) /\ attrs' = attrs /\ decls' = decls
    BY <1>1, <1>2, <1>4 DEF parse_attr_list, Do, Doing, Plain, tree
  <2>2. toks' = toks /\ pos' = pos /\ todo' = <<>> \o AtDecl
    BY <1>1, <2>1, ReadsNothing
  <2>3. Leads(todo', AtDecl)
    BY <2>2, ListsAre, LeadsTo
  <2>5. Stage(AtDecl, Outs, Ins, Keys, pos', attrs', decls')
    BY <2>1, <2>2 DEF Stage
  <2> QED BY <2>2, <2>3, <2>5, Onward
<1> QED BY <1>3, <1>4

\* At a declaration.
LEMMA AttribsDecl ==
  ASSUME Core, Tree, Next, ~had_error', todo = AtDecl, Filed(Outs, Ins, Keys, pos, attrs, <<>>, decls)
  PROVE  Attribs'
<1>1. todo[1][1] = "parse_decl" /\ Tail(todo) = Decls
  BY ListsAre
<1>2. parse_decl
  BY <1>1, SpecialDoes
<1>3. PICK e : e = [at |-> pos, attrs |-> attrs, invariants |-> <<>>]
  OBVIOUS
<1>4. /\ Here \in Keywords /\ Do("parse_decl", 1, <<Expect("ident"), Call(Here)>>)
      /\ decls' = Append(decls, e)
  BY <1>2, <1>3 DEF parse_decl, Error
<1>5. Here # "eof"
  BY <1>4 DEF Keywords
<1>6. toks' = toks /\ pos' = pos + 1 /\ todo' = <<Expect("ident"), Call(Here)>> \o Decls
  BY <1>1, <1>4, <1>5, ReadsOne
<1>7. pos \in Keys /\ pos \notin Outs /\ pos \notin Ins
  <2>1. pos \in Positions
    BY Places, Near
  <2>2. pos \in Keys
    BY <1>4, <2>1 DEF Keys, Here
  <2> QED BY <2>2, MarkSets
<1>8. Filed(Outs, Ins, Keys, pos', <<>>, <<>>, decls')
  BY <1>3, <1>4, <1>6, <1>7, FiledDecl, MarkSets, TreeNat, Near
<1>9. decls' # <<>>
  <2>1. e \in Decl
    <3>1. pos \in Nat /\ attrs \in Seq(Nat) /\ <<>> \in Seq(Nat)
      BY Near, TreeNat
    <3> QED BY <1>3, <3>1 DEF Decl
  <2>2. PICK n \in Nat : n = Len(decls) /\ Len(decls') = n + 1
    <3>1. decls \in Seq(Decl) /\ Len(decls) \in Nat
      BY TreeNat, LenProperties
    <3>2. Len(Append(decls, e)) = Len(decls) + 1
      BY <2>1, <3>1, AppendProperties
    <3> QED BY <1>4, <3>1, <3>2
  <2>3. Len(decls') # 0
    BY <2>2
  <2>4. Len(<<>>) = 0
    OBVIOUS
  <2> QED BY <2>3, <2>4
<1>10. PICK x, c, d : x = Expect("ident") /\ c = Call(Here) /\ d = Call("decls")
  OBVIOUS
<1>11. x \in Dull /\ <<x>> \in Seq(Dull) /\ d \in AnyTask
  BY <1>10, TasksAre, DullLists DEF Special
<1>12. todo' = <<x, c>> \o <<d>> /\ Decls = <<d>>
  BY <1>6, <1>10 DEF Decls
<1>13. CASE Here = "struct"
  <2>1. c \in AnyTask /\ AtStruct = <<c, d>> /\ <<d>> \in Seq(AnyTask)
    <3>1. c = Call("struct")
      BY <1>10, <1>13
    <3>2. c \in AnyTask
      BY <3>1, TasksAre DEF Special
    <3>3. AtStruct = <<c, d>>
      BY <1>10, <3>1 DEF AtStruct
    <3>4. <<d>> \in Seq(AnyTask)
      BY <1>11
    <3> QED BY <3>2, <3>3, <3>4
  <2>2. <<x>> \o <<c>> = <<x, c>> /\ <<c>> \o <<d>> = <<c, d>>
    BY Longer
  <2>3. Leads((<<x>> \o <<c>>) \o <<d>>, <<c>> \o <<d>>)
    BY <1>11, <2>1, LeadsOver
  <2>4. Leads(todo', AtStruct)
    BY <1>12, <2>1, <2>2, <2>3
  <2>5. Stage(AtStruct, Outs, Ins, Keys, pos', attrs', decls')
    BY <1>8, <1>9 DEF Stage
  <2> QED BY <1>6, <2>4, <2>5, Onward
<1>14. CASE Here # "struct"
  <2>1. c \in Dull
    BY <1>4, <1>10, <1>14, TasksAre DEF Keywords
  <2>2. <<x, c>> \in Seq(Dull)
    BY <1>11, <2>1, DullLists
  <2>3. Leads(todo', Decls)
    BY <1>12, <2>2, ListsAre, LeadsTo
  <2>4. Stage(Decls, Outs, Ins, Keys, pos', attrs', decls')
    BY <1>8 DEF Stage
  <2> QED BY <1>6, <2>3, <2>4, Onward
<1> QED BY <1>13, <1>14

\* At a struct.
LEMMA AttribsStruct ==
  ASSUME Core, Tree, Next, todo = AtStruct, decls # <<>>, Filed(Outs, Ins, Keys, pos, <<>>, <<>>, decls)
  PROVE  Attribs'
<1>1. todo[1][1] = "struct" /\ Tail(todo) = Decls
  BY ListsAre
<1>2. parse_struct
  BY <1>1, SpecialDoes
<1>3. Do("struct", 0, <<Expect("{"), Call("members"), Expect("}")>>) /\ decls' = decls
  BY <1>1, <1>2 DEF parse_struct, parse_struct_list, Do, Doing, Plain, tree
<1>4. toks' = toks /\ pos' = pos /\ todo' = <<Expect("{"), Call("members"), Expect("}")>> \o Decls
  BY <1>1, <1>3, ReadsNothing
<1>5. PICK x, b, e, d : x = Expect("{") /\ b = Call("members") /\ e = Expect("}") /\ d = Call("decls")
  OBVIOUS
<1>6. todo' = <<x, b, e>> \o <<d>> /\ AtMember = <<b, e, d>>
  BY <1>4, <1>5 DEF Decls, AtMember
<1>7. <<x, b, e>> \o <<d>> = <<x, b, e, d>> /\ <<x>> \o <<b, e, d>> = <<x, b, e, d>>
  BY Longer, InFront
<1>8. <<x>> \in Seq(Dull)
  BY <1>5, TasksAre, DullLists
<1>9. Leads(todo', AtMember)
  BY <1>6, <1>7, <1>8 DEF Leads
<1>10. Stage(AtMember, Outs, Ins, Keys, pos', attrs', decls')
  BY <1>3, <1>4 DEF Stage
<1> QED BY <1>4, <1>9, <1>10, Onward

\* At a member.
LEMMA AttribsMember ==
  ASSUME Core, Tree, Next, todo = AtMember, decls # <<>>, Filed(Outs, Ins, Keys, pos, <<>>, <<>>, decls)
  PROVE  Attribs'
<1>1. todo[1][1] = "members" /\ Tail(todo) = <<Expect("}"), Call("decls")>>
  BY ListsAre
<1>2. parse_struct
  BY <1>1, SpecialDoes
<1>3. PICK e, d, m, i, l : /\ e = Expect("}") /\ d = Call("decls") /\ m = Call("members")
                           /\ i = Call("invariants") /\ l = Call("parse_attr_list")
  OBVIOUS
<1>4. e \in Dull /\ d \in AnyTask /\ m \in AnyTask /\ Tail(todo) = <<e, d>>
  BY <1>1, <1>3, TasksAre DEF Special
<1>5. Decls = <<d>> /\ AtMember = <<m, e, d>> /\ InMemberList = <<l, i, m, e, d>>
  BY <1>3 DEF Decls, AtMember, InMemberList
<1>6. e \in AnyTask /\ <<e, d>> \in Seq(AnyTask)
  <2>1. e \in AnyTask
    BY <1>4, TasksAre
  <2> QED BY <1>4, <2>1
<1>7. CASE AtClose
  <2>1. Do("members", 0, <<>>) /\ decls' = decls
    BY <1>1, <1>2, <1>7 DEF parse_struct, parse_struct_list, Do, Doing, Plain, tree, AtClose
  <2>2. toks' = toks /\ pos' = pos /\ todo' = <<>> \o <<e, d>>
    BY <1>4, <2>1, ReadsNothing
  <2>3. <<>> \o <<e, d>> = <<e, d>> /\ <<e>> \o <<d>> = <<e, d>>
    BY <1>6, LeadsTo, Longer
  <2>4. <<e>> \in Seq(Dull)
    BY <1>4, DullLists
  <2>5. Leads(todo', Decls)
    BY <1>5, <2>2, <2>3, <2>4 DEF Leads
  <2>6. Stage(Decls, Outs, Ins, Keys, pos', attrs', decls')
    BY <2>1, <2>2 DEF Stage
  <2> QED BY <2>2, <2>5, <2>6, Onward
<1>8. CASE ~AtClose /\ Here = "@"
  <2>1. Do("members", 0, <<l, i, m>>) /\ attrs' = <<>> /\ decls' = decls
    BY <1>1, <1>2, <1>3, <1>8 DEF parse_struct, parse_struct_list, Do, Doing
  <2>2. toks' = toks /\ pos' = pos /\ todo' = <<l, i, m>> \o <<e, d>>
    BY <1>4, <2>1, ReadsNothing
  <2>3. todo' = InMemberList
    BY <1>5, <2>2, Glue
  <2>4. Leads(todo', InMemberList)
    BY <2>3, ListsAre, LeadsTo
  <2>5. Stage(InMemberList, Outs, Ins, Keys, pos', attrs', decls')
    BY <2>1, <2>2 DEF Stage
  <2> QED BY <2>2, <2>4, <2>5, Onward
<1>9. CASE ~AtClose /\ Here # "@"
  <2>1. PICK a, b, c, o : a = Expect("ident") /\ b = Expect(":") /\ c = Call("parse_type") /\ o = Optional(",")
    OBVIOUS
  <2>2. Do("members", 0, <<a, b, c, o, m>>) /\ decls' = decls
    BY <1>1, <1>2, <1>3, <1>9, <2>1 DEF parse_struct, parse_struct_list, Do, Doing, Plain, tree
  <2>3. toks' = toks /\ pos' = pos /\ todo' = <<a, b, c, o, m>> \o <<e, d>>
    BY <1>4, <2>2, ReadsNothing
  <2>4. <<a, b, c, o>> \in Seq(Dull)
    BY <2>1, TasksAre, DullLists
  <2>5. <<a, b, c, o>> \o <<m>> = <<a, b, c, o, m>> /\ <<m>> \o <<e, d>> = <<m, e, d>>
    BY Longer, InFront
  <2>6. Leads((<<a, b, c, o>> \o <<m>>) \o <<e, d>>, <<m>> \o <<e, d>>)
    BY <1>4, <1>6, <2>4, LeadsOver
  <2>7. Leads(todo', AtMember)
    BY <1>5, <2>3, <2>5, <2>6
  <2>8. Stage(AtMember, Outs, Ins, Keys, pos', attrs', decls')
    BY <2>2, <2>3 DEF Stage
  <2> QED BY <2>3, <2>7, <2>8, Onward
<1> QED BY <1>7, <1>8, <1>9

\* In a list inside a struct.
LEMMA AttribsMemberList ==
  ASSUME Core, Tree, Next, ~had_error, todo = InMemberList, decls # <<>>,
         Filed(Outs, Ins, Keys, pos, <<>>, attrs, decls)
  PROVE  Attribs'
<1>1. todo[1][1] = "parse_attr_list" /\ Tail(todo) = AtMemberListEnd
  BY ListsAre
<1>2. parse_attr_list
  BY <1>1, SpecialDoes
<1>3. CASE Here = "@"
  <2>1. PICK a, b, c, y : /\ a = Expect("ident") /\ b = Call("attr_arg") /\ c = Call("parse_attr_list")
                          /\ y = AtMemberListEnd
    OBVIOUS
  <2>2. Do("parse_attr_list", 1, <<a, b, c>>) /\ attrs' = Append(attrs, pos) /\ decls' = decls
    BY <1>1, <1>2, <1>3, <2>1 DEF parse_attr_list, Do, Doing
  <2>3. toks' = toks /\ pos' = pos + 1 /\ todo' = <<a, b, c>> \o y
    BY <1>1, <1>3, <2>1, <2>2, ReadsOne
  <2>4. c \in AnyTask /\ a \in Dull /\ b \in Dull /\ y \in Seq(AnyTask)
    BY <2>1, TasksAre, ListsAre DEF Special
  <2>5. <<c>> \o y = InMemberList
    <3>1. PICK i, m, e, d : i = Call("invariants") /\ m = Call("members") /\ e = Expect("}") /\ d = Call("decls")
      OBVIOUS
    <3>2. y = <<i, m, e, d>> /\ InMemberList = <<c, i, m, e, d>>
      BY <2>1, <3>1 DEF AtMemberListEnd, InMemberList
    <3> QED BY <3>2, InFront
  <2>6. <<a, b>> \in Seq(Dull) /\ <<a, b>> \o <<c>> = <<a, b, c>>
    BY <2>4, DullLists, Longer
  <2>7. Leads((<<a, b>> \o <<c>>) \o y, <<c>> \o y)
    BY <2>4, <2>6, LeadsOver
  <2>8. Leads(todo', InMemberList)
    BY <2>3, <2>5, <2>6, <2>7
  <2>9. Filed(Outs, Ins, Keys, pos + 1, <<>>, Append(attrs, pos), decls)
    <3>1. pos \in Ins /\ pos \notin Outs /\ pos \notin Keys
      BY <1>3, ReadIn, MarkSets
    <3> QED BY <3>1, FiledInner, MarkSets, TreeNat, Near
  <2>10. Stage(InMemberList, Outs, Ins, Keys, pos', attrs', decls')
    BY <2>2, <2>3, <2>9 DEF Stage
  <2> QED BY <2>3, <2>8, <2>10, Onward
<1>4. CASE Here # "@"
  <2>1. Do("parse_attr_list", 0, <<>>) /\ attrs' = attrs /\ decls' = decls
    BY <1>1, <1>2, <1>4 DEF parse_attr_list, Do, Doing, Plain, tree
  <2>2. toks' = toks /\ pos' = pos /\ todo' = <<>> \o AtMemberListEnd
    BY <1>1, <2>1, ReadsNothing
  <2>3. Leads(todo', AtMemberListEnd)
    BY <2>2, ListsAre, LeadsTo
  <2>4. Stage(AtMemberListEnd, Outs, Ins, Keys, pos', attrs', decls')
    BY <2>1, <2>2 DEF Stage
  <2> QED BY <2>2, <2>3, <2>4, Onward
<1> QED BY <1>3, <1>4

\* At its end.
LEMMA AttribsMemberListEnd ==
  ASSUME Core, Tree, Next, todo = AtMemberListEnd, decls # <<>>,
         Filed(Outs, Ins, Keys, pos, <<>>, attrs, decls)
  PROVE  Attribs'
<1>1. todo[1][1] = "invariants" /\ Tail(todo) = AtMember
  BY ListsAre
<1>2. parse_struct
  BY <1>1, SpecialDoes
<1>3. Do("invariants", 0, <<>>) /\ decls' = [decls EXCEPT ![Len(decls)].invariants = @ \o attrs]
  BY <1>1, <1>2 DEF parse_struct, parse_struct_list, Do, Doing
<1>4. toks' = toks /\ pos' = pos /\ todo' = <<>> \o AtMember
  BY <1>1, <1>3, ReadsNothing
<1>5. Leads(todo', AtMember)
  BY <1>4, ListsAre, LeadsTo
<1>6. Filed(Outs, Ins, Keys, pos, <<>>, <<>>, decls')
  BY <1>3, FiledInvariants, MarkSets, TreeNat, Near
<1>7. decls' # <<>>
  <2>1. DOMAIN decls' = DOMAIN decls
    BY <1>3
  <2>2. PICK n \in Nat : n = Len(decls) /\ n # 0 /\ DOMAIN decls = 1 .. n
    BY TreeNat, EmptySeq, LenProperties
  <2>3. 1 \in DOMAIN decls'
    BY <2>1, <2>2
  <2>4. DOMAIN <<>> = {}
    OBVIOUS
  <2> QED BY <2>3, <2>4
<1>8. Stage(AtMember, Outs, Ins, Keys, pos', attrs', decls')
  BY <1>4, <1>6, <1>7 DEF Stage
<1> QED BY <1>4, <1>5, <1>8, Onward

\* It holds at first.
LEMMA AttribsInit == Init => Attribs
<1> SUFFICES ASSUME Init PROVE Attribs
  OBVIOUS
<1>1. Core
  BY CoreInit
<1>2. pos = 1 /\ todo = <<Call("parse_module")>> /\ attrs = <<>> /\ decls = <<>>
  BY DEF Init
<1>3. Leads(todo, <<Call("parse_module")>>)
  BY <1>2, ListsAre, LeadsTo
<1>4. \A q \in Outs \cup Ins : q \in Nat /\ q >= 1
  BY <1>1, MarkSets
<1>5. Filed(Outs, Ins, Keys, pos, <<>>, <<>>, decls)
  BY <1>2, <1>4, FiledNone
<1>6. Stage(<<Call("parse_module")>>, Outs, Ins, Keys, pos, attrs, decls)
  BY <1>5 DEF Stage
<1> QED BY <1>3, <1>6 DEF Attribs

\* A step does a task.
LEMMA SomethingToDo == Next => todo # <<>>
<1> SUFFICES ASSUME Next PROVE \E f : Doing(f)
  BY DEF Doing
<1>1. (\/ parse_primary \/ expect \/ match \/ parse_type \/ suppress \/ release \/ fields
       \/ parse_call_or_postfix \/ parse_precedence \/ operators \/ node) => \E f : Doing(f)
  BY Does, Zenon
<1>2. (\/ Compound \/ Simple \/ parse_let \/ parse_block \/ parse_attr_list \/ parse_decl
       \/ parse_fn \/ parse_struct \/ parse_type_alias \/ parse_module) => \E f : Doing(f)
  BY Does, Zenon
<1> QED BY <1>1, <1>2 DEF Next

\* A special step keeps it.
LEMMA AttribsSpecial ==
  ASSUME Core, Tree, Attribs, Next, ~had_error, ~had_error', todo # <<>>, todo[1][1] \in Special
  PROVE  Attribs'
<1>1. PICK u : Leads(todo, u) /\ Stage(u, Outs, Ins, Keys, pos, attrs, decls)
  BY DEF Attribs
<1>2. u \in Seq(AnyTask)
  BY <1>1, ListsAre DEF Stage
<1>3. todo = u
  BY <1>1, <1>2, LeadsSpecial
<1>4. Stage(todo, Outs, Ins, Keys, pos, attrs, decls)
  BY <1>1, <1>3
<1>5. \/ todo \in {<<>>, <<Call("parse_module")>>, Decls} /\ Filed(Outs, Ins, Keys, pos, <<>>, <<>>, decls)
      \/ todo \in {InList, AtDecl} /\ Filed(Outs, Ins, Keys, pos, attrs, <<>>, decls)
      \/ todo \in {AtStruct, AtMember} /\ decls # <<>> /\ Filed(Outs, Ins, Keys, pos, <<>>, <<>>, decls)
      \/ todo \in {InMemberList, AtMemberListEnd} /\ decls # <<>>
         /\ Filed(Outs, Ins, Keys, pos, <<>>, attrs, decls)
  BY <1>4, Zenon DEF Stage
<1> QED BY <1>5, AttribsModule, AttribsDecls, AttribsList, AttribsDecl, AttribsStruct, AttribsMember,
          AttribsMemberList, AttribsMemberListEnd

\* Every step keeps it.
LEMMA AttribsNext == PInv /\ Attribs /\ [Next]_vars => Attribs'
<1> SUFFICES ASSUME PInv, Attribs, [Next]_vars PROVE Attribs'
  OBVIOUS
<1>1. Core /\ Tree
  BY DEF PInv
<1>2. CASE Next
  <2>1. CASE had_error'
    BY <2>1 DEF Attribs
  <2>2. CASE ~had_error'
    <3>1. ~had_error
      BY <1>2, <2>2, ErrorStays
    <3>2. todo # <<>>
      BY <1>2, SomethingToDo
    <3>3. CASE todo[1][1] \in Special
      BY <1>1, <1>2, <2>2, <3>1, <3>2, <3>3, AttribsSpecial
    <3>4. CASE todo[1][1] \notin Special
      <4>1. Quiet
        BY <1>1, <1>2, <2>2, <3>4, QuietNext
      <4> QED BY <1>1, <3>1, <3>2, <3>4, <4>1, QuietKeeps
    <3> QED BY <3>3, <3>4
  <2> QED BY <2>1, <2>2
<1>3. CASE UNCHANGED vars
  <2>1. /\ toks' = toks /\ pos' = pos /\ todo' = todo /\ had_error' = had_error
        /\ attrs' = attrs /\ decls' = decls
    BY <1>3 DEF vars, tree
  <2>2. CASE had_error
    BY <2>1, <2>2 DEF Attribs
  <2>3. CASE ~had_error
    <3>1. PICK u : Leads(todo, u) /\ Stage(u, Outs, Ins, Keys, pos, attrs, decls)
      BY <2>3 DEF Attribs
    <3>2. Leads(todo', u) /\ Stage(u, Outs, Ins, Keys, pos', attrs', decls')
      BY <2>1, <3>1
    <3> QED BY <2>1, <3>2, Onward
  <2> QED BY <2>2, <2>3
<1> QED BY <1>2, <1>3

\* It holds always.
LEMMA AttribsAlways == Spec => [](PInv /\ Attribs)
<1>1. Init => PInv /\ Attribs
  BY PInvInit, AttribsInit
<1>2. (PInv /\ Attribs) /\ [Next]_vars => (PInv /\ Attribs)'
  BY PInvNext, AttribsNext
<1> QED BY <1>1, <1>2, PTL DEF Spec

\* At the end of a text that is accepted everything has been filed.
LEMMA AllFiled ==
  ASSUME PInv, Attribs, todo = <<>>, ~had_error
  PROVE  Filed(Outs, Ins, Keys, Len(toks), <<>>, <<>>, decls)
<1>1. Core /\ Bottom /\ todo # <<Call("parse_module")>>
  BY DEF PInv
<1>2. toks[pos] = "eof"
  BY <1>1 DEF Bottom, Here
<1>3. pos = Len(toks)
  <2>1. pos \in 1 .. Len(toks)
    BY <1>1 DEF Core
  <2> QED BY <1>1, <1>2, <2>1, TextAt
<1>4. PICK u : Leads(<<>>, u) /\ Stage(u, Outs, Ins, Keys, pos, attrs, decls)
  BY DEF Attribs
<1>5. u \in Seq(AnyTask)
  BY <1>4, ListsAre DEF Stage
<1>6. u = <<>>
  <2>1. PICK w \in Seq(Dull) : <<>> = w \o u
    BY <1>4 DEF Leads
  <2>2. w \in Seq(AnyTask)
    BY TasksAre, SeqMonotonic
  <2>3. PICK n \in Nat, k \in Nat : n = Len(w) /\ k = Len(u)
    BY <1>5, <2>2, LenProperties
  <2>4. Len(w \o u) = n + k
    <3>1. Len(w \o u) = Len(w) + Len(u)
      BY <1>5, <2>2, ConcatProperties
    <3> QED BY <2>3, <3>1
  <2>5. Len(<<>>) = 0
    OBVIOUS
  <2>6. n + k = 0
    BY <2>1, <2>4, <2>5
  <2>7. k = 0
    BY <2>6
  <2> QED BY <1>5, <2>3, <2>7, EmptySeq
<1>7. Filed(Outs, Ins, Keys, pos, <<>>, <<>>, decls)
  BY <1>4, <1>6, ListsAre DEF Stage
<1> QED BY <1>3, <1>7

\* Then each of them is where it belongs.
LEMMA FiledKept == PInv /\ Attribs => AttributesKept
<1> DEFINE On(d, inside) == {q \in Positions : toks[q] = "@" /\ Inside(q) = inside /\ Home(q) = decls[d].at}
<1> SUFFICES ASSUME PInv, Attribs, todo = <<>>, ~had_error, NEW d \in DOMAIN decls
             PROVE  InOrder(decls[d].attrs, On(d, FALSE)) /\ InOrder(decls[d].invariants, On(d, TRUE))
  BY DEF AttributesKept, Accepted, Done
<1> HIDE DEF On
<1>1. Core /\ Tree
  BY DEF PInv
<1>2. Filed(Outs, Ins, Keys, Len(toks), <<>>, <<>>, decls)
  BY AllFiled
<1>3. PICK n \in Nat : n = Len(toks)
  BY <1>1, TextAt
<1>4. decls \in Seq(Decl) /\ d \in 1 .. Len(decls)
  BY <1>1, TreeNat, LenProperties
<1>5. PICK p : p = decls[d].at
  OBVIOUS
<1>6. /\ p \in Keys /\ InOrder(decls[d].attrs, Loose(Outs, Keys, p))
      /\ InOrder(Own(decls, d, <<>>), Within(Ins, Keys, p, n))
  BY <1>2, <1>3, <1>4, <1>5 DEF Filed
<1>7. \A q \in Outs \cup Ins \cup Keys : q \in Nat /\ q < n
  BY <1>1, <1>3, MarkSets
<1>8. \A q : Inside(q) = FALSE <=> ~Inside(q)
  BY SMT DEF Inside
<1>9. \A q : Inside(q) = TRUE <=> Inside(q)
  BY Zenon DEF Inside
<1>10. \A q : q \in On(d, FALSE) <=> q \in Outs /\ Home(q) = p
  BY <1>5, <1>8, Zenon DEF On, Outs
<1>11. \A q : q \in On(d, TRUE) <=> q \in Ins /\ Home(q) = p
  BY <1>5, <1>9, Zenon DEF On, Ins
<1>12. On(d, FALSE) = Loose(Outs, Keys, p)
  <2>1. ASSUME NEW q \in Outs PROVE Home(q) = p <=> q \in Loose(Outs, Keys, p)
    <3>1. PICK k \in Keys : q <= k
      <4>1. Loose(Outs, Keys, n) = {}
        BY <1>2, <1>3, InOrderNone DEF Filed
      <4>2. q < n
        BY <1>7
      <4> QED BY <4>1, <4>2 DEF Loose
    <3>2. Home(q) = p <=> q < p /\ \A r \in Keys : ~(q <= r /\ r < p)
      BY <1>1, <1>6, <3>1, HomeOut
    <3> QED BY <3>2 DEF Loose
  <2>2. \A q \in Loose(Outs, Keys, p) : q \in Outs
    BY DEF Loose
  <2> QED BY <1>10, <2>1, <2>2
<1>13. On(d, TRUE) = Within(Ins, Keys, p, n)
  <2>1. ASSUME NEW q \in Ins PROVE Home(q) = p <=> q \in Within(Ins, Keys, p, n)
    <3>1. q < n
      BY <1>7
    <3>2. PICK k \in Keys : k < q
      BY <1>2, <1>3, <3>1 DEF Filed
    <3>3. Home(q) = p <=> p < q /\ \A r \in Keys : ~(p < r /\ r <= q)
      BY <1>1, <1>6, <3>2, HomeIn
    <3> QED BY <3>1, <3>3 DEF Within
  <2>2. \A q \in Within(Ins, Keys, p, n) : q \in Ins
    BY DEF Within
  <2> QED BY <1>11, <2>1, <2>2
<1>14. Own(decls, d, <<>>) = decls[d].invariants
  <2>1. decls[d] \in Decl
    BY <1>4, ElementOfSeq
  <2>2. PICK v \in Seq(Nat) : v = decls[d].invariants
    BY <2>1 DEF Decl
  <2>3. v \o <<>> = v
    BY ConcatEmptySeq
  <2> QED BY <2>2, <2>3 DEF Own
<1> QED BY <1>6, <1>12, <1>13, <1>14

\* Each attribute ends up, in order, on the declaration it stands in front of,
\* or among the invariants of the struct it stands in (parser.c 591-618, 667-672).
THEOREM AttributesCorrect == Spec => []AttributesKept
BY AttribsAlways, FiledKept, PTL
=============================================================================

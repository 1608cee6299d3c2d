------------------------------- MODULE Printer -------------------------------
(* How `vanta parse` writes expressions (print_expr of ast.c), as the kinds   *)
(* of the tokens that a reader, or the parser, sees in the output.  Next to   *)
(* the tokens stands what each operator of the tree spans in them, in the     *)
(* form in which the parser of the module Parser keeps its nodes.             *)
EXTENDS Parser

Seqs == INSTANCE SequencesExt

CONSTANTS Trees,    \* expressions, as the parser builds them
          Before,   \* a place in a module where an expression statement may
          After,    \*   stand: the tokens in front of it and behind it
          BeforeIf, \* a place for a condition
          AfterIf

\* An expression: what it is, its operator (of an atom, its token), its parts.
Node(is, op, parts) == [is |-> is, op |-> op, parts |-> parts]
Atom(kind) == Node("atom", kind, <<>>)
Unop(op, e) == Node("unary", op, <<e>>)
Binop(op, l, r) == Node("binary", op, <<l, r>>)
AssignExpr(l, r) == Node("assign", "=", <<l, r>>)
RangeOf(lo, hi) == Node("range", "..", <<lo, hi>>)
IndexExpr(b, i) == Node("index", "", <<b, i>>)
FieldExpr(b) == Node("field", "", <<b>>)
CallExpr(f, args) == Node("call", "", <<f>> \o args)
LitExpr(inits) == Node("struct_lit", "", inits)
OldExpr(e) == Node("old", "", <<e>>)
-----------------------------------------------------------------------------
\* An ampersand right before another one is read as a logical and.
Prefixed(op, s) == CASE op = "&" /\ s[1] = "&"  -> <<"&&">> \o Tail(s)
                     [] op = "&" /\ s[1] = "&&" -> <<"&&", "&">> \o Tail(s)
                     [] OTHER -> <<op>> \o s

\* The printer has a table of its own.
op_prec == [k \in DOMAIN Prec \ {"=", ".."} |->
              CASE k = "||" -> 1 [] k = "&&" -> 2 [] k = "|" -> 3 [] k = "^" -> 4 [] k = "&" -> 5
                [] k = "==" -> 6 [] k = "<" -> 7  [] k = "<<" -> 8
                [] k \in {"+", "-"} -> 9 [] k = "*" -> 10]

expr_prec(e) == IF e.is = "binary" THEN op_prec[e.op] ELSE 99

\* Mutant: no parentheses where the levels are the same.
Parenthesised_same(e, parent_prec) == expr_prec(e) < parent_prec - 1

Parenthesised(e, parent_prec) == expr_prec(e) < parent_prec

Separated(texts) ==
  Seqs!FlattenSeq([i \in DOMAIN texts |-> IF i = 1 THEN texts[1] ELSE <<",">> \o texts[i]])

RECURSIVE print_expr(_)
print_sub(e, parent_prec) ==
  IF Parenthesised(e, parent_prec) THEN <<"(">> \o print_expr(e) \o <<")">> ELSE print_expr(e)
\* The parts of e as they stand in the text; parentheses may be around the operands
\* of binary operators only.
Part(e, i) == IF e.is = "binary" THEN print_sub(e.parts[i], op_prec[e.op] + i - 1)
                                 ELSE print_expr(e.parts[i])
print_expr(e) ==
  CASE e.is = "atom" -> <<e.op>>
    [] e.is = "unary" -> Prefixed(e.op, Part(e, 1))
    [] e.is \in {"binary", "assign", "range"} -> Part(e, 1) \o <<e.op>> \o Part(e, 2)
    [] e.is = "call" -> Part(e, 1) \o <<"(">>
                        \o Separated([i \in 1 .. Len(e.parts) - 1 |-> Part(e, i + 1)]) \o <<")">>
    [] e.is = "index" -> Part(e, 1) \o <<"[">> \o Part(e, 2) \o <<"]">>
    [] e.is = "field" -> Part(e, 1) \o <<".", "ident">>
    [] e.is = "struct_lit" ->
         <<"ident", "{">> \o Separated([i \in DOMAIN e.parts |-> <<"ident", "=">> \o Part(e, i)]) \o <<"}">>
    [] e.is = "old" -> <<"old", "(">> \o Part(e, 1) \o <<")">>
-----------------------------------------------------------------------------
\* What the operators of e span in its text, when that begins at p: a part stands
\* behind the tokens in front of the first one, the parts before it and those between.
InFront(e) == CASE e.is = "unary" -> 1 [] e.is = "old" -> 2 [] e.is = "struct_lit" -> 4 [] OTHER -> 0
Between(e) == IF e.is = "struct_lit" THEN 3 ELSE 1
Offset(e, i) ==
  LET o[j \in 1 .. i] == IF j = 1 THEN InFront(e) ELSE o[j - 1] + Len(Part(e, j - 1)) + Between(e)
  IN o[i]
Opening(e, i) == IF Part(e, i) = print_expr(e.parts[i]) THEN 0 ELSE 1

RECURSIVE Spans(_, _)
Spans(e, p) ==
  (IF e.is \notin {"unary", "binary", "assign", "range"} THEN {}
   ELSE {[first |-> p, at |-> p + IF e.is = "unary" THEN 0 ELSE Len(Part(e, 1)),
          last |-> p + Len(print_expr(e)) - 1]})
  \cup UNION {Spans(e.parts[i], p + Offset(e, i) + Opening(e, i)) : i \in DOMAIN e.parts}

\* The texts of all trees in both places.
Written(before, after, cond) ==
  {[expr |-> e, cond |-> cond, at |-> Len(before) + 1, toks |-> before \o print_expr(e) \o after] : e \in Trees}
Output == Written(Before, After, FALSE) \cup Written(BeforeIf, AfterIf, TRUE)
-----------------------------------------------------------------------------
(* Which expressions the output tells apart, by the grammar of the language. *)

\* How strongly an expression holds together, and what it takes to be the
\* i-th part of e without parentheses.
Holds(e) == CASE e.is \in {"binary", "assign", "range"} -> Prec[e.op]
              [] e.is = "unary" -> UNARY
              [] OTHER -> UNARY + 1
Takes(e, i) == CASE e.is \in {"binary", "range"} -> IF i = 1 THEN Prec[e.op] ELSE Prec[e.op] + 1
                 [] e.is = "assign" -> IF i = 1 THEN ASSIGN + 1 ELSE ASSIGN
                 [] e.is = "unary" -> UNARY
                 [] e.is \in {"call", "index", "field"} /\ i = 1 -> UNARY + 1
                 [] OTHER -> ASSIGN

\* Binary operators in one another get parentheses; otherwise the parts of e
\* hold together where they stand, and no two ampersands meet.
RECURSIVE Clear(_)
Clear(e) ==
  /\ \A i \in DOMAIN e.parts : Clear(e.parts[i])
  /\ \A i \in DOMAIN e.parts : \/ e.is = "binary" /\ e.parts[i].is = "binary"
                               \/ Holds(e.parts[i]) >= Takes(e, i)
  /\ e.is = "unary" /\ e.op = "&" => ~(e.parts[1].is = "unary" /\ e.parts[1].op = "&")

\* A struct literal outside of the parentheses that the printer writes around
\* an operand; in a condition it is not read as one.
RECURSIVE Bare(_)
Bare(e) ==
  \/ e.is = "struct_lit"
  \/ e.is = "binary" /\ \E i \in {1, 2} : /\ Bare(e.parts[i])
                                          /\ ~Parenthesised(e.parts[i], op_prec[e.op] + i - 1)
  \/ e.is \notin {"binary", "old"} /\ \E i \in DOMAIN e.parts : Bare(e.parts[i])
  \/ e.is = "old" /\ Bare(e.parts[1])

\* What is printed is read back, by the parser, as the tree that was printed: if
\* and only if its operators hold together as they stand; print_sub keeps binary
\* operators apart, and nothing keeps the others (ast.c 109-140 against
\* parser.c 345-383).  In a condition a struct literal has to stand in parentheses.
PrintedReadBack ==
  Done => \A o \in Output : toks = o.toks =>
            (~had_error /\ nodes = Spans(o.expr, o.at)
             <=> Clear(o.expr) /\ (o.cond => ~Bare(o.expr)))
=============================================================================

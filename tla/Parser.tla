-------------------------------- MODULE Parser --------------------------------
(* The recursive-descent parser (parser.c) on strings of token kinds.  The C  *)
(* stack is `todo`: the calls, and the rests of calls, that are still to do,  *)
(* the next one first.  Every parse function is an action that looks at the   *)
(* tokens as the function does, consumes what it consumes and puts the calls  *)
(* it makes in front.  What is kept of the tree is what each operator spans   *)
(* and which attributes each declaration got.                                 *)
EXTENDS Integers, Sequences, FiniteSets

CONSTANTS WellFormed,   \* modules of the language
          Inputs        \* what the parser is run on; both end in "eof"

\* op_precedence; "=", "==", "<", "<<" and "*" stand for all of their level.
\* Calls, indexes and fields are postfix.
UNARY == 13
Prec == [k \in {"=", "||", "&&", "|", "^", "&", "==", "<", "..", "<<", "+", "-", "*"} |->
           CASE k = "=" -> 1    [] k = "||" -> 2  [] k = "&&" -> 3  [] k = "|" -> 4
             [] k = "^" -> 5    [] k = "&" -> 6   [] k = "==" -> 7  [] k = "<" -> 8
             [] k = ".." -> 9   [] k = "<<" -> 10 [] k \in {"+", "-"} -> 11
             [] k = "*" -> 12]
ASSIGN == Prec["="]
Unary == {"-", "!", "*", "&", "~"}

\* "old" is the identifier of that name, "lit" any literal but an integer.
Idents == {"ident", "old"}
Literals == {"int", "lit"}
Keywords == {"fn", "struct", "type"}
Kinds == Idents \cup Literals \cup Keywords \cup DOMAIN Prec \cup Unary
         \cup {"module", "import", "if", "else", "while", "for", "in", "match", "return",
               "assert", "break", "_", "(", ")", "[", "]", "{", "}", ".", ",", ";", ":",
               ":=", "=>", "->", "@", "error", "eof"}

Ended(t) == t # <<>> /\ \A i \in DOMAIN t : t[i] = "eof" <=> i = Len(t)
ASSUME InputsAssumption ==
  WellFormed \subseteq Inputs /\ \A t \in Inputs : t \in Seq(Kinds) /\ Ended(t)

VARIABLES
  toks,
  pos,
  todo,            \* <<function, argument>>, ...
  no_struct_lit,   \* how many conditions the parser is in
  had_error,
  attrs,           \* the attribute list being read, as positions of its "@"s
  decls,           \* the declarations: keyword, attributes, struct invariants
  nodes            \* the operators parsed: first and last token, and the operator's

tree == <<attrs, decls, nodes>>
vars == <<toks, pos, todo, no_struct_lit, had_error, tree>>

Here == toks[pos]
Ahead(n) == toks[pos + n]    \* peek_n
IsA(kind, k) == kind = k \/ (k = "ident" /\ kind \in Idents)
Arg == todo[1][2]

\* Calls and rests of calls.
Call(f) == <<f, "">>
Expect(k) == <<"expect", k>>
Optional(k) == <<"match", k>>
Precedence(min) == <<"parse_precedence", min>>
parse_expr == Precedence(ASSIGN)
Condition == <<Call("suppress"), parse_expr, <<"release", 1>>>>
AtClose == Here \in {"}", "eof"}

\* The function f consumes n tokens and has the tasks left to do.
Doing(f) == todo # <<>> /\ todo[1][1] = f
Do(f, n, tasks) ==
  /\ Doing(f)
  /\ pos' = IF Here = "eof" THEN pos ELSE pos + n
  /\ todo' = tasks \o Tail(todo)
  /\ UNCHANGED toks
Plain == UNCHANGED <<no_struct_lit, had_error, tree>>
Error == had_error' = TRUE /\ UNCHANGED <<no_struct_lit, tree>>
-----------------------------------------------------------------------------
Init ==
  /\ toks \in Inputs
  /\ pos = 1 /\ todo = <<Call("parse_module")>>
  /\ no_struct_lit = 0 /\ had_error = FALSE
  /\ attrs = <<>> /\ decls = <<>> /\ nodes = {}

expect ==
  \/ Do("expect", 1, <<>>) /\ IsA(Here, Arg) /\ Plain
  \/ Do("expect", 0, <<>>) /\ ~IsA(Here, Arg) /\ Error

match == Do("match", IF IsA(Here, Arg) THEN 1 ELSE 0, <<>>) /\ Plain

\* Mutant: what is no type is not an error.
parse_type_any ==
  \/ Here = "*" /\ Do("parse_type", 1, <<Call("parse_type")>>) /\ Plain
  \/ Here # "*" /\ Do("parse_type", 1, <<>>) /\ Plain

parse_type ==
  \/ Here = "*" /\ Do("parse_type", 1, <<Call("parse_type")>>) /\ Plain
  \/ Here = "[" /\ Ahead(1) = "]" /\ Do("parse_type", 2, <<Call("parse_type")>>) /\ Plain
  \/ Here = "[" /\ Ahead(1) # "]" /\ Plain
     /\ Do("parse_type", 1, <<Expect("int"), Expect("]"), Call("parse_type")>>)
  \/ Here \in Idents /\ Do("parse_type", 1, <<>>) /\ Plain
  \/ Here \notin Idents \cup {"*", "["} /\ Do("parse_type", 1, <<>>) /\ Error
-----------------------------------------------------------------------------
\* Expressions.

StructLit == /\ no_struct_lit = 0 /\ Here \in Idents /\ Ahead(1) = "{"
             /\ Ahead(2) \in Idents /\ Ahead(3) = "="
IsOld == Here = "old" /\ Ahead(1) = "("

Operand ==
  /\ Plain
  /\ \/ Here \in Literals /\ Do("parse_primary", 1, <<>>)
     \/ IsOld /\ Do("parse_primary", 2, <<parse_expr, Expect(")")>>)
     \/ ~IsOld /\ StructLit /\ Do("parse_primary", 2, <<Call("fields"), Expect("}")>>)
     \/ Here \in Idents /\ ~IsOld /\ ~StructLit /\ Do("parse_primary", 1, <<>>)
     \/ Here \in Unary /\ Do("parse_primary", 1, <<Precedence(UNARY), <<"node", <<pos, pos>>>>>>)

\* Mutant: what suppresses a literal outside goes on inside.
Group_inner ==
  /\ Here = "("
  /\ Do("parse_primary", 1, <<parse_expr, Expect(")")>>)
  /\ Plain

\* Parentheses lift the suppression of struct literals and put it back.
Group ==
  /\ Here = "("
  /\ Do("parse_primary", 1, <<parse_expr, <<"restore", no_struct_lit>>, Expect(")")>>)
  /\ no_struct_lit' = 0 /\ UNCHANGED <<had_error, tree>>

\* Mutant: the token in the way stays.
NoOperand_stay ==
  /\ Here \notin Literals \cup Idents \cup Unary \cup {"("}
  /\ Do("parse_primary", 0, <<>>) /\ Error

NoOperand ==
  /\ Here \notin Literals \cup Idents \cup Unary \cup {"("}
  /\ Do("parse_primary", 1, <<>>) /\ Error

parse_primary == Operand \/ Group \/ NoOperand

\* Mutant: the condition is not marked.
suppress_not == Do("suppress", 0, <<>>) /\ Plain

suppress == Do("suppress", 0, <<>>) /\ no_struct_lit' = no_struct_lit + 1 /\ UNCHANGED <<had_error, tree>>
release ==
  \/ Do("release", 0, <<>>) /\ no_struct_lit' = no_struct_lit - 1 /\ UNCHANGED <<had_error, tree>>
  \/ Do("restore", 0, <<>>) /\ no_struct_lit' = Arg /\ UNCHANGED <<had_error, tree>>

fields ==
  /\ Plain
  /\ \/ AtClose /\ Do("fields", 0, <<>>)
     \/ ~AtClose /\ Do("fields", 0, <<Expect("ident"), Expect("="), parse_expr, Call("more_fields")>>)
     \/ Here = "," /\ Do("more_fields", 1, <<Call("fields")>>)
     \/ Here # "," /\ Do("more_fields", 0, <<>>)

parse_call_or_postfix ==
  LET Postfix(n, tasks) == Do("parse_call_or_postfix", n, tasks)
      again == Call("parse_call_or_postfix")
  IN /\ Plain
     /\ \/ Here = "(" /\ Ahead(1) = ")" /\ Postfix(2, <<again>>)
        \/ Here = "(" /\ Ahead(1) # ")"
           /\ Postfix(1, <<parse_expr, Call("more_args"), Expect(")"), again>>)
        \/ Here = "[" /\ Postfix(1, <<parse_expr, Expect("]"), again>>)
        \/ Here = "." /\ Postfix(1, <<Expect("ident"), again>>)
        \/ Here \notin {"(", "[", "."} /\ Postfix(0, <<>>)
        \/ Here = "," /\ Do("more_args", 1, <<parse_expr, Call("more_args")>>)
        \/ Here # "," /\ Do("more_args", 0, <<>>)

\* An operand, then operators that bind at least as strongly as min.
parse_precedence ==
  /\ Do("parse_precedence", 0, <<Call("parse_primary"), Call("parse_call_or_postfix"),
                                 <<"operators", <<Arg, pos>>>>>>)
  /\ Plain

\* Mutant: operators of one level group to the right.
RightMin_same(k) == Prec[k]
\* The least precedence of what is on the right of an operator.
RightMin(k) == IF k = "=" THEN ASSIGN ELSE Prec[k] + 1

Binds == Here \in DOMAIN Prec /\ Prec[Here] >= Arg[1]

operators ==
  /\ Doing("operators") /\ Plain
  /\ \/ /\ Binds
        /\ Do("operators", 1,
              <<Precedence(RightMin(Here)), <<"node", <<Arg[2], pos>>>>>>
              \o (IF Here \in {"=", ".."} THEN <<>> ELSE <<Call("parse_call_or_postfix")>>)
              \o <<<<"operators", Arg>>>>)
     \/ ~Binds /\ Do("operators", 0, <<>>)

node ==
  /\ Do("node", 0, <<>>)
  /\ nodes' = nodes \cup {[first |-> Arg[1], at |-> Arg[2], last |-> pos - 1]}
  /\ UNCHANGED <<no_struct_lit, had_error, attrs, decls>>
-----------------------------------------------------------------------------
\* Statements.

IsLet == Here \in Idents /\ Ahead(1) \in {":=", ":"}

\* parse_if, parse_while, parse_for, parse_match
Compound ==
  /\ Plain
  /\ \/ Here = "if" /\ Do("parse_stmt", 1, Condition \o <<Call("parse_block"), Call("else")>>)
     \/ Here = "while" /\ Do("parse_stmt", 1, Condition \o <<Call("parse_block")>>)
     \/ Here = "for" /\ Do("parse_stmt", 1, <<Expect("ident"), Expect("in")>>
                                           \o Condition \o <<Call("parse_block")>>)
     \/ Here = "match" /\ Do("parse_stmt", 1, Condition \o <<Expect("{"), Call("arms"), Expect("}")>>)
     \/ Here = "else" /\ Do("else", 1, <<IF Ahead(1) = "if" THEN Call("parse_stmt")
                                                            ELSE Call("parse_block")>>)
     \/ Here # "else" /\ Do("else", 0, <<>>)
     \/ AtClose /\ Do("arms", 0, <<>>)
     \/ ~AtClose /\ Do("arms", 0, <<IF Here = "_" THEN Optional("_") ELSE parse_expr, Expect("=>"),
                                    Call("arm_body"), Optional(","), Call("arms")>>)
     \/ Do("arm_body", 0, <<IF Here = "{" THEN Call("parse_block") ELSE Call("parse_stmt")>>)

Simple ==
  /\ Plain
  /\ \/ /\ Here = "return"
        /\ Do("parse_stmt", 1, (IF Ahead(1) \in {";", "eof"} THEN <<>> ELSE <<parse_expr>>)
                               \o <<Expect(";")>>)
     \/ Here = "assert"
        /\ Do("parse_stmt", 1, <<Expect("("), parse_expr, Expect(")"), Expect(";")>>)
     \/ Here = "break" /\ Do("parse_stmt", 1, <<Expect(";")>>)
     \/ Here = "{" /\ Do("parse_stmt", 0, <<Call("parse_block")>>)
     \/ /\ Here \notin {"if", "while", "for", "match", "return", "assert", "break", "{"} /\ ~IsLet
        /\ Do("parse_stmt", 0, <<parse_expr, Expect(";")>>)

parse_let ==
  /\ Plain
  /\ \/ /\ IsLet
        /\ Do("parse_stmt", 2, (IF Ahead(1) = ":=" THEN <<parse_expr>>
                                ELSE <<Call("parse_type"), Call("init")>>) \o <<Expect(";")>>)
     \/ Here = "=" /\ Do("init", 1, <<parse_expr>>)
     \/ Here # "=" /\ Do("init", 0, <<>>)

parse_block ==
  /\ Plain
  /\ \/ Do("parse_block", 0, <<Expect("{"), Call("stmts"), Expect("}")>>)
     \/ AtClose /\ Do("stmts", 0, <<>>)
     \/ ~AtClose /\ Do("stmts", 0, <<Call("parse_stmt"), Call("stmts")>>)
-----------------------------------------------------------------------------
\* Declarations.

parse_attr_list ==
  \/ /\ Here = "@"
     /\ Do("parse_attr_list", 1, <<Expect("ident"), Call("attr_arg"), Call("parse_attr_list")>>)
     /\ attrs' = Append(attrs, pos)
     /\ UNCHANGED <<no_struct_lit, had_error, decls, nodes>>
  \/ Here # "@" /\ Do("parse_attr_list", 0, <<>>) /\ Plain
  \/ Here = "(" /\ Do("attr_arg", 1, <<parse_expr, Expect(")")>>) /\ Plain
  \/ Here # "(" /\ Do("attr_arg", 0, <<>>) /\ Plain

\* The declaration is filed here, with its keyword, not at its end.
parse_decl ==
  \/ /\ Here \in Keywords
     /\ Do("parse_decl", 1, <<Expect("ident"), Call(Here)>>)
     /\ decls' = Append(decls, [at |-> pos, attrs |-> attrs, invariants |-> <<>>])
     /\ UNCHANGED <<no_struct_lit, had_error, attrs, nodes>>
  \/ Here \notin Keywords /\ Do("parse_decl", 1, <<>>) /\ Error

parse_fn ==
  /\ Plain
  /\ \/ Do("fn", 0, <<Expect("("), Call("params"), Expect(")"), Call("ret"), Call("parse_block")>>)
     \/ Here = ")" /\ Do("params", 0, <<>>)
     \/ Here # ")" /\ Do("params", 0, <<Call("param"), Call("more_params")>>)
     \/ Do("param", 0, <<Expect("ident"), Expect(":"), Call("parse_type")>>)
     \/ Here = "," /\ Do("more_params", 1, <<Call("param"), Call("more_params")>>)
     \/ Here # "," /\ Do("more_params", 0, <<>>)
     \/ Here = "->" /\ Do("ret", 1, <<Call("parse_type")>>)
     \/ Here # "->" /\ Do("ret", 0, <<>>)

\* Mutant: the list of the struct is still in the way.
parse_struct_list_kept ==
  /\ Plain
  /\ \/ AtClose /\ Do("members", 0, <<>>)
     \/ /\ Here = "@"
        /\ Do("members", 0, <<Call("parse_attr_list"), Call("invariants"), Call("members")>>)

parse_struct_list ==
  \/ AtClose /\ Do("members", 0, <<>>) /\ Plain
  \/ /\ Here = "@"
     /\ Do("members", 0, <<Call("parse_attr_list"), Call("invariants"), Call("members")>>)
     /\ attrs' = <<>> /\ UNCHANGED <<no_struct_lit, had_error, decls, nodes>>

parse_struct ==
  \/ Do("struct", 0, <<Expect("{"), Call("members"), Expect("}")>>) /\ Plain
  \/ parse_struct_list
  \/ /\ Do("invariants", 0, <<>>)
     /\ decls' = [decls EXCEPT ![Len(decls)].invariants = @ \o attrs]
     /\ UNCHANGED <<no_struct_lit, had_error, attrs, nodes>>
  \/ /\ ~AtClose /\ Here # "@" /\ Plain
     /\ Do("members", 0, <<Expect("ident"), Expect(":"), Call("parse_type"), Optional(","),
                           Call("members")>>)

parse_type_alias == Do("type", 0, <<Expect("="), Call("parse_type")>>) /\ Plain

parse_module ==
  \/ /\ Do("parse_module", IF Here = "module" THEN 1 ELSE 0,
            (IF Here = "module" THEN <<Expect("ident"), Optional(";")>> ELSE <<>>)
            \o <<Call("imports"), Call("decls")>>)
     /\ Plain
  \/ Here = "import" /\ Do("imports", 1, <<Expect("ident"), Optional(";"), Call("imports")>>) /\ Plain
  \/ Here # "import" /\ Do("imports", 0, <<>>) /\ Plain
  \/ /\ Here # "eof"
     /\ Do("decls", 0, <<Call("parse_attr_list"), Call("parse_decl"), Call("decls")>>)
     /\ attrs' = <<>> /\ UNCHANGED <<no_struct_lit, had_error, decls, nodes>>
  \/ Here = "eof" /\ Do("decls", 0, <<>>) /\ Plain

Next ==
  \/ expect \/ match \/ parse_type \/ parse_primary \/ suppress \/ release \/ fields
  \/ parse_call_or_postfix \/ parse_precedence \/ operators \/ node
  \/ Compound \/ Simple \/ parse_let \/ parse_block
  \/ parse_attr_list \/ parse_decl \/ parse_fn \/ parse_struct \/ parse_type_alias \/ parse_module

Spec == Init /\ [][Next]_vars /\ WF_vars(Next)
-----------------------------------------------------------------------------
\* What the text says, without a parser.

Closing == [k \in {"(", "[", "{"} |-> CASE k = "(" -> ")" [] k = "[" -> "]" [] k = "{" -> "}"]
Closers == {Closing[k] : k \in DOMAIN Closing}

\* How many brackets are open around the token at q; a bracket counts inside.
Level(q) == Cardinality({p \in 1 .. q : toks[p] \in DOMAIN Closing})
            - Cardinality({p \in 1 .. q - 1 : toks[p] \in Closers})

Outer(q) == IF toks[q] \in DOMAIN Closing \cup Closers THEN Level(q) - 1 ELSE Level(q)
Pair(q, r) ==
  /\ q < r /\ toks[q] \in DOMAIN Closing /\ toks[r] = Closing[toks[q]] /\ Level(r) = Level(q)
  /\ \A p \in q + 1 .. r - 1 : Level(p) > Level(q) \/ toks[p] \notin Closers

\* The braces of a struct literal; in a condition a brace starts the block.
InCondition(q) ==
  \E p \in 1 .. q - 1 :
    /\ toks[p] \in {"if", "while", "for", "match"} /\ Level(p) = Outer(q)
    /\ \A r \in p + 1 .. q - 1 :
         Outer(r) >= Outer(q) /\ (Outer(r) = Outer(q) => toks[r] \notin {"{", "}", ";"})
OpensLiteral(q) ==
  /\ toks[q] = "{" /\ ~InCondition(q) /\ toks[q - 1] \in Idents
  /\ toks[q + 1] \in Idents /\ toks[q + 2] = "="
ClosesLiteral(r) == toks[r] = "}" /\ \E q \in 1 .. r - 1 : Pair(q, r) /\ OpensLiteral(q)

\* Operators between two operands; the others stand in front of one.
EndsOperand(q) == toks[q] \in Idents \cup Literals \cup {")", "]"} \/ ClosesLiteral(q)
IsBinary(q) == toks[q] \in DOMAIN Prec /\ EndsOperand(q - 1)
InExpression(q) ==
  \/ toks[q] \in Idents \cup Literals \cup DOMAIN Prec \cup Unary \cup {"(", ")", "[", "]", "."}
  \/ OpensLiteral(q) \/ ClosesLiteral(q)

\* What an operator at q that takes operators of precedence min and more on a
\* side cannot reach over: r ends the expression or binds less.
Bars(r, q, min) ==
  \/ Outer(r) < Level(q)
  \/ Outer(r) = Level(q) /\ (~InExpression(r) \/ (IsBinary(r) /\ Prec[toks[r]] < min))
LeftMin(q) == IF toks[q] = "=" THEN ASSIGN + 1 ELSE Prec[toks[q]]
RightFrom(q) == IF ~IsBinary(q) THEN UNARY
                ELSE IF toks[q] = "=" THEN ASSIGN ELSE Prec[toks[q]] + 1
First(q) == IF ~IsBinary(q) THEN q
            ELSE CHOOSE p \in 2 .. q : /\ \A r \in p .. q - 1 : ~Bars(r, q, LeftMin(q))
                                      /\ Bars(p - 1, q, LeftMin(q))
Last(q) == CHOOSE p \in q .. Len(toks) : /\ \A r \in q + 1 .. p : ~Bars(r, q, RightFrom(q))
                                         /\ Bars(p + 1, q, RightFrom(q))

\* The declaration that an attribute at q stands in or in front of.
Inside(q) == Level(q) > 0
Home(q) == IF Inside(q)
             THEN CHOOSE p \in 1 .. q : toks[p] \in Keywords /\ \A r \in p + 1 .. q : toks[r] \notin Keywords
             ELSE CHOOSE p \in q .. Len(toks) :
                    toks[p] \in Keywords /\ \A r \in q .. p - 1 : toks[r] \notin Keywords
InOrder(s, set) == /\ {s[i] : i \in DOMAIN s} = set
                   /\ \A i, j \in DOMAIN s : i < j => s[i] < s[j]
-----------------------------------------------------------------------------
Positions == DOMAIN toks
Done == todo = <<>>
Accepted == Done /\ ~had_error

TypeOK ==
  /\ toks \in Seq(Kinds) /\ pos \in Positions
  /\ no_struct_lit \in Nat /\ had_error \in BOOLEAN
  /\ attrs \in Seq(Positions)
  /\ decls \in Seq([at : Positions, attrs : Seq(Positions), invariants : Seq(Positions)])
  /\ nodes \subseteq [first : Positions, at : Positions, last : Positions]

\* A module of the language is accepted, whatever conditions, literals and
\* parentheses it nests (parser.c 20-22, 250-284).
Complete == Done /\ toks \in WellFormed => ~had_error

\* No error is lost: nobody asks the lexer whether it had one, so the parser
\* has to trip over each error token (main.c 191-195), and over each bracket
\* that has no partner, wherever recovery has skipped to.
Sound ==
  Accepted =>
    /\ \A q \in Positions : toks[q] # "error"
    /\ \A q \in Positions :
         /\ toks[q] \in DOMAIN Closing => \E r \in Positions : Pair(q, r)
         /\ toks[q] \in Closers => \E p \in Positions : Pair(p, q)

\* Operators span what the table of precedences says: those of one level group
\* to the left, assignments to the right (parser.c 145-182, 345-383).
Grouping ==
  Accepted => \A n \in nodes : n.first = First(n.at) /\ n.last = Last(n.at)

\* Each attribute ends up, in order, on the one declaration it stands in front
\* of, or among the invariants of the struct it stands in (parser.c 591-618, 667-672).
AttributesKept ==
  Accepted =>
    LET On(d, inside) == {q \in Positions : toks[q] = "@" /\ Inside(q) = inside /\ Home(q) = decls[d].at}
    IN \A d \in DOMAIN decls :
         InOrder(decls[d].attrs, On(d, FALSE)) /\ InOrder(decls[d].invariants, On(d, TRUE))

\* Parsing ends on every input: recovery consumes something in every round.
Ends == <>Done
=============================================================================

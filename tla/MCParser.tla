------------------------------- MODULE MCParser -------------------------------
(* Modules that use every construct, each also with one token taken out, put  *)
(* in or replaced anywhere; expressions of three operators; and expressions   *)
(* as the printer writes them.                                                *)
EXTENDS Printer

Main(stmts) == <<"fn", "ident", "(", ")", "{">> \o stmts \o <<"}", "eof">>
x == <<"ident">>
Lit == <<"ident", "{", "ident", "=", "ident", ",", "ident", "=", "int", "}">>
Set == <<"ident", "=", "ident", ";">>
Block == <<"{">> \o Set \o <<"}">>

Modules == {
  <<"module", "ident", ";", "import", "ident", "@", "ident", "@", "ident", "(", "ident", ")",
    "fn", "ident", "(", "ident", ":", "*", "ident", ",", "ident", ":", "[", "]", "ident", ")",
    "->", "[", "int", "]", "ident", "{", "return", ";", "}", "eof">>,
  <<"@", "ident", "type", "ident", "=", "ident", "@", "ident", "struct", "ident", "{",
    "@", "ident", "(", "ident", ")", "ident", ":", "ident", ",", "@", "ident", "@", "ident",
    "ident", ":", "ident", "}", "@", "ident", "struct", "ident", "{", "}", "eof">>,
  Main(<<"if">> \o x \o Block \o <<"else", "if", "(">> \o Lit \o <<")", ".", "ident", "==">> \o x
       \o Block \o <<"else">> \o Block),
  Main(<<"while", "(", "(">> \o x \o <<")", ")", "==", "ident">> \o Block
       \o <<"for", "ident", "in", "int", "..", "ident">> \o Block),
  Main(<<"match">> \o x \o <<"{", "int", "=>", "ident", "(", "ident", ",", "int", ")", ";", ",",
         "_", "=>">> \o Block \o <<"}">> \o Set),
  Main(<<"ident", ":", "*", "ident", "=", "&", "ident", "[", "int", "]", ";", "ident", ":=">> \o Lit
       \o <<";", "assert", "(", "old", "(", "ident", ")", ")", ";", "{", "break", ";", "}",
            "*", "ident", ".", "ident", "=", "ident", "(", ")", ";", "return", "lit", ";">>),
  Main(<<"if", "ident", "(", "(">> \o Lit \o <<")", ")">> \o Block \o <<"ident", ":", "ident", ";">>)
}

Operators == {"=", "||", "..", "+", "-", "*"}
Expressions ==
  {Main(x \o <<o>> \o x \o <<p>> \o <<"-">> \o x \o <<q>> \o x \o <<";">>) : o, p, q \in Operators}
  \cup {Main(x \o <<o, "(">> \o x \o <<p>> \o x \o <<")", ".", "ident", q, "!", "ident", "[", "ident">> \o <<o>> \o x \o <<"]", ";">>) :
          o, p, q \in {"=", "&&", "<<", "*"}}
  \cup {Main(x \o <<o>> \o x \o <<p>> \o x \o <<";">>) : o, p \in DOMAIN Prec}

Cut(t, a, b) == SubSeq(t, a, b)
Damaged == UNION {
  UNION {{Cut(m, 1, q - 1) \o Cut(m, q + 1, Len(m))}
         \cup {Cut(m, 1, q - 1) \o <<k>> \o Cut(m, q + 1, Len(m)) : k \in {"ident", "(", "}", "error"}}
         \cup {Cut(m, 1, q - 1) \o <<k>> \o Cut(m, q, Len(m)) : k \in {"{", ",", "=", "@", "*", "fn"}} :
         q \in 1 .. Len(m) - 1}
  : m \in Modules}

MCWellFormed == Modules \cup Expressions

\* Every construct around every construct, on each side, and some on both.
MCBefore == Cut(Main(<<>>), 1, 5)
MCAfter == <<";", "}", "eof">>
MCBeforeIf == MCBefore \o <<"if">>
MCAfterIf == <<"{", "return", ";", "}", "}", "eof">>

Atoms == {Atom("ident"), Atom("int")}
Over(l, r) ==
  {Binop(op, l, r) : op \in DOMAIN op_prec} \cup {AssignExpr(l, r), RangeOf(l, r)}
  \cup {Unop(op, l) : op \in Unary}
  \cup {IndexExpr(l, r), FieldExpr(l), CallExpr(l, <<>>), CallExpr(l, <<r, l>>), LitExpr(<<l, r>>), OldExpr(l)}
Single == Over(Atom("ident"), Atom("int"))
SomeOf == {e \in Single : e.op \in {"", "||", "<", "<<", "+", "-", "*", "=", "..", "&"}}
MCTrees == Atoms \cup Single
  \cup UNION {Over(e, Atom("int")) \cup Over(Atom("ident"), e) : e \in Single}
  \cup {Binop(op, l, r) : op \in {"||", "<", "-"}, l, r \in SomeOf}
  \cup {Unop("&", Unop(op, Unop("&", e))) : op \in {"&", "-"}, e \in Single}

MCInputs == MCWellFormed \cup Damaged \cup {o.toks : o \in Output}
===============================================================================

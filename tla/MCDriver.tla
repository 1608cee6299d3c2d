------------------------------ MODULE MCDriver ------------------------------
(* Instances of Driver.  Programs that run: main calls f, conditions call f  *)
(* or the undeclared g and invariants h, f and main have several variants.   *)
(* Programs that are only analysed: three variants of f make its bucket grow *)
(* (the capacity goes 0, 2, 4), and two gates and a condition give every     *)
(* relation between attribute lists that selection distinguishes.            *)
EXTENDS Driver

MCFns == {"f", "g", "h", "main"}
MCCondCalls == {"f", "g"}
MCInvCalls == {"h"}

Decl(name, attrs, calls) == [name |-> name, attrs |-> attrs, calls |-> calls, typed |-> TRUE]

Gates == {<<>>, <<"a">>, <<"b">>, <<"a", "b">>}
Contracts == {<<"requires">>, <<"a", "ensures">>, <<"b", "requires">>}

MCRunnable ==
       \* variants of f around a caller with a contract
       {<<Decl("f", x, <<>>), Decl("main", c, <<"f", "h">>), Decl("h", <<"requires">>, <<"f">>),
          Decl("f", y, <<"h">>), Decl("f", z, <<>>)>> : x, y, z \in Gates, c \in Contracts}
       \* variants of main
  \cup {<<Decl("main", x, <<"f">>), Decl("main", y, <<"main">>), Decl("f", <<>>, <<>>)>> :
          x, y \in Gates \cup Contracts}
       \* a condition calls f, nobody else does
  \cup {<<Decl("f", x, <<>>), Decl("main", <<"requires">>, <<>>), Decl("f", y, <<>>)>> :
          x, y \in Gates}
       \* a program without a main, one that does not type-check
  \cup {<<Decl("f", <<>>, <<>>)>>, <<[Decl("main", <<>>, <<>>) EXCEPT !.typed = FALSE]>>}

Lists == {<<>>, <<"a">>, <<"b">>, <<"a", "b">>, <<"a", "a">>,
          <<"a", "requires">>, <<"requires", "a">>, <<"b", "a", "requires">>}

MCAnalysed ==
       {<<Decl("f", p, <<>>), Decl("main", <<>>, <<"f">>), Decl("f", q, <<>>), Decl("f", r, <<>>)>> :
          p, q, r \in Lists}
  \cup {<<Decl("f", p, <<c>>), [Decl("main", <<>>, <<"f", c>>) EXCEPT !.typed = t],
          Decl("f", q, <<"f">>)>> :
          p, q \in Lists, c \in {"f", "g", "main"}, t \in BOOLEAN}

\* Two variants of main that are equally specific.
TwoMains == {<<Decl("main", <<"a">>, <<>>), Decl("main", <<"b">>, <<>>)>>}

MCPrograms == MCRunnable \cup MCAnalysed \cup TwoMains

MCArgs == {<<"file">>, <<"--attr", "a", "file">>, <<"file", "--attr", "b">>,
           <<"--attr", "a", "--attr", "b", "file">>}
OddArgs == {<<>>, <<"--attr">>, <<"--attr", "file">>, <<"--attr", "--debug", "file">>,
            <<"--release", "other", "--debug", "file", "--attr">>}
MCActive == {parse_attr_args(a).attrs : a \in MCArgs \cup OddArgs}

Invoked(cmd, args, program) ==
  [cmd |-> cmd, args |-> args, readable |-> TRUE, parses |-> TRUE, decls |-> program]

MCInvocations ==
       {Invoked("run", a, p) : a \in MCArgs, p \in MCRunnable}
  \cup {Invoked("check", a, p) : a \in MCArgs, p \in MCAnalysed}
  \cup {Invoked("variants", a, p) : a \in MCArgs, p \in TwoMains}
       \* every command on every odd argument list and every bad file
  \cup {[Invoked(c, a, p) EXCEPT !.readable = r, !.parses = s] :
          c \in Reads \cup {"version", "help"}, a \in OddArgs \cup {<<"file">>}, p \in TwoMains,
          r, s \in BOOLEAN}

MCMainValues == {[kind |-> "int", n |-> n] : n \in {-1, 0, 2, 4}}
           \cup {[kind |-> "bool", n |-> n] : n \in {0, 1}} \cup {[kind |-> "void", n |-> 0]}

\* The two mains, run with both attributes.
MCTied == {Invoked("run", <<"--attr", "a", "--attr", "b", "file">>, p) : p \in TwoMains}
=============================================================================

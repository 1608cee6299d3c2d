------------------------------ MODULE MCTypes ------------------------------
(* Modules for the resolution of types, and bodies put together from small   *)
(* expressions: two statements that set the scene, one of any kind over it,  *)
(* and one that looks at what became of it.                                  *)
EXTENDS TypedRun

Alias(n, t) == [name |-> n, target |-> t]
FieldDecl(s, f, t) == [owner |-> s, name |-> f, type |-> t]
TypeOf(t) == [owner |-> "", name |-> "", type |-> t]
Module(as, ss, ws) == [aliases |-> as, structs |-> ss, written |-> ws]

MCModules == {
  Module(<<Alias("P", <<"ptr", "N">>), Alias("N", <<"int">>), Alias("N", <<"bool">>)>>,
         <<"S", "B", "D", "D">>,
         <<FieldDecl("S", "a", <<"N">>), FieldDecl("S", "p", <<"P">>), FieldDecl("S", "n", <<"ptr", "S">>),
           FieldDecl("B", "c", <<"u8">>), FieldDecl("B", "s", <<"S">>),
           FieldDecl("D", "f", <<"int">>), FieldDecl("D", "f", <<"bool">>),
           TypeOf(<<"P">>), TypeOf(<<"int">>), TypeOf(<<"u8">>), TypeOf(<<"ptr", "void">>),
           TypeOf(<<"ptr", "bool">>), TypeOf(<<"slice", "N">>), TypeOf(<<"S">>)>>),
  \* aliases that lead round, aliases hidden by what they are named after
  Module(<<Alias("A", <<"B">>), Alias("B", <<"A">>)>>, <<>>, <<TypeOf(<<"ptr", "A">>)>>),
  Module(<<Alias("A", <<"A">>)>>, <<"A">>, <<TypeOf(<<"A">>), TypeOf(<<"ptr", "X">>)>>),
  Module(<<Alias("int", <<"int">>), Alias("A", <<"[2]", "C">>), Alias("C", <<"slice", "int">>)>>, <<>>,
         <<TypeOf(<<"A">>), TypeOf(<<"ptr", "int">>), TypeOf(<<"X">>)>>)}

Fn(params, ret, result) == [params |-> params, ret |-> ret, result |-> result]
Par(n, t) == [name |-> n, type |-> t]
MCFns == [same |-> Fn(<<Par("v", <<"int">>)>>, <<"int">>, <<Id("v")>>),
          local |-> Fn(<<Par("v", <<"int">>)>>, <<"ptr", "int">>, <<Un("addr", Id("v"))>>),
          none |-> Fn(<<>>, <<"ptr", "int">>, <<>>),
          many |-> Fn([i \in 1 .. 17 |-> Par("v", <<"int">>)], <<"int">>, <<Id("v")>>)]
MCParams == <<Par("x", <<"int">>)>>
MCArgs == {<<V_int(1)>>}

ExprSt(e) == [is |-> "expr", e |-> e]
LetSt(x, t, e) == [is |-> "let", name |-> x, type |-> t, init |-> <<e>>]
Uninit(x, t) == [is |-> "let", name |-> x, type |-> t, init |-> <<>>]
Open == [is |-> "open"]
CloseSt == [is |-> "close"]

X == Id("x")  P == Id("p")  S == Id("s")  Q == Id("q")
One == IntLit(1)
Deref(e) == Un("deref", e)
Addr(e) == Un("addr", e)

Scene1 ==
  {LetSt("p", <<>>, e) : e \in {
     Addr(X), Null, StringLit(2), Call("alloc", <<Id("int")>>), Call("alloc", <<Id("u8")>>),
     Call("alloc_array", <<Id("int"), IntLit(2)>>), Call("alloc_array", <<Id("S"), X>>),
     Call("alloc_array", <<FloatLit(1), One>>), Call("alloc_array", <<Id("int"), Un("-", X)>>),
     Call("alloc", <<Id("S")>>), Call("local", <<X>>), Call("none", <<>>),
     RangeExpr(X, IntLit(2)), FloatLit(1), BoolLit(1)}}
  \cup {LetSt("s", <<>>, StructLit("S", <<[name |-> "a", e |-> One]>>)),
        LetSt("s", <<>>, StructLit("D", <<[name |-> "f", e |-> BoolLit(1)]>>)),
        LetSt("s", <<>>, StructLit("B", <<[name |-> "c", e |-> X]>>)),
        LetSt("p", <<"ptr", "void">>, Addr(X)), Uninit("p", <<"slice", "int">>),
        Uninit("p", <<"int">>), Uninit("p", <<"ptr", "int">>), Open}

Scene2 ==
  {LetSt("s", <<>>, StructLit("S", <<[name |-> "a", e |-> X], [name |-> "p", e |-> P]>>)),
   LetSt("q", <<>>, Addr(P)), LetSt("q", <<>>, P), LetSt("q", <<>>, Addr(S)), LetSt("q", <<>>, S),
   LetSt("q", <<"u8">>, X), LetSt("q", <<"ptr", "bool">>, P), Uninit("q", <<"ptr", "int">>),
   LetSt("p", <<>>, Addr(X)), LetSt("p", <<>>, Null),
   ExprSt(Assign("=", Field(S, "n"), Addr(S))), ExprSt(Assign("=", Deref(P), Null)), Open, CloseSt}

Atoms == {X, One, P, S, Q, Null, BoolLit(1), FloatLit(1)}
Vars == {X, P, S, Q}
Derived == {Deref(P), Deref(Q), Index(P, One), Index(Q, X), Field(S, "a"), Field(S, "p"), Field(Q, "n"),
            Field(P, "a"), Addr(X), Call("same", <<P>>), Call("same", <<X>>), Id("y")}
LValues == {X, P, S, Q, Deref(P), Deref(Q), Index(P, One), Field(S, "a"), Field(S, "p"), Field(S, "n"),
            Field(Q, "n"), Field(P, "a"), One}
Scene3 ==
  {ExprSt(Assign(op, l, r)) : op \in {"=", "+", "/"}, l \in LValues, r \in Vars \cup {One, Null, FloatLit(1)}}
  \cup {LetSt("z", <<>>, Bin(op, l, r)) : op \in {"-", "/", "==", "<", "&&", "<<"}, l, r \in Atoms}
  \cup {LetSt("z", <<>>, Un(op, e)) : op \in {"-", "!", "~", "deref", "addr"}, e \in Atoms \cup Derived}
  \cup {LetSt("z", <<>>, e) : e \in Derived}
  \cup {ExprSt(Call(f, <<e>>)) : f \in {"print", "free", "same", "other"}, e \in Vars}
  \cup {LetSt("z", <<>>, Bin(op, Bin("<<", One, IntLit(3)), Un("-", One))) : op \in {"/", "%"}}
  \cup {LetSt("z", <<>>, Bin("%", FloatLit(1), FloatLit(1))), LetSt("z", <<>>, Bin("|", X, Bin("^", One, X))),
        LetSt("z", <<>>, Index(Deref(Q), One)), LetSt("z", <<>>, Field(Deref(Q), "a")),
        LetSt("z", <<>>, Index(Index(P, One), One)), LetSt("z", <<>>, Old(P)),
        ExprSt(Call("many", [i \in 1 .. 17 |-> X])), CloseSt, Open}
  \cup {LetSt("z", <<>>, Bin(op, Bin("<<", X, IntLit(2)), Bin("<<", X, IntLit(2)))) : op \in {"+", "*"}}
  \cup {LetSt("z", <<>>, Un("-", Bin("<<", X, IntLit(3))))}

Scene4 ==
  {LetSt("w", <<>>, e) : e \in {Deref(P), Index(P, One), Field(S, "a"), Deref(Q), Id("z"), Deref(Id("z"))}}
  \cup {CloseSt}

MCSteps == <<Scene1, Scene2, Scene3, Scene4>>
=============================================================================

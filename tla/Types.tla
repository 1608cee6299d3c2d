-------------------------------- MODULE Types --------------------------------
(* The types of expressions: type_equals of type.c and check_expr of sema.c. *)
(* A check returns the type, whether an error was reported, whether a part   *)
(* of the expression got the type "error", and, as a ghost, the "holes": the *)
(* places where the rules accept more than the interpreter can keep to.      *)
EXTENDS Resolution, SequencesExt

CONSTANT Fns  \* the other functions: name, params (name, type), ret, and the
              \* expression they return; <<>> for one that ends without return

\* Expressions, as the parser builds them.
IntLit(n) == [is |-> "int", n |-> n]
FloatLit(n) == [is |-> "float", n |-> n]
BoolLit(n) == [is |-> "bool", n |-> n]
StringLit(n) == [is |-> "string", n |-> n]
Id(x) == [is |-> "ident", name |-> x]
Un(op, e) == [is |-> "unary", op |-> op, l |-> e]
Bin(op, l, r) == [is |-> "binary", op |-> op, l |-> l, r |-> r]
Assign(op, l, r) == [is |-> "assign", op |-> op, l |-> l, r |-> r]
Call(f, args) == [is |-> "call", name |-> f, args |-> args]
Index(b, i) == [is |-> "index", l |-> b, r |-> i]
Field(b, f) == [is |-> "field", l |-> b, name |-> f]
StructLit(s, inits) == [is |-> "struct_lit", name |-> s, inits |-> inits]
RangeExpr(lo, hi) == [is |-> "range", l |-> lo, r |-> hi]
Old(e) == [is |-> "old", l |-> e]

Null == Id("null")
Arith == {"+", "-", "*", "/", "%"}
Order == {"<", ">", "<=", ">="}
Compare == Order \cup {"==", "!="}
Logic == {"&&", "||"}
Bits == {"&", "|", "^", "<<", ">>"}
-----------------------------------------------------------------------------
Is(t, heads) == t[1] \in heads
PtrTo(t) == <<"ptr">> \o t

RECURSIVE type_equals(_, _)
type_equals(a, b) ==
  \/ a = b
  \/ "error" \in {a[1], b[1]}
  \/ Is(a, Integral) /\ Is(b, Integral)
  \/ a[1] = b[1] /\ a[1] \in Constructors
       /\ \/ a[1] = "ptr" /\ "void" \in {a[2], b[2]}
          \/ type_equals(Tail(a), Tail(b))

\* Ghost: equal without the rule that lets *void be any pointer.
RECURSIVE Same(_, _)
Same(a, b) == \/ a = b
              \/ Is(a, Integral) /\ Is(b, Integral)
              \/ a[1] = b[1] /\ a[1] \in Constructors /\ Same(Tail(a), Tail(b))
\* The rule is meant for the literal null.
Passed(e, from, to) ==
  IF type_equals(from, to) /\ ~Same(from, to) /\ e # Null THEN {"voidptr"} ELSE {}
-----------------------------------------------------------------------------
\* The declaration a name refers to: from the inside out, in each the first.
InScope(sc, i, n) == {j \in DOMAIN sc[i] : sc[i][j].name = n}
Found(sc, n) == \E i \in DOMAIN sc : InScope(sc, i, n) # {}
scope_find(sc, n) ==
  LET i == CHOOSE i \in DOMAIN sc :
             InScope(sc, i, n) # {} /\ \A h \in i + 1 .. Len(sc) : InScope(sc, h, n) = {}
  IN sc[i][CHOOSE j \in InScope(sc, i, n) : \A h \in InScope(sc, i, n) : j <= h]

Owns(s, f) == {j \in DOMAIN FieldsOf(s) : FieldsOf(s)[j].name = f}
FirstField(s, f) == CHOOSE j \in Owns(s, f) : \A h \in Owns(s, f) : j <= h
LastField(s, f) == CHOOSE j \in Owns(s, f) : \A h \in Owns(s, f) : j >= h

is_lvalue(e) == e.is \in {"ident", "index", "field"} \/ (e.is = "unary" /\ e.op = "deref")

\* What is found out about an expression with this type, error and holes, and these parts.
Typing(t, err, holes, parts) ==
  [type |-> t,
   err |-> err \/ \E p \in parts : p.err,
   bad |-> (\E i \in DOMAIN t : t[i] = "error") \/ \E p \in parts : p.bad,
   holes |-> holes \cup UNION {p.holes : p \in parts}]

HoleIf(c, name) == IF c THEN {name} ELSE {}
\* What is assigned to, or has its address taken, has to be a cell.
NoCell(e) == HoleIf(~is_lvalue(e) \/ e = Null, "no cell")
-----------------------------------------------------------------------------
\* Mutant: the types of the two sides are not compared.
check_assign_untyped(e, l, r) == Typing(l.type, ~is_lvalue(e.l), NoCell(e.l), {l, r})

check_assign(e, l, r) ==
  Typing(l.type, ~is_lvalue(e.l) \/ ~type_equals(l.type, r.type),
           Passed(e.r, r.type, l.type)
             \cup NoCell(e.l) \cup HoleIf(e.op # "=" /\ ~Is(l.type, Numeric), "compound"),
           {l, r})

check_binary(op, l, r) ==
  LET both(heads) == Is(l.type, heads) /\ Is(r.type, heads) IN
  CASE op \in Arith   -> Typing(l.type, ~both(Numeric) \/ ~type_equals(l.type, r.type),
                                  HoleIf(op = "%" /\ ~Is(l.type, Integral), "float %"), {l, r})
    [] op \in Compare -> Typing(<<"bool">>, ~type_equals(l.type, r.type),
                                  HoleIf(op \in Order /\ ~both(Numeric), "order"), {l, r})
    [] op \in Logic   -> Typing(<<"bool">>, ~both({"bool"}), {}, {l, r})
    [] op \in Bits    -> Typing(l.type, ~both(Integral), {}, {l, r})

check_unary(e, x) ==
  LET t == x.type IN
  CASE e.op = "-" -> Typing(t, ~Is(t, Numeric), {}, {x})
    [] e.op = "!" -> Typing(<<"bool">>, ~Is(t, {"ptr", "bool"}), {}, {x})
    [] e.op = "~" -> Typing(t, ~Is(t, Integral), {}, {x})
    [] e.op = "deref" -> IF Is(t, {"ptr"}) THEN Typing(Tail(t), FALSE, {}, {x})
                                           ELSE Typing(<<"error">>, TRUE, {}, {x})
    [] e.op = "addr" -> Typing(PtrTo(t), FALSE, NoCell(e.l), {x})

check_index(b, i) ==
  IF Is(b.type, Constructors) THEN Typing(Tail(b.type), ~Is(i.type, Integral), {}, {b, i})
                              ELSE Typing(<<"error">>, TRUE, {}, {b, i})

\* A pointer to a struct is followed.
check_field(e, b) ==
  LET target == IF b.type[1] = "ptr" /\ b.type[2] \in Structs THEN Tail(b.type) ELSE b.type
  IN IF target[1] \in Structs /\ Owns(target[1], e.name) # {}
     THEN Typing(FieldsOf(target[1])[FirstField(target[1], e.name)].type, FALSE,
                   HoleIf(e.l.is # "ident", "field of a value"), {b})
     ELSE Typing(<<"error">>, TRUE, {}, {b})

\* With several fields of the name, the last one decides.
check_struct_lit(e, vals) ==
  LET inits == e.inits
      owned(i) == Owns(e.name, inits[i].name)
      first(i) == FieldsOf(e.name)[FirstField(e.name, inits[i].name)].type
      last(i) == FieldsOf(e.name)[LastField(e.name, inits[i].name)].type
      fits(i) == owned(i) # {} /\ type_equals(vals[i].type, last(i))
  IN IF e.name \notin Structs THEN Typing(<<"error">>, TRUE, {}, {})
     ELSE Typing(<<e.name>>, \E i \in DOMAIN inits : ~fits(i),
            UNION {Passed(inits[i].e, vals[i].type, last(i))
                     \cup HoleIf(~Same(first(i), last(i)), "field twice") :
                     i \in {j \in DOMAIN inits : owned(j) # {}}},
            ToSet(vals))

\* The element type of an allocation is written as a name; any other expression,
\* and a name that is no type, means int.
ElemOf(args) ==
  IF args # <<>> /\ args[1].is = "ident" /\ Known(args[1].name) THEN <<args[1].name>> ELSE <<"int">>

check_user_call(e, args) ==
  LET fn == Fns[e.name]
      arity == Len(args) = Len(fn.params)
      fits(i) == type_equals(args[i].type, fn.params[i].type)
  IN Typing(fn.ret, ~arity \/ \E i \in DOMAIN args : ~fits(i),
              IF arity THEN UNION {Passed(e.args[i], args[i].type, fn.params[i].type) :
                                     i \in DOMAIN args} ELSE {},
              IF arity THEN ToSet(args) ELSE {})

RECURSIVE check_expr(_, _), check_call(_, _)
check_call(sc, e) ==
  LET args == [i \in DOMAIN e.args |-> check_expr(sc, e.args[i])] IN
  CASE e.name = "alloc_array" ->
         IF Len(e.args) # 2 THEN Typing(<<"ptr", "int">>, TRUE, {}, {})
         ELSE LET named == e.args[1].is = "ident"
              IN Typing(PtrTo(ElemOf(e.args)), ~Is(args[2].type, Integral),
                          HoleIf(~named /\ ~Is(args[1].type, Integral), "element type"),
                          {args[2]} \cup IF named THEN {} ELSE {args[1]})
    [] e.name = "alloc" -> Typing(PtrTo(ElemOf(e.args)), FALSE, {}, {})
    [] e.name \in {"free", "print"} -> Typing(<<"void">>, FALSE, {}, ToSet(args))
    [] e.name \in DOMAIN Fns -> check_user_call(e, args)
    [] OTHER -> Typing(<<"error">>, TRUE, {}, {})

check_expr(sc, e) ==
  LET l == check_expr(sc, e.l)
      r == check_expr(sc, e.r)
  IN CASE e.is = "int" -> Typing(<<"int">>, FALSE, {}, {})
       [] e.is = "float" -> Typing(<<"f64">>, FALSE, {}, {})
       [] e.is = "bool" -> Typing(<<"bool">>, FALSE, {}, {})
       [] e.is = "string" -> Typing(<<"ptr", "u8">>, FALSE, {}, {})
       [] e = Null -> Typing(<<"ptr", "void">>, FALSE, {}, {})
       [] e.is = "ident" /\ e # Null -> IF Found(sc, e.name)
                                         THEN Typing(scope_find(sc, e.name).type, FALSE, {}, {})
                                         ELSE Typing(<<"error">>, TRUE, {}, {})
       [] e.is = "unary" -> check_unary(e, l)
       [] e.is = "binary" -> check_binary(e.op, l, r)
       [] e.is = "assign" -> check_assign(e, l, r)
       [] e.is = "call" -> check_call(sc, e)
       [] e.is = "index" -> check_index(l, r)
       [] e.is = "field" -> check_field(e, l)
       [] e.is = "struct_lit" ->
            check_struct_lit(e, [i \in DOMAIN e.inits |-> check_expr(sc, e.inits[i].e)])
       [] e.is = "range" -> Typing(l.type, ~Is(l.type, Integral) \/ ~Is(r.type, Integral),
                                     {"range"}, {l, r})
       [] e.is = "old" -> l
=============================================================================

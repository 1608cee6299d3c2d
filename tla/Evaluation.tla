----------------------------- MODULE Evaluation -----------------------------
(* eval, eval_lref, eval_assign, eval_call and call_fn of interp.c: what an  *)
(* expression comes to, in the order in which its parts are evaluated.       *)
EXTENDS Values

RECURSIVE eval(_, _), eval_lref(_, _)

EvalAll(m, es) ==
  FoldLeft(LAMBDA s, e : IF s.m.out # "ok" THEN s
                         ELSE LET r == eval(s.m, e) IN [vs |-> Append(s.vs, r.v), m |-> r.m],
           [vs |-> <<>>, m |-> m], es)

Both(m, l, r, K(_, _, _)) ==
  Then(eval(m, l), LAMBDA a, n : Then(eval(n, r), LAMBDA b, o : K(a, b, o)))

\* The cell is found before the right side is evaluated.
eval_assign(m, e) ==
  Then(eval_lref(m, e.l), LAMBDA s, n :
    Then(eval(n, e.r), LAMBDA r, o :
      Then(Load(o, s.ref), LAMBDA old, p :
        Then(IF e.op = "=" THEN R(r, p) ELSE bin_arith(p, e.op, old, r), LAMBDA v, q :
          R(v, Store(q, s.ref, v))))))

\* The items start with the default of the type the first argument was given.  A
\* negative length is a huge unsigned one, and no item is there.
alloc_array(m, e) ==
  Then(eval(m, e.args[2]), LAMBDA len, n :
    LET count == len.n
        elem == IF e.args[1].is = "ident" THEN ElemOf(e.args)
                                           ELSE check_expr(m.sc, e.args[1]).type
        d == Defaults(n, [i \in 1 .. count |-> elem])
    IN IF ~AnInt(len) THEN Stop(Ends(n, "confused", {}))
       ELSE IF count < 0 THEN NewArray(n, 2 ^ W, <<>>)
       ELSE NewArray(d.m, count, d.vs))

alloc(m, e) ==
  LET d == default_value(m, ElemOf(e.args))
      n == NewBlock(d.m, "cell", <<d.v>>)
  IN R(V_ptr(<<Newest(n), 1>>), n)

\* An array is written as bytes, from the payloads of its items.
Printed(m, v) ==
  IF v.k # "ptr" \/ v.ref = NULL THEN m
  ELSE Then(Load(m, v.ref), LAMBDA c, n :
         IF c.k # "array" THEN R(c, n)
         ELSE LET items == n.heap[c.ref[1]].cells
              IN IF Len(items) < c.n THEN Stop(Wild(n, "offset"))
                 ELSE IF \A i \in DOMAIN items : AnInt(items[i]) THEN R(c, n)
                 ELSE Stop(Ends(n, "confused", {"print"}))).m

\* Parameters are bound in a frame of their own, which goes with the call.
call_fn(m, fn, vs) ==
  LET entered == frame_new([m EXCEPT !.frames = <<>>, !.sc = <<fn.params>>])
      bound == FoldLeft(LAMBDA n, i : bind(n, fn.params[i].name, vs[i]), entered,
                        [i \in DOMAIN fn.params |-> i])
      ret == IF fn.result = <<>> THEN R(V_void, Noting(bound, HoleIf(fn.ret # <<"void">>, "no return")))
                                 ELSE eval(bound, fn.result[1])
  IN Then(ret, LAMBDA v, n : R(v, [frame_free(n) EXCEPT !.frames = m.frames, !.sc = m.sc]))

MaxArgs == 16

\* A call of a function with more arguments than there is room for ends the run
\* before any of them is evaluated.
eval_call(m, e) ==
  LET args == EvalAll(m, e.args) IN
  CASE e.name = "alloc_array" -> alloc_array(m, e)
    [] e.name = "alloc" -> alloc(m, e)
    [] e.name = "free" -> R(V_void, args.m)
    [] e.name = "print" ->
         R(V_void, FoldLeft(LAMBDA n, v : IF n.out = "ok" THEN Printed(n, v) ELSE n, args.m, args.vs))
    [] e.name \in DOMAIN Fns -> IF Len(e.args) > MaxArgs THEN Stop(Die(m))
                                ELSE IF args.m.out # "ok" THEN Stop(args.m)
                                ELSE call_fn(args.m, Fns[e.name], args.vs)

\* All fields start with their defaults; a value goes to the first field of its name.
struct_lit(m, e) ==
  LET d == default_value(m, <<e.name>>)
      vals == EvalAll(d.m, [i \in DOMAIN e.inits |-> e.inits[i].e])
      put(n, i) == Store(n, <<d.v.ref[1], FirstField(e.name, e.inits[i].name)>>, vals.vs[i])
  IN IF vals.m.out # "ok" THEN Stop(vals.m)
     ELSE R(d.v, FoldLeft(put, vals.m, [i \in DOMAIN e.inits |-> i]))

RangeValue(m, lo, hi) ==
  LET n == NewBlock(m, "fields", <<lo, hi>>) IN R(V_struct(<<Newest(n), 1>>, ""), n)

eval(m, e) ==
  CASE e.is = "int" -> R(V_int(e.n), m)
    [] e.is = "float" -> R(V_float(e.n), m)
    [] e.is = "bool" -> R(V_bool(e.n = 1), m)
    [] e.is = "string" -> NewArray(m, e.n, [i \in 1 .. e.n |-> V_int(1)])
    [] e = Null -> R(V_ptr(NULL), m)
    [] e.is = "unary" /\ e.op = "addr" -> eval_lref(m, e.l)
    [] e.is = "unary" /\ e.op \notin {"addr", "deref"} ->
         Then(eval(m, e.l), LAMBDA x, n : unary(n, e.op, x))
    [] e.is = "binary" /\ e.op \in Logic ->
         Then(eval(m, e.l), LAMBDA a, n :
           IF truthy(a) = (e.op = "||") THEN R(V_bool(truthy(a)), n)
           ELSE Then(eval(n, e.r), LAMBDA b, o : R(V_bool(truthy(b)), o)))
    [] e.is = "binary" /\ e.op \in Arith -> Both(m, e.l, e.r, LAMBDA a, b, n : bin_arith(n, e.op, a, b))
    [] e.is = "binary" /\ e.op \in Bits -> Both(m, e.l, e.r, LAMBDA a, b, n : bin_bitwise(n, e.op, a, b))
    [] e.is = "binary" /\ e.op \in Compare -> Both(m, e.l, e.r, LAMBDA a, b, n : bin_cmp(n, e.op, a, b))
    [] e.is = "assign" -> eval_assign(m, e)
    [] e.is = "call" -> eval_call(m, e)
    [] e.is = "range" -> Both(m, e.l, e.r, LAMBDA a, b, n : RangeValue(n, a, b))
    [] e.is = "struct_lit" -> struct_lit(m, e)
    [] e.is = "old" -> eval(m, e.l)
    [] OTHER -> Then(eval_lref(m, e), LAMBDA s, n : Load(n, s.ref))

eval_lref(m, e) ==
  CASE e.is = "ident" -> IF find(m, e.name) = NULL THEN Stop(Stuck(m)) ELSE Slot(find(m, e.name), m)
    [] e.is = "index" -> Both(m, e.l, e.r, LAMBDA b, i, n : Element(n, b, i))
    [] e.is = "field" /\ e.l.is = "ident" -> Then(eval_lref(m, e.l), LAMBDA s, n : FieldSlot(n, s, e.name))
    [] e.is = "field" /\ e.l.is # "ident" -> Then(eval(m, e.l), LAMBDA v, n : Stop(Stuck(n)))
    [] e.is = "unary" /\ e.op = "deref" -> Then(eval(m, e.l), LAMBDA x, n : Behind(n, x))
    [] OTHER -> Stop(Stuck(m))
=============================================================================

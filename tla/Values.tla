------------------------------- MODULE Values -------------------------------
(* Expressions at run time (interp.c 18-371, 393-590): tagged values, the    *)
(* cells they live in and the frames that name them.                         *)
(*                                                                           *)
(* The interpreter reads the payload of a value that it expects under a tag  *)
(* it does not always test.  Where the tag is another one, the outcome is    *)
(* "confused"; where it tests and stops on a thing the types should exclude, *)
(* it is "stuck"; "died" is a run-time error that programs may run into, and *)
(* "wild" is behaviour nobody defines: an address that is not there, and the *)
(* overflow of signed arithmetic.  Whatever goes beyond the types is also    *)
(* recorded in "holes".                                                      *)
(*                                                                           *)
(* Integers have W bits.  A float is only known to be zero or not.  What the *)
(* model does not know (whether realloc moves, how two addresses compare,    *)
(* whether a float result is zero) is up to a coin, one for each statement.  *)
EXTENDS Types, Bitwise

CONSTANTS W,         \* the bits of an integer, a power of two
          FrameFirst \* the bindings that a frame first has room for

ASSUME ValuesAssumption == W \in {2, 4, 8} /\ FrameFirst \in Nat \ {0}

\* A value: its tag, a number (of an array, the length), where it points (of a
\* struct or an array, its cells) and the struct it is.
Value(k, n, ref, ty) == [k |-> k, n |-> n, ref |-> ref, ty |-> ty]
NULL == <<0, 0>>
V_void == Value("void", 0, NULL, "")
V_int(n) == Value("int", n, NULL, "")
V_float(n) == Value("float", n, NULL, "")
V_bool(b) == Value("bool", IF b THEN 1 ELSE 0, NULL, "")
V_ptr(a) == Value("ptr", 0, a, "")
V_struct(a, ty) == Value("struct", 0, a, ty)
V_array(a, n) == Value("array", n, a, "")

Wrap(n) == ((n + 2 ^ (W - 1)) % 2 ^ W) - 2 ^ (W - 1)
Overflows(n) == n # Wrap(n)
Unsigned(n) == n % 2 ^ W
Abs(n) == IF n < 0 THEN -n ELSE n
Quot(x, y) == IF (x < 0) = (y < 0) THEN Abs(x) \div Abs(y) ELSE -(Abs(x) \div Abs(y))

\* Whether the integer payload is the one that was stored.
AnInt(v) == v.k = "int"

truthy(v) == v.k \in {"bool", "int"} /\ v.n # 0
-----------------------------------------------------------------------------
(* The machine: blocks of cells, and a chain of frames, innermost last.  The *)
(* bindings of a frame are the cells of a block that moves when it grows.    *)
Ends(m, out, hole) == [m EXCEPT !.out = out, !.holes = @ \cup hole]
Die(m) == Ends(m, "died", {})
Stuck(m) == Ends(m, "stuck", {})
Wild(m, hole) == Ends(m, "wild", {hole})
Noting(m, hole) == [m EXCEPT !.holes = @ \cup hole]

\* The result of an evaluation, and how it goes on unless the program stopped.
R(v, m) == [v |-> v, m |-> m]
Then(r, K(_, _)) == IF r.m.out = "ok" THEN K(r.v, r.m) ELSE r
Stop(m) == R(V_void, m)

NewBlock(m, kind, cells) ==
  [m EXCEPT !.heap = Append(@, [kind |-> kind, live |-> TRUE, cells |-> cells])]
Newest(m) == Len(m.heap)
At(m, a) == m.heap[a[1]].cells[a[2]]
Store(m, a, v) == [m EXCEPT !.heap[a[1]].cells[a[2]] = v]

ACell(m, a) == m.heap[a[1]].live /\ a[2] \in DOMAIN m.heap[a[1]].cells
Load(m, a) == IF ACell(m, a) THEN R(At(m, a), m)
              ELSE Stop(Wild(m, IF m.heap[a[1]].live THEN "offset" ELSE "stale"))

frame_new(m) == [m EXCEPT !.frames = Append(@, [names |-> <<>>, block |-> 0, cap |-> 0])]
Free(heap, b) == IF b = 0 THEN heap ELSE [heap EXCEPT ![b].live = FALSE]
frame_free(m) == [m EXCEPT !.heap = Free(@, LastOf(m.frames).block),
                           !.frames = SubSeq(@, 1, Len(@) - 1)]

\* Mutant: the capacity does not grow.
Grown_once(cap) == FrameFirst
Grown(cap) == IF cap = 0 THEN FrameFirst ELSE 2 * cap

\* realloc either extends the block or moves the bindings to a new one.
bind(m, name, v) ==
  LET i == Len(m.frames)
      f == m.frames[i]
      full == Len(f.names) = f.cap
      cap == IF full THEN Grown(f.cap) ELSE f.cap
      moves == f.block = 0 \/ (full /\ m.coin)
      old == IF f.block = 0 THEN <<>> ELSE m.heap[f.block].cells
      named(b) == [m.frames EXCEPT ![i] = [names |-> Append(f.names, name), block |-> b, cap |-> cap]]
  IN IF moves
     THEN LET n == NewBlock([m EXCEPT !.heap = Free(@, f.block)], "frame", Append(old, v))
          IN [n EXCEPT !.frames = named(Newest(n))]
     ELSE [m EXCEPT !.heap[f.block].cells = Append(@, v), !.frames = named(f.block)]

\* The cell of a name, from the innermost frame outwards; NULL if there is none.
find(m, name) ==
  LET names(i) == m.frames[i].names
      has == {i \in DOMAIN m.frames : \E j \in DOMAIN names(i) : names(i)[j] = name}
      i == CHOOSE i \in has : \A h \in has : i >= h
      j == CHOOSE j \in DOMAIN names(i) : names(i)[j] = name /\ \A h \in 1 .. j - 1 : names(i)[h] # name
  IN IF has = {} THEN NULL ELSE <<m.frames[i].block, j>>

\* The value a cell of type t starts with.
RECURSIVE default_value(_, _)
Defaults(m, ts) ==
  FoldLeft(LAMBDA s, t : LET d == default_value(s.m, t) IN [vs |-> Append(s.vs, d.v), m |-> d.m],
           [vs |-> <<>>, m |-> m], ts)
default_value(m, t) ==
  CASE t = <<"bool">> -> R(V_bool(FALSE), m)
    [] Is(t, Integral \ {"u8"}) -> R(V_int(0), m)
    [] Is(t, Numeric \ Integral) -> R(V_float(0), m)
    [] Is(t, Constructors) -> R(V_ptr(NULL), m)
    [] Is(t, Structs) ->
         LET d == Defaults(m, [j \in DOMAIN FieldsOf(t[1]) |-> FieldsOf(t[1])[j].type])
             n == NewBlock(d.m, "fields", d.vs)
         IN R(V_struct(<<Newest(n), 1>>, t[1]), n)
    [] OTHER -> R(V_void, Noting(m, HoleIf(t = <<"u8">>, "u8")))

\* calloc of n cells for the items of an array, and one for the array itself.
NewArray(m, n, items) ==
  LET a == NewBlock(m, "items", items)
      b == NewBlock(a, "cell", <<V_array(<<Newest(a), 1>>, n)>>)
  IN R(V_ptr(<<Newest(b), 1>>), b)
-----------------------------------------------------------------------------
(* Operators.                                                                *)
Zero(v) == v.n = 0
AFloat(v) == v.k = "float"
\* A result made from payloads: all are what was stored, or the reader is confused.
From(m, clean, r) == IF clean THEN r ELSE Stop(Ends(m, "confused", {}))
Numbers(vs) == \A v \in vs : AnInt(v) \/ AFloat(v)
Ints(vs) == \A v \in vs : AnInt(v)

float_arith(m, op, b) ==
  CASE op = "%" -> Stop(Stuck(m))
    [] op = "/" /\ Zero(b) -> Stop(Die(m))
    [] OTHER -> R(V_float(IF m.coin THEN 1 ELSE 0), m)

\* Signed arithmetic that leaves the W bits is undefined.
Signed(m, n) == IF Overflows(n) THEN Stop(Wild(m, "overflow")) ELSE R(V_int(n), m)

\* The remainder of a division that overflows is undefined as well.
int_arith(m, op, x, y) ==
  CASE op = "+" -> Signed(m, x + y)
    [] op = "-" -> Signed(m, x - y)
    [] op = "*" -> Signed(m, x * y)
    [] op \in {"/", "%"} /\ y = 0 -> Stop(Die(m))
    [] op = "/" /\ y # 0 -> Signed(m, Quot(x, y))
    [] op = "%" /\ y # 0 -> IF Overflows(Quot(x, y)) THEN Stop(Wild(m, "overflow"))
                            ELSE R(V_int(x - y * Quot(x, y)), m)

bin_arith(m, op, a, b) ==
  From(m, Numbers({a, b}), IF AFloat(a) \/ AFloat(b) THEN float_arith(m, op, b)
                           ELSE int_arith(m, op, a.n, b.n))

\* The operands are taken as unsigned; the right one of a shift modulo W.
bin_bitwise(m, op, a, b) ==
  LET x == Unsigned(a.n)  y == Unsigned(b.n)
  IN From(m, Ints({a, b}), R(V_int(Wrap(CASE op = "&" -> x & y
                                          [] op = "|" -> x | y
                                          [] op = "^" -> x ^^ y
                                          [] op = "<<" -> x * 2 ^ (y % W)
                                          [] op = ">>" -> x \div 2 ^ (y % W))), m))

values_equal(m, a, b) ==
  CASE a.k # b.k /\ {a.k, b.k} # {"int", "float"} -> FALSE
    [] AFloat(a) \/ AFloat(b) -> Zero(a) = Zero(b) /\ (Zero(a) \/ m.coin)
    [] a.k \in {"int", "bool"} /\ a.k = b.k -> a.n = b.n
    [] a.k = "ptr" /\ b.k = "ptr" -> a.ref = b.ref
    [] OTHER -> a.k = "void" /\ b.k = "void"

\* Of numbers only.  Each operator of two floats comes out either way, with the coin.
values_lt(m, a, b) ==
  IF AFloat(a) \/ AFloat(b) THEN ~(Zero(a) /\ Zero(b)) /\ m.coin ELSE a.n < b.n

\* Both answers are computed for every operator, and == and != drop that of values_lt:
\* only the four that order their operands make something of the integer payloads.
bin_cmp(m, op, a, b) ==
  LET eq == values_equal(m, a, b)  lt == values_lt(m, a, b)
  IN CASE op = "==" -> R(V_bool(eq), m)
       [] op = "!=" -> R(V_bool(~eq), m)
       [] op \in Order -> From(m, Numbers({a, b}), R(V_bool(CASE op = "<" -> lt
                                                              [] op = ">" -> ~lt /\ ~eq
                                                              [] op = "<=" -> lt \/ eq
                                                              [] op = ">=" -> ~lt), m))

\* What is not a float is negated, and everything complemented, as an integer.
unary(m, op, x) ==
  CASE op = "-" /\ AFloat(x) -> R(x, m)
    [] op = "-" /\ ~AFloat(x) -> From(m, AnInt(x), Signed(m, -x.n))
    [] op = "~" -> From(m, AnInt(x), R(V_int(-x.n - 1), m))
    [] op = "!" -> R(V_bool(IF x.k = "ptr" THEN x.ref = NULL ELSE ~truthy(x)), m)
-----------------------------------------------------------------------------
(* Cells.                                                                    *)
Slot(a, m) == R(V_ptr(a), m)

\* Behind a pointer there is an array, which has bounds, or a cell among others.
Element(m, b, i) ==
  IF b.k # "ptr" THEN Stop(Stuck(m))
  ELSE IF b.ref = NULL THEN Stop(Die(m))
  ELSE IF ~AnInt(i) THEN Stop(Ends(m, "confused", {}))
  ELSE Then(Load(m, b.ref), LAMBDA c, n :
    LET x == i.n
        there == <<b.ref[1], b.ref[2] + x>>
    IN CASE c.k = "array" -> IF x \in 0 .. c.n - 1 THEN Slot(<<c.ref[1], x + 1>>, n) ELSE Stop(Die(n))
         [] c.k # "array" /\ (x = 0 \/ /\ m.heap[b.ref[1]].kind = "items"
                                       /\ there[2] \in DOMAIN m.heap[b.ref[1]].cells) ->
              Slot(there, n)
         [] OTHER -> Stop(Wild(n, "offset")))

\* The array is taken for its first item.
ArrayAt(c) == HoleIf(c.k = "array", "array cell")

\* A field of the struct in a cell, or of the one that the cell points to.
struct_field_ptr(m, target, name) ==
  IF target.k # "struct" \/ target.ty = "" \/ Owns(target.ty, name) = {}
  THEN Stop(Stuck(Noting(m, ArrayAt(target))))
  ELSE Slot(<<target.ref[1], FirstField(target.ty, name)>>, m)

FieldSlot(m, s, name) ==
  Then(Load(m, s.ref), LAMBDA c, n :
    IF c.k # "ptr" THEN struct_field_ptr(n, c, name)
    ELSE IF c.ref = NULL THEN Stop(Die(n))
    ELSE Then(Load(n, c.ref), LAMBDA target, o : struct_field_ptr(o, target, name)))

\* What *p stands for, where p came out as x.
Behind(m, x) ==
  IF x.k # "ptr" THEN Stop(Stuck(m))
  ELSE IF x.ref = NULL THEN Stop(Die(m))
  ELSE R(x, IF ACell(m, x.ref) THEN Noting(m, ArrayAt(At(m, x.ref))) ELSE m)
=============================================================================

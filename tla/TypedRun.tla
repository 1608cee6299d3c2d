------------------------------ MODULE TypedRun ------------------------------
(* A function body under the type checker and under the interpreter. In the  *)
(* program the whole body is checked before any of it runs; here each        *)
(* statement runs as soon as it is accepted.  That is the same, since a body *)
(* that is accepted up to a statement is a program, and a statement that is  *)
(* not accepted ends the run.  Branches and loops are those of Bodies; here  *)
(* the statements follow each other, in nested blocks.                       *)
EXTENDS Evaluation

CONSTANTS Steps,   \* for each position, the statements the body may have there
          Params,    \* the parameters of the function
          Args,      \* the values it is called with
          Depth      \* bound on the pointers a value is followed through

VARIABLES
  pos,      \* the statements that were checked and executed
  scopes,   \* S->scope: name and type of what is declared, innermost last
  machine,  \* the interpreter: frames, heap, outcome
  bad       \* ghost: some expression or variable has the type "error"

typedvars == <<resolvevars, pos, scopes, machine, bad>>

Running == pos \in 1 .. Len(Steps) /\ ~had_error /\ machine.out = "ok"

Cold == [heap |-> <<>>, frames |-> <<>>, sc |-> <<>>, coin |-> FALSE, out |-> "ok", holes |-> {}]

TypedInit == ResolveInit /\ pos = 0 /\ scopes = <<>> /\ machine = Cold /\ bad = FALSE

ResolveTypes == ResolveNext /\ UNCHANGED <<pos, scopes, machine, bad>>

\* The other functions: what they return is of their type (check_stmt, ST_RETURN).
Returned(fn) == IF fn.result = <<>> THEN Typing(fn.ret, FALSE, {}, {})
                ELSE LET c == check_expr(<<fn.params>>, fn.result[1])
                     IN Typing(c.type, ~type_equals(fn.ret, c.type),
                               Passed(fn.result[1], c.type, fn.ret), {c})
FnChecks == {Returned(Fns[f]) : f \in DOMAIN Fns}

\* check_fn and call_fn: the scope and the frame of the parameters.
Enter ==
  /\ Resolved /\ ~had_error /\ pos = 0
  /\ pos' = 1 /\ scopes' = <<Params>>
  /\ had_error' = \E b \in FnChecks : b.err
  /\ bad' = \E b \in FnChecks : b.bad
  /\ \E args \in Args :
       machine' = FoldLeft(LAMBDA m, i : bind(m, Params[i].name, args[i]),
                           frame_new([Cold EXCEPT !.holes = UNION {b.holes : b \in FnChecks}]),
                           [i \in DOMAIN Params |-> i])
  /\ UNCHANGED <<module, types, walk>>

\* The interpreter with the types of the analysis, and a coin for what it does not tell.
Ready(c, coin) == [Noting(machine, c.holes) EXCEPT !.sc = scopes, !.coin = coin]
Left(m) == [m EXCEPT !.sc = <<>>, !.coin = FALSE]

Judge(c, err) == /\ had_error' = err
                 /\ bad' = (bad \/ c.bad)
                 /\ pos' = pos + 1
                 /\ UNCHANGED <<module, types, walk>>
Statement(is) == {st \in Steps[pos] : st.is = is}

Expr == Running /\ \E st \in Statement("expr") :
  LET c == check_expr(scopes, st.e) IN
  /\ Judge(c, c.err)
  /\ IF c.err THEN UNCHANGED machine
     ELSE \E coin \in BOOLEAN : machine' = Left(eval(Ready(c, coin), st.e).m)
  /\ UNCHANGED scopes

\* A variable has the declared type, or else the one of its initializer.  Without
\* an initializer it starts as a void value.
Let == Running /\ \E st \in {l \in Statement("let") : l.type \in Declared \cup {<<>>}} :
  LET c == IF st.init # <<>> THEN check_expr(scopes, st.init[1])
           ELSE IF st.type # <<>> THEN Typing(st.type, FALSE, {"no value"}, {})
           ELSE Typing(<<"error">>, TRUE, {}, {})
      t == IF st.type = <<>> THEN c.type ELSE st.type
      d == Typing(t, c.err \/ ~type_equals(t, c.type),
                  IF st.init = <<>> THEN {} ELSE Passed(st.init[1], c.type, t), {c})
  IN /\ Judge(d, d.err)
     /\ scopes' = [scopes EXCEPT ![Len(scopes)] = Append(@, [name |-> st.name, type |-> t])]
     /\ IF d.err THEN UNCHANGED machine
        ELSE \E coin \in BOOLEAN :
               LET m == Ready(d, coin)
                   r == IF st.init = <<>> THEN R(V_void, m) ELSE eval(m, st.init[1])
               IN machine' = Left(Then(r, LAMBDA v, n : R(v, bind(n, st.name, v))).m)

OpenBlock ==
  /\ Running /\ Statement("open") # {}
  /\ scopes' = Append(scopes, <<>>) /\ machine' = frame_new(machine) /\ pos' = pos + 1
  /\ UNCHANGED <<resolvevars, bad>>

CloseBlock ==
  /\ Running /\ Statement("close") # {} /\ Len(scopes) > 1
  /\ scopes' = SubSeq(scopes, 1, Len(scopes) - 1) /\ machine' = frame_free(machine)
  /\ pos' = pos + 1
  /\ UNCHANGED <<resolvevars, bad>>

TypedNext == ResolveTypes \/ Enter \/ Expr \/ Let \/ OpenBlock \/ CloseBlock
TypedSpec == TypedInit /\ [][TypedNext]_typedvars /\ WF_typedvars(ResolveTypes)
-----------------------------------------------------------------------------
\* Type invariant, with the correspondence of the two sides: for each scope
\* there is a frame, with the same names in the same order and a live block that
\* has room for them (scope_add and push_scope against bind and frame_new).
TypesTypeOK ==
  /\ pos \in 0 .. Len(Steps) + 1 /\ had_error \in BOOLEAN /\ bad \in BOOLEAN
  /\ machine.out \in {"ok", "died", "stuck", "confused", "wild"}
  /\ machine.out = "ok" /\ ~had_error =>
       /\ Len(scopes) = Len(machine.frames)
       /\ \A i \in DOMAIN scopes :
            LET f == machine.frames[i] IN
            /\ f.names = [j \in DOMAIN scopes[i] |-> scopes[i][j].name]
            /\ Len(f.names) <= f.cap
            /\ f.names # <<>> => machine.heap[f.block].live
                                 /\ Len(machine.heap[f.block].cells) = Len(f.names)

\* The value fits the type, through at most n pointers.  Where a pointer leads to no cell,
\* and behind *void, anything may be.
RECURSIVE Fits(_, _, _)
Items(c) == machine.heap[c.ref[1]].cells
Fits(v, t, n) ==
  CASE Is(t, Integral) -> v.k = "int"
    [] Is(t, Numeric \ Integral) -> v.k = "float"
    [] Is(t, {"bool", "void"}) -> v.k = t[1]
    [] Is(t, {"ptr"}) ->
         /\ v.k = "ptr"
         /\ n = 0 \/ v.ref = NULL \/ t[2] = "void" \/ ~ACell(machine, v.ref)
              \/ LET c == At(machine, v.ref) IN
                 IF c.k = "array" THEN \A i \in DOMAIN Items(c) : Fits(Items(c)[i], Tail(t), n - 1)
                                  ELSE Fits(c, Tail(t), n - 1)
    [] Is(t, Constructors \ {"ptr"}) -> v.k = "ptr" /\ v.ref = NULL
    [] Is(t, Structs) -> /\ v.k = "struct" /\ v.ty = t[1]
                         /\ \A j \in DOMAIN FieldsOf(t[1]) :
                              Fits(Items(v)[j], FieldsOf(t[1])[j].type, n)
    [] OTHER -> FALSE

\* What the type checker accepts, the interpreter keeps to (check_expr against
\* eval): every variable holds a value of its type, fields and targets of pointers
\* included; no result is made from a payload read under a tag that is not its own;
\* no signed arithmetic overflows; and evaluation does not stop on what the types
\* exclude.  The exceptions are the holes, each recorded where it opens.
Sound ==
  ~had_error /\ machine.holes = {} =>
    /\ machine.out \notin {"stuck", "confused", "wild"}
    /\ machine.out = "ok" =>
         \A i \in DOMAIN scopes : \A j \in DOMAIN scopes[i] :
           Fits(machine.heap[machine.frames[i].block].cells[j], scopes[i][j].type, Depth)

\* The type "error" is equal to any other and stands for an error that was
\* reported (type.c 26, sema.c passim): it never gets into an accepted program.
ErrorsReported ==
  bad \/ (\E i \in DOMAIN types : \E j \in DOMAIN types[i] : types[i][j] = "error") => had_error

\* Types are resolved in finitely many steps unless an alias leads back to itself
\* (resolve_named calls resolve_type on what an alias stands for).
ResolveEnds == Acyclic ~> Resolved
=============================================================================

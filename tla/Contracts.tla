------------------------------ MODULE Contracts ------------------------------
(* The calling protocol of the interpreter (call_fn in interp.c): bind the   *)
(* parameter, check @requires, capture the old() values, run the body, bind  *)
(* `result`, check @ensures, return.                                         *)
(*                                                                           *)
(* A function takes one integer x and works on one cell of memory, and its   *)
(* contract is what Lowering kept of it.  A condition compares two operands: *)
(* [l, r, d] says l >= r + d.  What a body computes is left open: it assigns *)
(* to its variables and to the cell, declares locals, calls, and returns any *)
(* value.  Sema never looks at a condition, so one may call and assign too:  *)
(* an operand "open" does what an expression can do, and while one is being  *)
(* evaluated the activation acts as it does in its body; the condition comes *)
(* out either way.                                                           *)
EXTENDS Integers, Sequences, FiniteSets

CONSTANTS
  Fns,        \* the functions
  Contract,   \* the conditions that are evaluated, per function
  Locals,     \* names that a body may declare with `let` at its top level
  Vals,       \* values a program computes with
  MaxDepth,   \* bound on nested calls
  MaxLocals   \* bound on the locals of an activation

Operand == {"zero", "x", "cell", "result", "open", "old x", "old cell", "old open"}
OldOperand == {"old x", "old cell", "old open"}
Cond == [l : Operand, r : Operand, d : Int]
Mentions(c, os) == c.l \in os \/ c.r \in os

ASSUME ContractsAssumption ==
  /\ Contract \in [Fns -> [requires : Seq(Cond), ensures : Seq(Cond)]]
  /\ Vals \subseteq Int /\ MaxDepth \in Nat /\ MaxLocals \in Nat

VARIABLES
  cell,    \* the memory all activations can reach
  stack    \* the activations of call_fn; empty once the run is over

vars == <<cell, stack>>

\* A name the program wrote, or the one call_fn makes up for an old() node:
\* the condition it is in and the side it is on.
Name == Nat \X (Locals \cup {"x", "result", "l", "r"})
Source(n) == <<0, n>>
Binding == [name : Name, value : Int]
Activation == [fn : Fns, frame : Seq(Binding), at : {"requires", "olds", "body", "ensures"},
               i : Nat \ {0}, ret : Int,
               \* ghosts: what the call found, and what the preconditions left
               entry : [x : Int, cell : Int], start : [x : Int, cell : Int]]

\* The parameter is the first binding of a frame.
Param(a) == a.frame[1].value
Now(a) == [x |-> Param(a), cell |-> cell]

Top == stack[Len(stack)]
Update(a) == stack' = [stack EXCEPT ![Len(stack)] = a]
Pop == stack' = SubSeq(stack, 1, Len(stack) - 1)

\* Mutant: a new binding is found before the older ones.
bind_front(f, n, v) == <<[name |-> n, value |-> v]>> \o f

bind(f, n, v) == Append(f, [name |-> n, value |-> v])

\* The first binding of a name is the one that counts.
First(f, n) == CHOOSE i \in DOMAIN f : f[i].name = n /\ \A j \in 1 .. i - 1 : f[j].name # n
Bound(f, n) == \E i \in DOMAIN f : f[i].name = n
find(f, n) == f[First(f, n)].value

\* The old() nodes of the postconditions, in the order met.
OldsOf(k, c) == (IF c.l \in OldOperand THEN <<<<k, "l">>>> ELSE <<>>)
             \o (IF c.r \in OldOperand THEN <<<<k, "r">>>> ELSE <<>>)
collect_olds(f) ==
  LET es == Contract[f].ensures
      upto[k \in 0 .. Len(es)] == IF k = 0 THEN <<>> ELSE upto[k - 1] \o OldsOf(k, es[k])
  IN upto[Len(es)]

\* The operand an old() node snapshots.
Inner(f, node) ==
  LET c == Contract[f].ensures[node[1]]
      o == IF node[2] = "l" THEN c.l ELSE c.r
  IN CASE o = "old x" -> "x" [] o = "old cell" -> "cell" [] OTHER -> "open"

\* What is evaluated in a phase of a call, and whether that may act: an old()
\* that was not captured, in a precondition, is evaluated on the spot.
Points(f, at) ==
  CASE at = "requires" -> DOMAIN Contract[f].requires
    [] at = "olds"     -> DOMAIN collect_olds(f)
    [] at = "body"     -> {1}
    [] at = "ensures"  -> DOMAIN Contract[f].ensures
Acts(f, at, i) ==
  i \in Points(f, at) /\ CASE at = "requires" -> Mentions(Contract[f].requires[i], {"open", "old open"})
                           [] at = "olds"     -> Inner(f, collect_olds(f)[i]) = "open"
                           [] at = "body"     -> TRUE
                           [] at = "ensures"  -> Mentions(Contract[f].ensures[i], {"open"})

\* eval on an operand.
Eval(frame, node, o) ==
  CASE o = "zero" -> 0
    [] o = "cell" -> cell
    [] o \in {"x", "result"} -> find(frame, Source(o))
    [] o \in OldOperand ->
         IF Bound(frame, node) THEN find(frame, node)
         ELSE IF o = "old x" THEN find(frame, Source("x")) ELSE cell

\* A precondition may speak of a `result` that is not there yet: eval dies.
Defined(frame, o) == o = "result" => Bound(frame, Source(o))

\* A condition that cannot act.
Holds(frame, k, c) ==
  /\ Defined(frame, c.l) /\ Defined(frame, c.r)
  /\ Eval(frame, <<k, "l">>, c.l) >= Eval(frame, <<k, "r">>, c.r) + c.d
-----------------------------------------------------------------------------
Enter(f, x) ==
  [fn |-> f, frame |-> bind(<<>>, Source("x"), x), at |-> "requires", i |-> 1, ret |-> 0,
   entry |-> [x |-> x, cell |-> cell], start |-> [x |-> x, cell |-> cell]]

Init == /\ cell \in Vals
        /\ \E f \in Fns, x \in Vals : stack = <<Enter(f, x)>>

Running == stack # <<>>
Die == stack' = <<>> /\ UNCHANGED cell
Working == Running /\ Acts(Top.fn, Top.at, Top.i)

\* What a condition comes out as, and what an old() operand does.
Outcomes(k, c) == IF Working THEN BOOLEAN ELSE {Holds(Top.frame, k, c)}
Captures(node) ==
  IF Working THEN Vals ELSE {Eval(Top.frame, node, Inner(Top.fn, node))}
Check(k, c) ==
  \E ok \in Outcomes(k, c) :
    IF ok THEN Update([Top EXCEPT !.i = @ + 1]) /\ UNCHANGED cell ELSE Die

Requires ==
  /\ Running /\ Top.at = "requires" /\ Top.i \in DOMAIN Contract[Top.fn].requires
  /\ Check(0, Contract[Top.fn].requires[Top.i])

\* Mutant: the last precondition is not checked.
RequiresMet_short ==
  /\ Running /\ Top.at = "requires" /\ Top.i + 1 \notin DOMAIN Contract[Top.fn].requires
  /\ Update([Top EXCEPT !.at = "olds", !.i = 1, !.start = Now(Top)])
  /\ UNCHANGED cell

RequiresMet ==
  /\ Running /\ Top.at = "requires" /\ Top.i \notin DOMAIN Contract[Top.fn].requires
  /\ Update([Top EXCEPT !.at = "olds", !.i = 1, !.start = Now(Top)])
  /\ UNCHANGED cell

\* Mutant: the snapshot overwrites the parameter.
CaptureOld_over ==
  /\ Running /\ Top.at = "olds" /\ Top.i \in DOMAIN collect_olds(Top.fn)
  /\ LET node == collect_olds(Top.fn)[Top.i] IN
       \E v \in Captures(node) : Update([Top EXCEPT !.frame[1].value = v, !.i = @ + 1])
  /\ UNCHANGED cell

CaptureOld ==
  /\ Running /\ Top.at = "olds" /\ Top.i \in DOMAIN collect_olds(Top.fn)
  /\ LET node == collect_olds(Top.fn)[Top.i] IN
       \E v \in Captures(node) : Update([Top EXCEPT !.frame = bind(@, node, v), !.i = @ + 1])
  /\ UNCHANGED cell

\* Mutant: the body does not wait for the snapshots.
BeginBody_early ==
  /\ Running /\ Top.at = "olds"
  /\ Update([Top EXCEPT !.at = "body", !.i = 1])
  /\ UNCHANGED cell

BeginBody ==
  /\ Running /\ Top.at = "olds" /\ Top.i \notin DOMAIN collect_olds(Top.fn)
  /\ Update([Top EXCEPT !.at = "body", !.i = 1])
  /\ UNCHANGED cell

InBody == Running /\ Top.at = "body"

\* An assignment to a variable of the activation, and one to memory.
Assign(n, v) ==
  /\ Working /\ Bound(Top.frame, Source(n))
  /\ Update([Top EXCEPT !.frame[First(Top.frame, Source(n))].value = v])
  /\ UNCHANGED cell

AssignCell(v) == Working /\ cell' = v /\ UNCHANGED stack

Let(n, v) ==
  /\ InBody
  /\ Cardinality({j \in 2 .. Len(Top.frame) : Top.frame[j].name[1] = 0}) < MaxLocals
  /\ Update([Top EXCEPT !.frame = bind(@, Source(n), v)])
  /\ UNCHANGED cell

Call(f, x) ==
  /\ Working /\ Len(stack) < MaxDepth
  /\ stack' = Append(stack, Enter(f, x))
  /\ UNCHANGED cell

\* A runtime error in a body, or in an expression that may act.
Fail == Working /\ Die

EndBody(v) ==
  /\ InBody
  /\ Update([Top EXCEPT !.at = "ensures", !.ret = v,
                        !.frame = IF Contract[Top.fn].ensures = <<>> THEN @ ELSE bind(@, Source("result"), v)])
  /\ UNCHANGED cell

Ensures ==
  /\ Running /\ Top.at = "ensures" /\ Top.i \in DOMAIN Contract[Top.fn].ensures
  /\ Check(Top.i, Contract[Top.fn].ensures[Top.i])

Return ==
  /\ Running /\ Top.at = "ensures" /\ Top.i \notin DOMAIN Contract[Top.fn].ensures
  /\ Pop /\ UNCHANGED cell

Next ==
  \/ Requires \/ RequiresMet \/ CaptureOld \/ BeginBody
  \/ \E v \in Vals : AssignCell(v) \/ EndBody(v)
  \/ \E n \in Locals \cup {"x", "result"}, v \in Vals : Assign(n, v)
  \/ \E n \in Locals, v \in Vals : Let(n, v)
  \/ \E f \in Fns, x \in Vals : Call(f, x)
  \/ Fail \/ Ensures \/ Return

Spec == Init /\ [][Next]_vars
-----------------------------------------------------------------------------
TypeOK ==
  /\ cell \in Int
  /\ stack \in Seq(Activation)
  /\ \A n \in DOMAIN stack :
       stack[n].frame # <<>> /\ stack[n].frame[1].name = Source("x")

\* What a condition says of the state `now`, when old() speaks of the state
\* `old` and the call returns ret.
Means(o, now, old, ret) ==
  CASE o = "zero" -> 0   [] o = "x" -> now.x   [] o = "cell" -> now.cell   [] o = "result" -> ret
    [] o = "old x" -> old.x   [] o = "old cell" -> old.cell
Meets(cond, now, old, ret) == Means(cond.l, now, old, ret) >= Means(cond.r, now, old, ret) + cond.d

\* None of what is evaluated at these points acts.
Quiet(f, at, S) == \A j \in Points(f, at) \cap S : ~Acts(f, at, j)

\* The state that old() speaks of.
Before(a) == IF Quiet(a.fn, "requires", Nat) THEN a.entry ELSE a.start

\* IMPL.md 12.1, "@requires -> function entry check": past the preconditions,
\* the state a call was entered in met each one, up to the first that may act.
EntryChecked ==
  \A n \in DOMAIN stack :
    LET a == stack[n]   pre == Contract[a.fn].requires IN
      a.at # "requires" =>
        \A k \in DOMAIN pre : Quiet(a.fn, "requires", 1 .. k) => Meets(pre[k], a.entry, a.entry, 0)

\* The same from the other side: a body begins in a state that meets each
\* precondition after which nothing that may act was evaluated, whatever the
\* ones before it called and assigned.
BodyChecked ==
  Running /\ Top.at = "olds" /\ Top.i \notin Points(Top.fn, "olds") /\ Quiet(Top.fn, "olds", Nat) =>
    \A k \in DOMAIN Contract[Top.fn].requires :
      Quiet(Top.fn, "requires", k .. Len(Contract[Top.fn].requires)) =>
        Meets(Contract[Top.fn].requires[k], Now(Top), Now(Top), 0)

\* A postcondition that a call may be held to when it returns: nothing from it
\* on acts.  What old() and `result` stand for is lost when an old() operand
\* acts, when a postcondition before it does (it may assign to `result`), and
\* when the body declared a `result` of its own.
Binds(a, k) ==
  LET c == Contract[a.fn].ensures[k] IN
    /\ Quiet(a.fn, "ensures", k .. Len(Contract[a.fn].ensures))
    /\ Mentions(c, OldOperand) => Quiet(a.fn, "olds", Nat)
    /\ Mentions(c, {"result"}) =>
         Quiet(a.fn, "ensures", 1 .. k) /\ \A j \in 2 .. Len(a.frame) - 1 : a.frame[j].name # Source("result")

\* IMPL.md 12.1 and 12.3, "@ensures -> before return": a call returns only in a
\* state that meets the postconditions, where old() is the state on entry (what
\* the preconditions left of it, if they act) however the body and the calls it
\* made changed x and the cell.
ExitChecked ==
  Running /\ Top.at = "ensures" /\ Top.i \notin DOMAIN Contract[Top.fn].ensures =>
    \A k \in DOMAIN Contract[Top.fn].ensures :
      Binds(Top, k) => Meets(Contract[Top.fn].ensures[k], Now(Top), Before(Top), Top.ret)

\* IMPL.md 12.1 without the exceptions.  The code does not keep it: find takes
\* the first binding, and `result` is bound after the body's own locals.
ResultIsReturnValue ==
  Running /\ Top.at = "ensures" /\ Top.i \notin DOMAIN Contract[Top.fn].ensures =>
    \A k \in DOMAIN Contract[Top.fn].ensures :
      Meets(Contract[Top.fn].ensures[k], Now(Top), Top.entry, Top.ret)

\* README, "no runtime cost": checking contracts is invisible to a run that
\* passes them.  Calls nest and share the cell; the cell and a parameter change
\* in a body and where a condition of the function on top may act, nowhere
\* else, and never in another activation.
BarePhase(at) == IF at = "body" THEN "body" ELSE IF at = "ensures" THEN "out" ELSE "in"
Bare == INSTANCE BareCalls WITH
  Active <- {e \in Fns \X {"in", "body", "out"} :
               \/ e[2] = "body"
               \/ e[2] = "in" /\ ~(Quiet(e[1], "requires", Nat) /\ Quiet(e[1], "olds", Nat))
               \/ e[2] = "out" /\ ~Quiet(e[1], "ensures", Nat)},
  stack <- [n \in DOMAIN stack |-> [fn |-> stack[n].fn, x |-> Param(stack[n]),
                                    at |-> BarePhase(stack[n].at)]]
Transparent == Bare!Spec
=============================================================================

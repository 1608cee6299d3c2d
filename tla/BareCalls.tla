------------------------------ MODULE BareCalls ------------------------------
(* A run without contracts: nested calls, each with a parameter of its own,  *)
(* over one cell of shared memory, that act in their bodies and wherever     *)
(* else they are said to.  README: checks cost nothing when they are off;    *)
(* when they are on they may end a run and must not change it.               *)
EXTENDS Integers, Sequences

CONSTANTS
  Fns, Vals,
  Active   \* where a function calls and assigns: pairs of a function and a phase

VARIABLES cell,   \* the memory all activations can reach
          stack   \* the activations: function, parameter and how far it is

vars == <<cell, stack>>

Top == stack[Len(stack)]
Working == stack # <<>> /\ <<Top.fn, Top.at>> \in Active
Enter(f, x) == [fn |-> f, x |-> x, at |-> "in"]

Init == \E f \in Fns, x \in Vals : cell \in Vals /\ stack = <<Enter(f, x)>>

\* An activation enters its body and leaves it, and does nothing besides.
Move(from, to) ==
  /\ stack # <<>> /\ Top.at = from
  /\ stack' = [stack EXCEPT ![Len(stack)].at = to]
  /\ UNCHANGED cell

SetX(x) ==
  /\ Working
  /\ stack' = [stack EXCEPT ![Len(stack)].x = x]
  /\ UNCHANGED cell

SetCell(v) == Working /\ cell' = v /\ UNCHANGED stack

Call(f, x) ==
  /\ Working
  /\ stack' = Append(stack, Enter(f, x))
  /\ UNCHANGED cell

Return ==
  /\ stack # <<>> /\ Top.at = "out"
  /\ stack' = SubSeq(stack, 1, Len(stack) - 1)
  /\ UNCHANGED cell

Stop == stack' = <<>> /\ UNCHANGED cell

Next == \/ Move("in", "body") \/ Move("body", "out")
        \/ \E v \in Vals : SetX(v) \/ SetCell(v)
        \/ \E f \in Fns, x \in Vals : Call(f, x)
        \/ Return \/ Stop

Spec == Init /\ [][Next]_vars
=============================================================================

-------------------------- MODULE OneImplementation --------------------------
(* What IMPL.md 20 promises of a run: "single implementation selected per    *)
(* function".  Which variant a function name stands for is settled before    *)
(* the program starts, whoever calls it later and from wherever.  The calls  *)
(* then nest, and the run may stop at any point.                             *)
EXTENDS Integers, Sequences

CONSTANTS Fns, Variants, Main, None

VARIABLES impl,    \* the variant every function name stands for
          stack,   \* the variants being executed, main first
          status   \* "ready", "running" or "over"

vars == <<impl, stack, status>>

Init ==
  /\ impl \in [Fns -> Variants \cup {None}]
  /\ stack = <<>> /\ status = "ready"

Start ==
  /\ status = "ready" /\ impl[Main] # None
  /\ stack' = <<impl[Main]>> /\ status' = "running"
  /\ UNCHANGED impl

Call(f) ==
  /\ status = "running" /\ impl[f] # None
  /\ stack' = Append(stack, impl[f])
  /\ UNCHANGED <<impl, status>>

\* The end of the first activation is the end of the run.
Return ==
  /\ status = "running" /\ Len(stack) > 1
  /\ stack' = SubSeq(stack, 1, Len(stack) - 1)
  /\ UNCHANGED <<impl, status>>

Stop ==
  /\ status # "over"
  /\ stack' = <<>> /\ status' = "over"
  /\ UNCHANGED impl

Next == Start \/ (\E f \in Fns : Call(f)) \/ Return \/ Stop

Spec == Init /\ [][Next]_vars
=============================================================================

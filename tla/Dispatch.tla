------------------------------ MODULE Dispatch ------------------------------
(* A whole `vanta run` after parsing (cmd_run in main.c): the analysis of    *)
(* Variants, then the interpreter's calls (interp.c).  A call in a body      *)
(* follows the pointer sema left on it.  main, and a call inside a contract  *)
(* or a struct invariant, which sema never looks at, are looked up again at  *)
(* run time by a second selection loop that has to agree with the first.     *)
(*                                                                           *)
(* Control flow inside a body is left open: a body may make any of its calls *)
(* any number of times, fail, or end.  The arguments of a call are evaluated *)
(* between finding its target and entering it; the lookup reads nothing they *)
(* can change, so a target is found and entered at once.                     *)
EXTENDS Variants

CONSTANTS Main,       \* "main"
          CondCalls,  \* the functions that conditions may call
          InvCalls,   \* the functions that invariants of structs may call
          MaxDepth    \* bound on nested calls

ASSUME DispatchAssumption == /\ Main \in Fns /\ CondCalls \cup InvCalls \subseteq Fns
                             /\ MaxDepth \in Nat

VARIABLES
  stage,    \* "sema", "lookup" (inside lookup_active_variant), "run", "over"
  look,     \* the registers of lookup_active_variant
  stack,    \* the activations of call_fn, main first
  outcome   \* how the process ended

run == <<stage, look, stack, outcome>>
allvars == <<vars, run>>

\* An activation: the variant pointer it was called with, the function's name
\* and how far call_fn has come.
Activation == [p : [block : Nat, idx : Nat], fn : Fns, at : {"requires", "body", "ensures"}]
Activate(p, f) == [p |-> p, fn |-> f, at |-> "requires"]
Top == stack[Len(stack)]
Executed(a) == Target(a.p, a.fn)

\* lower_find: the contract of a variant is found by the variant's address.
HasContract(a) == Live(a.p, a.fn)

\* The conditions of one kind that lowering keeps (KeptExactly in Lowering).
Conditions(a, kind) ==
  LET attrs == decls[Executed(a)].attrs IN
    {p \in DOMAIN attrs :
       /\ HasContract(a) /\ attrs[p] = kind
       /\ \A i \in 1 .. p - 1 : is_invariant_kind(attrs[i]) \/ attrs[i] \in active}
-----------------------------------------------------------------------------
RunInit ==
  /\ stage = "sema" /\ stack = <<>> /\ outcome = "none"
  /\ look = [fn |-> Main, i |-> 1, best |-> 0, score |-> -1]

DispatchInit == Init /\ RunInit

Sema == stage = "sema" /\ SemaNext /\ UNCHANGED run

\* cmd_run stops after sema.
Reject ==
  /\ stage = "sema" /\ phase = "done" /\ had_error
  /\ stage' = "over" /\ outcome' = "rejected"
  /\ UNCHANGED <<vars, look, stack>>

\* Mutant: the scan starts behind the first variant.
Lookup_short(f) ==
  /\ stage' = "lookup"
  /\ look' = [fn |-> f, i |-> 2, best |-> 0, score |-> -1]
  /\ UNCHANGED <<vars, stack, outcome>>

Lookup(f) ==
  /\ stage' = "lookup"
  /\ look' = [fn |-> f, i |-> 1, best |-> 0, score |-> -1]
  /\ UNCHANGED <<vars, stack, outcome>>

\* lower, then interp_run looks for main.
FindMain == stage = "sema" /\ phase = "done" /\ ~had_error /\ Lookup(Main)

\* Mutant: the last of equal variants wins.
Prefer_last(v) == Matches(decls[v].attrs, active) /\ Score(decls[v].attrs) >= look.score

Prefer(v) == Matches(decls[v].attrs, active) /\ Score(decls[v].attrs) > look.score

LookupStep ==
  /\ stage = "lookup" /\ look.i \in DOMAIN Items(look.fn)
  /\ LET v == Items(look.fn)[look.i] IN
       look' = [look EXCEPT !.i = @ + 1,
                            !.best = IF Prefer(v) THEN look.i ELSE @,
                            !.score = IF Prefer(v) THEN Score(decls[v].attrs) ELSE @]
  /\ UNCHANGED <<vars, stage, stack, outcome>>

Die ==
  /\ stage' = "over" /\ outcome' = "died" /\ stack' = <<>>
  /\ UNCHANGED <<vars, look>>

\* Mutant: without a main the search starts over.
LookupFails_again ==
  /\ stage = "lookup" /\ look.i \notin DOMAIN Items(look.fn) /\ look.best = 0
  /\ IF stack = <<>> THEN look' = [look EXCEPT !.i = 1] /\ UNCHANGED <<vars, stage, stack, outcome>>
                     ELSE Die

\* "no main()" before the run, "no callable" in it.
LookupFails ==
  /\ stage = "lookup" /\ look.i \notin DOMAIN Items(look.fn) /\ look.best = 0
  /\ IF stack = <<>>
       THEN stage' = "over" /\ outcome' = "nomain" /\ UNCHANGED <<vars, look, stack>>
       ELSE Die

\* Mutant: the variant found is a copy of the one in the bucket.
Enter_copy ==
  /\ stage = "lookup" /\ look.i \notin DOMAIN Items(look.fn) /\ look.best # 0
  /\ stack' = Append(stack, Activate([block |-> 0, idx |-> look.best], look.fn))
  /\ stage' = "run"
  /\ UNCHANGED <<vars, look, outcome>>

\* call_fn on the variant that was looked up.
Enter ==
  /\ stage = "lookup" /\ look.i \notin DOMAIN Items(look.fn) /\ look.best # 0
  /\ stack' = Append(stack, Activate([block |-> bucket[look.fn].block, idx |-> look.best],
                                     look.fn))
  /\ stage' = "run"
  /\ UNCHANGED <<vars, look, outcome>>

Running == stage = "run" /\ stack # <<>>

\* Around the body: the preconditions and the old() values of the postconditions
\* before it, the postconditions after it.
Checks(a) == \/ a.at = "requires" /\ Conditions(a, "requires") # {}
             \/ a.at \in {"requires", "ensures"} /\ Conditions(a, "ensures") # {}

\* What is called by name only.  A write to a field, in a body or in a condition, has
\* the invariants of its struct evaluated.
CalledByName(a) == (IF Checks(a) THEN CondCalls ELSE {})
                     \cup IF a.at = "body" \/ Checks(a) THEN InvCalls ELSE {}

\* A condition or an invariant calls a function: no pointer, so it is looked up.
CondCall ==
  /\ Running /\ Len(stack) < MaxDepth
  /\ \E f \in CalledByName(Top) : Lookup(f)

\* A body makes one of its calls.
BodyCall ==
  /\ Running /\ Top.at = "body" /\ Len(stack) < MaxDepth
  /\ \E k \in DOMAIN decls[Executed(Top)].calls :
       LET f == decls[Executed(Top)].calls[k]
           p == resolved[<<Executed(Top), k>>]
       IN IF p = NULL
            THEN Lookup(f)
            ELSE /\ stack' = Append(stack, Activate(p, f))
                 /\ UNCHANGED <<vars, stage, look, outcome>>

\* A false condition, or a runtime error of a body, a condition or an old() value.
Abort == Running /\ (Top.at = "body" \/ Checks(Top)) /\ Die

At(a) == stack' = [stack EXCEPT ![Len(stack)].at = a] /\ UNCHANGED <<vars, stage, look, outcome>>

BeginBody == Running /\ Top.at = "requires" /\ At("body")
EndBody == Running /\ Top.at = "body" /\ At("ensures")

Return ==
  /\ Running /\ Top.at = "ensures"
  /\ stack' = SubSeq(stack, 1, Len(stack) - 1)
  /\ stage' = IF Len(stack) = 1 THEN "over" ELSE stage
  /\ outcome' = IF Len(stack) = 1 THEN "returned" ELSE outcome
  /\ UNCHANGED <<vars, look>>

RunNext ==
  \/ Reject \/ FindMain \/ LookupStep \/ LookupFails \/ Enter
  \/ CondCall \/ BodyCall \/ Abort \/ BeginBody \/ EndBody \/ Return

DispatchNext == Sema \/ RunNext

\* One thread runs everything: it never pauses for ever.
DispatchSpec == DispatchInit /\ [][DispatchNext]_allvars /\ WF_allvars(DispatchNext)
-----------------------------------------------------------------------------
RunTypeOK ==
  /\ TypeOK
  /\ stage \in {"sema", "lookup", "run", "over"}
  /\ look \in [fn : Fns, i : Nat \ {0}, best : Nat, score : Int]
  /\ look.i <= Len(Items(look.fn)) + 1 /\ look.best < look.i
  /\ stack \in Seq(Activation)
  /\ outcome \in {"none", "rejected", "nomain", "died", "returned"}
  /\ stage = "over" <=> outcome # "none"

\* IMPL.md 20: "single implementation selected per function".  sema's
\* selection (sema.c 366-400) and the interpreter's (interp.c 375-392) are two
\* loops written apart; whichever of the two a call goes through, it runs the
\* one variant its function stood for all along.
Selected(f) == IF Candidates(f) = {} THEN 0 ELSE CHOOSE v \in DOMAIN decls : IsBest(v, f)

Promised == INSTANCE OneImplementation WITH
  Variants <- Nat \ {0}, None <- 0,
  impl <- [f \in Fns |-> Selected(f)],
  stack <- [i \in DOMAIN stack |-> Executed(stack[i])],
  status <- IF stage = "over" THEN "over" ELSE IF stack = <<>> THEN "ready" ELSE "running"

SingleImplementation == Promised!Spec

\* Contracts are found by the address of the variant: every activation came
\* with an address that lower_find knows, so none runs without its contract
\* (lower.c 105-113, sema.c 266-275, interp.c 705).
ContractsFound == \A i \in DOMAIN stack : HasContract(stack[i])

\* IMPL.md 10.3: "Tie -> compile-time error", so a function with a tie is
\* never entered.  The code only reports a tie where a body calls the function:
\* main and what conditions and invariants call are entered all the same.
TieRejected == \A i \in DOMAIN stack : ~Tied(stack[i].fn)
=============================================================================

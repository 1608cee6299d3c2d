------------------------------ MODULE Variants ------------------------------
(* Function variants in the semantic analysis (sema.c): the pre-pass that    *)
(* collects the declarations into one bucket per function name, and the      *)
(* check of every variant's body, which picks the variant of every call and  *)
(* leaves a pointer to it on the call expression for the interpreter.        *)
(*                                                                           *)
(* A declaration is reduced to its name, its attribute list, the names it    *)
(* calls in the order sema visits the calls, and `typed`: whether every      *)
(* other rule of the type checker accepts its body.  Built-in functions      *)
(* (alloc, free, print, ...) never reach the bucket lookup and are left out. *)
(* sema does not look into the arguments of a call it has just refused; the  *)
(* model does, which binds more calls of a program that is rejected anyway.  *)
EXTENDS Attributes

CONSTANTS Fns,         \* function names
          Programs,    \* the modules the parser may hand to sema
          ActiveSets   \* the attribute sets the command line may give

FnDecl == [name : Fns, attrs : AttrList, calls : Seq(Fns), typed : BOOLEAN]

ASSUME InputsAssumption == /\ Programs \subseteq Seq(FnDecl)
                           /\ ActiveSets \subseteq SUBSET STRING

VARIABLES
  decls,      \* the module's function declarations, in source order
  active,     \* the active attributes
  phase,      \* "collect", "check", "select" (inside select_variant) or "done"
  d,          \* next declaration of the pre-pass
  order,      \* S->fns: the function names, in order of first appearance
  bucket,     \* the VariantBucket of every function name
  cur,        \* the call being checked: bucket, variant and call index
  sel,        \* the registers of select_variant
  resolved,   \* resolved_fn of every call expression
  had_error

sema == <<phase, d, order, bucket, cur, sel, resolved, had_error>>
vars == <<decls, active, sema>>

\* A FnVariant lives in the array its bucket's items point to.  The array is
\* an arena block; a full bucket moves to a fresh one.  A block is named by
\* the declaration that made it necessary, so block names are unique.
NULL == [block |-> 0, idx |-> 0]
EmptyBucket == [block |-> 0, cap |-> 0, items |-> <<>>]

Declared == {order[k] : k \in DOMAIN order}
Sites == UNION {{<<v, k>> : k \in DOMAIN decls[v].calls} : v \in DOMAIN decls}
Items(f) == bucket[f].items
Attrs(f, i) == decls[Items(f)[i]].attrs

\* The variant whose body is being checked, the function that body calls at
\* the cursor, and whether the cursor is on a variant, on a call.
OnBucket == cur.b \in DOMAIN order
OnVariant == OnBucket /\ cur.j \in DOMAIN Items(order[cur.b])
Variant == Items(order[cur.b])[cur.j]
OnCall == OnVariant /\ cur.c \in DOMAIN decls[Variant].calls
Callee == decls[Variant].calls[cur.c]
-----------------------------------------------------------------------------
\* Mutant: best_score starts at 0.
NoSelection_zero == [i |-> 1, best |-> 0, score |-> 0, tied |-> FALSE]

NoSelection == [i |-> 1, best |-> 0, score |-> -1, tied |-> FALSE]

Start ==
  /\ phase = "collect"
  /\ d = 1
  /\ order = <<>>
  /\ bucket = [f \in Fns |-> EmptyBucket]
  /\ cur = [b |-> 1, j |-> 1, c |-> 1]
  /\ sel = NoSelection
  /\ resolved = [s \in Sites |-> NULL]
  /\ had_error = FALSE

Init == decls \in Programs /\ active \in ActiveSets /\ Start

bucket_push(bk, v) ==
  IF Len(bk.items) = bk.cap
    THEN [block |-> v, cap |-> IF bk.cap = 0 THEN 2 ELSE 2 * bk.cap,
          items |-> Append(bk.items, v)]
    ELSE [bk EXCEPT !.items = Append(@, v)]

fns_bucket(f) == IF f \in Declared THEN order ELSE Append(order, f)

\* The pre-pass files one declaration under its name.
Collect ==
  /\ phase = "collect" /\ d \in DOMAIN decls
  /\ order' = fns_bucket(decls[d].name)
  /\ bucket' = [bucket EXCEPT ![decls[d].name] = bucket_push(@, d)]
  /\ d' = d + 1
  /\ UNCHANGED <<decls, active, phase, cur, sel, resolved, had_error>>

EndCollect ==
  /\ phase = "collect" /\ d \notin DOMAIN decls
  /\ phase' = "check"
  /\ UNCHANGED <<decls, active, d, order, bucket, cur, sel, resolved, had_error>>

\* check_call, up to the call of select_variant.
CallKnown ==
  /\ phase = "check" /\ OnCall /\ Callee \in Declared
  /\ phase' = "select"
  /\ sel' = NoSelection
  /\ UNCHANGED <<decls, active, d, order, bucket, cur, resolved, had_error>>

CallUnknown ==
  /\ phase = "check" /\ OnCall /\ Callee \notin Declared
  /\ had_error' = TRUE
  /\ cur' = [cur EXCEPT !.c = @ + 1]
  /\ UNCHANGED <<decls, active, phase, d, order, bucket, sel, resolved>>

\* Mutant: >= for >, so the last of equal variants wins and no tie is seen.
Consider_last(s, attrs) ==
  IF Matches(attrs, active) /\ Score(attrs) >= s.score
    THEN [s EXCEPT !.best = s.i, !.score = Score(attrs), !.tied = FALSE]
    ELSE s

\* One iteration of the loop in select_variant.
Consider(s, attrs) ==
  IF ~Matches(attrs, active) THEN s
  ELSE IF Score(attrs) > s.score
    THEN [s EXCEPT !.best = s.i, !.score = Score(attrs), !.tied = FALSE]
  ELSE IF Score(attrs) = s.score THEN [s EXCEPT !.tied = TRUE]
  ELSE s

SelectStep ==
  /\ phase = "select" /\ sel.i \in DOMAIN Items(Callee)
  /\ sel' = [Consider(sel, Attrs(Callee, sel.i)) EXCEPT !.i = sel.i + 1]
  /\ UNCHANGED <<decls, active, phase, d, order, bucket, cur, resolved, had_error>>

\* Mutant: a call that nothing matches is not an error.
SelectDone_lenient ==
  /\ phase = "select" /\ sel.i \notin DOMAIN Items(Callee)
  /\ had_error' = (had_error \/ sel.tied)
  /\ resolved' = IF sel.best = 0 THEN resolved
                 ELSE [resolved EXCEPT ![<<Variant, cur.c>>] =
                         [block |-> bucket[Callee].block, idx |-> sel.best]]
  /\ phase' = "check"
  /\ cur' = [cur EXCEPT !.c = @ + 1]
  /\ UNCHANGED <<decls, active, d, order, bucket, sel>>

\* The rest of check_call.  A tie is an error, yet the pointer is attached.
SelectDone ==
  /\ phase = "select" /\ sel.i \notin DOMAIN Items(Callee)
  /\ had_error' = (had_error \/ sel.tied \/ sel.best = 0)
  /\ resolved' = IF sel.best = 0 THEN resolved
                 ELSE [resolved EXCEPT ![<<Variant, cur.c>>] =
                         [block |-> bucket[Callee].block, idx |-> sel.best]]
  /\ phase' = "check"
  /\ cur' = [cur EXCEPT !.c = @ + 1]
  /\ UNCHANGED <<decls, active, d, order, bucket, sel>>

\* check_fn_body returns: every variant is checked, whether it matches or not.
NextVariant ==
  /\ phase = "check" /\ OnVariant /\ ~OnCall
  /\ had_error' = (had_error \/ ~decls[Variant].typed)
  /\ cur' = [cur EXCEPT !.j = @ + 1, !.c = 1]
  /\ UNCHANGED <<decls, active, phase, d, order, bucket, sel, resolved>>

NextBucket ==
  /\ phase = "check" /\ OnBucket /\ ~OnVariant
  /\ cur' = [b |-> cur.b + 1, j |-> 1, c |-> 1]
  /\ UNCHANGED <<decls, active, phase, d, order, bucket, sel, resolved, had_error>>

Finish ==
  /\ phase = "check" /\ ~OnBucket
  /\ phase' = "done"
  /\ UNCHANGED <<decls, active, d, order, bucket, cur, sel, resolved, had_error>>

SemaNext == \/ Collect \/ EndCollect
            \/ CallKnown \/ CallUnknown \/ SelectStep \/ SelectDone
            \/ NextVariant \/ NextBucket \/ Finish

Next == SemaNext

\* The pass is a sequential loop: once started it is always able to go on.
Spec == Init /\ [][Next]_vars /\ WF_vars(Next)
-----------------------------------------------------------------------------
(* What the pass promises, said without its loops.                           *)

\* A variant of f that the active attributes allow.
IsCandidate(v, f) ==
  v \in DOMAIN decls /\ decls[v].name = f /\ Matches(decls[v].attrs, active)
Candidates(f) == {v \in DOMAIN decls : IsCandidate(v, f)}

\* The first of the candidates with the most gates.
Better(v, w) == \/ Score(decls[v].attrs) > Score(decls[w].attrs)
                \/ Score(decls[v].attrs) = Score(decls[w].attrs) /\ v <= w
IsBest(v, f) ==
  IsCandidate(v, f) /\ \A w \in DOMAIN decls : IsCandidate(w, f) => Better(v, w)

Tied(f) == \E v, w \in Candidates(f) :
             /\ v # w /\ Score(decls[v].attrs) = Score(decls[w].attrs)
             /\ \A x \in Candidates(f) : Score(decls[v].attrs) >= Score(decls[x].attrs)

\* A pointer into the array that the bucket of f ends up with, and what it
\* points to.
Live(p, f) == p.block = bucket[f].block /\ p.idx \in DOMAIN Items(f)
Target(p, f) == Items(f)[p.idx]

\* A body the pass must refuse.
Faulty(v) == \/ ~decls[v].typed
             \/ \E k \in DOMAIN decls[v].calls :
                  LET f == decls[v].calls[k] IN Candidates(f) = {} \/ Tied(f)
-----------------------------------------------------------------------------
TypeOK ==
  /\ decls \in Seq(FnDecl)
  /\ active \subseteq STRING
  /\ phase \in {"collect", "check", "select", "done"}
  /\ d \in 1 .. Len(decls) + 1
  /\ order \in Seq(Fns)
  /\ bucket \in [Fns -> [block : Nat, cap : Nat, items : Seq(1 .. Len(decls))]]
  /\ cur \in [b : Nat \ {0}, j : Nat \ {0}, c : Nat \ {0}]
  /\ sel \in [i : Nat \ {0}, best : Nat, score : Int, tied : BOOLEAN]
  /\ resolved \in [Sites -> [block : Nat, idx : Nat]]
  /\ had_error \in BOOLEAN

\* Whatever call sites have been bound so far, each is bound to the first most
\* specific variant of its callee, through a pointer into the bucket's final
\* array.  A pointer into an array the bucket has since left would be one that
\* lower_find does not recognise, and the call would run without contracts
\* (sema.c 266-275 and 576, lower.c 105-113).
BoundToBest ==
  \A s \in Sites : resolved[s] # NULL =>
    LET f == decls[s[1]].calls[s[2]] IN
      Live(resolved[s], f) /\ IsBest(Target(resolved[s], f), f)

\* The verdict is exact: the pass ends with an error if and only if some body,
\* of an active variant or not, breaks a type rule or calls a function that
\* has no candidate or two equally specific ones.
VerdictExact == phase = "done" => (had_error <=> \E v \in DOMAIN decls : Faulty(v))

\* A program that passes leaves no call to be looked up at run time.
AcceptedAllBound ==
  phase = "done" /\ ~had_error => \A s \in Sites : resolved[s] # NULL
=============================================================================

------------------------------ MODULE StructInv ------------------------------
(* Assignments and struct invariants in the interpreter (eval_lref and       *)
(* eval_assign in interp.c).  An assignment to a field finds the slot, then  *)
(* evaluates the right-hand side, then stores, and then evaluates the base   *)
(* again and checks the invariants of the struct it finds there.  The        *)
(* right-hand side may call functions that execute assignments themselves,   *)
(* so pending assignments form a stack.                                      *)
(*                                                                           *)
(* A struct value is a reference to an array of fields: copying the value    *)
(* shares the fields.  An object below is such an array, and a place is a    *)
(* base expression, a variable or a pointer, that leads to one.              *)
EXTENDS Integers, Sequences

CONSTANTS
  Places,
  Fields,
  Invariants,   \* the conditions lowering kept: [l, r, d] says l >= r + d
  Vals,         \* values a program writes
  Bound,        \* bound on the absolute value of a field
  MaxObjects,   \* bound on struct values made
  MaxPending    \* bound on nested assignments

Operand == Fields \cup {"zero"}
Cond == [l : Operand, r : Operand, d : Int]

ASSUME StructAssumption ==
  /\ "zero" \notin Fields /\ Invariants \in Seq(Cond) /\ Vals \subseteq Int
  /\ Bound \in Nat /\ MaxObjects \in Nat /\ MaxPending \in Nat

VARIABLES
  objects,   \* the field arrays
  at,        \* the object each place leads to
  pending,   \* field assignments in progress, outermost first
  dead,      \* the run was aborted
  last       \* ghost: how each object was last written

vars == <<objects, at, pending, dead, last>>

Value(o, t) == IF t = "zero" THEN 0 ELSE objects[o][t]
Holds(o, c) == Value(o, c.l) >= Value(o, c.r) + c.d

Top == pending[Len(pending)]
Update(w) == pending' = [pending EXCEPT ![Len(pending)] = w]

\* A statement can start when none is running or the innermost one is
\* evaluating its right-hand side.
CanExecute == ~dead /\ (pending # <<>> => Top.stage = "rhs")
-----------------------------------------------------------------------------
Init ==
  /\ \E o \in [Fields -> Vals] : objects = <<o>>
  /\ at = [p \in Places |-> 1]
  /\ pending = <<>> /\ dead = FALSE /\ last = <<"made">>

\* alloc, a struct literal, `*p = Range { ... }`: a new object, its fields not
\* checked.
Make(p, o) ==
  /\ CanExecute /\ Len(objects) < MaxObjects
  /\ objects' = Append(objects, o) /\ last' = Append(last, "made")
  /\ at' = [at EXCEPT ![p] = Len(objects) + 1]
  /\ UNCHANGED <<pending, dead>>

\* `p = q`, and `s = t` on structs, which shares the fields.
Move(p, q) ==
  /\ CanExecute
  /\ at' = [at EXCEPT ![p] = at[q]]
  /\ UNCHANGED <<objects, pending, dead, last>>

\* `*x = v`, or `x[i] = v`, through a pointer to a field: no check.
WriteThrough(o, f, v) ==
  /\ CanExecute
  /\ objects' = [objects EXCEPT ![o][f] = v] /\ last' = [last EXCEPT ![o] = "raw"]
  /\ UNCHANGED <<at, pending, dead>>

\* `p.f = ...` and `p.f += ...`: the slot comes first.
Begin(p, f, op) ==
  /\ CanExecute /\ Len(pending) < MaxPending
  /\ pending' = Append(pending, [base |-> p, obj |-> at[p], field |-> f, op |-> op,
                                 stage |-> "rhs", target |-> 0, i |-> 1])
  /\ UNCHANGED <<objects, at, dead, last>>

\* Mutant: the base is not evaluated again.
Store_stale(v) ==
  /\ CanExecute /\ pending # <<>>
  /\ LET new == IF Top.op = "=" THEN v ELSE objects[Top.obj][Top.field] + v IN
       /\ new \in -Bound .. Bound
       /\ objects' = [objects EXCEPT ![Top.obj][Top.field] = new]
       /\ last' = [last EXCEPT ![Top.obj] = IF at[Top.base] = Top.obj THEN "field" ELSE "astray"]
  /\ Update([Top EXCEPT !.stage = "check"])
  /\ UNCHANGED <<at, dead>>

\* The right-hand side is v.  A compound assignment reads the slot only now.
Store(v) ==
  /\ CanExecute /\ pending # <<>>
  /\ LET new == IF Top.op = "=" THEN v ELSE objects[Top.obj][Top.field] + v IN
       /\ new \in -Bound .. Bound
       /\ objects' = [objects EXCEPT ![Top.obj][Top.field] = new]
       /\ last' = [last EXCEPT ![Top.obj] = IF at[Top.base] = Top.obj THEN "field" ELSE "astray"]
  /\ Update([Top EXCEPT !.stage = "check", !.target = at[Top.base]])
  /\ UNCHANGED <<at, dead>>

Checking == ~dead /\ pending # <<>> /\ Top.stage = "check"

Check ==
  /\ Checking /\ Top.i \in DOMAIN Invariants
  /\ IF Holds(Top.target, Invariants[Top.i])
       THEN Update([Top EXCEPT !.i = @ + 1]) /\ UNCHANGED dead
       ELSE dead' = TRUE /\ UNCHANGED pending
  /\ UNCHANGED <<objects, at, last>>

\* Mutant: the last invariant is not reached.
End_short ==
  /\ Checking /\ Top.i + 1 \notin DOMAIN Invariants
  /\ pending' = SubSeq(pending, 1, Len(pending) - 1)
  /\ UNCHANGED <<objects, at, dead, last>>

End ==
  /\ Checking /\ Top.i \notin DOMAIN Invariants
  /\ pending' = SubSeq(pending, 1, Len(pending) - 1)
  /\ UNCHANGED <<objects, at, dead, last>>

\* The right-hand side dies.
Fail == CanExecute /\ pending # <<>> /\ dead' = TRUE /\ UNCHANGED <<objects, at, pending, last>>

Next ==
  \/ \E p \in Places : \/ \E o \in [Fields -> Vals] : Make(p, o)
                       \/ \E q \in Places : Move(p, q)
                       \/ \E f \in Fields, op \in {"=", "+="} : Begin(p, f, op)
  \/ \E o \in DOMAIN objects, f \in Fields, v \in Vals : WriteThrough(o, f, v)
  \/ \E v \in Vals : Store(v)
  \/ Check \/ End \/ Fail

Spec == Init /\ [][Next]_vars
-----------------------------------------------------------------------------
Pending == [base : Places, obj : DOMAIN objects, field : Fields, op : {"=", "+="},
            stage : {"rhs", "check"}, target : Nat, i : Nat \ {0}]

TypeOK ==
  /\ objects \in Seq([Fields -> Int])
  /\ at \in [Places -> DOMAIN objects]
  /\ pending \in Seq(Pending)
  /\ dead \in BOOLEAN
  /\ last \in [DOMAIN objects -> {"made", "raw", "field", "astray"}]
  /\ \A n \in DOMAIN pending : pending[n].stage = "check" => pending[n].target \in DOMAIN objects

\* No check of object o is under way, or about to fail the run.
Settled(o) == ~dead /\ ~(pending # <<>> /\ Top.stage = "check" /\ Top.target = o)
Valid(o) == \A i \in DOMAIN Invariants : Holds(o, Invariants[i])

\* bank_invariant.vt: "the struct invariant re-fires on every mutation point".
\* It holds of an object whose last write went through a field of the struct
\* the base still led to once the right-hand side was done, whatever other
\* assignments, nested in this one or around it, did.
FieldWritesChecked ==
  \A o \in DOMAIN objects : Settled(o) /\ last[o] = "field" => Valid(o)

\* interp.c 340: "invariants run after every mutation point of the struct".
\* The code checks field assignments only, and after one it checks the struct
\* the base leads to by then, which need not be the one written.
MutationsChecked ==
  \A o \in DOMAIN objects : Settled(o) /\ last[o] # "made" => Valid(o)
=============================================================================

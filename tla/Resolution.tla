----------------------------- MODULE Resolution -----------------------------
(* From written types to types (sema.c 125-216, 310-347): a written type is  *)
(* the sequence of its constructors from the outside in, closed by a name:   *)
(* <<"ptr", "[2]", "S">> for *[2]S.  Resolving it passes the constructors    *)
(* and then looks the name up, as a primitive type, a struct and an alias in *)
(* this order; an alias is replaced by what it stands for.  In the code this *)
(* is a recursion; here each call is a step, so that it can fail to end.     *)
EXTENDS Integers, Sequences, FiniteSets

CONSTANT Modules  \* the modules to be analysed: their aliases, the names of
                  \* their structs and, in the order the analysis meets them,
                  \* the written types: of the fields (with their owner and
                  \* name) and of signatures and variables (owner "")

Integral == {"int", "i32", "i64", "u32", "u64", "u8"}
Numeric == Integral \cup {"f32", "f64"}
Prims == Numeric \cup {"void", "bool"}
Constructors == {"ptr", "slice", "[2]"}

VARIABLES
  module,     \* the module under analysis
  types,      \* what its written types were resolved to, so far
  walk,       \* the type being resolved: what was passed and what is left
  had_error

resolvevars == <<module, types, walk, had_error>>

Resolving == walk.rest # <<>>
Resolved == ~Resolving

Structs == {module.structs[i] : i \in DOMAIN module.structs}
Targets(n) == {i \in DOMAIN module.aliases : module.aliases[i].name = n}
find_alias(n) == module.aliases[CHOOSE i \in Targets(n) : \A h \in Targets(n) : i <= h].target

\* The walk over the i-th written type, if there is one.
WalkOf(m, i) == [done |-> <<>>, rest |-> IF i \in DOMAIN m.written THEN m.written[i].type ELSE <<>>]

ResolveInit ==
  /\ module \in Modules
  /\ types = <<>> /\ walk = WalkOf(module, 1) /\ had_error = FALSE

PassConstructor ==
  /\ Resolving /\ Head(walk.rest) \in Constructors
  /\ walk' = [done |-> Append(walk.done, Head(walk.rest)), rest |-> Tail(walk.rest)]
  /\ UNCHANGED <<module, types, had_error>>

AtName == Resolving /\ Head(walk.rest) \notin Constructors
Written == Head(walk.rest)
\* Mutant: aliases are looked up before structs.
Known_prims(n) == n \in Prims
Known(n) == n \in Prims \cup Structs

Resolve(n) ==
  /\ types' = Append(types, Append(walk.done, n))
  /\ walk' = WalkOf(module, Len(types) + 2)
  /\ UNCHANGED module

NameFound == AtName /\ Known(Written) /\ Resolve(Written) /\ UNCHANGED had_error

FollowAlias ==
  /\ AtName /\ ~Known(Written) /\ Targets(Written) # {}
  /\ walk' = [walk EXCEPT !.rest = find_alias(Written)]
  /\ UNCHANGED <<module, types, had_error>>

\* Mutant: the type "error" is returned without a report.
NameUnknown_silent ==
  /\ AtName /\ ~Known(Written) /\ Targets(Written) = {}
  /\ Resolve("error") /\ UNCHANGED had_error

NameUnknown ==
  /\ AtName /\ ~Known(Written) /\ Targets(Written) = {}
  /\ Resolve("error") /\ had_error' = TRUE

ResolveNext == PassConstructor \/ NameFound \/ FollowAlias \/ NameUnknown
-----------------------------------------------------------------------------
(* What the tables hold when all types are resolved.  The fields of a struct *)
(* that is declared twice all go to the first declaration.                   *)
FieldsOf(s) ==
  LET owned == SelectSeq([i \in DOMAIN types |-> [name |-> module.written[i].name,
                                                  owner |-> module.written[i].owner,
                                                  type |-> types[i]]],
                         LAMBDA w : w.owner = s)
  IN [i \in DOMAIN owned |-> [name |-> owned[i].name, type |-> owned[i].type]]

\* The types that were written outside of structs, which statements refer to.
Declared == {types[i] : i \in {j \in DOMAIN types : module.written[j].owner = ""}}
-----------------------------------------------------------------------------
\* No alias leads back to itself, unless a struct or a primitive type hides it.
LastOf(s) == s[Len(s)]
LeadsTo(n) == IF n \in Prims \cup Structs \/ Targets(n) = {} THEN {} ELSE {LastOf(find_alias(n))}
AliasNames == {module.aliases[i].name : i \in DOMAIN module.aliases}
Onward(S) == S \cup UNION {LeadsTo(n) : n \in S}
\* A chain meets each alias once, so that as many steps as there are aliases do.
Reached(n) ==
  LET r[i \in 0 .. Cardinality(AliasNames)] == IF i = 0 THEN LeadsTo(n) ELSE Onward(r[i - 1])
  IN r[Cardinality(AliasNames)]
Acyclic == \A n \in AliasNames : n \notin Reached(n)
=============================================================================

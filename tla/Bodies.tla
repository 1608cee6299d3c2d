-------------------------------- MODULE Bodies --------------------------------
(* One function body, twice: the analysis walks it once in source order with *)
(* a table of scopes (check_stmt in sema.c), and the interpreter executes it *)
(* with a chain of frames and a flow code that every statement returns       *)
(* (exec_stmt in interp.c).                                                  *)
(*                                                                           *)
(* A body is the sequence of its statements in source order; a block is an   *)
(* opening entry, its statements and a "close".  "match" stands for match    *)
(* and if: what follows are the arms, of which at most one is taken.  Values *)
(* are left out: conditions, patterns and ranges come out either way.        *)
EXTENDS Integers, Sequences, FiniteSets

CONSTANTS Names,    \* variable names
          Bodies    \* the bodies the parser may produce

Loops == {"while", "for"}
Openers == Loops \cup {"block", "arm"}
Jumps == {"break", "continue", "return"}
Entry == [op : Openers \cup Jumps \cup {"let", "use", "match", "close"}, name : Names]

\* How many blocks of body b are open behind entry p.  The parser closes what
\* it opens.
DepthIn(b, p) == Cardinality({q \in 1 .. p : b[q].op \in Openers})
                 - Cardinality({q \in 1 .. p : b[q].op = "close"})
Balanced(b) == DepthIn(b, Len(b)) = 0 /\ \A p \in 1 .. Len(b) : DepthIn(b, p) >= 0

ASSUME BodiesAssumption == Bodies \subseteq Seq(Entry) /\ \A b \in Bodies : Balanced(b)

VARIABLES
  body,
  phase,       \* "check", "run", "rejected", "over" or "died"
  pos,         \* the entry being checked or executed
  scopes,      \* S->scope: what is declared, as positions, innermost last
  loop_depth,
  meaning,     \* the declaration sema found for a use; 0 for none
  had_error,
  frames,      \* the frames of the interpreter, innermost last
  flow,        \* what the innermost statement returned
  from         \* ghost: the last jump statement executed

checker == <<scopes, loop_depth, meaning, had_error>>
runner == <<frames, flow, from>>
vars == <<body, phase, pos, checker, runner>>

Op(p) == body[p].op
Name(p) == body[p].name
Within == pos \in DOMAIN body

Depth(p) == DepthIn(body, p)
\* The close of the block that p opens, and the entry behind its last arm.
Close(p) == CHOOSE q \in p + 1 .. Len(body) :
              /\ Op(q) = "close" /\ Depth(q) = Depth(p) - 1
              /\ \A r \in p + 1 .. q - 1 : Depth(r) >= Depth(p)
LastArm(p, q) == Depth(q - 1) = Depth(p) - 1 /\ (q \in DOMAIN body => Op(q) # "arm")
AfterArms(p) == CHOOSE q \in Close(p) + 1 .. Len(body) + 1 :
              LastArm(p, q) /\ \A r \in Close(p) + 1 .. q - 1 : ~LastArm(p, r)

\* scope_find and find: from the inside out, in each the first of that name.
Hits(table, i, n) == {j \in DOMAIN table[i] : Name(table[i][j]) = n}
Declares(table, n) == \E i \in DOMAIN table : Hits(table, i, n) # {}
find(table, n) ==
  LET i == CHOOSE i \in DOMAIN table :
             Hits(table, i, n) # {} /\ \A h \in i + 1 .. Len(table) : Hits(table, h, n) = {}
      j == CHOOSE j \in Hits(table, i, n) : \A h \in Hits(table, i, n) : j <= h
  IN table[i][j]

\* A declaration is named by its position.
Add(table, p) == [table EXCEPT ![Len(table)] = Append(@, p)]
Push(table, new) == Append(table, new)
Pop(table) == SubSeq(table, 1, Len(table) - 1)

\* What a block declares itself: the loop variable.
Opened(p) == IF Op(p) = "for" THEN <<p>> ELSE <<>>
Bindings == [i \in DOMAIN frames |-> frames[i].bindings]
Top == frames[Len(frames)]
-----------------------------------------------------------------------------
Init ==
  /\ body \in Bodies
  /\ phase = "check" /\ pos = 1
  /\ scopes = <<<<>>>> /\ loop_depth = 0 /\ had_error = FALSE
  /\ meaning = [p \in DOMAIN body |-> 0]
  /\ frames = <<[at |-> 0, bindings |-> <<>>]>> /\ flow = "GO" /\ from = 0

CheckNext == phase = "check" /\ Within /\ pos' = pos + 1 /\ UNCHANGED <<body, phase, runner>>

CheckLet ==
  /\ CheckNext /\ Op(pos) = "let"
  /\ scopes' = Add(scopes, pos)
  /\ UNCHANGED <<loop_depth, meaning, had_error>>

CheckUse ==
  /\ CheckNext /\ Op(pos) = "use"
  /\ IF Declares(scopes, Name(pos))
       THEN meaning' = [meaning EXCEPT ![pos] = find(scopes, Name(pos))] /\ UNCHANGED had_error
       ELSE had_error' = TRUE /\ UNCHANGED meaning
  /\ UNCHANGED <<scopes, loop_depth>>

CheckOpen ==
  /\ CheckNext /\ Op(pos) \in Openers
  /\ scopes' = Push(scopes, Opened(pos))
  /\ loop_depth' = IF Op(pos) \in Loops THEN loop_depth + 1 ELSE loop_depth
  /\ UNCHANGED <<meaning, had_error>>

\* Mutants: a block that is no loop counts as one at its end; a loop does not.
CheckClose_any ==
  /\ CheckNext /\ Op(pos) = "close"
  /\ scopes' = Pop(scopes) /\ loop_depth' = loop_depth - 1
  /\ UNCHANGED <<meaning, had_error>>
CheckClose_none ==
  /\ CheckNext /\ Op(pos) = "close"
  /\ scopes' = Pop(scopes)
  /\ UNCHANGED <<loop_depth, meaning, had_error>>

CheckClose ==
  /\ CheckNext /\ Op(pos) = "close"
  /\ scopes' = Pop(scopes)
  /\ loop_depth' = IF \E o \in 1 .. pos - 1 : Op(o) \in Loops /\ Close(o) = pos
                     THEN loop_depth - 1 ELSE loop_depth
  /\ UNCHANGED <<meaning, had_error>>

CheckJump ==
  /\ CheckNext /\ Op(pos) \in Jumps
  /\ had_error' = (had_error \/ (Op(pos) # "return" /\ loop_depth <= 0))
  /\ UNCHANGED <<scopes, loop_depth, meaning>>

CheckMatch == CheckNext /\ Op(pos) = "match" /\ UNCHANGED checker

EndCheck ==
  /\ phase = "check" /\ ~Within
  /\ phase' = IF had_error THEN "rejected" ELSE "run"
  /\ pos' = 1
  /\ UNCHANGED <<body, checker, runner>>
-----------------------------------------------------------------------------
Going == phase = "run" /\ Within /\ flow = "GO"
Step == Going /\ phase' = phase /\ UNCHANGED <<body, checker>>

\* Mutant: a variable is bound in the frame of the function.
Let_outer ==
  /\ Step /\ Op(pos) = "let"
  /\ frames' = [frames EXCEPT ![1].bindings = Append(@, pos)]
  /\ pos' = pos + 1
  /\ UNCHANGED <<flow, from>>

\* bind
Let ==
  /\ Step /\ Op(pos) = "let"
  /\ frames' = [frames EXCEPT ![Len(frames)].bindings = Append(@, pos)]
  /\ pos' = pos + 1
  /\ UNCHANGED <<flow, from>>

Use == Step /\ Op(pos) = "use" /\ pos' = pos + 1 /\ UNCHANGED runner

Match == Step /\ Op(pos) = "match" /\ pos' = pos + 1 /\ UNCHANGED runner

\* A fresh frame for the block, for the taken arm, for an iteration.
Enter ==
  /\ Step /\ Op(pos) \in Openers
  /\ frames' = Append(frames, [at |-> pos, bindings |-> Opened(pos)])
  /\ pos' = pos + 1
  /\ UNCHANGED <<flow, from>>

\* A loop that is over, an arm that is not taken.
Skip ==
  /\ Step /\ Op(pos) \in Loops \cup {"arm"}
  /\ pos' = Close(pos) + 1
  /\ UNCHANGED runner

Jump ==
  /\ Step /\ Op(pos) \in Jumps
  /\ flow' = CASE Op(pos) = "break" -> "BROKE" [] Op(pos) = "continue" -> "CONTINUED"
               [] Op(pos) = "return" -> "RETURNED"
  /\ from' = pos
  /\ UNCHANGED <<pos, frames>>

\* Mutant: the frame stays.
Leave_keep ==
  /\ Step /\ Op(pos) = "close"
  /\ pos' = CASE Op(Top.at) = "block" -> pos + 1
              [] Op(Top.at) = "arm" -> AfterArms(Top.at)
              [] Op(Top.at) \in Loops -> Top.at
  /\ UNCHANGED runner

\* The block is done: frame_free, and on behind it or around again.
Leave ==
  /\ Step /\ Op(pos) = "close"
  /\ frames' = Pop(frames)
  /\ pos' = CASE Op(Top.at) = "block" -> pos + 1
              [] Op(Top.at) = "arm" -> AfterArms(Top.at)
              [] Op(Top.at) \in Loops -> Top.at
  /\ UNCHANGED <<flow, from>>

Unwinding == phase = "run" /\ flow # "GO" /\ Len(frames) > 1
             /\ UNCHANGED <<body, phase, checker, from>>

\* Mutant: the code of a statement in a block is lost sight of.
Propagate_stuck ==
  /\ Unwinding
  /\ Op(Top.at) \in Loops => flow = "RETURNED"
  /\ UNCHANGED <<pos, frames, flow>>

\* A statement that did not return GO ends the block it is in; only loops
\* look at the code.
Propagate ==
  /\ Unwinding
  /\ Op(Top.at) \in Loops => flow = "RETURNED"
  /\ frames' = Pop(frames)
  /\ UNCHANGED <<pos, flow>>

\* Mutant: continue leaves a loop as break does.
Land_out ==
  /\ Unwinding /\ Op(Top.at) \in Loops /\ flow \in {"BROKE", "CONTINUED"}
  /\ frames' = Pop(frames) /\ flow' = "GO"
  /\ pos' = Close(Top.at) + 1

Land ==
  /\ Unwinding /\ Op(Top.at) \in Loops /\ flow \in {"BROKE", "CONTINUED"}
  /\ frames' = Pop(frames) /\ flow' = "GO"
  /\ pos' = IF flow = "BROKE" THEN Close(Top.at) + 1 ELSE Top.at

\* Evaluating something ended the whole run.
Die ==
  /\ Going /\ Op(pos) \notin {"block", "close", "break", "continue"}
  /\ phase' = "died"
  /\ UNCHANGED <<body, pos, checker, runner>>

\* exec_block of the whole body returns to call_fn.
End ==
  /\ phase = "run" /\ Len(frames) = 1
  /\ flow # "GO" \/ ~Within
  /\ phase' = "over"
  /\ UNCHANGED <<body, pos, checker, runner>>

Next ==
  \/ CheckLet \/ CheckUse \/ CheckOpen \/ CheckClose \/ CheckJump \/ CheckMatch \/ EndCheck
  \/ Let \/ Use \/ Match \/ Enter \/ Skip \/ Jump \/ Leave
  \/ Propagate \/ Land \/ Die \/ End

Spec == Init /\ [][Next]_vars /\ WF_vars(Next)
-----------------------------------------------------------------------------
Encloses(o, p) == Op(o) \in Openers /\ o < p /\ p <= Close(o)

\* Where break and continue lead, read off the text.
LoopAround(p) == CHOOSE o \in DOMAIN body :
                   /\ Op(o) \in Loops /\ Encloses(o, p)
                   /\ \A q \in o + 1 .. p - 1 : Op(q) \in Loops => ~Encloses(q, p)
Target(p) == IF Op(p) = "break" THEN Close(LoopAround(p)) + 1 ELSE LoopAround(p)
-----------------------------------------------------------------------------
Positions == DOMAIN body

TypeOK ==
  /\ body \in Seq(Entry)
  /\ phase \in {"check", "run", "rejected", "over", "died"}
  /\ pos \in 1 .. Len(body) + 1
  /\ scopes \in Seq(Seq(Positions)) /\ scopes # <<>>
  /\ loop_depth \in Nat
  /\ meaning \in [Positions -> 0 .. Len(body)]
  /\ had_error \in BOOLEAN
  /\ frames \in Seq([at : 0 .. Len(body), bindings : Seq(Positions)]) /\ frames # <<>>
  /\ flow \in {"GO", "RETURNED", "BROKE", "CONTINUED"}
  /\ from \in 0 .. Len(body)

\* The two symbol tables (sema.c 223-250, interp.c 93-124) agree: whatever path
\* led to a use of a name, through loops, arms and jumps, the name is bound,
\* and by the very declaration the analysis type-checked it against.
SameDeclaration ==
  phase = "run" /\ Within /\ flow = "GO" /\ Op(pos) = "use" =>
    Declares(Bindings, Name(pos)) /\ find(Bindings, Name(pos)) = meaning[pos]

\* The frames in use are those of the blocks around the statement, outermost
\* first, however the program came there (interp.c 611-684): none is left over
\* and none is missing.
FramesNest ==
  phase = "run" /\ flow = "GO" =>
    \A i, j \in DOMAIN frames :
      /\ i < j => frames[i].at < frames[j].at
      /\ {frames[h].at : h \in DOMAIN frames} \ {0} = {o \in 1 .. pos - 1 : Encloses(o, pos)}

\* break leads behind the innermost loop around it and continue to its next
\* iteration, through any blocks and arms in between; nothing stops a return
\* (interp.c 596-693).
JumpsLand ==
  [][flow # "GO" /\ flow' = "GO" =>
       Op(from) \in {"break", "continue"} /\ pos' = Target(from)]_vars

\* A body that passed the analysis never ends in a break or continue that
\* found no loop (sema.c 799-806 against interp.c 660-661).
NoStrayJump == phase = "over" => flow \in {"GO", "RETURNED"}

\* A jump that was made arrives.
JumpsEnd == flow # "GO" ~> flow = "GO" \/ phase = "over"
=============================================================================

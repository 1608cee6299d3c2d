------------------------------ MODULE Reading ------------------------------
(* How names and strings get from a file into the tree: the lexer's tokens   *)
(* point into the text, the parser copies those that it keeps into the arena *)
(* (parser.c 54-87), where the nodes of the tree lie in between.  Tokens are *)
(* consumed in the order of the text and most of them are copied at once;    *)
(* the names of parameters and fields only after the type or the value that  *)
(* follows them, in which other names may be copied or put off (parser.c     *)
(* 265, 580, 612).  How far a type or a value goes, the module Parser says;  *)
(* here it may end anywhere.  Tokens skipped after an error are not copied;  *)
(* then no tree is left either.                                              *)
EXTENDS Lexer, Arena

CONSTANTS NodeSize,  \* the size of a node of the tree
          MaxNodes   \* bound on the nodes between the texts

ASSUME ReadingAssumption == NodeSize \in Nat \ {0} /\ MaxNodes \in Nat

VARIABLES
  pos,    \* the token the parser is at
  due,    \* the names that were consumed and are still to be copied, the last one first
  kept,   \* what the tree points to: copies of tokens, and nodes (token 0)
  freed   \* the arena is gone

readvars == <<lexvars, blocks, mem, pos, due, kept, freed>>

Parsing == mode = "over" /\ pos <= Len(toks) /\ ~freed
Nodes == {i \in DOMAIN kept : kept[i].tok = 0}

\* The keyword table decides what is a name.
IsName(t) == t.kind = "word" /\ Text(t) \notin Keywords /\ Text(t) # <<"_">>

Unescaped(c) == CASE c = "n" -> "\n" [] c = "t" -> "\t" [] c = "r" -> "\r" [] c = "0" -> NUL
                  [] OTHER -> c

Inner(t) == SubSeq(src, t.from + 1, t.to - 2)

\* The loop of dup_string_lit.
Decoded(s) ==
  LET From[i \in 1 .. Len(s) + 2] ==
        IF i > Len(s) THEN <<>>
        ELSE IF s[i] = "\\" /\ i < Len(s) THEN <<Unescaped(s[i + 1])>> \o From[i + 2]
        ELSE <<s[i]>> \o From[i + 1]
  IN From[1]
-----------------------------------------------------------------------------
ReadInit == LexInit /\ ArenaInit /\ pos = 1 /\ due = <<>> /\ kept = <<>> /\ freed = FALSE

Lex == LexNext /\ UNCHANGED <<blocks, mem, pos, due, kept, freed>>

Keep(tok, place) == kept' = Append(kept, [tok |-> tok, at |-> place])

CopyName(i) ==
  LET t == toks[i] IN StoreText(t.to - t.from, Text(t)) /\ Keep(i, Place(t.to - t.from + 1))

dup_ident ==
  /\ Parsing /\ IsName(toks[pos]) /\ CopyName(pos)
  /\ pos' = pos + 1 /\ UNCHANGED <<lexvars, due, freed>>

\* A colon or an equals sign behind a name: it may be one of those that wait.
PutOff ==
  /\ Parsing /\ IsName(toks[pos])
  /\ pos < Len(toks) /\ Text(toks[pos + 1]) \in {<<":">>, <<"=">>}
  /\ due' = <<pos>> \o due
  /\ pos' = pos + 1 /\ UNCHANGED <<lexvars, blocks, mem, kept, freed>>

\* The sign and what follows it have been read.
dup_ident_late ==
  /\ mode = "over" /\ ~freed /\ due # <<>> /\ pos > Head(due) + 1
  /\ CopyName(Head(due)) /\ due' = Tail(due)
  /\ UNCHANGED <<lexvars, pos, freed>>

dup_string_lit ==
  /\ Parsing /\ toks[pos].kind = "string"
  /\ LET s == Inner(toks[pos]) IN
       StoreText(Len(s), Decoded(s)) /\ Keep(pos, Place(Len(s) + 1))
  /\ pos' = pos + 1 /\ UNCHANGED <<lexvars, due, freed>>

\* A token that leaves no text.
Pass ==
  /\ Parsing /\ ~IsName(toks[pos]) /\ toks[pos].kind # "string"
  /\ pos' = pos + 1 /\ UNCHANGED <<lexvars, blocks, mem, due, kept, freed>>

\* A node of the tree, between any two texts.
Node ==
  /\ Parsing /\ Cardinality(Nodes) < MaxNodes
  /\ arena_alloc_zero(NodeSize) /\ Keep(0, Place(NodeSize))
  /\ UNCHANGED <<lexvars, pos, due, freed>>

\* Everything goes at once at the end of a command.
Release ==
  /\ mode = "over" /\ pos > Len(toks) /\ due = <<>> /\ ~freed
  /\ arena_free /\ freed' = TRUE
  /\ UNCHANGED <<lexvars, pos, due, kept>>

ReadNext == Lex \/ dup_ident \/ PutOff \/ dup_ident_late \/ dup_string_lit \/ Pass \/ Node \/ Release

\* One thread: reading never pauses for ever.
ReadSpec == ReadInit /\ [][ReadNext]_readvars /\ WF_readvars(ReadNext)
-----------------------------------------------------------------------------
ReadTypeOK ==
  /\ LexTypeOK /\ ArenaTypeOK
  /\ pos \in 1 .. Len(toks) + 1 /\ due \in Seq(1 .. Len(toks))
  /\ kept \in Seq([tok : 0 .. Len(toks), at : [block : Nat, at : Nat]])
  /\ freed \in BOOLEAN

\* What a string means, read off its text: every character stands for itself
\* but a backslash that escapes the next one.
Standing(s) == {i \in DOMAIN s : s[i] = "\\" => Escaped(s, i)}
Meant(s, i) == IF Escaped(s, i) THEN Unescaped(s[i]) ELSE s[i]
Meaning(s) ==
  [k \in 1 .. Cardinality(Standing(s)) |->
     Meant(s, CHOOSE i \in Standing(s) : Cardinality(Standing(s) \cap 1 .. i) = k)]

Want(k) ==
  IF k.tok = 0 THEN [i \in 1 .. NodeSize |-> NUL]
  ELSE LET t == toks[k.tok] IN Append(IF t.kind = "string" THEN Meaning(Inner(t)) ELSE Text(t), NUL)

\* "Identifiers and string slices that survive in the AST are
\* arena-duped" (parser.c 10-11): whatever is allocated later, every name, every
\* decoded string and every node stays as it was written, in a block that has
\* room for it.
NamesKept ==
  freed \/ \A n \in DOMAIN kept :
    LET k == kept[n]
        want == Want(k)
    IN /\ k.at.block \in DOMAIN blocks
       /\ k.at.at + Len(want) <= blocks[k.at.block].cap
       /\ \A i \in DOMAIN want : mem[<<k.at.block, k.at.at + i - 1>>] = want[i]

\* Every text is read to its end, whatever it holds.
ReadingEnds == <>freed
=============================================================================

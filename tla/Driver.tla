------------------------------- MODULE Driver -------------------------------
(* One invocation of vanta, from main's arguments to its exit status         *)
(* (main.c): the commands hand a file from pass to pass and stop at the      *)
(* first that refuses it.  Dispatch is what happens from the analysis on.    *)
(* What a file holds comes with the invocation: whether it can be read,      *)
(* whether it parses, and the functions in it.                               *)
EXTENDS Dispatch

CONSTANTS Invocations,  \* what the command may be called with
          MainValues,   \* the values main may return
          Statuses      \* exit statuses are taken modulo this

Invocation == [cmd : STRING, args : Seq(STRING), readable : BOOLEAN, parses : BOOLEAN,
               decls : Seq(FnDecl)]

ASSUME DriverAssumption ==
  /\ Invocations \subseteq Invocation
  /\ \A v \in MainValues : v.kind \in STRING /\ v.n \in Int
  /\ Statuses \in Nat /\ Statuses > 2

VARIABLES
  call,  \* the invocation
  at,    \* "main", "file", "parser", "sema" (and all that follows) or "over"
  rc     \* the exit status, -1 before the end

drivervars == <<allvars, call, at, rc>>

NoFile == "no file"

\* True of every TLA+ string; said here because no prover knows it of one that
\* is written out.
ASSUME StringAssumption == {"debug", "release", NoFile} \subseteq STRING

\* parse_attr_args: options add attributes, any other word is the file; the
\* last one counts.  An --attr without a name behind it is such a word.
parse_attr_args(args) ==
  LET From[i \in 1 .. Len(args) + 2] ==
        IF i > Len(args) THEN [attrs |-> {}, file |-> NoFile]
        ELSE LET named == args[i] = "--attr" /\ i < Len(args)
                 rest == From[IF named THEN i + 2 ELSE i + 1]
             IN CASE named -> [rest EXCEPT !.attrs = @ \cup {args[i + 1]}]
                  [] args[i] = "--debug" -> [rest EXCEPT !.attrs = @ \cup {"debug"}]
                  [] args[i] = "--release" -> [rest EXCEPT !.attrs = @ \cup {"release"}]
                  [] OTHER -> IF rest.file = NoFile THEN [rest EXCEPT !.file = args[i]] ELSE rest
  IN From[1]

Analyses == {"check", "variants", "run"}
Reads == Analyses \cup {"lex", "parse"}

\* lex and parse take their first argument as it is.
File == IF call.cmd \in Analyses THEN parse_attr_args(call.args).file
        ELSE IF call.args = <<>> THEN NoFile ELSE call.args[1]
-----------------------------------------------------------------------------
DriverInit ==
  /\ call \in Invocations
  /\ decls = call.decls
  /\ active = parse_attr_args(call.args).attrs
  /\ at = "main" /\ rc = -1
  /\ Start /\ RunInit

Exit(status) == at' = "over" /\ rc' = status /\ UNCHANGED <<allvars, call>>
GoOn(place) == at' = place /\ UNCHANGED <<allvars, call, rc>>

Command == at = "main" /\ IF call.cmd \in Reads THEN GoOn("file")
                        ELSE Exit(IF call.cmd = "version" THEN 0 ELSE 1)

\* read_file and lexer_lex_all, whose errors nobody asks for.
ReadFile ==
  /\ at = "file"
  /\ IF File = NoFile \/ ~call.readable THEN Exit(1)
     ELSE IF call.cmd = "lex" THEN Exit(0)
     ELSE GoOn("parser")

Parse ==
  /\ at = "parser"
  /\ IF ~call.parses THEN Exit(1)
     ELSE IF call.cmd = "parse" THEN Exit(0)
     ELSE GoOn("sema")

Analyse == at = "sema" /\ Sema /\ UNCHANGED <<call, at, rc>>

Verdict ==
  /\ at = "sema" /\ call.cmd \in {"check", "variants"} /\ phase = "done"
  /\ Exit(IF had_error THEN 1 ELSE 0)

\* The value of main as an exit status.
Status(v) == CASE v.kind = "int" -> v.n % Statuses
               [] v.kind = "bool" -> IF v.n = 0 THEN 1 ELSE 0
               [] OTHER -> 0

\* Mutant: the code left by die is returned as it is found.
Codes_found(o) == CASE o = "died" -> {0, 2}
                    [] o = "returned" -> {Status(v) : v \in MainValues}
                    [] OTHER -> {1}

\* How a run ends.  die leaves its code in a local of interp_run that is
\* changed between setjmp and longjmp: what is found there may be the 2 or the
\* 0 from before.
Codes(o) == CASE o = "died" -> {IF code # 0 THEN code ELSE 2 : code \in {0, 2}}
              [] o = "returned" -> {Status(v) : v \in MainValues}
              [] OTHER -> {1}

Interpret ==
  /\ at = "sema" /\ call.cmd = "run" /\ RunNext
  /\ IF outcome' = "none" THEN UNCHANGED <<at, rc>> ELSE at' = "over" /\ rc' \in Codes(outcome')
  /\ UNCHANGED call

DriverNext == Command \/ ReadFile \/ Parse \/ Analyse \/ Verdict \/ Interpret

\* One thread runs everything: it never pauses for ever.
DriverSpec == DriverInit /\ [][DriverNext]_drivervars /\ WF_drivervars(DriverNext)
-----------------------------------------------------------------------------
DriverTypeOK ==
  /\ RunTypeOK
  /\ call \in Invocation /\ call.decls = decls
  /\ at \in {"main", "file", "parser", "sema", "over"}
  /\ rc \in -1 .. Statuses - 1
  /\ at = "over" <=> rc # -1

\* tests/run.sh: "programs that must fail. expect non-zero", with 1 for what
\* the analysis refuses and 2 for what dies.  The status is that of the first
\* pass that refuses the file, told from the file and the arguments and not
\* from the flags the passes leave: no faulty program looks checked or runs.
Refused == \/ File = NoFile \/ ~call.readable \/ ~call.parses
           \/ \E v \in DOMAIN decls : Faulty(v)
ExitTells ==
  at = "over" =>
    /\ call.cmd \in {"check", "variants"} => (rc = 1 <=> Refused) /\ rc \in {0, 1}
    /\ call.cmd = "run" /\ (Refused \/ Candidates(Main) = {}) => rc = 1 /\ outcome # "returned"
    /\ call.cmd = "run" /\ ~Refused /\ Candidates(Main) # {} => outcome \in {"died", "returned"}
    /\ outcome = "died" => rc = 2

\* The analysis always comes to a verdict, and a lookup to an end.
PassesEnd == /\ (at = "sema") ~> (phase = "done")
             /\ (stage = "lookup") ~> (stage # "lookup")
=============================================================================

------------------------------- MODULE Lexer -------------------------------
(* lexer_lex_all (lexer.c): the text of a file becomes a vector of tokens,   *)
(* one iteration of one of the lexer's loops at a time.  A character is a    *)
(* string of length one; the text ends with the terminator that read_file    *)
(* puts behind it, or with one that the file contains.  The payload of a     *)
(* number is left out: nothing in the lexer depends on it.                   *)
EXTENDS Naturals, Sequences, FiniteSets

CONSTANTS Sources,   \* the texts to read
          Keywords,  \* the words of the keyword table
          VecFirst   \* the first capacity of a vector

NUL == "NUL"

ASSUME LexerAssumption == /\ \A s \in Sources : s \in Seq(STRING)
                          /\ \A w \in Keywords : w \in Seq(STRING)
                          /\ VecFirst \in Nat \ {0}

VARIABLES
  src,   \* the text
  cur,   \* the cursor: position, line and column
  mode,  \* the loop the lexer is in
  first, \* where the token that is being read begins
  toks,  \* the tokens so far
  cap    \* the capacity of their vector

lexvars == <<src, cur, mode, first, toks, cap>>

Blanks == {" ", "\t", "\r", "\n"}
Decimal == {"0", "1", "2", "3", "4", "5", "6", "7", "8", "9"}
HexLetters == {"a", "b", "c", "d", "e", "f", "A", "B", "C", "D", "E", "F"}
Letters == HexLetters \cup
  {"g", "h", "i", "j", "k", "l", "m", "n", "o", "p", "q", "r", "s", "t", "u", "v", "w", "x", "y",
   "z", "G", "H", "I", "J", "K", "L", "M", "N", "O", "P", "Q", "R", "S", "T", "U", "V", "W", "X",
   "Y", "Z"}
WordChars == Letters \cup Decimal \cup {"_"}

\* The characters that a character literal may escape.
Escapes == {"n", "t", "r", "\\", "'", "\"", "0"}

\* What may follow a character to make an operator of two.
Seconds == [c \in {"(", ")", "{", "}", "[", "]", ",", ";", "@", "%", "^", "~"} |-> {}]
Pairs == [c \in {"+", "-", "*", "/", ".", ":", "=", "!", "<", ">", "&", "|"} |->
            CASE c \in {"+", "*", "/", ":", "!"} -> {"="}
              [] c = "-" -> {">", "="}
              [] c = "=" -> {"=", ">"}
              [] c \in {"<", ">"} -> {"=", c}
              [] c \in {".", "&", "|"} -> {c}]
Follows(c) == IF c \in DOMAIN Pairs THEN Pairs[c] ELSE Seconds[c]
Symbols == DOMAIN Seconds \cup DOMAIN Pairs

Token == [kind : {"word", "int", "float", "string", "symbol", "error", "eof"},
          from : Nat, to : Nat, line : Nat, col : Nat]
-----------------------------------------------------------------------------
\* The character o behind position p.
CharAt(p) == IF p \in DOMAIN src THEN src[p] ELSE NUL
Peek(o) == CharAt(cur.p + o)

\* Mutant: the cursor moves on at the terminator.
Advance_always(c) ==
  IF CharAt(c.p) = "\n" THEN [p |-> c.p + 1, line |-> c.line + 1, col |-> 1]
                        ELSE [c EXCEPT !.p = @ + 1, !.col = @ + 1]

\* advance: never past the terminator.
Advance(c) ==
  IF CharAt(c.p) = NUL THEN c
  ELSE IF CharAt(c.p) = "\n" THEN [p |-> c.p + 1, line |-> c.line + 1, col |-> 1]
  ELSE [c EXCEPT !.p = @ + 1, !.col = @ + 1]

Goto(c, m) == cur' = c /\ mode' = m /\ UNCHANGED <<src, first, toks, cap>>
Stay == Goto(Advance(cur), mode)

\* vec_reserve: double until there is room.
vec_reserve(n) == IF n <= cap THEN cap ELSE IF cap = 0 THEN VecFirst ELSE 2 * cap

\* make and vec_push: the token ends at c.
Emit(kind, c) ==
  /\ toks' = Append(toks, [kind |-> kind, from |-> first.p, to |-> c.p,
                           line |-> first.line, col |-> first.col])
  /\ cap' = vec_reserve(Len(toks) + 1)
  /\ cur' = c
  /\ mode' = IF kind = "eof" THEN "over" ELSE "trivia"
  /\ UNCHANGED <<src, first>>

LexInit ==
  /\ src \in Sources
  /\ cur = [p |-> 1, line |-> 1, col |-> 1] /\ first = cur
  /\ mode = "trivia" /\ toks = <<>> /\ cap = 0
-----------------------------------------------------------------------------
(* skip_trivia *)
AtLine == Peek(0) = "/" /\ Peek(1) = "/"
AtBlock == Peek(0) = "/" /\ Peek(1) = "*"
AtEndOfBlock == Peek(0) = "*" /\ Peek(1) = "/"

Blank == mode = "trivia" /\ Peek(0) \in Blanks /\ Stay

OpenLine == mode = "trivia" /\ AtLine /\ Goto(cur, "line")
LineComment == mode = "line" /\ Peek(0) \notin {NUL, "\n"} /\ Stay
EndLine == mode = "line" /\ Peek(0) \in {NUL, "\n"} /\ Goto(cur, "trivia")

\* Mutant: the star that opens a comment may be the one that closes it.
OpenBlock_short == mode = "trivia" /\ AtBlock /\ Goto(Advance(cur), "block")

OpenBlock == mode = "trivia" /\ AtBlock /\ Goto(Advance(Advance(cur)), "block")

BlockComment == mode = "block" /\ Peek(0) # NUL /\ ~AtEndOfBlock /\ Stay
\* Mutant: only the closing characters end a comment.
EndBlock_closed == mode = "block" /\ AtEndOfBlock /\ Goto(Advance(Advance(cur)), "trivia")

EndBlock == mode = "block" /\ (Peek(0) = NUL \/ AtEndOfBlock)
            /\ Goto(IF Peek(0) = NUL THEN cur ELSE Advance(Advance(cur)), "trivia")

(* lexer_next *)
AtToken == mode = "trivia" /\ Peek(0) \notin Blanks /\ ~AtLine /\ ~AtBlock

\* The loop a token that begins with c is read by.
Loop(c) == CASE c = NUL -> "end"
             [] c \in Letters \cup {"_"} -> "word"
             [] c \in Decimal -> "number"
             [] c \in Symbols -> "symbol"
             [] c = "\"" -> "string"
             [] c = "'" -> "char"
             [] OTHER -> "bad"

Begin == /\ AtToken
         /\ first' = cur /\ cur' = Advance(cur) /\ mode' = Loop(Peek(0))
         /\ UNCHANGED <<src, toks, cap>>

EndOfFile == mode = "end" /\ Emit("eof", cur)
Unexpected == mode = "bad" /\ Emit("error", cur)

\* Mutant: an operator is one character.
Symbol_single == mode = "symbol" /\ Emit("symbol", cur)

\* The operators, by the longest match.
Symbol == mode = "symbol"
          /\ Emit("symbol", IF Peek(0) \in Follows(src[first.p]) THEN Advance(cur) ELSE cur)

\* lex_ident
Word == mode = "word" /\ Peek(0) \in WordChars /\ Stay
EndWord == mode = "word" /\ Peek(0) \notin WordChars /\ Emit("word", cur)

\* lex_number: the base, the digits and what comes after a point.
Base == CASE src[first.p] = "0" /\ Peek(0) \in {"x", "X"} -> "hex"
          [] src[first.p] = "0" /\ Peek(0) \in {"b", "B"} -> "binary"
          [] OTHER -> "decimal"
Number == mode = "number" /\ Goto(IF Base = "decimal" THEN cur ELSE Advance(cur), Base)

Digits == [hex |-> Decimal \cup HexLetters \cup {"_"}, binary |-> {"0", "1", "_"},
           decimal |-> Decimal, fraction |-> Decimal]
Digit == mode \in DOMAIN Digits /\ Peek(0) \in Digits[mode] /\ Stay
HasFraction == mode = "decimal" /\ Peek(0) = "." /\ Peek(1) \in Decimal
Point == HasFraction /\ Goto(Advance(cur), "fraction")
EndNumber == mode \in DOMAIN Digits /\ Peek(0) \notin Digits[mode] /\ ~HasFraction
             /\ Emit(IF mode = "fraction" THEN "float" ELSE "int", cur)

\* lex_string
String == mode = "string" /\ Peek(0) \notin {NUL, "\""}
          /\ Goto(IF Peek(0) = "\\" /\ Peek(1) # NUL THEN Advance(Advance(cur)) ELSE Advance(cur),
                  mode)
EndString == mode = "string" /\ Peek(0) = "\"" /\ Emit("string", Advance(cur))
OpenString == mode = "string" /\ Peek(0) = NUL /\ Emit("error", cur)

\* lex_char: the character, after a backslash if there is one, and a quote.
BadChar == mode = "char" /\ Peek(0) \in {NUL, "\n"} /\ Emit("error", cur)
Char == /\ mode = "char" /\ Peek(0) \notin {NUL, "\n"}
        /\ LET escaped == Peek(0) = "\\"
               body == IF escaped THEN Advance(Advance(cur)) ELSE Advance(cur)
           IN IF (escaped => Peek(1) \in Escapes) /\ CharAt(body.p) = "'"
                THEN Emit("int", Advance(body))
                ELSE Emit("error", body)

LexNext ==
  \/ Blank \/ OpenLine \/ LineComment \/ EndLine \/ OpenBlock \/ BlockComment \/ EndBlock
  \/ Begin \/ EndOfFile \/ Unexpected \/ Symbol
  \/ Word \/ EndWord
  \/ Number \/ Digit \/ Point \/ EndNumber
  \/ String \/ EndString \/ OpenString
  \/ BadChar \/ Char
-----------------------------------------------------------------------------
\* The cursor stays on the text or its terminator, and the vector has room for
\* its tokens.
LexTypeOK ==
  /\ src \in Sources
  /\ cur \in [p : 1 .. Len(src) + 1, line : Nat \ {0}, col : Nat \ {0}]
  /\ first \in [p : 1 .. Len(src) + 1, line : Nat \ {0}, col : Nat \ {0}]
  /\ first.p <= cur.p
  /\ mode \in {"trivia", "line", "block", "end", "word", "number", "symbol", "string", "char",
               "bad", "over"} \cup DOMAIN Digits
  /\ toks \in Seq(Token)
  /\ Len(toks) <= cap

Text(t) == SubSeq(src, t.from, t.to - 1)

\* The text up to the first terminator in it.
End == CHOOSE n \in 1 .. Len(src) + 1 :
         CharAt(n) = NUL /\ \A m \in 1 .. n - 1 : CharAt(m) # NUL

\* A piece of trivia: a blank, or a comment that is as long as it can be.
Piece(i, j) ==
  \/ i = j /\ src[i] \in Blanks
  \/ /\ j > i /\ src[i] = "/" /\ src[i + 1] = "/"
     /\ \A n \in i .. j : src[n] # "\n"
     /\ CharAt(j + 1) \in {"\n", NUL}
  \/ /\ j > i /\ src[i] = "/" /\ src[i + 1] = "*"
     /\ \A n \in i + 3 .. j - 1 : ~(src[n - 1] = "*" /\ src[n] = "/")
     /\ CharAt(j + 1) = NUL \/ (j >= i + 3 /\ src[j - 1] = "*" /\ src[j] = "/")

\* Nothing but pieces from i to j: there are places to cut the text at, each one
\* at the end of a piece that begins at an earlier one.
Trivia(i, j) ==
  \E cuts \in SUBSET (i .. j + 1) :
    /\ {i, j + 1} \subseteq cuts
    /\ \A n \in cuts \ {i} : \E b \in cuts : b < n /\ Piece(b, n - 1)

NewlinesBefore(p) == {n \in 1 .. p - 1 : src[n] = "\n"}

\* The token that was made last, and where the one before it ends.
Newest == toks[Len(toks)]
Behind == IF Len(toks) = 1 THEN 1 ELSE toks[Len(toks) - 1].to

\* Tokens follow one another and lie in the text; between two of them is
\* nothing but blanks and whole comments; the last one, and no other, is the
\* end.  Lines and columns say where a token begins: the newlines before it,
\* and the characters since the last of them (lexer.c 28-34, 41-55).  Stated of
\* the newest token: the vector is only ever appended to.
Tiled ==
  /\ toks # <<>> =>
       LET t == Newest IN
       /\ Behind <= t.from /\ t.from <= t.to
       /\ Trivia(Behind, t.from - 1)
       /\ t.kind = "eof" <=> t.from = End
       /\ t.kind # "eof" => t.from < t.to
       /\ t.line = Cardinality(NewlinesBefore(t.from)) + 1
       /\ t.col = Cardinality({n \in 1 .. t.from : NewlinesBefore(n) = NewlinesBefore(t.from)})
  /\ mode = "over" <=> toks # <<>> /\ Newest.kind = "eof"

\* What a token of each kind looks like, as a whole (token.c 21-45).
Spellings ==
  {<<c>> : c \in {"(", ")", "{", "}", "[", "]", ",", ".", ":", ";", "@", "=", "+", "-", "*", "/",
                  "%", "&", "!", "<", ">", "|", "^", "~"}}
  \cup {<<"-", ">">>, <<"=", ">">>, <<".", ".">>, <<":", "=">>, <<"=", "=">>, <<"!", "=">>,
        <<"<", "=">>, <<">", "=">>, <<"&", "&">>, <<"|", "|">>, <<"<", "<">>, <<">", ">">>,
        <<"+", "=">>, <<"-", "=">>, <<"*", "=">>, <<"/", "=">>}

All(s, from, to, chars) == \A i \in from .. to : s[i] \in chars

\* A character is escaped if an odd number of backslashes stands before it.
Escaped(s, i) == \E b \in 1 .. i - 1 : /\ (i - b) % 2 = 1 /\ All(s, b, i - 1, {"\\"})
                                       /\ b = 1 \/ s[b - 1] # "\\"

Looks(kind, s) ==
  CASE kind = "word" -> s[1] \notin Decimal /\ All(s, 1, Len(s), WordChars)
    [] kind = "int" ->
         \/ All(s, 1, Len(s), Decimal)
         \/ Len(s) > 1 /\ s[1] = "0" /\ s[2] \in {"x", "X"} /\ All(s, 3, Len(s), Digits.hex)
         \/ Len(s) > 1 /\ s[1] = "0" /\ s[2] \in {"b", "B"} /\ All(s, 3, Len(s), Digits.binary)
         \/ Len(s) = 3 /\ s[1] = "'" /\ s[3] = "'" /\ s[2] \notin {"\\", "\n"}
         \/ Len(s) = 4 /\ s[1] = "'" /\ s[4] = "'" /\ s[2] = "\\" /\ s[3] \in Escapes
    [] kind = "float" -> \E p \in 2 .. Len(s) - 1 : /\ s[p] = "." /\ All(s, 1, p - 1, Decimal)
                                                    /\ All(s, p + 1, Len(s), Decimal)
    [] kind = "string" ->
         /\ Len(s) > 1 /\ s[1] = "\"" /\ s[Len(s)] = "\""
         /\ \A i \in 2 .. Len(s) : s[i] = "\"" => (i = Len(s) <=> ~Escaped(s, i))
    [] kind = "symbol" -> s \in Spellings

Lexeme(from, to) == \E k \in {"word", "int", "float", "string", "symbol"} :
                       Looks(k, SubSeq(src, from, to))

\* A token is the longest that can be read where it begins, and an error
\* stands where no token can be read at all; a comment is not taken for
\* operators (lexer.c 96-244).  Stated of the newest token.
MaximalMunch ==
  toks # <<>> =>
    LET t == Newest IN
    /\ ~\E j \in t.from .. End - 1 : Piece(t.from, j)
    /\ t.kind \notin {"eof", "error"} =>
         /\ Looks(t.kind, Text(t))
         /\ \A j \in t.to .. End - 1 : ~Lexeme(t.from, j)
    /\ t.kind = "error" => \A j \in t.from .. End - 1 : ~Lexeme(t.from, j)
=============================================================================

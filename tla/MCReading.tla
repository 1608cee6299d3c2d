----------------------------- MODULE MCReading -----------------------------
(* Texts for the lexer: for each loop of it, all short texts over the        *)
(* characters that it tells apart, and names and strings around the size of  *)
(* an arena block.                                                           *)
EXTENDS Reading

Texts(chars, n) == UNION {[1 .. k -> chars] : k \in 0 .. n}
After(prefix, texts) == {prefix \o t : t \in texts}

Run(c, n) == [i \in 1 .. n |-> c]

MCKeywords == {<<"i", "f">>, <<"i", "n">>, <<"f", "n">>}

MCSources ==
       Texts({"/", "*", "\n", "a"}, 5)
  \cup After(<<"\"">>, Texts({"\"", "\\", "0", "n", "\n"}, 4))
  \cup Texts({"'", "\\", "n", "\n", "\""}, 4)
  \cup Texts({"0", "1", "x", "b", "_", "."}, 4)
  \cup Texts({"+", "-", "*", "/", ".", ":", "=", "!", "<", ">", "&", "|"}, 2)
  \cup Texts({"-", "/", ".", "=", "<", ">", "&", " "}, 3)
  \cup Texts({"(", ")", "{", "}", "[", "]", ",", ";", "@", "%", "^", "~", "#"}, 2)
  \cup Texts({"i", "f", "n", "_", " ", "1"}, 3)
       \* a terminator inside a text
  \cup After(<<"a">>, Texts({NUL, "\"", "\\", "'", "/", "*"}, 3))
       \* names and strings of every size around the one of a block
  \cup {Run("a", i) \o <<" ">> \o Run("b", j) \o <<"\"">> \o Run("c", k) \o <<"\\", "n", "\"">> :
          i, j, k \in 1 .. 5}
       \* names that are copied after what follows them
  \cup {Run("a", i) \o <<"=">> \o Run("b", j) \o <<":">> \o Run("c", k) \o <<x>> \o Run("d", k) :
          i, j, k \in 1 .. 4, x \in {"=", ",", "\""}}
=============================================================================

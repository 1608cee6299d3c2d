------------------------------- MODULE MCBodies -------------------------------
(* Bodies of two nested blocks of every kind, with declarations, uses and    *)
(* jumps in front of, inside and behind each, and of three with jumps.       *)
EXTENDS Bodies

MCNames == {"x", "i"}
S(op) == [op |-> op, name |-> "x"]
For == [op |-> "for", name |-> "i"]

\* A block of some kind around s; "arms" is a choice between s and t.
Wrap(kind, s, t) ==
  CASE kind = "arms" -> <<S("match"), S("arm")>> \o s \o <<S("close"), S("arm")>> \o t \o <<S("close")>>
    [] kind = "for" -> <<For>> \o s \o <<S("close")>>
    [] OTHER -> <<S(kind)>> \o s \o <<S("close")>>
Kinds == {"block", "while", "for", "arms"}

None == <<>>
One(op) == <<S(op)>>
Inner == {One(op) : op \in {"let", "use", "break", "continue", "return"}} \cup {<<[op |-> "use", name |-> "i"]>>}
Outer == {One(op) : op \in {"let", "break", "continue"}} \cup {None}

WellFormed ==
  {a \o Wrap(k, b \o Wrap(l, c \o One("use"), b) \o d, c) \o One("use") :
     a \in {None, One("let")}, k, l \in Kinds, b \in {None, One("let")}, c \in Inner, d \in Outer}
  \cup
  {Wrap(k, Wrap(l, Wrap(m, c, c), c) \o One("let"), None) \o One("let") \o One("use") :
     k, l, m \in Kinds, c \in {One(j) : j \in Jumps}}
===============================================================================

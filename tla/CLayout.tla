------------------------------ MODULE CLayout ------------------------------
(***************************************************************************)
(* How a C compiler lays out the packed aggregates of a generated header,   *)
(* read from the emitted lines of KtraceGen: an "open" line at indentation *)
(* d starts a struct or union whose direct members are the lines at d + 2 *)
(* up to the "close" line at d; a nested aggregate counts as a member at   *)
(* its close line.  Every aggregate is __packed__, so a struct member     *)
(* starts where the previous one ends and a union member at offset 0.      *)
(* Only TLC uses this module (it declares recursive operators).            *)
(***************************************************************************)
EXTENDS Integers, Sequences, FiniteSets

Layout(l) == l.k \in {"open", "close", "mem", "pad"}

\* The aggregate lines of an emitted text, in order.
Body(s) == SelectSeq(s, Layout)

\* The open line of the aggregate that line i (of body s) is a member of,
\* 0 for the outermost line.
Parent(s, i) ==
  LET c == {j \in 1..(i - 1) : s[j].k = "open" /\ s[j].ind = s[i].ind - 2}
  IN  IF c = {} THEN 0 ELSE CHOOSE j \in c : \A x \in c : x <= j

\* The open line matching close line i.
OpenOf(s, i) ==
  LET c == {j \in 1..(i - 1) : s[j].k = "open" /\ s[j].ind = s[i].ind}
  IN  CHOOSE j \in c : \A x \in c : x <= j

\* The member lines of the aggregate opened at line o, up to line lim.
Members(s, o, lim) ==
  {c \in (o + 1)..(lim - 1) : s[c].ind = s[o].ind + 2 /\ s[c].k \in {"mem", "pad", "close"}
                             /\ \A j \in (o + 1)..c : ~(s[j].k = "close" /\ s[j].ind = s[o].ind)}

RECURSIVE RSize(_, _), SumSizes(_, _)

\* The sizes of the lines in S, added up.
SumSizes(s, S) ==
  IF S = {} THEN 0
  ELSE LET x == CHOOSE x \in S : TRUE IN RSize(s, x) + SumSizes(s, S \ {x})

\* The size the compiler gives line i: a field or padding its declared
\* size; a closed struct the sum, a closed union the largest of its members.
RSize(s, i) ==
  IF s[i].k # "close" THEN s[i].size
  ELSE LET o == OpenOf(s, i)
           ms == Members(s, o, i)
       IN  IF s[o].code = "struct" THEN SumSizes(s, ms)
           ELSE IF ms = {} THEN 0
           ELSE LET sz == {RSize(s, m) : m \in ms} IN CHOOSE x \in sz : \A y \in sz : y <= x

\* Offset of line i inside its aggregate.
RelOff(s, i) ==
  LET p == Parent(s, i)
  IN  IF p = 0 \/ s[p].code = "union" THEN 0
      ELSE SumSizes(s, Members(s, p, i))

RECURSIVE AbsOff(_, _)
\* Offset of line i from the start of the outermost aggregate, as compiled.
AbsOff(s, i) ==
  IF Parent(s, i) = 0 THEN 0 ELSE AbsOff(s, Parent(s, i)) + RelOff(s, i)

RECURSIVE ExpOff(_, _)
\* Offset of line i the reflected layout asks for: the field offsets of
\* the enclosing aggregates and of the field itself, added up.
ExpOff(s, i) ==
  IF Parent(s, i) = 0 THEN 0 ELSE ExpOff(s, Parent(s, i)) + s[i].off
=============================================================================

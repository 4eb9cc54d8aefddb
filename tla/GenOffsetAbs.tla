----------------------------- MODULE GenOffsetAbs ---------------------------
(***************************************************************************)
(* What the two extraction passes of src/tool/genoffset.py promise, with  *)
(* the scanning loops left out.  From the dump, the classes are cut out   *)
(* one at a time, each exactly once and each as its own text, from its    *)
(* header to the first "};" after it; only when all of them are cut is    *)
(* any class searched; each class is searched once, and a member is       *)
(* recorded with the bitsize and bitpos of a line of its class's section  *)
(* that the member matcher accepts.  The script may stop at any point.    *)
(*                                                                         *)
(* The classes, their member lists and the matcher are parameters; the    *)
(* module GenOffset instantiates them with the script's.                  *)
(***************************************************************************)
EXTENDS Naturals, Sequences

CONSTANTS
  Dumps,         \* the input files
  Classes,       \* the keys of the classes cut out
  Members,       \* key -> the list of members searched for
  Match(_, _)    \* Match(line, member): the member's expression accepts line

VARIABLES
  lines,      \* the input file
  sections,   \* key -> the lines of that class
  found,      \* key -> member -> <<bitsize, bitpos>>
  done        \* the script has ended

vars == <<lines, sections, found, done>>

\* Lines a..b of the dump are the text of class k: its header, then lines
\* up to the first "};".
Text(k, a, b) ==
  /\ 1 <= a /\ a <= b /\ b <= Len(lines)
  /\ lines[a].k = "marker" /\ lines[a].sec = k
  /\ lines[b].k = "close"
  /\ \A i \in a + 1 .. b - 1 : lines[i].k # "close"

\* d[key] = val
Put(f, key, val) == [x \in DOMAIN f \cup {key} |-> IF x = key THEN val ELSE f[x]]

Init ==
  /\ lines \in Dumps
  /\ sections = <<>>
  /\ found = <<>>
  /\ done = FALSE

\* Class k, not cut before, is cut out as its text; no class is searched yet.
Cut(k) ==
  /\ ~done /\ DOMAIN found = {}
  /\ k \in Classes \ DOMAIN sections
  /\ \E a, b \in 1 .. Len(lines) :
       Text(k, a, b) /\ sections' = Put(sections, k, SubSeq(lines, a, b))
  /\ UNCHANGED <<lines, found, done>>

\* All classes are cut; class k, not searched before, is searched.
Begin(k) ==
  /\ ~done /\ DOMAIN sections = Classes
  /\ k \in Classes \ DOMAIN found
  /\ found' = Put(found, k, <<>>)
  /\ UNCHANGED <<lines, sections, done>>

\* The i-th member of class k is recorded from a line of k's section that
\* the matcher accepts.
Record(k, i) ==
  /\ ~done /\ k \in DOMAIN found
  /\ \E j \in DOMAIN sections[k] :
       /\ Match(sections[k][j], Members[k][i])
       /\ found' = [found EXCEPT ![k] =
                      Put(@, Members[k][i],
                          <<sections[k][j].bitsize, sections[k][j].bitpos>>)]
  /\ UNCHANGED <<lines, sections, done>>

Finish ==
  /\ ~done /\ done' = TRUE
  /\ UNCHANGED <<lines, sections, found>>

Next ==
  \/ \E k \in Classes : Cut(k) \/ Begin(k)
  \/ \E k \in Classes : \E i \in 1 .. Len(Members[k]) : Record(k, i)
  \/ Finish

Spec == Init /\ [][Next]_vars
=============================================================================

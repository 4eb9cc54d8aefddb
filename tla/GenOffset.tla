----------------------------- MODULE GenOffset -----------------------------
(***************************************************************************)
(* src/tool/genoffset.py: reads a class dump of the kernel (thread.debug), *)
(* cuts out the bodies of the classes context_t, receiver_t, sender_t and  *)
(* thread_t (extract_sections), finds the bit position of every member of  *)
(* the fixed lists d_members_* with a regular expression                   *)
(* (extract_members), and prints one #define OFS__THREAD__<MEMBER> per     *)
(* member with its byte offset in a thread object (dump_members, main).    *)
(*                                                                         *)
(* A line of the dump is a record: a class header (marker) with the sizes *)
(* and base positions its regular expression captures, a member           *)
(* declaration with the text before its ";" and the bitsize/bitpos of its *)
(* comment, the "};" that closes a class, or any other line.  The member   *)
(* regular expression is evaluated on the declaration text, character by   *)
(* character.  The script is sequential; one step is one iteration of one *)
(* of its loops.                                                           *)
(***************************************************************************)
EXTENDS Naturals, Sequences, SequencesExt, FiniteSets, TLC

CONSTANT Dumps   \* the thread.debug files the script may be given

Keys == {"context", "receiver", "sender", "thread"}

\* class_members (lines 16-76).
ClassMembers ==
  [context |-> <<"_state", "ready_next", "ready_prev", "kernel_sp",
                 "_space_context", "_stack_link", "_donatee", "_lock_cnt",
                 "_thread_lock", "_sched", "_fpu_regs">>,
   sender |-> <<"_id", "_send_partner", "sender_next", "sender_prev">>,
   receiver |-> <<"_partner", "_receive_regs", "_pagein_request",
                  "_pagein_applicant", "_sender_first", "_timeout">>,
   thread |-> <<"_space", "_thread_lock", "_pager", "_preempter",
                "_ext_preempter", "present_next", "present_prev", "_irq",
                "_idt", "_idt_limit", "_target_desc", "_pagein_error_code",
                "_vm_window0", "_vm_window1", "_recover_jmpbuf",
                "_pf_timeout", "_last_pf_address", "_last_pf_error_code",
                "_magic">>]

LineRecs ==
  [k : {"marker"}, sec : Keys, size : Nat, bitpos : Nat] \cup
  [k : {"member"}, text : STRING, name : STRING, bitsize : Nat, bitpos : Nat] \cup
  [k : {"close", "other"}]

ASSUME DumpsAssumption == Dumps \subseteq Seq(LineRecs) /\ Dumps # {}
-----------------------------------------------------------------------------
(* Strings *)

Ch(s, i) == SubSeq(s, i, i)

\* The member regular expression of line 99 finds member in a member line:
\* a blank or "(", an optional "*", then the member's name, then anything
\* up to the "; /* bitsize .., bitpos .. */" comment.  Nothing follows the
\* name in the expression, so a longer name that starts with it matches.
Matches(l, member) ==
  /\ l.k = "member"
  /\ \E i \in 1..Len(l.text) :
       /\ Ch(l.text, i) \in {" ", "("}
       /\ \/ IsPrefix(member, SubSeq(l.text, i + 1, Len(l.text)))
          \/ IsPrefix("*" \o member, SubSeq(l.text, i + 1, Len(l.text)))

LowerChars == "abcdefghijklmnopqrstuvwxyz"
UpperChars == "ABCDEFGHIJKLMNOPQRSTUVWXYZ"

\* str.upper() on one character.
UpChar(c) ==
  IF \E j \in 1..26 : Ch(LowerChars, j) = c
  THEN Ch(UpperChars, CHOOSE j \in 1..26 : Ch(LowerChars, j) = c)
  ELSE c

Upper(s) ==
  LET up[i \in 0..Len(s)] == IF i = 0 THEN "" ELSE up[i - 1] \o UpChar(Ch(s, i))
  IN  up[Len(s)]

\* The loop of lines 172-173 drops the leading underscores.
StripUs(s) ==
  LET firsts == {i \in 1..Len(s) : Ch(s, i) # "_"}
  IN  SubSeq(s, Min(firsts), Len(s))

\* The name of the #define of a member (lines 171-174).
DefName(member) == "OFS__THREAD__" \o Upper(StripUs(member))

\* Variant of DumpMembers that adds the class's offset in bits.
DumpMembersBits(offset, mems, list) ==
  LET ms == SortSeq(SelectSeq(list, LAMBDA m : m \in DOMAIN mems),
                    LAMBDA a, b : mems[a][2] < mems[b][2])
  IN  [i \in DOMAIN ms |->
         [name |-> DefName(ms[i]), val |-> offset + mems[ms[i]][2] \div 8]]

\* dump_members: the members sorted by bitpos, one define each with the
\* byte offset offset / 8 + bitpos / 8 (lines 166-177).  members.items()
\* comes in the dict's order, here the order of the list.
DumpMembers(offset, mems, list) ==
  LET ms == SortSeq(SelectSeq(list, LAMBDA m : m \in DOMAIN mems),
                    LAMBDA a, b : mems[a][2] < mems[b][2])
  IN  [i \in DOMAIN ms |->
         [name |-> DefName(ms[i]), val |-> offset \div 8 + mems[ms[i]][2] \div 8]]
-----------------------------------------------------------------------------
VARIABLES
  lines,     \* the lines of the input file
  pc,        \* the loop the script is in, or "done"
  exit,      \* how the script ended
  ln,        \* line_nr (1-based here)
  keys,      \* section_keys not yet found
  cur,       \* curr_section
  sk,        \* the section being cut out or searched
  sections,  \* sections: key -> lines of the class
  pend,      \* sections extract_members has not visited yet
  mi,        \* the member of class_members[sk] searched for
  found,     \* section_members: key -> member -> <<bitsize, bitpos>>
  out        \* the printed defines

vars == <<lines, pc, exit, ln, keys, cur, sk, sections, pend, mi, found, out>>

Init ==
  /\ lines \in Dumps
  /\ pc = "scan"
  /\ exit = "none"
  /\ ln = 1
  /\ keys = Keys
  /\ cur = <<>>
  /\ sk = "context"
  /\ sections = <<>>
  /\ pend = {}
  /\ mi = 1
  /\ found = <<>>
  /\ out = [blocks |-> <<>>, cast |-> 0, max |-> 0]

Stop(e) == pc' = "done" /\ exit' = e

\* d[key] = value on a dict (lines 96, 111 and 157).
Store(f, key, val) == [x \in DOMAIN f \cup {key} |-> IF x = key THEN val ELSE f[x]]

IsMarker(l) == l.k = "marker" /\ l.sec \in keys

\* extract_sections: a line that opens none of the classes still wanted.
ScanOther ==
  /\ pc = "scan" /\ keys # {} /\ ln <= Len(lines)
  /\ ~IsMarker(lines[ln])
  /\ ln' = ln + 1
  /\ UNCHANGED <<lines, pc, exit, keys, cur, sk, sections, pend, mi, found, out>>

\* A class header: its key leaves section_keys and its body is collected
\* (lines 139-151).
ScanMarker ==
  /\ pc = "scan" /\ keys # {} /\ ln <= Len(lines)
  /\ IsMarker(lines[ln])
  /\ keys' = keys \ {lines[ln].sec}
  /\ sk' = lines[ln].sec
  /\ cur' = <<lines[ln]>>
  /\ ln' = ln + 1
  /\ pc' = "body"
  /\ UNCHANGED <<lines, exit, sections, pend, mi, found, out>>

\* Variant of BodyLine that does not test for the "};" line.
BodyLineNoClose ==
  /\ pc = "body" /\ ln <= Len(lines)
  /\ cur' = Append(cur, lines[ln])
  /\ ln' = ln + 1
  /\ UNCHANGED <<lines, pc, exit, keys, sk, sections, pend, mi, found, out>>

\* The inner loop of lines 152-161 appends a body line.
BodyLine ==
  /\ pc = "body" /\ ln <= Len(lines)
  /\ lines[ln].k # "close"
  /\ cur' = Append(cur, lines[ln])
  /\ ln' = ln + 1
  /\ UNCHANGED <<lines, pc, exit, keys, sk, sections, pend, mi, found, out>>

\* "};" ends the class; line_nr stays on it (lines 154-160).
BodyClose ==
  /\ pc = "body" /\ ln <= Len(lines)
  /\ lines[ln].k = "close"
  /\ sections' = Store(sections, sk, Append(cur, lines[ln]))
  /\ cur' = <<>>
  /\ pc' = "scan"
  /\ UNCHANGED <<lines, exit, ln, keys, sk, pend, mi, found, out>>

\* The file ends inside a class: lines[line_nr] raises IndexError, which
\* nothing catches.
BodyPastEnd ==
  /\ pc = "body" /\ ln > Len(lines)
  /\ Stop("traceback")
  /\ UNCHANGED <<lines, ln, keys, cur, sk, sections, pend, mi, found, out>>

\* extract_sections returns; main checks that all four classes were found
\* (line 182) and extract_members begins.
ScanEnd ==
  /\ pc = "scan" /\ (keys = {} \/ ln > Len(lines))
  /\ Cardinality(DOMAIN sections) = 4
  /\ pc' = "members" /\ pend' = Keys
  /\ UNCHANGED <<lines, exit, ln, keys, cur, sk, sections, mi, found, out>>

ScanEndMissing ==
  /\ pc = "scan" /\ (keys = {} \/ ln > Len(lines))
  /\ Cardinality(DOMAIN sections) # 4
  /\ Stop("assert")
  /\ UNCHANGED <<lines, ln, keys, cur, sk, sections, pend, mi, found, out>>

\* Variant of NextSection that does not take the key out of the keys to
\* visit.
NextSectionKeep ==
  /\ pc = "members" /\ pend # {}
  /\ \E k \in pend :
       /\ sk' = k /\ pend' = pend
       /\ found' = Store(found, k, <<>>)
  /\ ln' = 1 /\ mi' = 1 /\ pc' = "search"
  /\ UNCHANGED <<lines, exit, keys, cur, sections, out>>

\* extract_members takes the next section, in the dict's order: line_nr
\* starts at 0 for it (lines 93-96).
NextSection ==
  /\ pc = "members" /\ pend # {}
  /\ \E k \in pend :
       /\ sk' = k /\ pend' = pend \ {k}
       /\ found' = Store(found, k, <<>>)
  /\ ln' = 1 /\ mi' = 1 /\ pc' = "search"
  /\ UNCHANGED <<lines, exit, keys, cur, sections, out>>

\* The member's expression matches line line_nr: it is recorded, and the
\* next member is searched from the same line (lines 110-113).
SearchHit ==
  /\ pc = "search" /\ mi <= Len(ClassMembers[sk])
  /\ ln <= Len(sections[sk])
  /\ Matches(sections[sk][ln], ClassMembers[sk][mi])
  /\ found' = [found EXCEPT ![sk] =
                 Store(@, ClassMembers[sk][mi],
                       <<sections[sk][ln].bitsize, sections[sk][ln].bitpos>>)]
  /\ mi' = mi + 1
  /\ UNCHANGED <<lines, pc, exit, ln, keys, cur, sk, sections, pend, out>>

\* Variant of SearchMiss that does not move to the next line.
SearchMissStay ==
  /\ pc = "search" /\ mi <= Len(ClassMembers[sk])
  /\ ln <= Len(sections[sk])
  /\ ~Matches(sections[sk][ln], ClassMembers[sk][mi])
  /\ UNCHANGED vars

\* No match: on to the next line (line 114).
SearchMiss ==
  /\ pc = "search" /\ mi <= Len(ClassMembers[sk])
  /\ ln <= Len(sections[sk])
  /\ ~Matches(sections[sk][ln], ClassMembers[sk][mi])
  /\ ln' = ln + 1
  /\ UNCHANGED <<lines, pc, exit, keys, cur, sk, sections, pend, mi, found, out>>

\* Past the section's last line: the IndexError is caught, "member not
\* found" is printed and the script exits with status 1 (lines 101-106).
SearchNotFound ==
  /\ pc = "search" /\ mi <= Len(ClassMembers[sk])
  /\ ln > Len(sections[sk])
  /\ Stop("notfound")
  /\ UNCHANGED <<lines, ln, keys, cur, sk, sections, pend, mi, found, out>>

SearchDone ==
  /\ pc = "search" /\ mi > Len(ClassMembers[sk])
  /\ pc' = "members"
  /\ UNCHANGED <<lines, exit, ln, keys, cur, sk, sections, pend, mi, found, out>>

\* The rest of main (lines 185-199): the sender_t base position and the
\* size of thread_t come from the thread_t header.
Main ==
  /\ pc = "members" /\ pend = {}
  /\ LET hd == sections["thread"][1]
     IN  out' = [blocks |-> [k \in Keys |->
                              DumpMembers(IF k = "sender" THEN hd.bitpos ELSE 0,
                                          found[k], ClassMembers[k])],
                 cast |-> hd.bitpos \div 8,
                 max |-> hd.size]
  /\ Stop("ok")
  /\ UNCHANGED <<lines, ln, keys, cur, sk, sections, pend, mi, found>>

Next ==
  \/ ScanOther \/ ScanMarker \/ BodyLine \/ BodyClose \/ BodyPastEnd
  \/ ScanEnd \/ ScanEndMissing
  \/ NextSection \/ SearchHit \/ SearchMiss \/ SearchNotFound \/ SearchDone
  \/ Main

Spec == Init /\ [][Next]_vars

\* The script runs to its end once started: nothing it does waits.
FairSpec == Spec /\ WF_vars(Next)

\* The script as an instance of the abstract extraction of GenOffsetAbs.
Abs == INSTANCE GenOffsetAbs
         WITH Classes <- Keys, Members <- ClassMembers, Match <- Matches,
              done <- (pc = "done")

\* extract_sections and extract_members do what GenOffsetAbs allows and
\* nothing else: each class is cut once, as its own text, before any is
\* searched; each class is searched once; every member recorded comes
\* from a matching line of its class (lines 91-161).
AbsSpec == Abs!Spec
-----------------------------------------------------------------------------
(* Properties *)

\* The state the two loops of the script work on (out is left out: it is
\* written once, by Main).
TypeOK ==
  /\ lines \in Seq(LineRecs)
  /\ pc \in {"scan", "body", "members", "search", "done"}
  /\ exit \in {"none", "ok", "traceback", "assert", "notfound"}
  /\ ln \in Nat \ {0} /\ mi \in Nat \ {0}
  /\ keys \subseteq Keys /\ pend \subseteq Keys /\ sk \in Keys
  /\ cur \in Seq(LineRecs)
  /\ DOMAIN sections \subseteq Keys
  /\ \A k \in DOMAIN sections : sections[k] \in Seq(LineRecs)
  /\ DOMAIN found \subseteq Keys

\* Where a class's body lies in the dump: after its first header, up to
\* the first "};" after it.
HeaderAt(k) == SelectInSeq(lines, LAMBDA l : l.k = "marker" /\ l.sec = k)
BodyOf(k) ==
  LET h == HeaderAt(k)
      c == SelectInSubSeq(lines, h, Len(lines), LAMBDA l : l.k = "close")
  IN  SubSeq(lines, h + 1, c - 1)

\* Lines a..b of the dump are the text of class k: its header, then lines
\* up to the first "};".
ClassText(k, a, b) ==
  /\ 1 <= a /\ a <= b /\ b <= Len(lines)
  /\ lines[a].k = "marker" /\ lines[a].sec = k
  /\ lines[b].k = "close"
  /\ \A i \in a + 1 .. b - 1 : lines[i].k # "close"

\* extract_sections cuts out, for each class, exactly the text of that
\* class from its header to its "};", whatever else the file holds and in
\* whatever order the classes come (the scan restarts on the "};" line
\* with the class's pattern removed); and extract_members records for a
\* member only the bitsize and bitpos of a line of that class's section
\* that the member's expression matches.
SectionsFromDump ==
  /\ \A k \in DOMAIN sections :
       \E a, b \in 1..Len(lines) : ClassText(k, a, b) /\ sections[k] = SubSeq(lines, a, b)
  /\ \A k \in DOMAIN found : \A m \in DOMAIN found[k] :
       \E j \in DOMAIN sections[k] :
         /\ Matches(sections[k][j], m)
         /\ found[k][m] = <<sections[k][j].bitsize, sections[k][j].bitpos>>

\* Where a class's members start in a thread object: sender_t at the
\* position the thread_t header gives it, the others at 0.
BaseOf(k) == IF k = "sender" THEN lines[HeaderAt("thread")].bitpos ELSE 0

\* When the script prints its defines, the define of every listed member
\* of a class carries the byte offset of the member the class declares
\* under that very name, in a thread object (lines 99-114 and 166-199).
OffsetsFaithful ==
  pc = "done" /\ exit = "ok" =>
    \A k \in Keys :
      LET B == BodyOf(k)
      IN  \A d \in DOMAIN B :
            B[d].k = "member" /\ B[d].name \in ToSet(ClassMembers[k]) =>
              \E r \in ToSet(out.blocks[k]) :
                /\ r.name = DefName(B[d].name)
                /\ r.val = (BaseOf(k) + B[d].bitpos) \div 8

\* The script ends: every loop of extract_sections and extract_members
\* moves line_nr forward or ends, so the script prints its defines or
\* stops with an error.
Terminates == <>(pc = "done")

\* No macro is printed twice with two different values: the header the
\* output is included into defines each OFS__THREAD__ name once.
DefinesUnique ==
  pc = "done" /\ exit = "ok" =>
    \A k1, k2 \in Keys : \A r1 \in ToSet(out.blocks[k1]), r2 \in ToSet(out.blocks[k2]) :
      r1.name = r2.name => r1.val = r2.val
=============================================================================

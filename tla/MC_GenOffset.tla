---------------------------- MODULE MC_GenOffset ----------------------------
(***************************************************************************)
(* Class dumps for the model checker.  The bodies declare the members of  *)
(* class_members in list order, one machine word (64 bits) apart, among  *)
(* lines the script must pass over: a method, a static member (no bitpos  *)
(* comment) and the close of a nested struct.                              *)
(***************************************************************************)
EXTENDS GenOffset

Marker(k, size, bitpos) == [k |-> "marker", sec |-> k, size |-> size, bitpos |-> bitpos]
Close == [k |-> "close"]
Other == [k |-> "other"]

\* A member line "    <type> <name>; /* bitsize 64, bitpos <pos> */".
Mem(type, name, pos) ==
  [k |-> "member", text |-> "    " \o type \o " " \o name, name |-> name,
   bitsize |-> 64, bitpos |-> pos]

\* The members of class k declared from bit position first on.
Decls(k, first) ==
  [i \in DOMAIN ClassMembers[k] |-> Mem("Mword", ClassMembers[k][i], first + 64 * (i - 1))]

Class(k, size, bitpos, first) ==
  <<Marker(k, size, bitpos), Other>> \o Decls(k, first) \o <<Other, Close>>

\* context_t at 0, receiver_t extends it, sender_t at bit 1600 of thread_t.
Good ==
  <<Other>> \o Class("context", 88, 0, 64) \o Class("receiver", 140, 0, 768)
  \o Class("sender", 40, 0, 64) \o Class("thread", 400, 1600, 1920)

\* The same classes in another order in the file.
Reordered ==
  Class("thread", 400, 1600, 1920) \o Class("sender", 40, 0, 64)
  \o Class("context", 88, 0, 64) \o Class("receiver", 140, 0, 768)

\* The file ends inside the body of thread_t.
Truncated == SubSeq(Good, 1, Len(Good) - 3)

\* sender_t is not in the dump.
NoSender ==
  Class("context", 88, 0, 64) \o Class("receiver", 140, 0, 768)
  \o Class("thread", 400, 1600, 1920)

\* receiver_t no longer declares _timeout.
NoTimeout ==
  Class("context", 88, 0, 64)
  \o <<Marker("receiver", 140, 0)>> \o SubSeq(Decls("receiver", 768), 1, 5)
  \o <<Close>>
  \o Class("sender", 40, 0, 64) \o Class("thread", 400, 1600, 1920)

MCDumps == {Good, Reordered, Truncated, NoSender, NoTimeout}

\* thread_t declares _idt_base before _idt.
IdtBase ==
  LET T == Decls("thread", 1920)
      at == CHOOSE i \in DOMAIN T : T[i].name = "_idt"
  IN  Class("context", 88, 0, 64) \o Class("receiver", 140, 0, 768)
      \o Class("sender", 40, 0, 64)
      \o <<Marker("thread", 400, 1600)>> \o SubSeq(T, 1, at - 1)
      \o <<Mem("Mword", "_idt_base", 4000)>> \o SubSeq(T, at, Len(T)) \o <<Close>>

PrefixDumps == {IdtBase}

\* Only the well-formed dump.
GoodDumps == {Good}
=============================================================================

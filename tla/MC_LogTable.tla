---------------------------- MODULE MC_LogTable ----------------------------
(***************************************************************************)
(* Images for the model checker.  Strings are written with the code       *)
(* points of their characters; an entry of _log_table points at           *)
(* "fullname\0tag\0".                                                      *)
(***************************************************************************)
EXTENDS LogTable

\* Characters used by the tags and names below.
chA == 65  chK == 75  chS == 83  chZ == 90
che == 101 chg == 103 chk == 107 chp == 112 chf == 102 cht == 116
chy == 121 chs == 115

\* The bytes a Tb_log_table_entry's name points at.
Entry(fn, tag) == fn \o <<NUL>> \o tag \o <<NUL>>

TagKe == <<chk, che>>
TagPf == <<chp, chf>>
TagKSpE == <<chk, SP, che>>
TagKUsE == <<chk, US, che>>
TagGet == <<chg, che, cht>>
TagKeys == <<chk, che, chy, chs>>

\* Two kernels built from the same source (same events, listed in another
\* order), one whose event is tagged "get", one without the table
\* symbols, and one with a tag containing a space.  The names sort in the
\* other order than the tags.
ImgA == [syms |-> TRUE, table |-> <<Entry(<<chZ>>, TagKe), Entry(<<chA>>, TagPf)>>]
ImgB == [syms |-> TRUE, table |-> <<Entry(<<chA>>, TagPf), Entry(<<chZ>>, TagKe)>>]
ImgGet == [syms |-> TRUE, table |-> <<Entry(<<chA>>, TagPf), Entry(<<chK>>, TagGet)>>]
ImgStripped == [syms |-> FALSE, table |-> <<>>]
ImgSpace == [syms |-> TRUE, table |-> <<Entry(<<chS>>, TagKSpE)>>]

MCImages == {ImgA, ImgB, ImgGet, ImgStripped, ImgSpace}
MCDictAttrs == {TagGet, TagKeys}

\* A second build whose "ke" event has another name.
ImgRenamed == [syms |-> TRUE, table |-> <<Entry(<<chK>>, TagKe)>>]
MismatchImages == {ImgA, ImgRenamed}

=============================================================================

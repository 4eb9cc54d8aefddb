------------------------------ MODULE LogTable ------------------------------
(***************************************************************************)
(* The gdb command fiasco-libftbuf-gen (class Log_table in                 *)
(* src/tool/gdb/fiasco_gdb_util.py).  For every image file named on the    *)
(* command line it loads the image, walks the kernel's _log_table (one     *)
(* Tb_log_table_entry per dynamic trace event, whose name points at the   *)
(* bytes "fullname\0tag\0"), and records tag -> fullname in the dict db.   *)
(* It then writes the enum of dynamic events (kernel_inc.h) and the name   *)
(* table (data_inc.c) of libftbuf, both in sorted tag order.               *)
(*                                                                         *)
(* Strings are sequences of code points, so that Python's sorted(), the    *)
(* replace(" ", "_") of the enum and the NUL-terminated reading of the     *)
(* image's bytes are modelled by what they do.  db is a class attribute:   *)
(* it survives from one invocation to the next in one gdb session.         *)
(***************************************************************************)
EXTENDS Naturals, Sequences, SequencesExt, Functions, TLC

CONSTANTS
  Images,          \* the image files that may be named on the command line
  DictAttrs,       \* the attribute names of a Python dict (hasattr(db, s))
  EnvSet,          \* whether LIBFTBUF_BASE_DIR may be set when written
  MaxArgs,         \* the most image files on one command line
  MaxInvocations   \* how often the command is typed in one session

Chars == 0..127
NUL == 0
SP == 32
US == 95

\* An image: whether "info address" finds _log_table and _log_table_end,
\* and the bytes each entry's name field points at, in address order.
ImageRecs == [syms : BOOLEAN, table : Seq(Seq(Chars))]

ASSUME ImagesAssumption ==
  /\ Images \subseteq ImageRecs
  /\ \A im \in Images : \A i \in DOMAIN im.table :
       Cardinality({j \in DOMAIN im.table[i] : im.table[i][j] = NUL}) >= 2

ASSUME ConstAssumption ==
  /\ DictAttrs \subseteq Seq(Chars)
  /\ EnvSet \subseteq BOOLEAN /\ EnvSet # {}
  /\ MaxArgs \in Nat /\ MaxInvocations \in Nat
-----------------------------------------------------------------------------
(* Strings *)

\* s.string(): the characters up to the first NUL.
CString(s) == SubSeq(s, 1, SelectInSeq(s, LAMBDA c : c = NUL) - 1)

\* The while loop of lines 95-99 steps the pointer past the first NUL;
\* tag.string() reads from there.
AfterNul(s) == SubSeq(s, SelectInSeq(s, LAMBDA c : c = NUL) + 1, Len(s))

\* Python's order on str: code point by code point, a proper prefix first.
StrLess(s, t) ==
  \/ IsStrictPrefix(s, t)
  \/ \E i \in 1..Len(s) :
       /\ i <= Len(t)
       /\ SubSeq(s, 1, i - 1) = SubSeq(t, 1, i - 1)
       /\ s[i] < t[i]

\* sorted(self.db.keys())
SortedKeys(d) == SetToSortSeq(DOMAIN d, StrLess)

\* self.db[tag_s] = fn_s (line 108)
Bind(d, tag, fn) == [k \in DOMAIN d \cup {tag} |-> IF k = tag THEN fn ELSE d[k]]

\* k.replace(" ", "_")
Underscored(k) == ReplaceAll(k, SP, US)
-----------------------------------------------------------------------------
VARIABLES
  db,      \* Log_table.db: tag -> fullname
  pc,      \* "idle", or the part of invoke running
  argv,    \* the image files of the running invocation
  todo,    \* the files query_one has still to process
  img,     \* the image gdb has loaded
  idx,     \* the entry of _log_table the loop of line 91 reads next
  hdr,     \* kernel_inc.h: the enumerators Ftbuf_event_<k>, in order
  rows,    \* data_inc.c: the { "name", "tag" } rows, in order
  err,     \* how the last invocation ended ("none" or the error)
  runs     \* invocations so far

vars == <<db, pc, argv, todo, img, idx, hdr, rows, err, runs>>

Init ==
  /\ db = <<>>
  /\ pc = "idle"
  /\ argv = <<>>
  /\ todo = <<>>
  /\ img \in Images
  /\ idx = 0
  /\ hdr = <<>>
  /\ rows = <<>>
  /\ err = "none"
  /\ runs = 0

\* A gdb.GdbError (or a Python exception) ends the command; db keeps what
\* it holds.
Raise(e) == pc' = "idle" /\ err' = e

\* The user loads another image with gdb's "file" between invocations.
LoadFile ==
  /\ pc = "idle"
  /\ img' \in Images
  /\ UNCHANGED <<db, pc, argv, todo, idx, hdr, rows, err, runs>>

\* invoke with at least one image file (lines 64-70).
Invoke ==
  /\ pc = "idle" /\ runs < MaxInvocations
  /\ \E a \in BoundedSeq(Images, MaxArgs) :
       /\ a # <<>>
       /\ argv' = a /\ todo' = a
  /\ pc' = "query" /\ err' = "none" /\ runs' = runs + 1
  /\ UNCHANGED <<db, img, idx, hdr, rows>>

\* invoke with no image file raises (lines 66-67).
InvokeNoArgs ==
  /\ pc = "idle" /\ runs < MaxInvocations
  /\ Raise("usage") /\ runs' = runs + 1
  /\ UNCHANGED <<db, argv, todo, img, idx, hdr, rows>>

\* query_one: gdb loads the file and finds both table symbols (74-91).
QueryOne ==
  /\ pc = "query" /\ todo # <<>>
  /\ img' = Head(todo) /\ img'.syms
  /\ todo' = Tail(todo) /\ idx' = 1 /\ pc' = "entry"
  /\ UNCHANGED <<db, argv, hdr, rows, err, runs>>

\* query_one: one of the two symbols is missing (lines 84-85).  The file
\* is loaded all the same.
QueryOneNoTable ==
  /\ pc = "query" /\ todo # <<>>
  /\ img' = Head(todo) /\ ~img'.syms
  /\ Raise("notable")
  /\ UNCHANGED <<db, argv, todo, idx, hdr, rows, runs>>

\* The check of line 104: hasattr() asks for an attribute of the dict, not
\* a key, so it holds only for tags such as "keys" or "get"; self.db[tag_s]
\* then raises KeyError for a tag not yet in db.
Rejects(tag, fn) ==
  tag \in DictAttrs /\ (IF tag \in DOMAIN db THEN db[tag] # fn ELSE TRUE)

\* One iteration of the loop of lines 91-108 that stores tag -> fullname.
QueryEntry ==
  /\ pc = "entry" /\ idx <= Len(img.table)
  /\ LET e == img.table[idx]
         tag == CString(AfterNul(e))
         fn == CString(e)
     IN  /\ ~Rejects(tag, fn)
         /\ db' = Bind(db, tag, fn)
  /\ idx' = idx + 1
  /\ UNCHANGED <<pc, argv, todo, img, hdr, rows, err, runs>>

\* The same iteration when the check of line 104 raises: KeyError from
\* self.db[tag_s], or the Mismatch error of lines 105-106.
QueryEntryRaise ==
  /\ pc = "entry" /\ idx <= Len(img.table)
  /\ LET e == img.table[idx]
         tag == CString(AfterNul(e))
     IN  /\ Rejects(tag, CString(e))
         /\ Raise(IF tag \in DOMAIN db THEN "mismatch" ELSE "keyerror")
  /\ UNCHANGED <<db, argv, todo, img, idx, hdr, rows, runs>>

\* Variant of QueryOneDone that leaves the loop one entry early.
QueryOneDoneEarly ==
  /\ pc = "entry" /\ idx + 1 > Len(img.table)
  /\ pc' = "query"
  /\ UNCHANGED <<db, argv, todo, img, idx, hdr, rows, err, runs>>

\* The loop over range(log_table, log_table_end, sizeof) has ended.
QueryOneDone ==
  /\ pc = "entry" /\ idx > Len(img.table)
  /\ pc' = "query"
  /\ UNCHANGED <<db, argv, todo, img, idx, hdr, rows, err, runs>>

\* Variant of NameTable that lists the rows in the order of the names.
NameTableByName(d) ==
  LET ks == SetToSortSeq(DOMAIN d, LAMBDA s, t : StrLess(d[s], d[t]))
  IN  [i \in DOMAIN ks |-> <<d[ks[i]], ks[i]>>]

\* The rows of data_inc.c (lines 160-161).
NameTable(d) ==
  LET ks == SortedKeys(d) IN [i \in DOMAIN ks |-> <<d[ks[i]], ks[i]>>]

\* The enumerators of kernel_inc.h, after "Ftbuf_event_" (lines 140-146).
EnumTable(d) == [i \in DOMAIN SortedKeys(d) |-> Underscored(SortedKeys(d)[i])]

\* write_out with LIBFTBUF_BASE_DIR set writes both files (lines 110-162).
WriteOut ==
  /\ pc = "query" /\ todo = <<>>
  /\ TRUE \in EnvSet
  /\ hdr' = EnumTable(db) /\ rows' = NameTable(db)
  /\ pc' = "idle"
  /\ UNCHANGED <<db, argv, todo, img, idx, err, runs>>

\* write_out without LIBFTBUF_BASE_DIR raises (lines 111-113).
WriteOutNoEnv ==
  /\ pc = "query" /\ todo = <<>>
  /\ FALSE \in EnvSet
  /\ Raise("noenv")
  /\ UNCHANGED <<db, argv, todo, img, idx, hdr, rows, runs>>

Next ==
  \/ LoadFile \/ Invoke \/ InvokeNoArgs
  \/ QueryOne \/ QueryOneNoTable
  \/ QueryEntry \/ QueryEntryRaise \/ QueryOneDone
  \/ WriteOut \/ WriteOutNoEnv

Spec == Init /\ [][Next]_vars
-----------------------------------------------------------------------------
(* Properties *)

Str == Seq(Chars)
Errors == {"none", "usage", "notable", "keyerror", "mismatch", "noenv"}

TypeOK ==
  /\ DOMAIN db \subseteq Str /\ \A k \in DOMAIN db : db[k] \in Str
  /\ pc \in {"idle", "query", "entry"}
  /\ argv \in Seq(Images) /\ todo \in Seq(Images)
  /\ img \in Images
  /\ idx \in Nat
  /\ hdr \in Seq(Str) /\ rows \in Seq(Str \X Str)
  /\ err \in Errors
  /\ runs \in 0..MaxInvocations

\* The (fullname, tag) pairs of the entries of the images in a.
PairsOf(a) ==
  {<<CString(e), CString(AfterNul(e))>> :
     e \in UNION {ToSet(a[i].table) : i \in DOMAIN a}}

\* Every write of the two files lists exactly the events of the images
\* named on this command line, one row per tag: no event is dropped, none
\* comes from an earlier invocation, and an event two images name
\* differently never reaches the files (the Mismatch check, lines 104-106).
WrittenFromImages ==
  [][pc = "query" /\ pc' = "idle" /\ err' = "none" =>
       /\ ToSet(rows') = PairsOf(argv)
       /\ IsInjective([i \in DOMAIN rows' |-> rows'[i][2]])]_vars

\* The two files agree position by position: the i-th enumerator of
\* kernel_inc.h is the tag of the i-th row of data_inc.c with its spaces
\* underscored, since both loops of write_out run over
\* sorted(self.db.keys()) of one db (lines 140-161).
EnumAligned ==
  /\ DOMAIN hdr = DOMAIN rows
  /\ \A i \in DOMAIN hdr : hdr[i] = Underscored(rows[i][2])

\* The tags of the entries of the images in a.
TagsOf(a) ==
  {CString(AfterNul(e)) : e \in UNION {ToSet(a[i].table) : i \in DOMAIN a}}

\* Every write of the two files has a row for every event of every image
\* named on this command line, in every invocation of a gdb session,
\* whatever an earlier invocation left in db and however it ended: the
\* loop of line 91 visits every entry of _log_table up to log_table_end,
\* every file of argv is queried before write_out, and any error on the
\* way (missing symbols, KeyError, Mismatch) stops the command before
\* the files are written (lines 64-108).
WrittenCoversImages ==
  [][WriteOut =>
       TagsOf(argv) \subseteq {rows'[i][2] : i \in DOMAIN rows'}]_vars

=============================================================================

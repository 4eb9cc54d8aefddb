-------------------------- MODULE LogTableProofs ---------------------------
(***************************************************************************)
(* Proofs about LogTable, for every set of images, every set of dict      *)
(* attribute names, every bound on the command line and every number of   *)
(* invocations:                                                            *)
(*   - Aligned: kernel_inc.h and data_inc.c always agree position by       *)
(*     position (EnumAligned);                                             *)
(*   - CoversAtWrite: every write happens with every entry of every image *)
(*     of the command line in db (WriteCovers).                            *)
(***************************************************************************)
EXTENDS LogTable, SequenceTheorems, TLAPS

-----------------------------------------------------------------------------
(* EnumAligned *)

\* Both files are written in one step from one list of sorted keys.
LEMMA WriteOutAligned ==
  ASSUME NEW d
  PROVE  /\ DOMAIN EnumTable(d) = DOMAIN NameTable(d)
         /\ \A i \in DOMAIN EnumTable(d) :
              EnumTable(d)[i] = Underscored(NameTable(d)[i][2])
BY DEF EnumTable, NameTable

LEMMA AlignedStep == EnumAligned /\ [Next]_vars => EnumAligned'
<1> SUFFICES ASSUME EnumAligned, [Next]_vars PROVE EnumAligned'
  OBVIOUS
<1>1. CASE WriteOut
  <2>1. hdr' = EnumTable(db) /\ rows' = NameTable(db)
    BY <1>1 DEF WriteOut
  <2>. QED BY <2>1, WriteOutAligned DEF EnumAligned
<1>2. CASE ~WriteOut
  <2>1. UNCHANGED <<hdr, rows>>
    BY <1>2 DEF Next, vars, LoadFile, Invoke, InvokeNoArgs, QueryOne,
                QueryOneNoTable, QueryEntry, QueryEntryRaise, QueryOneDone,
                WriteOutNoEnv, Raise
  <2>. QED BY <2>1 DEF EnumAligned
<1>. QED BY <1>1, <1>2

\* libftbuf finds the name of every dynamic event the enum numbers: the
\* i-th enumerator of kernel_inc.h and the i-th row of data_inc.c are
\* the same event, for every db write_out ever writes (lines 140-161).
THEOREM Aligned == Spec => []EnumAligned
<1>1. Init => EnumAligned
  BY DEF Init, EnumAligned
<1>. QED BY <1>1, AlignedStep, PTL DEF Spec
-----------------------------------------------------------------------------
(* Every image of the command line is in db when the files are written *)

\* All entries of image im have their tag as a key of d.
Covered(d, im) ==
  \A j \in 1 .. Len(im.table) : CString(AfterNul(im.table[j])) \in DOMAIN d

\* Every write of the two files happens with a db that has a key for the
\* tag of every entry of every image named on this command line: the loop
\* of line 91 visits every entry, query_one runs for every file of argv
\* before write_out, and an error on the way stops the command (lines
\* 64-108).  With EnumAligned and the sorted keys this is the part of
\* WrittenCoversImages that does not depend on how sorted() orders.
WriteCovers ==
  [][WriteOut => \A i \in 1 .. Len(argv) : Covered(db, argv[i])]_vars

\* The loop state of invoke.  todo is the suffix of argv still to query;
\* every image before it is covered, except the one being queried, of
\* which the entries before idx are.  It is needed because WriteCovers
\* talks about argv and db only, and query_one fills db one entry at a
\* time from the image gdb has loaded.
CInv ==
  /\ argv \in Seq(Images) /\ todo \in Seq(Images) /\ img \in Images
  /\ idx \in Nat /\ pc \in {"idle", "query", "entry"}
  /\ pc \in {"query", "entry"} =>
       /\ Len(todo) <= Len(argv)
       /\ \A i \in 1 .. Len(todo) : todo[i] = argv[i + (Len(argv) - Len(todo))]
  /\ pc = "query" => \A i \in 1 .. (Len(argv) - Len(todo)) : Covered(db, argv[i])
  /\ pc = "entry" =>
       /\ Len(todo) < Len(argv)
       /\ img = argv[Len(argv) - Len(todo)]
       /\ \A i \in 1 .. (Len(argv) - Len(todo) - 1) : Covered(db, argv[i])
       /\ idx \in 1 .. (Len(img.table) + 1)
       /\ \A j \in 1 .. (idx - 1) : CString(AfterNul(img.table[j])) \in DOMAIN db
\* A command line of images is a sequence of images.
LEMMA ArgsSeq ==
  ASSUME NEW a \in BoundedSeq(Images, MaxArgs)
  PROVE  a \in Seq(Images)
BY ConstAssumption DEF BoundedSeq, SeqOf

\* Keys are never removed from db, so a covered image stays covered.
LEMMA CoveredMono ==
  ASSUME NEW d, NEW d2, DOMAIN d \subseteq DOMAIN d2, NEW im, Covered(d, im)
  PROVE  Covered(d2, im)
BY DEF Covered

\* The entry loop has passed the last entry: the image is covered.
LEMMA CoveredDone ==
  ASSUME NEW d, NEW im, NEW n \in 1 .. (Len(im.table) + 1), n > Len(im.table),
         \A j \in 1 .. (n - 1) : CString(AfterNul(im.table[j])) \in DOMAIN d
  PROVE  Covered(d, im)
BY DEF Covered

LEMMA InitCInv == Init => CInv
BY DEF Init, CInv

\* A step into idle that keeps argv, todo and idx, and loads an image.
LEMMA IdleCInv ==
  ASSUME CInv, pc' = "idle", UNCHANGED <<argv, todo, idx>>, img' \in Images
  PROVE  CInv'
BY DEF CInv

LEMMA InvokeCInv == CInv /\ Invoke => CInv'
<1> SUFFICES ASSUME CInv, Invoke PROVE CInv'
  OBVIOUS
<1>1. PICK a \in BoundedSeq(Images, MaxArgs) : argv' = a /\ todo' = a
  BY DEF Invoke
<1>2. a \in Seq(Images)
  BY ArgsSeq
<1>. QED BY <1>1, <1>2 DEF Invoke, CInv

\* query_one takes the next file of argv (lines 74-91).
LEMMA QueryOneCInv == CInv /\ QueryOne => CInv'
<1> SUFFICES ASSUME CInv, QueryOne PROVE CInv'
  OBVIOUS
<1>1. /\ pc = "query" /\ todo # <<>> /\ todo \in Seq(Images)
      /\ img' = Head(todo) /\ todo' = Tail(todo) /\ idx' = 1 /\ pc' = "entry"
      /\ UNCHANGED <<db, argv>>
  BY DEF QueryOne, CInv
<1>2. /\ Head(todo) \in Images /\ Tail(todo) \in Seq(Images)
      /\ Len(Tail(todo)) = Len(todo) - 1
      /\ \A i \in 1 .. Len(Tail(todo)) : Tail(todo)[i] = todo[i + 1]
  BY <1>1, HeadTailProperties
<1>3. Head(todo) = todo[1]
  BY <1>1
<1>. QED BY <1>1, <1>2, <1>3 DEF CInv

\* One entry of _log_table is stored (lines 91-108).
LEMMA QueryEntryCInv == CInv /\ QueryEntry => CInv'
<1> SUFFICES ASSUME CInv, QueryEntry PROVE CInv'
  OBVIOUS
<1>1. /\ UNCHANGED <<img, todo, pc, argv>> /\ idx' = idx + 1
      /\ pc = "entry" /\ idx <= Len(img.table)
  BY DEF QueryEntry
<1>2. PICK tag, fn : /\ tag = CString(AfterNul(img.table[idx]))
                     /\ db' = Bind(db, tag, fn)
  BY DEF QueryEntry
<1>3. db' = Bind(db, tag, fn)
  BY <1>2
<1>4. DOMAIN db' = DOMAIN db \cup {tag}
  BY <1>3 DEF Bind
<1>5. \A i \in 1 .. (Len(argv) - Len(todo) - 1) : Covered(db', argv[i])
  BY <1>1, <1>4, CoveredMono DEF CInv
<1>6. \A j \in 1 .. (idx' - 1) : CString(AfterNul(img.table[j])) \in DOMAIN db'
  BY <1>1, <1>2, <1>4 DEF CInv
<1>. QED BY <1>1, <1>5, <1>6 DEF CInv

\* The loop over _log_table has ended (line 91).
LEMMA QueryOneDoneCInv == CInv /\ QueryOneDone => CInv'
<1> SUFFICES ASSUME CInv, QueryOneDone PROVE CInv'
  OBVIOUS
<1>1. /\ pc = "entry" /\ idx > Len(img.table) /\ pc' = "query"
      /\ UNCHANGED <<db, argv, todo, img, idx>>
  BY DEF QueryOneDone
<1>2. Covered(db, img)
  BY <1>1, CoveredDone DEF CInv
<1>. QED BY <1>1, <1>2 DEF CInv

LEMMA CInvStep == CInv /\ [Next]_vars => CInv'
<1> SUFFICES ASSUME CInv, [Next]_vars PROVE CInv'
  OBVIOUS
<1>1. CASE Invoke
  BY <1>1, InvokeCInv
<1>2. CASE QueryOne
  BY <1>2, QueryOneCInv
<1>3. CASE QueryEntry
  BY <1>3, QueryEntryCInv
<1>4. CASE QueryOneDone
  BY <1>4, QueryOneDoneCInv
<1>5. CASE LoadFile
  BY <1>5 DEF LoadFile, CInv
<1>6. CASE QueryOneNoTable
  <2>1. todo \in Seq(Images) /\ todo # <<>>
    BY <1>6 DEF QueryOneNoTable, CInv
  <2>2. Head(todo) \in Images
    BY <2>1, HeadTailProperties
  <2>. QED BY <1>6, <2>2, IdleCInv DEF QueryOneNoTable, Raise
<1>7. CASE InvokeNoArgs
  BY <1>7, IdleCInv DEF InvokeNoArgs, Raise, CInv
<1>8. CASE QueryEntryRaise
  BY <1>8, IdleCInv DEF QueryEntryRaise, Raise, CInv
<1>9. CASE WriteOut
  BY <1>9, IdleCInv DEF WriteOut, CInv
<1>10. CASE WriteOutNoEnv
  BY <1>10, IdleCInv DEF WriteOutNoEnv, Raise, CInv
<1>11. CASE UNCHANGED vars
  BY <1>11 DEF vars, CInv, Covered
<1>. QED BY <1>1, <1>2, <1>3, <1>4, <1>5, <1>6, <1>7, <1>8, <1>9, <1>10,
              <1>11 DEF Next

\* write_out runs only after query_one has stored every entry of every
\* file of this command line, in every invocation of every session,
\* whatever earlier invocations and errors left in db (lines 64-108).
THEOREM CoversAtWrite == Spec => WriteCovers
<1>1. CInv /\ [Next]_vars => [WriteOut => \A i \in 1 .. Len(argv) : Covered(db, argv[i])]_vars
  <2> SUFFICES ASSUME CInv, WriteOut PROVE \A i \in 1 .. Len(argv) : Covered(db, argv[i])
    OBVIOUS
  <2>1. pc = "query" /\ todo = <<>>
    BY DEF WriteOut
  <2>. QED BY <2>1 DEF CInv
<1>. QED BY InitCInv, CInvStep, <1>1, PTL DEF Spec, WriteCovers
=============================================================================

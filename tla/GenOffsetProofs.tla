------------------------- MODULE GenOffsetProofs --------------------------
(***************************************************************************)
(* Proofs about GenOffset, for every dump the script may be given:         *)
(*   - SectionsCut: every reachable state satisfies SectionsFromDump, so   *)
(*     extract_sections cuts out exactly the text of each class, and       *)
(*     extract_members records for a member only what a line of that       *)
(*     class's section says.                                               *)
(***************************************************************************)
EXTENDS GenOffset, SequenceTheorems, FiniteSetTheorems, TLAPS

\* While the inner loop of extract_sections runs, curr_section holds the
\* lines from the header of class sk, at line a, up to the line before
\* line_nr, and none of them closes a class.
BodyFrom(a) ==
  /\ lines[a].k = "marker" /\ lines[a].sec = sk
  /\ \A i \in a + 1 .. ln - 1 : lines[i].k # "close"
  /\ cur = SubSeq(lines, a, ln - 1)

\* The inductive invariant behind SectionsFromDump.
IInv ==
  /\ TypeOK
  /\ pc \in {"scan", "body"} => DOMAIN found = {}
  /\ pc = "body" => \E a \in 1 .. ln - 1 : BodyFrom(a)
  /\ pc \in {"members", "search"} => DOMAIN sections = Keys
  /\ pc = "search" => sk \in DOMAIN found
  /\ SectionsFromDump
\* What the loops have not done yet.  A class not yet in section_keys is
\* not yet cut out, and the class being cut out is neither; a section
\* extract_members has still to visit has no entry in section_members.
Fresh ==
  /\ pc \in {"scan", "body"} => DOMAIN sections \cap keys = {}
  /\ pc = "body" => sk \notin DOMAIN sections /\ sk \notin keys
  /\ pc \in {"members", "search"} => pend \cap DOMAIN found = {}
-----------------------------------------------------------------------------
(* Lemmas *)

\* What a dict assignment leaves and changes.
LEMMA StoreFacts ==
  ASSUME NEW f, NEW key, NEW val
  PROVE  /\ DOMAIN Store(f, key, val) = DOMAIN f \cup {key}
         /\ Store(f, key, val)[key] = val
         /\ \A x \in DOMAIN f : x # key => Store(f, key, val)[x] = f[x]
BY DEF Store

\* The four classes make four keys.
LEMMA KeysCard == IsFiniteSet(Keys) /\ Cardinality(Keys) = 4
<1>1. IsFiniteSet({"context"}) /\ Cardinality({"context"}) = 1
  BY FS_Singleton
<1>2. IsFiniteSet({"context", "receiver"}) /\ Cardinality({"context", "receiver"}) = 2
  <2>. {"context", "receiver"} = {"context"} \cup {"receiver"} OBVIOUS
  <2>. QED BY <1>1, FS_AddElement
<1>3. IsFiniteSet({"context", "receiver", "sender"})
      /\ Cardinality({"context", "receiver", "sender"}) = 3
  <2>. {"context", "receiver", "sender"} = {"context", "receiver"} \cup {"sender"} OBVIOUS
  <2>. QED BY <1>2, FS_AddElement
<1>4. Keys = {"context", "receiver", "sender"} \cup {"thread"}
  BY DEF Keys
<1>. QED BY <1>3, <1>4, FS_AddElement

\* A set of keys of the size of Keys is Keys.
LEMMA AllKeys ==
  ASSUME NEW T \in SUBSET Keys, Cardinality(T) = 4
  PROVE  T = Keys
BY KeysCard, FS_Subset

\* The slice of one element.
LEMMA SubSeqOne ==
  ASSUME NEW S, NEW s \in Seq(S), NEW i \in 1 .. Len(s)
  PROVE  SubSeq(s, i, i) = <<s[i]>>
<1>1. SubSeq(s, i, i) = SubSeq(s, i, i - 1) \o <<s[i]>>
  BY SubSeqRecursiveSecond
<1>2. SubSeq(s, i, i - 1) = <<>>
  BY SubSeqEmpty
<1>3. <<s[i]>> \in Seq(S)
  OBVIOUS
<1>. QED BY <1>1, <1>2, <1>3, ConcatEmptySeq

\* Appending the next element to a slice extends the slice by one.
LEMMA SubSeqExtend ==
  ASSUME NEW S, NEW s \in Seq(S), NEW a \in 1 .. Len(s), NEW n \in a .. Len(s)
  PROVE  Append(SubSeq(s, a, n - 1), s[n]) = SubSeq(s, a, n)
<1>1. SubSeq(s, a, n - 1) \in Seq(S)
  BY SubSeqProperties
<1>2. Append(SubSeq(s, a, n - 1), s[n]) = SubSeq(s, a, n - 1) \o <<s[n]>>
  BY <1>1, AppendIsConcat
<1>. QED BY <1>2, SubSeqRecursiveSecond

\* The field a header line carries.
LEMMA MarkerSec ==
  ASSUME NEW l \in LineRecs, l.k = "marker"
  PROVE  l.sec \in Keys
BY DEF LineRecs

\* Its first half reads only the dump and sections.
LEMMA ClassesUnchanged ==
  ASSUME SectionsFromDump, UNCHANGED <<lines, sections>>
  PROVE  \A k \in DOMAIN sections' :
           \E a, b \in 1 .. Len(lines') :
             ClassText(k, a, b)' /\ sections'[k] = SubSeq(lines', a, b)
BY DEF SectionsFromDump, ClassText

\* SectionsFromDump reads only the dump, sections and section_members.
LEMMA SectionsUnchanged ==
  ASSUME SectionsFromDump, UNCHANGED <<lines, sections, found>>
  PROVE  SectionsFromDump'
BY DEF SectionsFromDump, ClassText
-----------------------------------------------------------------------------
(* The invariant *)

LEMMA InitIInv == Init => IInv
<1> SUFFICES ASSUME Init PROVE IInv
  OBVIOUS
<1>1. TypeOK
  BY DumpsAssumption DEF Init, TypeOK, Keys
<1>2. DOMAIN sections = {} /\ DOMAIN found = {}
  BY DEF Init
<1>. QED BY <1>1, <1>2 DEF IInv, SectionsFromDump, Init

LEMMA NextIInv == IInv /\ [Next]_vars => IInv'
<1> SUFFICES ASSUME IInv, [Next]_vars PROVE IInv'
  OBVIOUS
<1>0. /\ TypeOK
      /\ pc \in {"scan", "body"} => DOMAIN found = {}
      /\ pc = "body" => \E a \in 1 .. ln - 1 : BodyFrom(a)
      /\ pc \in {"members", "search"} => DOMAIN sections = Keys
      /\ pc = "search" => sk \in DOMAIN found
      /\ SectionsFromDump
  BY DEF IInv
<1>1. CASE ScanOther
  <2>1. TypeOK'
    BY <1>0, <1>1 DEF ScanOther, TypeOK
  <2>2. SectionsFromDump'
    BY <1>0, <1>1, SectionsUnchanged DEF ScanOther
  <2>. QED BY <1>0, <1>1, <2>1, <2>2 DEF ScanOther, IInv
<1>2. CASE ScanMarker
  <2>1. lines \in Seq(LineRecs) /\ ln \in 1 .. Len(lines) /\ lines[ln] \in LineRecs
    BY <1>0, <1>2 DEF ScanMarker, TypeOK
  <2>2. lines[ln].sec \in Keys
    BY <2>1, <1>2, MarkerSec DEF ScanMarker, IsMarker
  <2>3. <<lines[ln]>> = SubSeq(lines, ln, ln)
    BY <2>1, SubSeqOne
  <2>4. TypeOK'
    BY <1>0, <1>2, <2>1, <2>2 DEF ScanMarker, TypeOK
  <2>5. /\ lines'[ln].k = "marker" /\ lines'[ln].sec = sk'
        /\ \A i \in ln + 1 .. ln' - 1 : lines'[i].k # "close"
        /\ cur' = SubSeq(lines', ln, ln' - 1)
    BY <1>2, <2>1, <2>3 DEF ScanMarker, IsMarker
  <2>6. \E a \in 1 .. ln' - 1 :
          /\ lines'[a].k = "marker" /\ lines'[a].sec = sk'
          /\ \A i \in a + 1 .. ln' - 1 : lines'[i].k # "close"
          /\ cur' = SubSeq(lines', a, ln' - 1)
    <3>1. ln \in 1 .. ln' - 1
      BY <1>2, <2>1 DEF ScanMarker
    <3>. QED BY <3>1, <2>5
  <2>8. (\E a \in 1 .. ln - 1 : BodyFrom(a))'
    BY <2>6 DEF BodyFrom
  <2>7. SectionsFromDump'
    BY <1>0, <1>2, SectionsUnchanged DEF ScanMarker
  <2>. QED BY <1>0, <1>2, <2>4, <2>8, <2>7 DEF ScanMarker, IInv
<1>3. CASE BodyLine
  <2>1. PICK a \in 1 .. ln - 1 : BodyFrom(a)
    BY <1>0, <1>3 DEF BodyLine
  <2>2. /\ lines \in Seq(LineRecs) /\ ln \in 1 .. Len(lines)
        /\ a \in 1 .. Len(lines) /\ ln \in a .. Len(lines)
    BY <1>0, <1>3 DEF TypeOK, BodyLine
  <2>3. Append(SubSeq(lines, a, ln - 1), lines[ln]) = SubSeq(lines, a, ln)
    BY <2>2, SubSeqExtend
  <2>4. /\ lines'[a].k = "marker" /\ lines'[a].sec = sk'
        /\ \A i \in a + 1 .. ln' - 1 : lines'[i].k # "close"
        /\ cur' = SubSeq(lines', a, ln' - 1)
    <3>1. lines' = lines /\ sk' = sk /\ ln' = ln + 1 /\ cur' = Append(cur, lines[ln])
      BY <1>3 DEF BodyLine
    <3>2. lines'[a].k = "marker" /\ lines'[a].sec = sk'
      BY <2>1, <3>1 DEF BodyFrom
    <3>3. \A i \in a + 1 .. ln' - 1 : lines'[i].k # "close"
      BY <1>3, <2>1, <2>2, <3>1 DEF BodyFrom, BodyLine
    <3>4. cur' = SubSeq(lines', a, ln' - 1)
      BY <2>1, <2>2, <2>3, <3>1 DEF BodyFrom
    <3>. QED BY <3>2, <3>3, <3>4
  <2>8. \E a2 \in 1 .. ln' - 1 :
          /\ lines'[a2].k = "marker" /\ lines'[a2].sec = sk'
          /\ \A i \in a2 + 1 .. ln' - 1 : lines'[i].k # "close"
          /\ cur' = SubSeq(lines', a2, ln' - 1)
    <3>1. a \in 1 .. ln' - 1
      BY <1>3, <2>2 DEF BodyLine
    <3>. QED BY <3>1, <2>4
  <2>5. (\E a2 \in 1 .. ln - 1 : BodyFrom(a2))'
    BY <2>8 DEF BodyFrom
  <2>6. TypeOK'
    BY <1>0, <1>3, <2>2, AppendProperties DEF TypeOK, BodyLine
  <2>7. SectionsFromDump'
    BY <1>0, <1>3, SectionsUnchanged DEF BodyLine
  <2>. QED BY <1>0, <1>3, <2>5, <2>6, <2>7 DEF BodyLine, IInv
<1>4. CASE BodyClose
  <2>1. PICK a \in 1 .. ln - 1 : BodyFrom(a)
    BY <1>0, <1>4 DEF BodyClose
  <2>2. /\ lines \in Seq(LineRecs) /\ ln \in 1 .. Len(lines)
        /\ a \in 1 .. Len(lines) /\ ln \in a .. Len(lines)
    BY <1>0, <1>4 DEF TypeOK, BodyClose
  <2>3. Append(cur, lines[ln]) = SubSeq(lines, a, ln)
    BY <2>1, <2>2, SubSeqExtend DEF BodyFrom
  <2>4. ClassText(sk, a, ln)
    BY <1>4, <2>1, <2>2 DEF ClassText, BodyFrom, BodyClose
  <2>5. /\ DOMAIN sections' = DOMAIN sections \cup {sk}
        /\ sections'[sk] = SubSeq(lines, a, ln)
        /\ \A x \in DOMAIN sections : x # sk => sections'[x] = sections[x]
    BY <1>4, <2>3 DEF BodyClose, Store
  <2>6. SubSeq(lines, a, ln) \in Seq(LineRecs)
    BY <2>2, SubSeqProperties
  <2>7. TypeOK'
    <3>1. DOMAIN sections' \subseteq Keys
      BY <1>0, <2>5 DEF TypeOK
    <3>2. \A k \in DOMAIN sections' : sections'[k] \in Seq(LineRecs)
      BY <1>0, <2>5, <2>6 DEF TypeOK
    <3>. QED BY <1>0, <1>4, <3>1, <3>2 DEF TypeOK, BodyClose
  <2>8. DOMAIN found' = {}
    BY <1>0, <1>4 DEF BodyClose
  <2>9. SectionsFromDump'
    <3>1. ASSUME NEW k \in DOMAIN sections'
          PROVE  \E a2, b \in 1 .. Len(lines') :
                   ClassText(k, a2, b)' /\ sections'[k] = SubSeq(lines', a2, b)
      <4>1. CASE k = sk
        <5>1. ClassText(k, a, ln)' /\ lines' = lines /\ ln' = ln
          BY <1>4, <2>4, <4>1 DEF ClassText, BodyClose
        <5>2. a \in 1 .. Len(lines') /\ ln \in 1 .. Len(lines')
          BY <2>2, <5>1
        <5>3. sections'[k] = SubSeq(lines', a, ln)
          BY <2>5, <4>1, <5>1
        <5>. QED BY <5>1, <5>2, <5>3
      <4>2. CASE k # sk
        <5>1. k \in DOMAIN sections /\ sections'[k] = sections[k]
          BY <2>5, <4>2
        <5>2. PICK a2, b \in 1 .. Len(lines) :
                ClassText(k, a2, b) /\ sections[k] = SubSeq(lines, a2, b)
          BY <1>0, <5>1 DEF SectionsFromDump
        <5>3. ClassText(k, a2, b)' /\ lines' = lines
          BY <1>4, <5>2 DEF ClassText, BodyClose
        <5>. QED BY <5>1, <5>2, <5>3
      <4>. QED BY <4>1, <4>2
    <3>. QED BY <3>1, <2>8 DEF SectionsFromDump
  <2>. QED BY <1>0, <1>4, <2>7, <2>8, <2>9 DEF BodyClose, IInv
<1>5. CASE BodyPastEnd
  <2>1. TypeOK'
    BY <1>0, <1>5 DEF BodyPastEnd, Stop, TypeOK
  <2>2. SectionsFromDump'
    BY <1>0, <1>5, SectionsUnchanged DEF BodyPastEnd
  <2>. QED BY <1>0, <1>5, <2>1, <2>2 DEF BodyPastEnd, Stop, IInv
<1>6. CASE ScanEnd
  <2>1. DOMAIN sections = Keys
    BY <1>0, <1>6, AllKeys DEF ScanEnd, TypeOK
  <2>2. TypeOK'
    BY <1>0, <1>6 DEF ScanEnd, TypeOK
  <2>3. SectionsFromDump'
    BY <1>0, <1>6, SectionsUnchanged DEF ScanEnd
  <2>. QED BY <1>0, <1>6, <2>1, <2>2, <2>3 DEF ScanEnd, IInv
<1>7. CASE ScanEndMissing
  <2>1. TypeOK'
    BY <1>0, <1>7 DEF ScanEndMissing, Stop, TypeOK
  <2>2. SectionsFromDump'
    BY <1>0, <1>7, SectionsUnchanged DEF ScanEndMissing
  <2>. QED BY <1>0, <1>7, <2>1, <2>2 DEF ScanEndMissing, Stop, IInv
<1>8. CASE NextSection
  <2>1. PICK k \in pend : /\ sk' = k /\ pend' = pend \ {k}
                          /\ found' = Store(found, k, <<>>)
    BY <1>8 DEF NextSection
  <2>2. /\ DOMAIN found' = DOMAIN found \cup {k}
        /\ found'[k] = <<>>
        /\ \A x \in DOMAIN found : x # k => found'[x] = found[x]
    BY <2>1 DEF Store
  <2>3. TypeOK'
    BY <1>0, <1>8, <2>1, <2>2 DEF NextSection, TypeOK
  <2>4. SectionsFromDump'
    <3>1. ASSUME NEW k2 \in DOMAIN found', NEW m \in DOMAIN found'[k2]
          PROVE  \E j \in DOMAIN sections'[k2] :
                   /\ Matches(sections'[k2][j], m)
                   /\ found'[k2][m] = <<sections'[k2][j].bitsize, sections'[k2][j].bitpos>>
      <4>1. k2 # k
        BY <2>2, <3>1
      <4>2. k2 \in DOMAIN found /\ found'[k2] = found[k2]
        BY <2>2, <4>1
      <4>. QED BY <1>0, <1>8, <4>2 DEF SectionsFromDump, NextSection
    <3>2. \A k2 \in DOMAIN sections' :
            \E a, b \in 1 .. Len(lines') :
              ClassText(k2, a, b)' /\ sections'[k2] = SubSeq(lines', a, b)
      BY <1>0, <1>8, ClassesUnchanged DEF NextSection
    <3>. QED BY <3>1, <3>2 DEF SectionsFromDump
  <2>. QED BY <1>0, <1>8, <2>1, <2>2, <2>3, <2>4 DEF NextSection, IInv
<1>9. CASE SearchHit
  <2>1. /\ sk \in DOMAIN found /\ sk \in DOMAIN sections
        /\ sections[sk] \in Seq(LineRecs)
    BY <1>0, <1>9 DEF SearchHit, TypeOK
  <2>2. ln \in DOMAIN sections[sk]
    BY <1>0, <1>9, <2>1 DEF SearchHit, TypeOK
  <2>3. /\ DOMAIN found' = DOMAIN found
        /\ found'[sk] = Store(found[sk], ClassMembers[sk][mi],
                              <<sections[sk][ln].bitsize, sections[sk][ln].bitpos>>)
        /\ \A x \in DOMAIN found : x # sk => found'[x] = found[x]
    BY <1>9, <2>1 DEF SearchHit
  <2>4. /\ DOMAIN found'[sk] = DOMAIN found[sk] \cup {ClassMembers[sk][mi]}
        /\ found'[sk][ClassMembers[sk][mi]] =
             <<sections[sk][ln].bitsize, sections[sk][ln].bitpos>>
        /\ \A x \in DOMAIN found[sk] :
             x # ClassMembers[sk][mi] => found'[sk][x] = found[sk][x]
    BY <2>3 DEF Store
  <2>5. TypeOK'
    BY <1>0, <1>9, <2>3 DEF SearchHit, TypeOK
  <2>6. SectionsFromDump'
    <3>1. ASSUME NEW k \in DOMAIN found', NEW m \in DOMAIN found'[k]
          PROVE  \E j \in DOMAIN sections'[k] :
                   /\ Matches(sections'[k][j], m)
                   /\ found'[k][m] = <<sections'[k][j].bitsize, sections'[k][j].bitpos>>
      <4>1. CASE k = sk /\ m = ClassMembers[sk][mi]
        BY <1>9, <2>2, <2>4, <4>1 DEF SearchHit
      <4>2. CASE k = sk /\ m # ClassMembers[sk][mi]
        <5>1. m \in DOMAIN found[sk] /\ found'[sk][m] = found[sk][m]
          BY <2>4, <4>2
        <5>2. PICK j \in DOMAIN sections[sk] :
                /\ Matches(sections[sk][j], m)
                /\ found[sk][m] = <<sections[sk][j].bitsize, sections[sk][j].bitpos>>
          BY <1>0, <2>1, <5>1 DEF SectionsFromDump
        <5>3. sections' = sections
          BY <1>9 DEF SearchHit
        <5>. QED BY <4>2, <5>1, <5>2, <5>3
      <4>3. CASE k # sk
        <5>1. k \in DOMAIN found /\ found'[k] = found[k]
          BY <2>3, <4>3
        <5>2. PICK j \in DOMAIN sections[k] :
                /\ Matches(sections[k][j], m)
                /\ found[k][m] = <<sections[k][j].bitsize, sections[k][j].bitpos>>
          BY <1>0, <5>1 DEF SectionsFromDump
        <5>3. sections' = sections
          BY <1>9 DEF SearchHit
        <5>. QED BY <5>1, <5>2, <5>3
      <4>. QED BY <4>1, <4>2, <4>3, SMTT(30)
    <3>2. \A k \in DOMAIN sections' :
            \E a, b \in 1 .. Len(lines') :
              ClassText(k, a, b)' /\ sections'[k] = SubSeq(lines', a, b)
      BY <1>0, <1>9, ClassesUnchanged DEF SearchHit
    <3>. QED BY <3>1, <3>2 DEF SectionsFromDump
  <2>. QED BY <1>0, <1>9, <2>3, <2>5, <2>6 DEF SearchHit, IInv
<1>10. CASE SearchMiss
  <2>1. TypeOK'
    BY <1>0, <1>10 DEF SearchMiss, TypeOK
  <2>2. SectionsFromDump'
    BY <1>0, <1>10, SectionsUnchanged DEF SearchMiss
  <2>. QED BY <1>0, <1>10, <2>1, <2>2 DEF SearchMiss, IInv
<1>11. CASE SearchNotFound
  <2>1. TypeOK'
    BY <1>0, <1>11 DEF SearchNotFound, Stop, TypeOK
  <2>2. SectionsFromDump'
    BY <1>0, <1>11, SectionsUnchanged DEF SearchNotFound
  <2>. QED BY <1>0, <1>11, <2>1, <2>2 DEF SearchNotFound, Stop, IInv
<1>12. CASE SearchDone
  <2>1. TypeOK'
    BY <1>0, <1>12 DEF SearchDone, TypeOK
  <2>2. SectionsFromDump'
    BY <1>0, <1>12, SectionsUnchanged DEF SearchDone
  <2>. QED BY <1>0, <1>12, <2>1, <2>2 DEF SearchDone, IInv
<1>13. CASE Main
  <2>1. TypeOK'
    BY <1>0, <1>13 DEF Main, Stop, TypeOK
  <2>2. SectionsFromDump'
    BY <1>0, <1>13, SectionsUnchanged DEF Main
  <2>. QED BY <1>0, <1>13, <2>1, <2>2 DEF Main, Stop, IInv
<1>14. CASE UNCHANGED vars
  <2>1. TypeOK'
    BY <1>0, <1>14 DEF vars, TypeOK
  <2>2. SectionsFromDump'
    BY <1>0, <1>14, SectionsUnchanged DEF vars
  <2>3. (\E a \in 1 .. ln - 1 : BodyFrom(a))' = \E a \in 1 .. ln - 1 : BodyFrom(a)
    BY <1>14 DEF vars, BodyFrom
  <2>. QED BY <1>0, <1>14, <2>1, <2>2, <2>3 DEF vars, IInv
<1>. QED
  BY <1>1, <1>2, <1>3, <1>4, <1>5, <1>6, <1>7, <1>8, <1>9, <1>10,
     <1>11, <1>12, <1>13, <1>14, SMTT(30) DEF Next

\* extract_sections stores under each class key exactly the lines of that
\* class, from its header to the first "};" after it, for every dump
\* (lines 128-161); and extract_members records for a member only the
\* bitsize and bitpos of a line of that class's section its regular
\* expression matches (lines 97-113).
THEOREM SectionsCut == Spec => []SectionsFromDump
<1>1. IInv => SectionsFromDump
  BY DEF IInv
<1>. QED BY InitIInv, NextIInv, <1>1, PTL DEF Spec

-----------------------------------------------------------------------------
(* Refinement of GenOffsetAbs *)

LEMMA InitFresh == Init => Fresh
BY DEF Init, Fresh

LEMMA NextFresh == IInv /\ Fresh /\ [Next]_vars => Fresh'
<1> SUFFICES ASSUME IInv, Fresh, [Next]_vars PROVE Fresh'
  OBVIOUS
<1>0. TypeOK /\ (pc \in {"scan", "body"} => DOMAIN found = {})
  BY DEF IInv
<1>1. CASE ScanMarker
  <2>1. lines[ln].sec \in keys /\ sk' = lines[ln].sec
    BY <1>1 DEF ScanMarker, IsMarker
  <2>. QED BY <1>1, <2>1 DEF ScanMarker, Fresh
<1>2. CASE BodyClose
  <2>1. DOMAIN sections' = DOMAIN sections \cup {sk}
    BY <1>2 DEF BodyClose, Store
  <2>. QED BY <1>2, <2>1 DEF BodyClose, Fresh
<1>3. CASE ScanEnd
  BY <1>0, <1>3 DEF ScanEnd, Fresh
<1>4. CASE NextSection
  <2>1. PICK k \in pend : /\ pend' = pend \ {k}
                          /\ found' = Store(found, k, <<>>)
    BY <1>4 DEF NextSection
  <2>2. DOMAIN found' = DOMAIN found \cup {k}
    BY <2>1 DEF Store
  <2>. QED BY <1>4, <2>1, <2>2 DEF NextSection, Fresh
<1>5. CASE SearchHit
  <2>1. DOMAIN found' = DOMAIN found
    BY <1>5 DEF SearchHit
  <2>. QED BY <1>5, <2>1 DEF SearchHit, Fresh
<1>6. CASE \/ ScanOther \/ BodyLine \/ BodyPastEnd \/ ScanEndMissing
           \/ SearchMiss \/ SearchNotFound \/ SearchDone \/ Main
  BY <1>6 DEF ScanOther, BodyLine, BodyPastEnd, ScanEndMissing, SearchMiss,
              SearchNotFound, SearchDone, Main, Stop, Fresh
<1>7. CASE UNCHANGED vars
  BY <1>7 DEF vars, Fresh
<1>. QED BY <1>1, <1>2, <1>3, <1>4, <1>5, <1>6, <1>7 DEF Next

\* GenOffset's dict assignment is the abstract one.
LEMMA StorePut ==
  ASSUME NEW f, NEW key, NEW val
  PROVE  Store(f, key, val) = Abs!Put(f, key, val)
BY DEF Store, Abs!Put

LEMMA InitRefines == Init => Abs!Init
BY DEF Init, Abs!Init

LEMMA NextRefines == IInv /\ Fresh /\ [Next]_vars => [Abs!Next]_Abs!vars
<1> SUFFICES ASSUME IInv, Fresh, [Next]_vars PROVE [Abs!Next]_Abs!vars
  OBVIOUS
<1>0. /\ TypeOK
      /\ pc \in {"scan", "body"} => DOMAIN found = {}
      /\ pc = "body" => \E a \in 1 .. ln - 1 : BodyFrom(a)
      /\ pc \in {"members", "search"} => DOMAIN sections = Keys
      /\ pc = "search" => sk \in DOMAIN found
  BY DEF IInv
<1>1. CASE BodyClose
  <2>1. PICK a \in 1 .. ln - 1 : BodyFrom(a)
    BY <1>0, <1>1 DEF BodyClose
  <2>2. /\ lines \in Seq(LineRecs) /\ ln \in 1 .. Len(lines)
        /\ a \in 1 .. Len(lines) /\ ln \in a .. Len(lines)
    BY <1>0, <1>1 DEF TypeOK, BodyClose
  <2>3. Append(cur, lines[ln]) = SubSeq(lines, a, ln)
    BY <2>1, <2>2, SubSeqExtend DEF BodyFrom
  <2>4. Abs!Text(sk, a, ln)
    BY <1>1, <2>1, <2>2 DEF Abs!Text, BodyFrom, BodyClose
  <2>5. sections' = Abs!Put(sections, sk, SubSeq(lines, a, ln))
    BY <1>1, <2>3, StorePut DEF BodyClose
  <2>6. /\ pc # "done" /\ pc' # "done" /\ DOMAIN found = {}
        /\ sk \in Keys \ DOMAIN sections
        /\ UNCHANGED <<lines, found>>
    BY <1>0, <1>1 DEF BodyClose, TypeOK, Fresh
  <2>7. Abs!Cut(sk)
    BY <2>2, <2>4, <2>5, <2>6 DEF Abs!Cut
  <2>. QED BY <2>6, <2>7 DEF Abs!Next
<1>2. CASE NextSection
  <2>1. PICK k \in pend : /\ found' = Store(found, k, <<>>)
    BY <1>2 DEF NextSection
  <2>2. /\ pc # "done" /\ pc' # "done" /\ DOMAIN sections = Keys
        /\ k \in Keys \ DOMAIN found
        /\ UNCHANGED <<lines, sections>>
    BY <1>0, <1>2, <2>1 DEF NextSection, TypeOK, Fresh
  <2>3. Abs!Begin(k)
    BY <2>1, <2>2, StorePut DEF Abs!Begin
  <2>. QED BY <2>2, <2>3 DEF Abs!Next
<1>3. CASE SearchHit
  <2>1. /\ pc # "done" /\ pc' # "done" /\ sk \in DOMAIN found /\ sk \in Keys
        /\ mi \in 1 .. Len(ClassMembers[sk])
        /\ ln \in DOMAIN sections[sk]
        /\ UNCHANGED <<lines, sections>>
    BY <1>0, <1>3 DEF SearchHit, TypeOK
  <2>2. /\ Matches(sections[sk][ln], ClassMembers[sk][mi])
        /\ found' = [found EXCEPT ![sk] =
                       Abs!Put(@, ClassMembers[sk][mi],
                               <<sections[sk][ln].bitsize, sections[sk][ln].bitpos>>)]
    BY <1>3, StorePut DEF SearchHit
  <2>3. Abs!Record(sk, mi)
    BY <2>1, <2>2 DEF Abs!Record
  <2>. QED BY <2>1, <2>3 DEF Abs!Next
<1>4. CASE BodyPastEnd \/ ScanEndMissing \/ SearchNotFound \/ Main
  <2>1. pc # "done" /\ pc' = "done" /\ UNCHANGED <<lines, sections, found>>
    BY <1>4 DEF BodyPastEnd, ScanEndMissing, SearchNotFound, Main, Stop
  <2>. QED BY <2>1 DEF Abs!Next, Abs!Finish
<1>5. CASE \/ ScanOther \/ ScanMarker \/ BodyLine \/ ScanEnd \/ SearchMiss
           \/ SearchDone \/ UNCHANGED vars
  <2>1. UNCHANGED <<lines, sections, found>> /\ (pc' = "done") = (pc = "done")
    BY <1>5 DEF ScanOther, ScanMarker, BodyLine, ScanEnd, SearchMiss,
                SearchDone, vars
  <2>. QED BY <2>1 DEF Abs!vars
<1>. QED BY <1>1, <1>2, <1>3, <1>4, <1>5 DEF Next

\* The two extraction passes of genoffset.py implement GenOffsetAbs, for
\* every dump: every step of extract_sections and extract_members either
\* cuts out a class not cut before as its own text, begins a class not
\* searched before once all are cut, records a member from a matching
\* line of its class, ends the script, or leaves the extraction's state
\* alone (lines 91-161 and 178-199).
THEOREM Refines == Spec => AbsSpec
<1>1. Init => IInv /\ Fresh
  BY InitIInv, InitFresh
<1>2. IInv /\ Fresh /\ [Next]_vars => IInv' /\ Fresh'
  BY NextIInv, NextFresh
<1>. QED BY <1>1, <1>2, InitRefines, NextRefines, PTL DEF Spec, AbsSpec, Abs!Spec

=============================================================================

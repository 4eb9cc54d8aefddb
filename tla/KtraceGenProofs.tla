-------------------------- MODULE KtraceGenProofs --------------------------
(***************************************************************************)
(* Proofs about KtraceGen, for every set of binaries, every name order     *)
(* and every number of invocations:                                        *)
(*   - TypeCorrect: every reachable state satisfies TypeOK and StackOK;    *)
(*   - Declared: every reachable state satisfies DeclaredInv, so the       *)
(*     written ktrace_events.h declares every field type it uses.         *)
(***************************************************************************)
EXTENDS KtraceGen, SequenceTheorems, TLAPS

\* What a normalisation result (handle_type, handle_type_pointer) may be:
\* an error, or a name that is either registered under a converted name
\* or printed as the binary names it.
ResultOK(h) ==
  /\ h.err \in {"none", "lookup", "mismatch", "crash"}
  /\ h.reg \in BOOLEAN
  /\ h.err = "none" =>
       /\ h.reg => h.ty \in CNames /\ h.val \in TdVals
       /\ ~h.reg => h.ty \in PassThrough

\* The facts BinsAssumption gives about one type of one binary.
LEMMA TypeFacts ==
  ASSUME NEW b \in Bins, NEW t \in DOMAIN b.types
  PROVE  /\ t \in STRING
         /\ b.types[t] \in TypeRecs
         /\ b.types[t] \in AllTypes
         /\ DOMAIN b.types[t].fields = 1..Len(b.types[t].fields)
         /\ \A i \in DOMAIN b.types[t].fields :
              /\ b.types[t].fields[i] \in FieldRecs
              /\ b.types[t].fields[i].type \in DOMAIN b.types
         /\ b.types[t].code \in {"array", "ptr"} => b.types[t].target \in DOMAIN b.types
<1>1. b.types[t] \in TypeRecs /\ t \in STRING
  BY BinsAssumption
<1>2. b.types[t].fields \in Seq(FieldRecs)
  BY <1>1 DEF TypeRecs
<1>3. DOMAIN b.types[t].fields = 1..Len(b.types[t].fields)
  BY <1>2, LenProperties
<1>4. \A i \in DOMAIN b.types[t].fields : b.types[t].fields[i] \in FieldRecs
  BY <1>2, <1>3, ElementOfSeq
<1>5. b.types[t] \in AllTypes
  BY DEF AllTypes
<1>. QED
  BY <1>1, <1>3, <1>4, <1>5, BinsAssumption

\* handle_type returns an error, a registered converted name, or a name
\* printed unchanged.
LEMMA HandleTypeOK ==
  ASSUME bin \in Bins, NEW t, t \in DOMAIN bin.types
  PROVE  ResultOK(HandleType(t))
<1>. DEFINE T == Types[t]
<1>1. T \in AllTypes /\ T \in TypeRecs
  BY TypeFacts DEF Types
<1>2. ConvertNameToC(T) \in CNames
  BY <1>1 DEF CNames
<1>3. T.basic \in TdVals
  BY <1>1 DEF TdVals
<1>4. CASE T.name # <<>> /\ StrOf(T) \in DOMAIN KnownTypesMap
  <2>1. KnownTypesMap[StrOf(T)] \in TdVals
    BY <1>4 DEF TdVals
  <2>. QED
    BY <1>4, <1>2, <2>1 DEF HandleType, Result, ResultOK
<1>5. CASE ~(T.name # <<>> /\ StrOf(T) \in DOMAIN KnownTypesMap) /\ T.basic = StrOf(T)
  <2>1. StrOf(T) \in PassThrough
    BY <1>1, <1>5 DEF PassThrough
  <2>2. "char" \in PassThrough
    BY DEF PassThrough
  <2>. QED
    BY <1>5, <1>2, <1>3, <2>1, <2>2 DEF HandleType, Result, ResultOK
<1>6. CASE ~(T.name # <<>> /\ StrOf(T) \in DOMAIN KnownTypesMap) /\ T.basic # StrOf(T)
  <2>1. "char" \in PassThrough
    BY DEF PassThrough
  <2>. QED
    BY <1>2, <1>3, <1>6, <2>1 DEF HandleType, Result, ResultOK
<1>. QED
  BY <1>4, <1>5, <1>6

\* handle_type_pointer registers every pointee but void and char.
LEMMA HandleTypePointerOK ==
  ASSUME bin \in Bins, NEW t, t \in DOMAIN bin.types
  PROVE  ResultOK(HandleTypePointer(t))
<1>1. Types[t] \in AllTypes
  BY TypeFacts DEF Types
<1>2. ConvertNameToC(Types[t]) \in CNames /\ "void" \in TdVals
  BY <1>1 DEF CNames, TdVals
<1>3. {"void", "char"} \subseteq PassThrough
  BY DEF PassThrough
<1>. QED
  BY <1>2, <1>3 DEF HandleTypePointer, Result, ResultOK

\* The dispatch of print_members on a field's type code.
LEMMA FieldResultOK ==
  ASSUME bin \in Bins, NEW f, f.type \in DOMAIN bin.types
  PROVE  ResultOK(FieldResult(f))
<1>1. Types[f.type].code \in {"array", "ptr"} => Types[f.type].target \in DOMAIN Types
  BY TypeFacts DEF Types
<1>. QED
  BY <1>1, HandleTypeOK, HandleTypePointerOK DEF FieldResult, Types

-----------------------------------------------------------------------------
(* Frames, lines and the section buffers. *)

IInv == TypeOK /\ StackOK

\* A fresh print_members frame is well formed.
LEMMA NewFrameOK ==
  ASSUME bin \in Bins, NEW t, t \in DOMAIN bin.types, NEW pp \in BOOLEAN,
         NEW po \in BOOLEAN, NEW ind \in Nat
  PROVE  /\ NewFrame(t, pp, po, ind) \in Frames
         /\ NewFrame(t, pp, po, ind).t = t
         /\ NewFrame(t, pp, po, ind).rest = DOMAIN Types[t].fields
<1>1. DOMAIN Types[t].fields \subseteq Nat /\ t \in STRING
  BY TypeFacts DEF Types
<1>. QED
  BY <1>1 DEF NewFrame, Frames

\* printlog appends lines to the current section.
LEMMA EmitOK ==
  ASSUME buf \in [0..2 -> Seq(Lines)], sect \in 0..2, NEW ls \in Seq(Lines)
  PROVE  Emit(ls) \in [0..2 -> Seq(Lines)]
<1>1. buf[sect] \in Seq(Lines)
  OBVIOUS
<1>2. buf[sect] \o ls \in Seq(Lines)
  BY <1>1, ConcatProperties
<1>. QED
  BY <1>2 DEF Emit

\* The line constructors build lines.
LEMMA PadLineOK ==
  ASSUME NEW ind \in Nat, NEW role \in {"pre", "pad", "post"}, NEW idx \in Nat,
         NEW size \in Int
  PROVE  PadLine(ind, role, idx, size) \in Lines
<1>1. PadLine(ind, role, idx, size) \in
        [k : {"pad"}, ind : Nat, role : {"pre", "pad", "post"}, idx : Nat, size : Int]
  BY DEF PadLine
<1>. QED
  BY <1>1 DEF Lines

LEMMA OpenLineOK ==
  ASSUME NEW ind \in Nat, NEW code \in Codes, NEW off \in Int
  PROVE  OpenLine(ind, code, off) \in Lines
<1>1. OpenLine(ind, code, off) \in [k : {"open"}, ind : Nat, code : Codes, off : Int]
  BY DEF OpenLine
<1>. QED
  BY <1>1 DEF Lines

LEMMA CloseLineOK ==
  ASSUME NEW ind \in Nat, NEW name \in Tags, NEW off \in Int, NEW size \in Int
  PROVE  CloseLine(ind, name, off, size) \in Lines
<1>1. CloseLine(ind, name, off, size) \in
        [k : {"close"}, ind : Nat, name : Tags, off : Int, size : Int]
  BY DEF CloseLine
<1>. QED
  BY <1>1 DEF Lines

\* A one-element sequence.
LEMMA OneElem ==
  ASSUME NEW S, NEW l \in S
  PROVE  /\ <<l>> \in Seq(S)
         /\ Len(<<l>>) = 1
         /\ <<l>>[1] = l
<1>1. <<l>> = Append(<<>>, l)
  OBVIOUS
<1>2. <<>> \in Seq(S)
  BY EmptySeq
<1>. QED
  BY <1>1, <1>2, AppendProperties

LEMMA HeaderLinesOK ==
  [k |-> "header"] \in Lines /\ [k |-> "enum"] \in Lines
BY DEF Lines

\* A two-line sequence of lines.
LEMMA TwoLines ==
  ASSUME NEW l1 \in Lines, NEW l2 \in Lines
  PROVE  /\ <<l1, l2>> \in Seq(Lines)
         /\ Len(<<l1, l2>>) = 2
         /\ <<l1, l2>>[1] = l1 /\ <<l1, l2>>[2] = l2
<1>1. <<l1, l2>> = Append(<<l1>>, l2)
  OBVIOUS
<1>. QED
  BY <1>1, OneElem, AppendProperties

\* The padding before a field is padding only.
LEMMA PadBeforeOK ==
  ASSUME NEW fr \in Frames, NEW byteoff \in Int, bbs \in Int
  PROVE  /\ PadBefore(fr, byteoff) \in Seq(Lines)
         /\ \A i \in 1..Len(PadBefore(fr, byteoff)) : PadBefore(fr, byteoff)[i].k = "pad"
<1>1. /\ PadLine(fr.ind, "pre", 0, byteoff - bbs) \in Lines
      /\ PadLine(fr.ind, "pad", fr.padidx, byteoff - fr.cur) \in Lines
  BY PadLineOK DEF Frames
<1>2. /\ PadLine(fr.ind, "pre", 0, byteoff - bbs).k = "pad"
      /\ PadLine(fr.ind, "pad", fr.padidx, byteoff - fr.cur).k = "pad"
  BY DEF PadLine
<1>3. <<>> \in Seq(Lines) /\ Len(<<>>) = 0
  BY EmptySeq
<1>. QED
  BY <1>1, <1>2, <1>3, OneElem DEF PadBefore

\* The trailing padding of a full-size member is padding only.
LEMMA PostPadOK ==
  ASSUME NEW fr \in Frames, tbsize \in Nat
  PROVE  /\ PostPad(fr) \in Seq(Lines)
         /\ \A i \in 1..Len(PostPad(fr)) : PostPad(fr)[i].k = "pad"
<1>1. PadLine(fr.ind, "post", 0, tbsize - fr.behind) \in Lines
  BY PadLineOK DEF Frames
<1>2. PadLine(fr.ind, "post", 0, tbsize - fr.behind).k = "pad"
  BY DEF PadLine
<1>3. <<>> \in Seq(Lines) /\ Len(<<>>) = 0
  BY EmptySeq
<1>. QED
  BY <1>1, <1>2, <1>3, OneElem DEF PostPad

\* The padding step keeps a frame well formed and its walk position.
LEMMA AfterPadOK ==
  ASSUME NEW fr \in Frames, NEW byteoff \in Int
  PROVE  /\ AfterPad(fr, byteoff) \in Frames
         /\ AfterPad(fr, byteoff).t = fr.t
         /\ AfterPad(fr, byteoff).rest = fr.rest
         /\ AfterPad(fr, byteoff).ind = fr.ind
<1>1. fr = [t |-> fr.t, rest |-> fr.rest, prepad |-> fr.prepad,
            postpad |-> fr.postpad, ind |-> fr.ind, behind |-> fr.behind,
            padidx |-> fr.padidx, cur |-> fr.cur, at |-> fr.at]
  BY DEF Frames
<1>2. (IF ~fr.prepad /\ fr.cur < byteoff THEN fr.padidx + 1 ELSE fr.padidx) \in Nat
  BY DEF Frames
<1>. QED
  BY <1>1, <1>2 DEF AfterPad, Frames

\* What a state satisfying IInv says about the frame on top of a stack.
LEMMA TopOK ==
  ASSUME IInv, stack # <<>>
  PROVE  /\ Len(stack) \in Nat \ {0}
         /\ Top \in Frames
         /\ Top.t \in DOMAIN Types
         /\ Top.rest \subseteq DOMAIN Types[Top.t].fields
         /\ \A i \in Top.rest : /\ Fld(Top, i) \in FieldRecs
                                /\ Fld(Top, i).type \in DOMAIN Types
<1>1. Len(stack) \in Nat \ {0} /\ Top \in Frames
  BY EmptySeq, ElementOfSeq DEF IInv, TypeOK, Top
<1>2. Top.t \in DOMAIN Types /\ Top.rest \subseteq DOMAIN Types[Top.t].fields
  BY <1>1 DEF IInv, StackOK, Top
<1>. QED
  BY <1>1, <1>2, TypeFacts DEF IInv, TypeOK, Types, Fld

\* A raised error leaves the state well typed.
LEMMA FailOK ==
  ASSUME TypeOK, NEW kind \in Errors, NEW b \in [0..2 -> Seq(Lines)], Fail(kind, b),
         runs' \in Nat, UNCHANGED <<bin, sect, typedefs, bbs, tbsize, file>>
  PROVE  IInv'
BY EmptySeq DEF Fail, IInv, TypeOK, StackOK

-----------------------------------------------------------------------------
(* TypeOK and StackOK are inductive. *)

LEMMA InitIInv == Init => IInv
BY EmptySeq DEF Init, IInv, TypeOK, StackOK, Lines

LEMMA LoadFileIInv == IInv /\ LoadFile => IInv'
BY DEF LoadFile, IInv, TypeOK, StackOK

LEMMA StartGenIInv == IInv /\ StartGen => IInv'
<1>. SUFFICES ASSUME IInv, StartGen PROVE IInv'
  OBVIOUS
<1>1. "Tb_entry" \in DOMAIN Types
  BY BinsAssumption DEF IInv, TypeOK, Types
<1>. DEFINE fr == NewFrame("Tb_entry", FALSE, FALSE, 2)
<1>2. /\ stack' = <<fr>>
      /\ <<fr>> \in Seq(Frames) /\ Len(<<fr>>) = 1 /\ <<fr>>[1] = fr
      /\ fr.t = "Tb_entry"
      /\ fr.rest = DOMAIN Types["Tb_entry"].fields
  <2>1. fr \in Frames /\ fr.t = "Tb_entry" /\ fr.rest = DOMAIN Types["Tb_entry"].fields
    BY <1>1, NewFrameOK DEF IInv, TypeOK, Types
  <2>. QED
    BY <2>1, OneElem DEF StartGen
<1>3. buf' \in [0..2 -> Seq(Lines)]
  <2>1. Emit(<<[k |-> "header"], [k |-> "enum"]>>) \in [0..2 -> Seq(Lines)]
    BY HeaderLinesOK, TwoLines, EmitOK DEF IInv, TypeOK
  <2>. DEFINE b1 == Emit(<<[k |-> "header"], [k |-> "enum"]>>)
  <2>2. <<OpenLine(0, "struct", 0)>> \in Seq(Lines)
    BY OpenLineOK, OneElem DEF Codes
  <2>3. b1[2] \o <<OpenLine(0, "struct", 0)>> \in Seq(Lines)
    BY <2>1, <2>2, ConcatProperties
  <2>. QED
    BY <2>1, <2>3 DEF StartGen
<1>4. TypeOK'
  <2>1. todo' \in SUBSET DOMAIN Types'
    BY DEF StartGen, TbEntryClasses, Types
  <2>2. err' \in Errors /\ pc' \in {"idle", "base", "subs"}
    BY DEF StartGen, Errors
  <2>3. UNCHANGED <<bin, typedefs, bbs, file>>
    BY DEF StartGen
  <2>4. runs' \in Nat /\ sect' \in 0..2 /\ tbsize' \in Nat
    BY DEF StartGen, IInv, TypeOK
  <2>5. stack' \in Seq(Frames)
    BY <1>2
  <2>. QED
    BY <1>3, <2>1, <2>2, <2>3, <2>4, <2>5 DEF IInv, TypeOK, Types
<1>5. StackOK'
  <2>1. bin' = bin /\ pc' = "base"
    BY DEF StartGen
  <2>4. Types' = Types
    BY <2>1 DEF Types
  <2>5. stack'[1] = fr /\ Len(stack') = 1
    BY <1>2
  <2>2. \A n \in 1..Len(stack') :
          /\ stack'[n].t \in DOMAIN Types'
          /\ stack'[n].rest \subseteq DOMAIN Types'[stack'[n].t].fields
    <3>. SUFFICES ASSUME NEW n \in 1..Len(stack')
                  PROVE  /\ stack'[n].t \in DOMAIN Types'
                         /\ stack'[n].rest \subseteq DOMAIN Types'[stack'[n].t].fields
      OBVIOUS
    <3>1. n = 1
      BY <2>5
    <3>. QED
      BY <1>1, <1>2, <2>4, <2>5, <3>1, Zenon
  <2>3. \A n \in 1..(Len(stack') - 1) : stack'[n].at \in DOMAIN Types'[stack'[n].t].fields
    BY <1>2
  <2>. QED
    BY <2>1, <2>2, <2>3 DEF StackOK
<1>. QED
  BY <1>4, <1>5 DEF IInv

LEMMA StartGenNoEnumIInv == IInv /\ StartGenNoEnum => IInv'
<1>. SUFFICES ASSUME IInv, StartGenNoEnum PROVE IInv'
  OBVIOUS
<1>1. Emit(<<[k |-> "header"]>>) \in [0..2 -> Seq(Lines)]
  BY HeaderLinesOK, OneElem, EmitOK DEF IInv, TypeOK
<1>2. TypeOK /\ runs' \in Nat
  BY DEF IInv, TypeOK, StartGenNoEnum
<1>. QED
  BY <1>1, <1>2, FailOK DEF StartGenNoEnum, Errors

-----------------------------------------------------------------------------
(* The field walk. *)

\* The well-formedness of a stack of frames over the types ty.
FramesOK(s, ty) ==
  /\ \A n \in 1..Len(s) : /\ s[n].t \in DOMAIN ty
                          /\ s[n].rest \subseteq DOMAIN ty[s[n].t].fields
  /\ \A n \in 1..(Len(s) - 1) : s[n].at \in DOMAIN ty[s[n].t].fields

LEMMA MemLineOK ==
  ASSUME NEW ind \in Nat, NEW name \in STRING, NEW ty \in PassThrough \cup CNames,
         NEW ptr \in BOOLEAN, NEW count \in Nat, NEW off \in Int, NEW size \in Nat
  PROVE  MemLine(ind, name, ty, ptr, count, off, size) \in Lines
<1>1. MemLine(ind, name, ty, ptr, count, off, size) \in
        [k : {"mem"}, ind : Nat, name : STRING, ty : PassThrough \cup CNames,
         ptr : BOOLEAN, count : Nat, off : Int, size : Nat]
  BY DEF MemLine
<1>. QED
  BY <1>1 DEF Lines

\* The line printed for a field whose type normalised without error.
LEMMA FieldLineOK ==
  ASSUME bin \in Bins, NEW f \in FieldRecs, f.type \in DOMAIN bin.types,
         NEW h, ResultOK(h), h.err = "none", NEW ind \in Nat, NEW off \in Int
  PROVE  /\ FieldLine(ind, f, h, off) \in Lines
         /\ FieldLine(ind, f, h, off).k = "mem"
         /\ FieldLine(ind, f, h, off).ty = h.ty
<1>1. Types[f.type] \in TypeRecs
  BY TypeFacts DEF Types
<1>2. h.ty \in PassThrough \cup CNames
  BY DEF ResultOK
<1>3. (IF Types[f.type].code = "array" THEN Types[f.type].count ELSE 0) \in Nat
  BY <1>1 DEF TypeRecs
<1>4. f.name \in STRING /\ Types[f.type].size \in Nat
  BY <1>1 DEF FieldRecs, TypeRecs
<1>. QED
  BY <1>2, <1>3, <1>4, MemLineOK DEF FieldLine, MemLine

\* self.typedefs[name] = value keeps the table typed and only adds names.
LEMMA RegisterOK ==
  ASSUME NEW td, DOMAIN td \subseteq CNames, td \in [DOMAIN td -> TdVals],
         NEW h, ResultOK(h), h.err = "none"
  PROVE  /\ DOMAIN Register(td, h) \subseteq CNames
         /\ Register(td, h) \in [DOMAIN Register(td, h) -> TdVals]
         /\ DOMAIN td \subseteq DOMAIN Register(td, h)
         /\ h.reg => h.ty \in DOMAIN Register(td, h)
<1>1. CASE h.reg
  <2>1. h.ty \in CNames /\ h.val \in TdVals
    BY <1>1 DEF ResultOK
  <2>. QED
    BY <1>1, <2>1 DEF Register
<1>2. CASE ~h.reg
  BY <1>2 DEF Register
<1>. QED
  BY <1>1, <1>2

\* Replacing the top frame by one over the same type with fewer fields
\* left keeps the stack well formed.
LEMMA SetTopOK ==
  ASSUME IInv, stack # <<>>, NEW fr \in Frames, fr.t = Top.t, fr.rest \subseteq Top.rest
  PROVE  /\ SetTop(fr) \in Seq(Frames)
         /\ Len(SetTop(fr)) = Len(stack)
         /\ SetTop(fr)[Len(stack)] = fr
         /\ SetTop(fr)[1].t = stack[1].t
         /\ FramesOK(SetTop(fr), Types)
<1>1. stack \in Seq(Frames) /\ Len(stack) \in Nat \ {0}
  BY TopOK DEF IInv, TypeOK
<1>2. SetTop(fr) \in Seq(Frames) /\ Len(SetTop(fr)) = Len(stack)
  BY <1>1, ExceptSeq DEF SetTop
<1>3. \A n \in 1..Len(stack) :
        SetTop(fr)[n] = IF n = Len(stack) THEN fr ELSE stack[n]
  BY <1>1 DEF SetTop
<1>4. FramesOK(stack, Types)
  BY DEF IInv, StackOK, FramesOK
<1>5. Top.rest \subseteq DOMAIN Types[Top.t].fields
  BY TopOK
<1>. QED
  BY <1>1, <1>2, <1>3, <1>4, <1>5 DEF FramesOK, Top

\* A walk step that replaces the top frame keeps StackOK.
LEMMA WalkStepOK ==
  ASSUME IInv, stack # <<>>, NEW fr \in Frames, fr.t = Top.t, fr.rest \subseteq Top.rest,
         stack' = SetTop(fr), UNCHANGED <<bin, pc, todo>>
  PROVE  StackOK'
<1>1. Types' = Types
  BY DEF Types
<1>2. /\ FramesOK(stack', Types')
      /\ stack' # <<>>
      /\ stack'[1].t = stack[1].t
  BY <1>1, SetTopOK, EmptySeq, TopOK
<1>3. pc \in {"base", "subs"}
  BY DEF IInv, TypeOK, StackOK
<1>. QED
  BY <1>1, <1>2, <1>3, Zenon DEF IInv, StackOK, FramesOK

\* A frame with one field fewer left to walk.
LEMMA DropFieldOK ==
  ASSUME NEW fr \in Frames, NEW i
  PROVE  /\ [fr EXCEPT !.rest = @ \ {i}] \in Frames
         /\ [fr EXCEPT !.rest = @ \ {i}].t = fr.t
         /\ [fr EXCEPT !.rest = @ \ {i}].rest = fr.rest \ {i}
         /\ [fr EXCEPT !.rest = @ \ {i}].ind = fr.ind
<1>1. fr = [t |-> fr.t, rest |-> fr.rest, prepad |-> fr.prepad,
            postpad |-> fr.postpad, ind |-> fr.ind, behind |-> fr.behind,
            padidx |-> fr.padidx, cur |-> fr.cur, at |-> fr.at]
  BY DEF Frames
<1>. QED
  BY <1>1 DEF Frames

\* The stack and the variables a walk step leaves alone stay typed.
LEMMA WalkTypeOK ==
  ASSUME IInv, stack # <<>>, NEW fr \in Frames, fr.t = Top.t, fr.rest \subseteq Top.rest,
         stack' = SetTop(fr),
         UNCHANGED <<bin, pc, err, runs, todo, sect, bbs, tbsize, file>>,
         buf' \in [0..2 -> Seq(Lines)],
         DOMAIN typedefs' \subseteq CNames, typedefs' \in [DOMAIN typedefs' -> TdVals]
  PROVE  IInv'
<1>1. stack' \in Seq(Frames)
  BY SetTopOK
<1>2. TypeOK'
  BY <1>1 DEF IInv, TypeOK, Types
<1>3. StackOK'
  BY WalkStepOK
<1>. QED
  BY <1>2, <1>3 DEF IInv

LEMMA WalkSkipIInv == IInv /\ WalkSkip => IInv'
<1>. SUFFICES ASSUME IInv, WalkSkip PROVE IInv'
  OBVIOUS
<1>1. stack # <<>>
  BY DEF WalkSkip, Walking
<1>2. PICK i \in Top.rest : stack' = SetTop([Top EXCEPT !.rest = @ \ {i}])
  BY DEF WalkSkip
<1>3. Top \in Frames
  BY <1>1, TopOK
<1>4. /\ [Top EXCEPT !.rest = @ \ {i}] \in Frames
      /\ [Top EXCEPT !.rest = @ \ {i}].t = Top.t
      /\ [Top EXCEPT !.rest = @ \ {i}].rest \subseteq Top.rest
  BY <1>3, DropFieldOK
<1>5. UNCHANGED <<bin, pc, err, runs, todo, sect, buf, typedefs, bbs, tbsize, file>>
  BY DEF WalkSkip
<1>6. /\ buf' \in [0..2 -> Seq(Lines)]
      /\ DOMAIN typedefs' \subseteq CNames
      /\ typedefs' \in [DOMAIN typedefs' -> TdVals]
  BY <1>5 DEF IInv, TypeOK
<1>. QED
  BY <1>1, <1>2, <1>4, <1>5, <1>6, WalkTypeOK

LEMMA WalkBitfieldIInv == IInv /\ WalkBitfield => IInv'
<1>. SUFFICES ASSUME IInv, WalkBitfield PROVE IInv'
  OBVIOUS
<1>1. TypeOK /\ runs' \in Nat /\ buf \in [0..2 -> Seq(Lines)]
  BY DEF IInv, TypeOK, WalkBitfield
<1>. QED
  BY <1>1, FailOK DEF WalkBitfield, Errors

LEMMA FieldTypeErrorIInv == IInv /\ FieldTypeError => IInv'
<1>. SUFFICES ASSUME IInv, FieldTypeError PROVE IInv'
  OBVIOUS
<1>1. stack # <<>>
  BY DEF FieldTypeError, Walking
<1>2. PICK i \in Top.rest :
        /\ FieldResult(Fld(Top, i)).err # "none"
        /\ Fail(FieldResult(Fld(Top, i)).err,
                Emit(PadBefore(Top, Fld(Top, i).bitpos \div 8)))
  BY DEF FieldTypeError
<1>3. Top \in Frames /\ Fld(Top, i) \in FieldRecs /\ Fld(Top, i).type \in DOMAIN Types
  BY <1>1, TopOK
<1>4. ResultOK(FieldResult(Fld(Top, i)))
  BY <1>3, FieldResultOK DEF IInv, TypeOK, Types
<1>5. FieldResult(Fld(Top, i)).err \in Errors
  BY <1>2, <1>4 DEF ResultOK, Errors
<1>6. Emit(PadBefore(Top, Fld(Top, i).bitpos \div 8)) \in [0..2 -> Seq(Lines)]
  <2>1. Fld(Top, i).bitpos \div 8 \in Int
    BY <1>3 DEF FieldRecs
  <2>. QED
    BY <1>3, <2>1, PadBeforeOK, EmitOK DEF IInv, TypeOK
<1>7. TypeOK /\ runs' \in Nat
  BY DEF IInv, TypeOK, FieldTypeError
<1>. QED
  BY <1>2, <1>5, <1>6, <1>7, FailOK DEF FieldTypeError

\* The frame after a field is printed: the field is done, and the cursor
\* and behind_last_member move to its end.
LEMMA AdvanceOK ==
  ASSUME NEW fr \in Frames, NEW i, NEW e \in Int
  PROVE  /\ [fr EXCEPT !.rest = @ \ {i}, !.behind = e, !.cur = e] \in Frames
         /\ [fr EXCEPT !.rest = @ \ {i}, !.behind = e, !.cur = e].t = fr.t
         /\ [fr EXCEPT !.rest = @ \ {i}, !.behind = e, !.cur = e].rest = fr.rest \ {i}
<1>1. fr = [t |-> fr.t, rest |-> fr.rest, prepad |-> fr.prepad,
            postpad |-> fr.postpad, ind |-> fr.ind, behind |-> fr.behind,
            padidx |-> fr.padidx, cur |-> fr.cur, at |-> fr.at]
  BY DEF Frames
<1>. QED
  BY <1>1 DEF Frames

LEMMA EmitFieldIInv == IInv /\ EmitField => IInv'
<1>. SUFFICES ASSUME IInv, EmitField PROVE IInv'
  OBVIOUS
<1>. DEFINE F(j) == Fld(Top, j)
            Off(j) == F(j).bitpos \div 8
            H(j) == FieldResult(F(j))
            End(j) == Off(j) + Types[F(j).type].size
            NewTop(j) == [AfterPad(Top, Off(j)) EXCEPT !.rest = @ \ {j},
                                                      !.behind = End(j), !.cur = End(j)]
<1>1. stack # <<>>
  BY DEF EmitField, Walking
<1>2. PICK i \in Top.rest :
        /\ H(i).err = "none"
        /\ buf' = Emit(PadBefore(Top, Off(i)) \o <<FieldLine(Top.ind, F(i), H(i), Off(i))>>)
        /\ stack' = SetTop(NewTop(i))
        /\ typedefs' = Register(typedefs, H(i))
  BY DEF EmitField
<1>3. /\ Top \in Frames
      /\ F(i) \in FieldRecs
      /\ F(i).type \in DOMAIN Types
  BY <1>1, TopOK
<1>4. Off(i) \in Int /\ End(i) \in Int /\ Top.ind \in Nat
  <2>1. Types[F(i).type] \in TypeRecs
    BY <1>3, TypeFacts DEF IInv, TypeOK, Types
  <2>. QED
    BY <1>3, <2>1 DEF FieldRecs, TypeRecs, Frames
<1>5. ResultOK(H(i))
  BY <1>3, FieldResultOK DEF IInv, TypeOK, Types
<1>6. /\ NewTop(i) \in Frames
      /\ NewTop(i).t = Top.t
      /\ NewTop(i).rest \subseteq Top.rest
  <2>1. AfterPad(Top, Off(i)) \in Frames /\ AfterPad(Top, Off(i)).t = Top.t
        /\ AfterPad(Top, Off(i)).rest = Top.rest
    BY <1>3, <1>4, AfterPadOK
  <2>. DEFINE ap == AfterPad(Top, Off(i))
  <2>2. /\ [ap EXCEPT !.rest = @ \ {i}, !.behind = End(i), !.cur = End(i)] \in Frames
        /\ [ap EXCEPT !.rest = @ \ {i}, !.behind = End(i), !.cur = End(i)].t = ap.t
        /\ [ap EXCEPT !.rest = @ \ {i}, !.behind = End(i), !.cur = End(i)].rest = ap.rest \ {i}
    BY <1>4, <2>1, AdvanceOK
  <2>. QED
    BY <2>1, <2>2 DEF NewTop
<1>7. buf' \in [0..2 -> Seq(Lines)]
  <2>1. PadBefore(Top, Off(i)) \in Seq(Lines)
    BY <1>3, <1>4, PadBeforeOK DEF IInv, TypeOK
  <2>2. <<FieldLine(Top.ind, F(i), H(i), Off(i))>> \in Seq(Lines)
    BY <1>2, <1>3, <1>4, <1>5, FieldLineOK, OneElem DEF IInv, TypeOK, Types
  <2>3. PadBefore(Top, Off(i)) \o <<FieldLine(Top.ind, F(i), H(i), Off(i))>> \in Seq(Lines)
    BY <2>1, <2>2, ConcatProperties
  <2>. QED
    BY <1>2, <2>3, EmitOK DEF IInv, TypeOK
<1>8. DOMAIN typedefs' \subseteq CNames /\ typedefs' \in [DOMAIN typedefs' -> TdVals]
  BY <1>2, <1>5, RegisterOK DEF IInv, TypeOK
<1>9. UNCHANGED <<bin, pc, err, runs, todo, sect, bbs, tbsize, file>>
  BY DEF EmitField
<1>. QED
  BY <1>1, <1>2, <1>6, <1>7, <1>8, <1>9, WalkTypeOK

\* The caller's frame when print_members recurses into field i.
LEMMA DescendOK ==
  ASSUME NEW fr \in Frames, NEW i \in Nat, NEW e \in Int
  PROVE  /\ [fr EXCEPT !.behind = e, !.at = i] \in Frames
         /\ [fr EXCEPT !.behind = e, !.at = i].t = fr.t
         /\ [fr EXCEPT !.behind = e, !.at = i].rest = fr.rest
         /\ [fr EXCEPT !.behind = e, !.at = i].at = i
<1>1. fr = [t |-> fr.t, rest |-> fr.rest, prepad |-> fr.prepad,
            postpad |-> fr.postpad, ind |-> fr.ind, behind |-> fr.behind,
            padidx |-> fr.padidx, cur |-> fr.cur, at |-> fr.at]
  BY DEF Frames
<1>. QED
  BY <1>1 DEF Frames

LEMMA EnterNestedIInv == IInv /\ EnterNested => IInv'
<1>. SUFFICES ASSUME IInv, EnterNested PROVE IInv'
  OBVIOUS
<1>. DEFINE F(j) == Fld(Top, j)
            Off(j) == F(j).bitpos \div 8
            Up(j) == [AfterPad(Top, Off(j)) EXCEPT !.behind = Off(j) + Types[F(j).type].size,
                                                  !.at = j]
            Sub(j) == NewFrame(F(j).type, FALSE, FALSE, Top.ind + 2)
<1>1. stack # <<>>
  BY DEF EnterNested, Walking
<1>2. PICK i \in Top.rest :
        /\ IsNested(F(i))
        /\ buf' = Emit(PadBefore(Top, Off(i)) \o <<OpenLine(Top.ind, Types[F(i).type].code, Off(i))>>)
        /\ stack' = Append(SetTop(Up(i)), Sub(i))
  BY DEF EnterNested
<1>3. /\ Top \in Frames
      /\ F(i) \in FieldRecs
      /\ F(i).type \in DOMAIN Types
      /\ i \in DOMAIN Types[Top.t].fields
      /\ Len(stack) \in Nat \ {0}
  BY <1>1, TopOK
<1>4. /\ Off(i) \in Int
      /\ Types[F(i).type].size \in Nat
      /\ Top.ind \in Nat
      /\ i \in Nat
      /\ Types[F(i).type].code \in {"struct", "union"}
  <2>1. Types[F(i).type] \in TypeRecs
    BY <1>3, TypeFacts DEF IInv, TypeOK, Types
  <2>. QED
    BY <1>2, <1>3, <2>1 DEF FieldRecs, TypeRecs, Frames, IsNested
<1>5. /\ Up(i) \in Frames
      /\ Up(i).t = Top.t
      /\ Up(i).rest = Top.rest
      /\ Up(i).at = i
  <2>. DEFINE ap == AfterPad(Top, Off(i))
  <2>1. ap \in Frames /\ ap.t = Top.t /\ ap.rest = Top.rest
    BY <1>3, <1>4, AfterPadOK
  <2>2. /\ [ap EXCEPT !.behind = Off(i) + Types[F(i).type].size, !.at = i] \in Frames
        /\ [ap EXCEPT !.behind = Off(i) + Types[F(i).type].size, !.at = i].t = ap.t
        /\ [ap EXCEPT !.behind = Off(i) + Types[F(i).type].size, !.at = i].rest = ap.rest
        /\ [ap EXCEPT !.behind = Off(i) + Types[F(i).type].size, !.at = i].at = i
    <3>1. Off(i) + Types[F(i).type].size \in Int
      BY <1>4
    <3>. QED
      BY <1>4, <2>1, <3>1, DescendOK
  <2>. QED
    BY <2>1, <2>2 DEF Up
<1>6. /\ Sub(i) \in Frames
      /\ Sub(i).t = F(i).type
      /\ Sub(i).rest = DOMAIN Types[F(i).type].fields
  <2>1. Top.ind + 2 \in Nat /\ F(i).type \in DOMAIN bin.types /\ bin \in Bins
    BY <1>3, <1>4 DEF IInv, TypeOK, Types
  <2>. QED
    BY <2>1, NewFrameOK DEF Sub
<1>. DEFINE S1 == SetTop(Up(i))
<1>. HIDE DEF Sub
<1>7. /\ S1 \in Seq(Frames)
      /\ Len(S1) = Len(stack)
      /\ S1[Len(stack)] = Up(i)
      /\ S1[1].t = stack[1].t
      /\ FramesOK(S1, Types)
  BY <1>1, <1>5, SetTopOK DEF S1
<1>. HIDE DEF S1, Up
<1>8. /\ stack' \in Seq(Frames)
      /\ Len(stack') = Len(stack) + 1
      /\ \A n \in 1..Len(stack) : stack'[n] = S1[n]
      /\ stack'[Len(stack) + 1] = Sub(i)
  <2>1. stack' = Append(S1, Sub(i))
    BY <1>2 DEF S1
  <2>. QED
    BY <2>1, <1>6, <1>7, AppendProperties
<1>9. FramesOK(stack', Types)
  <2>1. \A n \in 1..Len(stack') : /\ stack'[n].t \in DOMAIN Types
                                  /\ stack'[n].rest \subseteq DOMAIN Types[stack'[n].t].fields
    BY <1>3, <1>6, <1>7, <1>8 DEF FramesOK
  <2>2. \A n \in 1..(Len(stack') - 1) : stack'[n].at \in DOMAIN Types[stack'[n].t].fields
    BY <1>3, <1>5, <1>7, <1>8 DEF FramesOK
  <2>. QED
    BY <2>1, <2>2 DEF FramesOK
<1>10. buf' \in [0..2 -> Seq(Lines)]
  <2>1. PadBefore(Top, Off(i)) \in Seq(Lines)
    BY <1>3, <1>4, PadBeforeOK DEF IInv, TypeOK
  <2>2. <<OpenLine(Top.ind, Types[F(i).type].code, Off(i))>> \in Seq(Lines)
    BY <1>4, OpenLineOK, OneElem DEF Codes
  <2>. QED
    BY <1>2, <2>1, <2>2, ConcatProperties, EmitOK DEF IInv, TypeOK
<1>11. UNCHANGED <<bin, pc, err, runs, todo, sect, typedefs, bbs, tbsize, file>>
  BY DEF EnterNested
<1>12. TypeOK'
  BY <1>8, <1>10, <1>11 DEF IInv, TypeOK, Types
<1>13. StackOK'
  <2>1. Types' = Types /\ stack' # <<>> /\ stack'[1].t = stack[1].t
    BY <1>3, <1>7, <1>8, <1>11, EmptySeq DEF Types
  <2>2. pc \in {"base", "subs"}
    BY <1>1 DEF IInv, TypeOK, StackOK
  <2>. QED
    BY <1>1, <1>9, <1>11, <2>1, <2>2, Zenon DEF IInv, StackOK, FramesOK
<1>. QED
  BY <1>12, <1>13 DEF IInv

\* The caller's frame when a nested print_members returns: the field it
\* recursed into is done, and the cursor moves behind it.
LEMMA AscendOK ==
  ASSUME NEW fr \in Frames, NEW e \in Int
  PROVE  /\ [fr EXCEPT !.rest = @ \ {fr.at}, !.cur = e] \in Frames
         /\ [fr EXCEPT !.rest = @ \ {fr.at}, !.cur = e].t = fr.t
         /\ [fr EXCEPT !.rest = @ \ {fr.at}, !.cur = e].rest \subseteq fr.rest
<1>1. fr = [t |-> fr.t, rest |-> fr.rest, prepad |-> fr.prepad,
            postpad |-> fr.postpad, ind |-> fr.ind, behind |-> fr.behind,
            padidx |-> fr.padidx, cur |-> fr.cur, at |-> fr.at]
  BY DEF Frames
<1>. QED
  BY <1>1 DEF Frames

LEMMA ReturnNestedIInv == IInv /\ ReturnNested => IInv'
<1>. SUFFICES ASSUME IInv, ReturnNested PROVE IInv'
  OBVIOUS
<1>. DEFINE L == Len(stack)
            up == stack[L - 1]
            f == Fld(up, up.at)
            off == f.bitpos \div 8
            size == Types[f.type].size
            nup == [up EXCEPT !.rest = @ \ {up.at}, !.cur = off + size]
            S0 == SubSeq(stack, 1, L - 1)
<1>1. /\ stack # <<>>
      /\ L \in Nat /\ L > 1
      /\ stack \in Seq(Frames)
      /\ Top \in Frames
  BY TopOK DEF ReturnNested, Done, Walking, IInv, TypeOK
<1>2. /\ buf' = Emit(PostPad(Top) \o <<CloseLine(up.ind, f.name, off, size)>>)
      /\ stack' = [S0 EXCEPT ![L - 1] = nup]
      /\ UNCHANGED <<bin, pc, err, runs, todo, sect, typedefs, bbs, tbsize, file>>
  BY DEF ReturnNested
<1>2a. FramesOK(stack, Types)
  BY DEF IInv, StackOK, FramesOK
<1>3. /\ up \in Frames
      /\ up.t \in DOMAIN Types
      /\ up.at \in DOMAIN Types[up.t].fields
  BY <1>1, <1>2a, ElementOfSeq DEF FramesOK
<1>4. /\ f \in FieldRecs
      /\ f.type \in DOMAIN Types
      /\ Types[f.type] \in TypeRecs
  BY <1>3, TypeFacts DEF IInv, TypeOK, Types, Fld
<1>5. off \in Int /\ size \in Nat /\ up.ind \in Nat /\ f.name \in Tags
  BY <1>3, <1>4, SMTT(30) DEF FieldRecs, TypeRecs, Frames, Tags
<1>6. nup \in Frames /\ nup.t = up.t /\ nup.rest \subseteq up.rest
  <2>1. off + size \in Int
    BY <1>5
  <2>. QED
    BY <1>3, <2>1, AscendOK
<1>. HIDE DEF nup, f, off, size
<1>7. /\ S0 \in Seq(Frames)
      /\ Len(S0) = L - 1
      /\ \A n \in 1..(L - 1) : S0[n] = stack[n]
  <2>1. \A n \in 1..(L - 1) : stack[n] \in Frames
    BY <1>1, ElementOfSeq
  <2>. QED
    BY <1>1, <2>1, SubSeqProperties
<1>. HIDE DEF S0
<1>8. /\ stack' \in Seq(Frames)
      /\ Len(stack') = L - 1
      /\ \A n \in 1..(L - 1) : stack'[n] = IF n = L - 1 THEN nup ELSE stack[n]
  BY <1>1, <1>2, <1>6, <1>7, ExceptSeq, SMTT(30)
<1>9. FramesOK(stack', Types)
  <2>1. \A n \in 1..Len(stack') : /\ stack'[n].t \in DOMAIN Types
                                  /\ stack'[n].rest \subseteq DOMAIN Types[stack'[n].t].fields
    BY <1>1, <1>2a, <1>6, <1>8 DEF FramesOK
  <2>2. \A n \in 1..(Len(stack') - 1) : stack'[n].at \in DOMAIN Types[stack'[n].t].fields
    BY <1>1, <1>2a, <1>8 DEF FramesOK
  <2>. QED
    BY <2>1, <2>2 DEF FramesOK
<1>10. buf' \in [0..2 -> Seq(Lines)]
  <2>1. PostPad(Top) \in Seq(Lines)
    BY <1>1, PostPadOK DEF IInv, TypeOK
  <2>2. <<CloseLine(up.ind, f.name, off, size)>> \in Seq(Lines)
    BY <1>5, CloseLineOK, OneElem
  <2>. QED
    BY <1>2, <2>1, <2>2, ConcatProperties, EmitOK DEF IInv, TypeOK
<1>11. TypeOK'
  BY <1>2, <1>8, <1>10 DEF IInv, TypeOK, Types
<1>12. StackOK'
  <2>1. Types' = Types /\ stack' # <<>> /\ stack'[1].t = stack[1].t
    BY <1>1, <1>6, <1>8, <1>2, EmptySeq DEF Types
  <2>2. pc \in {"base", "subs"}
    BY <1>1 DEF IInv, TypeOK, StackOK
  <2>. QED
    BY <1>1, <1>2, <1>9, <2>1, <2>2, Zenon DEF IInv, StackOK, FramesOK
<1>. QED
  BY <1>11, <1>12 DEF IInv

LEMMA TooBigIInv == IInv /\ TooBig => IInv'
<1>. SUFFICES ASSUME IInv, TooBig PROVE IInv'
  OBVIOUS
<1>1. TypeOK /\ runs' \in Nat /\ buf \in [0..2 -> Seq(Lines)]
  BY DEF IInv, TypeOK, TooBig
<1>. QED
  BY <1>1, FailOK DEF TooBig, Errors

LEMMA UnmappedIInv == IInv /\ Unmapped => IInv'
<1>. SUFFICES ASSUME IInv, Unmapped PROVE IInv'
  OBVIOUS
<1>1. TypeOK /\ runs' \in Nat /\ buf \in [0..2 -> Seq(Lines)]
  BY DEF IInv, TypeOK, Unmapped
<1>. QED
  BY <1>1, FailOK DEF Unmapped, Errors

LEMMA ReturnBaseIInv == IInv /\ ReturnBase => IInv'
<1>. SUFFICES ASSUME IInv, ReturnBase PROVE IInv'
  OBVIOUS
<1>1. stack # <<>> /\ Top \in Frames
  BY TopOK DEF ReturnBase, Done, Walking
<1>2. Emit(<<OpenLine(2, "union", 0)>>) \in [0..2 -> Seq(Lines)]
  <2>1. OpenLine(2, "union", 0) \in Lines
    BY OpenLineOK DEF Codes
  <2>2. <<OpenLine(2, "union", 0)>> \in Seq(Lines)
    BY <2>1, OneElem
  <2>. QED
    BY <2>2, EmitOK DEF IInv, TypeOK
<1>3. Top.behind \in Int
  BY <1>1 DEF Frames
<1>4. TypeOK'
  BY <1>2, <1>3, EmptySeq DEF ReturnBase, IInv, TypeOK, Types
<1>5. StackOK'
  BY DEF ReturnBase, StackOK
<1>. QED
  BY <1>4, <1>5 DEF IInv

LEMMA ReturnSubtypeIInv == IInv /\ ReturnSubtype => IInv'
<1>. SUFFICES ASSUME IInv, ReturnSubtype PROVE IInv'
  OBVIOUS
<1>1. stack # <<>> /\ Top \in Frames /\ Len(stack) = 1
  BY TopOK DEF ReturnSubtype, Done, Walking
<1>2. StrOf(Types[Top.t]) \in DOMAIN KtraceShortnames
  BY <1>1 DEF ReturnSubtype, IInv, StackOK, Top
<1>3. /\ KtraceShortnames[StrOf(Types[Top.t])] \in Tags
      /\ Types[Top.t].size \in Int
  <2>1. Types[Top.t] \in TypeRecs
    BY <1>1, TopOK, TypeFacts DEF IInv, TypeOK, Types
  <2>. QED
    BY <1>2, <2>1 DEF Tags, TypeRecs
<1>4. buf' \in [0..2 -> Seq(Lines)]
  <2>1. PostPad(Top) \in Seq(Lines)
    BY <1>1, PostPadOK DEF IInv, TypeOK
  <2>2. <<CloseLine(4, KtraceShortnames[StrOf(Types[Top.t])], 0, Types[Top.t].size)>>
          \in Seq(Lines)
    BY <1>3, CloseLineOK, OneElem
  <2>. QED
    BY <2>1, <2>2, ConcatProperties, EmitOK DEF ReturnSubtype, IInv, TypeOK
<1>5. TypeOK'
  BY <1>4, EmptySeq DEF ReturnSubtype, IInv, TypeOK, Types
<1>6. StackOK'
  BY DEF ReturnSubtype, StackOK
<1>. QED
  BY <1>5, <1>6 DEF IInv

LEMMA NextSubtypeIInv == IInv /\ NextSubtype => IInv'
<1>. SUFFICES ASSUME IInv, NextSubtype PROVE IInv'
  OBVIOUS
<1>. DEFINE Nm(t) == StrOf(Types[t])
            Fr(t) == NewFrame(t, TRUE, KtraceShortnames[Nm(t)] = "fullsize", 6)
<1>1. PICK t \in todo :
        /\ Nm(t) \in DOMAIN KtraceShortnames
        /\ buf' = Emit(<<OpenLine(4, "struct", 0)>>)
        /\ stack' = <<Fr(t)>>
        /\ todo' = todo \ {t}
  BY DEF NextSubtype
<1>2. t \in DOMAIN Types
  BY DEF IInv, TypeOK
<1>3. Fr(t) \in Frames /\ Fr(t).t = t /\ Fr(t).rest = DOMAIN Types[t].fields
  <2>1. t \in DOMAIN bin.types /\ bin \in Bins
    BY <1>2 DEF IInv, TypeOK, Types
  <2>2. (KtraceShortnames[Nm(t)] = "fullsize") \in BOOLEAN
    OBVIOUS
  <2>. QED
    BY <2>1, <2>2, NewFrameOK DEF Fr
<1>. HIDE DEF Fr
<1>4. <<Fr(t)>> \in Seq(Frames) /\ Len(<<Fr(t)>>) = 1 /\ <<Fr(t)>>[1] = Fr(t)
  BY <1>3, OneElem
<1>5. Emit(<<OpenLine(4, "struct", 0)>>) \in [0..2 -> Seq(Lines)]
  <2>1. OpenLine(4, "struct", 0) \in Lines
    BY OpenLineOK DEF Codes
  <2>2. <<OpenLine(4, "struct", 0)>> \in Seq(Lines)
    BY <2>1, OneElem
  <2>. QED
    BY <2>2, EmitOK DEF IInv, TypeOK
<1>6. UNCHANGED <<bin, pc, err, runs, sect, typedefs, bbs, tbsize, file>>
  BY DEF NextSubtype
<1>7. TypeOK'
  BY <1>1, <1>4, <1>5, <1>6 DEF IInv, TypeOK, Types
<1>8. StackOK'
  <2>1. Types' = Types /\ pc' = "subs"
    BY <1>6 DEF NextSubtype, Types
  <2>2. \A n \in 1..Len(stack') : /\ stack'[n].t \in DOMAIN Types'
                                  /\ stack'[n].rest \subseteq DOMAIN Types'[stack'[n].t].fields
    <3>. SUFFICES ASSUME NEW n \in 1..Len(stack')
                  PROVE  /\ stack'[n].t \in DOMAIN Types'
                         /\ stack'[n].rest \subseteq DOMAIN Types'[stack'[n].t].fields
      OBVIOUS
    <3>1. n = 1
      BY <1>1, <1>4
    <3>. QED
      BY <1>1, <1>2, <1>3, <1>4, <2>1, <3>1, Zenon
  <2>3. \A n \in 1..(Len(stack') - 1) : stack'[n].at \in DOMAIN Types'[stack'[n].t].fields
    BY <1>1, <1>4
  <2>4. StrOf(Types'[stack'[1].t]) \in DOMAIN KtraceShortnames
    BY <1>1, <1>3, <1>4, <2>1, Zenon
  <2>. QED
    BY <2>1, <2>2, <2>3, <2>4 DEF StackOK
<1>. QED
  BY <1>7, <1>8 DEF IInv

\* The typedef block built from a well-typed table is a line.
LEMMA TypedefLineOK ==
  ASSUME NEW td, DOMAIN td \subseteq CNames, td \in [DOMAIN td -> TdVals]
  PROVE  TypedefLine(td) \in Lines
<1>1. TypedefLine(td) \in [k : {"typedefs"}, defs : SUBSET (CNames \X TdVals)]
  BY DEF TypedefLine
<1>. QED
  BY <1>1 DEF Lines

LEMMA FinishGenIInv == IInv /\ FinishGen => IInv'
<1>. SUFFICES ASSUME IInv, FinishGen PROVE IInv'
  OBVIOUS
<1>. DEFINE b2 == Emit(<<CloseLine(2, "m", 0, 0), CloseLine(0, "l4_tracebuffer_entry_t", 0, 0)>>)
            b3 == [b2 EXCEPT ![1] = @ \o <<TypedefLine(typedefs)>>]
<1>1. /\ buf' = b3
      /\ file' = b3[0] \o b3[1] \o b3[2]
      /\ UNCHANGED <<bin, err, runs, stack, todo, typedefs, bbs, tbsize>>
      /\ sect' = 1 /\ pc' = "idle"
  BY DEF FinishGen
<1>2. b2 \in [0..2 -> Seq(Lines)]
  <2>1. /\ CloseLine(2, "m", 0, 0) \in Lines
        /\ CloseLine(0, "l4_tracebuffer_entry_t", 0, 0) \in Lines
    <3>1. "m" \in Tags /\ "l4_tracebuffer_entry_t" \in Tags
      BY DEF Tags
    <3>. QED
      BY <3>1, CloseLineOK
  <2>. QED
    BY <2>1, TwoLines, EmitOK DEF IInv, TypeOK
<1>3. b3 \in [0..2 -> Seq(Lines)]
  <2>1. <<TypedefLine(typedefs)>> \in Seq(Lines)
    BY TypedefLineOK, OneElem DEF IInv, TypeOK
  <2>2. b2[1] \o <<TypedefLine(typedefs)>> \in Seq(Lines)
    BY <1>2, <2>1, ConcatProperties
  <2>. QED
    BY <1>2, <2>2, SMTT(30)
<1>. HIDE DEF b2, b3
<1>4. b3[0] \o b3[1] \o b3[2] \in Seq(Lines)
  BY <1>3, ConcatProperties
<1>5. TypeOK'
  BY <1>1, <1>3, <1>4 DEF IInv, TypeOK, Types
<1>6. StackOK'
  BY <1>1 DEF FinishGen, IInv, StackOK, Types
<1>. QED
  BY <1>5, <1>6 DEF IInv

-----------------------------------------------------------------------------
\* Every step of the generator keeps IInv.
LEMMA TypeCorrectStep == IInv /\ [Next]_vars => IInv'
<1>. SUFFICES ASSUME IInv, [Next]_vars PROVE IInv'
  OBVIOUS
<1>1. CASE LoadFile
  BY <1>1, LoadFileIInv
<1>2. CASE StartGen
  BY <1>2, StartGenIInv
<1>3. CASE StartGenNoEnum
  BY <1>3, StartGenNoEnumIInv
<1>4. CASE WalkSkip
  BY <1>4, WalkSkipIInv
<1>5. CASE WalkBitfield
  BY <1>5, WalkBitfieldIInv
<1>6. CASE EmitField
  BY <1>6, EmitFieldIInv
<1>7. CASE FieldTypeError
  BY <1>7, FieldTypeErrorIInv
<1>8. CASE EnterNested
  BY <1>8, EnterNestedIInv
<1>9. CASE TooBig
  BY <1>9, TooBigIInv
<1>10. CASE ReturnNested
  BY <1>10, ReturnNestedIInv
<1>11. CASE ReturnBase
  BY <1>11, ReturnBaseIInv
<1>12. CASE ReturnSubtype
  BY <1>12, ReturnSubtypeIInv
<1>13. CASE NextSubtype
  BY <1>13, NextSubtypeIInv
<1>14. CASE Unmapped
  BY <1>14, UnmappedIInv
<1>15. CASE FinishGen
  BY <1>15, FinishGenIInv
<1>16. CASE UNCHANGED vars
  BY <1>16 DEF vars, IInv, TypeOK, StackOK, Types
<1>. QED
  BY <1>1, <1>2, <1>3, <1>4, <1>5, <1>6, <1>7, <1>8, <1>9, <1>10, <1>11, <1>12, <1>13, <1>14, <1>15, <1>16 DEF Next

\* TypeOK and StackOK hold in every state: every frame of the walk is a
\* call print_members can be in, on the binary gdb has loaded, whatever
\* the binaries, the name order and the number of invocations.
THEOREM TypeCorrect == Spec => [](TypeOK /\ StackOK)
<1>1. Init => IInv
  BY InitIInv
<1>2. IInv /\ [Next]_vars => IInv'
  BY TypeCorrectStep
<1>. QED
  BY <1>1, <1>2, PTL DEF Spec, IInv

-----------------------------------------------------------------------------
(* Declared field types. *)

\* Every field line of q prints a name in D or a name the binary uses.
Covered(q, D) == \A i \in 1..Len(q) : q[i].k = "mem" => q[i].ty \in D \cup PassThrough

\* No field line at all.
NoMem(q) == \A i \in 1..Len(q) : q[i].k # "mem"

LEMMA NoMemCovered ==
  ASSUME NEW q, NoMem(q), NEW D
  PROVE  Covered(q, D)
BY DEF NoMem, Covered

LEMMA CoveredMono ==
  ASSUME NEW q, NEW D, NEW D2, Covered(q, D), D \subseteq D2
  PROVE  Covered(q, D2)
BY DEF Covered

LEMMA CoveredConcat ==
  ASSUME NEW q \in Seq(Lines), NEW r \in Seq(Lines), NEW D, Covered(q, D), Covered(r, D)
  PROVE  Covered(q \o r, D)
<1>1. /\ Len(q \o r) = Len(q) + Len(r)
      /\ \A i \in 1..Len(q) + Len(r) :
           (q \o r)[i] = IF i <= Len(q) THEN q[i] ELSE r[i - Len(q)]
  BY ConcatProperties
<1>2. Len(q) \in Nat /\ Len(r) \in Nat
  BY LenProperties
<1>. QED
  BY <1>1, <1>2 DEF Covered

LEMMA NoMemConcat ==
  ASSUME NEW q \in Seq(Lines), NEW r \in Seq(Lines), NoMem(q), NoMem(r)
  PROVE  NoMem(q \o r)
<1>1. /\ Len(q \o r) = Len(q) + Len(r)
      /\ \A i \in 1..Len(q) + Len(r) :
           (q \o r)[i] = IF i <= Len(q) THEN q[i] ELSE r[i - Len(q)]
  BY ConcatProperties
<1>2. Len(q) \in Nat /\ Len(r) \in Nat
  BY LenProperties
<1>. QED
  BY <1>1, <1>2 DEF NoMem

LEMMA NoMemOne ==
  ASSUME NEW l, l.k # "mem"
  PROVE  NoMem(<<l>>)
BY DEF NoMem

LEMMA NoMemTwo ==
  ASSUME NEW l1, NEW l2, l1.k # "mem", l2.k # "mem"
  PROVE  NoMem(<<l1, l2>>)
BY DEF NoMem

\* The padding printed by print_members holds no field line.
LEMMA PadNoMem ==
  ASSUME NEW fr \in Frames, NEW byteoff \in Int, bbs \in Int, tbsize \in Nat
  PROVE  NoMem(PadBefore(fr, byteoff)) /\ NoMem(PostPad(fr))
BY PadBeforeOK, PostPadOK DEF NoMem

\* Appending covered lines to the current section keeps every section covered.
LEMMA EmitCovered ==
  ASSUME buf \in [0..2 -> Seq(Lines)], sect \in 0..2, NEW ls \in Seq(Lines), NEW D,
         \A s \in 0..2 : Covered(buf[s], D), Covered(ls, D)
  PROVE  \A s \in 0..2 : Covered(Emit(ls)[s], D)
<1>1. Covered(buf[sect] \o ls, D)
  BY CoveredConcat
<1>. QED
  BY <1>1 DEF Emit

\* The typedef block names every key of the table it was built from.
\* An element appended to the middle part of a three-part concatenation
\* is found in the whole.
LEMMA InMiddle ==
  ASSUME NEW S, NEW A \in Seq(S), NEW B \in Seq(S), NEW C \in Seq(S), NEW x \in S
  PROVE  /\ Len(A) + Len(B) + 1 \in 1..Len(A \o (B \o <<x>>) \o C)
         /\ (A \o (B \o <<x>>) \o C)[Len(A) + Len(B) + 1] = x
<1>1. <<x>> \in Seq(S) /\ Len(<<x>>) = 1 /\ <<x>>[1] = x
  OBVIOUS
<1>2. B \o <<x>> \in Seq(S) /\ Len(B \o <<x>>) = Len(B) + 1 /\ (B \o <<x>>)[Len(B) + 1] = x
  BY <1>1, ConcatProperties
<1>3. A \o (B \o <<x>>) \in Seq(S) /\ Len(A \o (B \o <<x>>)) = Len(A) + Len(B) + 1
      /\ (A \o (B \o <<x>>))[Len(A) + Len(B) + 1] = x
  BY <1>2, ConcatProperties
<1>. QED
  BY <1>3, ConcatProperties

LEMMA TypedefKeysHas ==
  ASSUME NEW f, NEW p \in 1..Len(f), NEW td, f[p] = TypedefLine(td)
  PROVE  DOMAIN td \subseteq TypedefKeys(f)
<1>. SUFFICES ASSUME NEW n \in DOMAIN td PROVE n \in TypedefKeys(f)
  OBVIOUS
<1>1. f[p].k = "typedefs" /\ <<n, td[n]>> \in f[p].defs
  BY DEF TypedefLine
<1>. QED
  BY <1>1 DEF TypedefKeys

\* The typedef line, added at the end of the middle section, declares its
\* names for the whole file.
LEMMA FileHasTypedefs ==
  ASSUME NEW b \in [0..2 -> Seq(Lines)], NEW td, TypedefLine(td) \in Lines
  PROVE  DOMAIN td \subseteq TypedefKeys(b[0] \o (b[1] \o <<TypedefLine(td)>>) \o b[2])
<1>1. b[0] \in Seq(Lines) /\ b[1] \in Seq(Lines) /\ b[2] \in Seq(Lines)
  OBVIOUS
<1>2. /\ Len(b[0]) + Len(b[1]) + 1 \in 1..Len(b[0] \o (b[1] \o <<TypedefLine(td)>>) \o b[2])
      /\ (b[0] \o (b[1] \o <<TypedefLine(td)>>) \o b[2])[Len(b[0]) + Len(b[1]) + 1] = TypedefLine(td)
  BY <1>1, InMiddle, SMTT(30)
<1>. QED
  BY <1>2, TypedefKeysHas

BufCovered == \A s \in 0..2 : Covered(buf[s], DOMAIN typedefs)

LEMMA BufCoveredDef == BufDeclared <=> BufCovered
BY DEF BufDeclared, BufCovered, Covered

DInv == IInv /\ BufCovered /\ EmittedTypesDeclared

\* A step that leaves the buffers, the table and the file alone.
LEMMA QuietDecl ==
  ASSUME BufCovered, EmittedTypesDeclared, UNCHANGED <<buf, typedefs, file>>
  PROVE  BufCovered' /\ EmittedTypesDeclared'
BY DEF BufCovered, EmittedTypesDeclared, Covered, TypedefKeys

\* A step that prints no field line and leaves the table and the file alone.
LEMMA EmitNoMemDecl ==
  ASSUME IInv, BufCovered, EmittedTypesDeclared, NEW ls \in Seq(Lines), NoMem(ls),
         buf' = Emit(ls), UNCHANGED <<typedefs, file>>
  PROVE  BufCovered' /\ EmittedTypesDeclared'
<1>1. \A s \in 0..2 : Covered(Emit(ls)[s], DOMAIN typedefs)
  BY NoMemCovered, EmitCovered DEF IInv, TypeOK, BufCovered
<1>. QED
  BY <1>1 DEF BufCovered, EmittedTypesDeclared, TypedefKeys

LEMMA StartGenDecl == DInv /\ StartGen => BufCovered' /\ EmittedTypesDeclared'
<1>. SUFFICES ASSUME DInv, StartGen PROVE BufCovered' /\ EmittedTypesDeclared'
  OBVIOUS
<1>. DEFINE hl == <<[k |-> "header"], [k |-> "enum"]>>
            b1 == Emit(hl)
<1>1. hl \in Seq(Lines) /\ NoMem(hl)
  BY HeaderLinesOK, TwoLines, NoMemTwo
<1>2. \A s \in 0..2 : Covered(b1[s], DOMAIN typedefs)
  BY <1>1, NoMemCovered, EmitCovered DEF DInv, IInv, TypeOK, BufCovered
<1>3. b1 \in [0..2 -> Seq(Lines)]
  BY <1>1, EmitOK DEF DInv, IInv, TypeOK
<1>4. <<OpenLine(0, "struct", 0)>> \in Seq(Lines) /\ NoMem(<<OpenLine(0, "struct", 0)>>)
  <2>1. OpenLine(0, "struct", 0) \in Lines /\ OpenLine(0, "struct", 0).k # "mem"
    BY OpenLineOK DEF Codes, OpenLine
  <2>. QED
    BY <2>1, OneElem, NoMemOne
<1>5. Covered(b1[2] \o <<OpenLine(0, "struct", 0)>>, DOMAIN typedefs)
  <2>1. Covered(<<OpenLine(0, "struct", 0)>>, DOMAIN typedefs)
    BY <1>4, NoMemCovered
  <2>2. b1[2] \in Seq(Lines) /\ Covered(b1[2], DOMAIN typedefs)
    BY <1>2, <1>3
  <2>. QED
    BY <1>4, <2>1, <2>2, CoveredConcat
<1>. HIDE DEF b1, hl
<1>6. buf' = [b1 EXCEPT ![2] = b1[2] \o <<OpenLine(0, "struct", 0)>>]
      /\ UNCHANGED <<typedefs, file>>
  BY DEF StartGen, b1, hl
<1>. QED
  BY <1>2, <1>3, <1>5, <1>6 DEF BufCovered, EmittedTypesDeclared, TypedefKeys, DInv

LEMMA EmitFieldDecl == DInv /\ EmitField => BufCovered' /\ EmittedTypesDeclared'
<1>. SUFFICES ASSUME DInv, EmitField PROVE BufCovered' /\ EmittedTypesDeclared'
  OBVIOUS
<1>. DEFINE F(j) == Fld(Top, j)
            Off(j) == F(j).bitpos \div 8
            H(j) == FieldResult(F(j))
            Ls(j) == PadBefore(Top, Off(j)) \o <<FieldLine(Top.ind, F(j), H(j), Off(j))>>
<1>1. stack # <<>> /\ IInv
  BY DEF EmitField, Walking, DInv
<1>2. PICK i \in Top.rest :
        /\ H(i).err = "none"
        /\ buf' = Emit(Ls(i))
        /\ typedefs' = Register(typedefs, H(i))
  BY DEF EmitField
<1>3. /\ Top \in Frames
      /\ F(i) \in FieldRecs
      /\ F(i).type \in DOMAIN Types
      /\ Off(i) \in Int
      /\ Top.ind \in Nat
  BY <1>1, TopOK DEF FieldRecs, Frames
<1>4. ResultOK(H(i))
  BY <1>3 , FieldResultOK DEF DInv, IInv, TypeOK, Types
<1>5. /\ DOMAIN typedefs \subseteq DOMAIN typedefs'
      /\ H(i).reg => H(i).ty \in DOMAIN typedefs'
  BY <1>2, <1>4, RegisterOK DEF DInv, IInv, TypeOK
<1>6. /\ PadBefore(Top, Off(i)) \in Seq(Lines)
      /\ NoMem(PadBefore(Top, Off(i)))
  BY <1>3, PadBeforeOK, PadNoMem DEF DInv, IInv, TypeOK
<1>7. /\ FieldLine(Top.ind, F(i), H(i), Off(i)) \in Lines
      /\ FieldLine(Top.ind, F(i), H(i), Off(i)).k = "mem"
      /\ FieldLine(Top.ind, F(i), H(i), Off(i)).ty = H(i).ty
  BY <1>2, <1>3, <1>4, FieldLineOK DEF DInv, IInv, TypeOK, Types
<1>8. Covered(<<FieldLine(Top.ind, F(i), H(i), Off(i))>>, DOMAIN typedefs')
  <2>1. H(i).ty \in DOMAIN typedefs' \cup PassThrough
    BY <1>2, <1>4, <1>5 DEF ResultOK
  <2>. QED
    BY <1>7, <2>1 DEF Covered
<1>9. Ls(i) \in Seq(Lines) /\ Covered(Ls(i), DOMAIN typedefs')
  <2>1. Covered(PadBefore(Top, Off(i)), DOMAIN typedefs')
    BY <1>6, NoMemCovered
  <2>2. <<FieldLine(Top.ind, F(i), H(i), Off(i))>> \in Seq(Lines)
    BY <1>7, OneElem
  <2>3. Ls(i) \in Seq(Lines)
    BY <1>6, <2>2, ConcatProperties
  <2>4. Covered(Ls(i), DOMAIN typedefs')
    BY <1>6, <1>8, <2>1, <2>2, CoveredConcat
  <2>. QED
    BY <2>3, <2>4
<1>10. \A s \in 0..2 : Covered(buf[s], DOMAIN typedefs')
  BY <1>5, CoveredMono DEF DInv, BufCovered
<1>11. \A s \in 0..2 : Covered(Emit(Ls(i))[s], DOMAIN typedefs')
  BY <1>9, <1>10, EmitCovered DEF DInv, IInv, TypeOK
<1>12. file' = file
  BY DEF EmitField
<1>. QED
  BY <1>2, <1>11, <1>12 DEF BufCovered, EmittedTypesDeclared, TypedefKeys, DInv

LEMMA FinishGenDecl == DInv /\ FinishGen => BufCovered' /\ EmittedTypesDeclared'
<1>. SUFFICES ASSUME DInv, FinishGen PROVE BufCovered' /\ EmittedTypesDeclared'
  OBVIOUS
<1>. DEFINE cl == <<CloseLine(2, "m", 0, 0), CloseLine(0, "l4_tracebuffer_entry_t", 0, 0)>>
            TL == TypedefLine(typedefs)
            b2 == Emit(cl)
            b3 == [b2 EXCEPT ![1] = @ \o <<TL>>]
            D == DOMAIN typedefs
<1>1. /\ buf' = b3
      /\ file' = b3[0] \o b3[1] \o b3[2]
      /\ typedefs' = typedefs
  BY DEF FinishGen
<1>2. cl \in Seq(Lines) /\ NoMem(cl)
  <2>1. "m" \in Tags /\ "l4_tracebuffer_entry_t" \in Tags
    BY DEF Tags
  <2>2. /\ CloseLine(2, "m", 0, 0) \in Lines
        /\ CloseLine(0, "l4_tracebuffer_entry_t", 0, 0) \in Lines
    BY <2>1, CloseLineOK
  <2>3. CloseLine(2, "m", 0, 0).k # "mem"
        /\ CloseLine(0, "l4_tracebuffer_entry_t", 0, 0).k # "mem"
    BY DEF CloseLine
  <2>. QED
    BY <2>2, <2>3, TwoLines, NoMemTwo
<1>3. b2 \in [0..2 -> Seq(Lines)] /\ \A s \in 0..2 : Covered(b2[s], D)
  BY <1>2, EmitOK, NoMemCovered, EmitCovered DEF DInv, IInv, TypeOK, BufCovered
<1>4. TL \in Lines /\ TL.k # "mem"
  BY TypedefLineOK DEF DInv, IInv, TypeOK, TypedefLine
<1>. HIDE DEF b2, TL, cl
<1>5. <<TL>> \in Seq(Lines) /\ Covered(<<TL>>, D) /\ Len(<<TL>>) = 1 /\ <<TL>>[1] = TL
  BY <1>4, OneElem, NoMemOne, NoMemCovered
<1>6. /\ b3 \in [0..2 -> Seq(Lines)]
      /\ \A s \in 0..2 : Covered(b3[s], D)
      /\ b3[1] = b2[1] \o <<TL>>
  <2>1. b2[1] \in Seq(Lines) /\ Covered(b2[1], D)
    BY <1>3
  <2>2. b2[1] \o <<TL>> \in Seq(Lines)
    BY <1>5, <2>1, ConcatProperties
  <2>3. Covered(b2[1] \o <<TL>>, D)
    BY <1>5, <2>1, CoveredConcat
  <2>. QED
    BY <1>3, <2>2, <2>3, SMTT(30)
<1>. HIDE DEF b3, D
<1>6a. b3[0] \in Seq(Lines) /\ b3[1] \in Seq(Lines) /\ b3[2] \in Seq(Lines)
       /\ Covered(b3[0], D) /\ Covered(b3[1], D) /\ Covered(b3[2], D)
  <2>1. 0 \in 0..2 /\ 1 \in 0..2 /\ 2 \in 0..2
    OBVIOUS
  <2>. QED
    BY <1>6, <2>1, Zenon
<1>7. /\ b3[0] \o b3[1] \in Seq(Lines)
      /\ Covered(b3[0] \o b3[1], D)
      /\ b3[0] \o b3[1] \o b3[2] \in Seq(Lines)
      /\ Covered(b3[0] \o b3[1] \o b3[2], D)
  <2>1. b3[0] \o b3[1] \in Seq(Lines) /\ Covered(b3[0] \o b3[1], D)
    BY <1>6a, ConcatProperties, CoveredConcat
  <2>. QED
    BY <1>6a, <2>1, ConcatProperties, CoveredConcat
<1>8. D \subseteq TypedefKeys(file')
  <2>1. file' = b2[0] \o (b2[1] \o <<TL>>) \o b2[2]
    BY <1>1, <1>3, <1>6 DEF b3
  <2>2. DOMAIN typedefs \subseteq TypedefKeys(b2[0] \o (b2[1] \o <<TL>>) \o b2[2])
    BY <1>3, <1>4, FileHasTypedefs DEF TL
  <2>. QED
    BY <2>1, <2>2 DEF D
<1>. QED
  BY <1>1, <1>6, <1>7, <1>8 DEF BufCovered, EmittedTypesDeclared, Covered, D

\* Padding followed by an opening or closing line prints no field line.
LEMMA PadThenLine ==
  ASSUME NEW p \in Seq(Lines), NoMem(p), NEW l \in Lines, l.k # "mem"
  PROVE  p \o <<l>> \in Seq(Lines) /\ NoMem(p \o <<l>>)
<1>1. <<l>> \in Seq(Lines) /\ NoMem(<<l>>)
  BY OneElem, NoMemOne
<1>. QED
  BY <1>1, ConcatProperties, NoMemConcat

LEMMA LoadFileDecl == DInv /\ LoadFile => BufCovered' /\ EmittedTypesDeclared'
BY QuietDecl DEF DInv, LoadFile

LEMMA WalkSkipDecl == DInv /\ WalkSkip => BufCovered' /\ EmittedTypesDeclared'
BY QuietDecl DEF DInv, WalkSkip

LEMMA WalkBitfieldDecl == DInv /\ WalkBitfield => BufCovered' /\ EmittedTypesDeclared'
BY QuietDecl DEF DInv, WalkBitfield, Fail

LEMMA TooBigDecl == DInv /\ TooBig => BufCovered' /\ EmittedTypesDeclared'
BY QuietDecl DEF DInv, TooBig, Fail

LEMMA UnmappedDecl == DInv /\ Unmapped => BufCovered' /\ EmittedTypesDeclared'
BY QuietDecl DEF DInv, Unmapped, Fail

LEMMA StartGenNoEnumDecl == DInv /\ StartGenNoEnum => BufCovered' /\ EmittedTypesDeclared'
<1>. SUFFICES ASSUME DInv, StartGenNoEnum PROVE BufCovered' /\ EmittedTypesDeclared'
  OBVIOUS
<1>1. <<[k |-> "header"]>> \in Seq(Lines) /\ NoMem(<<[k |-> "header"]>>)
  BY HeaderLinesOK, OneElem, NoMemOne
<1>2. buf' = Emit(<<[k |-> "header"]>>) /\ UNCHANGED <<typedefs, file>>
  BY DEF StartGenNoEnum, Fail
<1>. QED
  BY <1>1, <1>2, EmitNoMemDecl DEF DInv

LEMMA FieldTypeErrorDecl == DInv /\ FieldTypeError => BufCovered' /\ EmittedTypesDeclared'
<1>. SUFFICES ASSUME DInv, FieldTypeError PROVE BufCovered' /\ EmittedTypesDeclared'
  OBVIOUS
<1>1. stack # <<>> /\ Top \in Frames
  BY TopOK DEF FieldTypeError, Walking, DInv
<1>2. PICK i \in Top.rest : buf' = Emit(PadBefore(Top, Fld(Top, i).bitpos \div 8))
  BY DEF FieldTypeError, Fail
<1>3. Fld(Top, i) \in FieldRecs
  BY <1>1, TopOK DEF DInv
<1>4. /\ PadBefore(Top, Fld(Top, i).bitpos \div 8) \in Seq(Lines)
      /\ NoMem(PadBefore(Top, Fld(Top, i).bitpos \div 8))
  <2>1. Fld(Top, i).bitpos \div 8 \in Int
    BY <1>3 DEF FieldRecs
  <2>. QED
    BY <1>1, <2>1, PadBeforeOK, PadNoMem DEF DInv, IInv, TypeOK
<1>5. UNCHANGED <<typedefs, file>>
  BY DEF FieldTypeError
<1>. QED
  BY <1>2, <1>4, <1>5, EmitNoMemDecl DEF DInv

LEMMA EnterNestedDecl == DInv /\ EnterNested => BufCovered' /\ EmittedTypesDeclared'
<1>. SUFFICES ASSUME DInv, EnterNested PROVE BufCovered' /\ EmittedTypesDeclared'
  OBVIOUS
<1>. DEFINE F(j) == Fld(Top, j)
            Off(j) == F(j).bitpos \div 8
            Ol(j) == OpenLine(Top.ind, Types[F(j).type].code, Off(j))
<1>1. stack # <<>> /\ Top \in Frames
  BY TopOK DEF EnterNested, Walking, DInv
<1>2. PICK i \in Top.rest :
        /\ IsNested(F(i))
        /\ buf' = Emit(PadBefore(Top, Off(i)) \o <<Ol(i)>>)
  BY DEF EnterNested
<1>3. F(i) \in FieldRecs /\ F(i).type \in DOMAIN Types
  BY <1>1, TopOK DEF DInv
<1>4. Off(i) \in Int /\ Top.ind \in Nat /\ Types[F(i).type].code \in Codes
  <2>1. Types[F(i).type] \in TypeRecs
    BY <1>3, TypeFacts DEF DInv, IInv, TypeOK, Types
  <2>. QED
    BY <1>1, <1>2, <1>3, <2>1 DEF FieldRecs, TypeRecs, Frames, IsNested, Codes
<1>5. Ol(i) \in Lines /\ Ol(i).k # "mem"
  BY <1>4, OpenLineOK DEF OpenLine
<1>6. PadBefore(Top, Off(i)) \in Seq(Lines) /\ NoMem(PadBefore(Top, Off(i)))
  BY <1>1, <1>4, PadBeforeOK, PadNoMem DEF DInv, IInv, TypeOK
<1>. HIDE DEF Ol, Off, F
<1>7. /\ PadBefore(Top, Off(i)) \o <<Ol(i)>> \in Seq(Lines)
      /\ NoMem(PadBefore(Top, Off(i)) \o <<Ol(i)>>)
  BY <1>5, <1>6, PadThenLine
<1>8. UNCHANGED <<typedefs, file>>
  BY DEF EnterNested
<1>. QED
  BY <1>2, <1>7, <1>8, EmitNoMemDecl DEF DInv

LEMMA ReturnNestedDecl == DInv /\ ReturnNested => BufCovered' /\ EmittedTypesDeclared'
<1>. SUFFICES ASSUME DInv, ReturnNested PROVE BufCovered' /\ EmittedTypesDeclared'
  OBVIOUS
<1>. DEFINE up == stack[Len(stack) - 1]
            f == Fld(up, up.at)
            cl == CloseLine(up.ind, f.name, f.bitpos \div 8, Types[f.type].size)
<1>1. /\ stack # <<>> /\ Top \in Frames
      /\ Len(stack) \in Nat /\ Len(stack) > 1
      /\ stack \in Seq(Frames)
  BY TopOK DEF ReturnNested, Done, Walking, DInv, IInv, TypeOK
<1>2. buf' = Emit(PostPad(Top) \o <<cl>>) /\ UNCHANGED <<typedefs, file>>
  BY DEF ReturnNested
<1>3. /\ up \in Frames
      /\ up.t \in DOMAIN Types
      /\ up.at \in DOMAIN Types[up.t].fields
  BY <1>1, ElementOfSeq DEF DInv, IInv, StackOK
<1>4. f \in FieldRecs /\ f.type \in DOMAIN Types /\ Types[f.type] \in TypeRecs
  BY <1>3, TypeFacts DEF DInv, IInv, TypeOK, Types, Fld
<1>5. cl \in Lines /\ cl.k # "mem"
  <2>1. up.ind \in Nat /\ f.name \in Tags /\ f.bitpos \div 8 \in Int
        /\ Types[f.type].size \in Int
    BY <1>3, <1>4 DEF FieldRecs, TypeRecs, Frames, Tags
  <2>. QED
    BY <2>1, CloseLineOK DEF CloseLine
<1>6. PostPad(Top) \in Seq(Lines) /\ NoMem(PostPad(Top))
  BY <1>1, PostPadOK, PadNoMem DEF DInv, IInv, TypeOK
<1>. HIDE DEF cl
<1>7. PostPad(Top) \o <<cl>> \in Seq(Lines) /\ NoMem(PostPad(Top) \o <<cl>>)
  BY <1>5, <1>6, PadThenLine
<1>. QED
  BY <1>2, <1>7, EmitNoMemDecl DEF DInv

LEMMA ReturnBaseDecl == DInv /\ ReturnBase => BufCovered' /\ EmittedTypesDeclared'
<1>. SUFFICES ASSUME DInv, ReturnBase PROVE BufCovered' /\ EmittedTypesDeclared'
  OBVIOUS
<1>1. OpenLine(2, "union", 0) \in Lines /\ OpenLine(2, "union", 0).k # "mem"
  BY OpenLineOK DEF Codes, OpenLine
<1>2. /\ <<OpenLine(2, "union", 0)>> \in Seq(Lines)
      /\ NoMem(<<OpenLine(2, "union", 0)>>)
  BY <1>1, OneElem, NoMemOne
<1>. QED
  BY <1>2, EmitNoMemDecl DEF DInv, ReturnBase

LEMMA ReturnSubtypeDecl == DInv /\ ReturnSubtype => BufCovered' /\ EmittedTypesDeclared'
<1>. SUFFICES ASSUME DInv, ReturnSubtype PROVE BufCovered' /\ EmittedTypesDeclared'
  OBVIOUS
<1>. DEFINE cl == CloseLine(4, KtraceShortnames[StrOf(Types[Top.t])], 0, Types[Top.t].size)
<1>1. stack # <<>> /\ Top \in Frames
  BY TopOK DEF ReturnSubtype, Done, Walking, DInv
<1>2. cl \in Lines /\ cl.k # "mem"
  <2>1. StrOf(Types[Top.t]) \in DOMAIN KtraceShortnames
    BY <1>1 DEF ReturnSubtype, DInv, IInv, StackOK, Top
  <2>2. Types[Top.t] \in TypeRecs
    BY <1>1, TopOK, TypeFacts DEF DInv, IInv, TypeOK, Types
  <2>3. KtraceShortnames[StrOf(Types[Top.t])] \in Tags /\ Types[Top.t].size \in Int
    BY <2>1, <2>2 DEF Tags, TypeRecs
  <2>. QED
    BY <2>3, CloseLineOK DEF CloseLine
<1>3. PostPad(Top) \in Seq(Lines) /\ NoMem(PostPad(Top))
  BY <1>1, PostPadOK, PadNoMem DEF DInv, IInv, TypeOK
<1>. HIDE DEF cl
<1>4. PostPad(Top) \o <<cl>> \in Seq(Lines) /\ NoMem(PostPad(Top) \o <<cl>>)
  BY <1>2, <1>3, PadThenLine
<1>5. buf' = Emit(PostPad(Top) \o <<cl>>) /\ UNCHANGED <<typedefs, file>>
  BY DEF ReturnSubtype, cl
<1>. QED
  BY <1>4, <1>5, EmitNoMemDecl DEF DInv

LEMMA NextSubtypeDecl == DInv /\ NextSubtype => BufCovered' /\ EmittedTypesDeclared'
<1>. SUFFICES ASSUME DInv, NextSubtype PROVE BufCovered' /\ EmittedTypesDeclared'
  OBVIOUS
<1>1. OpenLine(4, "struct", 0) \in Lines /\ OpenLine(4, "struct", 0).k # "mem"
  BY OpenLineOK DEF Codes, OpenLine
<1>2. /\ <<OpenLine(4, "struct", 0)>> \in Seq(Lines)
      /\ NoMem(<<OpenLine(4, "struct", 0)>>)
  BY <1>1, OneElem, NoMemOne
<1>3. buf' = Emit(<<OpenLine(4, "struct", 0)>>) /\ UNCHANGED <<typedefs, file>>
  BY DEF NextSubtype
<1>. QED
  BY <1>2, <1>3, EmitNoMemDecl DEF DInv

LEMMA InitDecl == Init => BufCovered /\ EmittedTypesDeclared
BY DEF Init, BufCovered, EmittedTypesDeclared, Covered

\* DInv holds in every reachable state: it holds initially and every action
\* of the generator keeps it.
LEMMA DInvInductive == Spec => []DInv
<1>1. Init => DInv
  BY InitIInv, InitDecl DEF DInv
<1>2. DInv /\ [Next]_vars => DInv'
  <2>. SUFFICES ASSUME DInv, [Next]_vars PROVE DInv'
    OBVIOUS
  <2>1. IInv'
    BY TypeCorrectStep DEF DInv
  <2>2. BufCovered' /\ EmittedTypesDeclared'
    <3>1. CASE LoadFile        BY <3>1, LoadFileDecl
    <3>2. CASE StartGen        BY <3>2, StartGenDecl
    <3>3. CASE StartGenNoEnum  BY <3>3, StartGenNoEnumDecl
    <3>4. CASE WalkSkip        BY <3>4, WalkSkipDecl
    <3>5. CASE WalkBitfield    BY <3>5, WalkBitfieldDecl
    <3>6. CASE EmitField       BY <3>6, EmitFieldDecl
    <3>7. CASE FieldTypeError  BY <3>7, FieldTypeErrorDecl
    <3>8. CASE EnterNested     BY <3>8, EnterNestedDecl
    <3>9. CASE TooBig          BY <3>9, TooBigDecl
    <3>10. CASE ReturnNested   BY <3>10, ReturnNestedDecl
    <3>11. CASE ReturnBase     BY <3>11, ReturnBaseDecl
    <3>12. CASE ReturnSubtype  BY <3>12, ReturnSubtypeDecl
    <3>13. CASE NextSubtype    BY <3>13, NextSubtypeDecl
    <3>14. CASE Unmapped       BY <3>14, UnmappedDecl
    <3>15. CASE FinishGen      BY <3>15, FinishGenDecl
    <3>16. CASE UNCHANGED vars
      BY <3>16, QuietDecl DEF DInv, vars
    <3>. QED
      BY <3>1, <3>2, <3>3, <3>4, <3>5, <3>6, <3>7, <3>8, <3>9, <3>10, <3>11,
         <3>12, <3>13, <3>14, <3>15, <3>16 DEF Next
  <2>. QED
    BY <2>1, <2>2 DEF DInv
<1>. QED
  BY <1>1, <1>2, PTL DEF Spec

\* The header the generator writes declares every type its field lines use:
\* in every reachable state each field line of the written file names a
\* type of the typedef block of that same file, or one the binary names as
\* is, and each field line still in the section buffers names a type of
\* the typedef table (gen_ktrace_events, print_members, handle_type).
THEOREM Declared == Spec => []DeclaredInv
<1>1. DInv => DeclaredInv
  BY BufCoveredDef DEF DInv, IInv, DeclaredInv
<1>. QED
  BY <1>1, DInvInductive, PTL

\* The invariant the gen run checks on seven binaries holds for every
\* binary: each field line of ktrace_events.h names a type its typedef
\* block declares or one the binary names as is (gen_ktrace_events writes
\* the typedef section only after every subtype has been walked).
THEOREM HeaderDeclared == Spec => []EmittedTypesDeclared
<1>1. DeclaredInv => EmittedTypesDeclared
  BY DEF DeclaredInv
<1>. QED
  BY <1>1, Declared, PTL

=============================================================================

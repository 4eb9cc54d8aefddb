----------------------------- MODULE KtraceGen -----------------------------
(***************************************************************************)
(* The gdb command fiasco-gen-ktrace-events (class Fiasco_tbuf in          *)
(* src/tool/gdb/fiasco_gdb_util.py).  It walks the reflected layout of     *)
(* Tb_entry and of every class derived from it, renders one packed C       *)
(* struct per subtype into a union, collects typedefs for non-portable     *)
(* type names, and writes the three output sections to ktrace_events.h.    *)
(*                                                                         *)
(* The reflected program (gdb's view of the loaded binary) is a record in  *)
(* Bins.  The text the command prints is abstracted to one record per      *)
(* emitted line, keeping what a C compiler needs to lay the struct out:    *)
(* indentation (= nesting), offsets, sizes and type names.                 *)
(*                                                                         *)
(* The walk over fields (print_members) is one step per field; a nested    *)
(* aggregate pushes a frame, so the recursion of the code is a stack here. *)
(* Everything the class keeps in class or instance attributes (the three   *)
(* section buffers, the current section, the typedef table, the base block *)
(* size, the entry size) survives from one invocation to the next, as it   *)
(* does in one gdb session.                                                *)
(***************************************************************************)
EXTENDS Integers, Sequences, FiniteSets

CONSTANTS
  Bins,           \* the binaries gdb may have loaded ("file ...")
  NameOrder,      \* every type name of Bins, in Python's string order
  MaxInvocations  \* how often the command is typed in one session

Codes == {"struct", "union", "array", "ptr", "scalar"}

\* A reflected field: its name, the key of its type, its bit position
\* (-1 when gdb reports none: getattr(x, 'bitpos', -1)) and whether it is a
\* base-class field.
FieldRecs == [name : STRING, type : STRING, bitpos : Int, base : BOOLEAN]

\* A reflected type: code, its qualified name as a path of scopes (<<>> for
\* an anonymous type, name None in gdb), the text of its basic type,
\* sizeof, fields, and for arrays and pointers the target's key and count.
TypeRecs == [code : Codes, name : Seq(STRING), basic : STRING, size : Nat,
             fields : Seq(FieldRecs), target : STRING, count : Nat]

BinRecs == [types : [STRING -> TypeRecs], mword : {4, 8}, fixedEnum : BOOLEAN]

ASSUME BinsAssumption ==
  /\ Bins # {}
  /\ \A b \in Bins :
       /\ b.types \in [DOMAIN b.types -> TypeRecs]
       /\ DOMAIN b.types \subseteq STRING
       /\ b.mword \in {4, 8}
       /\ b.fixedEnum \in BOOLEAN
       /\ "Tb_entry" \in DOMAIN b.types
       /\ \A t \in DOMAIN b.types :
            /\ \A i \in DOMAIN b.types[t].fields :
                 b.types[t].fields[i].type \in DOMAIN b.types
            /\ b.types[t].code \in {"array", "ptr"} =>
                 b.types[t].target \in DOMAIN b.types

ASSUME NameOrderAssumption == NameOrder \in Seq(STRING)

ASSUME MaxInvocationsAssumption == MaxInvocations \in Nat
-----------------------------------------------------------------------------
(* Static tables of Fiasco_tbuf. *)

\* ktrace_shortnames: subtype name -> union member tag.
ShortNameTable ==
  <<<<"Context::Drq_log", "drq">>, <<"Context::Vcpu_log", "vcpu">>,
    <<"Factory::Log_entry", "factory">>,
    <<"Ipc_gate::Log_ipc_gate_invoke", "gate">>,
    <<"Irq_base::Irq_log", "irq">>, <<"Kobject::Log_destroy", "destroy">>,
    <<"Mu_log::Map_log", "map">>, <<"Mu_log::Unmap_log", "unmap">>,
    <<"Rcu::Log_rcu", "rcu">>, <<"Task::Log_unmap", "tunmap">>,
    <<"Tb_entry_bp", "bp">>, <<"Tb_entry_ctx_sw", "context_switch">>,
    <<"Tb_entry_ipc", "ipc">>, <<"Tb_entry_ipc_res", "ipc_res">>,
    <<"Tb_entry_ipc_trace", "ipc_trace">>, <<"Tb_entry_empty", "empty">>,
    <<"Tb_entry_ke", "ke">>, <<"Tb_entry_ke_bin", "ke_bin">>,
    <<"Tb_entry_ke_reg", "ke_reg">>, <<"Tb_entry_pf", "pf">>,
    <<"Tb_entry_sched", "sched">>, <<"Tb_entry_trap", "trap">>,
    <<"Tb_entry_union", "fullsize">>, <<"Thread::Log_exc_invalid", "ieh">>,
    <<"Thread::Log_pf_invalid", "ipfh">>,
    <<"Thread::Log_thread_exregs", "exregs">>,
    <<"Thread::Migration_log", "migration">>, <<"Timer_tick::Log", "timer">>,
    <<"Vm_svm::Log_vm_svm_exit", "svm">>>>

\* known_types_map: non-simple type -> substitute representation.
KnownTypesTable ==
  <<<<"Cap_index", "unsigned long">>, <<"Cpu_number", "unsigned">>,
    <<"Context::Drq_log::Type", "unsigned">>,
    <<"L4_msg_tag", "unsigned long">>, <<"L4_obj_ref", "unsigned long">>,
    <<"L4_timeout_pair", "unsigned">>, <<"L4_error", "unsigned long">>,
    <<"cxx::Type_info", "unsigned long">>>>

TableFn(tbl) == [k \in {tbl[i][1] : i \in DOMAIN tbl} |->
                   (CHOOSE p \in {tbl[i] : i \in DOMAIN tbl} : p[1] = k)[2]]

KtraceShortnames == TableFn(ShortNameTable)
KnownTypesMap == TableFn(KnownTypesTable)
-----------------------------------------------------------------------------
(* Names *)

\* The path p joined with sep: str() of a type joins its scopes with "::".
JoinPath(p, sep) ==
  LET j[i \in 0..Len(p)] ==
        IF i = 0 THEN "" ELSE IF i = 1 THEN p[1] ELSE j[i - 1] \o sep \o p[i]
  IN  j[Len(p)]

\* t.name (and str(t)) of a reflected type; str() of an anonymous type is
\* its basic text.
StrOf(T) == IF T.name = <<>> THEN T.basic ELSE JoinPath(T.name, "::")

\* convert_name_to_c: "L4_ktrace_t__" + name.replace("::", "__")
ConvertNameToC(T) ==
  "L4_ktrace_t__" \o (IF T.name = <<>> THEN T.basic ELSE JoinPath(T.name, "__"))

-----------------------------------------------------------------------------
VARIABLES
  bin,        \* the binary gdb has loaded
  pc,         \* "idle", or the part of gen_ktrace_events running
  err,        \* how the last invocation ended ("none" or the error)
  runs,       \* invocations so far
  stack,      \* frames of the recursive print_members calls
  todo,       \* subtypes not yet emitted (loop of line 377)
  sect,       \* printlog_buf_current
  buf,        \* printlog_buf: three sections of emitted lines
  typedefs,   \* the typedefs dict (class attribute)
  bbs,        \* base_block_size
  tbsize,     \* tb_entry_size
  file        \* content of ktrace_events.h (<<>> before the first write)

vars == <<bin, pc, err, runs, stack, todo, sect, buf, typedefs, bbs, tbsize,
          file>>

Types == bin.types
Fld(fr, i) == Types[fr.t].fields[i]

\* print_members visits fields sorted by bitpos; sorted() is stable, so
\* ties keep declaration order.
Before(fs, i, j) == fs[i].bitpos < fs[j].bitpos
                    \/ (fs[i].bitpos = fs[j].bitpos /\ i < j)

\* i is the next field the for loop of line 282 reaches in frame fr.
IsNext(fr, i) ==
  /\ i \in fr.rest
  /\ \A j \in fr.rest \ {i} : Before(Types[fr.t].fields, i, j)

\* A fresh print_members(t, prepad, postpad, indent) call.
NewFrame(t, prepad, postpad, ind) ==
  [t |-> t, rest |-> DOMAIN Types[t].fields, prepad |-> prepad,
   postpad |-> postpad, ind |-> ind, behind |-> 0, padidx |-> 1, cur |-> 0,
   at |-> 0]

Top == stack[Len(stack)]
SetTop(fr) == [stack EXCEPT ![Len(stack)] = fr]

\* printlog / printlogi: append lines to the current section.
Emit(lines) == [buf EXCEPT ![sect] = @ \o lines]

\* Subtypes of Tb_entry (get_tbentry_classes): types with a base-class
\* field named Tb_entry, in name order (line 377).
TbEntryClasses(b) ==
  {t \in DOMAIN b.types :
     \E i \in DOMAIN b.types[t].fields :
        b.types[t].fields[i].name = "Tb_entry" /\ b.types[t].fields[i].base}

\* Python's string order on the names, given by their places in NameOrder.
NameRank(n) == CHOOSE i \in DOMAIN NameOrder : NameOrder[i] = n

\* t is the subtype the sorted loop of line 377 reaches next.
IsFirstByName(t) ==
  /\ t \in todo
  /\ \A u \in todo \ {t} : NameRank(StrOf(Types[t])) < NameRank(StrOf(Types[u]))
-----------------------------------------------------------------------------
(* Lines *)

OpenLine(ind, code, off) == [k |-> "open", ind |-> ind, code |-> code, off |-> off]
CloseLine(ind, name, off, size) ==
  [k |-> "close", ind |-> ind, name |-> name, off |-> off, size |-> size]
PadLine(ind, role, idx, size) ==
  [k |-> "pad", ind |-> ind, role |-> role, idx |-> idx, size |-> size]
MemLine(ind, name, ty, ptr, count, off, size) ==
  [k |-> "mem", ind |-> ind, name |-> name, ty |-> ty, ptr |-> ptr,
   count |-> count, off |-> off, size |-> size]

\* Variant of PadBefore that never closes a gap between two fields.
PadBeforeNoGap(fr, byteoff) ==
  IF fr.prepad /\ bbs # 0 /\ byteoff # bbs
  THEN <<PadLine(fr.ind, "pre", 0, byteoff - bbs)>> ELSE <<>>

\* Padding printed before the field at byteoff (lines 291-300).
PadBefore(fr, byteoff) ==
  IF fr.prepad
  THEN IF bbs # 0 /\ byteoff # bbs
       THEN <<PadLine(fr.ind, "pre", 0, byteoff - bbs)>> ELSE <<>>
  ELSE IF fr.cur < byteoff
       THEN <<PadLine(fr.ind, "pad", fr.padidx, byteoff - fr.cur)>> ELSE <<>>

\* The frame after that padding: prepad is consumed, padidx counts pads.
AfterPad(fr, byteoff) ==
  [fr EXCEPT !.prepad = FALSE,
             !.padidx = IF ~fr.prepad /\ fr.cur < byteoff THEN @ + 1 ELSE @]
-----------------------------------------------------------------------------
(* Type name normalisation.  A result is the name to print, whether it is *)
(* registered as a typedef (always under the name returned), the typedef's *)
(* value, and the error raised.                                           *)

Result(ty, reg, val, e) == [ty |-> ty, reg |-> reg, val |-> val, err |-> e]

\* handle_type(t)
HandleType(t) ==
  LET T == Types[t]
  IN  IF T.name # <<>> /\ StrOf(T) \in DOMAIN KnownTypesMap
      THEN LET sub == KnownTypesMap[StrOf(T)]
               subs == {u \in DOMAIN Types : Types[u].name = <<sub>>}
           IN  IF subs = {} THEN Result("", FALSE, "", "lookup")
               ELSE IF T.size # Types[CHOOSE u \in subs : TRUE].size
               THEN Result("", FALSE, "", "mismatch")
               ELSE Result(ConvertNameToC(T), TRUE, sub, "none")
      ELSE IF T.name = <<"bool">> THEN Result("char", FALSE, "", "none")
      ELSE IF T.name = <<>> THEN Result("", FALSE, "", "crash")
      ELSE IF T.basic # StrOf(T)
      THEN Result(ConvertNameToC(T), TRUE, T.basic, "none")
      ELSE Result(StrOf(T), FALSE, "", "none")

\* Variant of handle_type_pointer that renames without registering.
HandleTypePointerNoTypedef(t) ==
  LET T == Types[t]
  IN  IF StrOf(T) \notin {"void", "char"}
      THEN Result(ConvertNameToC(T), FALSE, "", "none")
      ELSE Result(StrOf(T), FALSE, "", "none")

\* handle_type_pointer(t)
HandleTypePointer(t) ==
  LET T == Types[t]
  IN  IF StrOf(T) \notin {"void", "char"}
      THEN Result(ConvertNameToC(T), TRUE, "void", "none")
      ELSE Result(StrOf(T), FALSE, "", "none")

\* A field that print_members renders as an inline packed aggregate.
IsNested(f) ==
  /\ Types[f.type].code \in {"struct", "union"}
  /\ StrOf(Types[f.type]) \notin DOMAIN KnownTypesMap

\* The dispatch of lines 304-324 for a field that is not nested.
FieldResult(f) ==
  LET T == Types[f.type]
  IN  CASE T.code = "array" -> HandleType(T.target)
        []  T.code = "ptr"   -> HandleTypePointer(T.target)
        []  OTHER            -> HandleType(f.type)

FieldLine(ind, f, h, byteoff) ==
  LET T == Types[f.type]
  IN  MemLine(ind, f.name, h.ty, T.code = "ptr",
              IF T.code = "array" THEN T.count ELSE 0, byteoff, T.size)

\* self.typedefs[name] = value
Register(td, h) ==
  IF h.reg THEN [k \in DOMAIN td \cup {h.ty} |-> IF k = h.ty THEN h.val ELSE td[k]]
  ELSE td
-----------------------------------------------------------------------------
(* Initial state: a fresh gdb session with the script sourced. *)

Init ==
  /\ bin \in Bins
  /\ pc = "idle"
  /\ err = "none"
  /\ runs = 0
  /\ stack = <<>>
  /\ todo = {}
  /\ sect = 0
  /\ buf = [s \in 0..2 |-> <<>>]
  /\ typedefs = [k \in {} |-> ""]
  /\ bbs = 0
  /\ tbsize = 0
  /\ file = <<>>

\* A raised error ends the invocation; gdb keeps the session (and every
\* attribute of the command object) alive.
Fail(kind, b) ==
  /\ pc' = "idle"
  /\ err' = kind
  /\ stack' = <<>>
  /\ todo' = {}
  /\ buf' = b
-----------------------------------------------------------------------------
(* Actions *)

\* gdb "file ...": the session loads another binary between invocations.
LoadFile ==
  /\ pc = "idle"
  /\ bin' \in Bins
  /\ UNCHANGED <<pc, err, runs, stack, todo, sect, buf, typedefs, bbs, tbsize,
                 file>>

\* invoke, get_tbentry_classes and gen_ktrace_events up to the walk of
\* Tb_entry: header and Tbuf_entry_fixed enum into the current section,
\* the guessed entry size, then section 2 and the opening of the entry.
StartGen ==
  /\ pc = "idle"
  /\ runs < MaxInvocations
  /\ bin.fixedEnum
  /\ runs' = runs + 1
  /\ LET b1 == Emit(<<[k |-> "header"], [k |-> "enum"]>>)
     IN  buf' = [b1 EXCEPT ![2] = @ \o <<OpenLine(0, "struct", 0)>>]
  /\ tbsize' = IF bin.mword = 8 THEN 128 ELSE 64
  /\ sect' = 2
  /\ todo' = TbEntryClasses(bin)
  /\ stack' = <<NewFrame("Tb_entry", FALSE, FALSE, 2)>>
  /\ pc' = "base"
  /\ err' = "none"
  /\ UNCHANGED <<bin, typedefs, bbs, file>>

\* The same invocation on a binary without the Tbuf_entry_fixed enum.
StartGenNoEnum ==
  /\ pc = "idle"
  /\ runs < MaxInvocations
  /\ ~bin.fixedEnum
  /\ runs' = runs + 1
  /\ Fail("schema", Emit(<<[k |-> "header"]>>))
  /\ UNCHANGED <<bin, sect, typedefs, bbs, tbsize, file>>

Walking == pc \in {"base", "subs"} /\ stack # <<>>
Aligned(f) == f.name # "Tb_entry" /\ f.bitpos # -1 /\ f.bitpos % 8 = 0

\* Variant of WalkSkip that does not move past the skipped field.
WalkSkipKeep ==
  /\ Walking
  /\ \E i \in Top.rest :
       /\ IsNext(Top, i)
       /\ Fld(Top, i).name = "Tb_entry" \/ Fld(Top, i).bitpos = -1
       /\ stack' = stack
  /\ UNCHANGED <<bin, pc, err, runs, todo, sect, buf, typedefs, bbs, tbsize,
                 file>>

\* The base-class field and fields without a bit position are passed over.
WalkSkip ==
  /\ Walking
  /\ \E i \in Top.rest :
       /\ IsNext(Top, i)
       /\ Fld(Top, i).name = "Tb_entry" \/ Fld(Top, i).bitpos = -1
       /\ stack' = SetTop([Top EXCEPT !.rest = @ \ {i}])
  /\ UNCHANGED <<bin, pc, err, runs, todo, sect, buf, typedefs, bbs, tbsize,
                 file>>

\* A bit position that is not a whole byte: "Don't know how to handle
\* bitfields".
WalkBitfield ==
  /\ Walking
  /\ \E i \in Top.rest :
       /\ IsNext(Top, i)
       /\ Fld(Top, i).name # "Tb_entry"
       /\ Fld(Top, i).bitpos # -1
       /\ Fld(Top, i).bitpos % 8 # 0
  /\ Fail("bitfield", buf)
  /\ UNCHANGED <<bin, runs, sect, typedefs, bbs, tbsize, file>>

\* One array, pointer or plain field: padding, then the field's line.
EmitField ==
  /\ Walking
  /\ \E i \in Top.rest :
       LET fr == Top
           f == Fld(fr, i)
           byteoff == f.bitpos \div 8
           h == FieldResult(f)
           end == byteoff + Types[f.type].size
       IN  /\ IsNext(fr, i)
           /\ Aligned(f)
           /\ ~IsNested(f)
           /\ h.err = "none"
           /\ buf' = Emit(PadBefore(fr, byteoff) \o <<FieldLine(fr.ind, f, h, byteoff)>>)
           /\ stack' = SetTop([AfterPad(fr, byteoff) EXCEPT !.rest = @ \ {i},
                                  !.behind = end, !.cur = end])
           /\ typedefs' = Register(typedefs, h)
  /\ UNCHANGED <<bin, pc, err, runs, todo, sect, bbs, tbsize, file>>

\* handle_type raises on the field's type, after the padding was printed.
FieldTypeError ==
  /\ Walking
  /\ \E i \in Top.rest :
       LET f == Fld(Top, i)
       IN  /\ IsNext(Top, i)
           /\ Aligned(f)
           /\ ~IsNested(f)
           /\ FieldResult(f).err # "none"
           /\ Fail(FieldResult(f).err, Emit(PadBefore(Top, f.bitpos \div 8)))
  /\ UNCHANGED <<bin, runs, sect, typedefs, bbs, tbsize, file>>

\* A nested struct or union: padding, the opening line, and a recursive
\* print_members(f.type, False, False, indent + 2).
EnterNested ==
  /\ Walking
  /\ \E i \in Top.rest :
       LET fr == Top
           f == Fld(fr, i)
           byteoff == f.bitpos \div 8
       IN  /\ IsNext(fr, i)
           /\ Aligned(f)
           /\ IsNested(f)
           /\ buf' = Emit(PadBefore(fr, byteoff)
                          \o <<OpenLine(fr.ind, Types[f.type].code, byteoff)>>)
           /\ stack' = Append(SetTop([AfterPad(fr, byteoff) EXCEPT
                                        !.behind = byteoff + Types[f.type].size,
                                        !.at = i]),
                              NewFrame(f.type, FALSE, FALSE, fr.ind + 2))
  /\ UNCHANGED <<bin, pc, err, runs, todo, sect, typedefs, bbs, tbsize, file>>

Done == Walking /\ Top.rest = {}
TooLarge(fr) == fr.postpad /\ fr.behind > tbsize

\* Variant of PostPad that pads from the type's sizeof instead of from
\* behind_last_member.
PostPadFromSizeof(fr) ==
  IF fr.postpad THEN <<PadLine(fr.ind, "post", 0, tbsize - Types[fr.t].size)>>
  ELSE <<>>

\* The trailing padding of the full-size member (lines 332-334).
PostPad(fr) ==
  IF fr.postpad THEN <<PadLine(fr.ind, "post", 0, tbsize - fr.behind)>> ELSE <<>>

\* "Error: ... is too big": the full-size member ends behind the budget.
TooBig ==
  /\ Done
  /\ TooLarge(Top)
  /\ Fail("toobig", buf)
  /\ UNCHANGED <<bin, runs, sect, typedefs, bbs, tbsize, file>>

\* A nested print_members returns: the closing line of the aggregate, and
\* the caller's cursor moves behind the field's declared size.
ReturnNested ==
  /\ Done
  /\ Len(stack) > 1
  /\ ~TooLarge(Top)
  /\ LET up == stack[Len(stack) - 1]
         f == Fld(up, up.at)
         byteoff == f.bitpos \div 8
     IN  /\ buf' = Emit(PostPad(Top) \o
                        <<CloseLine(up.ind, f.name, byteoff, Types[f.type].size)>>)
         /\ stack' = [SubSeq(stack, 1, Len(stack) - 1) EXCEPT
                        ![Len(stack) - 1] =
                          [up EXCEPT !.rest = @ \ {up.at},
                                     !.cur = byteoff + Types[f.type].size]]
  /\ UNCHANGED <<bin, pc, err, runs, todo, sect, typedefs, bbs, tbsize, file>>

\* The walk of Tb_entry returns: its end is the base block size, and the
\* union of subtypes opens.
ReturnBase ==
  /\ Done
  /\ Len(stack) = 1
  /\ pc = "base"
  /\ bbs' = Top.behind
  /\ buf' = Emit(<<OpenLine(2, "union", 0)>>)
  /\ stack' = <<>>
  /\ pc' = "subs"
  /\ UNCHANGED <<bin, err, runs, todo, sect, typedefs, tbsize, file>>

\* print_single_struct ends: trailing padding if full-size, closing line.
ReturnSubtype ==
  /\ Done
  /\ Len(stack) = 1
  /\ pc = "subs"
  /\ ~TooLarge(Top)
  /\ buf' = Emit(PostPad(Top) \o
                 <<CloseLine(4, KtraceShortnames[StrOf(Types[Top.t])], 0,
                             Types[Top.t].size)>>)
  /\ stack' = <<>>
  /\ UNCHANGED <<bin, pc, err, runs, todo, sect, typedefs, bbs, tbsize, file>>

\* Variant of NextSubtype that passes over a subtype missing from the
\* short name table instead of failing.
NextSubtypeSkipUnknown ==
  /\ pc = "subs"
  /\ stack = <<>>
  /\ \E t \in todo :
       LET n == StrOf(Types[t])
       IN  /\ IsFirstByName(t)
           /\ IF n \in DOMAIN KtraceShortnames
              THEN /\ buf' = Emit(<<OpenLine(4, "struct", 0)>>)
                   /\ stack' = <<NewFrame(t, TRUE, KtraceShortnames[n] = "fullsize", 6)>>
              ELSE UNCHANGED <<buf, stack>>
           /\ todo' = todo \ {t}
  /\ UNCHANGED <<bin, pc, err, runs, sect, typedefs, bbs, tbsize, file>>

\* Next subtype in name order, known to the short name table:
\* print_single_struct(t, tag) starts.
NextSubtype ==
  /\ pc = "subs"
  /\ stack = <<>>
  /\ \E t \in todo :
       LET n == StrOf(Types[t])
       IN  /\ IsFirstByName(t)
           /\ n \in DOMAIN KtraceShortnames
           /\ buf' = Emit(<<OpenLine(4, "struct", 0)>>)
           /\ stack' = <<NewFrame(t, TRUE, KtraceShortnames[n] = "fullsize", 6)>>
           /\ todo' = todo \ {t}
  /\ UNCHANGED <<bin, pc, err, runs, sect, typedefs, bbs, tbsize, file>>

\* "Missing ... in internal knowledge base".
Unmapped ==
  /\ pc = "subs"
  /\ stack = <<>>
  /\ \E t \in todo : IsFirstByName(t) /\ StrOf(Types[t]) \notin DOMAIN KtraceShortnames
  /\ Fail("unmapped", buf)
  /\ UNCHANGED <<bin, runs, sect, typedefs, bbs, tbsize, file>>

\* "typedef <value> <name>;" for sorted(self.typedefs.items()).
TypedefLine(td) == [k |-> "typedefs", defs |-> {<<n, td[n]>> : n \in DOMAIN td}]

\* The end of gen_ktrace_events: close union and entry, the sorted typedef
\* block into section 1, and printlog_write of sections 0, 1, 2.
FinishGen ==
  /\ pc = "subs"
  /\ stack = <<>>
  /\ todo = {}
  /\ LET b2 == Emit(<<CloseLine(2, "m", 0, 0),
                      CloseLine(0, "l4_tracebuffer_entry_t", 0, 0)>>)
         b3 == [b2 EXCEPT ![1] = @ \o <<TypedefLine(typedefs)>>]
     IN  /\ buf' = b3
         /\ file' = b3[0] \o b3[1] \o b3[2]
  /\ sect' = 1
  /\ pc' = "idle"
  /\ UNCHANGED <<bin, err, runs, stack, todo, typedefs, bbs, tbsize>>

Next ==
  \/ LoadFile \/ StartGen \/ StartGenNoEnum
  \/ WalkSkip \/ WalkBitfield \/ EmitField \/ FieldTypeError \/ EnterNested
  \/ TooBig \/ ReturnNested \/ ReturnBase \/ ReturnSubtype
  \/ NextSubtype \/ Unmapped \/ FinishGen

Spec == Init /\ [][Next]_vars

\* gdb runs the command to its end once it is typed: the Python code is
\* sequential and waits on nothing, so a step of a running invocation is
\* always enabled until it returns or raises.
FairSpec == Spec /\ WF_vars(Next)
-----------------------------------------------------------------------------
(* Types *)

AllTypes == UNION {{b.types[t] : t \in DOMAIN b.types} : b \in Bins}

\* The names handle_type and handle_type_pointer print unchanged.
PassThrough ==
  {"char", "void"} \cup {StrOf(T) : T \in {U \in AllTypes : U.basic = StrOf(U)}}

\* The names convert_name_to_c produces, and the values typedefs get.
CNames == {ConvertNameToC(T) : T \in AllTypes}
TdVals == {KnownTypesMap[k] : k \in DOMAIN KnownTypesMap} \cup {"void"}
          \cup {T.basic : T \in AllTypes}

\* Names on closing lines: field names, union member tags, and the two
\* names gen_ktrace_events closes the union and the entry with.
Tags == STRING \cup {KtraceShortnames[k] : k \in DOMAIN KtraceShortnames}
        \cup {"m", "l4_tracebuffer_entry_t"}

Lines ==
  [k : {"open"}, ind : Nat, code : Codes, off : Int]
  \cup [k : {"close"}, ind : Nat, name : Tags, off : Int, size : Int]
  \cup [k : {"pad"}, ind : Nat, role : {"pre", "pad", "post"}, idx : Nat,
        size : Int]
  \cup [k : {"mem"}, ind : Nat, name : STRING, ty : PassThrough \cup CNames,
        ptr : BOOLEAN, count : Nat, off : Int, size : Nat]
  \cup {[k |-> "header"], [k |-> "enum"]}
  \cup [k : {"typedefs"}, defs : SUBSET (CNames \X TdVals)]

Frames == [t : STRING, rest : SUBSET Nat, prepad : BOOLEAN, postpad : BOOLEAN,
           ind : Nat, behind : Int, padidx : Nat, cur : Int, at : Nat]

Errors == {"none", "schema", "bitfield", "lookup", "mismatch", "crash",
           "toobig", "unmapped"}

TypeOK ==
  /\ bin \in Bins
  /\ pc \in {"idle", "base", "subs"}
  /\ err \in Errors
  /\ runs \in Nat
  /\ stack \in Seq(Frames)
  /\ todo \in SUBSET DOMAIN Types
  /\ sect \in 0..2
  /\ buf \in [0..2 -> Seq(Lines)]
  /\ DOMAIN typedefs \subseteq CNames
  /\ typedefs \in [DOMAIN typedefs -> TdVals]
  /\ bbs \in Int
  /\ tbsize \in Nat
  /\ file \in Seq(Lines)

\* The frames on the stack are calls the code can be in: each walks a type
\* of the loaded binary, each caller is inside the field it recursed into,
\* a subtype being walked is one the short name table knows, and nothing
\* is left over when the command returns.
StackOK ==
  /\ \A n \in 1..Len(stack) :
       /\ stack[n].t \in DOMAIN Types
       /\ stack[n].rest \subseteq DOMAIN Types[stack[n].t].fields
  /\ \A n \in 1..(Len(stack) - 1) : stack[n].at \in DOMAIN Types[stack[n].t].fields
  /\ pc = "idle" => stack = <<>> /\ todo = {}
  /\ pc = "subs" /\ stack # <<>> => StrOf(Types[stack[1].t]) \in DOMAIN KtraceShortnames
-----------------------------------------------------------------------------
(* Properties *)

TypedefKeys(f) ==
  UNION {{d[1] : d \in f[i].defs} : i \in {j \in 1..Len(f) : f[j].k = "typedefs"}}

\* Every type name a field of the written header uses is declared by the
\* header's typedef block, or printed as the binary names it: typedefs
\* registered while the subtypes are walked reach section 1, which the
\* code fills only after the walk (lines 387-390).
EmittedTypesDeclared ==
  \A i \in 1..Len(file) :
    file[i].k = "mem" => file[i].ty \in TypedefKeys(file) \cup PassThrough

\* What the walk has printed so far is covered by the typedef table the
\* class keeps: every field type in a section buffer is a registered name
\* or printed as the binary names it (strengthens EmittedTypesDeclared to
\* an inductive invariant, with TypeOK and StackOK).
BufDeclared ==
  \A s \in 0..2 : \A i \in 1..Len(buf[s]) :
    buf[s][i].k = "mem" => buf[s][i].ty \in DOMAIN typedefs \cup PassThrough

\* The written header and the buffers it is made of declare what they use,
\* for every interleaving of invocations, failures and reloads.
DeclaredInv == TypeOK /\ StackOK /\ BufDeclared /\ EmittedTypesDeclared

SubtypeTags(f) ==
  LET c == SelectSeq(f, LAMBDA l : l.k = "close" /\ l.ind = 4)
  IN  [i \in 1..Len(c) |-> c[i].name]

\* The subtypes of b in name order.
SortedByName(b) ==
  SelectSeq(NameOrder, LAMBDA n : n \in {StrOf(b.types[t]) : t \in TbEntryClasses(b)})

ExpectedTags(b) ==
  LET n == SortedByName(b) IN [i \in 1..Len(n) |-> KtraceShortnames[n[i]]]

\* Whenever ktrace_events.h is written, its union holds one member per
\* subtype of Tb_entry of the loaded binary, tagged from the short name
\* table (which therefore knows every subtype) and in name order, and
\* nothing else.
CatalogComplete ==
  [][file' # file =>
       /\ \A i \in 1..Len(SortedByName(bin')) :
            SortedByName(bin')[i] \in DOMAIN KtraceShortnames
       /\ SubtypeTags(file') = ExpectedTags(bin')]_vars

\* A typedef, once registered, keeps its value: normalising the same
\* source type again, as a field or as a pointee, never rebinds the
\* generated name to a different representation (handle_type,
\* handle_type_pointer writing self.typedefs).
TypedefStable ==
  [][\A k \in DOMAIN typedefs :
       k \in DOMAIN typedefs' /\ typedefs'[k] = typedefs[k]]_vars

\* Every invocation ends: the walk of Tb_entry, of each subtype and of the
\* aggregates nested in them returns, and the command either writes
\* ktrace_events.h or raises (the loops of lines 282 and 377 and the
\* recursion of print_members terminate).
InvocationEnds == pc # "idle" ~> pc = "idle"
=============================================================================

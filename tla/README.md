# Formal models of the Fiasco gdb tools

This directory holds TLA+ models of the Python tools under `src/tool/`:

- TLC configurations that model-check them on small instances;
- TLAPS proofs of their main invariants for every instance.

`PROJECT.json` lists the components, runs, mutants, source map, findings,
hazards and theorems.

## The system

`src/tool/gdb/fiasco_gdb_util.py` defines three gdb commands. Each is a class
whose single instance is created when the script is sourced, so its class
attributes live as long as the gdb session.

| Command | Class | What it does | State it keeps |
|---|---|---|---|
| `fiasco-gen-ktrace-events` | `Fiasco_tbuf` | Reflects the kernel's trace-buffer entry type `Tb_entry` and every subtype that derives from it. Writes `ktrace_events.h`, a packed C struct holding the common fields and a union with one packed struct per subtype. | Section buffers `printlog_buf[0..2]` and the current section; the typedef table; `base_block_size`; `tb_entry_size`. |
| `fiasco-libftbuf-gen` | `Log_table` | Reads the `_log_table` of several images and writes an enum and a name table for libftbuf. | The `db` dict, shared by all invocations. |
| `fiasco-offsets` | `Toff` | Prints a type's members and their offsets. | None. |

`src/tool/genoffset.py` is a stand-alone Python 2 script. It scrapes a
`thread.debug` dump with regular expressions into `#define` offsets.

The project models `Fiasco_tbuf`, `Log_table` and the scanner of
`genoffset.py`. `Fiasco_tbuf` is the core. One invocation runs as follows:

1. `get_tbentry_classes` asks gdb for the subtypes.
2. `gen_ktrace_events` writes a header and the `Tbuf_entry_fixed` enum into the current section.
3. It guesses the entry size from `sizeof(Mword)` (128 or 64 bytes).
4. It switches to section 2 and walks `Tb_entry` with `print_members`, which yields the base block size.
5. It opens the union and walks each subtype in name order with `print_single_struct`. That call is `print_members` with the leading pad, plus the trailing pad for the subtype tagged `fullsize`.
6. It closes the union and the entry, prints the sorted typedef block into section 1, and writes sections 0, 1 and 2 to the file.

`print_members` walks fields in bit-position order. For each field it:

- prints the padding for any gap;
- normalises the field's type with `handle_type` or `handle_type_pointer`, which may register a typedef;
- for a nested struct or union, calls itself recursively.

Every fatal condition raises a `gdb.GdbError`, which ends the invocation but
not the session. These are:

- no `Tbuf_entry_fixed` enum;
- a bitfield;
- a known-type substitute that is missing or has a different size;
- a full-size subtype that is too big;
- a subtype missing from the short name table.

## Modules

| Module | Models | Notes |
|---|---|---|
| `KtraceGen` | `Fiasco_tbuf` (lines 167-411) | The specification, its type invariant and its safety properties. No recursive operators, so TLAPS can reason about it. |
| `CLayout` | How a C compiler lays out the emitted packed aggregates | Recursive operators, so only TLC uses it. |
| `KtraceGenProps` | Layout properties | Properties that need `CLayout`. |
| `MC_KtraceGen` | Binaries for TLC | The reflected binaries, and one set per run. |
| `KtraceGenProofs` | Proofs | TLAPS proofs about `KtraceGen`. |
| `LogTable` | `Log_table` (lines 57-164) | Strings are sequences of code points, so `sorted()`, `replace(" ", "_")` and the NUL-terminated reads are modelled by what they do. |
| `MC_LogTable` | Images for TLC | Five images and the dict attribute names. |
| `LogTableProofs` | Proofs | TLAPS proofs of `EnumAligned` and of the `db` half of `WrittenCoversImages`. |
| `GenOffset` | `genoffset.py` (lines 13-199) | One action per iteration of each loop of `extract_sections` and `extract_members`, plus `main`. |
| `MC_GenOffset` | Dumps for TLC | Five class dumps. |
| `GenOffsetAbs` | `genoffset.py` (lines 91-199), abstractly | What the two extraction passes promise, without their scanning loops. |
| `GenOffsetProofs` | Proofs | TLAPS proofs of `SectionsFromDump` and of the refinement of `GenOffsetAbs`. |

### KtraceGen: state

| Variable | Code |
|---|---|
| `bin` | The binary gdb has loaded. Constants `Bins`: a record of its types (kind, name path, basic name, size, fields, target, count), its word size and whether the `Tbuf_entry_fixed` enum exists. |
| `pc` | Where the invocation is: `idle`; walking `base`, the `Tb_entry` walk; or `subs`, the subtype loop. |
| `err` | The error the last invocation raised. |
| `runs` | The number of invocations, bounded by `MaxInvocations`. |
| `stack` | The Python call stack of `print_members`. One frame per active call holds the fields not yet printed, `prepad`, `postpad`, the indent, `behind_last_member`, `padidx` and `cur_size`, plus `at`, the field the nested call is for. |
| `todo` | The subtypes the loop of line 377 has not reached. The next one is the first of `NameOrder`, the sort order of the names, that is still in `todo`. |
| `sect` | `printlog_buf_current`. |
| `buf` | `printlog_buf`: three sequences of emitted lines. |
| `typedefs` | `self.typedefs`. |
| `bbs` | `base_block_size`. |
| `tbsize` | `tb_entry_size`. |
| `file` | The last `ktrace_events.h` written. |

Emitted text is abstracted to line records:

- `open` and `close` for an aggregate, with indentation, code, name, offset and size;
- `pad`, with role, index and size;
- `mem`, with name, printed type, pointer flag, array count, offset and size;
- `header`, `enum` and `typedefs`, the last holding the set of (name, value) pairs.

Wording and layout of the text are left out. Type names are paths of strings.
`ConvertNameToC` joins them with `__` and prefixes `L4_ktrace_t__`, as the code
does.

### KtraceGen: actions

Each action is one step of the code, including every state change that step
makes.

| Action | Code |
|---|---|
| `LoadFile` | The gdb `file` command between invocations (environment). |
| `StartGen` | `invoke` up to the walk of `Tb_entry`: the header and enum into the current section, the size guess, section 2 and the opening line. |
| `StartGenNoEnum` | The "Missing Tbuf_entry_fixed" error, after the header was printed. |
| `WalkSkip` | The `Tb_entry` base field, and fields without a bit position, passed over (lines 283-286). |
| `WalkBitfield` | The bitfield error (line 289). |
| `EmitField` | Padding, then the line of an array, pointer or plain field; `handle_type` or `handle_type_pointer` registering its typedef; the cursor moved. |
| `FieldTypeError` | `handle_type` raising (missing substitute, size mismatch, anonymous name) after the padding was printed. |
| `EnterNested` | Padding, the opening line, and the recursive call pushed. |
| `TooBig` | The post-pad budget check (lines 328-331). |
| `ReturnNested` | A nested call returning: post-pad, closing line, caller's cursor moved by `sizeof`. |
| `ReturnBase` | The walk of `Tb_entry` returning its end as `base_block_size`, and the union opening. |
| `ReturnSubtype` | `print_single_struct` ending. |
| `NextSubtype` | The next subtype in name order, present in the short name table, starting. |
| `Unmapped` | The next subtype missing from the table (line 381). |
| `FinishGen` | The end of `gen_ktrace_events`: closing lines, section 1, the sorted typedef block, `printlog_write`. |

A raised error (`Fail`) returns to `idle` and keeps every class attribute, as
gdb does.

Several definitions are plausible bugs in the code. The mutation runs use them
in place of the real definition, and each must break a property:

- `PadBeforeNoGap`
- `HandleTypePointerNoTypedef`
- `PostPadFromSizeof`
- `NextSubtypeSkipUnknown`

### LogTable

| Variable | Code |
|---|---|
| `db` | `Log_table.db`, tag -> full name. A class attribute, so it survives from one invocation to the next. |
| `pc` | `idle`, `query` (the loop over the files) or `entry` (the loop over `_log_table`). |
| `argv`, `todo` | The image files of the command line, and those not yet queried. |
| `img` | The image gdb has loaded: whether it has the two table symbols, and the bytes each entry's name points at. |
| `idx` | The next entry of `_log_table`. |
| `hdr`, `rows` | The enumerators of `kernel_inc.h` and the rows of `data_inc.c` last written. |
| `err`, `runs` | How the last invocation ended, and the number of invocations. |

The actions are:

- `Invoke` and `InvokeNoArgs` (the usage error);
- `QueryOne` and `QueryOneNoTable` (a missing symbol);
- `QueryEntry`, which stores tag -> name. The dict assignment `self.db[tag_s] = fn_s` is `Bind(db, tag, fn)`, an explicit function over `DOMAIN db \cup {tag}`, so the provers can reason about it;
- `QueryEntryRaise`, for the check of line 104, which raises `KeyError` or `Mismatch`;
- `QueryOneDone`;
- `WriteOut` and `WriteOutNoEnv` (no `LIBFTBUF_BASE_DIR`);
- `LoadFile`, the gdb `file` command.

### GenOffset

A dump line is a record:

- a class header, with the size and base position its expression captures;
- a member declaration, with its text and the bitsize and bitpos of its comment;
- a `};` line;
- any other line.

The member expression of line 99 is evaluated on the declaration text, character by character (`Matches`).

| Variable | Code |
|---|---|
| `lines` | The input file. |
| `pc`, `exit` | The loop the script is in, and how it ended. |
| `ln`, `keys`, `cur`, `sk` | `line_nr`, `section_keys`, `curr_section`, and the key of the class being read. |
| `sections` | `sections`. |
| `pend`, `mi`, `found` | The sections `extract_members` has not visited, the member searched for, and `section_members`. |
| `out` | The printed defines. |

The actions follow the loops:

- `ScanOther` and `ScanMarker` (the outer loop);
- `BodyLine`, `BodyClose` and `BodyPastEnd` (the inner loop; the last is the uncaught `IndexError`);
- `ScanEnd` and `ScanEndMissing` (the assertion of line 182);
- `NextSection`, `SearchHit`, `SearchMiss`, `SearchNotFound` and `SearchDone` (`extract_members`);
- `Main`, which sorts by bitpos and prints the defines (`dump_members`).

### GenOffsetAbs: the abstract extraction

`GenOffsetAbs` keeps only the dump, `sections`, `section_members` and a flag
`done`, and has four actions:

- `Cut(k)`: class `k`, not cut before, is stored as its text (its header up to
  the first `};` after it), while no class has been searched yet;
- `Begin(k)`: once all classes are cut, class `k`, not searched before, gets an
  empty member dict;
- `Record(k, i)`: the i-th member of a class being searched is recorded with the
  bitsize and bitpos of some line of that class's section that `Match` accepts;
- `Finish`: the script ends.

`GenOffset` instantiates it as `Abs` with `Classes <- Keys`,
`Members <- ClassMembers`, `Match <- Matches` and `done <- (pc = "done")`; the
dump, `sections` and `found` map to themselves. `AbsSpec == Abs!Spec`.
`BodyClose` is `Cut(sk)`, `NextSection` is `Begin(k)`, `SearchHit` is
`Record(sk, mi)` with the line `line_nr`, the four ways the script ends are
`Finish`, and the other actions leave the abstract state alone.

## Properties and runs

| Run (cfg) | Binaries | Expect | Checks |
|---|---|---|---|
| gen (`MC_KtraceGen.cfg`) | Seven: see below | pass | `LayoutFaithful`, `FullsizeFillsBudget`, `EmittedTypesDeclared`, `CatalogComplete` |
| session (`MC_KtraceGen_session.cfg`) | The same seven, `MaxInvocations = 2` | pass | `DeclaredInv`, `InvocationEnds` |
| clash (`MC_KtraceGen_clash.cfg`) | A Mword field and a Mword pointer | violation | `TypedefStable` |
| tailpad (`MC_KtraceGen_tailpad.cfg`) | Nested struct with tail padding | violation | `LayoutFaithful` |
| stale (`MC_KtraceGen_stale.cfg`) | Good binary, two invocations | violation | `CatalogComplete` |
| scoped (`MC_KtraceGen_scoped.cfg`) | Scoped C++ enum field | violation | `EmittedTypesPortable` |
| oversize (`MC_KtraceGen_oversize.cfg`) | A 144-byte non-full-size subtype | violation | `FullsizeFillsBudget` |
| libftbuf (`MC_LogTable.cfg`) | Five images, up to two per command line, two invocations | pass | `EnumAligned`, `WrittenCoversImages` |
| libftbuf_mismatch (`MC_LogTable_mismatch.cfg`) | Two images naming one tag differently | violation | `WrittenFromImages` |
| genoffset (`MC_GenOffset.cfg`) | Five dumps | pass | `OffsetsFaithful`, `SectionsFromDump`, `Terminates`, `AbsSpec` |
| genoffset_prefix (`MC_GenOffset_prefix.cfg`) | `_idt_base` declared before `_idt` | violation | `OffsetsFaithful` |
| genoffset_dupdefine (`MC_GenOffset_dupdefine.cfg`) | The well-formed dump | violation | `DefinesUnique` |

The gen run uses seven binaries: a well-formed 64-bit one, and one for each
fatal condition.

The properties:

- `LayoutFaithful`: reading the written file as packed C (CLayout), every field sits at the offset the binary gives it.
  - It needs the pre-pad against `base_block_size`, the numbered gap pads and the union overlay all to be right.
  - It checks both the nested aggregates and the subtypes.
- `FullsizeFillsBudget`: every subtype struct ends within the guessed entry size, and the full-size one ends exactly at it.
- `EmittedTypesDeclared`: every type a field line of the written file uses is declared by that file's typedef block, or is printed as the binary names it.
  - This holds only because section 1 is filled after the whole walk.
- `DeclaredInv`: `TypeOK`, `StackOK`, `EmittedTypesDeclared`, and `BufDeclared`.
  - `BufDeclared`: every field line still in a section buffer names a registered typedef.
  - It is checked across two invocations, with failures and reloads in between.
- `CatalogComplete` (an action property): whenever the file is written, its union holds exactly the subtypes of the loaded binary, tagged from the table and in name order.
- `TypedefStable` (an action property): a registered typedef never changes its value.
- `EmittedTypesPortable`: every type a field uses is a declared typedef or a C type.
- `InvocationEnds` (liveness): every invocation returns to `idle`, by writing the file or by raising. Every walk step consumes a field or pops a frame.
- `WrittenCoversImages` (an action property of `LogTable`): every write of the two files has a row for every event of every image on this command line. It is checked over two invocations, so it holds whatever an earlier invocation left in `db` and however it ended. It needs every entry of `_log_table` visited up to `log_table_end`, every file of `argv` queried before `write_out`, and every error on the way to stop the command; leaving the entry loop one entry early breaks it.
- `WrittenFromImages` (an action property of `LogTable`, checked only by the libftbuf_mismatch run, where it fails): every write lists exactly the (name, tag) pairs of the images on this command line, one row per tag. This means:
  - no event is dropped;
  - none survives from an earlier invocation;
  - no tag carries two names.
- `EnumAligned`: `kernel_inc.h` has as many enumerators as `data_inc.c` has rows, and the i-th enumerator is the underscored tag of the i-th row. Both loops iterate `sorted(self.db.keys())`; a change to either loop's order breaks it.
- `OffsetsFaithful`: when `genoffset.py` prints its defines, the define of every listed member carries that member's byte offset in a thread object, with `sender_t` based where the `thread_t` header puts it.
- `SectionsFromDump`: `extract_sections` stores under each key exactly the text of that class, from its header to the first `};` after it. This holds whatever the order of the classes and whatever the file holds between them. For every member, `extract_members` records only the bitsize and bitpos of a line of that class's section that its expression matches.
- `Terminates` (liveness): the script ends, either printing its defines or stopping with an error.
- `DefinesUnique`: no `OFS__THREAD__` name is printed twice.
- `AbsSpec` (refinement): every behaviour of the script is one of `GenOffsetAbs`. No class is cut twice (the marker pattern is rebuilt from `section_keys` after each `del`), none is searched before all are cut, and `extract_members` visits each class once.

### Binaries and bounds

The binaries in `MC_KtraceGen` are small, but each has what the code's
branches need:

- `Tb_entry` has a gap between two fields (a numbered pad), a field declared out of offset order, and a static member without a bit position.
- `Tb_entry_pf` has fields out of declaration order, a known-map type (`Cap_index`) and a `bool`.
- `Mu_log::Map_log` has a pointer to a struct, a nested named struct that is recursed into and an anonymous union.
- `Tb_entry_union` is the full-size subtype, with an `Mword` array and a trailing pad.

Seven binaries cover the error paths: no enum, an unmapped subtype, a bitfield,
a known-type size mismatch, a full-size subtype that is too big, and an array
of pointers.

`MaxInvocations` is 1 for the single-run questions. It is 2 for the session
questions (session, stale, libftbuf): the second invocation is where the class-level state shows.

The `LogTable` images are:

- two well-formed images sharing a tag with the same name;
- an image without the table symbols;
- an image whose tag is `get`, a dict method name;
- an image whose tag has a blank, which the enum turns into `_`.

With up to two files per command line this covers every order and repetition, in 487 states.

The five `GenOffset` dumps are:

- a well-formed dump;
- the classes in another order;
- a dump cut off inside a class;
- a dump without `sender_t`;
- a dump without one listed member.

Their bodies hold the listed members among a method, a static member and a nested struct's `};`. This gives 2193 states.

The passing runs fire every action and reach 183 (gen), 1415 (session), 487 (libftbuf) and 2193 (genoffset) distinct states.

### Fairness

The session and genoffset runs use `FairSpec == Spec /\ WF_vars(Next)`: weak
fairness on the whole next-state relation. The code justifies it:

- Both programs are sequential.
- Once a gdb command or the script has started, nothing it does waits on another actor.
- The only environment step, gdb's `file`, is enabled only between invocations.

Weak fairness says only that a started program keeps running.
`InvocationEnds` and `Terminates` then say that its loops end. A mutant
that lets a step change nothing (`WalkSkipKeep`, `SearchMissStay`) breaks
them.

The other runs check safety only. Where a run ends in a final state,
`CHECK_DEADLOCK` stays on because `LoadFile` keeps it live. The genoffset run
turns it off, because the script exits.

## Findings

Each violation run shows a disagreement between the code and `spec.md`. Details
are in `PROJECT.json`.

- **clash:** `handle_type_pointer` registers `L4_ktrace_t__Mword` as `void`, while `handle_type` registers the same name as `unsigned long`. The last write wins.
- **tailpad:** a nested struct is printed packed, without its tail padding, but the cursor moves by its `sizeof`. The next field is misplaced.
- **stale:** the buffers and the current section are class attributes that are never reset. A second invocation writes the first one's text again.
- **scoped:** a scoped enum passes through `handle_type` under its C++ name.
- **oversize:** only the full-size subtype is checked against the budget. A larger ordinary subtype is written silently.
- **libftbuf_mismatch:** the check of line 104 uses `hasattr` on the dict, which asks about an attribute, not a key.
  - Two images that name one tag differently are written with the last name.
  - A tag named like a dict method (`get`) raises `KeyError`.
  - The "Mismatch" error can never be raised.
- **genoffset_prefix:** the member expression ends at the member's name. A longer name that starts with it, declared first, gives its offset to the wanted member.
- **genoffset_dupdefine:** `_thread_lock` is listed for both `context_t` and `thread_t`, so it is defined twice.

## Proofs

`KtraceGenProofs` proves three theorems, all for every set of binaries that
satisfies `BinsAssumption`, every name order and every bound. The proofs take
about five minutes with `tlapm` from nothing.

**`TypeCorrect`: `Spec => [](TypeOK /\ StackOK)`.**

- `StackOK` says that every frame walks a type of the loaded binary, and that its remaining fields and its `at` field are fields of that type.
- It also says that in the subtype loop the bottom frame's type is in the short name table, which `ReturnSubtype` needs.
- `TypeOK` alone is not inductive, because the walk indexes the binary's types with the stack's contents. `IInv == TypeOK /\ StackOK` is inductive.
- The proof has one lemma per action (`XIInv`), built from lemmas about the helpers:
  - the normalisation results (`HandleTypeOK`, `FieldResultOK`);
  - the line constructors and padding (`PadBeforeOK`, `PostPadOK`);
  - frame updates (`SetTopOK`, `AfterPadOK`, `DescendOK`, `AscendOK`).

**`Declared`: `Spec => []DeclaredInv`.** This is the invariant the session run checks.

- `EmittedTypesDeclared` is not inductive: a field line is printed long before its typedef reaches the file.
- The strengthening `DInv` adds `BufDeclared`: every field line in any buffer names a key of the typedef table or a pass-through name.
- The proof rests on three facts:
  - Typedef keys are never removed (`RegisterOK`).
  - Padding, opening and closing lines are never field lines (`PadNoMem`, `PadThenLine`).
  - `FinishGen` appends the typedef line for the whole table to section 1, which lands between sections 0 and 2 in the file (`InMiddle`, `FileHasTypedefs`).
- It has one lemma per action (`XDecl`).
- The constants only need `BinsAssumption`: every binary is a well-formed record, and every field names a type of its binary.

**`HeaderDeclared`: `Spec => []EmittedTypesDeclared`.** It follows from `Declared`, because `DeclaredInv` contains `EmittedTypesDeclared`.

`LogTableProofs` proves two theorems, for every set of images that satisfies `ImagesAssumption` and every bound.

**`Aligned`: `Spec => []EnumAligned`.**

- `EnumAligned` is inductive as it stands.
- `WriteOut` builds both tables over `DOMAIN SortedKeys(db)`, and `WriteOutAligned` shows they agree without opening `SortedKeys`.
- Every other action leaves `hdr` and `rows` alone.

**`CoversAtWrite`: `Spec => WriteCovers`.**

- `WriteCovers` says that whenever `WriteOut` runs, `db` has a key for the tag of every entry of every image in `argv`. This holds across any number of invocations and errors.
- It is the part of `WrittenCoversImages` that does not depend on `sorted()`. The rows are built from `SortedKeys(db)`, and that its range is `DOMAIN db` is a `SortSeq` fact. TLC checks it in the libftbuf run.
- The inductive invariant `CInv` describes the loop state of `invoke`:
  - `todo` is the suffix of `argv` still to query;
  - every image before it is covered;
  - in the entry loop, `img` is the image just taken from `argv`, `idx` is in `1 .. Len(img.table) + 1`, and the entries before `idx` are covered.
- `WriteCovers` alone is not inductive, because it says nothing about the images queried before the write. Without the suffix relation, `QueryOne` could not tell which image of `argv` is loaded.
- The lemmas are:
  - `CoveredMono`: keys are never removed, since `Bind` only adds one;
  - `CoveredDone`: the loop has passed the last entry;
  - one lemma per action that changes the loop state.
- TLC checked `CInv` and `WriteCovers` on the libftbuf instance with two invocations (4354 states) before the proof.

`GenOffsetProofs` proves two theorems for every dump that satisfies
`DumpsAssumption` (every dump is a sequence of line records).

**`SectionsCut`: `Spec => []SectionsFromDump`.**

- `SectionsFromDump` is not inductive. `BodyClose` stores `curr_section` plus the `};` line, and nothing in the property says what `curr_section` holds.
- The strengthening `IInv` therefore adds:
  - While a class body is read, there is a header line `a` of class `sk` before `line_nr`. No `};` lies between them, and `curr_section` is the slice `a .. line_nr-1` (`BodyFrom`).
  - `section_members` is empty while sections are still cut.
  - Once `extract_members` runs, all four keys are in `sections`. This is the cardinality argument of `ScanEnd`: `AllKeys`, from `FS_Subset`.
  - The key being searched has its entry in `section_members`.
- Lemmas:
  - slice extension (`SubSeqOne`, `SubSeqExtend`);
  - dict assignment (`StoreFacts`);
  - the frame lemmas `SectionsUnchanged` and `ClassesUnchanged`.
- There is one step per action in `NextIInv`. `Matches` stays opaque: the guard of `SearchHit` supplies the witness line.

**`Refines`: `Spec => AbsSpec`.** The proof follows the refinement mapping
step by step:

- `InitRefines`: the initial state maps to the abstract initial state.
- `NextRefines`: under `IInv /\ Fresh`, every step of `Next` is a step of
  `Abs!Next` or leaves `<<lines, sections, found, pc = "done">>` unchanged.
  There is one case per group of actions:
  - `BodyClose` is `Cut(sk)`, with the header line of `BodyFrom` and `line_nr` as the witnesses;
  - `NextSection` is `Begin(k)`;
  - `SearchHit` is `Record(sk, mi)`, with `line_nr` as the line;
  - `BodyPastEnd`, `ScanEndMissing`, `SearchNotFound` and `Main` are `Finish`.
- `IInv` alone is not enough: it does not say that the class being cut, or the
  class `NextSection` takes, is new. `Fresh` adds:
  - while sections are cut, no key still in `section_keys` is in `sections`;
  - the class whose body is read is in neither;
  - no section `extract_members` has still to visit has an entry in `section_members`.
- `InitFresh` and `NextFresh` show that `IInv /\ Fresh` is inductive. TLC
  checked `IInv /\ Fresh` as an invariant on the five dumps before the proof.
- `StorePut`: the model's dict assignment `Store` is the abstract `Put`.
- The last step combines these with `PTL`.

TLC checks the following, and they stay with TLC:

- The layout properties `LayoutFaithful` and `FullsizeFillsBudget`. They are stated through the recursive operators of `CLayout`, and TLAPS cannot reason about a module that reaches a recursive operator.
- The action properties `CatalogComplete` and `TypedefStable`. They are stated over `SelectSeq`, for which the library has no lemmas.
- What the recursive definitions compute for every input. Proving that would need induction over data, which the installed provers cannot instantiate.
- Liveness (`InvocationEnds`, `Terminates`), which TLAPS cannot prove about ENABLED and fairness here.
- `WrittenCoversImages`, `OffsetsFaithful` and `DefinesUnique`. They are stated through the keys `SetToSortSeq`/`SortSeq` returns, or through `Upper`, and tlapm 1.4.5 cannot translate `SortSeq` at all. `CoversAtWrite` proves the part of `WrittenCoversImages` that is about `db`. `OffsetsFaithful` and `DefinesUnique` do not hold in general (see Findings).

## Not modelled

- **genoffset.py option parsing** (`getopt`, `--help`, `--file`, `--verbose`) and `do_print`. They select the input file and debug output only.
- **The class-header expressions of genoffset.py.** They are abstracted to the key and the two numbers they capture.
- **Toff:** prints only, and keeps no state.
- **The gdb reflection provider:** not code of this repository. It is the constants `Bins` and `Images`. `LoadFile` stands for loading another binary.
- **A failure between the two files of `write_out`.** `WriteOut` writes `kernel_inc.h` and `data_inc.c` in one step. If opening the second file fails, the new enum sits beside the old name table. This is recorded as a hazard at line 152, and `Aligned` is about the files as written together.
- **Composition.** The three commands share only the binary gdb has loaded. `Log_table` leaves the last image named on its command line loaded, so a later `fiasco-gen-ktrace-events` reflects that image. This is recorded as a hazard and not composed into one model.

## Plan for later work

1. An abstract specification of the header generator (the file as a function of the binary) and a refinement mapping from `KtraceGen`, in the way `GenOffsetAbs` is done for `genoffset.py`.
2. A composed model of one gdb session running `fiasco-libftbuf-gen` and then `fiasco-gen-ktrace-events`.
3. A violation run with two tags that collide under `replace(" ", "_")` (`k e` and `k_e`). It would show one enumerator for two rows of the name table.
4. A run in which an invocation of `fiasco-gen-ktrace-events` fails mid-walk and a later one succeeds, with a property about the text the failure leaves in the buffers.

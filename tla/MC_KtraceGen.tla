--------------------------- MODULE MC_KtraceGen ---------------------------
(***************************************************************************)
(* Binaries for the model checker: a 64-bit Fiasco whose Tb_entry has a    *)
(* gap and tail padding, subtypes declared out of offset order, a pointer, *)
(* a nested struct, an anonymous union, non-simple types and a full-size   *)
(* member; and one variant per fatal condition of the command.             *)
(***************************************************************************)
EXTENDS KtraceGenProps, TLC

Sc(p, size) == [code |-> "scalar", name |-> p, basic |-> JoinPath(p, "::"),
                size |-> size, fields |-> <<>>, target |-> "", count |-> 0]
Alias(p, basic, size) == [Sc(p, size) EXCEPT !.basic = basic]
Agg(code, p, size, fs) ==
  [code |-> code, name |-> p,
   basic |-> IF p = <<>> THEN code \o " {...}" ELSE JoinPath(p, "::"),
   size |-> size, fields |-> fs, target |-> "", count |-> 0]
Arr(t, basic, n, size) == [code |-> "array", name |-> <<>>, basic |-> basic,
                           size |-> size, fields |-> <<>>, target |-> t, count |-> n]
Ptr(t, basic) == [code |-> "ptr", name |-> <<>>, basic |-> basic, size |-> 8,
                  fields |-> <<>>, target |-> t, count |-> 0]
F(n, t, bitpos) == [name |-> n, type |-> t, bitpos |-> bitpos, base |-> FALSE]
BaseField == [name |-> "Tb_entry", type |-> "Tb_entry", bitpos |-> 0, base |-> TRUE]

\* Tb_entry: Mword at 0, Cpu_number at 12 (gap 8..12), unsigned at 16,
\* a static member, sizeof 24 (the subtypes start at 24).
TbEntry == Agg("struct", <<"Tb_entry">>, 24,
               <<F("_ip", "Mword", 0), F("_kclock", "unsigned", 128),
                 F("_cpu", "Cpu_number", 96), F("_sdata", "int", -1)>>)

CommonTypes ==
  [int |-> Sc(<<"int">>, 4), unsigned |-> Sc(<<"unsigned">>, 4),
   char |-> Sc(<<"char">>, 1), void |-> Sc(<<"void">>, 1),
   bool |-> Sc(<<"bool">>, 1)]
  @@ ("unsigned long" :> Sc(<<"unsigned long">>, 8))
  @@ ("Mword" :> Alias(<<"Mword">>, "unsigned long", 8))
  @@ ("Cap_index" :> Agg("struct", <<"Cap_index">>, 8, <<F("_v", "unsigned long", 0)>>))
  @@ ("Cpu_number" :> Agg("struct", <<"Cpu_number">>, 4, <<F("_n", "unsigned", 0)>>))
  @@ ("Context" :> Agg("struct", <<"Context">>, 64, <<>>))
  @@ ("Context *" :> Ptr("Context", "Context *"))
  @@ ("void *" :> Ptr("void", "void *"))
  @@ ("char [8]" :> Arr("char", "char [8]", 8, 8))
  @@ ("Mu_log::Map_log::Rights" :>
        Agg("struct", <<"Mu_log", "Map_log", "Rights">>, 8,
            <<F("_w", "int", 32), F("_r", "int", 0)>>))
  @@ ("union {...}" :> Agg("union", <<>>, 8,
                           <<F("_mw", "Mword", 0), F("_c", "char [8]", 0)>>))
  @@ ("Tb_entry" :> TbEntry)

\* Subtypes; field declaration order differs from offset order.
PfLog(okpos, capsize) ==
  Agg("struct", <<"Tb_entry_pf">>, 48,
      <<BaseField, F("_cap", "Cap_index", 256), F("_pfa", "Mword", 192),
        F("_ok", "bool", okpos)>>)
MapLog ==
  Agg("struct", <<"Mu_log", "Map_log">>, 48,
      <<BaseField, F("_ctx", "Context *", 192), F("_rights", "Mu_log::Map_log::Rights", 256),
        F("_u", "union {...}", 320)>>)
UnionLog(n) ==
  Agg("struct", <<"Tb_entry_union">>, 128,
      <<BaseField, F("_data", "Mword [" \o ToString(n) \o "]", 192)>>)
MwordArr(n) == ("Mword [" \o ToString(n) \o "]") :>
                 Arr("Mword", "Mword [" \o ToString(n) \o "]", n, 8 * n)

Catalog(okpos, capsize, n, extra) ==
  [b \in {1} |-> ("Tb_entry_pf" :> PfLog(okpos, capsize))
                 @@ ("Mu_log::Map_log" :> MapLog)
                 @@ ("Tb_entry_union" :> UnionLog(n)) @@ MwordArr(n)
                 @@ extra
                 @@ ("Cap_index" :> Agg("struct", <<"Cap_index">>, capsize,
                                        <<F("_v", "unsigned long", 0)>>))
                 @@ CommonTypes][1]

Bin(types, fixedEnum) == [types |-> types, mword |-> 8, fixedEnum |-> fixedEnum]

NoExtra == [k \in {} |-> Sc(<<"int">>, 4)]
FooLog == "Foo_log" :> Agg("struct", <<"Foo_log">>, 32, <<BaseField, F("_x", "int", 192)>>)
PtrArr == "Context * [2]" :> Arr("Context *", "Context * [2]", 2, 16)

GoodBin == Bin(Catalog(320, 8, 12, NoExtra), TRUE)

MCBins ==
  { GoodBin,
    Bin(Catalog(320, 8, 12, NoExtra), FALSE),                 \* no Tbuf_entry_fixed
    Bin(Catalog(320, 8, 12, FooLog), TRUE),                   \* unmapped subtype
    Bin(Catalog(324, 8, 12, NoExtra), TRUE),                  \* bit-field
    Bin(Catalog(320, 4, 12, NoExtra), TRUE),                  \* Cap_index size 4
    Bin(Catalog(320, 8, 14, NoExtra), TRUE),                  \* full-size too big
    Bin([Catalog(320, 8, 12, PtrArr) EXCEPT                   \* array of pointers
           !["Tb_entry_pf"].fields = Append(@, F("_two", "Context * [2]", 328))], TRUE) }

MCNameOrder == <<"Foo_log", "Mu_log::Map_log", "Tb_entry_pf", "Tb_entry_union">>

\* Tb_entry_pf also records a pointer to an Mword.
ClashBins ==
  {Bin([Catalog(320, 8, 12, "Mword *" :> Ptr("Mword", "Mword *")) EXCEPT
          !["Tb_entry_pf"].fields = Append(@, F("_pfa_ptr", "Mword *", 328))], TRUE)}

\* Map_log's nested struct has tail padding: { Mword; int; } is 16 bytes.
TailPadBins ==
  {Bin([Catalog(320, 8, 12, NoExtra) EXCEPT
          !["Mu_log::Map_log::Rights"] =
             Agg("struct", <<"Mu_log", "Map_log", "Rights">>, 16,
                 <<F("_a", "Mword", 0), F("_b", "int", 64)>>),
          !["Mu_log::Map_log"].fields[4] = F("_u", "union {...}", 384),
          !["Mu_log::Map_log"].size = 56], TRUE)}

\* Tb_entry_pf carries an enum declared inside a class.
ScopedEnumBins ==
  {Bin([Catalog(320, 8, 12, "Tb_entry_pf::Kind" :> Sc(<<"Tb_entry_pf", "Kind">>, 1))
          EXCEPT !["Tb_entry_pf"].fields = Append(@, F("_kind", "Tb_entry_pf::Kind", 328))],
       TRUE)}

\* Tb_entry_pf, not the full-size subtype, grows past the 128-byte budget.
OversizeBins ==
  {Bin([Catalog(320, 8, 12, NoExtra) EXCEPT
          !["Tb_entry_pf"].fields = Append(@, F("_blob", "Mword [12]", 384)),
          !["Tb_entry_pf"].size = 144], TRUE)}

GoodBins == {GoodBin}
=============================================================================

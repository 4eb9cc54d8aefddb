--------------------------- MODULE KtraceGenProps ---------------------------
(***************************************************************************)
(* Properties of the header written by fiasco-gen-ktrace-events that need *)
(* the compiler's reading of the emitted text (module CLayout).            *)
(***************************************************************************)
EXTENDS KtraceGen, CLayout

\* The emitted C struct places every field at the byte offset the binary's
\* reflected layout gives it (print_members, print_single_struct): packed
\* rendering, padding and the union overlay of the subtypes reproduce the
\* producer's in-memory format.
LayoutFaithful ==
  LET B == Body(file)
  IN  \A i \in 1..Len(B) : B[i].k = "mem" => AbsOff(B, i) = ExpOff(B, i)

\* Every subtype struct of the union ends within the guessed entry size,
\* and the full-size one ends exactly there (trailing padding, lines
\* 328-334, and the budget of line 363).
FullsizeFillsBudget ==
  LET B == Body(file)
  IN  \A i \in 1..Len(B) :
        B[i].k = "close" /\ B[i].ind = 4 =>
          LET end == AbsOff(B, OpenOf(B, i)) + RSize(B, i)
          IN  /\ end <= tbsize
              /\ B[i].name = "fullsize" => end = tbsize

\* The spellings of C's own types that the header may use unchanged.
CBaseTypes == {"char", "void", "int", "unsigned", "unsigned long", "long",
               "unsigned char", "short", "unsigned short", "long long",
               "unsigned long long", "signed char"}

\* Every type name a field of the written header uses is a C type: either
\* a typedef the header declares or one of C's own types, never a C++
\* name such as a scoped enum (handle_type, lines 266-275).
EmittedTypesPortable ==
  \A i \in 1..Len(file) :
    file[i].k = "mem" => file[i].ty \in TypedefKeys(file) \cup CBaseTypes
=============================================================================

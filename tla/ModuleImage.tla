----------------------------- MODULE ModuleImage -----------------------------
(***************************************************************************)
(* ModuleLoader::load between the checks of the header and the call of     *)
(* init (module/loader.cpp): where the sections of a relocatable object    *)
(* are placed, what the symbols resolve to, which relocations are applied, *)
(* and which pages lose their write permission.  One step per section,     *)
(* symbol and relocation; sizes and the 32-bit range are scaled down.      *)
(***************************************************************************)
EXTENDS Integers, Sequences

CONSTANTS
    PageSize,
    Sections,     \* section headers: records [alloc, exec, write, size, align]
    MaxSections,
    Symbols,      \* <<"undef", known>>, <<"abs", value>>, <<"section", offset>>; or no
                  \* symbol table at all: <<"missing", 0>>
    Relocations,  \* relocation types: "none", "64", "pc32", "pc64", "32", "32s", "bad"
    Addends,
    Base,         \* address of the module window
    Half          \* 2^31 scaled: a signed 32-bit value is in -Half .. Half - 1

VARIABLES
    placements,   \* sequence of [address, size, exec, write], one per section
    total,        \* total_size
    stage,        \* "layout", "symbols", "relocate", "descriptor", "protect", "done", "refused"
    symbol,       \* address of the symbol the relocations use
    patched,      \* set of <<place, width, value>> written
    readonly,     \* pages whose write permission was dropped
    mapped        \* the module memory is allocated

ivars == <<placements, total, stage, symbol, patched, readonly, mapped>>

align_up(n, a) == ((n + a - 1) \div a) * a
Nothing == [address |-> 0, size |-> 0, align |-> 1, exec |-> FALSE, write |-> FALSE]

IInit ==
    /\ placements = <<>> /\ total = 0 /\ stage = "layout"
    /\ symbol = 0 /\ patched = {} /\ readonly = {} /\ mapped = FALSE

Alignment(s) == IF s.exec THEN PageSize ELSE s.align

\* A bug: a section starts where the one before ends.
PlacedUnaligned(s) ==
    [address |-> total, size |-> s.size, align |-> s.align, exec |-> s.exec, write |-> s.write]

\* Where a section goes, and the size of the image after it.
Placed(s) ==
    [address |-> align_up(total, Alignment(s)), size |-> s.size, align |-> s.align,
     exec |-> s.exec, write |-> s.write]
\* A bug: the section after code may start on the code's last page.
TotalAfterShort(s) == align_up(total, Alignment(s)) + s.size

TotalAfter(s) ==
    LET end == align_up(total, Alignment(s)) + s.size
    IN  IF s.exec THEN align_up(end, PageSize) ELSE end

place_section(s) ==
    /\ stage = "layout" /\ Len(placements) < MaxSections
    /\ IF s.alloc /\ s.size > 0
       THEN placements' = Append(placements, Placed(s)) /\ total' = TotalAfter(s)
       ELSE placements' = Append(placements, Nothing) /\ total' = total
    /\ UNCHANGED <<stage, symbol, patched, readonly, mapped>>

Refuse == stage' = "refused" /\ mapped' = FALSE /\ UNCHANGED <<placements, total, symbol, patched, readonly>>

\* Nothing to load, or allocate_module_memory fails or succeeds.
allocate ==
    /\ stage = "layout" /\ placements # <<>>
    /\ \/ total = 0 /\ Refuse
       \/ total > 0 /\ Refuse
       \/ /\ total > 0 /\ mapped' = TRUE /\ stage' = "symbols"
          /\ placements' = [i \in 1..Len(placements) |->
                IF placements[i].size = 0 THEN placements[i]
                ELSE [placements[i] EXCEPT !.address = @ + Base]]
          /\ UNCHANGED <<total, symbol, patched, readonly>>

\* An undefined symbol must be an intrinsic, whose address is in the kernel.
resolve_symbol ==
    /\ stage = "symbols"
    /\ \E s \in Symbols :
        IF s[1] = "missing" \/ (s[1] = "undef" /\ ~s[2]) THEN Refuse
        ELSE /\ \/ s[1] = "undef" /\ symbol' = 0
                \/ s[1] = "abs" /\ symbol' = s[2]
                \/ s[1] = "section" /\ \E i \in 1..Len(placements) :
                                          symbol' = placements[i].address + s[2]
             /\ stage' = "relocate"
             /\ UNCHANGED <<placements, total, patched, readonly, mapped>>

\* A bug: one value too many is let through.
Fits32Late(v) == -Half <= v /\ v <= Half

Fits32(v) == -Half <= v /\ v < Half
\* The 64-bit value seen as unsigned: a negative one is far above the range.
FitsU32(v) == 0 <= v /\ v < 2 * Half

\* Applied in turn to every place of every section that has memory.
apply_relocation ==
    /\ stage = "relocate"
    /\ \E type \in Relocations, a \in Addends, i \in 1..Len(placements) :
        /\ placements[i].size > 0
        /\ \E offset \in 0..(placements[i].size - 1) :
            LET p == placements[i].address + offset
                value == IF type \in {"pc32", "pc64"} THEN symbol + a - p ELSE symbol + a
                refused == \/ type = "bad"
                           \/ type \in {"pc32", "32s"} /\ ~Fits32(value)
                           \/ type = "32" /\ ~FitsU32(value)
            IN  IF refused THEN Refuse
                ELSE /\ patched' = IF type = "none" THEN patched
                                   ELSE patched \cup {<<p, type, value>>}
                     /\ stage' = "descriptor"
                     /\ UNCHANGED <<placements, total, symbol, readonly, mapped>>

\* The module says what it is, in a version of the table the kernel has.
find_descriptor ==
    /\ stage = "descriptor"
    /\ \/ Refuse
       \/ stage' = "protect" /\ UNCHANGED <<placements, total, symbol, patched, readonly, mapped>>

Pages(from, size) == (from \div PageSize)..((from + size - 1) \div PageSize)
\* protect is called with the size rounded up to whole pages.
protect_text ==
    /\ stage = "protect"
    /\ readonly' = UNION {Pages(placements[i].address, align_up(placements[i].size, PageSize)) :
                            i \in {j \in 1..Len(placements) : placements[j].exec}}
    /\ stage' = "done"
    /\ UNCHANGED <<placements, total, symbol, patched, mapped>>

INext ==
    \/ \E s \in Sections : place_section(s)
    \/ allocate \/ resolve_symbol \/ apply_relocation \/ find_descriptor \/ protect_text

-----------------------------------------------------------------------------

Loaded == {i \in 1..Len(placements) : placements[i].size > 0}

(* Sections do not overlap, lie inside the single allocation, and have the *)
(* alignment they ask for.                                                 *)
LaidOut ==
    LET base == IF mapped THEN Base ELSE 0 IN
    stage # "refused" =>
    \A i \in Loaded :
        LET p == placements[i] IN
        /\ (p.address - base) % p.align = 0
        /\ p.address + p.size <= base + total
        /\ \A j \in Loaded : j > i => p.address + p.size <= placements[j].address

(* "an executable section has to own whole pages": no byte of a section    *)
(* that is not code loses its write permission with the code.              *)
TextAlone ==
    \A i \in Loaded : (stage = "done" /\ ~placements[i].exec) =>
        Pages(placements[i].address, placements[i].size) \cap readonly = {}

(* Whatever a 32-bit relocation stores reads back, sign- or zero-extended  *)
(* as its type says, as the address the symbol has.                        *)
SignExtended(v) == LET w == v % (2 * Half) IN IF w >= Half THEN w - 2 * Half ELSE w
RelocationsExact ==
    \A r \in patched :
        /\ r[2] = "32" => r[3] % (2 * Half) = r[3]
        /\ r[2] = "32s" => SignExtended(r[3]) = r[3]
        /\ r[2] = "pc32" => \E a \in Addends : r[1] + SignExtended(r[3]) = symbol + a
=============================================================================

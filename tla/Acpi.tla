-------------------------------- MODULE Acpi --------------------------------
(***************************************************************************)
(* acpi_init: from the RSDP to the lists of the MADT's entries             *)
(* (acpi/acpi.c, acpi/tbl/rsdt.c, acpi/tbl/madt.c).                        *)
(*                                                                         *)
(* The firmware's tables are an input.  A table is its signature, the sum  *)
(* of its bytes and, for a MADT, its length and its entries; lengths are   *)
(* in bytes, and nobody checks an entry's.  The root table lists the other *)
(* tables by their addresses, one 32-bit word each in an RSDT, two in an   *)
(* XSDT.  Tables lie below 4 GiB, so the upper word of an address is 0,    *)
(* and what lies at address 0 is not a table.                              *)
(***************************************************************************)
EXTENDS Integers, Sequences, FiniteSets, SequencesExt

CONSTANTS
    Firmwares,  \* the tables the kernel may find
    BYTE_MAX    \* the largest value of a uint8_t loop counter (255)

SDT_HDR == 36
MADT_HDR == 44
ARRAY == 32     \* pointers in the 256 bytes asked for for each list
CAPACITY == 63  \* pointers in the buffer of 512 bytes that malloc takes for them

LapicEntry == [type : {0}, length : 0 .. 255]
IoapicEntry == [type : {1}, length : 0 .. 255, gsi_base : Nat, max_redir : 0 .. 255]
IsoEntry == [type : {2}, length : 0 .. 255, irq_src : 0 .. 255, gsi : Nat,
             flags : SUBSET {"low", "level"}]
NmiEntry == [type : {4}, length : 0 .. 255]
OtherEntry == [type : (0 .. 255) \ {0, 1, 2, 4}, length : 0 .. 255]
MadtEntry == LapicEntry \cup IoapicEntry \cup IsoEntry \cup NmiEntry \cup OtherEntry

\* Where the k-th entry begins: each is taken to end after its length.
Offset(t, k) ==
    LET after[j \in 0 .. Len(t.entries)] ==
            IF j = 0 THEN MADT_HDR ELSE after[j - 1] + t.entries[j].length
    IN after[k - 1]

\* The entries of a MADT are what a walk from length to length meets: all
\* begin before the end of the table, and behind them the table ends, unless
\* the last one has length 0, so that the walk never gets behind it.
Met(t) ==
    /\ \A k \in DOMAIN t.entries :
          Offset(t, k) < t.len /\ (t.entries[k].length = 0 => k = Len(t.entries))
    /\ \/ Offset(t, Len(t.entries) + 1) >= t.len
       \/ \E k \in DOMAIN t.entries : t.entries[k].length = 0

Table == {t \in [sig : {"APIC", "ROOT", "OTHER"}, sum : 0 .. 255,
                 len : Nat, entries : Seq(MadtEntry)] : t.sig = "APIC" => Met(t)}

\* root describes the XSDT or the RSDT, whichever the kernel will use.
Firmware == [tags : Seq(STRING), rsdp_sum : 0 .. 255, rev : 0 .. 255, xsdt_addr : BOOLEAN,
             root : Table, tables : Seq(Table), apic : BOOLEAN]

ASSUME AcpiAssumption == Firmwares \subseteq Firmware /\ BYTE_MAX \in Nat

VARIABLES
    fw,             \* the firmware's tables; never written
    pc,             \* where acpi_init is; "apic" once it has returned
    status,         \* "run", or "panic", "hung" or "wild" for good
    has_xsdt,
    i,              \* the loop variable (1-based)
    madt,           \* the MADT's index in fw.tables, or 0
    madt_lapics, madt_ioapics, madt_isos, madt_lapic_nmis

lists == <<madt_lapics, madt_ioapics, madt_isos, madt_lapic_nmis>>
acpiVars == <<fw, pc, status, has_xsdt, i, madt, lists>>

-----------------------------------------------------------------------------
\* hdr.len of the root table.
EntrySize == IF has_xsdt THEN 8 ELSE 4
RootLen == SDT_HDR + EntrySize * Len(fw.tables)

\* Mutant of acpi_verify_sdt_checksum: the loop counter is wide enough.
acpi_verify_sdt_checksum_Wide(t, len) == IF t.sum = 0 THEN "yes" ELSE "panic"

\* The loop counter is a uint8_t: it never reaches a larger length.  A wrong
\* sum panics instead of returning false.
acpi_verify_sdt_checksum(t, len) ==
    IF len > BYTE_MAX THEN "hung" ELSE IF t.sum = 0 THEN "yes" ELSE "panic"

acpi_verify_sdt(t, len, sig) ==
    IF t.sig = sig THEN acpi_verify_sdt_checksum(t, len) ELSE "no"

\* log(PANIC, ...) and a loop without end.
Stop(how) ==
    /\ status' = how
    /\ UNCHANGED <<fw, pc, has_xsdt, i, madt, lists>>

\* The position of the first tag of that kind; 0 is NULL.
stivale2_get_tag(id) == SelectInSeq(fw.tags, LAMBDA t : t = id)

\* acpi_init uses the tag without a look at whether there is one.
acpi_rsdp_init ==
    /\ status = "run" /\ pc = "rsdp"
    /\ IF stivale2_get_tag("rsdp") = 0 THEN Stop("wild")
       ELSE IF fw.rsdp_sum # 0 THEN Stop("panic")
       ELSE /\ has_xsdt' = (fw.rev >= 2 /\ fw.xsdt_addr)
            /\ pc' = "root"
            /\ UNCHANGED <<fw, status, i, madt, lists>>

RootTable ==
    /\ status = "run" /\ pc = "root"
    /\ LET v == acpi_verify_sdt(fw.root, RootLen, "ROOT")
       IN IF v # "yes"
          THEN Stop(IF v = "no" THEN "panic" ELSE v)
          ELSE /\ pc' = "find" /\ i' = 1
               /\ UNCHANGED <<fw, status, has_xsdt, madt, lists>>

entry_count == (RootLen - SDT_HDR) \div EntrySize

\* The table that the k-th word after the header points to, 0 for none:
\* the entries of an xsdt_t are declared as 32-bit words.
Word(k) ==
    IF ~ has_xsdt THEN k ELSE IF k % 2 = 1 THEN (k + 1) \div 2 ELSE 0

\* One iteration of the loop of _acpi_find_sdt("APIC").
acpi_find_sdt ==
    /\ status = "run" /\ pc = "find" /\ i <= entry_count
    /\ LET w == Word(i)
           v == IF w \in DOMAIN fw.tables
                THEN acpi_verify_sdt(fw.tables[w], fw.tables[w].len, "APIC")
                ELSE "no"
       IN CASE v = "no" -> /\ i' = i + 1
                           /\ UNCHANGED <<fw, pc, status, has_xsdt, madt, lists>>
            [] v = "yes" -> /\ madt' = w /\ pc' = "malloc"
                            /\ UNCHANGED <<fw, status, has_xsdt, i, lists>>
            [] OTHER -> Stop(v)

NotFound ==
    /\ status = "run" /\ pc = "find" /\ i > entry_count
    /\ Stop("panic")

\* The four arrays; malloc panics when it has no memory.
MadtMalloc ==
    /\ status = "run" /\ pc = "malloc"
    /\ \/ /\ pc' = "walk" /\ i' = 1
          /\ UNCHANGED <<fw, status, has_xsdt, madt, lists>>
       \/ Stop("panic")

Add(list, e, type) == IF e.type = type THEN Append(list, e) ELSE list

\* The walk goes on behind the entry e, or meets it again for good when its
\* length is 0; the lists then grow beyond their buffers, or nothing changes.
Advance(e) ==
    /\ i' = IF e.length = 0 THEN i ELSE i + 1
    /\ status' = IF \E l \in {madt_lapics', madt_ioapics', madt_isos', madt_lapic_nmis'} :
                       Len(l) > CAPACITY
                 THEN "wild"
                 ELSE IF e.length = 0 /\ e.type \notin {0, 1, 2, 4} THEN "hung" ELSE "run"

\* Mutant of WalkEntry: the case of the overrides has no break.
WalkEntry_NoBreak ==
    /\ status = "run" /\ pc = "walk" /\ Offset(fw.tables[madt], i) < fw.tables[madt].len
    /\ LET e == fw.tables[madt].entries[i]
       IN /\ madt_lapics' = Add(madt_lapics, e, 0)
          /\ madt_ioapics' = Add(madt_ioapics, e, 1)
          /\ madt_isos' = Add(madt_isos, e, 2)
          /\ madt_lapic_nmis' = Add(Add(madt_lapic_nmis, e, 2), e, 4)
          /\ Advance(e)
    /\ UNCHANGED <<fw, pc, has_xsdt, madt>>

\* One iteration of the loop of _acpi_madt_init.
WalkEntry ==
    /\ status = "run" /\ pc = "walk" /\ Offset(fw.tables[madt], i) < fw.tables[madt].len
    /\ LET e == fw.tables[madt].entries[i]
       IN /\ madt_lapics' = Add(madt_lapics, e, 0)
          /\ madt_ioapics' = Add(madt_ioapics, e, 1)
          /\ madt_isos' = Add(madt_isos, e, 2)
          /\ madt_lapic_nmis' = Add(madt_lapic_nmis, e, 4)
          /\ Advance(e)
    /\ UNCHANGED <<fw, pc, has_xsdt, madt>>

WalkDone ==
    /\ status = "run" /\ pc = "walk" /\ Offset(fw.tables[madt], i) >= fw.tables[madt].len
    /\ pc' = "apic"
    /\ UNCHANGED <<fw, status, has_xsdt, i, madt, lists>>

AcpiInit ==
    /\ fw \in Firmwares
    /\ pc = "rsdp" /\ status = "run" /\ has_xsdt = FALSE /\ i = 1 /\ madt = 0
    /\ madt_lapics = <<>> /\ madt_ioapics = <<>>
    /\ madt_isos = <<>> /\ madt_lapic_nmis = <<>>

acpi_init ==
    \/ acpi_rsdp_init \/ RootTable \/ acpi_find_sdt \/ NotFound
    \/ MadtMalloc \/ WalkEntry \/ WalkDone

-----------------------------------------------------------------------------
(* Properties.                                                             *)

\* The entries of a type in the order of the table: the one that has j - 1
\* of them in front of it is the j-th.
OfType(t, type) ==
    LET I == {k \in DOMAIN t.entries : t.entries[k].type = type}
    IN [j \in 1 .. Cardinality(I) |->
            t.entries[CHOOSE k \in I : Cardinality({q \in I : q <= k}) = j]]

\* When acpi_init returns it has used the first MADT the root table lists,
\* and each list holds that table's entries of its type, all of them and in
\* order: the first I/O APIC and the first override of an IRQ are the first
\* ones of the firmware.
MadtCollected ==
    pc \notin {"rsdp", "root", "find", "malloc", "walk"} =>
        /\ madt = SelectInSeq(fw.tables, LAMBDA t : t.sig = "APIC")
        /\ madt_lapics = OfType(fw.tables[madt], 0)
        /\ madt_ioapics = OfType(fw.tables[madt], 1)
        /\ madt_isos = OfType(fw.tables[madt], 2)
        /\ madt_lapic_nmis = OfType(fw.tables[madt], 4)

\* An entry is at least as long as its type's structure in madt.h.
MinLength(type) == CASE type = 0 -> 8 [] type = 1 -> 12 [] type = 2 -> 10
                     [] type = 4 -> 6 [] OTHER -> 2
Conforming(t) == \A k \in DOMAIN t.entries : t.entries[k].length >= MinLength(t.entries[k].type)

\* With a MADT of conforming entries the unchecked arrays of _acpi_madt_init
\* are large enough.  The reason is not in that function: a MADT long enough
\* to fill one never gets past the 8-bit counter of the checksum loop.  Only
\* the short NMI entries can be more than were asked for, by up to four, but
\* no more than the buffer malloc takes has room for.  (With shorter entries,
\* or one of length 0, the walk writes beyond the buffers.)
ArraysFit ==
    madt # 0 /\ Conforming(fw.tables[madt]) =>
        /\ \A l \in {madt_lapics, madt_ioapics, madt_isos} : Len(l) <= ARRAY
        /\ Len(madt_lapic_nmis) <= CAPACITY

\* "Could not find SDT with sig '%s'!" is reported only for a table that the
\* root table does not list.
ListedSdtIsFound ==
    pc = "find" /\ i > entry_count =>
        \A k \in DOMAIN fw.tables : fw.tables[k].sig # "APIC"
=============================================================================

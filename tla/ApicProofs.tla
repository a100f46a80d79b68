----------------------------- MODULE ApicProofs -----------------------------
(***************************************************************************)
(* Theorems about acpi_init and apic_init, for every set of firmware       *)
(* tables, any number of ISA interrupts and any local APIC.                *)
(***************************************************************************)
EXTENDS Apic, NumberSets, SequenceTheorems

\* An entry of a MADT of type 2 is an interrupt source override.
LEMMA OverrideEntry == \A e \in MadtEntry : e.type = 2 => e \in IsoEntry
  BY DEF MadtEntry, LapicEntry, IoapicEntry, IsoEntry, NmiEntry, OtherEntry

\* The first element of a list that passes a test, as its place, or 0.
LEMMA FirstInList ==
  ASSUME NEW n \in Nat, NEW I \in SUBSET (1 .. n), NEW k,
         k = IF I # {} THEN Min(I) ELSE 0
  PROVE  k = 0 \/ k \in I
  <1>1. I \in SUBSET Nat /\ IsFiniteSet(I)
    <2>1. IsFiniteSet(1 .. n)
      BY FS_Interval
    <2>2. IsFiniteSet(I)
      BY <2>1, FS_Subset
    <2> QED
      BY <2>2
  <1> QED
    BY <1>1, MinIsLeast

\* The entries of a table are those of a MADT, and those of a MADT are the ones
\* its walk meets.
LEMMA TableEntries ==
  ASSUME NEW f \in Firmwares, NEW k \in DOMAIN f.tables
  PROVE  /\ f.tables[k].entries \in Seq(MadtEntry) /\ f.tables[k].len \in Nat
         /\ f.tables[k].sig = "APIC" => Met(f.tables[k])
  <1>1. f.tables \in Seq(Table)
    BY AcpiAssumption DEF Firmware
  <1> DEFINE t == f.tables[k]
  <1>2. t \in Table
    BY <1>1, LenProperties, ElementOfSeq
  <1> HIDE DEF t
  <1>3. /\ t \in [sig : {"APIC", "ROOT", "OTHER"}, sum : 0 .. 255,
                  len : Nat, entries : Seq(MadtEntry)]
        /\ t.sig = "APIC" => Met(t)
    BY <1>2 DEF Table
  <1> QED
    BY <1>3 DEF t

\* Every entry has a length.
LEMMA EntryLength == \A e \in MadtEntry : e.length \in Nat
  <1> SUFFICES ASSUME NEW e \in MadtEntry PROVE e.length \in Nat
    OBVIOUS
  <1>1. e.length \in 0 .. 255
    BY DEF MadtEntry, LapicEntry, IoapicEntry, IsoEntry, NmiEntry, OtherEntry
  <1> QED
    BY <1>1

\* The first entry begins behind the header of the MADT and each other one where
\* the one in front of it ends: the sums in Offset exist.
LEMMA OffsetSteps ==
  ASSUME NEW t, t.entries \in Seq(MadtEntry)
  PROVE  /\ Len(t.entries) \in Nat /\ Offset(t, 1) = MADT_HDR
         /\ \A k \in 1 .. (Len(t.entries) + 1) : Offset(t, k) \in Nat
         /\ \A k \in 1 .. Len(t.entries) : Offset(t, k + 1) = Offset(t, k) + t.entries[k].length
  <1> DEFINE n == Len(t.entries)
             len(k) == t.entries[k].length
             g == CHOOSE h : h = [k \in 0 .. n |-> IF k = 0 THEN MADT_HDR ELSE h[k - 1] + len(k)]
             step == [p \in (1 .. n) \X Nat |-> p[2] + len(p[1])]
  <1>0. n \in Nat
    BY LenProperties
  <1>1. \A k \in 1 .. n : t.entries[k] \in MadtEntry
    BY ElementOfSeq
  <1>2. \A k \in 1 .. n : len(k) \in Nat
    BY <1>1, EntryLength
  <1>3. \A k : Offset(t, k) = g[k - 1]
    BY DEF Offset
  <1> HIDE DEF n, len
  <1>4. g \in [0 .. n -> Nat]
        /\ g = [k \in 0 .. n |-> IF k = 0 THEN MADT_HDR ELSE g[k - 1] + len(k)]
    <2>1. step \in [(1 .. n) \X Nat -> Nat]
      BY <1>2
    <2>2. MADT_HDR \in Nat
      BY DEF MADT_HDR
    <2>3. PICK f \in [0 .. n -> Nat] :
             f[0] = MADT_HDR /\ \A k \in 1 .. n : f[k] = step[<<k, f[k - 1]>>]
      <3> DEFINE V == Nat
      <3>1. step \in [(1 .. n) \X V -> V] /\ MADT_HDR \in V
        BY <2>1, <2>2
      <3> HIDE DEF step, V
      <3>2. \E f \in [0 .. n -> V] : Iterates(f, n, MADT_HDR, step)
        BY <1>0, <3>1, RecursionExists
      <3> QED
        BY <3>2 DEF V, Iterates
    <2>4. \A k \in 1 .. n : f[k] = f[k - 1] + len(k)
      <3> TAKE k \in 1 .. n
      <3>1. k - 1 \in 0 .. n
        BY <1>0
      <3>2. <<k, f[k - 1]>> \in (1 .. n) \X Nat
        BY <3>1
      <3> QED
        BY <2>3, <3>2
    <2>5. f = [k \in 0 .. n |-> IF k = 0 THEN MADT_HDR ELSE f[k - 1] + len(k)]
      <3> HIDE DEF step
      <3>1. \A k \in 0 .. n : k # 0 => k \in 1 .. n
        BY <1>0
      <3>2. \A k \in 0 .. n : f[k] = IF k = 0 THEN MADT_HDR ELSE f[k - 1] + len(k)
        BY <2>3, <2>4, <3>1
      <3> QED
        BY <3>2
    <2>6. g = [k \in 0 .. n |-> IF k = 0 THEN MADT_HDR ELSE g[k - 1] + len(k)]
      BY <2>5, Zenon
    <2> HIDE DEF g
    <2> DEFINE S == {k \in 0 .. n : g[k] \in Nat}
    <2>7. 0 \in S
      BY <1>0, <2>2, <2>6
    <2>8. ASSUME NEW k \in 0 .. (n - 1), k \in S PROVE k + 1 \in S
      <3>1. k + 1 \in 0 .. n /\ k + 1 # 0 /\ (k + 1) - 1 = k /\ k + 1 \in 1 .. n
        BY <1>0
      <3>2. g[k + 1] = g[k] + len(k + 1)
        BY <2>6, <3>1
      <3>3. g[k] \in Nat /\ len(k + 1) \in Nat
        BY <1>2, <2>8, <3>1
      <3> QED
        BY <3>1, <3>2, <3>3
    <2>9. \A k \in 0 .. n : k \in S
      <3> HIDE DEF S
      <3> QED
        BY <1>0, <2>7, <2>8, IntervalInduction
    <2> QED
      BY <2>6, <2>9
  <1> HIDE DEF g
  <1>5. g[0] = MADT_HDR /\ \A k \in 1 .. n : g[k] = g[k - 1] + len(k)
    <2>1. 0 \in 0 .. n /\ \A k \in 1 .. n : k \in 0 .. n /\ k # 0
      BY <1>0
    <2>2. \A k \in 0 .. n : g[k] = IF k = 0 THEN MADT_HDR ELSE g[k - 1] + len(k)
      BY <1>4
    <2> QED
      BY <2>1, <2>2
  <1>6. \A k \in 1 .. (n + 1) : k - 1 \in 0 .. n
    BY <1>0
  <1>7. \A k \in 1 .. n : (k + 1) - 1 = k
    BY <1>0
  <1>8. Offset(t, 1) = g[0]
    BY <1>3
  <1>9. \A k \in 1 .. (n + 1) : Offset(t, k) \in Nat
    BY <1>3, <1>4, <1>6
  <1>10. \A k \in 1 .. n : Offset(t, k + 1) = Offset(t, k) + len(k)
    BY <1>3, <1>5, <1>7
  <1> QED
    BY <1>0, <1>5, <1>8, <1>9, <1>10 DEF n, len

\* While the table has not ended the walk is at one of its entries, and it has
\* passed them all when it has.
LEMMA WalkPlace ==
  ASSUME NEW t, t.entries \in Seq(MadtEntry), t.len \in Nat, Met(t),
         NEW k \in Nat \ {0}, k <= Len(t.entries) + 1,
         \A j \in 1 .. (k - 1) : t.entries[j].length # 0
  PROVE  /\ Offset(t, k) < t.len => k \in 1 .. Len(t.entries)
         /\ Offset(t, k) >= t.len => k = Len(t.entries) + 1
  <1>0. /\ Len(t.entries) \in Nat /\ DOMAIN t.entries = 1 .. Len(t.entries)
        /\ \A j \in 1 .. (Len(t.entries) + 1) : Offset(t, j) \in Nat
    BY OffsetSteps, LenProperties
  <1>1. Offset(t, k) \in Nat
    BY <1>0
  <1>2. CASE k = Len(t.entries) + 1
    <2>1. \A j \in DOMAIN t.entries : t.entries[j].length # 0
      BY <1>0, <1>2
    <2>2. Offset(t, k) >= t.len
      BY <1>2, <2>1 DEF Met
    <2> QED
      BY <1>1, <1>2, <2>2
  <1>3. CASE k # Len(t.entries) + 1
    <2>1. k \in 1 .. Len(t.entries)
      BY <1>0, <1>3
    <2>2. Offset(t, k) < t.len
      BY <1>0, <2>1 DEF Met
    <2> QED
      BY <1>1, <2>1, <2>2
  <1> QED
    BY <1>2, <1>3

-----------------------------------------------------------------------------
(* The invariant.                                                          *)

RedirEntry == [vector : 0 .. 255, flags : SUBSET {"low", "level"},
               mask : BOOLEAN, dest : 0 .. 255]

\* What acpi_init has found, at each point of it.
AcpiTypes ==
    /\ fw \in Firmwares
    /\ pc \in {"rsdp", "root", "find", "malloc", "walk", "apic", "low", "high", "done"}
    /\ status \in {"run", "panic", "hung", "wild"}
    /\ has_xsdt \in BOOLEAN
    /\ i \in Nat \ {0} /\ madt \in Nat
    /\ pc \notin {"rsdp", "root", "find"} =>
          madt \in DOMAIN fw.tables /\ fw.tables[madt].sig = "APIC"
    /\ pc = "walk" =>
          /\ i <= Len(fw.tables[madt].entries) + 1
          /\ \A k \in 1 .. (i - 1) : fw.tables[madt].entries[k].length # 0
    /\ madt_isos \in Seq(IsoEntry)
    /\ madt_ioapics \in Seq(Ioapics(fw))

\* Every pin is masked, so that nothing was delivered.
ApicTypes ==
    /\ pass \in 0 .. 2 /\ irq \in 0 .. ISA_IRQS /\ irq_bitmap \in SUBSET Nat
    /\ redir \in [Gsis(fw) -> RedirEntry]
    /\ enabled \in BOOLEAN
    /\ \A g \in Gsis(fw) : redir[g].mask = TRUE
    /\ in_service = {}

\* Where the two loops are, and the half of an entry that is written.
LoopInv ==
    /\ pc \in {"low", "high", "done"} <=> pass \in {1, 2}
    /\ pc = "done" => pass = 2 /\ irq = ISA_IRQS
    /\ pc = "high" =>
          /\ irq < ISA_IRQS /\ Gsi(irq) \in Gsis(fw)
          /\ redir[Gsi(irq)].vector = irq + 32
          /\ redir[Gsi(irq)].flags = IsoFlags(irq)
          /\ pass = 2 => irq \notin irq_bitmap

\* The IRQs whose routing the property is about.
Good(n) == n \in Moved \/ (\A m \in Moved : Gsi(m) # n)
Routed(n) == [vector |-> n + 32, flags |-> IsoFlags(n), mask |-> TRUE, dest |-> LapicId]

\* In the second loop the bits are those of the IRQs it has passed, and each
\* of these that the property is about has its bit and its entry.
RouteInv ==
    pass = 2 =>
        /\ \A g \in irq_bitmap : \E m \in 0 .. (ISA_IRQS - 1) : m < irq /\ Gsi(m) = g
        /\ Unambiguous => \A n \in 0 .. (ISA_IRQS - 1) : n < irq /\ Good(n) =>
              Gsi(n) \in irq_bitmap /\ Gsi(n) \in Gsis(fw) /\ redir[Gsi(n)] = Routed(n)

ApicInv == AcpiTypes /\ ApicTypes /\ LoopInv /\ RouteInv

-----------------------------------------------------------------------------
(* The overrides.                                                          *)

FirstIso(l, n) ==
    LET I == {k \in 1 .. Len(l) : l[k].irq_src = n} IN IF I # {} THEN Min(I) ELSE 0

\* The first override is the one ioapic_set_irq_redir finds.
LEMMA IsoIsFirst == \A n : Iso(n) = FirstIso(madt_isos, n)
  BY DEF Iso, FirstIso, SelectInSeq

\* While the overrides are the same, so is all that is derived from them.
LEMMA SameOverrides ==
  ASSUME madt_isos' = madt_isos
  PROVE  /\ \A n : Gsi(n)' = Gsi(n) /\ IsoFlags(n)' = IsoFlags(n)
         /\ Moved' = Moved /\ (Unambiguous' <=> Unambiguous)
  <1>1. \A n : Iso(n)' = Iso(n)
    BY DEF Iso, SelectInSeq
  <1>2. \A n : Gsi(n)' = Gsi(n) /\ IsoFlags(n)' = IsoFlags(n)
    BY <1>1 DEF Gsi, IsoFlags
  <1>3. Moved' = Moved
    BY <1>2 DEF Moved
  <1>4. Unambiguous' <=> Unambiguous
    BY <1>2, <1>3 DEF Unambiguous
  <1> QED
    BY <1>2, <1>3, <1>4

\* An interrupt is a number, and its flags are polarity and trigger mode.
LEMMA GsiType ==
  ASSUME madt_isos \in Seq(IsoEntry), NEW n \in Nat
  PROVE  Gsi(n) \in Nat /\ IsoFlags(n) \in SUBSET {"low", "level"}
  <1> DEFINE I == {k \in 1 .. Len(madt_isos) : madt_isos[k].irq_src = n}
  <1>1. Iso(n) = IF I # {} THEN Min(I) ELSE 0
    BY IsoIsFirst DEF FirstIso
  <1>2. I \in SUBSET (1 .. Len(madt_isos)) /\ Len(madt_isos) \in Nat
    BY LenProperties
  <1>3. Iso(n) = 0 \/ Iso(n) \in I
    <2> HIDE DEF I
    <2> QED
      BY <1>1, <1>2, FirstInList
  <1>4. Iso(n) # 0 => madt_isos[Iso(n)] \in IsoEntry
    BY <1>2, <1>3, ElementOfSeq
  <1> QED
    BY <1>4 DEF Gsi, IsoFlags, IsoEntry

\* An interrupt that ioapic_i_from_gsi finds is that of a pin.
LEMMA FoundIsPin ==
  ASSUME madt_ioapics \in Seq(Ioapics(fw)), NEW g, ioapic_i_from_gsi(g) # 0,
         fw \in Firmwares, g \in Nat
  PROVE  g \in Gsis(fw)
  <1> DEFINE I == {k \in 1 .. Len(madt_ioapics) :
                      /\ g >= madt_ioapics[k].gsi_base
                      /\ g < madt_ioapics[k].gsi_base + madt_ioapics[k].max_redir}
             x == ioapic_i_from_gsi(g)
  <1>1. x = IF I # {} THEN Min(I) ELSE 0
    BY DEF ioapic_i_from_gsi, SelectInSeq
  <1>2. I \in SUBSET (1 .. Len(madt_ioapics)) /\ Len(madt_ioapics) \in Nat
    BY LenProperties
  <1>3. x \in I
    <2> HIDE DEF I, x
    <2>1. x = 0 \/ x \in I
      BY <1>1, <1>2, FirstInList
    <2> QED
      BY <2>1 DEF x
  <1> HIDE DEF x
  <1>4. madt_ioapics[x] \in Ioapics(fw)
    BY <1>2, <1>3, ElementOfSeq
  <1> DEFINE a == madt_ioapics[x]
  <1>5. g >= a.gsi_base /\ g < a.gsi_base + a.max_redir /\ a \in Ioapics(fw)
    BY <1>3, <1>4
  <1> HIDE DEF a
  <1>6. a.gsi_base \in Nat /\ a.max_redir \in Nat
    <2>1. PICK k \in DOMAIN fw.tables : a \in ToSet(fw.tables[k].entries) /\ a.type = 1
      BY <1>5 DEF Ioapics
    <2>4. fw.tables[k].entries \in Seq(MadtEntry)
      BY TableEntries
    <2>5. a \in MadtEntry
      <3> DEFINE s == fw.tables[k].entries
      <3>1. s \in Seq(MadtEntry) /\ a \in ToSet(s)
        BY <2>1, <2>4
      <3> HIDE DEF s
      <3>2. PICK m \in DOMAIN s : a = s[m]
        BY <3>1 DEF ToSet
      <3> QED
        BY <3>1, <3>2, LenProperties, ElementOfSeq
    <2>6. a \in IoapicEntry
      BY <2>1, <2>5 DEF MadtEntry, LapicEntry, IoapicEntry, IsoEntry, NmiEntry, OtherEntry
    <2>7. a.gsi_base \in Nat /\ a.max_redir \in 0 .. 255
      BY <2>6 DEF IoapicEntry
    <2>8. \A y \in 0 .. 255 : y \in Nat
      OBVIOUS
    <2> QED
      BY <2>7, <2>8, Zenon
  <1>7. g \in Pins(a)
    BY <1>5, <1>6 DEF Pins
  <1> QED
    BY <1>5, <1>7 DEF Gsis

-----------------------------------------------------------------------------
(* acpi_init keeps the invariant.                                          *)

\* The invariant holds at first.
LEMMA ApicInit == Init => ApicInv
  <1> SUFFICES ASSUME Init PROVE ApicInv
    OBVIOUS
  <1>1. AcpiTypes
    <2>1. madt_isos \in Seq(IsoEntry) /\ madt_ioapics \in Seq(Ioapics(fw))
      BY EmptySeq DEF Init, AcpiInit
    <2>2. has_xsdt \in BOOLEAN
      BY Zenon DEF Init, AcpiInit
    <2> QED
      BY <2>1, <2>2 DEF Init, AcpiInit, AcpiTypes
  <1>2. ApicTypes
    <2>1. ResetEntry \in RedirEntry /\ ResetEntry.mask = TRUE
      BY DEF ResetEntry, RedirEntry
    <2>2. 0 \in 0 .. 2 /\ 0 \in 0 .. ISA_IRQS
      BY ApicAssumption
    <2> QED
      BY <2>1, <2>2 DEF Init, ApicTypes
  <1>3. LoopInv /\ RouteInv
    BY DEF Init, AcpiInit, LoopInv, RouteInv
  <1> QED
    BY <1>1, <1>2, <1>3 DEF ApicInv

\* Where pass, irq, the bits, the pins and the overrides are as they were, the
\* second half of the invariant is.
LEMMA SameRoutes ==
  ASSUME ApicInv, UNCHANGED <<fw, madt_isos, pass, irq, irq_bitmap, redir, enabled, in_service>>,
         pc' = pc \/ (pc' # "high" /\ (pc' = "done" => pass = 2 /\ irq = ISA_IRQS)
                      /\ (pc' \in {"low", "high", "done"} <=> pass \in {1, 2}))
  PROVE  ApicTypes' /\ LoopInv' /\ RouteInv'
  <1>1. /\ \A n : Gsi(n)' = Gsi(n) /\ IsoFlags(n)' = IsoFlags(n)
        /\ Moved' = Moved /\ (Unambiguous' <=> Unambiguous)
    BY SameOverrides
  <1>g. Gsis(fw)' = Gsis(fw)
    BY DEF Gsis, Ioapics
  <1>2. ApicTypes'
    BY <1>g DEF ApicInv, ApicTypes
  <1>3. LoopInv'
    BY <1>1, <1>g DEF ApicInv, LoopInv
  <1>4. RouteInv'
    <2>1. \A n : (Good(n)' <=> Good(n)) /\ Routed(n)' = Routed(n)
      BY <1>1 DEF Good, Routed
    <2> QED
      BY <1>1, <1>g, <2>1 DEF ApicInv, RouteInv
  <1> QED
    BY <1>2, <1>3, <1>4

\* Stopping keeps the invariant.
LEMMA StopKeeps ==
  ASSUME ApicInv, NEW why \in {"panic", "hung", "wild"}, Stop(why), UNCHANGED apicVars
  PROVE  ApicInv'
  <1>1. ApicTypes' /\ LoopInv' /\ RouteInv'
    BY SameRoutes DEF Stop, apicVars, lists
  <1>2. AcpiTypes'
    BY DEF ApicInv, AcpiTypes, Stop, lists, Ioapics
  <1> QED
    BY <1>1, <1>2 DEF ApicInv

\* The outcomes of acpi_verify_sdt.
LEMMA VerifyOutcome ==
  \A t, len, sig : acpi_verify_sdt(t, len, sig) \in {"no", "yes", "panic", "hung"}
  BY DEF acpi_verify_sdt, acpi_verify_sdt_checksum

\* The walk appends an entry to the list of its type only.
LEMMA AddKeeps ==
  ASSUME NEW S, NEW list \in Seq(S), NEW e, NEW type, e.type = type => e \in S
  PROVE  Add(list, e, type) \in Seq(S)
  BY AppendProperties DEF Add

\* Every step of acpi_init keeps the invariant.
LEMMA AcpiKeeps ==
  ASSUME ApicInv, acpi_init, UNCHANGED apicVars
  PROVE  ApicInv'
  <1>0. AcpiTypes
    BY DEF ApicInv
  <1>a. pass' = pass /\ irq' = irq /\ irq_bitmap' = irq_bitmap /\ redir' = redir
        /\ enabled' = enabled /\ in_service' = in_service
    BY DEF apicVars
  \* Steps that leave the lists alone.
  <1>t. ASSUME UNCHANGED <<fw, status, lists>>, has_xsdt' \in BOOLEAN,
               i' \in Nat \ {0}, madt' \in Nat,
               pc \in {"rsdp", "root", "find", "malloc", "walk"},
               pc' \in {"root", "find", "malloc", "walk", "apic"},
               pc' \notin {"root", "find"} =>
                  madt' \in DOMAIN fw.tables /\ fw.tables[madt'].sig = "APIC",
               pc' = "walk" => i' = 1
        PROVE  ApicInv'
    <2>1. AcpiTypes'
      <3>1. madt_isos' = madt_isos /\ madt_ioapics' = madt_ioapics
        BY <1>t DEF lists
      <3>2. Ioapics(fw)' = Ioapics(fw)
        BY <1>t DEF Ioapics
      <3>3. pc' = "walk" => /\ i' <= Len(fw.tables[madt'].entries) + 1
                            /\ \A k \in 1 .. (i' - 1) : FALSE
        <4> SUFFICES ASSUME pc' = "walk" PROVE i' = 1 /\ Len(fw.tables[madt'].entries) \in Nat
          OBVIOUS
        <4>1. fw.tables[madt'].entries \in Seq(MadtEntry)
          BY <1>0, <1>t, TableEntries DEF AcpiTypes
        <4> QED
          BY <1>t, <4>1, LenProperties
      <3> QED
        BY <1>0, <1>t, <3>1, <3>2, <3>3 DEF AcpiTypes
    <2>2. ApicTypes' /\ LoopInv' /\ RouteInv'
      <3>1. fw' = fw /\ madt_isos' = madt_isos
        BY <1>t DEF lists
      <3>2. pass \notin {1, 2}
        BY <1>t DEF ApicInv, LoopInv
      <3> QED
        BY <1>a, <1>t, <3>1, <3>2, SameRoutes
    <2> QED
      BY <2>1, <2>2 DEF ApicInv
  <1>1. CASE acpi_rsdp_init
    <2>1. CASE Stop("wild") \/ Stop("panic")
      BY <2>1, StopKeeps
    <2>2. CASE ~ (Stop("wild") \/ Stop("panic"))
      <3>1. /\ has_xsdt' = (fw.rev >= 2 /\ fw.xsdt_addr) /\ pc' = "root"
            /\ UNCHANGED <<fw, status, lists>> /\ i' = i /\ madt' = madt
        BY <1>1, <2>2 DEF acpi_rsdp_init
      <3>2. has_xsdt' \in BOOLEAN
        BY <3>1, Zenon
      <3>3. pc = "rsdp"
        BY <1>1 DEF acpi_rsdp_init
      <3> QED
        BY <1>0, <1>t, <3>1, <3>2, <3>3 DEF AcpiTypes
    <2> QED
      BY <2>1, <2>2
  <1>2. CASE RootTable
    <2> DEFINE v == acpi_verify_sdt(fw.root, RootLen, "ROOT")
    <2>1. v \in {"no", "yes", "panic", "hung"}
      BY VerifyOutcome
    <2>2. \/ v # "yes" /\ Stop(IF v = "no" THEN "panic" ELSE v)
          \/ /\ pc' = "find" /\ i' = 1
             /\ UNCHANGED <<fw, status, has_xsdt, madt, lists>>
      BY <1>2 DEF RootTable
    <2> HIDE DEF v
    <2>3. CASE v # "yes" /\ Stop(IF v = "no" THEN "panic" ELSE v)
      BY <2>1, <2>3, StopKeeps
    <2>4. CASE pc' = "find" /\ i' = 1 /\ UNCHANGED <<fw, status, has_xsdt, madt, lists>>
      BY <1>0, <1>2, <1>t, <2>4 DEF AcpiTypes, RootTable
    <2> QED
      BY <2>2, <2>3, <2>4
  <1>3. CASE acpi_find_sdt
    <2> DEFINE w == Word(i)
               v == IF w \in DOMAIN fw.tables
                    THEN acpi_verify_sdt(fw.tables[w], fw.tables[w].len, "APIC")
                    ELSE "no"
    <2>1. /\ v \in {"no", "yes", "panic", "hung"}
          /\ v = "yes" => w \in DOMAIN fw.tables /\ fw.tables[w].sig = "APIC"
      BY VerifyOutcome DEF acpi_verify_sdt
    <2>2. /\ pc = "find"
          /\ \/ /\ i' = i + 1 /\ UNCHANGED <<fw, pc, status, has_xsdt, madt, lists>>
             \/ /\ v = "yes" /\ madt' = w /\ pc' = "malloc"
                /\ UNCHANGED <<fw, status, has_xsdt, i, lists>>
             \/ v \notin {"no", "yes"} /\ Stop(v)
      BY <1>3 DEF acpi_find_sdt
    <2> HIDE DEF v, w
    <2>3. CASE i' = i + 1 /\ UNCHANGED <<fw, pc, status, has_xsdt, madt, lists>>
      BY <1>0, <1>t, <2>2, <2>3 DEF AcpiTypes
    <2>4. CASE v = "yes" /\ madt' = w /\ pc' = "malloc"
               /\ UNCHANGED <<fw, status, has_xsdt, i, lists>>
      <3>1. w \in DOMAIN fw.tables /\ fw.tables[w].sig = "APIC"
        BY <2>1, <2>4
      <3>2. w \in Nat
        <4>1. fw.tables \in Seq(Table)
          BY <1>0, AcpiAssumption DEF AcpiTypes, Firmware
        <4>2. w \in 1 .. Len(fw.tables) /\ Len(fw.tables) \in Nat
          BY <3>1, <4>1, LenProperties
        <4> QED
          BY <4>2
      <3> QED
        BY <1>0, <1>t, <2>2, <2>4, <3>1, <3>2 DEF AcpiTypes
    <2>5. CASE v \notin {"no", "yes"} /\ Stop(v)
      BY <2>1, <2>5, StopKeeps
    <2> QED
      BY <2>2, <2>3, <2>4, <2>5
  <1>4. CASE NotFound
    BY <1>4, StopKeeps DEF NotFound
  <1>5. CASE MadtMalloc
    <2>1. CASE Stop("panic")
      BY <2>1, StopKeeps
    <2>2. CASE ~ Stop("panic")
      BY <1>0, <1>5, <1>t, <2>2 DEF MadtMalloc, AcpiTypes
    <2> QED
      BY <2>1, <2>2
  <1>6. CASE WalkEntry
    <2> DEFINE t == fw.tables[madt]
               e == t.entries[i]
    <2>1. /\ pc = "walk" /\ Offset(t, i) < t.len
          /\ i' = (IF e.length = 0 THEN i ELSE i + 1) /\ status' \in {"run", "hung", "wild"}
          /\ madt_ioapics' = Add(madt_ioapics, e, 1) /\ madt_isos' = Add(madt_isos, e, 2)
          /\ UNCHANGED <<fw, pc, has_xsdt, madt>>
      BY <1>6 DEF WalkEntry, Advance
    <2>2. /\ madt \in DOMAIN fw.tables /\ fw \in Firmwares /\ t.sig = "APIC"
          /\ i \in Nat \ {0} /\ i <= Len(t.entries) + 1
          /\ \A k \in 1 .. (i - 1) : t.entries[k].length # 0
      BY <1>0, <2>1 DEF AcpiTypes
    <2>a. t.entries \in Seq(MadtEntry) /\ t.len \in Nat /\ Met(t)
      BY <2>2, TableEntries
    <2>b. i \in 1 .. Len(t.entries) /\ Len(t.entries) \in Nat
      <3>1. Offset(t, i) < t.len
        BY <2>1
      <3> HIDE DEF t, e
      <3> QED
        BY <2>2, <2>a, <3>1, WalkPlace, LenProperties
    <2>3. e \in MadtEntry /\ e \in ToSet(t.entries)
      <3> DEFINE s == t.entries
      <3> HIDE DEF t
      <3>1. s \in Seq(MadtEntry) /\ e = s[i] /\ i \in 1 .. Len(s)
        BY <2>a, <2>b
      <3> HIDE DEF s, e
      <3>2. DOMAIN s = 1 .. Len(s)
        BY <3>1, LenProperties
      <3>3. e \in MadtEntry /\ e \in ToSet(s)
        BY <3>1, <3>2, ElementOfSeq DEF ToSet
      <3> QED
        BY <3>3 DEF s
    <2>c. /\ i' \in Nat \ {0} /\ i' <= Len(t.entries) + 1
          /\ \A k \in 1 .. (i' - 1) : t.entries[k].length # 0
      <3> HIDE DEF t
      <3>1. CASE e.length = 0
        BY <2>1, <2>2, <3>1
      <3>2. CASE e.length # 0
        <4>1. i' = i + 1 /\ \A k \in 1 .. (i' - 1) : k = i \/ k \in 1 .. (i - 1)
          BY <2>1, <2>2, <3>2
        <4> QED
          BY <2>2, <2>b, <3>2, <4>1
      <3> QED
        BY <3>1, <3>2
    <2> HIDE DEF e
    <2>4. e.type = 1 => e \in Ioapics(fw)
      BY <2>2, <2>3 DEF Ioapics
    <2>5. e.type = 2 => e \in IsoEntry
      BY <2>3, OverrideEntry
    <2>6. madt_isos' \in Seq(IsoEntry) /\ madt_ioapics' \in Seq(Ioapics(fw))
      BY <1>0, <2>1, <2>4, <2>5, AddKeeps DEF AcpiTypes
    <2>7. AcpiTypes'
      <3>1. Ioapics(fw)' = Ioapics(fw)
        BY <2>1 DEF Ioapics
      <3>2. fw' = fw /\ madt' = madt /\ pc' = "walk" /\ has_xsdt' = has_xsdt
        BY <2>1
      <3> QED
        BY <1>0, <2>1, <2>2, <2>6, <2>c, <3>1, <3>2 DEF AcpiTypes
    \* pass is 0 until apic_init starts.
    <2>8. ApicTypes' /\ LoopInv' /\ RouteInv'
      <3>1. Gsis(fw)' = Gsis(fw)
        BY <2>1 DEF Gsis, Ioapics
      <3>2. ApicTypes'
        BY <1>a, <3>1 DEF ApicInv, ApicTypes
      <3>3. LoopInv'
        BY <1>a, <2>1 DEF ApicInv, LoopInv
      <3>4. pass # 2
        BY <2>1 DEF ApicInv, LoopInv
      <3> QED
        BY <1>a, <3>2, <3>3, <3>4 DEF RouteInv
    <2> QED
      BY <2>7, <2>8 DEF ApicInv
  <1>7. CASE WalkDone
    BY <1>0, <1>7, <1>t DEF WalkDone, AcpiTypes
  <1> QED
    BY <1>1, <1>2, <1>3, <1>4, <1>5, <1>6, <1>7 DEF acpi_init

-----------------------------------------------------------------------------
(* apic_init keeps the invariant.                                          *)

\* Where the firmware's tables are left alone, so is what acpi_init found.
LEMMA SameTables ==
  ASSUME AcpiTypes, UNCHANGED <<fw, has_xsdt, i, madt, lists>>,
         status' = status \/ status' \in {"run", "wild"},
         pc \notin {"rsdp", "root", "find"}, pc' \in {"low", "high", "done"}
  PROVE  /\ AcpiTypes' /\ Gsis(fw)' = Gsis(fw)
         /\ \A n : Gsi(n)' = Gsi(n) /\ IsoFlags(n)' = IsoFlags(n)
         /\ Moved' = Moved /\ (Unambiguous' <=> Unambiguous)
         /\ \A n : (Good(n)' <=> Good(n)) /\ Routed(n)' = Routed(n)
  <1>1. fw' = fw /\ madt_isos' = madt_isos /\ madt_ioapics' = madt_ioapics
    BY DEF lists
  <1>2. Ioapics(fw)' = Ioapics(fw)
    BY <1>1 DEF Ioapics
  <1>3. Gsis(fw)' = Gsis(fw)
    BY <1>2 DEF Gsis
  <1>4. AcpiTypes'
    BY <1>1, <1>2 DEF AcpiTypes
  <1>5. /\ \A n : Gsi(n)' = Gsi(n) /\ IsoFlags(n)' = IsoFlags(n)
        /\ Moved' = Moved /\ (Unambiguous' <=> Unambiguous)
    BY <1>1, SameOverrides
  <1>6. \A n : (Good(n)' <=> Good(n)) /\ Routed(n)' = Routed(n)
    BY <1>5 DEF Good, Routed
  <1> QED
    BY <1>3, <1>4, <1>5, <1>6

\* The pin that the second loop writes for an IRQ without a bit is none of
\* those it has written for the IRQs of the property.
LEMMA PinIsNew ==
  ASSUME Unambiguous, NEW n \in 0 .. (ISA_IRQS - 1), Good(n), NEW m \in 0 .. (ISA_IRQS - 1),
         n # m, NEW B, Gsi(n) \in B, m \notin B
  PROVE  Gsi(n) # Gsi(m)
  <1>1. CASE m \in Moved
    BY <1>1 DEF Unambiguous, Good, Moved
  <1>2. CASE m \notin Moved
    <2>1. Gsi(m) = m
      BY <1>2 DEF Moved
    <2> QED
      BY <2>1
  <1> QED
    BY <1>1, <1>2

\* The second loop does not leave out an IRQ of the property.
LEMMA NotLeftOut ==
  ASSUME Unambiguous, NEW n \in 0 .. (ISA_IRQS - 1), Good(n),
         NEW m \in 0 .. (ISA_IRQS - 1), m # n
  PROVE  Gsi(m) # n
  <1>1. CASE m \in Moved
    BY <1>1 DEF Unambiguous, Good
  <1>2. CASE m \notin Moved
    BY <1>2 DEF Moved
  <1> QED
    BY <1>1, <1>2

\* Writing the lower register keeps the invariant.
LEMMA SetLowKeeps == ApicInv /\ SetLow => ApicInv'
  <1> SUFFICES ASSUME ApicInv, SetLow PROVE ApicInv'
    OBVIOUS
  <1>1. CASE Stop("panic") /\ UNCHANGED apicVars
    BY <1>1, StopKeeps
  <1>2. CASE ~ (Stop("panic") /\ UNCHANGED apicVars)
    <2> DEFINE g == Gsi(irq)
               new == [vector |-> irq + 32, flags |-> IsoFlags(irq), mask |-> TRUE,
                       dest |-> redir[g].dest]
    <2>0. AcpiTypes /\ ApicTypes /\ LoopInv /\ RouteInv
      BY DEF ApicInv
    <2>1. /\ pc = "low" /\ irq < ISA_IRQS /\ ~ (pass = 2 /\ irq \in irq_bitmap)
          /\ ioapic_i_from_gsi(g) # 0
          /\ redir' = [redir EXCEPT ![g].vector = irq + 32, ![g].flags = IsoFlags(irq),
                                    ![g].mask = TRUE]
          /\ pc' = "high" /\ UNCHANGED <<fw, status, has_xsdt, i, madt, lists>>
          /\ pass' = pass /\ irq' = irq /\ irq_bitmap' = irq_bitmap
          /\ enabled' = enabled /\ in_service' = in_service
      BY <1>2 DEF SetLow, Wanted
    <2>2. irq \in Nat /\ irq \in 0 .. (ISA_IRQS - 1) /\ irq + 32 \in 0 .. 255
      BY <2>0, <2>1, ApicAssumption DEF ApicTypes
    <2>3. g \in Nat /\ IsoFlags(irq) \in SUBSET {"low", "level"}
      BY <2>0, <2>2, GsiType DEF AcpiTypes
    <2>4. g \in Gsis(fw)
      <3>1. fw \in Firmwares /\ madt_ioapics \in Seq(Ioapics(fw))
        BY <2>0 DEF AcpiTypes
      <3> HIDE DEF g
      <3> QED
        BY <2>1, <2>3, <3>1, FoundIsPin
    <2>5. /\ AcpiTypes' /\ Gsis(fw)' = Gsis(fw)
          /\ \A n : Gsi(n)' = Gsi(n) /\ IsoFlags(n)' = IsoFlags(n)
          /\ Unambiguous' <=> Unambiguous
          /\ \A n : (Good(n)' <=> Good(n)) /\ Routed(n)' = Routed(n)
      BY <2>0, <2>1, SameTables
    <2> HIDE DEF g
    <2>6. redir \in [Gsis(fw) -> RedirEntry] /\ redir[g] \in RedirEntry
      BY <2>0, <2>4 DEF ApicTypes
    <2>7. new \in RedirEntry /\ new.mask = TRUE /\ new.vector = irq + 32
          /\ new.flags = IsoFlags(irq)
      BY <2>2, <2>3, <2>6 DEF RedirEntry
    <2>8. redir' = [redir EXCEPT ![g] = new]
      <3> DEFINE a == irq + 32
                 b == IsoFlags(irq)
                 c == TRUE
                 r1 == [redir EXCEPT ![g].vector = a]
                 r2 == [r1 EXCEPT ![g].flags = b]
                 r3 == [r2 EXCEPT ![g].mask = c]
                 e == redir[g]
      <3>1. redir' = r3
        BY <2>1
      <3>2. new = [vector |-> a, flags |-> b, mask |-> c, dest |-> e.dest]
        OBVIOUS
      <3>3. e = [vector |-> e.vector, flags |-> e.flags, mask |-> e.mask, dest |-> e.dest]
        BY <2>6 DEF RedirEntry
      <3>4. r1 = [redir EXCEPT ![g] =
                    [vector |-> a, flags |-> e.flags, mask |-> e.mask, dest |-> e.dest]]
        <4> HIDE DEF a, b
        <4>1. r1 = [redir EXCEPT ![g] = [redir[g] EXCEPT !.vector = a]]
          BY <2>4, <2>6
        <4>2. [redir[g] EXCEPT !.vector = a] =
                [vector |-> a, flags |-> e.flags, mask |-> e.mask, dest |-> e.dest]
          BY <3>3
        <4> QED
          BY <4>1, <4>2
      <3> HIDE DEF a, b, c, e, r1
      <3>5. r2 = [redir EXCEPT ![g] =
                    [vector |-> a, flags |-> b, mask |-> e.mask, dest |-> e.dest]]
        <4> DEFINE x == [vector |-> a, flags |-> e.flags, mask |-> e.mask, dest |-> e.dest]
        <4>1. [x EXCEPT !.flags = b] =
                [vector |-> a, flags |-> b, mask |-> e.mask, dest |-> e.dest]
          OBVIOUS
        <4>2. r1 = [redir EXCEPT ![g] = x]
          BY <3>4
        <4> HIDE DEF x
        <4>3. r2 = [redir EXCEPT ![g] = [x EXCEPT !.flags = b]]
          BY <2>4, <2>6, <4>2
        <4> QED
          BY <4>1, <4>3
      <3> HIDE DEF r2
      <3>6. r3 = [redir EXCEPT ![g] =
                    [vector |-> a, flags |-> b, mask |-> c, dest |-> e.dest]]
        <4> DEFINE x == [vector |-> a, flags |-> b, mask |-> e.mask, dest |-> e.dest]
        <4>1. [x EXCEPT !.mask = c] =
                [vector |-> a, flags |-> b, mask |-> c, dest |-> e.dest]
          OBVIOUS
        <4>2. r2 = [redir EXCEPT ![g] = x]
          BY <3>5
        <4> HIDE DEF x
        <4>3. r3 = [redir EXCEPT ![g] = [x EXCEPT !.mask = c]]
          BY <2>4, <2>6, <4>2
        <4> QED
          BY <4>1, <4>3
      <3> HIDE DEF r3
      <3> QED
        BY <3>1, <3>2, <3>6
    <2> HIDE DEF new
    <2>9. /\ redir' \in [Gsis(fw) -> RedirEntry] /\ redir'[g] = new
          /\ \A h \in Gsis(fw) : h # g => redir'[h] = redir[h]
      BY <2>4, <2>6, <2>7, <2>8
    <2>10. ApicTypes'
      BY <2>0, <2>1, <2>5, <2>7, <2>9 DEF ApicTypes
    <2>11. LoopInv'
      <3>1. Gsi(irq)' = g /\ IsoFlags(irq)' = IsoFlags(irq)
        BY <2>1, <2>5 DEF g
      <3> QED
        BY <2>0, <2>1, <2>4, <2>5, <2>7, <2>9, <3>1 DEF LoopInv
    <2>12. RouteInv'
      <3>1. ASSUME pass = 2, Unambiguous, NEW n \in 0 .. (ISA_IRQS - 1), n < irq, Good(n)
            PROVE  Gsi(n) \in irq_bitmap /\ Gsi(n) \in Gsis(fw) /\ redir'[Gsi(n)] = Routed(n)
        <4>1. Gsi(n) \in irq_bitmap /\ Gsi(n) \in Gsis(fw) /\ redir[Gsi(n)] = Routed(n)
          BY <2>0, <3>1 DEF RouteInv
        <4>2. Gsi(n) # Gsi(irq)
          BY <2>1, <2>2, <3>1, <4>1, PinIsNew
        <4> QED
          BY <2>9, <4>1, <4>2 DEF g
      <3> QED
        BY <2>0, <2>1, <2>5, <3>1 DEF RouteInv
    <2> QED
      BY <2>5, <2>10, <2>11, <2>12 DEF ApicInv
  <1> QED
    BY <1>1, <1>2

\* Writing the upper register keeps the invariant.
LEMMA SetHighKeeps == ApicInv /\ SetHigh => ApicInv'
  <1> SUFFICES ASSUME ApicInv, SetHigh PROVE ApicInv'
    OBVIOUS
  <1> DEFINE g == Gsi(irq)
             new == [vector |-> irq + 32, flags |-> IsoFlags(irq), mask |-> TRUE,
                     dest |-> LapicId]
  <1>0. AcpiTypes /\ ApicTypes /\ LoopInv /\ RouteInv
    BY DEF ApicInv
  <1>1. /\ pc = "high" /\ redir' = [redir EXCEPT ![g].dest = LapicId]
        /\ irq_bitmap' = (IF pass = 1 THEN irq_bitmap ELSE irq_bitmap \cup {g})
        /\ irq' = irq + 1 /\ pc' = "low" /\ UNCHANGED <<fw, has_xsdt, i, madt, lists>>
        /\ status' \in {"run", "wild"}
        /\ pass' = pass /\ enabled' = enabled /\ in_service' = in_service
    BY DEF SetHigh
  <1>2. /\ irq < ISA_IRQS /\ g \in Gsis(fw) /\ redir[g].vector = irq + 32
        /\ redir[g].flags = IsoFlags(irq) /\ (pass = 2 => irq \notin irq_bitmap)
        /\ pass \in {1, 2}
    BY <1>0, <1>1 DEF LoopInv
  <1>3. irq \in Nat /\ irq \in 0 .. (ISA_IRQS - 1) /\ irq + 1 \in 0 .. ISA_IRQS
    BY <1>0, <1>2, ApicAssumption DEF ApicTypes
  <1>4. g \in Nat
    BY <1>0, <1>3, GsiType DEF AcpiTypes
  <1>5. /\ AcpiTypes' /\ Gsis(fw)' = Gsis(fw)
        /\ \A n : Gsi(n)' = Gsi(n) /\ IsoFlags(n)' = IsoFlags(n)
        /\ Unambiguous' <=> Unambiguous
        /\ \A n : (Good(n)' <=> Good(n)) /\ Routed(n)' = Routed(n)
    BY <1>0, <1>1, SameTables
  <1>6. new = Routed(irq)
    BY DEF Routed
  <1> HIDE DEF g
  <1>7. /\ redir \in [Gsis(fw) -> RedirEntry] /\ redir[g] \in RedirEntry
        /\ redir[g].mask = TRUE
    BY <1>0, <1>2 DEF ApicTypes
  <1>8. new \in RedirEntry /\ new.mask = TRUE
    <2>1. redir[g].vector \in 0 .. 255 /\ redir[g].flags \in SUBSET {"low", "level"}
      BY <1>7 DEF RedirEntry
    <2>2. LapicId \in 0 .. 255
      BY ApicAssumption
    <2> QED
      BY <1>2, <2>1, <2>2 DEF RedirEntry
  <1>9. redir' = [redir EXCEPT ![g] = new]
    <2>1. \A e \in RedirEntry : [e EXCEPT !.dest = LapicId]
             = [vector |-> e.vector, flags |-> e.flags, mask |-> e.mask, dest |-> LapicId]
      BY DEF RedirEntry
    <2>2. [redir[g] EXCEPT !.dest = LapicId] = new
      BY <1>2, <1>7, <2>1
    <2>3. redir' = [redir EXCEPT ![g] = [redir[g] EXCEPT !.dest = LapicId]]
      BY <1>1, <1>2, <1>7
    <2> QED
      BY <2>2, <2>3
  <1> HIDE DEF new
  <1>10. /\ redir' \in [Gsis(fw) -> RedirEntry] /\ redir'[g] = new
         /\ \A h \in Gsis(fw) : h # g => redir'[h] = redir[h]
    BY <1>2, <1>7, <1>8, <1>9
  <1>11. ApicTypes'
    <2>1. irq_bitmap' \in SUBSET Nat
      BY <1>0, <1>1, <1>4 DEF ApicTypes
    <2> QED
      BY <1>0, <1>1, <1>3, <1>5, <1>8, <1>10, <2>1 DEF ApicTypes
  <1>12. LoopInv'
    BY <1>1, <1>2 DEF LoopInv
  <1>13. RouteInv'
    <2>1. SUFFICES ASSUME pass = 2 PROVE RouteInv'
      BY <1>1 DEF RouteInv
    <2>2. irq_bitmap' = irq_bitmap \cup {g}
      BY <1>1, <2>1
    <2>3. \A h \in irq_bitmap' : \E m \in 0 .. (ISA_IRQS - 1) : m < irq + 1 /\ Gsi(m) = h
      <3>1. ASSUME NEW h \in irq_bitmap'
            PROVE  \E m \in 0 .. (ISA_IRQS - 1) : m < irq + 1 /\ Gsi(m) = h
        <4>1. CASE h = g
          BY <1>3, <4>1 DEF g
        <4>2. CASE h \in irq_bitmap
          <5>1. PICK m \in 0 .. (ISA_IRQS - 1) : m < irq /\ Gsi(m) = h
            BY <1>0, <2>1, <4>2 DEF RouteInv
          <5>2. m < irq + 1
            BY <1>3, <5>1
          <5> QED
            BY <5>1, <5>2
        <4> QED
          BY <2>2, <4>1, <4>2
      <3> QED
        BY <3>1
    <2>4. ASSUME Unambiguous, NEW n \in 0 .. (ISA_IRQS - 1), n < irq + 1, Good(n)
          PROVE  Gsi(n) \in irq_bitmap' /\ Gsi(n) \in Gsis(fw) /\ redir'[Gsi(n)] = Routed(n)
      <3>1. CASE n = irq
        BY <1>2, <1>6, <1>10, <2>2, <3>1 DEF g
      <3>2. CASE n # irq
        <4>1. n < irq
          BY <1>3, <2>4, <3>2
        <4>2. Gsi(n) \in irq_bitmap /\ Gsi(n) \in Gsis(fw) /\ redir[Gsi(n)] = Routed(n)
          BY <1>0, <2>1, <2>4, <4>1 DEF RouteInv
        <4>3. Gsi(n) # Gsi(irq)
          BY <1>2, <1>3, <2>1, <2>4, <3>2, <4>2, PinIsNew
        <4> QED
          BY <1>10, <2>2, <4>2, <4>3 DEF g
      <3> QED
        BY <3>1, <3>2
    <2> QED
      BY <1>1, <1>5, <2>3, <2>4 DEF RouteInv
  <1> QED
    BY <1>5, <1>11, <1>12, <1>13 DEF ApicInv

\* Leaving out an IRQ keeps the invariant.
LEMMA SkipIrqKeeps == ApicInv /\ SkipIrq => ApicInv'
  <1> SUFFICES ASSUME ApicInv, SkipIrq PROVE ApicInv'
    OBVIOUS
  <1>0. AcpiTypes /\ ApicTypes /\ LoopInv /\ RouteInv
    BY DEF ApicInv
  <1>1. /\ pc = "low" /\ irq < ISA_IRQS /\ pass = 2 /\ irq \in irq_bitmap /\ irq' = irq + 1
        /\ pc' = "low" /\ UNCHANGED <<fw, status, has_xsdt, i, madt, lists>>
        /\ pass' = pass /\ irq_bitmap' = irq_bitmap /\ redir' = redir
        /\ enabled' = enabled /\ in_service' = in_service
    BY DEF SkipIrq, Wanted, acpiVars
  <1>2. irq \in Nat /\ irq \in 0 .. (ISA_IRQS - 1) /\ irq + 1 \in 0 .. ISA_IRQS
    BY <1>0, <1>1, ApicAssumption DEF ApicTypes
  <1>3. /\ AcpiTypes' /\ Gsis(fw)' = Gsis(fw)
        /\ \A n : Gsi(n)' = Gsi(n) /\ IsoFlags(n)' = IsoFlags(n)
        /\ Unambiguous' <=> Unambiguous
        /\ \A n : (Good(n)' <=> Good(n)) /\ Routed(n)' = Routed(n)
    BY <1>0, <1>1, SameTables
  <1>4. ApicTypes'
    BY <1>0, <1>1, <1>2, <1>3 DEF ApicTypes
  <1>5. LoopInv'
    BY <1>1 DEF LoopInv
  <1>6. PICK m \in 0 .. (ISA_IRQS - 1) : m < irq /\ Gsi(m) = irq
    BY <1>0, <1>1 DEF RouteInv
  <1>7. Unambiguous => ~ Good(irq)
    <2>1. m # irq
      BY <1>2, <1>6
    <2> QED
      BY <1>2, <1>6, <2>1, NotLeftOut
  <1>8. \A n \in 0 .. (ISA_IRQS - 1) : n < irq + 1 => n < irq \/ n = irq
    BY <1>2
  <1>9. RouteInv'
    <2>1. \A h \in irq_bitmap : \E k \in 0 .. (ISA_IRQS - 1) : k < irq + 1 /\ Gsi(k) = h
      <3>1. \A k \in 0 .. (ISA_IRQS - 1) : k < irq => k < irq + 1
        BY <1>2
      <3> QED
        BY <1>0, <1>1, <3>1 DEF RouteInv
    <2> QED
      BY <1>0, <1>1, <1>3, <1>7, <1>8, <2>1 DEF RouteInv
  <1> QED
    BY <1>3, <1>4, <1>5, <1>9 DEF ApicInv

\* The end of a loop keeps the invariant.
LEMMA PassDoneKeeps == ApicInv /\ PassDone => ApicInv'
  <1> SUFFICES ASSUME ApicInv, PassDone PROVE ApicInv'
    OBVIOUS
  <1>0. AcpiTypes /\ ApicTypes /\ LoopInv /\ RouteInv
    BY DEF ApicInv
  <1>1. CASE /\ pass = 1 /\ pass' = 2 /\ irq' = 0 /\ irq_bitmap' = {}
             /\ UNCHANGED <<acpiVars, redir, enabled, in_service>>
    <2>1. /\ pc = "low" /\ pc' = "low" /\ UNCHANGED <<fw, status, has_xsdt, i, madt, lists>>
          /\ redir' = redir /\ enabled' = enabled /\ in_service' = in_service
      BY <1>1 DEF PassDone, acpiVars
    <2>2. AcpiTypes' /\ Gsis(fw)' = Gsis(fw)
      BY <1>0, <2>1, SameTables
    <2>3. ApicTypes'
      <3>1. 0 \in 0 .. ISA_IRQS
        BY ApicAssumption
      <3> QED
        BY <1>0, <1>1, <2>1, <2>2, <3>1 DEF ApicTypes
    <2>4. LoopInv'
      BY <1>1, <2>1 DEF LoopInv
    <2>5. RouteInv'
      <3>1. \A n \in 0 .. (ISA_IRQS - 1) : ~ (n < 0)
        BY ApicAssumption
      <3> QED
        BY <1>1, <3>1 DEF RouteInv
    <2> QED
      BY <2>2, <2>3, <2>4, <2>5 DEF ApicInv
  <1>2. CASE Stop("panic") /\ UNCHANGED apicVars
    BY <1>2, StopKeeps
  <1>3. CASE /\ pass = 2 /\ pc' = "done"
             /\ UNCHANGED <<fw, status, has_xsdt, i, madt, lists, apicVars>>
    <2>1. pc = "low" /\ irq = ISA_IRQS
      BY DEF PassDone
    <2>2. AcpiTypes'
      BY <1>0, <1>3, <2>1, SameTables
    <2>3. ApicTypes' /\ LoopInv' /\ RouteInv'
      BY <1>3, <2>1, SameRoutes DEF apicVars, lists
    <2> QED
      BY <2>2, <2>3 DEF ApicInv
  <1> QED
    BY <1>1, <1>2, <1>3 DEF PassDone

\* Every step keeps the invariant.
LEMMA ApicNext == ApicInv /\ [Next]_vars => ApicInv'
  <1> SUFFICES ASSUME ApicInv, [Next]_vars PROVE ApicInv'
    OBVIOUS
  <1>0. AcpiTypes /\ ApicTypes /\ LoopInv /\ RouteInv
    BY DEF ApicInv
  <1>1. CASE acpi_init /\ UNCHANGED apicVars
    BY <1>1, AcpiKeeps
  <1>2. CASE EnableApic
    <2>1. CASE Stop("panic") /\ UNCHANGED apicVars
      BY <2>1, StopKeeps
    <2>2. CASE ~ (Stop("panic") /\ UNCHANGED apicVars)
      <3>1. /\ pc = "apic" /\ enabled' = TRUE /\ pass' = 1 /\ irq' = 0 /\ pc' = "low"
            /\ UNCHANGED <<fw, status, has_xsdt, i, madt, lists>>
            /\ irq_bitmap' = irq_bitmap /\ redir' = redir /\ in_service' = in_service
        BY <1>2, <2>2 DEF EnableApic
      <3>2. AcpiTypes' /\ Gsis(fw)' = Gsis(fw)
        BY <1>0, <3>1, SameTables
      <3>3. ApicTypes'
        <4>1. 0 \in 0 .. ISA_IRQS
          BY ApicAssumption
        <4>2. enabled' \in BOOLEAN
          BY <3>1, Zenon
        <4> QED
          BY <1>0, <3>1, <3>2, <4>1, <4>2 DEF ApicTypes
      <3>4. LoopInv' /\ RouteInv'
        BY <3>1 DEF LoopInv, RouteInv
      <3> QED
        BY <3>2, <3>3, <3>4 DEF ApicInv
    <2> QED
      BY <2>1, <2>2
  <1>3. CASE SetLow
    BY <1>3, SetLowKeeps
  <1>4. CASE SetHigh
    BY <1>4, SetHighKeeps
  <1>5. CASE SkipIrq
    BY <1>5, SkipIrqKeeps
  <1>6. CASE PassDone
    BY <1>6, PassDoneKeeps
  <1>7. ASSUME UNCHANGED <<acpiVars, pass, irq, irq_bitmap, redir, enabled>>,
               in_service' = in_service
        PROVE  ApicInv'
    <2>1. AcpiTypes'
      BY <1>0, <1>7 DEF AcpiTypes, acpiVars, lists, Ioapics
    <2>2. ApicTypes' /\ LoopInv' /\ RouteInv'
      BY <1>7, SameRoutes DEF acpiVars, lists
    <2> QED
      BY <2>1, <2>2 DEF ApicInv
  <1>8. ASSUME NEW g \in Gsis(fw), Pulse(g) PROVE ApicInv'
    <2>1. in_service' = in_service
      BY <1>0, <1>8 DEF Pulse, ApicTypes
    <2> QED
      BY <1>7, <1>8, <2>1 DEF Pulse
  <1>9. CASE UNCHANGED vars
    BY <1>7, <1>9 DEF vars, apicVars
  <1> QED
    BY <1>1, <1>2, <1>3, <1>4, <1>5, <1>6, <1>8, <1>9 DEF Next, apic_init

\* The invariant is one of the specification.
LEMMA ApicInvariant == Spec => []ApicInv
  BY ApicInit, ApicNext, PTL DEF Spec

-----------------------------------------------------------------------------
(* The theorems.                                                           *)

\* The state of acpi_init and apic_init keeps its type, for all tables.
THEOREM TypeCorrect == Spec => []TypeOK
  <1>1. ApicInv => TypeOK
    <2> SUFFICES ASSUME ApicInv PROVE TypeOK
      OBVIOUS
    <2>1. \A k \in DOMAIN madt_isos : madt_isos[k] \in IsoEntry
      BY LenProperties, ElementOfSeq DEF ApicInv, AcpiTypes
    <2>2. \A g \in Gsis(fw) : redir[g] \in
            [vector : 0 .. 255, flags : SUBSET {"low", "level"},
             mask : BOOLEAN, dest : 0 .. 255]
      BY DEF ApicInv, ApicTypes, RedirEntry
    <2>3. AcpiTypes /\ ApicTypes
      BY DEF ApicInv
    <2> QED
      BY <2>1, <2>2, <2>3 DEF AcpiTypes, ApicTypes, TypeOK
  <1> QED
    BY <1>1, ApicInvariant, PTL

\* When apic_init is done every unambiguous override is in force, and every IRQ
\* that no override displaces has its own pin, whatever order the overrides
\* are listed in and however many I/O APICs there are.
THEOREM OverridesTakeEffect == Spec => []OverridesInForce
  <1>1. ApicInv => OverridesInForce
    <2> SUFFICES ASSUME ApicInv, pc = "done", Unambiguous,
                        NEW n \in 0 .. (ISA_IRQS - 1),
                        n \in Moved \/ (\A m \in Moved : Gsi(m) # n)
                 PROVE  redir[Gsi(n)] = [vector |-> n + 32, flags |-> IsoFlags(n),
                                         mask |-> TRUE, dest |-> LapicId]
      BY DEF OverridesInForce
    <2>1. Good(n)
      BY DEF Good
    <2>2. pass = 2 /\ irq = ISA_IRQS
      BY DEF ApicInv, LoopInv
    <2>3. n < irq
      BY <2>2, ApicAssumption
    <2>4. redir[Gsi(n)] = Routed(n)
      BY <2>1, <2>2, <2>3 DEF ApicInv, RouteInv
    <2> QED
      BY <2>4 DEF Routed
  <1> QED
    BY <1>1, ApicInvariant, PTL

\* No interrupt reaches the processor through the local APIC, because no entry
\* is unmasked at any point, between the two halves of its writes included.
THEOREM LapicStaysSilent == Spec => []LapicSilent
  <1>1. ApicInv => LapicSilent
    BY DEF ApicInv, ApicTypes, LapicSilent
  <1> QED
    BY <1>1, ApicInvariant, PTL

-----------------------------------------------------------------------------
(* The lists of the MADT's entries.                                        *)

\* The places of the entries of a type among the first n of a table.
Places(t, type, n) == {k \in 1 .. n : t.entries[k].type = type}

\* What OfType describes are the entries at all places of the type.
LEMMA OfTypeIsSelected ==
  ASSUME NEW t, t.entries \in Seq(MadtEntry), NEW type
  PROVE  OfType(t, type) = Selected(t.entries, Places(t, type, Len(t.entries)))
  <1>1. DOMAIN t.entries = 1 .. Len(t.entries)
    BY LenProperties
  <1> QED
    BY <1>1 DEF OfType, Selected, Places, Rank

\* So many entries of w bytes or more lie in front of the k-th.
LEMMA OffsetCounts ==
  ASSUME NEW t, t.entries \in Seq(MadtEntry), NEW type, NEW w \in {6, 8},
         \A k \in 1 .. Len(t.entries) : t.entries[k].type = type => t.entries[k].length >= w
  PROVE  \A k \in 0 .. Len(t.entries) :
            /\ Cardinality(Places(t, type, k)) \in Nat
            /\ MADT_HDR + w * Cardinality(Places(t, type, k)) <= Offset(t, k + 1)
  <1> DEFINE n == Len(t.entries)
             len(k) == t.entries[k].length
             at(k) == Offset(t, k + 1)
             count(k) == Cardinality(Places(t, type, k))
  <1>0. n \in Nat /\ \A k \in 1 .. n : len(k) \in Nat
    BY EntryLength, LenProperties, ElementOfSeq
  <1>1. at(0) = MADT_HDR /\ \A k \in 0 .. n : at(k) \in Nat
    BY <1>0, OffsetSteps
  <1>2. \A k \in 0 .. (n - 1) : at(k + 1) = at(k) + len(k + 1)
    <2>1. \A k \in 0 .. (n - 1) : k + 1 \in 1 .. n
      BY <1>0
    <2> QED
      BY <2>1, OffsetSteps
  <1> HIDE DEF len, at
  <1> DEFINE S == {k \in 0 .. n : MADT_HDR + w * count(k) <= at(k)}
  <1>6. \A k \in 0 .. n : IsFiniteSet(Places(t, type, k)) /\ count(k) \in Nat
    <2> TAKE k \in 0 .. n
    <2>1. k \in Nat /\ Places(t, type, k) \in SUBSET (1 .. k)
      BY <1>0 DEF Places
    <2> QED
      BY <2>1, PlacesFinite
  <1>7. 0 \in S
    <2>1. Places(t, type, 0) = {}
      BY DEF Places
    <2>2. count(0) = 0
      BY <2>1, FS_EmptySet
    <2>3. 0 \in 0 .. n
      BY <1>0
    <2> HIDE DEF count, n
    <2> QED
      BY <1>1, <2>2, <2>3 DEF MADT_HDR
  <1>8. ASSUME NEW k \in 0 .. (n - 1), k \in S PROVE k + 1 \in S
    <2>0. k \in Nat /\ k + 1 \in 1 .. n /\ k + 1 \in 0 .. n /\ k \in 0 .. n
      BY <1>0
    <2>1. len(k + 1) \in Nat /\ (t.entries[k + 1].type = type => len(k + 1) >= w)
      BY <1>0, <2>0 DEF len
    <2>2. count(k) \in Nat /\ count(k + 1) \in Nat /\ at(k) \in Nat
      BY <1>1, <1>6, <2>0
    <2>a. at(k + 1) = at(k) + len(k + 1) /\ MADT_HDR + w * count(k) <= at(k)
      BY <1>2, <1>8
    <2>3. CASE t.entries[k + 1].type = type
      <3>1. Places(t, type, k + 1) = Places(t, type, k) \cup {k + 1} /\ k + 1 \notin Places(t, type, k)
        BY <2>0, <2>3 DEF Places
      <3>2. IsFiniteSet(Places(t, type, k))
        BY <1>6, <2>0
      <3>3. count(k + 1) = count(k) + 1
        BY <3>1, <3>2, FS_AddElement
      <3> HIDE DEF count, n
      <3>4. MADT_HDR + w * count(k + 1) <= at(k + 1)
        BY <2>1, <2>2, <2>3, <2>a, <3>3 DEF MADT_HDR
      <3> QED
        BY <2>0, <3>4
    <2>4. CASE t.entries[k + 1].type # type
      <3>1. Places(t, type, k + 1) = Places(t, type, k)
        BY <2>0, <2>4 DEF Places
      <3>3. count(k + 1) = count(k)
        BY <3>1
      <3> HIDE DEF count, n
      <3>4. MADT_HDR + w * count(k + 1) <= at(k + 1)
        BY <2>1, <2>2, <2>a, <3>3 DEF MADT_HDR
      <3> QED
        BY <2>0, <3>4
    <2> QED
      BY <2>3, <2>4
  <1>9. \A k \in 0 .. n : k \in S
    <2> HIDE DEF S, n
    <2> QED
      BY <1>0, <1>7, <1>8, IntervalInduction
  <1> QED
    BY <1>6, <1>9 DEF at

\* All that begin in a table of at most 255 bytes are at most 27 of 8 bytes or
\* more, or 36 of 6.
LEMMA FewEntries ==
  ASSUME NEW t, t.entries \in Seq(MadtEntry), Met(t), t.len \in Nat, t.len <= 255,
         NEW type, NEW w \in {6, 8},
         \A k \in 1 .. Len(t.entries) : t.entries[k].type = type => t.entries[k].length >= w
  PROVE  Cardinality(Places(t, type, Len(t.entries))) <= IF w = 8 THEN 27 ELSE 36
  <1> DEFINE n == Len(t.entries)
             count(k) == Cardinality(Places(t, type, k))
             at(k) == Offset(t, k)
  <1>0. n \in Nat /\ DOMAIN t.entries = 1 .. n
    BY LenProperties
  <1>1. CASE n = 0
    <2>1. Places(t, type, n) = {}
      BY <1>1 DEF Places
    <2>2. count(n) = 0
      BY <2>1, FS_EmptySet
    <2> HIDE DEF count
    <2>3. count(n) <= IF w = 8 THEN 27 ELSE 36
      BY <2>2
    <2> QED
      BY <2>3 DEF count
  <1>2. CASE n # 0
    <2>0. n \in DOMAIN t.entries /\ n - 1 \in 0 .. n /\ (n - 1) + 1 = n
      BY <1>0, <1>2
    <2>1. at(n) < t.len /\ at(n) \in Nat
      <3>1. at(n) < t.len
        BY <2>0 DEF Met
      <3>2. n \in 1 .. (n + 1)
        BY <1>0, <1>2
      <3> QED
        BY <3>1, <3>2, OffsetSteps
    <2>2. count(n - 1) \in Nat /\ MADT_HDR + w * count(n - 1) <= at((n - 1) + 1)
      BY <2>0, OffsetCounts
    <2>3. count(n) <= count(n - 1) + 1 /\ count(n) \in Nat
      <3>1. Places(t, type, n) \in SUBSET (Places(t, type, n - 1) \cup {n})
        BY <1>0, <1>2 DEF Places
      <3>2. n - 1 \in Nat /\ Places(t, type, n - 1) \in SUBSET (1 .. (n - 1))
            /\ n \notin Places(t, type, n - 1)
        BY <1>0, <1>2 DEF Places
      <3> DEFINE A == Places(t, type, n - 1)
                 B == Places(t, type, n)
      <3>3. IsFiniteSet(A)
        BY <3>2, PlacesFinite
      <3> HIDE DEF A, B, n
      <3>4. IsFiniteSet(A \cup {n}) /\ Cardinality(A \cup {n}) = Cardinality(A) + 1
        BY <3>2, <3>3, FS_AddElement DEF A
      <3>5. Cardinality(B) <= Cardinality(A \cup {n}) /\ IsFiniteSet(B)
        BY <3>1, <3>4, FS_Subset DEF A, B
      <3>6. Cardinality(B) \in Nat
        BY <3>5, FS_CardinalityType
      <3> QED
        BY <3>4, <3>5, <3>6 DEF A, B
    <2> HIDE DEF count, at, n
    <2>4. MADT_HDR + w * count(n - 1) <= at(n)
      BY <2>0, <2>2
    <2>5. count(n - 1) <= IF w = 8 THEN 26 ELSE 35
      BY <2>1, <2>2, <2>4 DEF MADT_HDR
    <2>6. count(n) <= IF w = 8 THEN 27 ELSE 36
      BY <2>2, <2>3, <2>5
    <2> QED
      BY <2>6 DEF count, n
  <1> QED
    BY <1>1, <1>2

\* The entries of the MADT, and how many of them the walk has passed.
Entries == fw.tables[madt].entries
Passed == IF pc = "walk" THEN i - 1 ELSE Len(Entries)

\* The walk has met an entry of length 0, and will meet no other.
Stuck == pc = "walk" /\ i \in 1 .. Len(Entries) /\ Entries[i].length = 0

\* The list of a type, as the walk has built it.
Collected(list, type) ==
    list = Selected(fw.tables[madt].entries, Places(fw.tables[madt], type, Passed))

\* No table the search has passed is a MADT; the one it stops at is the first
\* and got through the checksum loop; each list has what the walk has passed,
\* unless it is stuck.
ListInv ==
    /\ pc \in {"rsdp", "root", "find", "malloc"} =>
          /\ madt_lapics = <<>> /\ madt_ioapics = <<>>
          /\ madt_isos = <<>> /\ madt_lapic_nmis = <<>>
    /\ pc = "find" => \A k \in 1 .. (i - 1) :
          Word(k) \in DOMAIN fw.tables => fw.tables[Word(k)].sig # "APIC"
    /\ pc \notin {"rsdp", "root", "find"} =>
          /\ fw.tables[madt].sig = "APIC" /\ fw.tables[madt].len <= BYTE_MAX
          /\ \A k \in 1 .. (madt - 1) : fw.tables[k].sig # "APIC"
    /\ pc \notin {"rsdp", "root", "find", "malloc"} =>
          /\ Passed \in 0 .. Len(Entries)
          /\ ~ Stuck => /\ Collected(madt_lapics, 0) /\ Collected(madt_ioapics, 1)
                        /\ Collected(madt_isos, 2) /\ Collected(madt_lapic_nmis, 4)

\* A step that leaves the tables and the lists alone keeps the invariant, in
\* place or once the walk is over.
LEMMA ListsStay ==
  ASSUME ListInv, UNCHANGED <<fw, madt, lists>>,
         \/ UNCHANGED <<pc, has_xsdt, i>>
         \/ /\ pc \notin {"rsdp", "root", "find", "malloc", "walk"}
            /\ pc' \notin {"rsdp", "root", "find", "malloc", "walk"}
  PROVE  ListInv'
  <1>0. fw' = fw /\ madt' = madt /\ madt_lapics' = madt_lapics /\ madt_ioapics' = madt_ioapics
        /\ madt_isos' = madt_isos /\ madt_lapic_nmis' = madt_lapic_nmis
    BY DEF lists
  <1>1. CASE UNCHANGED <<pc, has_xsdt, i>>
    BY <1>0, <1>1 DEF ListInv, Passed, Entries, Stuck, Collected, Word
  <1>2. CASE /\ pc \notin {"rsdp", "root", "find", "malloc", "walk"}
             /\ pc' \notin {"rsdp", "root", "find", "malloc", "walk"}
    <2>1. Passed' = Passed /\ Entries' = Entries
      BY <1>0, <1>2 DEF Passed, Entries
    <2> QED
      BY <1>0, <1>2, <2>1 DEF ListInv, Stuck, Collected
  <1> QED
    BY <1>1, <1>2

\* The verdict on a table: "no" is about its signature only, and "yes" about
\* a table whose length the checksum loop can count to.
LEMMA Verdict ==
  ASSUME NEW t, NEW len \in Nat, NEW sig
  PROVE  /\ acpi_verify_sdt(t, len, sig) = "no" => t.sig # sig
         /\ acpi_verify_sdt(t, len, sig) = "yes" => t.sig = sig /\ len <= BYTE_MAX
  BY AcpiAssumption DEF acpi_verify_sdt, acpi_verify_sdt_checksum

\* The words of the root table name the tables one after another: before the
\* word of a table come those of all tables in front of it.
LEMMA WordsInOrder ==
  ASSUME NEW m \in Nat \ {0}, NEW w \in Nat \ {0}, Word(m) = w, NEW k \in 1 .. (w - 1)
  PROVE  \E l \in 1 .. (m - 1) : Word(l) = k
  <1>0. k \in Nat /\ k >= 1 /\ k < w
    OBVIOUS
  <1>1. CASE ~ has_xsdt
    <2>1. m = w /\ k \in 1 .. (m - 1) /\ Word(k) = k
      BY <1>0, <1>1 DEF Word
    <2> QED
      BY <2>1
  <1>2. CASE has_xsdt
    <2>1. m % 2 = 1 /\ (m + 1) \div 2 = w
      BY <1>2 DEF Word
    <2>2. m = 2 * w - 1
      BY <2>1
    <2> DEFINE l == 2 * k - 1
    <2>3. l \in 1 .. (m - 1) /\ l % 2 = 1 /\ (l + 1) \div 2 = k
      BY <1>0, <2>2
    <2> QED
      BY <1>2, <2>3 DEF Word
  <1> QED
    BY <1>1, <1>2

\* One more entry passed: the list of its type has it at the end.
LEMMA AddCollects ==
  ASSUME NEW t, t.entries \in Seq(MadtEntry), NEW n \in Nat, n + 1 \in 1 .. Len(t.entries),
         NEW type, NEW list, list = Selected(t.entries, Places(t, type, n))
  PROVE  Add(list, t.entries[n + 1], type) = Selected(t.entries, Places(t, type, n + 1))
  <1>1. Places(t, type, n) \in SUBSET (1 .. n)
    BY DEF Places
  <1>2. CASE t.entries[n + 1].type = type
    <2>1. Places(t, type, n + 1) = Places(t, type, n) \cup {n + 1}
      BY <1>2 DEF Places
    <2>2. Selected(t.entries, Places(t, type, n) \cup {n + 1})
             = Append(Selected(t.entries, Places(t, type, n)), t.entries[n + 1])
      BY <1>1, SelectedGrows
    <2> QED
      BY <1>2, <2>1, <2>2 DEF Add
  <1>3. CASE t.entries[n + 1].type # type
    <2>1. Places(t, type, n + 1) = Places(t, type, n)
      BY <1>3 DEF Places
    <2> QED
      BY <1>3, <2>1 DEF Add
  <1> QED
    BY <1>2, <1>3

\* The walk is at an entry while the table lasts, and behind the last one then.
LEMMA AtAnEntry ==
  ASSUME AcpiTypes, pc = "walk"
  PROVE  /\ Offset(fw.tables[madt], i) < fw.tables[madt].len =>
               i \in 1 .. Len(fw.tables[madt].entries)
         /\ Offset(fw.tables[madt], i) >= fw.tables[madt].len =>
               i = Len(fw.tables[madt].entries) + 1
  <1> DEFINE t == fw.tables[madt]
  <1>1. /\ madt \in DOMAIN fw.tables /\ fw \in Firmwares /\ t.sig = "APIC"
        /\ i \in Nat \ {0} /\ i <= Len(t.entries) + 1
        /\ \A k \in 1 .. (i - 1) : t.entries[k].length # 0
    BY DEF AcpiTypes
  <1>2. t.entries \in Seq(MadtEntry) /\ t.len \in Nat /\ Met(t)
    BY <1>1, TableEntries
  <1> HIDE DEF t
  <1>3. /\ Offset(t, i) < t.len => i \in 1 .. Len(t.entries)
        /\ Offset(t, i) >= t.len => i = Len(t.entries) + 1
    BY <1>1, <1>2, WalkPlace
  <1> QED
    BY <1>3 DEF t

\* Every iteration of the search and of the walk keeps the invariant.
LEMMA AcpiCollects ==
  ASSUME AcpiTypes, ListInv, acpi_init
  PROVE  ListInv'
  <1>0. fw \in Firmwares /\ i \in Nat \ {0} /\ madt \in Nat
    BY DEF AcpiTypes
  <1>1. ASSUME NEW why, Stop(why) PROVE ListInv'
    BY <1>1, ListsStay DEF Stop
  <1>2. CASE acpi_rsdp_init
    <2>1. CASE pc' = "root"
      <3>1. pc = "rsdp" /\ UNCHANGED lists
        BY <1>2, <2>1 DEF acpi_rsdp_init, Stop
      <3> QED
        BY <2>1, <3>1 DEF ListInv, lists
    <2> QED
      BY <1>1, <1>2, <2>1 DEF acpi_rsdp_init
  <1>3. CASE RootTable
    <2>1. CASE pc' = "find" /\ i' = 1 /\ UNCHANGED lists /\ pc = "root"
      <3>1. \A k \in 1 .. (i' - 1) : FALSE
        BY <2>1
      <3> QED
        BY <2>1, <3>1 DEF ListInv, lists
    <2> QED
      BY <1>1, <1>3, <2>1 DEF RootTable
  <1>4. CASE acpi_find_sdt
    <2> DEFINE w == Word(i)
               t == fw.tables[w]
               v == IF w \in DOMAIN fw.tables
                    THEN acpi_verify_sdt(t, t.len, "APIC") ELSE "no"
    <2>0. pc = "find" /\ status = "run"
          /\ CASE v = "no" -> /\ i' = i + 1
                              /\ UNCHANGED <<fw, pc, status, has_xsdt, madt, lists>>
               [] v = "yes" -> /\ madt' = w /\ pc' = "malloc"
                               /\ UNCHANGED <<fw, status, has_xsdt, i, lists>>
               [] OTHER -> Stop(v)
      BY <1>4 DEF acpi_find_sdt
    <2>a. w \in DOMAIN fw.tables => t.len \in Nat
      BY <1>0, TableEntries
    <2>b. /\ v = "no" => w \notin DOMAIN fw.tables \/ t.sig # "APIC"
          /\ v = "yes" => w \in DOMAIN fw.tables /\ t.sig = "APIC" /\ t.len <= BYTE_MAX
      <3> HIDE DEF w, t
      <3> QED
        BY <2>a, Verdict
    <2>1. CASE v = "no"
      <3> HIDE DEF v
      <3>1. i' = i + 1 /\ fw' = fw /\ pc' = pc /\ has_xsdt' = has_xsdt /\ UNCHANGED lists
        BY <2>0, <2>1
      <3>2. \A k : Word(k)' = Word(k)
        BY <3>1 DEF Word
      <3>3. \A k \in 1 .. (i' - 1) : k = i \/ k \in 1 .. (i - 1)
        BY <1>0, <3>1
      <3>4. \A k \in 1 .. (i' - 1) :
               Word(k) \in DOMAIN fw.tables => fw.tables[Word(k)].sig # "APIC"
        BY <2>0, <2>1, <2>b, <3>3 DEF ListInv
      <3> QED
        BY <2>0, <3>1, <3>2, <3>4 DEF ListInv, lists
    <2>2. CASE v = "yes"
      <3>1. madt' = w /\ pc' = "malloc" /\ fw' = fw /\ UNCHANGED lists
        <4> HIDE DEF v, w
        <4> QED
          BY <2>0, <2>2
      <3>2. w \in DOMAIN fw.tables /\ t.sig = "APIC" /\ t.len <= BYTE_MAX
        BY <2>2, <2>b
      <3>3. w \in Nat \ {0}
        <4>1. fw.tables \in Seq(Table)
          BY <1>0, AcpiAssumption DEF Firmware
        <4> HIDE DEF w
        <4>2. w \in 1 .. Len(fw.tables) /\ Len(fw.tables) \in Nat
          BY <3>2, <4>1, LenProperties
        <4> QED
          BY <4>2
      <3>4. ASSUME NEW k \in 1 .. (w - 1) PROVE fw.tables[k].sig # "APIC"
        <4>1. PICK l \in 1 .. (i - 1) : Word(l) = k
          BY <1>0, <3>3, WordsInOrder
        <4>2. fw.tables \in Seq(Table)
          BY <1>0, AcpiAssumption DEF Firmware
        <4>3. k \in DOMAIN fw.tables
          <5> HIDE DEF w
          <5>1. w \in 1 .. Len(fw.tables) /\ Len(fw.tables) \in Nat
                /\ DOMAIN fw.tables = 1 .. Len(fw.tables)
            BY <3>2, <4>2, LenProperties
          <5> QED
            BY <5>1
        <4> QED
          BY <2>0, <4>1, <4>3 DEF ListInv
      <3> HIDE DEF w, v
      <3> QED
        BY <2>0, <3>1, <3>2, <3>4 DEF ListInv, lists
    <2>3. CASE v # "no" /\ v # "yes"
      <3>1. Stop(v)
        <4> HIDE DEF v
        <4> QED
          BY <2>0, <2>3
      <3> QED
        BY <1>1, <3>1
    <2> QED
      BY <2>1, <2>2, <2>3
  <1>5. CASE NotFound
    BY <1>1, <1>5 DEF NotFound
  <1>6. CASE MadtMalloc
    <2>1. CASE pc = "malloc" /\ pc' = "walk" /\ i' = 1 /\ UNCHANGED <<fw, madt, lists>>
      <3>1. madt \in DOMAIN fw.tables
        BY <2>1 DEF AcpiTypes
      <3>2. Entries \in Seq(MadtEntry) /\ Len(Entries) \in Nat
        BY <1>0, <3>1, TableEntries, LenProperties DEF Entries
      <3>3. Passed' = 0 /\ Entries' = Entries
        BY <2>1 DEF Passed, Entries
      <3>4. \A type : Places(fw.tables[madt], type, 0) = {}
        BY DEF Places
      <3>5. Selected(fw.tables[madt].entries, {}) = <<>>
        <4>1. Cardinality({}) = 0
          BY FS_EmptySet
        <4>2. 1 .. Cardinality({}) = {}
          BY <4>1
        <4> QED
          BY <4>2 DEF Selected
      <3>6. \A type : Selected(fw.tables[madt].entries, Places(fw.tables[madt], type, 0)) = <<>>
        BY <3>4, <3>5
      <3> QED
        BY <2>1, <3>2, <3>3, <3>6 DEF ListInv, Collected, lists
    <2> QED
      BY <1>1, <1>6, <2>1 DEF MadtMalloc
  <1>7. CASE WalkEntry
    <2> DEFINE t == fw.tables[madt]
    <2>1. /\ pc = "walk" /\ Offset(t, i) < t.len
          /\ i' = (IF t.entries[i].length = 0 THEN i ELSE i + 1)
          /\ fw' = fw /\ pc' = pc /\ madt' = madt
          /\ madt_lapics' = Add(madt_lapics, t.entries[i], 0)
          /\ madt_ioapics' = Add(madt_ioapics, t.entries[i], 1)
          /\ madt_isos' = Add(madt_isos, t.entries[i], 2)
          /\ madt_lapic_nmis' = Add(madt_lapic_nmis, t.entries[i], 4)
      BY <1>7 DEF WalkEntry, Advance
    <2>2. t.entries \in Seq(MadtEntry)
      BY <1>0, <2>1, TableEntries DEF AcpiTypes
    <2>3. Len(t.entries) \in Nat
      BY <2>2, LenProperties
    <2>a. i \in 1 .. Len(t.entries)
      BY <1>0, <2>1, AtAnEntry
    <2>b. Entries = t.entries /\ Entries' = t.entries /\ Passed = i - 1 /\ Passed' = i' - 1
      BY <2>1 DEF Passed, Entries
    <2>c. CASE t.entries[i].length = 0
      <3>1. i' = i
        BY <2>1, <2>c
      <3>2. Stuck' /\ Passed' \in 0 .. Len(Entries')
        BY <1>0, <2>1, <2>3, <2>a, <2>b, <2>c, <3>1 DEF Stuck
      <3> QED
        BY <2>1, <3>2 DEF ListInv
    <2>d. ASSUME t.entries[i].length # 0 PROVE ListInv'
      <3>1. i' = i + 1
        BY <2>1, <2>d
      <3>2. ~ Stuck /\ Passed' = i
        BY <1>0, <2>b, <2>d, <3>1 DEF Stuck
      <3> DEFINE n == i - 1
      <3>5. n \in Nat /\ n + 1 = i /\ n + 1 \in 1 .. Len(t.entries)
        BY <1>0, <2>3, <2>a
      <3>6. /\ madt_lapics = Selected(t.entries, Places(t, 0, n))
            /\ madt_ioapics = Selected(t.entries, Places(t, 1, n))
            /\ madt_isos = Selected(t.entries, Places(t, 2, n))
            /\ madt_lapic_nmis = Selected(t.entries, Places(t, 4, n))
        BY <2>1, <2>b, <3>2 DEF ListInv, Collected
      <3> HIDE DEF n, t
      <3>7. /\ Add(madt_lapics, t.entries[n + 1], 0) = Selected(t.entries, Places(t, 0, n + 1))
            /\ Add(madt_ioapics, t.entries[n + 1], 1) = Selected(t.entries, Places(t, 1, n + 1))
            /\ Add(madt_isos, t.entries[n + 1], 2) = Selected(t.entries, Places(t, 2, n + 1))
            /\ Add(madt_lapic_nmis, t.entries[n + 1], 4) = Selected(t.entries, Places(t, 4, n + 1))
        BY <2>2, <3>5, <3>6, AddCollects
      <3>9. /\ Collected(madt_lapics, 0)' /\ Collected(madt_ioapics, 1)'
            /\ Collected(madt_isos, 2)' /\ Collected(madt_lapic_nmis, 4)'
        <4>1. fw'.tables[madt'] = t
          BY <2>1 DEF t
        <4> QED
          BY <2>1, <3>2, <3>5, <3>7, <4>1 DEF Collected
      <3>10. Passed' \in 0 .. Len(Entries')
        BY <1>0, <2>3, <2>a, <2>b, <3>2
      <3> QED
        BY <2>1, <3>9, <3>10 DEF ListInv
    <2> QED
      BY <2>c, <2>d
  <1>8. CASE WalkDone
    <2>0. pc = "walk" /\ pc' = "apic" /\ UNCHANGED <<fw, i, madt, lists>>
          /\ Offset(fw.tables[madt], i) >= fw.tables[madt].len
      BY <1>8 DEF WalkDone
    <2>1. /\ pc = "walk" /\ i = Len(Entries) + 1 /\ pc' = "apic" /\ UNCHANGED <<fw, i, madt, lists>>
      BY <1>0, <2>0, AtAnEntry DEF Entries
    <2>2. Entries \in Seq(MadtEntry)
      BY <1>0, <2>1, TableEntries DEF AcpiTypes, Entries
    <2>3. Len(Entries) \in Nat
      BY <2>2, LenProperties
    <2>4. Passed = i - 1 /\ Passed \in 0 .. Len(Entries) /\ Entries' = Entries
      BY <2>1 DEF Passed, Entries, ListInv
    <2>5. Passed' = Len(Entries) /\ Passed = Len(Entries) /\ ~ Stuck
      BY <1>0, <2>1, <2>3, <2>4 DEF Passed, Stuck
    <2> QED
      BY <2>1, <2>3, <2>4, <2>5 DEF ListInv, Collected, lists
  <1> QED
    BY <1>2, <1>3, <1>4, <1>5, <1>6, <1>7, <1>8 DEF acpi_init

\* The lists are as the walk built them throughout.
LEMMA ListInvariant == Spec => []ListInv
  <1>1. Init => ListInv
    BY DEF Init, AcpiInit, ListInv
  <1>2. AcpiTypes /\ ListInv /\ [Next]_vars => ListInv'
    <2> SUFFICES ASSUME AcpiTypes, ListInv, [Next]_vars PROVE ListInv'
      OBVIOUS
    <2>1. CASE acpi_init
      BY <2>1, AcpiCollects
    <2>2. CASE apic_init
      <3>1. CASE Stop("panic")
        BY <3>1, ListsStay DEF Stop
      <3>2. CASE ~ Stop("panic")
        <4>1. UNCHANGED <<fw, madt, lists>>
          BY <2>2, <3>2 DEF apic_init, EnableApic, SetLow, SetHigh, SkipIrq, PassDone, acpiVars
        <4>2. pc \in {"apic", "low", "high"} /\ pc' \in {"low", "high", "done"}
          BY <2>2, <3>2 DEF apic_init, EnableApic, SetLow, SetHigh, SkipIrq, PassDone, acpiVars
        <4> QED
          BY <4>1, <4>2, ListsStay
      <3> QED
        BY <3>1, <3>2
    <2>3. CASE UNCHANGED acpiVars
      BY <2>3, ListsStay DEF acpiVars
    <2> QED
      BY <2>1, <2>2, <2>3 DEF Next, Pulse, vars
  <1>3. ApicInv => AcpiTypes
    BY DEF ApicInv
  <1> QED
    BY <1>1, <1>2, <1>3, ApicInvariant, PTL DEF Spec

\* When acpi_init returns it has used the first MADT the root table lists,
\* through an RSDT as through the half of an XSDT it reads, and each list has
\* that table's entries of its type, all of them and in order.
THEOREM MadtIsCollected == Spec => []MadtCollected
  <1>1. AcpiTypes /\ ListInv => MadtCollected
    <2> SUFFICES ASSUME AcpiTypes, ListInv,
                        pc \notin {"rsdp", "root", "find", "malloc", "walk"}
                 PROVE  /\ madt = SelectInSeq(fw.tables, LAMBDA t : t.sig = "APIC")
                        /\ madt_lapics = OfType(fw.tables[madt], 0)
                        /\ madt_ioapics = OfType(fw.tables[madt], 1)
                        /\ madt_isos = OfType(fw.tables[madt], 2)
                        /\ madt_lapic_nmis = OfType(fw.tables[madt], 4)
      BY DEF MadtCollected
    <2>0. fw \in Firmwares /\ madt \in DOMAIN fw.tables
      BY DEF AcpiTypes
    <2>1. madt = SelectInSeq(fw.tables, LAMBDA t : t.sig = "APIC")
      <3> DEFINE I == {k \in 1 .. Len(fw.tables) : fw.tables[k].sig = "APIC"}
      <3>1. fw.tables \in Seq(Table)
        BY <2>0, AcpiAssumption DEF Firmware
      <3>2. Len(fw.tables) \in Nat /\ madt \in 1 .. Len(fw.tables)
        BY <2>0, <3>1, LenProperties
      <3>3. madt \in I
        BY <3>2 DEF ListInv
      <3>4. \A k \in I : madt <= k
        <4> SUFFICES ASSUME NEW k \in I, ~ madt <= k PROVE FALSE
          OBVIOUS
        <4>1. k \in 1 .. (madt - 1)
          BY <3>2
        <4> QED
          BY <4>1 DEF ListInv
      <3>5. I \in SUBSET Nat /\ IsFiniteSet(I)
        <4>1. I \in SUBSET (1 .. Len(fw.tables))
          OBVIOUS
        <4> HIDE DEF I
        <4> QED
          BY <3>2, <4>1, PlacesFinite
      <3>6. SelectInSeq(fw.tables, LAMBDA t : t.sig = "APIC") = Min(I)
        BY <3>3 DEF SelectInSeq
      <3> HIDE DEF I
      <3>7. Min(I) \in I /\ \A q \in I : Min(I) <= q
        BY <3>3, <3>5, MinIsLeast
      <3>8. madt = Min(I)
        <4> DEFINE m == Min(I)
        <4>1. m \in I /\ m <= madt /\ m \in Nat /\ madt \in Nat
          BY <3>3, <3>5, <3>7
        <4> HIDE DEF m
        <4>2. madt <= m
          BY <3>4, <4>1
        <4>3. madt = m
          BY <4>1, <4>2
        <4> QED
          BY <4>3 DEF m
      <3> QED
        BY <3>6, <3>8
    <2>2. fw.tables[madt].entries \in Seq(MadtEntry)
      BY <2>0, TableEntries
    <2>3. Passed = Len(fw.tables[madt].entries)
      BY DEF Passed, Entries
    <2>4. /\ Collected(madt_lapics, 0) /\ Collected(madt_ioapics, 1)
          /\ Collected(madt_isos, 2) /\ Collected(madt_lapic_nmis, 4)
      BY DEF ListInv, Stuck
    <2> QED
      BY <2>1, <2>2, <2>3, <2>4, OfTypeIsSelected DEF Collected
  <1>2. ApicInv => AcpiTypes
    BY DEF ApicInv
  <1> QED
    BY <1>1, <1>2, ApicInvariant, ListInvariant, PTL

\* With a MADT of conforming entries the unchecked arrays never overflow: a
\* MADT that got through the checksum loop is no longer than its 8-bit counter
\* counts, its entries lie behind 44 bytes of it, and each but the last ends
\* before the 255th; so they are at most 27 of 8 bytes or more, and 36 NMIs.
THEOREM ArraysNeverOverflow ==
  ASSUME BYTE_MAX <= 255
  PROVE  Spec => []ArraysFit
  <1>1. AcpiTypes /\ ListInv => ArraysFit
    <2> DEFINE t == fw.tables[madt]
               n == Len(t.entries)
    <2> SUFFICES ASSUME AcpiTypes, ListInv, Conforming(t)
                 PROVE  /\ \A l \in {madt_lapics, madt_ioapics, madt_isos} : Len(l) <= ARRAY
                        /\ Len(madt_lapic_nmis) <= CAPACITY
      BY DEF ArraysFit
    <2>1. CASE pc \in {"rsdp", "root", "find", "malloc"}
      BY <2>1 DEF ListInv, ARRAY, CAPACITY
    <2>2. CASE pc \notin {"rsdp", "root", "find", "malloc"}
      <3>1. t.entries \in Seq(MadtEntry) /\ t.len \in Nat /\ Met(t)
        BY <2>2, TableEntries DEF AcpiTypes
      <3>2. t.len <= 255 /\ Passed \in 0 .. n
        <4>1. t.len <= BYTE_MAX /\ Passed \in 0 .. n
          BY <2>2 DEF ListInv, Entries
        <4> HIDE DEF t
        <4> QED
          BY <3>1, <4>1, AcpiAssumption
      <3>3. n \in Nat /\ DOMAIN t.entries = 1 .. n
        BY <3>1, LenProperties
      <3>4. ~ Stuck
        <4>1. ASSUME NEW k \in 1 .. n PROVE t.entries[k].length # 0
          <5>1. t.entries[k].length >= MinLength(t.entries[k].type)
            BY <3>3, <4>1 DEF Conforming
          <5>2. MinLength(t.entries[k].type) \in {2, 6, 8, 10, 12}
            BY DEF MinLength
          <5> QED
            BY <5>1, <5>2
        <4> QED
          BY <4>1 DEF Stuck, Entries
      <3>5. /\ madt_lapics = Selected(t.entries, Places(t, 0, Passed))
            /\ madt_ioapics = Selected(t.entries, Places(t, 1, Passed))
            /\ madt_isos = Selected(t.entries, Places(t, 2, Passed))
            /\ madt_lapic_nmis = Selected(t.entries, Places(t, 4, Passed))
        BY <2>2, <3>4 DEF ListInv, Collected
      <3>6. /\ \A k \in 1 .. n : t.entries[k].type \in {0, 1, 2} => t.entries[k].length >= 8
            /\ \A k \in 1 .. n : t.entries[k].type = 4 => t.entries[k].length >= 6
        <4>1. \A k \in 1 .. n : t.entries[k].length \in Nat
          BY <3>1, EntryLength, ElementOfSeq
        <4>2. \A k \in 1 .. n : t.entries[k].length >= MinLength(t.entries[k].type)
          BY <3>3 DEF Conforming
        <4> QED
          BY <4>1, <4>2 DEF MinLength
      <3> HIDE DEF t
      <3>7. ASSUME NEW type \in {0, 1, 2, 4}, NEW list,
                   list = Selected(t.entries, Places(t, type, Passed))
            PROVE  Len(list) <= IF type = 4 THEN 36 ELSE 27
        <4>1. /\ Places(t, type, Passed) \in SUBSET (1 .. n)
              /\ Places(t, type, Passed) \in SUBSET Places(t, type, n)
              /\ Places(t, type, n) \in SUBSET (1 .. n)
          BY <3>2, <3>3 DEF Places
        <4>2. Len(list) = Cardinality(Places(t, type, Passed))
          BY <3>1, <3>7, <4>1, SelectedIsSeq
        <4>3. IsFiniteSet(Places(t, type, n)) /\ Cardinality(Places(t, type, n)) \in Nat
              /\ Cardinality(Places(t, type, Passed)) \in Nat
          BY <3>3, <4>1, PlacesFinite
        <4>4. Cardinality(Places(t, type, Passed)) <= Cardinality(Places(t, type, n))
          BY <4>1, <4>3, FS_Subset
        <4> DEFINE w == IF type = 4 THEN 6 ELSE 8
        <4>5. \A k \in 1 .. n : t.entries[k].type = type => t.entries[k].length >= w
          BY <3>6, <3>7
        <4>6. w \in {6, 8} /\ (w = 8 <=> type # 4)
          OBVIOUS
        <4> HIDE DEF w
        <4>7. Cardinality(Places(t, type, n)) <= IF w = 8 THEN 27 ELSE 36
          BY <3>1, <3>2, <4>5, <4>6, FewEntries
        <4> QED
          BY <4>2, <4>3, <4>4, <4>6, <4>7
      <3>8. /\ Len(madt_lapics) <= 27 /\ Len(madt_ioapics) <= 27 /\ Len(madt_isos) <= 27
            /\ Len(madt_lapic_nmis) <= 36
        BY <3>5, <3>7
      <3>9. Len(madt_lapics) \in Nat /\ Len(madt_ioapics) \in Nat /\ Len(madt_isos) \in Nat
            /\ Len(madt_lapic_nmis) \in Nat
        <4>1. ASSUME NEW type PROVE Len(Selected(t.entries, Places(t, type, Passed))) \in Nat
          <5>1. Places(t, type, Passed) \in SUBSET (1 .. n)
            BY <3>2, <3>3 DEF Places
          <5> QED
            BY <3>1, <3>3, <5>1, SelectedIsSeq, PlacesFinite
        <4> QED
          BY <3>5, <4>1
      <3> QED
        BY <3>8, <3>9 DEF ARRAY, CAPACITY
    <2> QED
      BY <2>1, <2>2
  <1>2. ApicInv => AcpiTypes
    BY DEF ApicInv
  <1> QED
    BY <1>1, <1>2, ApicInvariant, ListInvariant, PTL
=============================================================================

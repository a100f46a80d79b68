-------------------------------- MODULE Apic --------------------------------
(***************************************************************************)
(* apic_init of dd/apic/apic.c, running after acpi_init on the lists it    *)
(* collected: the local APIC is enabled and every ISA interrupt is routed  *)
(* to its vector through the I/O APICs, twice.                             *)
(*                                                                         *)
(* A redirection entry is written as two 32-bit registers, the lower one   *)
(* (vector, polarity, trigger mode and mask) first.  The select register   *)
(* in front of them is not modelled: no interrupt handler uses it.         *)
(* pic_disable, which apic_init calls first, is part of Interrupts.        *)
(***************************************************************************)
EXTENDS Acpi

CONSTANTS
    ISA_IRQS,   \* the number of ISA interrupts (16)
    LapicId     \* the identifier of the processor's local APIC

ASSUME ApicAssumption == ISA_IRQS \in 1 .. 16 /\ LapicId \in 0 .. 255

VARIABLES
    pass,       \* which of apic_init's two loops runs
    irq,        \* its loop variable
    irq_bitmap, \* the bits set in irq_bitmap
    redir,      \* redir[g]: the redirection entry behind global interrupt g
    enabled,    \* whether the local APIC is enabled
    in_service  \* the vectors the local APIC has delivered

apicVars == <<pass, irq, irq_bitmap, redir, enabled, in_service>>
vars == <<acpiVars, apicVars>>

\* irq_bitmap has 16 bytes, and malloc's buffer for them has 30.
BITMAP_BITS == 240

\* Pins reset to masked.
ResetEntry == [vector |-> 0, flags |-> {}, mask |-> TRUE, dest |-> 0]

\* The pins 0 .. max_redir of an I/O APIC.
Pins(a) == a.gsi_base .. (a.gsi_base + a.max_redir)
Ioapics(f) == {e \in UNION {ToSet(f.tables[k].entries) : k \in DOMAIN f.tables} : e.type = 1}
Gsis(f) == UNION {Pins(a) : a \in Ioapics(f)}

-----------------------------------------------------------------------------
\* What ioapic_set_irq_redir does with an IRQ: the first override decides.
Iso(n) == SelectInSeq(madt_isos, LAMBDA e : e.irq_src = n)
Gsi(n) == IF Iso(n) = 0 THEN n ELSE madt_isos[Iso(n)].gsi
IsoFlags(n) == IF Iso(n) = 0 THEN {} ELSE madt_isos[Iso(n)].flags

\* The search stops one short of an I/O APIC's last pin, whose number is
\* what ioapic_get_max_redir returns.
ioapic_i_from_gsi(g) ==
    SelectInSeq(madt_ioapics,
                LAMBDA a : g >= a.gsi_base /\ g < a.gsi_base + a.max_redir)

apic_is_avail == fw.apic

EnableApic ==
    /\ status = "run" /\ pc = "apic"
    /\ IF ~ apic_is_avail
       THEN Stop("panic") /\ UNCHANGED apicVars
       ELSE /\ enabled' = TRUE
            /\ pass' = 1 /\ irq' = 0
            /\ pc' = "low"
            /\ UNCHANGED <<fw, status, has_xsdt, i, madt, lists,
                           irq_bitmap, redir, in_service>>

\* Mutant of Wanted: the loops run once too often.
Wanted_OneMore == irq <= ISA_IRQS /\ ~ (pass = 2 /\ irq \in irq_bitmap)

\* The second loop leaves out the IRQs in irq_bitmap.
Wanted == irq < ISA_IRQS /\ ~ (pass = 2 /\ irq \in irq_bitmap)

\* Mutant of SetLow: the entry is not masked.
SetLow_Unmasked ==
    /\ status = "run" /\ pc = "low" /\ Wanted
    /\ IF ioapic_i_from_gsi(Gsi(irq)) = 0
       THEN Stop("panic") /\ UNCHANGED apicVars
       ELSE /\ redir' = [redir EXCEPT ![Gsi(irq)].vector = irq + 32,
                                      ![Gsi(irq)].flags = IsoFlags(irq),
                                      ![Gsi(irq)].mask = FALSE]
            /\ pc' = "high"
            /\ UNCHANGED <<fw, status, has_xsdt, i, madt, lists, pass, irq,
                           irq_bitmap, enabled, in_service>>

\* The lower register of ioapic_set_gsi_redir.
SetLow ==
    /\ status = "run" /\ pc = "low" /\ Wanted
    /\ IF ioapic_i_from_gsi(Gsi(irq)) = 0
       THEN Stop("panic") /\ UNCHANGED apicVars
       ELSE /\ redir' = [redir EXCEPT ![Gsi(irq)].vector = irq + 32,
                                      ![Gsi(irq)].flags = IsoFlags(irq),
                                      ![Gsi(irq)].mask = TRUE]
            /\ pc' = "high"
            /\ UNCHANGED <<fw, status, has_xsdt, i, madt, lists, pass, irq,
                           irq_bitmap, enabled, in_service>>

\* Mutant of SetHigh: the bit of the IRQ is set, not that of its interrupt.
SetHigh_OwnBit ==
    /\ status = "run" /\ pc = "high"
    /\ redir' = [redir EXCEPT ![Gsi(irq)].dest = LapicId]
    /\ irq_bitmap' = IF pass = 1 THEN irq_bitmap ELSE irq_bitmap \cup {irq}
    /\ irq' = irq + 1
    /\ pc' = "low"
    /\ UNCHANGED <<fw, status, has_xsdt, i, madt, lists, pass, enabled, in_service>>

\* The upper register; the second loop then marks the interrupt as taken, with
\* a bit outside the buffer when its number is too large.
SetHigh ==
    /\ status = "run" /\ pc = "high"
    /\ redir' = [redir EXCEPT ![Gsi(irq)].dest = LapicId]
    /\ irq_bitmap' = IF pass = 1 THEN irq_bitmap ELSE irq_bitmap \cup {Gsi(irq)}
    /\ status' = IF pass = 2 /\ Gsi(irq) >= BITMAP_BITS THEN "wild" ELSE "run"
    /\ irq' = irq + 1
    /\ pc' = "low"
    /\ UNCHANGED <<fw, has_xsdt, i, madt, lists, pass, enabled, in_service>>

SkipIrq ==
    /\ status = "run" /\ pc = "low" /\ irq < ISA_IRQS /\ ~ Wanted
    /\ irq' = irq + 1
    /\ UNCHANGED <<acpiVars, pass, irq_bitmap, redir, enabled, in_service>>

\* Between the loops the bitmap is allocated, which may panic, and cleared.
PassDone ==
    /\ status = "run" /\ pc = "low" /\ irq = ISA_IRQS
    /\ \/ /\ pass = 1
          /\ pass' = 2 /\ irq' = 0 /\ irq_bitmap' = {}
          /\ UNCHANGED <<acpiVars, redir, enabled, in_service>>
       \/ /\ pass = 1
          /\ Stop("panic") /\ UNCHANGED apicVars
       \/ /\ pass = 2
          /\ pc' = "done"
          /\ UNCHANGED <<fw, status, has_xsdt, i, madt, lists, apicVars>>

\* A device raises the interrupt g.
Pulse(g) ==
    /\ in_service' = IF enabled /\ ~ redir[g].mask
                     THEN in_service \cup {redir[g].vector} ELSE in_service
    /\ UNCHANGED <<acpiVars, pass, irq, irq_bitmap, redir, enabled>>

Init ==
    /\ AcpiInit
    /\ pass = 0 /\ irq = 0 /\ irq_bitmap = {}
    /\ redir = [g \in Gsis(fw) |-> ResetEntry]
    /\ enabled = FALSE /\ in_service = {}

apic_init == EnableApic \/ SetLow \/ SetHigh \/ SkipIrq \/ PassDone

Next ==
    \/ acpi_init /\ UNCHANGED apicVars
    \/ apic_init
    \/ \E g \in Gsis(fw) : Pulse(g)

Spec == Init /\ [][Next]_vars

-----------------------------------------------------------------------------
(* Properties.                                                             *)

\* The type of the state.
TypeOK ==
    /\ fw \in Firmwares
    /\ pc \in {"rsdp", "root", "find", "malloc", "walk", "apic", "low", "high", "done"}
    /\ status \in {"run", "panic", "hung", "wild"}
    /\ has_xsdt \in BOOLEAN
    /\ i \in Nat \ {0} /\ madt \in Nat
    /\ \A k \in DOMAIN madt_isos : madt_isos[k] \in IsoEntry
    /\ pass \in 0 .. 2 /\ irq \in 0 .. ISA_IRQS
    /\ irq_bitmap \subseteq Nat
    /\ \A g \in Gsis(fw) : redir[g] \in
          [vector : 0 .. 255, flags : SUBSET {"low", "level"},
           mask : BOOLEAN, dest : 0 .. 255]
    /\ enabled \in BOOLEAN /\ in_service \subseteq 0 .. 255

\* The IRQs that the firmware moves to another global interrupt.
Moved == {n \in 0 .. (ISA_IRQS - 1) : Gsi(n) # n}
\* No two IRQs are moved to one interrupt, and none to that of a moved IRQ.
Unambiguous ==
    \A m \in Moved : Gsi(m) \notin Moved /\ \A n \in Moved \ {m} : Gsi(n) # Gsi(m)

\* When apic_init is done every override of the firmware is in force, with
\* its polarity and trigger mode, although the IRQ that has the overridden
\* interrupt's own number was routed to the same pin in between; every other
\* IRQ has its own pin.
OverridesInForce ==
    pc = "done" /\ Unambiguous =>
        \A n \in 0 .. (ISA_IRQS - 1) :
            n \in Moved \/ (\A m \in Moved : Gsi(m) # n) =>
                redir[Gsi(n)] = [vector |-> n + 32, flags |-> IsoFlags(n),
                                 mask |-> TRUE, dest |-> LapicId]

\* No interrupt reaches the processor through the local APIC, at no point
\* of the initialisation.  isr_handler acknowledges interrupts to the 8259
\* only, so one that did would stay in service for good.
LapicSilent == in_service = {}
=============================================================================

------------------------------- MODULE MCApic -------------------------------
(* Firmware tables: a plain machine, machines with every pair of interrupt *)
(* overrides, and machines whose tables are long, damaged or misplaced.    *)
EXTENDS Apic

Lapic == [type |-> 0, length |-> 8]
Nmi == [type |-> 4, length |-> 6]
X2apic == [type |-> 9, length |-> 16]
Ioapic(b, m) == [type |-> 1, length |-> 12, gsi_base |-> b, max_redir |-> m]
Override(n, g, f) == [type |-> 2, length |-> 10, irq_src |-> n, gsi |-> g, flags |-> f]

\* A MADT that ends with its last entry, and one of a length of its own.
MadtOf(n, es) == [sig |-> "APIC", sum |-> 0, len |-> n, entries |-> es]
Madt(es) == MadtOf(Offset([entries |-> es], Len(es) + 1), es)
Facp == [sig |-> "OTHER", sum |-> 7, len |-> 244, entries |-> <<>>]
Root == [sig |-> "ROOT", sum |-> 0, len |-> SDT_HDR, entries |-> <<>>]

F(tables) == [tags |-> <<"memmap", "rsdp", "smp">>, rsdp_sum |-> 0, rev |-> 0, xsdt_addr |-> FALSE, root |-> Root,
              tables |-> tables, apic |-> TRUE]

One == <<Lapic, Ioapic(0, 5)>>
Two == <<Lapic, Nmi, Ioapic(2, 6), X2apic, Ioapic(0, 2), Lapic, Nmi>>
Plain == F(<<Facp, Madt(Two)>>)

\* Every pair of overrides of four IRQs over five interrupts.
Overridden ==
    {F(<<Madt(One \o <<Override(n, g, f), Override(m, h, {"level"})>>), Facp>>) :
        n, m \in 0 .. 3, g, h \in 0 .. 4, f \in {{}, {"low", "level"}}}

Long(n) == F(<<Madt(Append([j \in 1 .. n |-> Lapic], Ioapic(0, 5)))>>)

\* n times the entry e.
Times(n, e) == [j \in 1 .. n |-> e]

\* Entries of length 0, of 2 bytes, one that ends behind the table, as many
\* NMIs as a table can hold, a MADT without entries, and an override to an
\* interrupt outside irq_bitmap.
Strange == {F(<<Madt(es)>>) : es \in {
                Times(100, [Lapic EXCEPT !.length = 2]), Times(35, Nmi),
                One \o <<Ioapic(240, 20), Override(2, 250, {"low"})>>}}
           \cup {F(<<MadtOf(80, Append(One, [e EXCEPT !.length = 0]))>>) :
                     e \in {Lapic, Nmi, X2apic, Ioapic(6, 2), Override(1, 2, {})}}
           \cup {F(<<MadtOf(70, Append(One, [Override(2, 3, {}) EXCEPT !.length = 200]))>>),
                 F(<<MadtOf(255, Append(Times(35, Nmi), [Nmi EXCEPT !.length = 9]))>>),
                 F(<<MadtOf(SDT_HDR, <<>>)>>)}

Odd == {Plain, Long(24), Long(25), Long(33),
        [Plain EXCEPT !.tags = <<"memmap">>],
        [Plain EXCEPT !.rsdp_sum = 1],
        [Plain EXCEPT !.apic = FALSE],
        [Plain EXCEPT !.root.sum = 3],
        [Plain EXCEPT !.root.sig = "OTHER"],
        [Plain EXCEPT !.tables[2].sum = 9],
        F([j \in 1 .. 60 |-> Facp]),
        F(<<Facp, Madt(One), Madt(Two)>>),
        F(<<>>), F(<<Facp>>),
        F(<<Madt(<<Lapic, Ioapic(0, 3)>>)>>),
        [Plain EXCEPT !.rev = 2],
        [F(<<Madt(Two), Facp>>) EXCEPT !.rev = 2, !.xsdt_addr = TRUE],
        [F(<<Facp, Madt(Two), Facp, Facp>>) EXCEPT !.rev = 2, !.xsdt_addr = TRUE],
        [F([j \in 1 .. 28 |-> Facp]) EXCEPT !.rev = 3, !.xsdt_addr = TRUE]}

AllFirmwares == Odd \cup Strange \cup Overridden

\* A MADT in the second half of an XSDT.
LateMadt == {[F(<<Facp, Facp, Facp, Madt(Two)>>) EXCEPT !.rev = 2, !.xsdt_addr = TRUE]}
=============================================================================

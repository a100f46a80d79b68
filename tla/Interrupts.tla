----------------------------- MODULE Interrupts -----------------------------
(***************************************************************************)
(* Interrupts: the two 8259 controllers as dd/pic/pic.c programs them,     *)
(* gdt_init, idt_init, the common stub of cpu/_isr.s and isr_handler of    *)
(* cpu/isr.c, running against a main thread that boots the kernel.         *)
(*                                                                         *)
(* The controllers are hardware: Out, Pending, Raise and Deliver say what  *)
(* the code relies on them to do.  A controller takes its initialisation   *)
(* words one write at a time, so the order of pic_remap's writes and the   *)
(* ports they go to decide what it ends up with.                           *)
(***************************************************************************)
EXTENDS Integers, Sequences, FiniteSets, FiniteSetsExt

CONSTANTS
    Lines,          \* the lines 0 .. 15 on which devices interrupt
    EntryMasks,     \* the pairs of masks the bootloader may leave
    Traps,          \* the vectors the main thread itself may raise
    MaskLines,      \* the lines drivers mask and unmask
    HonoursMode     \* whether the controllers obey the mode bit of ICW4

ASSUME InterruptsAssumption ==
    /\ Lines \subseteq 0 .. 15 /\ MaskLines \subseteq 0 .. 15
    /\ EntryMasks \subseteq [{"master", "slave"} -> 0 .. 255]
    /\ Traps \subseteq 0 .. 255
    /\ HonoursMode \in BOOLEAN

VARIABLES
    pc,         \* where the main thread is
    k,          \* the next write of pic_remap
    mask1,      \* pic_remap's local variables
    mask2,
    pic,        \* the state of each controller
    IF_flag,    \* the processor's interrupt flag
    handling,   \* the interrupt being handled, or None
    regs,       \* the main thread's registers: "own" or "reversed"
    halted,     \* in one of the cli; hlt loops of isr_handler
    seg         \* the descriptor table in force and the segment registers

vars == <<pc, k, mask1, mask2, pic, IF_flag, handling, regs, halted, seg>>

None == [vector |-> -1, from |-> "none"]
SYSCALL_INT == 128
SPURIOUS_INT == 255
ICW4_8086 == 1

\* The ports of pic.h, as its macros expand.
PIC1 == "master"
PIC1_COMMAND == <<PIC1, "command">>
PIC1_DATA == <<PIC1, "data">>
PIC2_COMMAND == <<PIC1, "command">>
PIC2_DATA == <<PIC1, "data">>

-----------------------------------------------------------------------------
(* The controllers.                                                        *)

Bits(v) == {b \in 0 .. 7 : (v \div 2^b) % 2 = 1}

\* One byte written to a controller c.  ICW1 (0x11) starts an initialisation
\* of three more words and clears the mask; 0x20 is the end-of-interrupt
\* command; a data byte is the word expected next, or else the mask.  ICW3 is
\* not kept: in pic_remap the master takes the slave's base, 0x28, for it, and
\* the controllers modelled are wired as one slave on line 2 whatever it says.
Command(c, v) ==
    IF v = 17 THEN [c EXCEPT !.expect = 2, !.imr = 0, !.isr = {}, !.irr = {}]
    ELSE IF v = 32 /\ c.isr # {} THEN [c EXCEPT !.isr = @ \ {Min(c.isr)}]
    ELSE c

Data(c, v) ==
    CASE c.expect = 2 -> [c EXCEPT !.base = 8 * (v \div 8), !.expect = 3]
      [] c.expect = 3 -> [c EXCEPT !.expect = 4]
      [] c.expect = 4 -> [c EXCEPT !.icw4 = v, !.expect = 0]
      [] OTHER -> [c EXCEPT !.imr = v]

Out(p, port, v) ==
    [p EXCEPT ![port[1]] = IF port[2] = "command" THEN Command(@, v) ELSE Data(@, v)]

In(p, port) == p[port[1]].imr

\* The requests of c that are neither masked nor held back by one in service.
Pending(c) ==
    {b \in c.irr \ Bits(c.imr) : \A s \in c.isr : b < s}

\* The slave's output is line 2 of the master.
Master == [pic["master"] EXCEPT !.irr =
              (@ \ {2}) \cup (IF Pending(pic["slave"]) # {} THEN {2} ELSE {})]

\* In 8086 mode the vector is base + line; in MCS-80 mode, line * 8.
Vector(c, line) ==
    IF HonoursMode /\ 0 \notin Bits(c.icw4) THEN 8 * line ELSE c.base + line

Raise(l) ==
    /\ pic' = IF l < 8 THEN [pic EXCEPT !["master"].irr = @ \cup {l}]
                       ELSE [pic EXCEPT !["slave"].irr = @ \cup {l - 8}]
    /\ UNCHANGED <<pc, k, mask1, mask2, IF_flag, handling, regs, halted, seg>>

\* The gates are interrupt gates: delivery clears the interrupt flag.
Deliver ==
    /\ IF_flag /\ handling = None /\ Pending(Master) # {}
    /\ LET b == Min(Pending(Master))
           s == Min(Pending(pic["slave"]))
       IN IF b # 2
          THEN /\ pic' = [pic EXCEPT !["master"].irr = @ \ {b},
                                     !["master"].isr = @ \cup {b}]
               /\ handling' = [vector |-> Vector(pic["master"], b), from |-> "master"]
          ELSE /\ pic' = [pic EXCEPT !["master"].isr = @ \cup {2},
                                     !["slave"].irr = @ \ {s},
                                     !["slave"].isr = @ \cup {s}]
               /\ handling' = [vector |-> Vector(pic["slave"], s), from |-> "slave"]
    /\ IF_flag' = FALSE
    /\ UNCHANGED <<pc, k, mask1, mask2, regs, halted, seg>>

\* An exception or a software interrupt of the main thread.
Trap(v) ==
    /\ pc \in {"run", "disable", "quiet"} /\ handling = None /\ regs = "own"
    /\ handling' = [vector |-> v, from |-> "trap"]
    /\ IF_flag' = FALSE
    /\ UNCHANGED <<pc, k, mask1, mask2, pic, regs, halted, seg>>

-----------------------------------------------------------------------------
(* Handling.                                                               *)

\* Mutant of pic_signal_eoi: the master is signalled for slave lines only.
pic_signal_eoi_SlaveOnly(v) ==
    IF v >= 40 THEN Out(pic, PIC1_COMMAND, 32) ELSE pic

pic_signal_eoi(v) ==
    LET p == IF v >= 40 THEN Out(pic, PIC2_COMMAND, 32) ELSE pic
    IN Out(p, PIC1_COMMAND, 32)

\* The stub of every vector pushes the vector's own number.
isr_num == handling.vector

\* pusha64, then popa64, which pops in the order in which pusha64 pushed:
\* the registers come back in reverse order.
popa64(r) == IF r = "own" THEN "reversed" ELSE "own"

\* Leaving through the common stub; iretq restores the interrupt flag.
Return ==
    /\ handling' = None
    /\ IF_flag' = TRUE
    /\ regs' = popa64(regs)
    /\ UNCHANGED <<pc, k, mask1, mask2, halted, seg>>

Halt ==
    /\ halted' = TRUE
    /\ UNCHANGED <<pc, k, mask1, mask2, pic, IF_flag, handling, regs, seg>>

\* exceptions[] has 32 entries and is read at isr_num in three branches.  In
\* the second the read is past its end: what it finds may be printable, or
\* the handler faults and the exception halts the kernel.
isr_handler ==
    /\ handling # None /\ ~ halted
    /\ LET v == isr_num
       IN \/ v < 32 /\ Halt
          \/ v \in 32 .. 47 /\ pic' = pic_signal_eoi(v) /\ Return
          \/ v \in 32 .. 47 /\ Halt
          \/ v \in {SYSCALL_INT, SPURIOUS_INT} /\ UNCHANGED pic /\ Return
          \/ v >= 48 /\ v \notin {SYSCALL_INT, SPURIOUS_INT} /\ Halt

-----------------------------------------------------------------------------
(* The main thread.  With reversed registers its next step is anything; it *)
(* is not modelled beyond that point until they are back in order.         *)

MainRuns == handling = None /\ ~ halted /\ regs = "own"

\* The table gdt_init builds, by index: access byte and flags.  The task
\* state's descriptor takes two places.
gdt ==
    [n \in 0 .. 6 |->
        CASE n = 1 -> [access |-> 154, flags |-> 32]    \* kernel code
          [] n = 2 -> [access |-> 146, flags |-> 0]     \* kernel data
          [] n = 3 -> [access |-> 242, flags |-> 0]     \* user data
          [] n = 4 -> [access |-> 250, flags |-> 32]    \* user code
          [] n = 5 -> [access |-> 137, flags |-> 0]     \* task state
          [] OTHER -> [access |-> 0, flags |-> 0]]

\* Mutant of gdt_init: the code segment is not reloaded.
gdt_init_NoReload ==
    /\ pc = "boot" /\ MainRuns
    /\ seg' = [seg EXCEPT !.table = gdt, !.ss = 16]
    /\ pc' = "start"
    /\ UNCHANGED <<k, mask1, mask2, pic, IF_flag, handling, regs, halted>>

\* _load_gdt_tss, in force: the new table and the reloaded registers.
load_gdt_tss(table) == [table |-> table, cs |-> 8, ss |-> 16]

gdt_init ==
    /\ pc = "boot" /\ MainRuns
    /\ seg' = load_gdt_tss(gdt)
    /\ pc' = "start"
    /\ UNCHANGED <<k, mask1, mask2, pic, IF_flag, handling, regs, halted>>

\* The descriptors of idt_create_descriptor: an interrupt gate of the
\* kernel's code segment for every vector.
Gate == [selector |-> 8, type_attribs |-> 142]

\* pic_remap saves the masks, ...
ReadMasks ==
    /\ pc = "start" /\ MainRuns
    /\ mask1' = In(pic, PIC1_DATA) /\ mask2' = In(pic, PIC2_DATA)
    /\ pc' = "remap" /\ k' = 1
    /\ UNCHANGED <<pic, IF_flag, handling, regs, halted, seg>>

\* ... makes these writes and restores the masks.
RemapWrites ==
    << <<PIC1_COMMAND, 17>>, <<PIC2_COMMAND, 17>>,
       <<PIC1_DATA, 32>>, <<PIC2_DATA, 40>>,
       <<PIC1_DATA, 4>>, <<PIC2_DATA, 2>>,
       <<PIC1_DATA, 1>>, <<PIC2_DATA, 1>>,
       <<PIC1_DATA, 0>>, <<PIC2_DATA, 0>>,
       <<PIC1_DATA, ICW4_8086>>, <<PIC2_DATA, ICW4_8086>>,
       <<PIC1_DATA, mask1>>, <<PIC2_DATA, mask2>> >>

pic_remap ==
    /\ pc = "remap" /\ MainRuns /\ k <= Len(RemapWrites)
    /\ pic' = Out(pic, RemapWrites[k][1], RemapWrites[k][2])
    /\ k' = k + 1
    /\ UNCHANGED <<pc, mask1, mask2, IF_flag, handling, regs, halted, seg>>

\* Mutant of idt_init: interrupts are enabled while pic_remap is at work.
idt_init_EarlySti ==
    /\ pc = "remap" /\ MainRuns /\ ~ IF_flag
    /\ pc' = IF k > Len(RemapWrites) THEN "run" ELSE pc
    /\ IF_flag' = TRUE
    /\ UNCHANGED <<k, mask1, mask2, pic, handling, regs, halted, seg>>

\* idt_init fills and loads the table and enables interrupts last.
idt_init ==
    /\ pc = "remap" /\ MainRuns /\ k > Len(RemapWrites)
    /\ pc' = "run" /\ IF_flag' = TRUE
    /\ UNCHANGED <<k, mask1, mask2, pic, handling, regs, halted, seg>>

\* The port and bit that pic_set_mask and pic_clear_mask use for a line.
MaskPort(l) == IF l < 8 THEN PIC1_DATA ELSE PIC2_DATA
MaskBit(l) == IF l < 8 THEN l ELSE l - 8

\* Mutant of pic_set_mask: the bit is added, not or-ed.
pic_set_mask_Adds(l) ==
    /\ pc = "run" /\ MainRuns
    /\ pic' = Out(pic, MaskPort(l), In(pic, MaskPort(l)) + 2^MaskBit(l))
    /\ UNCHANGED <<pc, k, mask1, mask2, IF_flag, handling, regs, halted, seg>>

pic_set_mask(l) ==
    /\ pc = "run" /\ MainRuns
    /\ LET v == In(pic, MaskPort(l))
       IN pic' = Out(pic, MaskPort(l),
                     IF MaskBit(l) \in Bits(v) THEN v ELSE v + 2^MaskBit(l))
    /\ UNCHANGED <<pc, k, mask1, mask2, IF_flag, handling, regs, halted, seg>>

pic_clear_mask(l) ==
    /\ pc = "run" /\ MainRuns
    /\ LET v == In(pic, MaskPort(l))
       IN pic' = Out(pic, MaskPort(l),
                     IF MaskBit(l) \in Bits(v) THEN v - 2^MaskBit(l) ELSE v)
    /\ UNCHANGED <<pc, k, mask1, mask2, IF_flag, handling, regs, halted, seg>>

\* pic_disable, called by apic_init: two writes, with interrupts enabled.
DisableSlave ==
    /\ pc = "run" /\ MainRuns
    /\ pic' = Out(pic, PIC2_DATA, 255)
    /\ pc' = "disable"
    /\ UNCHANGED <<k, mask1, mask2, IF_flag, handling, regs, halted, seg>>

\* Mutant of DisableMaster: the cascade line is left unmasked.
DisableMaster_NotCascade ==
    /\ pc = "disable" /\ MainRuns
    /\ pic' = Out(pic, PIC1_DATA, 251)
    /\ pc' = "quiet"
    /\ UNCHANGED <<k, mask1, mask2, IF_flag, handling, regs, halted, seg>>

DisableMaster ==
    /\ pc = "disable" /\ MainRuns
    /\ pic' = Out(pic, PIC1_DATA, 255)
    /\ pc' = "quiet"
    /\ UNCHANGED <<k, mask1, mask2, IF_flag, handling, regs, halted, seg>>

\* The segments a stivale2 bootloader enters the kernel with.
BootSegments ==
    [table |-> [n \in 0 .. 6 |-> IF n = 5 THEN [access |-> 154, flags |-> 32]
                                 ELSE [access |-> IF n = 6 THEN 146 ELSE 0, flags |-> 0]],
     cs |-> 40, ss |-> 48]

\* The state the firmware and the bootloader leave.
Init ==
    /\ pc = "boot" /\ k = 0 /\ mask1 = 0 /\ mask2 = 0
    /\ \E m \in EntryMasks :
          pic = [c \in {"master", "slave"} |->
                   [expect |-> 0, base |-> IF c = "master" THEN 8 ELSE 112,
                    icw4 |-> 1, imr |-> m[c], irr |-> {}, isr |-> {}]]
    /\ IF_flag = FALSE /\ handling = None /\ regs = "own" /\ halted = FALSE
    /\ seg = BootSegments

Main == gdt_init \/ ReadMasks \/ pic_remap \/ idt_init \/ DisableSlave \/ DisableMaster

Next ==
    \/ Main
    \/ \E l \in MaskLines : pic_set_mask(l) \/ pic_clear_mask(l)
    \/ \E l \in Lines : Raise(l)
    \/ \E v \in Traps : Trap(v)
    \/ Deliver
    \/ isr_handler

\* The processor delivers a pending interrupt and runs the handler.
Fairness == WF_vars(Deliver) /\ WF_vars(isr_handler)

Spec == Init /\ [][Next]_vars /\ Fairness

-----------------------------------------------------------------------------
(* Properties.                                                             *)

Chip == [expect : {0, 2, 3, 4}, base : 0 .. 248, icw4 : 0 .. 255,
         imr : 0 .. 255, irr : SUBSET (0 .. 7), isr : SUBSET (0 .. 7)]

\* The type of the state.
TypeOK ==
    /\ pc \in {"boot", "start", "remap", "run", "disable", "quiet"}
    /\ k \in 0 .. Len(RemapWrites) + 1
    /\ pic \in [{"master", "slave"} -> Chip]
    /\ IF_flag \in BOOLEAN /\ halted \in BOOLEAN
    /\ handling.vector \in -1 .. 255
    /\ regs \in {"own", "reversed"}

\* Present segments of ring 0, for 64-bit code and for the stack.
KernelCode(d) == Bits(d.access) \cap {3, 4, 5, 6, 7} = {3, 4, 7} /\ 5 \in Bits(d.flags)
KernelData(d) == Bits(d.access) \cap {1, 3, 4, 5, 6, 7} = {1, 4, 7}

\* Whenever an interrupt can arrive or return, the gate leads into kernel
\* code through a present interrupt gate, and the CS and SS that the
\* processor pushes and iretq loads again are segments of the table that is
\* in force, not of the bootloader's.
SegmentsUsable ==
    IF_flag \/ handling # None =>
        /\ Bits(Gate.type_attribs) = {1, 2, 3, 7}
        /\ KernelCode(seg.table[Gate.selector \div 8])
        /\ KernelCode(seg.table[seg.cs \div 8])
        /\ KernelData(seg.table[seg.ss \div 8])

\* An interrupt from a line of the master arrives at one of the eight vectors
\* set aside for it, and is never taken for an exception: no interrupt gets
\* through while pic_remap has the master half programmed.
IrqVectorsInRange ==
    handling.from = "master" => handling.vector \in 32 .. 39

\* No interrupt is left unacknowledged: when no handler runs the master has
\* nothing in service, so no line is blocked for good.  (It does not count the
\* acknowledgements: the one meant for the slave reaches the master too.)
Acknowledged ==
    handling = None => pic["master"].isr = {}

\* After pic_disable no controller interrupts the processor again, although
\* neither write reaches the slave.
PicSilent == pc = "quiet" => Pending(Master) = {}

\* A timer interrupt that is requested and stays unmasked is delivered,
\* unless the kernel has halted.
TimerServed ==
    (pc = "run" /\ 0 \in pic["master"].irr) ~>
        \/ 0 \notin pic["master"].irr
        \/ 0 \in Bits(pic["master"].imr)
        \/ halted

\* pic.h calls PIC2_COMMAND and PIC2_DATA the "slave PIC" ports and
\* pic_remap sends 0x28 and ICW4_8086 to them: once interrupts are enabled
\* both controllers are in 8086 mode, the slave at vector 40.
RemapProgramsBoth ==
    pc = "run" =>
        /\ pic["slave"].base = 40
        /\ \A c \in {"master", "slave"} : 0 \in Bits(pic[c].icw4)
=============================================================================

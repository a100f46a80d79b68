------------------------------- MODULE Serial -------------------------------
(***************************************************************************)
(* The serial log: log_impl, debug and com_send_char, used by the main     *)
(* thread and, on top of it, by isr_handler, which interrupts it between   *)
(* any two steps once idt_init has enabled interrupts.  They share dbg_buf *)
(* and the transmitter.  (log_buf is the main thread's alone, so filling   *)
(* it is not a step; the PIC is the subject of Interrupts.)                *)
(*                                                                         *)
(* What a call does is a sequence of operations: send a string, format     *)
(* into dbg_buf, send dbg_buf, halt, ... .  The calls that are under way   *)
(* form a stack, the running one first.  Characters are distinct: each     *)
(* names its text and its place there.                                     *)
(***************************************************************************)
EXTENDS Integers, Sequences, FiniteSets, SequencesExt

CONSTANTS
    Boots,      \* what the kernel does: sequences of log calls and "sti"
    Size,       \* the length of each part of a report
    BUF,        \* sizeof(dbg_buf)
    MaxIrqs     \* how many hardware interrupts there are

Statuses == {"INFO", "WARNING", "PANIC", "SUCCESS", "FAIL"}
Parts == {"colour", "banner", "name", "dump", "reset", "halting"}

ASSUME SerialAssumption ==
    /\ BUF \in Nat /\ MaxIrqs \in Nat
    /\ Size \in [Parts -> 0 .. (BUF - 1)]
    /\ Boots \subseteq Seq([do : {"log"}, status : Statuses, size : 0 .. (BUF - 1)]
                            \cup [do : {"sti"}])

VARIABLES
    boot,       \* the main thread's program, one of Boots
    calls,      \* the stack of calls; the last one is the main thread
    dbg_buf,
    thr,        \* the transmitter's holding register
    wire,       \* what was transmitted, with the call that sent it
    lost,       \* what was overwritten in the holding register
    IF_flag,    \* the interrupt flag while the main thread runs
    regs,       \* the main thread's registers: "own" or "reversed"
    irqs,       \* the interrupts so far
    hit         \* the lines that were interrupted while dbg_buf was in use

vars == <<boot, calls, dbg_buf, thr, wire, lost, IF_flag, regs, irqs, hit>>

None == <<>>
Terminator == <<"NUL">>

Text(who, part, size) == [j \in 1 .. size |-> <<who, part, j>>]

-----------------------------------------------------------------------------
(* The calls.                                                              *)

Send(text) == [do |-> "send", text |-> text]
Op(what) == [do |-> what, text |-> <<>>]

Debug(how, text) == << [do |-> how, text |-> text], [do |-> "send_buf", text |-> text] >>
debug(text) == Debug("format", text)
debug_set_col(who, part) == << Send(Text(who, part, Size[part])) >>

\* After a panic nothing else is done; __assert reports a failed assertion
\* in this way.
log_impl(who, status, size) ==
    debug_set_col(who, "colour")
        \o debug(Text(who, "line", size))
        \o (IF status = "PANIC" THEN <<Op("halt")>> ELSE debug_set_col(who, "reset"))

\* A report: its banner, the name of the interrupt, and the registers, of
\* whose lines the last stands for all (none is longer).
Report(who, name) ==
    debug_set_col(who, "colour")
        \o debug(Text(who, "banner", Size["banner"]))
        \o Debug(name, Text(who, "name", Size["name"]))
        \o debug_set_col(who, "colour")
        \o debug(Text(who, "dump", Size["dump"]))
        \o debug_set_col(who, "reset")

\* isr_handler for a hardware interrupt, and for an exception.  For the
\* first the name is read from beyond the end of exceptions[].
Irq(n) == Report(<<"irq", n>>, "name_irq") \o <<Op("iret")>>
Exception(n) ==
    Report(<<"exception", n>>, "format")
        \o debug(Text(<<"exception", n>>, "halting", Size["halting"])) \o <<Op("halt")>>

\* What the main thread does, from kinit to the hlt loop of kmain.
Main(b) ==
    FlattenSeq([n \in DOMAIN b |-> IF b[n].do = "sti" THEN <<Op("sti")>>
                                   ELSE log_impl(<<"log", n>>, b[n].status, b[n].size)])

\* A call that is about to start: the operations left, the position in the
\* string, the character read from it and whether the transmitter was ready.
Call(who, todo) == [who |-> who, todo |-> todo, i |-> 0, c |-> None, ready |-> FALSE]

-----------------------------------------------------------------------------
(* The processor.                                                          *)

Top == Head(calls)
Now == Head(Top.todo)

\* The main thread goes astray with its registers reversed.
Runs == Top.todo # <<>> /\ (Len(calls) = 1 => regs = "own")

\* The running call becomes c, or goes on to its next operation.
Becomes(c) == calls' = <<c>> \o Tail(calls)
NextOp == Becomes([Top EXCEPT !.todo = Tail(@), !.i = 0])

\* Mutant of Format: the text is not terminated.
Format_NoNul ==
    /\ Runs /\ Now.do \in {"format", "name_irq"}
    /\ IF Top.i < Len(Now.text)
       THEN dbg_buf' = [dbg_buf EXCEPT ![Top.i] = Now.text[Top.i + 1]]
            /\ Becomes([Top EXCEPT !.i = @ + 1])
       ELSE UNCHANGED dbg_buf /\ NextOp
    /\ UNCHANGED <<boot, thr, wire, lost, IF_flag, regs, irqs, hit>>

\* vsnprintf writes the next character, or the terminator.
Format ==
    /\ Runs /\ Now.do \in {"format", "name_irq"}
    /\ IF Top.i < Len(Now.text)
       THEN dbg_buf' = [dbg_buf EXCEPT ![Top.i] = Now.text[Top.i + 1]]
            /\ Becomes([Top EXCEPT !.i = @ + 1])
       ELSE dbg_buf' = [dbg_buf EXCEPT ![Top.i] = Terminator] /\ NextOp
    /\ UNCHANGED <<boot, thr, wire, lost, IF_flag, regs, irqs, hit>>

\* Whatever is found beyond exceptions[] may not be a string: vsnprintf
\* faults in the handler, which is not left again.
Fault ==
    /\ Runs /\ Now.do = "name_irq" /\ Top.i = 0
    /\ calls' = <<Call(<<"exception", irqs>>, Exception(irqs))>> \o calls
    /\ UNCHANGED <<boot, dbg_buf, thr, wire, lost, IF_flag, regs, irqs, hit>>

\* com_send_string reads the next character ...
Char == IF Now.do = "send_buf" THEN dbg_buf[Top.i]
        ELSE IF Top.i < Len(Now.text) THEN Now.text[Top.i + 1] ELSE Terminator

com_send_string ==
    /\ Runs /\ Now.do \in {"send", "send_buf"} /\ Top.c = None
    /\ IF Char = Terminator THEN NextOp ELSE Becomes([Top EXCEPT !.c = Char])
    /\ UNCHANGED <<boot, dbg_buf, thr, wire, lost, IF_flag, regs, irqs, hit>>

\* Mutants of com_is_transmit_empty: the test is left out; it is reversed.
com_is_transmit_empty_Always == TRUE
com_is_transmit_empty_Not == thr # None

com_is_transmit_empty == thr = None

\* ... com_send_char waits for the transmitter ...
Poll ==
    /\ Runs /\ Top.c # None /\ ~ Top.ready
    /\ com_is_transmit_empty
    /\ Becomes([Top EXCEPT !.ready = TRUE])
    /\ UNCHANGED <<boot, dbg_buf, thr, wire, lost, IF_flag, regs, irqs, hit>>

\* ... and writes to it, whatever has been written in between.
Outb ==
    /\ Runs /\ Top.ready
    /\ thr' = [by |-> Top.who, c |-> Top.c]
    /\ lost' = IF thr = None THEN lost ELSE lost \cup {thr}
    /\ Becomes([Top EXCEPT !.i = @ + 1, !.c = None, !.ready = FALSE])
    /\ UNCHANGED <<boot, dbg_buf, wire, IF_flag, regs, irqs, hit>>

\* The end of idt_init.
Sti ==
    /\ Runs /\ Now.do = "sti"
    /\ IF_flag' = TRUE /\ NextOp
    /\ UNCHANGED <<boot, dbg_buf, thr, wire, lost, regs, irqs, hit>>

\* The end of the stub; popa64 reverses the registers.
Iret ==
    /\ Runs /\ Now.do = "iret"
    /\ calls' = Tail(calls)
    /\ regs' = IF regs = "own" THEN "reversed" ELSE "own"
    /\ UNCHANGED <<boot, dbg_buf, thr, wire, lost, IF_flag, irqs, hit>>

\* A hardware interrupt.  Handlers are not interrupted, nor is a processor
\* that halted with interrupts disabled.
Halted == Top.todo # <<>> /\ Now.do = "halt"

Interrupt ==
    /\ Len(calls) = 1 /\ IF_flag /\ ~ Halted /\ irqs < MaxIrqs
    /\ irqs' = irqs + 1
    /\ calls' = <<Call(<<"irq", irqs'>>, Irq(irqs'))>> \o calls
    /\ hit' = IF Top.todo # <<>> /\ Now.do \in {"format", "send_buf"}
              THEN hit \cup {Now.text} ELSE hit
    /\ UNCHANGED <<boot, dbg_buf, thr, wire, lost, IF_flag, regs>>

\* The transmitter takes the character from the holding register.
Transmit ==
    /\ thr # None
    /\ wire' = Append(wire, thr) /\ thr' = None
    /\ UNCHANGED <<boot, calls, dbg_buf, lost, IF_flag, regs, irqs, hit>>

Init ==
    /\ boot \in Boots
    /\ calls = <<Call(<<"main", 0>>, Main(boot))>>
    /\ dbg_buf = [j \in 0 .. (BUF - 1) |-> Terminator]
    /\ thr = None /\ wire = <<>> /\ lost = {}
    /\ IF_flag = FALSE /\ regs = "own" /\ irqs = 0 /\ hit = {}

Processor ==
    Format \/ Fault \/ com_send_string \/ Poll \/ Outb \/ Sti \/ Iret

Next == Processor \/ Interrupt \/ Transmit

\* The processor goes on and the transmitter sends what it has.
Spec == Init /\ [][Next]_vars /\ WF_vars(Processor) /\ WF_vars(Transmit)

-----------------------------------------------------------------------------
(* Properties.                                                             *)

\* What was sent so far, and the part of it that is a call's own, in order.
Sent == IF thr = None THEN wire ELSE Append(wire, thr)
Output(who) ==
    LET own == {m \in DOMAIN Sent : Sent[m].by = who}
    IN [j \in 1 .. Cardinality(own) |->
            Sent[CHOOSE m \in own : Cardinality({q \in own : q <= m}) = j].c]

\* What a call is to send.
Said(ops) ==
    FlattenSeq([m \in DOMAIN ops |-> IF ops[m].do \in {"send", "send_buf"} THEN ops[m].text ELSE <<>>])

\* The report of an interrupt or an exception comes out whole, although it
\* goes through the buffer and the transmitter that the main thread is just
\* using.  Only its very last character can be lost: the main thread may
\* have seen the transmitter ready before the interrupt, and then writes
\* without looking again.  Nothing else is lost.
ReportsWhole ==
    /\ \A n \in 1 .. irqs :
          /\ IsPrefix(Output(<<"irq", n>>), Said(Irq(n)))
          /\ IsPrefix(Output(<<"exception", n>>), Said(Exception(n)))
          /\ Halted /\ Top.who = <<"exception", n>> =>
                Output(<<"exception", n>>) = Said(Exception(n))
    /\ \A x \in lost : \E n \in 1 .. irqs : x = [by |-> <<"irq", n>>, c |-> Last(Said(Irq(n)))]

\* A log line that no interrupt hits while debug is using the buffer is
\* sent in one piece, whatever happened to the lines before it: no character
\* of a handler comes between its own.
LinesIntact ==
    LET ahead == {op.text : op \in ToSet(Last(calls).todo)}
    IN \A n \in {m \in DOMAIN boot : boot[m].do = "log"} :
          LET line == Text(<<"log", n>>, "line", boot[n].size)
          IN line \notin hit \cup ahead =>
                \E k \in 0 .. (Len(Sent) - Len(line)) : \A j \in DOMAIN line :
                    Sent[k + j] = [by |-> <<"main", 0>>, c |-> line[j]]

\* The output comes to an end: no handler waits forever for a transmitter
\* that the main thread left full, and the main thread gets to the end of
\* its calls or halts, unless an odd number of interrupts reversed its
\* registers.
OutputEnds ==
    <>[](Halted \/ (Len(calls) = 1 /\ (Top.todo = <<>> \/ regs = "reversed")))
=============================================================================

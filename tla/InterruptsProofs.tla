-------------------------- MODULE InterruptsProofs --------------------------
(***************************************************************************)
(* Theorems about the interrupt controllers and the interrupt path, for    *)
(* every set of lines and traps, every mask the bootloader may leave and   *)
(* every interleaving of devices, main thread and handler.                 *)
(***************************************************************************)
EXTENDS Interrupts, NumberSets

-----------------------------------------------------------------------------
(* Bytes and their bits.                                                   *)

Power == [b \in 0 .. 7 |-> 2^b]

\* The weights of the bits of a byte.
LEMMA Powers ==
  /\ Power[0] = 1 /\ Power[1] = 2 /\ Power[2] = 4 /\ Power[3] = 8
  /\ Power[4] = 16 /\ Power[5] = 32 /\ Power[6] = 64 /\ Power[7] = 128
  BY DEF Power

\* When a bit is set, and that there are eight.
LEMMA BitSet ==
  ASSUME NEW v \in Nat
  PROVE  /\ Bits(v) \subseteq 0 .. 7
         /\ \A b \in 0 .. 7 : b \in Bits(v) <=> (v \div Power[b]) % 2 = 1
  <1>1. \A b \in 0 .. 7 : 2^b = Power[b]
    BY DEF Power
  <1> QED
    BY <1>1 DEF Bits

\* Setting a clear bit of a byte, or clearing a set one, leaves a byte.
LEMMA ByteStaysByte ==
  ASSUME NEW v \in 0 .. 255, NEW b \in 0 .. 7
  PROVE  /\ b \notin Bits(v) => v + 2^b \in 0 .. 255
         /\ b \in Bits(v) => v - 2^b \in 0 .. 255
  <1> DEFINE w == Power[b]
  <1>1. 2^b = w
    BY DEF Power
  <1>2. b \in Bits(v) <=> (v \div w) % 2 = 1
    BY BitSet
  <1>3. w \in {1, 2, 4, 8, 16, 32, 64, 128}
    BY Powers
  <1> HIDE DEF w
  <1>4. (v \div w) % 2 # 1 => v + w \in 0 .. 255
    <2>1. CASE w \in {1, 2, 4, 8}
      BY <2>1
    <2>2. CASE w \in {16, 32, 64, 128}
      BY <2>2
    <2> QED
      BY <1>3, <2>1, <2>2
  <1>5. (v \div w) % 2 = 1 => v - w \in 0 .. 255
    <2>1. CASE w \in {1, 2, 4, 8}
      BY <2>1
    <2>2. CASE w \in {16, 32, 64, 128}
      BY <2>2
    <2> QED
      BY <1>3, <2>1, <2>2
  <1> QED
    BY <1>1, <1>2, <1>4, <1>5

\* The bits of the bytes the code writes.
LEMMA KnownBits ==
  /\ Bits(1) = {0} /\ Bits(255) = 0 .. 7
  /\ Bits(142) = {1, 2, 3, 7}
  /\ Bits(154) = {1, 3, 4, 7} /\ Bits(146) = {1, 4, 7} /\ Bits(32) = {5}
  <1>1. \A b \in 0 .. 7 : /\ b \in Bits(1) <=> b = 0
                          /\ b \in Bits(255)
    BY BitSet, Powers
  <1>2. \A b \in 0 .. 7 : /\ b \in Bits(142) <=> b \in {1, 2, 3, 7}
                          /\ b \in Bits(32) <=> b = 5
    BY BitSet, Powers
  <1>3. \A b \in 0 .. 7 : /\ b \in Bits(154) <=> b \in {1, 3, 4, 7}
                          /\ b \in Bits(146) <=> b \in {1, 4, 7}
    BY BitSet, Powers
  <1>4. \A v \in Nat : Bits(v) \subseteq 0 .. 7
    BY BitSet
  <1> QED
    BY <1>1, <1>2, <1>3, <1>4

-----------------------------------------------------------------------------
(* The controllers.                                                        *)

\* The fields of a controller.
LEMMA ChipFields ==
  ASSUME NEW c \in Chip
  PROVE  /\ c.expect \in {0, 2, 3, 4} /\ c.base \in 0 .. 248
         /\ c.icw4 \in 0 .. 255 /\ c.imr \in 0 .. 255
         /\ c.irr \in SUBSET (0 .. 7) /\ c.isr \in SUBSET (0 .. 7)
  BY DEF Chip

\* A command byte: ICW1 restarts the initialisation with nothing in service,
\* an end-of-interrupt ends the only interrupt in service.
LEMMA CommandEffect ==
  ASSUME NEW c \in Chip
  PROVE  /\ Command(c, 17) \in Chip /\ Command(c, 32) \in Chip
         /\ Command(c, 17).expect = 2 /\ Command(c, 17).isr = {}
         /\ Command(c, 32).expect = c.expect /\ Command(c, 32).base = c.base
         /\ Command(c, 32).imr = c.imr
         /\ c.isr = {} => Command(c, 32).isr = {}
         /\ \A b \in 0 .. 7 : c.isr = {b} => Command(c, 32).isr = {}
  <1>1. /\ Command(c, 17) = [c EXCEPT !.expect = 2, !.imr = 0, !.isr = {}, !.irr = {}]
        /\ Command(c, 32) = IF c.isr # {} THEN [c EXCEPT !.isr = @ \ {Min(c.isr)}]
                                          ELSE c
    BY DEF Command
  <1>2. Command(c, 17) \in Chip /\ Command(c, 17).expect = 2 /\ Command(c, 17).isr = {}
    <2>1. Command(c, 17) = [expect |-> 2, base |-> c.base, icw4 |-> c.icw4,
                            imr |-> 0, irr |-> {}, isr |-> {}]
      BY <1>1 DEF Chip
    <2> QED
      BY <2>1, ChipFields DEF Chip
  <1>3. /\ Command(c, 32) \in Chip
        /\ Command(c, 32).expect = c.expect /\ Command(c, 32).base = c.base
        /\ Command(c, 32).imr = c.imr
        /\ c.isr # {} => Command(c, 32).isr = c.isr \ {Min(c.isr)}
        /\ c.isr = {} => Command(c, 32).isr = {}
    <2>1. CASE c.isr = {}
      BY <1>1, <2>1
    <2>2. CASE c.isr # {}
      <3>1. Command(c, 32) = [c EXCEPT !.isr = @ \ {Min(c.isr)}]
        BY <1>1, <2>2
      <3> QED
        BY <2>2, <3>1 DEF Chip
    <2> QED
      BY <2>1, <2>2
  <1>4. ASSUME NEW b \in 0 .. 7, c.isr = {b} PROVE Command(c, 32).isr = {}
    <2>1. Min({b}) = b
      BY DEF Min
    <2> QED
      BY <1>3, <1>4, <2>1
  <1> QED
    BY <1>2, <1>3, <1>4

\* A data byte: the initialisation word expected next, or else the mask.
LEMMA DataEffect ==
  ASSUME NEW c \in Chip, NEW v \in 0 .. 255
  PROVE  /\ Data(c, v) \in Chip
         /\ Data(c, v).isr = c.isr
         /\ c.expect = 2 => Data(c, v).expect = 3 /\ Data(c, v).base = 8 * (v \div 8)
         /\ c.expect = 3 => Data(c, v).expect = 4
         /\ c.expect = 4 => Data(c, v).expect = 0
         /\ c.expect = 0 => Data(c, v).expect = 0 /\ Data(c, v).imr = v
         /\ c.expect # 2 => Data(c, v).base = c.base
  <1>0. c.expect \in {0, 2, 3, 4} /\ 8 * (v \div 8) \in 0 .. 248
    BY ChipFields
  <1>1. CASE c.expect = 2
    <2>1. Data(c, v) = [c EXCEPT !.base = 8 * (v \div 8), !.expect = 3]
      BY <1>1 DEF Data
    <2>2. Data(c, v) = [expect |-> 3, base |-> 8 * (v \div 8), icw4 |-> c.icw4,
                        imr |-> c.imr, irr |-> c.irr, isr |-> c.isr]
      BY <2>1 DEF Chip
    <2> QED
      BY <1>0, <1>1, <2>2, ChipFields DEF Chip
  <1>2. CASE c.expect = 3
    <2>1. Data(c, v) = [c EXCEPT !.expect = 4]
      BY <1>2 DEF Data
    <2> QED
      BY <1>2, <2>1 DEF Chip
  <1>3. CASE c.expect = 4
    <2>1. Data(c, v) = [c EXCEPT !.icw4 = v, !.expect = 0]
      BY <1>3 DEF Data
    <2>2. Data(c, v) = [expect |-> 0, base |-> c.base, icw4 |-> v,
                        imr |-> c.imr, irr |-> c.irr, isr |-> c.isr]
      BY <2>1 DEF Chip
    <2> QED
      BY <1>0, <1>3, <2>2, ChipFields DEF Chip
  <1>4. CASE c.expect = 0
    <2>1. Data(c, v) = [c EXCEPT !.imr = v]
      BY <1>4 DEF Data
    <2> QED
      BY <1>4, <2>1 DEF Chip
  <1> QED
    BY <1>0, <1>1, <1>2, <1>3, <1>4

Chips == [{"master", "slave"} -> Chip]

\* Whatever pic.h calls it, every port the code writes is one of the master.
LEMMA WriteReachesMaster ==
  ASSUME NEW p \in Chips, NEW v \in 0 .. 255
  PROVE  /\ \A port \in {PIC1_COMMAND, PIC2_COMMAND} :
               /\ Out(p, port, v)["master"] = Command(p["master"], v)
               /\ Out(p, port, v)["slave"] = p["slave"]
               /\ Command(p["master"], v) \in Chip => Out(p, port, v) \in Chips
         /\ \A port \in {PIC1_DATA, PIC2_DATA} :
               /\ Out(p, port, v)["master"] = Data(p["master"], v)
               /\ Out(p, port, v)["slave"] = p["slave"]
               /\ Out(p, port, v) \in Chips
  <1>1. /\ PIC1_COMMAND = <<"master", "command">> /\ PIC2_COMMAND = <<"master", "command">>
        /\ PIC1_DATA = <<"master", "data">> /\ PIC2_DATA = <<"master", "data">>
    BY DEF PIC1_COMMAND, PIC2_COMMAND, PIC1_DATA, PIC2_DATA, PIC1
  <1>2. p["master"] \in Chip /\ p["slave"] \in Chip
    BY DEF Chips
  <1>3. Out(p, <<"master", "command">>, v) = [p EXCEPT !["master"] = Command(@, v)]
    BY DEF Out, Chips
  <1>4. Out(p, <<"master", "data">>, v) = [p EXCEPT !["master"] = Data(@, v)]
    BY DEF Out, Chips
  <1>5. Data(p["master"], v) \in Chip
    BY <1>2, DataEffect
  <1> QED
    BY <1>1, <1>3, <1>4, <1>5 DEF Chips

-----------------------------------------------------------------------------
(* The inductive invariant.                                                *)

\* Before interrupts are enabled none is taken, and gdt_init has run before
\* the first instruction that needs its segments.
QuietBoot ==
    /\ pc \in {"boot", "start", "remap"} => ~ IF_flag /\ handling = None
    /\ pc # "boot" => seg = load_gdt_tss(gdt)

\* How far pic_remap has programmed the master.  The second write of each pair
\* is meant for the slave and is the master's next initialisation word: it has
\* them all after the sixth write, and the other writes set its mask.
Programmed ==
    LET m == pic["master"]
    IN /\ pc = "remap" =>
             /\ k \in 1 .. 15
             /\ k \in {2, 3} => m.expect = 2
             /\ k = 4 => m.expect = 3 /\ m.base = 32
             /\ k = 5 => m.expect = 4 /\ m.base = 32
             /\ k \in 6 .. 15 => m.expect = 0 /\ m.base = 32
       /\ pc \in {"run", "disable", "quiet"} => m.expect = 0 /\ m.base = 32
       /\ pc = "quiet" => m.imr = 255

\* The slave is as the bootloader left it: no write reaches it.
SlaveUntouched == pic["slave"].base = 112 /\ pic["slave"].icw4 = 1

\* What the master has in service is the interrupt being handled.
InService ==
    /\ handling \in [vector : -1 .. 255, from : {"none", "trap", "master", "slave"}]
    /\ handling.from = "none" => handling = None
    /\ handling.from \in {"none", "trap"} => pic["master"].isr = {}
    /\ handling.from = "master" =>
          \E b \in 0 .. 7 :
             /\ pic["master"].isr = {b}
             /\ \/ handling.vector = 32 + b
                \/ HonoursMode /\ handling.vector = 8 * b
    /\ handling.from = "slave" => handling.vector \in 112 .. 119

IntTypes ==
    /\ pc \in {"boot", "start", "remap", "run", "disable", "quiet"}
    /\ k \in 0 .. 15
    /\ mask1 \in 0 .. 255 /\ mask2 \in 0 .. 255
    /\ pic \in Chips
    /\ IF_flag \in BOOLEAN /\ halted \in BOOLEAN
    /\ regs \in {"own", "reversed"}

IntInv == IntTypes /\ QuietBoot /\ Programmed /\ SlaveUntouched /\ InService

\* It holds in the state the bootloader leaves.
LEMMA IntInvInit == Init => IntInv
  <1> SUFFICES ASSUME Init PROVE IntInv
    OBVIOUS
  <1>1. PICK m \in EntryMasks :
          pic = [c \in {"master", "slave"} |->
                   [expect |-> 0, base |-> IF c = "master" THEN 8 ELSE 112,
                    icw4 |-> 1, imr |-> m[c], irr |-> {}, isr |-> {}]]
    BY DEF Init
  <1>2. m["master"] \in 0 .. 255 /\ m["slave"] \in 0 .. 255
    BY InterruptsAssumption
  <1>3. pic \in Chips /\ SlaveUntouched /\ pic["master"].isr = {}
    BY <1>1, <1>2 DEF Chips, Chip, SlaveUntouched
  <1>4. pc = "boot" /\ k = 0 /\ mask1 = 0 /\ mask2 = 0 /\ IF_flag = FALSE
        /\ handling = None /\ regs = "own" /\ halted = FALSE
    BY DEF Init
  <1>a. IntTypes
    <2>1. IF_flag \in BOOLEAN /\ halted \in BOOLEAN
      BY <1>4, Zenon
    <2>2. k \in 0 .. 15 /\ mask1 \in 0 .. 255 /\ mask2 \in 0 .. 255
      BY <1>4
    <2> QED
      BY <1>3, <1>4, <2>1, <2>2, Zenon DEF IntTypes
  <1>b. QuietBoot
    BY <1>4 DEF QuietBoot
  <1>c. Programmed
    BY <1>4 DEF Programmed
  <1>5. InService
    BY <1>3 DEF Init, InService, None
  <1> QED
    BY <1>3, <1>a, <1>b, <1>c, <1>5 DEF IntInv

\* A step that leaves the controllers' programming and the interrupt alone.
LEMMA IntStutter ==
  ASSUME IntInv, UNCHANGED <<pc, k, mask1, mask2, pic, IF_flag, handling, seg>>,
         halted' \in BOOLEAN, regs' \in {"own", "reversed"}
  PROVE  IntInv'
  BY DEF IntInv, IntTypes, QuietBoot, Programmed, SlaveUntouched, InService

\* gdt_init and the reading of the masks touch no controller.
LEMMA BootSteps ==
  ASSUME IntInv, gdt_init \/ ReadMasks
  PROVE  IntInv'
  <1>1. CASE gdt_init
    BY <1>1 DEF gdt_init, MainRuns, IntInv, IntTypes, QuietBoot, Programmed,
                SlaveUntouched, InService
  <1>2. CASE ReadMasks
    <2>1. In(pic, PIC1_DATA) \in 0 .. 255 /\ In(pic, PIC2_DATA) \in 0 .. 255
      <3>1. pic["master"] \in Chip
        BY DEF IntInv, IntTypes, Chips
      <3> QED
        BY <3>1, ChipFields DEF In, PIC1_DATA, PIC2_DATA, PIC1
    <2> QED
      BY <1>2, <2>1 DEF ReadMasks, MainRuns, IntInv, IntTypes, QuietBoot, Programmed,
                        SlaveUntouched, InService
  <1> QED
    BY <1>1, <1>2

\* One write of pic_remap: what the master then expects next.
LEMMA RemapStep ==
  ASSUME IntInv, pic_remap
  PROVE  IntInv'
  <1> DEFINE m == pic["master"]
             w == RemapWrites[k]
  <1>1. /\ pc = "remap" /\ k \in 1 .. 14 /\ k' = k + 1
        /\ pic' = Out(pic, w[1], w[2])
        /\ UNCHANGED <<pc, mask1, mask2, IF_flag, handling, regs, halted, seg>>
        /\ handling = None
    <2>1. Len(RemapWrites) = 14
      BY DEF RemapWrites
    <2> QED
      BY <2>1 DEF pic_remap, MainRuns, IntInv, Programmed
  <1>2. pic \in Chips /\ m \in Chip /\ m.isr = {} /\ mask1 \in 0 .. 255 /\ mask2 \in 0 .. 255
    BY <1>1 DEF IntInv, IntTypes, Chips, InService, None
  <1>3. /\ k \in {1, 2} => w[1] \in {PIC1_COMMAND, PIC2_COMMAND} /\ w[2] = 17
        /\ k \in 3 .. 14 => w[1] \in {PIC1_DATA, PIC2_DATA} /\ w[2] \in 0 .. 255
        /\ k = 3 => w[2] = 32
    BY <1>1, <1>2 DEF RemapWrites, ICW4_8086
  <1> HIDE DEF w
  <1>4. CASE k \in {1, 2}
    <2>1. /\ pic'["master"] = Command(m, 17) /\ pic'["slave"] = pic["slave"]
          /\ pic' \in Chips
      <3>1. Command(m, 17) \in Chip
        BY <1>2, CommandEffect
      <3>2. \A port \in {PIC1_COMMAND, PIC2_COMMAND} :
               /\ Out(pic, port, 17)["master"] = Command(m, 17)
               /\ Out(pic, port, 17)["slave"] = pic["slave"]
               /\ Out(pic, port, 17) \in Chips
        <4>1. 17 \in 0 .. 255
          OBVIOUS
        <4> QED
          BY <1>2, <3>1, <4>1, WriteReachesMaster
      <3> QED
        BY <1>1, <1>3, <1>4, <3>2
    <2>2. pic'["master"].expect = 2 /\ pic'["master"].isr = {}
      BY <2>1, <1>2, CommandEffect
    <2> QED
      BY <1>1, <1>4, <2>1, <2>2 DEF IntInv, IntTypes, QuietBoot, Programmed,
                                    SlaveUntouched, InService, None
  <1>5. CASE k \in 3 .. 14
    <2>0. w[1] \in {PIC1_DATA, PIC2_DATA} /\ w[2] \in 0 .. 255 /\ (k = 3 => w[2] = 32)
      BY <1>3, <1>5
    <2>1. /\ pic'["master"] = Data(m, w[2]) /\ pic'["slave"] = pic["slave"]
          /\ pic' \in Chips
      BY <1>1, <1>2, <2>0, WriteReachesMaster
    <2>2. /\ pic'["master"].isr = {}
          /\ m.expect = 2 => pic'["master"].expect = 3
                             /\ pic'["master"].base = 8 * (w[2] \div 8)
          /\ m.expect = 3 => pic'["master"].expect = 4
          /\ m.expect = 4 => pic'["master"].expect = 0
          /\ m.expect = 0 => pic'["master"].expect = 0
          /\ m.expect # 2 => pic'["master"].base = m.base
      <3> DEFINE v == w[2]
      <3>1. v \in 0 .. 255 /\ pic'["master"] = Data(m, v)
        BY <2>0, <2>1
      <3> HIDE DEF v, m
      <3>2. /\ Data(m, v).isr = m.isr
            /\ m.expect = 2 => Data(m, v).expect = 3 /\ Data(m, v).base = 8 * (v \div 8)
            /\ m.expect = 3 => Data(m, v).expect = 4
            /\ m.expect = 4 => Data(m, v).expect = 0
            /\ m.expect = 0 => Data(m, v).expect = 0
            /\ m.expect # 2 => Data(m, v).base = m.base
        BY <1>2, <3>1, DataEffect
      <3> QED
        BY <1>2, <3>1, <3>2 DEF v
    <2>3. Programmed'
      BY <1>1, <1>5, <2>0, <2>2 DEF IntInv, Programmed
    <2> QED
      BY <1>1, <2>1, <2>2, <2>3 DEF IntInv, IntTypes, QuietBoot,
                                    SlaveUntouched, InService, None
  <1> QED
    BY <1>1, <1>4, <1>5

\* idt_init enables interrupts once the master has every word.
LEMMA EnableStep ==
  ASSUME IntInv, idt_init
  PROVE  IntInv'
  <1>1. Len(RemapWrites) = 14
    BY DEF RemapWrites
  <1>2. /\ pc = "remap" /\ k \in 15 .. 15 /\ pc' = "run" /\ IF_flag' = TRUE
        /\ UNCHANGED <<k, mask1, mask2, pic, handling, regs, halted, seg>>
    BY <1>1 DEF idt_init, IntInv, Programmed
  <1>3. IF_flag' \in BOOLEAN
    BY <1>2, Zenon
  <1> QED
    BY <1>2, <1>3 DEF IntInv, IntTypes, QuietBoot, Programmed, SlaveUntouched, InService

\* A write to the mask by the main thread: a data byte outside an
\* initialisation sets the mask and nothing else.
LEMMA MaskWrite ==
  ASSUME IntInv, NEW port, port \in {PIC1_DATA, PIC2_DATA}, NEW v, v \in 0 .. 255,
         pic' = Out(pic, port, v), pc \in {"run", "disable"},
         pc' \in {"run", "disable", "quiet"}, pc' = "quiet" => v = 255,
         UNCHANGED <<k, mask1, mask2, IF_flag, handling, regs, halted, seg>>
  PROVE  IntInv'
  <1>1. pic \in Chips /\ pic["master"].expect = 0 /\ pic["master"].base = 32
    BY DEF IntInv, IntTypes, Programmed
  <1>2. /\ pic' \in Chips /\ pic'["slave"] = pic["slave"]
        /\ pic'["master"].isr = pic["master"].isr /\ pic'["master"].expect = 0
        /\ pic'["master"].imr = v /\ pic'["master"].base = 32
    <2>1. pic' = [pic EXCEPT !["master"].imr = v]
      <3>1. port = <<"master", "data">>
        BY DEF PIC1_DATA, PIC2_DATA, PIC1
      <3>2. pic' = [pic EXCEPT !["master"] = Data(@, v)]
        BY <1>1, <3>1 DEF Out, Chips
      <3>3. Data(pic["master"], v) = [pic["master"] EXCEPT !.imr = v]
        BY <1>1 DEF Data
      <3> QED
        BY <1>1, <3>2, <3>3 DEF Chips
    <2> QED
      BY <1>1, <2>1 DEF Chips, Chip
  <1>5. IntTypes' /\ QuietBoot'
    BY <1>2 DEF IntInv, IntTypes, QuietBoot
  <1>6. Programmed' /\ SlaveUntouched'
    BY <1>2 DEF IntInv, Programmed, SlaveUntouched
  <1>7. InService'
    BY <1>2 DEF IntInv, InService
  <1> QED
    BY <1>5, <1>6, <1>7 DEF IntInv

\* pic_set_mask, pic_clear_mask and pic_disable.
LEMMA MaskSteps ==
  ASSUME IntInv,
         \/ DisableSlave \/ DisableMaster
         \/ \E l \in MaskLines : pic_set_mask(l) \/ pic_clear_mask(l)
  PROVE  IntInv'
  <1>0. 255 \in 0 .. 255
    OBVIOUS
  <1>1. CASE DisableSlave
    BY <1>0, <1>1, MaskWrite DEF DisableSlave
  <1>2. CASE DisableMaster
    BY <1>0, <1>2, MaskWrite DEF DisableMaster
  <1>3. ASSUME NEW l \in MaskLines, pic_set_mask(l) \/ pic_clear_mask(l)
        PROVE  IntInv'
    <2> DEFINE v == In(pic, MaskPort(l))
               set == IF MaskBit(l) \in Bits(v) THEN v ELSE v + 2^MaskBit(l)
               clear == IF MaskBit(l) \in Bits(v) THEN v - 2^MaskBit(l) ELSE v
    <2>1. l \in 0 .. 15
      BY InterruptsAssumption
    <2>2. MaskBit(l) \in 0 .. 7 /\ MaskPort(l) \in {PIC1_DATA, PIC2_DATA}
      BY <2>1 DEF MaskBit, MaskPort
    <2>3. v \in 0 .. 255
      <3>1. pic["master"] \in Chip
        BY DEF IntInv, IntTypes, Chips
      <3> QED
        BY <2>2, <3>1, ChipFields DEF In, PIC1_DATA, PIC2_DATA, PIC1
    <2>4. /\ pc = "run" /\ UNCHANGED <<pc, k, mask1, mask2, IF_flag, handling, regs, halted, seg>>
          /\ pic' = Out(pic, MaskPort(l), set) \/ pic' = Out(pic, MaskPort(l), clear)
      BY <1>3 DEF pic_set_mask, pic_clear_mask
    <2>5. set \in 0 .. 255 /\ clear \in 0 .. 255
      <3> HIDE DEF v
      <3>1. /\ MaskBit(l) \notin Bits(v) => v + 2^MaskBit(l) \in 0 .. 255
            /\ MaskBit(l) \in Bits(v) => v - 2^MaskBit(l) \in 0 .. 255
        BY <2>2, <2>3, ByteStaysByte
      <3> QED
        BY <2>3, <3>1
    <2> HIDE DEF set, clear, v
    <2> QED
      BY <2>2, <2>4, <2>5, MaskWrite
  <1> QED
    BY <1>1, <1>2, <1>3

\* A device's request changes only which requests are pending.
LEMMA RaiseStep ==
  ASSUME IntInv, NEW l \in Lines, Raise(l)
  PROVE  IntInv'
  <1>1. l \in 0 .. 15
    BY InterruptsAssumption
  <1>2. pic \in Chips
    BY DEF IntInv, IntTypes
  <1>3. /\ pic' \in Chips
        /\ \A c \in {"master", "slave"} :
              /\ pic'[c].expect = pic[c].expect /\ pic'[c].base = pic[c].base
              /\ pic'[c].icw4 = pic[c].icw4 /\ pic'[c].imr = pic[c].imr
              /\ pic'[c].isr = pic[c].isr
    <2>1. CASE l < 8
      <3>1. pic' = [pic EXCEPT !["master"].irr = @ \cup {l}] /\ l \in 0 .. 7
        BY <1>1, <2>1 DEF Raise
      <3> QED
        BY <1>2, <3>1 DEF Chips, Chip
    <2>2. CASE ~ (l < 8)
      <3>1. pic' = [pic EXCEPT !["slave"].irr = @ \cup {l - 8}] /\ l - 8 \in 0 .. 7
        BY <1>1, <2>2 DEF Raise
      <3> QED
        BY <1>2, <3>1 DEF Chips, Chip
    <2> QED
      BY <2>1, <2>2
  <1>4. UNCHANGED <<pc, k, mask1, mask2, IF_flag, handling, regs, halted, seg>>
    BY DEF Raise
  <1>5. IntTypes' /\ QuietBoot'
    BY <1>3, <1>4 DEF IntInv, IntTypes, QuietBoot
  <1>6. Programmed' /\ SlaveUntouched'
    BY <1>3, <1>4 DEF IntInv, Programmed, SlaveUntouched
  <1>7. InService'
    BY <1>3, <1>4 DEF IntInv, InService
  <1> QED
    BY <1>5, <1>6, <1>7 DEF IntInv

\* A trap puts nothing in service.
LEMMA TrapStep ==
  ASSUME IntInv, NEW v \in Traps, Trap(v)
  PROVE  IntInv'
  <1>1. v \in 0 .. 255
    BY InterruptsAssumption
  <1>2. /\ pc \in {"run", "disable", "quiet"} /\ handling = None
        /\ handling' = [vector |-> v, from |-> "trap"] /\ IF_flag' = FALSE
        /\ UNCHANGED <<pc, k, mask1, mask2, pic, regs, halted, seg>>
    BY DEF Trap
  <1>3. IF_flag' \in BOOLEAN
    BY <1>2, Zenon
  <1>4. InService'
    BY <1>1, <1>2 DEF IntInv, InService, None
  <1>5. IntTypes'
    BY <1>2, <1>3 DEF IntInv, IntTypes
  <1>6. QuietBoot' /\ Programmed' /\ SlaveUntouched'
    BY <1>2 DEF IntInv, QuietBoot, Programmed, SlaveUntouched
  <1> QED
    BY <1>4, <1>5, <1>6 DEF IntInv

\* The pending requests are lines of the controller, and a nonempty set of
\* lines has a least one.
LEMMA PendingLines ==
  ASSUME NEW c \in Chip
  PROVE  /\ Pending(c) \subseteq c.irr /\ Pending(c) \subseteq 0 .. 7
         /\ Pending(c) # {} => Min(Pending(c)) \in Pending(c)
  <1> DEFINE P == Pending(c)
  <1>1. P \subseteq c.irr /\ P \in SUBSET (0 .. 7)
    BY ChipFields DEF Pending
  <1>2. IsFiniteSet(0 .. 7)
    <2>1. \A x, y \in Int : IsFiniteSet(x .. y)
      BY FS_Interval
    <2>2. 0 \in Int /\ 7 \in Int
      OBVIOUS
    <2> QED
      BY <2>1, <2>2, Zenon
  <1> HIDE DEF P
  <1>a. IsFiniteSet(P)
    BY <1>1, <1>2, FS_Subset
  <1>b. P \in SUBSET Nat
    BY <1>1
  <1>3. IsFiniteSet(P) /\ P \in SUBSET Nat
    BY <1>a, <1>b
  <1>4. P # {} => Min(P) \in P
    BY <1>3, MinIsLeast
  <1> QED
    BY <1>1, <1>4 DEF P

\* The master with the slave's output on its line 2.
LEMMA MasterIsChip ==
  ASSUME pic \in Chips
  PROVE  /\ Master \in Chip
         /\ Master.irr \ {2} = pic["master"].irr \ {2}
         /\ 2 \in Master.irr => Pending(pic["slave"]) # {}
         /\ Master.imr = pic["master"].imr
  <1>1. pic["master"] \in Chip
    BY DEF Chips
  <1> DEFINE out == IF Pending(pic["slave"]) # {} THEN {2} ELSE {}
  <1>2. Master = [pic["master"] EXCEPT !.irr = (pic["master"].irr \ {2}) \cup out]
    BY DEF Master
  <1>3. out \subseteq {2} /\ (2 \in out => Pending(pic["slave"]) # {})
    OBVIOUS
  <1> HIDE DEF out
  <1> QED
    BY <1>1, <1>2, <1>3 DEF Chip

\* A delivery puts the one line in service whose vector is handled.
LEMMA DeliverStep ==
  ASSUME IntInv, Deliver
  PROVE  IntInv'
  <1> DEFINE b == Min(Pending(Master))
             s == Min(Pending(pic["slave"]))
             m == pic["master"]
  <1>1. /\ IF_flag /\ handling = None /\ Pending(Master) # {} /\ IF_flag' = FALSE
        /\ UNCHANGED <<pc, k, mask1, mask2, regs, halted, seg>>
    BY DEF Deliver
  <1>2. pic \in Chips /\ pic["master"] \in Chip /\ pic["slave"] \in Chip
    BY DEF IntInv, IntTypes, Chips
  <1>3. /\ pc \in {"run", "disable", "quiet"} /\ m.expect = 0 /\ m.base = 32 /\ m.isr = {}
        /\ pic["slave"].base = 112 /\ pic["slave"].icw4 = 1
    BY <1>1 DEF IntInv, IntTypes, QuietBoot, Programmed, SlaveUntouched, InService, None
  <1>4. b \in 0 .. 7 /\ b \in Master.irr
    BY <1>1, <1>2, MasterIsChip, PendingLines
  <1>5. IF_flag' \in BOOLEAN
    BY <1>1, Zenon
  <1>6. CASE b # 2
    <2>1. /\ pic' = [pic EXCEPT !["master"].irr = @ \ {b}, !["master"].isr = @ \cup {b}]
          /\ handling' = [vector |-> Vector(m, b), from |-> "master"]
      BY <1>6 DEF Deliver
    <2> HIDE DEF b
    <2>2. pic' = [pic EXCEPT !["master"] = [expect |-> m.expect, base |-> m.base,
                      icw4 |-> m.icw4, imr |-> m.imr, irr |-> m.irr \ {b}, isr |-> {b}]]
      BY <1>2, <1>3, <2>1 DEF Chips, Chip
    <2>3. /\ pic' \in Chips /\ pic'["slave"] = pic["slave"]
          /\ pic'["master"].expect = 0 /\ pic'["master"].base = 32
          /\ pic'["master"].imr = m.imr /\ pic'["master"].isr = {b}
      BY <1>2, <1>3, <1>4, <2>2 DEF Chips, Chip
    <2>4. Vector(m, b) \in 0 .. 255 /\
          (Vector(m, b) = 32 + b \/ (HonoursMode /\ Vector(m, b) = 8 * b))
      BY <1>3, <1>4 DEF Vector
    <2>5. InService'
      <3> DEFINE n == Vector(m, b)
      <3>1. handling' = [vector |-> n, from |-> "master"] /\ n \in 0 .. 255
            /\ (n = 32 + b \/ (HonoursMode /\ n = 8 * b))
        BY <2>1, <2>4
      <3> HIDE DEF n
      <3>2. /\ handling'.from = "master" /\ handling'.vector = n
            /\ handling' \in [vector : -1 .. 255, from : {"none", "trap", "master", "slave"}]
        BY <3>1
      <3> QED
        BY <1>4, <2>3, <3>1, <3>2 DEF InService
    <2>6. IntTypes'
      BY <1>1, <1>5, <2>3 DEF IntInv, IntTypes
    <2>7. QuietBoot' /\ SlaveUntouched' /\ Programmed'
      BY <1>1, <1>3, <2>3 DEF IntInv, QuietBoot, SlaveUntouched, Programmed
    <2> QED
      BY <2>5, <2>6, <2>7 DEF IntInv
  <1>7. CASE b = 2
    <2>1. /\ pic' = [pic EXCEPT !["master"].isr = @ \cup {2},
                                !["slave"].irr = @ \ {s}, !["slave"].isr = @ \cup {s}]
          /\ handling' = [vector |-> Vector(pic["slave"], s), from |-> "slave"]
      BY <1>7 DEF Deliver
    <2>2. Pending(pic["slave"]) # {}
      BY <1>2, <1>4, <1>7, MasterIsChip
    <2>3. s \in 0 .. 7
      BY <1>2, <2>2, PendingLines
    <2> HIDE DEF b, s
    <2>4. Vector(pic["slave"], s) = 112 + s
      BY <1>3, <2>3, KnownBits DEF Vector
    <2> DEFINE v == pic["slave"]
    <2>5. pic' = [c \in {"master", "slave"} |->
             IF c = "master"
             THEN [expect |-> m.expect, base |-> m.base, icw4 |-> m.icw4,
                   imr |-> m.imr, irr |-> m.irr, isr |-> {2}]
             ELSE [expect |-> v.expect, base |-> v.base, icw4 |-> v.icw4,
                   imr |-> v.imr, irr |-> v.irr \ {s}, isr |-> v.isr \cup {s}]]
      <3> DEFINE m2 == [m EXCEPT !.isr = @ \cup {2}]
                 v2 == [v EXCEPT !.irr = @ \ {s}, !.isr = @ \cup {s}]
      <3>1. pic' = [pic EXCEPT !["master"] = m2, !["slave"] = v2]
        BY <1>2, <2>1 DEF Chips
      <3>2. m2 = [expect |-> m.expect, base |-> m.base, icw4 |-> m.icw4,
                  imr |-> m.imr, irr |-> m.irr, isr |-> {2}]
        BY <1>2, <1>3 DEF Chip
      <3>3. v2 = [expect |-> v.expect, base |-> v.base, icw4 |-> v.icw4,
                  imr |-> v.imr, irr |-> v.irr \ {s}, isr |-> v.isr \cup {s}]
        <4>1. v \in Chip
          BY <1>2
        <4> HIDE DEF v, s
        <4>2. v2 = [v EXCEPT !.irr = v.irr \ {s}, !.isr = v.isr \cup {s}]
          BY <4>1 DEF Chip
        <4> HIDE DEF v2
        <4> QED
          BY <4>1, <4>2 DEF Chip
      <3> HIDE DEF m2, v2
      <3>4. pic' = [c \in {"master", "slave"} |-> IF c = "master" THEN m2 ELSE v2]
        BY <1>2, <3>1 DEF Chips
      <3> QED
        BY <3>2, <3>3, <3>4
    <2>6. /\ pic' \in Chips
          /\ pic'["slave"].base = 112 /\ pic'["slave"].icw4 = 1
          /\ pic'["master"].expect = 0 /\ pic'["master"].base = 32
          /\ pic'["master"].imr = m.imr
      BY <1>2, <1>3, <2>3, <2>5 DEF Chips, Chip
    <2>7. InService'
      BY <2>1, <2>3, <2>4 DEF InService
    <2>8. IntTypes'
      BY <1>1, <1>5, <2>6 DEF IntInv, IntTypes
    <2>9. QuietBoot' /\ SlaveUntouched' /\ Programmed'
      BY <1>1, <1>3, <2>6 DEF IntInv, QuietBoot, SlaveUntouched, Programmed
    <2> QED
      BY <2>7, <2>8, <2>9 DEF IntInv
  <1> QED
    BY <1>6, <1>7

\* The end-of-interrupt command, once or twice.
LEMMA EoiEffect ==
  ASSUME NEW v \in 32 .. 47, pic \in Chips,
         pic["master"].isr = {} \/ \E b \in 0 .. 7 : pic["master"].isr = {b}
  PROVE  LET p == pic_signal_eoi(v)
         IN /\ p \in Chips /\ p["slave"] = pic["slave"]
            /\ p["master"].expect = pic["master"].expect
            /\ p["master"].base = pic["master"].base
            /\ p["master"].imr = pic["master"].imr
            /\ p["master"].isr = {}
  <1> DEFINE one == Out(pic, PIC1_COMMAND, 32)
             two == Out(one, PIC1_COMMAND, 32)
             same(q) == /\ q \in Chips /\ q["slave"] = pic["slave"]
                        /\ q["master"].expect = pic["master"].expect
                        /\ q["master"].base = pic["master"].base
                        /\ q["master"].imr = pic["master"].imr
                        /\ q["master"].isr = {}
  <1>1. pic_signal_eoi(v) = one \/ pic_signal_eoi(v) = two
    BY DEF pic_signal_eoi, PIC1_COMMAND, PIC2_COMMAND
  <1>2. 32 \in 0 .. 255 /\ PIC1_COMMAND \in {PIC1_COMMAND, PIC2_COMMAND}
    OBVIOUS
  <1>3. \A p \in Chips :
           /\ Out(p, PIC1_COMMAND, 32)["master"] = Command(p["master"], 32)
           /\ Out(p, PIC1_COMMAND, 32)["slave"] = p["slave"]
           /\ Command(p["master"], 32) \in Chip => Out(p, PIC1_COMMAND, 32) \in Chips
    BY <1>2, WriteReachesMaster
  <1>4. \A p \in Chips : p["master"] \in Chip
    BY DEF Chips
  <1>5. same(one)
    BY <1>3, <1>4, CommandEffect
  <1> HIDE DEF one
  <1>6. same(two)
    BY <1>3, <1>4, <1>5, CommandEffect
  <1> HIDE DEF two
  <1> QED
    BY <1>1, <1>5, <1>6

\* The handler: it returns with nothing in service, or halts.  An interrupt of
\* the slave has a vector above 47, so the handler never returns from one with
\* the cascade line still in service.
LEMMA HandlerStep ==
  ASSUME IntInv, isr_handler
  PROVE  IntInv'
  <1>0. handling # None /\ ~ halted
    BY DEF isr_handler
  <1>1. /\ pic \in Chips /\ handling.vector \in -1 .. 255
        /\ pc \in {"run", "disable", "quiet"}
    BY <1>0 DEF IntInv, IntTypes, QuietBoot, InService
  <1>2. CASE Halt
    <2>1. halted' \in BOOLEAN
      BY <1>2, Zenon DEF Halt
    <2> QED
      BY <1>2, <2>1, IntStutter DEF Halt, IntInv, IntTypes
  <1>3. ASSUME Return, pic'["master"].isr = {}, pic' \in Chips,
               pic'["slave"] = pic["slave"],
               pic'["master"].expect = pic["master"].expect,
               pic'["master"].base = pic["master"].base,
               pic'["master"].imr = pic["master"].imr
        PROVE  IntInv'
    <2>1. /\ handling' = None /\ IF_flag' = TRUE /\ regs' \in {"own", "reversed"}
          /\ UNCHANGED <<pc, k, mask1, mask2, halted, seg>>
      BY <1>3 DEF Return, popa64
    <2>2. IF_flag' \in BOOLEAN
      BY <2>1, Zenon
    <2>3. IntTypes'
      BY <1>3, <2>1, <2>2 DEF IntInv, IntTypes
    <2>4. InService'
      BY <1>3, <2>1 DEF InService, None
    <2>5. QuietBoot' /\ SlaveUntouched' /\ Programmed'
      BY <1>1, <1>3, <2>1 DEF IntInv, QuietBoot, SlaveUntouched, Programmed
    <2> QED
      BY <2>3, <2>4, <2>5 DEF IntInv
  <1>4. CASE /\ isr_num \in 32 .. 47 /\ pic' = pic_signal_eoi(isr_num) /\ Return
    <2>1. pic["master"].isr = {} \/ \E b \in 0 .. 7 : pic["master"].isr = {b}
      BY <1>4 DEF IntInv, InService, isr_num
    <2> QED
      BY <1>1, <1>3, <1>4, <2>1, EoiEffect
  <1>5. CASE /\ isr_num \in {SYSCALL_INT, SPURIOUS_INT} /\ UNCHANGED pic /\ Return
    <2>1. pic["master"].isr = {}
      BY <1>0, <1>5 DEF IntInv, InService, isr_num, SYSCALL_INT, SPURIOUS_INT
    <2> QED
      BY <1>1, <1>3, <1>5, <2>1
  <1> QED
    BY <1>2, <1>4, <1>5 DEF isr_handler

\* Every step of the specification.
LEMMA IntInvStep == IntInv /\ [Next]_vars => IntInv'
  <1> SUFFICES ASSUME IntInv, [Next]_vars PROVE IntInv'
    OBVIOUS
  <1>1. CASE Next
    BY <1>1, BootSteps, RemapStep, EnableStep, MaskSteps, RaiseStep, TrapStep,
       DeliverStep, HandlerStep DEF Next, Main
  <1>2. CASE UNCHANGED vars
    BY <1>2, IntStutter DEF vars, IntInv, IntTypes
  <1> QED
    BY <1>1, <1>2

-----------------------------------------------------------------------------
(* The theorems.                                                           *)

\* The inductive invariant holds throughout.
LEMMA IntInvariance == Spec => []IntInv
  BY IntInvInit, IntInvStep, PTL DEF Spec

\* The state keeps its types: a byte written to a mask stays a byte, and the
\* vector of an interrupt is one of 256.
THEOREM TypeCorrect == Spec => []TypeOK
  <1>1. IntInv => TypeOK
    <2>1. Len(RemapWrites) = 14
      BY DEF RemapWrites
    <2> QED
      BY <2>1 DEF IntInv, IntTypes, InService, TypeOK, Chips
  <1> QED
    BY <1>1, IntInvariance, PTL

\* Whenever an interrupt may arrive or return, the gate and the pushed CS and
\* SS are present kernel segments of the table gdt_init built.
THEOREM SegmentsAreUsable == Spec => []SegmentsUsable
  <1>1. IntInv => SegmentsUsable
    <2> SUFFICES ASSUME IntInv, IF_flag \/ handling # None PROVE SegmentsUsable
      BY DEF SegmentsUsable
    <2>1. seg = load_gdt_tss(gdt)
      BY DEF IntInv, IntTypes, QuietBoot
    <2>2. /\ seg.table = gdt /\ seg.cs = 8 /\ seg.ss = 16
          /\ Gate.selector = 8 /\ Gate.type_attribs = 142
      BY <2>1 DEF load_gdt_tss, Gate
    <2>3. /\ gdt[1].access = 154 /\ gdt[1].flags = 32 /\ gdt[2].access = 146
      BY DEF gdt
    <2>4. 8 \div 8 = 1 /\ 16 \div 8 = 2
      OBVIOUS
    <2>5. KernelCode(gdt[1]) /\ KernelData(gdt[2])
      BY <2>3, KnownBits DEF KernelCode, KernelData
    <2> QED
      BY <2>2, <2>4, <2>5, KnownBits DEF SegmentsUsable
  <1> QED
    BY <1>1, IntInvariance, PTL

\* When no handler runs the master has nothing in service, whether or not the
\* controllers obey the mode bit and although the second end-of-interrupt
\* goes to the master too.
THEOREM EveryInterruptAcknowledged == Spec => []Acknowledged
  <1>1. IntInv => Acknowledged
    BY DEF IntInv, InService, Acknowledged, None
  <1> QED
    BY <1>1, IntInvariance, PTL

\* After pic_disable no request reaches the processor, the cascade included.
THEOREM PicStaysSilent == Spec => []PicSilent
  <1>1. IntInv => PicSilent
    <2> SUFFICES ASSUME IntInv, pc = "quiet" PROVE Pending(Master) = {}
      BY DEF PicSilent
    <2>1. pic \in Chips /\ pic["master"].imr = 255
      BY DEF IntInv, IntTypes, Programmed
    <2>2. Master \in Chip /\ Master.imr = 255
      BY <2>1, MasterIsChip
    <2>3. Pending(Master) \subseteq 0 .. 7
      BY <2>2, PendingLines
    <2>4. Pending(Master) \cap Bits(255) = {}
      BY <2>2 DEF Pending
    <2> QED
      BY <2>3, <2>4, KnownBits
  <1> QED
    BY <1>1, IntInvariance, PTL

\* On controllers that ignore the mode bit a master interrupt has a vector of
\* 32 .. 39: interrupts are enabled only after pic_remap's last write.
THEOREM VectorsInRange ==
  ASSUME ~ HonoursMode
  PROVE  Spec => []IrqVectorsInRange
  <1>1. IntInv => IrqVectorsInRange
    BY DEF IntInv, InService, IrqVectorsInRange
  <1> QED
    BY <1>1, IntInvariance, PTL
=============================================================================

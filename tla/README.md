# FusionCore: models and proofs

FusionCore is a small x86-64 kernel for one processor, started by a stivale2
bootloader. It initialises memory management, descriptor tables, interrupt
controllers and ACPI, and then halts in a loop. This directory holds TLA+
models of its components, TLC configurations that check them on small
instances, and TLAPS proofs about all of them: frames, slabs, page tables,
interrupts, ACPI with the APIC, the heap, the serial log and formatted output.
Paths below are relative to `fckrnl/`.

## 1. The system

| Component | State | Operations | Who uses it |
|---|---|---|---|
| Frame allocator, `mm/phys.c`, `mm/bmap.c` | the bitmap, `hi_page_top`, `used_page_cnt`, the memory map it edits | `pmm_init`, `pmm_alloc`, `pmm_allocz`, `pmm_free` | page tables, slabs, malloc |
| Slab caches, `mm/slab.c` | chain of slabs, their freelists and counts, a cursor left between calls | create, destroy, alloc, free, grow, reap, dump | malloc |
| Page tables, `mm/virt.c` | root table, four levels of tables, the TLB | `vmm_init`, map and unmap of pages and ranges | boot |
| Interrupts, `dd/pic`, `cpu/idt.c`, `cpu/isr.c`, `cpu/_isr.s` | two 8259s, the IDT, the interrupt flag, saved registers | `pic_remap`, masks, EOI, `pic_disable`, `idt_init`, `isr_handler` | hardware, boot |
| ACPI, `acpi/` | RSDP, root table, MADT, four lists of its entries | `acpi_init` | APIC |
| APIC, `dd/apic` | local APIC registers, redirection entries | `apic_init`, EOI and IPI helpers | boot |
| Heap, `libk/malloc.c` | eight slab caches, a 16-bit size in front of each block | `malloc_heap_init`, `malloc`, `free` | ACPI, APIC |
| Serial log, `libk/serial`, `dd/com` | two static buffers, the UART | `log`, `debug`, `com_*` | everything, `isr_handler` too |
| Formatted output, `libk/kprintf` | none | `vsnprintf` and friends (mpaland/printf, adapted) | log, the vendor string |
| Segments, `cpu/gdt.c`, `cpu/_gdt.s` | descriptor table, segment registers, task state | `gdt_init` | boot, every interrupt |
| Boot structures, CPUID, `string.c`, `assert.c` | constant tables | `stivale2_get_tag`, straight-line code | boot |

`kinit` calls `pmm_init`, `vmm_init`, `gdt_init`, `idt_init`,
`malloc_heap_init`, `acpi_init` and `apic_init` in this order. Interrupts are
enabled at the end of `idt_init`, so everything from there on runs with
interrupts on. There is no second thread: the concurrency is between the main
thread, the interrupt handler and the devices. `log(PANIC, ...)` never returns.

What is hard, and what makes each component correct:

* **Frames.** A frame has at most one owner and is never NULL, the bitmap or
  reserved memory. Whether that holds depends on the order of `pmm_init`'s
  loops and on sizes that are rounded twice, and on where the bitmap, which is
  itself in page frames, ends up. Two records (bitmap and counter) must not
  drift apart. NULL is a frame number too, and gets freed.
* **Slabs.** A buffer has one owner even though `slab_cache_free` returns it to
  any slab; pages are given back according to counters.
* **Page tables.** The tables stay a tree, a step changes one page, and the TLB
  agrees with the tables although only one page is flushed.
* **Interrupts.** Controllers are programmed one port write at a time while
  devices interrupt; no interrupt stays in service unacknowledged; after
  `pic_disable` they stay quiet.
* **Segments.** What an interrupt pushes and `iretq` loads again must come from
  the kernel's own table before interrupts are enabled.
* **Heap.** Freelists are threaded through the buffers themselves, next to
  blocks that callers write to; `free` has only the address and two bytes of
  metadata to find out where a block came from.
* **Serial log.** The interrupt handler uses the buffer and the transmitter
  that the main thread may be just using, without a lock; both poll without a
  limit.
* **Formatted output.** The contract of `count`, arguments that must stay in
  step, and a fixed buffer for numbers in which zeros, prefix and sign compete.
* **ACPI and APIC.** Firmware tables whose lengths nobody checks; 8-bit and
  32-bit loops over 64-bit data; overrides that compete for the same redirection entry.

The hazards at their source lines are in `PROJECT.json`.

## 2. Modules

| Module | Models | State and actions |
|---|---|---|
| `Phys` | `mm/phys.c`, `mm/bmap.c` | `pmm_init` is one action per loop iteration (`ScanEntry`, `PlaceEntry`, `FreeEntry`, ...), then `pmm_alloc`, `pmm_allocz`, `pmm_free` on behalf of a set of holders, and `pmm_free_NULL`, the same `pmm_free` called by one that was refused, as `malloc` and `free` do. The bitmap is the set of its 1 bits; it lies in page frames of its own, and the memset of `pmm_allocz` clears the bits in those it reaches. Bits beyond the bitmap's bytes read as anything. |
| `FrameAllocator` | what `Phys` promises for single pages | grant, refuse, release; the release of a refusal, after which everything is refused |
| `Slab` | `mm/slab.c`, one cache | the chain is a sequence of slabs with count and freelist; one action per function; `OtherAlloc`, `OtherFree` are the other users of the frames |
| `Virt` | `mm/virt.c` | tables as functions; one action per iteration of a range loop; `Access` is the processor filling its TLB |
| `Heap` | `libk/malloc.c` on the caches of `mm/slab.c` | memory as cells of two bytes; `malloc_heap_init`, `malloc` and `free`, each in its two branches, read and write the freelists and metadata in memory; `Use` is an owner filling its block |
| `BlockAllocator` | what `Heap` promises | grant, write, release: blocks are disjoint and change by their owner's hand only |
| `Serial` | `libk/serial`, `dd/com/com.c`, the output of `isr_handler` | a stack of calls, each a list of operations; formatting, reading a character, polling and writing to the port are steps of their own; `Interrupt` and `Transmit` are hardware |
| `Printf` | `libk/kprintf/kprintf.c` | one action per turn of `_vsnprintf`'s loop: literal, each kind of conversion, termination |
| `Interrupts` | `dd/pic`, `cpu/gdt.c`, `cpu/idt.c`, `cpu/isr.c`, the stubs | `gdt_init`; each port write of `pic_remap` and `pic_disable` is a step; `Raise` and `Deliver` are hardware; `isr_handler` includes EOI and the return through the stub |
| `Acpi` | `acpi/`, `stivale2_get_tag` | `acpi_init` step by step over firmware tables chosen at the start; the entries of a MADT are those that the walk from length byte to length byte meets |
| `Apic` | `dd/apic/apic.c` | extends `Acpi`: `apic_init` runs on the lists `acpi_init` has built; a redirection entry is two writes |
| `PhysProofs`, `SlabProofs`, `VirtProofs`, `InterruptsProofs`, `ApicProofs`, `HeapProofs`, `OutputProofs` | theorems about `Phys`, `Slab`, `Virt`, `Interrupts`, `Apic` with `Acpi`, `Heap`, and `Serial` and `Printf` | section 5 |
| `NumberSets` | | facts the proofs share: ranks, least and greatest members of finite sets of numbers, sums over finite sets, bounded induction, recursion and folds, the elements of a sequence that pass a test |
| `MC*` | | memory maps, requests, masks and firmware tables for TLC |

Definitions keep the names of the C functions where one definition stands for
one function. `X_Something` in front of a definition `X` is a mutated form of
it, used to see that a property notices the change. The specification of
`Printf` is called `PrintfSpec`, because `OutputProofs` extends `Serial` as well.

Abstractions. Addresses are counted in pages. `bmap.c` takes a bit's number as an
`int`: frame numbers are taken to fit one (8 TiB). In `Slab` a buffer is a page and
an index; the layout of buffers in a page is the subject of `Heap`, where a
cache has the one slab it is created with, because `malloc` never lets it grow.
Table entries keep the
flags P, W and U. An 8259 is reduced to its initialisation sequence, mask,
request and in-service bits; its ICW3, for which the master takes 0x28 in
`pic_remap`, is not kept, and line 2 is the cascade whatever it says. A firmware
table is its signature, its byte sum, its length and the entries of a MADT; the
length of the root table is that of its entries; a device cannot be told from another beyond its line.
Output (`log`, `debug`) is left out of the other modules, except that a panic
stops the kernel. In `Serial` a text is its length and its characters are
distinct, `cpu_reg_dump`'s six lines are one, and acknowledging the interrupt is
left to `Interrupts`. `Printf` has the formats and arguments as sequences of
characters and numbers, since its properties are about them; the widths of the
integer types and of the number buffer are parameters.

Undefined behaviour is a choice: reads beyond the bitmap return any bits; the
read of `exceptions[]` past its end either prints something or faults.
After an interrupt the main thread's registers are in reverse order (`popa64`
pops in the order `pusha64` pushed); the model does not follow the thread until
a second interrupt puts them back. A name read beyond `exceptions[]` is printed
or faults in `Serial` as well. When a slab page is given back while
something points into it the model stops with status "corrupt"; `Heap` also
stops ("wild") at a pointer that is none, and `Acpi` and `Apic` at a write beyond
the buffer `malloc` gave.

## 3. Runs

| Run | Instance | What it shows |
|---|---|---|
| `phys_pages` | 5 memory maps, 4 holders, single pages, NULL freed up to twice | `FreeFramesAreSafe`, `HoldersExclusive`, `UsedCountTracksBitmap`, `ZeroFillSafe`, and that `Phys` implements `FrameAllocator` (`RefinesFrameAllocator`) |
| `phys_ranges` | 7 memory maps, 2 holders, 1, 3 and 5 pages, NULL freed up to once | `FrameZeroReserved`, `UsedCountIsHeldPages` even though ranges may overlap |
| `slab` | 4 frames, 2 buffers per slab, up to 3 slabs, all flags | `BufferExclusive`, `BufctlCountExact`, `BuffersBacked`, `AllocStrandsNothing`, `AllocEnds`; `ShrinkSafe` for reap and destroy |
| `virt` | 2 entries per table (16 pages), 14 frames | `TablesAreTree`, `TlbCoherent`, `StepsAreExact`, `NoTableLost` |
| `interrupts` | lines 0, 3, 12; three masks at entry; five traps | `SegmentsUsable`, `IrqVectorsInRange`, `Acknowledged`, `PicSilent`, `TimerServed` |
| `apic` | 830 firmwares, 4 ISA IRQs | `MadtCollected`, `ArraysFit`, `OverridesInForce`, `LapicSilent` |
| `heap` | caches of 4, 8 and 16 bytes in pages of 88, 7 frames, 4 blocks at a time | `FreelistSound`, and that `Heap` implements `BlockAllocator` (`BlocksPrivate`) |
| `serial` | two boots of up to 3 lines, up to 4 interrupts at any step | `ReportsWhole`, `LinesIntact` (a line that is not hit is contiguous in what is sent), `OutputEnds` |
| `printf` | about 13000 calls; types of 3, 4, 6 and 8 bits, numbers of 6 characters | `Delivered`, `ArgumentsMatch`, `IntegersAsInC` (against a reference definition) |
| `slab_free_panics` | as `slab`, with the flags the heap uses | violated: a legitimate free finds no slab |
| `pic_remap` | masks closed | violated: the slave is never programmed |
| `acpi_xsdt` | a MADT in the second half of an XSDT | violated: it is not found |

Why the bounds suffice. *Phys*: `PAGE_SIZE` 4 makes a page of bitmap cover 32
frames, so that one and two pages of bitmap, an entry too small for them, and
33 frames with 32 bits all occur; four holders exhaust the free frames of the
smaller maps, so that `pmm_allocz` is refused and NULL freed (`MaxNullFrees`
times at most; the counter would go down for ever). The bitmap lies at frame 0
(`PlainMap`), at NULL (`CrampedMap`), just above frame 0 (`SkipMap`), where a
request of one page does not reach it, and beyond the longest request (`OddMap`
for single pages, `HighMap`, and `HighEdgeMap` with a frame it does not cover).
The properties speak of the maps where the memset cannot reach it; what happens
on the others is in section 4. `WORD` (65536) holds every value the counter should take, so a
value out of its range is an error. *Slab*: two slabs after one another and a third
are enough for grow to drop one and for free to move a buffer between pages;
four frames run out, which is when `slab_cache_alloc` does not return. *Heap*:
one class smaller than a pointer, one half as large as a
`slab_bufctl_t` and one just large enough; the last class has three buffers, so
that four blocks exhaust it, and one frame is left for large blocks, so that
one of them fails. *Serial*: lines longer and shorter than the handler's texts,
before and after interrupts are enabled; with four interrupts a line is hit
twice, which puts the registers back in order, and the next line is hit again.
*Printf*: as in the kernel a number of any base but 2 fits the number buffer;
every combination of flags with widths and precisions below, at and above the
length of the number and of the buffer; counts from 0 to past the end. *Virt*: with two entries per table every level branches,
and 14 frames are used up by unmapping pages without tables. *Interrupts*: one
line above and one below another on the master, one on the slave, masked and
unmasked. *Apic*: four IRQs and every pair of overrides over five interrupts
include moved, exchanged, chained and colliding IRQs; MADT lengths just below
and above 256 bytes; entries of length 0 of each type, of two bytes, one that
ends behind the table, as many NMIs as fit, no entries at all; an interrupt
outside `irq_bitmap`. `BYTE_MAX` is the code's.

Deadlock is checked except where the kernel really stops: slab runs (panic) and
`apic` and its companions (end of boot, panic), `heap` (panic), `serial` (end of
output) and `printf` (the call returns). There are two liveness properties.
`OutputEnds` assumes weak fairness of the processor as a whole, which executes
one instruction after the other, and of the transmitter, which sends what it is
given; nothing is assumed of interrupts. The fairness of `TimerServed`, weak fairness of `Deliver` and `isr_handler`, is what
the processor guarantees: it takes a pending interrupt when the flag is set and
executes the handler. Nothing is assumed of devices or of the main thread.
`HonoursMode` says whether an 8259 obeys the mode bit of ICW4; emulated ones
do not, which is why the kernel works there, and `interrupts` is about them.

## 4. What the code does that its text does not say

Three runs end in a violation; each quotes the line that says otherwise
(`findings` in `PROJECT.json`). Further observations, in the models but
without a run of their own:

* `_get_ffp_range` probes bit `f + PAGE_TO_BIT(k)`, that is `f` for every
  `k < 4096`: a request of several pages is granted on one free page and may
  overlap others. All callers but `malloc` ask for one page; the exclusivity
  properties are stated for these.
* The bitmap is 1 to 7 bits short when `hi_page_top` is that far past a whole
  page of bitmap (`Covered` in `Phys`). If no entry has room for it,
  `pmm_bitmap.map` stays NULL and page 0 upwards is used as the bitmap.
* `used_page_cnt` starts 1024 times too large, so it never reaches 0 and the
  first test of `pmm_alloc` never refuses; memory exhaustion is found by the
  scan.
* `pmm_allocz` clears pages from address 0 upwards when `pmm_alloc` fails. When
  the bitmap is there, because no entry had room for it or the first usable
  entry starts at frame 0, the failing call wipes the allocator's own map:
  frames in use, reserved ones and frame 0 read as free. With a bitmap at frame
  1 a refused request of two pages or more does. With the bitmap at NULL,
  a granted request may do it as well (frame 1 of two). `Apart` in `Phys` says
  where this cannot happen, and `Sound` (with `Covered`) what the properties of
  single pages ask of `pmm_init`.
* A refused block that is freed all the same, as `free` of a block that `malloc`
  placed at address 0 does, clears bit 0. The scan then finds frame 0 free, which
  `pmm_alloc` takes for a failure: every later request is refused, with memory
  left (`broken` in `FrameAllocator`). No frame gets a second owner by it.
* `slab_cache_free` puts a buffer on the first slab that lacks one, so with
  several slabs a full count does not mean that no buffer of the slab is in
  use; destroy and reap take it for that and free pages in use.
* `slab_cache_destroy` frees the page of a slab's first free buffer, which may
  be another slab's, and returns half-way at a slab that is not full. With
  AUTO_GROW and without PANIC, `slab_cache_alloc` never returns when memory
  is exhausted. `slab_cache_dump` starts at a cursor that may be NULL.
* Unmapping a page that has no tables allocates up to three frames at each
  call. A failed allocation makes frame 0 a table; the assertion on the root
  table cannot see it, because an offset has been added to the pointer. The
  rights of an intermediate table are those of the first mapping below it.
* An ACPI table of 256 bytes or more hangs the checksum loop. This also keeps
  the MADT's lists within their arrays, as long as its entries have at least the
  lengths of their types: then at most 27 of them are local APICs, I/O APICs or
  overrides. The NMIs may be 36, four more than were asked for, which fit because
  `malloc` serves 256 bytes and its metadata from the cache of 512.
* The walk over the MADT trusts the length byte. At an entry of length 0 it stays
  for ever, and stores past the list if the entry is of a type that is collected;
  entries of two bytes overrun a list within one table. A global interrupt of 128
  or more sets a bit beyond `irq_bitmap`'s 16 bytes, and from 240 on beyond the
  buffer `malloc` gave for them.
* `acpi_init` does not look whether there is an RSDP tag: without one it reads
  through NULL (status "wild" in `Acpi`).
* `ioapic_i_from_gsi` leaves out the last pin of an I/O APIC; one with exactly
  16 pins panics at IRQ 15.
* Overrides that are chained (IRQ a moved to b, and b moved on) are not all in
  force after `apic_init`: `OverridesInForce` excludes them.
* Heap classes 4 and 8 are smaller than a `slab_bufctl_t` (16 bytes). In class
  4 the link of a free buffer is overwritten by its neighbours' when the list
  is built, and the second `malloc` gets a pointer that is none; in class 8
  links and owners' data overlap. `FreelistSound` and `BlocksPrivate` are about
  the classes from 16 bytes on and about pages.
* `free` takes a block that starts a page for a large one. The first buffer of
  each slab does: freeing it gives back as many pages as its cache's index
  says, the slab's own among them.
* Requests of 511 and 512 bytes overrun their buffer by one and two bytes.
  Each class has one page for good: `malloc` does not pass `SLAB_AUTO_GROW`.
  When memory is exhausted a large block is at address 0. The page count of a
  block is kept in 16 bits.
* A log line that is interrupted while it is formatted or sent comes out
  garbled: the report overwrites `dbg_buf`. The last byte of a report may be
  lost to a main thread that saw the transmitter ready before the interrupt.
* `vsnprintf` departs from C where `Standard` in `Printf` says so: a `#` prefix
  may cut digits, a precision is ignored with `-`, numbers are cut at 32
  characters, a negative `*` precision counts as 0 where C takes it as none, and
  `%#.0o` of 0 prints nothing where C prints 0. A format that ends within a
  directive is read on. None of the kernel's formats is affected.
* The descriptor of the task state segment keeps base 0: it does not point to
  `tss`. Nothing uses it, since there is no change of privilege and no IST.

## 5. Proofs

Seven modules hold the theorems, each for every value of its model's constants
that satisfies the model's assumptions; `NumberSets` holds the facts they
share. A theorem is listed with the hypotheses it adds.

| Module | Theorem | Statement | Further hypothesis |
|---|---|---|---|
| `PhysProofs` | `TypeCorrect` | `[]TypeOK` | |
| | `ZeroReserved` | `[]FrameZeroReserved` | |
| | `CountIsHeldPages` | `[]UsedCountIsHeldPages` | finitely many holders, requests of at most `N` pages, `FitsWord(N)` |
| | `FreeFramesSafe` | `[]FreeFramesAreSafe` | single pages, `Counts = {1}` |
| | `ExclusiveOwnership` | `[]HoldersExclusive` | single pages |
| | `CountTracksBitmap` | `[]UsedCountTracksBitmap` | single pages |
| | `ZeroFillIsSafe` | `ZeroFillSafe` | single pages |
| | `ImplementsFrameAllocator` | `RefinesFrameAllocator` | single pages |
| `SlabProofs` | `TypeCorrect` | `[]TypeOK` | |
| | `BuffersExclusive` | `[]BufferExclusive` | |
| | `CountsExact` | `[]BufctlCountExact` | |
| | `PagesBacked` | `[]BuffersBacked` | |
| | `AllocTerminates` | `[]AllocEnds` | |
| | `NothingStranded` | `AllocStrandsNothing` | |
| | `ShrinkIsSafe` | `ShrinkSafe` | |
| `InterruptsProofs` | `TypeCorrect` | `[]TypeOK` | |
| | `SegmentsAreUsable` | `[]SegmentsUsable` | |
| | `EveryInterruptAcknowledged` | `[]Acknowledged` | |
| | `PicStaysSilent` | `[]PicSilent` | |
| | `VectorsInRange` | `[]IrqVectorsInRange` | `~HonoursMode` |
| `VirtProofs` | `TypeCorrect` | `[]TypeOK` | |
| | `TablesFormTree` | `[]TablesAreTree` | |
| | `TlbStaysCoherent` | `[]TlbCoherent` | |
| | `StepsExact` | `StepsAreExact` | `MapsPresent` |
| | `NoFrameLost` | `NoTableLost` | `MapsPresent` |
| `ApicProofs` | `TypeCorrect` | `[]TypeOK` | |
| | `OverridesTakeEffect` | `[]OverridesInForce` | |
| | `LapicStaysSilent` | `[]LapicSilent` | |
| | `MadtIsCollected` | `[]MadtCollected` | |
| | `ArraysNeverOverflow` | `[]ArraysFit` | `BYTE_MAX <= 255` |
| `HeapProofs` | `TypeCorrect` | `[]TypeOK` | `Sizes[1] < BUFCTL` |
| | `FreelistsSound` | `[]FreelistSound` | `Sizes[1] < BUFCTL` |
| | `ImplementsBlockAllocator` | `BlocksPrivate` | `Sizes[1] < BUFCTL` |
| `OutputProofs` | `SerialSafe` | `[]SerialInv` | |
| | `ReportsAreWhole` | `[]ReportsWhole` | |
| | `LinesStayIntact` | `[]LinesIntact` | |
| | `BufferInBounds` | `[]BufferBounds` | |
| | `TextDelivered` | `[]Delivered` | formats over a set `A` of characters, `[]ArgumentsFit(A)`, `PowerLaw` |
| | `ArgumentsTaken` | `[]ArgumentsMatch` | calls are `Named` |
| | `IntegersMatchC` | `[]IntegersAsInC` | as for `TextDelivered` |

Each proof has the same shape: an inductive invariant, a lemma that `Init`
establishes it, a step lemma that goes through the actions one by one, and
theorems that read the properties off it. What each invariant adds to the
properties, and why:

**Frames.** Assumptions: the bootloader's usable entries are disjoint, page
counts fit a `size_t`, and the size of memory in frames times 1024 does.
`TypeInv` is `TypeOK` with what makes it inductive: lengths in the map are
`size_t` values and `KB_TO_PAGES(hi_page_top)` does not overflow; without it
the counter's subtractions could leave its range. `SafeInv` is behind
`FreeFramesSafe` and `ExclusiveOwnership`. These speak of the finished
allocator only and carry nothing through the loops of `pmm_init`, so `SafeInv`
says for each stage what is needed: the map's usable entries stay disjoint
while it is edited; once the bitmap is placed, its pages lie in no usable
entry; while the third loop runs, a clear bit comes from an entry it has
passed; and from then on, if the allocator is `Sound`, (`ReadyInv`) clear bits
are usable frames, every owner has exactly one frame whose bit is set
(`OwnsOneFrame`), no two owners have the same, and bit 0 is set until NULL is
freed and clear from then on. That the memset of `pmm_allocz` leaves the bitmap
alone is a step of its own (`NoWipe`): frame 0 is not one of its pages because
the allocator is sound, and a granted frame is not because it is usable.
`ZeroInv` is what survives overlapping ranges, whose release clears bits that
were never free, and whose zeroing may run far: bit 0 is set and in nobody's
range. It needs `AboveInv`, that clear bits and owned frames lie above the
bitmap, which every call keeps if `Guarded`: ranges grow upwards only.
`CountInv` counts: the first loop lifts `hi_page_top` above
every usable frame (`TopInv`), and since the entries are disjoint each page the
third loop takes off the counter is a bit it clears. `HeldInv` counts for
requests of any length, where bits and pages no longer agree because ranges
overlap: what the third loop has taken off is the number of frames of the
entries it has passed, and from then on the counter exceeds what `pmm_init`
left by the pages of the owners, a sum that changes by one owner's pages at a
time (`SumOfSizes`, `FoldExists` of `NumberSets`). `FitsWord(N)` says that 1024
times the size of memory and `N` pages for each holder fit a `size_t`, without
which the counter may wrap. The refinement needs all
of them: a frame that is granted is free for `FrameAllocator`, and NULL is
returned only when no bit is clear, which holds because the counter never
reaches 0 (`RefusedWhenFull`), or when bit 0 is, because NULL was freed.
The conditions of section 4 are in the properties: `Sound` in all that are about
single pages, `Apart` and `StartsAboveBitmap` in `FrameZeroReserved`, and
`null_frees = 0` where a freed NULL really ends what is promised.

**Slabs.** `SlabInv` is the conjunction of `TypeOK`, `BufferExclusive`,
`BufctlCountExact`, `BuffersBacked` and `FramesHaveOneRole`. No part is
enough alone: that a new slab brings no buffer that is already out rests on its
frame having had no role before. The proofs use it as `ListInv`, in which the
lists are described by who is on them
(`OnList`), that nobody is twice (`NoneTwice`) and how many there are
(`Counted`), because a buffer moves between the lists of different slabs.

**Interrupts.** `IntInv` adds to the types that nothing is handled before
interrupts are enabled (`QuietBoot`), how far `pic_remap` has programmed the
master at each write (`Programmed`), that the slave keeps the base and mode the
bootloader gave it (`SlaveUntouched`), and that what the master has in service is
the interrupt being handled (`InService`). `VectorsInRange` is about
controllers that ignore the mode bit; the others are about all.

**Page tables.** `VirtInv` is the types, the state before `vmm_init`, the TLB's
coherence, and `HasTree`: there is a function that gives each frame in use its
level, along which every present entry leads one level down, to a frame no
other entry leads to. `TablesAreTree` speaks of the links but not of what is
found below them; with levels a walk is known to meet four different frames, so
that a write at the last one changes one page and no other walk. These
properties end when memory does (`exhausted`); `TypeCorrect` does not.
`MapsPresent` says that pages are mapped as present, as all callers of
`vmm_map_range` do.

**ACPI and APIC.** `ApicInv` is the types of both parts (with every redirection
entry masked), the loops' indices, and `RouteInv`: in the second loop the bitmap
has the interrupts of the IRQs passed, and each of these that
`OverridesInForce` is about has its entry. Nothing is assumed of the identifier
of the local APIC but that it is a byte. `ListInv` says that
no table the search has passed is a MADT, that the one it stops at passed the
8-bit checksum loop and so has at most `BYTE_MAX` bytes, and that each list has
the entries of its type among those passed, unless the walk is `Stuck` at an entry
of length 0, which it never leaves. `Met` ties the entries to the length of their
table, and `OffsetCounts` and `FewEntries` count how many can begin before its end.
`ArraysNeverOverflow` combines these for a table that is `Conforming`; the lengths
of entries are otherwise arbitrary bytes.

**Heap.** Assumptions: each size class is twice the one before, the cache
descriptor and the largest buffer fit a page, requests of more than a page and
those that do not fit the last class with their metadata are left out (section
4). `Sizes[1] < BUFCTL` is the case of the kernel, whose first class has 4
bytes; otherwise freeing the first buffer of the first cache, whose index is 0,
would quietly give back no page and lose the buffer.
`FreelistSound` alone is far from inductive: the small classes destroy their
own lists, and nothing in it says where their stray writes end, or that the
metadata `free` reads is right. `RunInv` describes memory page by page. A
page of a sound cache has a chain through its free buffers which, with the
callers' blocks, is all its buffers (`ListOK`), and each block's metadata names
the cache (`OwnersOK`). The pages of small caches may hold anything, but what
can be taken for a pointer there leads to one of these pages, and what can be
taken for an index is that of a small cache (`DisorderOK`): their disorder does
not leave them. A page that is no slab's has one block that fills it
(`PageOK`). A step touches one page (`Touches`), so it is enough to
follow that one. For `malloc_heap_init` there are two inductions inside the
step, over the buffers of a slab (`OneMoreLinked`) and over the caches
(`OneMoreMade`). The refinement of `BlockAllocator` then follows from the
blocks of sound pages being apart (`HeldApart`) and from the others' writes
staying where they are (`ConfinedIsHarmless`).

**Serial log.** `ReportsWhole` and `LinesIntact` speak of the finished reports
and lines; `SerialInv` says how far each has got. The stack is the main thread,
at most one interrupt on it, and on that at most one exception that stopped the
interrupt's handler for good (`StackInv`). A handler finds in `dbg_buf` what it
put there, because nothing that could overwrite it lets it go on, and the
transmitter as it saw it (`HandlerInv`); the main thread does as well as long as
its line was not hit, and then what it has sent of the line is the end of the
stream (`MainInv`). What a handler has sent and what it has left to send are
together its report (`ReportInv`), or all but the last character once the main
thread has overwritten that one, which is all that is ever lost (`LostInv`). A
line is hit, still ahead, or whole in the stream (`LineInv`). `BufferBounds`
follows: a line continued after an interrupt reads the terminator of the
report at the latest.

**Formatted output.** `A` is any set of characters that has those of numbers and
not NUL. `ArgumentsFit(A)` is what C asks of a caller: the argument of a
directive has the type the directive names. `PowerLaw` says what `b^k` is
for the bases 2, 8, 10 and 16, which no backend knows. `TextInv(A)` is that the
buffer has the text so far, cut off at `count`, and that the text consists of
characters: what any conversion returns, with any width and precision, is a
sequence of them.

`ArgumentsMatch` is about `va_arg` staying in step with the format. `Due` gives
each position of a format the number of arguments named from there on;
`DueExists` shows that there is such a function for every format, by induction
from the end. `Named` says that a call passes as many as are due at the start;
`MatchInv` is that as many as are due are left.

`IntegersMatchC` compares two computations: `_ntoa_format` works from the last
digit to the first in a buffer of limited size, adds zeros, prefix and sign one
character at a time while there is room, lets the prefix take the place of
digits in some cases, and is reversed at the end; `Reference` puts the parts of
C's definition one behind the other. The digits are found by division:
`DigitsNeeded` and `NumeralRead` show that they are as many as the value needs
and read as the value's figures. `Padded` and `SetInFront` describe each
phase by what is read from the buffer's end. `StandardFits` derives from `Standard`
that everything has room and no digit makes place for the prefix (`Fits`); it
leaves out the directives of section 4, among them a negative precision (the
field `ignored` of a directive) and base 8 with `#` where zeros or an empty number
decide. Then `NumberFormatted` says that the result is `Laid`, to which the reference is
equal (`IntegerAsInC`). Nothing is assumed of the widths of the types but that
`long` is the widest.

*Induction inside a step.* The library's induction theorems take an operator
and cannot be used here. `IntervalInduction` of `NumberSets` takes a set
instead: a set of numbers with 0 and, with each k below n, k + 1 contains
`0 .. n`. `RecursionExists` is proved from it: a function defined by recursion
on `0 .. n` exists; `FoldExists` and `FoldInduction` do the same for sums over
finite sets. These carry every loop over buffers, caches, tables,
entries, characters and digits that a single action of the models performs.

TLC has checked these invariants on the instances of section 3 as well: all of
`TypeInv`, `SafeInv`, `ZeroInv`, `CountInv`, `HeldInv`, `SlabInv`, `IntInv`,
`ApicInv`, `ListInv` and `SerialInv`, `TextInv` and the hypothesis
`ArgumentsFit` on the calls of `MCPrintf` other than `Shapes`, and `HeapInv`
with the chain of `ListOK` computed from the list head. The level function of
`HasTree` and the function of `Due` are quantified over, and only their
consequences (`TablesAreTree`, `ArgumentsMatch`) can be evaluated.

Only model-checked:

* the liveness properties `TimerServed` and `OutputEnds`: the prover has no
  rules for fairness and `ENABLED`;
* the three runs that end in a violation, which are counterexamples.

Every other property that a run checks is also the statement of a theorem.

## 6. Plan

Abstract specifications still worth stating: a buffer pool that `Slab`
implements for caches of one slab, and an address-space map that `Virt`
implements while memory lasts.

Not modelled, and why: `com_init`, `com_recv`, `lapic_signal_eoi` and
`lapic_signal_ipi` have no callers; the floating-point half of `kprintf.c` is
compiled only with macros that nothing defines; the CPUID instruction and the
port and string helpers are single steps inside the actions that use them; the
header tags of `boot.c` and most of `stivale2.h` are data for the bootloader.

# LabOS Agarta in TLA+

This directory holds a verification project for LabOS Agarta, a small 32-bit
x86 operating system: TLA+ modules translated from its C and assembly sources,
TLC configurations that check them on small instances, and proofs that TLAPS
checks for every value of the constants. `PROJECT.json` maps every definition to
the lines it stands for and lists the runs, the mutants, the hazards and the
theorems. Paths below are relative to the repository.

What is modelled:

| part | code | modules |
|---|---|---|
| multitasking | `src/kernel/core/multitasking/`, `mm/idt/`, `mm/pit.c`, `kernel.c:223-236`, `src/userspace/` | `Multitasking`, `Dispatcher`, `MCMultitasking`, `MultitaskingProofs` |
| kernel heap | `src/kernel/core/mm/memory.c` | `Heap`, `Allocator`, `MCHeap`, `HeapProofs` |
| physical memory, paging, program loading | `mm/pmm.c`, `mm/vmm.c`, `kernel.c:142-218` | `PhysMem`, `Paging`, `MCPaging`, `PagingProofs` |
| boot file system and its readers | `tools/*.labfs.c`, `src/bootloader/`, `Makefile:48-55` | `LabFS`, `FileStore`, `BootChain`, `MCBootChain`, `LabFSProofs`, `TreeProofs` |
| VFS and ext2 | `src/kernel/fs/`, `disk/ata.c`, `kernel.c:183-194` | `Ext2`, `Vfs`, `MCVfs`, `VfsProofs` |
| console and keyboard | `core/vga/vga.c`, `core/keyboard.c`, what `kernel.c` and `src/userspace/` print | `Vga`, `Console`, `MCConsole`, `ConsoleProofs` |

`LeastNumbers` has the least number and the induction principle that the proofs of
`HeapProofs`, `PagingProofs`, `TreeProofs`, `VfsProofs` and `ConsoleProofs` share.

## 1. Inventory

### The machine from power-on to user mode

1. The **boot sector** (`boot.asm`) carries the superblock of the boot file
   system, finds `stage2.bin` in the root directory and loads it to 0x1000.
2. **Stage 2** (`stage2_entry.asm`, `stage2.c`) asks the BIOS for the memory
   map, the memory size and a framebuffer, enters protected mode, finds
   `config.cfg`, takes the kernel's path from it, loads the kernel to 1 MB and
   calls it with two structures.
3. **`kernel_main`** (`kernel.c`) sets up the GDT, interrupts (which are on from
   `initIdt` on), the timer, the physical memory manager, paging, the heap, the
   keyboard and ext2, reads the program `userland.exe` through the VFS, copies
   it page by page to user memory, creates three processes and hands the CPU
   over to the first of them with a switch written out by hand.
4. From then on the **timer interrupt** runs the scheduler. One process enters
   ring 3 and makes system calls through `int 0x80`.

### Components

| component | state | operations | shares with | what is hard | what makes it correct |
|---|---|---|---|---|---|
| process table (`process.c`) | `process_table[16]`, `current_process` | `process_init`, `process_create` | scheduler, `kernel_main` | the table changes while ticks arrive | a slot the scheduler may pick is complete |
| scheduler, switch (`scheduler.c`, `context_switch.asm`) | saved stack pointers | `schedule`, `pick_next_process`, `context_switch` | timer interrupt, handoff | a switch returns on another stack | no context is lost, shared or resumed twice; nobody starves |
| interrupts (`idt.c`, `idt.asm`, `pit.c`) | interrupt flag, 8259 in-service bits | stubs, `irq_handler`, `onIrq0` | everything | end of interrupt against switch; nesting in the exit path | every interrupt is acknowledged, nesting is bounded |
| kernel tasks, handoff (`kernel.c`) | locals of `kernel_main` | `task_a`, `task_b`, the handoff | process table | several stores with interrupts on | the first process starts, once |
| ring 3, system calls (`userspace/`) | esp0, registers | `jump_usermode`, `exit`, `write` | console, scheduler | traps against ticks | a call returns to its caller |
| heap (`memory.c`) | a list of block headers in the region | `heap_init`, `kmalloc`, `kfree` | `process_create`, loader | long histories of splits and joins | blocks never overlap, nothing is lost |
| frames (`pmm.c`) | bitmap at a fixed address | `pmm_init`, `pmm_reserve_region`, `pmm_alloc` | paging, loader | rounding, reservations | only usable memory, each frame once |
| paging (`vmm.c`) | page directory and tables, in memory | `vmm_init`, `vmm_map_page` | frames, loader | tables are read through the mappings they define | the kernel stays mapped, user pages stay apart |
| loader (`kernel.c:172-218`) | heap buffer, user pages | read, copy, map | all of the above, VFS | copies through a map that it changes | the program arrives whole |
| boot file system tools (`tools/`) | the image | `mkfs`, `mdir`, `mcopy` (`mdump` prints) | boot sector, stage 2 | a tool stopped between two writes, repeated calls, old images | what was reported stays readable |
| boot sector, stage 2 | none but what they load | lookup and load | the image | their own, narrower idea of the format | they load what the tools wrote |
| ext2 and VFS (`fs/`) | superblock copy, one static node, one static buffer | `ext2_init`, `finddir`, `read`, `vfs_open`, `vfs_read` | loader | static results, sizes | reads return the file's bytes |
| console (`vga.c`, `serial.c`) | cursor, framebuffer | `vga_putchar`, `vga_print`, `vga_clear`, `fb_print` | `kernel_main`, keyboard interrupt, system calls, panic | no lock: an echo lands inside `kernel_main`'s calls during the boot | every character has a cell of its own, on the screen |
| keyboard (`keyboard.c`), shell (`shell.c`) | shift and caps, command buffer, flag | `keyboard_irq`, `keyboard_get_command`, `shell_main` (never started) | console | buffer reused while it is read | a line arrives as typed |
| mouse (`mouse.c`) | packet, position, saved background | `mouse_irq` (`mouse_init` is not called) | console | lost bytes | the cursor restores what it covered |
| GDT and TSS (`gdt.c`) | written once, but for esp0 | `initGdt` | ring 3 | one stack for two threads | esp0 is constant in ring 3, see 3.1 |
| ATA (`disk/ata.c`) | none | `ata_read28` | ext2, stage 2 | – | – |
| utilities (`util/`), build scripts | none | | | – | – |

There are no tests in the repository; what the code says of itself is in its
comments and messages.

## 2. Plan

Done, in this order, by how much depends on it and how hard it is:

1. `Multitasking` with its abstract specification `Dispatcher`: the only truly
   concurrent part. Type invariant, inductive invariant, liveness, proofs.
2. `Heap` and `Allocator`: the one data structure with long histories.
3. `PhysMem`, `Paging`: everything that hands out memory at boot.
4. `LabFS`, `FileStore`, `BootChain`: the only persistent state, and crashes.

5. `Ext2` and `Vfs`: paths, directories and files of the second disk, against
   what the format says.
6. `Vga` and `Console`: printing and typing at the same time, and the command
   buffer, against a reference terminal.
7. Proofs: what the scheduler, the heap, paging, LabFS, ext2 and the console keep,
   for every value of the constants (section 6).

Every safety property that a passing run checks is now a theorem. Left, of the
code: the text of `config.cfg` in stage 2, if an abstraction finer than "the path
it names" turns out to be worth it.

## 3. The modules and the code

An action is named after the function or the statement it models; `PROJECT.json`
gives the lines. Operators with a name such as `Eoi_wrong_line` stand before the
operator they vary (`Eoi`), are that operator with one plausible mistake, and
are used by no specification (see section 4, mutants).

### 3.1 Multitasking

*State.* `state`, `esp`, `page_dir` are the fields of `process_table[]`,
`current` is `current_process`, a slot's pid is its index. `cpu` is the thread
whose kernel stack the CPU is on. `iflag` is EFLAGS.IF and `inService` the 8259's
in-service register. Each thread has a position in its own code (`pc`), what
runs on top of it (`mode`: its code, `onIrq0`, the exit path of an interrupt, a
system call, a final halt) and the number of exit paths that were themselves
interrupted (`unfinished`). `k`, `proc`, `ta`, `prev`, `new_esp` are the locals
of `process_create`, `kernel_main` and `context_switch`.

*Threads and slots* are kept apart because the code keeps them apart:
`kernel_main` runs on for some instructions after `current_process` no longer
names its slot, and a tick in those instructions saves its frame in another
slot. A saved stack pointer is abstracted to the thread whose frame it points
to. A frame can be continued once; popping it makes every other pointer to it
`"Stale"`, and to continue from a stale or unset pointer is `cpu = "Wild"`, after
which nothing is predicted.

*Granularity.* One action per store that an interrupt handler can tell from its
neighbours: `process_create` is four actions (choose a slot; build the stack and
set `esp`; `P_READY`; `page_dir`), the handoff seven. `process_init` is one
action, because no handler looks at the table while `current_process` is NULL,
which its last statement changes. Handlers run with interrupts off up to their
exit, so `onIrq0` with `schedule` and `context_switch` is one action and the exit
(second end of interrupt, `sti`, `iret`) another. The exit path is entered with
interrupts on only when the handoff's `context_switch`, called with interrupts
on, returns into it; that is the one way interrupts nest.

*Ring 3.* An interrupt in ring 3 starts at `esp0`, which `userspace.c:24` sets to
0x90000, the top of the stack that stage 2 runs `kernel_main` on
(`stage2_entry.asm:132`). Such an interrupt may
arrive while `kernel_main` is still preempted there. What it overwrites is
`stage2_main`'s frame, four buffers of 512 bytes that nobody returns to
(`stage2.c:178-221`); `kernel_main`'s own frame lies below them, deeper than a
handler with `schedule` reaches. So one stack serves both, and the model keeps
them apart. Only one process enters ring 3.

*The abstract specification* is `Dispatcher`: one thread runs, the others wait,
nobody is lost, each one that waits runs in the end, unless the one that may
stop the machine does. The refinement mapping is `running <- cpu`, or "stopped"
when `sys_exit` or `panic` spins with interrupts off; `ready <-` the threads whose
frame a READY slot, or the handoff, holds; and `Stopper <- userspace_init`: only
ring 3 stops the machine.

### 3.2 Heap

`heap` is the list of headers by address; `kmalloc` and `kfree` walk it one block
a step (`Skip`, `Join`, `Pass`) and end in `Split`, `TakeWhole`, `OutOfHeap` or
`Freed`. `live` is what the callers hold. Calls do not overlap: only
`kernel_main` and `process_create` call `kmalloc`, no handler does. `kfree` has
no caller in the repository; it is used legally here (a pointer that `kmalloc`
returned, once; `kfree(NULL)` returns at once, `memory.c:62`, and is no step). No sum wraps: `kmalloc` adds to a request only after
it compared it with a block's size, so `Nat` is faithful.

`Allocator` is what callers rely on: fresh bytes of an arena, theirs until freed.
The arena it is instantiated with is 12 bytes longer than the region, because
the first block is (see `heap_region`).

### 3.3 Physical memory and paging

`PhysMem` is the bitmap as the set `free` of frames whose bit is clear. Entries of
the memory map keep the low and high halves of their addresses apart, as the code
does. What is started is a `Boot`: a memory map, a memory size and a framebuffer, as
stage 2 finds them, a program's size, and the kernel's `Link`.

The bitmap has a fixed address, 0x107000, *inside* the kernel's own image, and which
variables lie under it is the linker's choice. `Link` says where three things are:
`ext2_vfs_read`'s `tmp`, `current_process` and `_kernel_end`, for any link with `tmp` at
or below the bitmap. Because of that, two writes reach more than they are meant for:

* `pmm_init` first sets every bit. Interrupts have been on since `idt_flush`, and a
  timer tick does nothing only because `current_process` is NULL (`scheduler.c:8`).
  If the bitmap is long enough to lie over `current_process`, a tick while one of those
  bits is set follows a pointer of ones: `StrayTick`, after which `pc` is `"wild"` and
  nothing more is said (`schedule` reads slots and stack pointers through that
  pointer). So `pmm_init` is three actions: all bits set, those of usable memory
  cleared, those of the kernel's memory set again.
* `ReadProgram` contains `ext2_vfs_read`'s write through `tmp` beyond its 4096 bytes and
  into the bitmap, which begins inside `tmp` as the kernel is linked, or behind it. It
  may reach `current_process`, too.

`process_table` may lie under the bitmap as well. That is harmless: `process_init` fills
it later, and no frame is allocated after that.

`Paging` follows `vmm_init` and `kernel_main` from `heap_init` to the last page of
the program. Memory is two partial functions by frame: what is a page table
(with its present entries), and what holds bytes of the program. `Reached(v)` is
the frame that an access to page `v` reaches: `v` itself before paging, and
afterwards what the page walk over the tables *in memory* says. So a table that
is overwritten, or reached through the wrong mapping, is wrong in the model too.
The TLB is left out: no page is accessed before its entry is written,
and the next context switch would reload cr3.

`ReadProgram` also has the header that `kmalloc` writes behind the program when it
splits the heap's block, which may be on a page of its own. `pmm_alloc` finding nothing
halts the machine. `kmalloc`'s NULL, which the loader does not test, cannot occur for
the sizes that `BootsAssumption` admits and is listed as a hazard.

### 3.4 LabFS and its readers

The image is a row of cells. Sizes are scaled down but keep the proportion that
matters: a block holds whole directory entries and a part of another one (8 and
a half in the code; 4 and a third, or 2 and a third, in the runs). A tool is one
action per `fwrite`; stdio writes them in that order, because a seek or the
close flushes. Between any two of them the tool may be interrupted; what a tool
reads it reads at its start, including sector 0, which it writes back at its
end. Two tools never run at once (the Makefile is one sequential recipe). A tool that fails
before its first write changes nothing and is no action.

`Users` says who calls; a run takes each of them in turn. `"make"` follows the
recipe and starts again after an interruption; `"prudent"` is a user who formats
first, adds a path once, names a file never as a directory, repeats an
interrupted `mcopy` or starts over, and otherwise keeps the image; `"any"` is
anybody. The prudent rules are what a user of these tools must observe for them
to keep their promises; what happens otherwise is in section 7.

Three assumptions say what the constants may be. `CallsAssumption`: anybody may
format, and a tool's command line has a path. `RecipeAssumption`: make formats
first and once, and its recipe names no path twice and none below a file's, as
`Makefile:51-55` does. `LayoutAssumption`: the root's entries lie in the part of
the image that is looked at; a block has no more entries than the tools read; and no
entry behind a directory's block starts where an entry of another block does, which is
so with 128 words in a block, 15 in an entry and 16 entries: the first common
multiple of 128 and 15 is their product.

`BootChain` adds the two readers, as operators on the image: the boot sector's
search through the first three entries with its ten-character comparison, stage
2's search through one block, its last-one-wins for `config.cfg` and its path
resolution. Which path a `config.cfg` names is the constant `KernelPath`.
`BuildAssumption` says of the recipe what makes an image bootable, and what
`Makefile:52-55` and `config.cfg` satisfy: it copies one file whose name begins with
`stage2.bin`, to the root, where at most two calls come before it (`RootSteps`
counts them), and is not empty (`Stage2Loaded` counts down before it asks, as
`boot.asm:131-141` does, so that it would load 65536 blocks); it copies a `config.cfg` that is not empty; and only the kernel goes to
the path named there.

`FileStore` is what a reader of the image may rely on: a tree to which a finished
tool adds an entry, that shows nothing of an unfinished one and is only ever
emptied by `mkfs`. The tree of a partition being formatted counts as empty.

### 3.5 VFS and ext2

`Ext2` is the reader as operators and actions on a disk, which is a function from
block numbers to what a block holds: the superblock, the group descriptor,
inodes, directory entries, pointers, or nothing but bytes. `ata_read28` is the
application of that function. A file's byte is abstracted to its place on the
disk, so that returning the right bytes means returning those of the right
blocks, in order. `ext2_read_file` is one action per block copied, with its local
variables; the ends of its three loops are actions of their own, because a zero
pointer ends the indirect ones. `tmp`, the static buffer of `ext2_vfs_read`, and
the memory behind it are `Room` cells; what an overrun does there is in `Paging`.

`Vfs` has the two nodes there are: the root's and the static one that every
lookup returns. `vfs_open` is one `LookUp` per component. Calls do not overlap: one
flow of control, `kernel_main`, makes them; the model lets it open and read in any
order and more often than the code does. Names are values, so the 63 characters
of a component are left out.

`InodeOf`, `BlockOf`, `CellOf` and `Child` are the reference: the inode of a number in
its block group's table, the block that holds byte n of a file, and the inode that a
name leads to in all blocks of a directory, as the format defines them and not as the
code finds them. `read_inode` looks for every inode in the first group's table
(`ext2.c:77-97`); what it returns for one of another group is whatever lies there
(`InodeRead`). So the properties speak of the first group's inodes: a path all of
which is there (`OneGroup`), a file that is (`InFirstGroup`).

### 3.6 Console and keyboard

`Vga` is `vga_putchar` as a function on a record: the cursor, the glyph drawn last
at each position, and one call's own place, argument and register. The kernel is
compiled without optimisation, so a coordinate is loaded, changed and stored in
steps of its own, and each step is one that an interrupt may precede. The screen
is the set of positions in pixels where glyphs were drawn. Memory that is not the
framebuffer is one flag.

`Console` has everybody who prints. `kernel_main`'s messages, from the moment that
`initIdt` turned interrupts on, go step by step. Keyboard interrupt, system
calls, `userspace_init` and `panic` run with interrupts off and print in one
action. After the handoff `kernel_main` never runs again, and `task_a` and `task_b`
only draw squares, so that the race is one of the boot. The keyboard controller
is hardware, modelled from how the driver uses it: a byte stays at port 0x60
until it is read, bytes behind it queue up, and each raises IRQ1 when it gets
there. `irq_handler` without a routine acknowledges and reads nothing.

`Terminal` is the reference: rows and columns of characters, the output so far
typed into them. The history variables `output`, `line`, `odd`, `raced` and `early`
appear in properties, never in a guard. `kernel_main`'s messages have no backspace,
as in the code: one of those, interrupted at the left edge, could leave the cursor
left of the screen. No call of `vga_putchar` takes more than eleven of these steps,
which is how far the steps of an uninterrupted one are unrolled; `line` is the line as its user means it,
with the shift keys as they are held and not as the driver remembers them. `half` says
that of two shift keys held together one was released, which the driver takes for both,
until either is pressed or the other one released; a line is `odd` if one of its keys was
used then, or if it has a backspace when it was empty. The next line starts afresh.

## 4. Runs

| run | question | bounds | distinct states |
|---|---|---|---|
| `mt_quiet` | does boot end, and is everything scheduled for ever after, as `Dispatcher` says, until ring 3 stops the machine? | 16 slots, 1 to 3 stacks; ring 3 may exit or fault; no tick in the handoff window | 1024 |
| `mt_anytick` | what holds if ticks arrive at any instruction, and every `process_create` may fail? | 3 slots, 0 to 3 stacks | 1047 |
| `mt_saved_stack` | is what the handoff loads a saved stack pointer? | 4 slots | violated |
| `heap_small` | every history of calls on a small heap | room for four blocks; requests of 0, 5, 24 bytes | 9103 |
| `heap_region` | does `kmalloc` stay in the region? | the code's own region, two requests | violated |
| `pg_boot` | from the memory map to a loaded program | eight maps, two framebuffers, three links, five sizes | 1383 |
| `pg_large_file` | does a large file leave the bitmap alone? | 8 MB, the actual link, 9000 bytes | violated |
| `lf_tools` | what do make, a prudent user and anybody keep? | 2, 1 and 1 interruptions; 7, 7 and 3 command lines; 5 inodes | 53420 |
| `lf_full_dir` | more entries than a directory's block has room for | 5 entries, a block of 2 | violated |
| `vfs_read` | do paths and reads give what the format says? | 31 disks, 7 paths, 3 offsets, 2 counts | 59147 |
| `con_keys` | printing and typing at the same time | 3 rows of 3 characters, commands of 2; four sessions of 3 to 6 bytes from the keyboard | 1213924 |
| `con_scroll` | does a full screen scroll? | the code's own screen and messages, a program that writes 33 lines | violated |

Why these bounds are enough:

* *Multitasking.* `kernel_main` creates three processes, so four slots are ever
  in use; 16 is the code's own number, 3 makes the table fill up. Everything else is
  finite by nature. Both runs include `exit` and faults, after which the machine
  stands still by design, and therefore do not check for deadlock
  (`mt_saved_stack` neither: a wild CPU stops). `mt_quiet` has room for at least
  task_a's stack: without it the handoff goes wild, which `Safe` covers.
* *Heap.* 52 bytes behind the first header is room for four blocks, so that
  three free and used neighbours in every arrangement around a freed one occur.
  0 is the smallest request; 5 leaves rests on both sides of the limit for
  splitting; 24 needs joined blocks. A block can be exactly as large as wanted.
* *Paging.* The maps are a PC with 8 MB, one with a hole that starts in the
  middle of a page, four that run out of frames in four different phases, and PCs
  with 109696 and 131072 KB. The kernel is linked in three ways. `Linked` is the kernel
  as the Makefile makes it (with GCC 12 for i386, `-O0` and without unwind tables, as a
  bare-metal cross compiler does it): `tmp` at 0x106c20, 992 bytes below the bitmap and
  reaching into it, `process_table` at 0x107c20, `current_process` at 0x107d60 and
  `_kernel_end` at 0x107d64. `userland.exe` has some 250 bytes; with this link the programs
  have 250 and 991 bytes, the most that end below the bitmap. The bits over
  `current_process` are those of the last 128 KB of 109696 KB, which the firmware has.
  `Apart` has its `tmp` 17 KB below the bitmap, so that programs of one page with its heap
  header and of four pages and a bit end below it too. `Large` is a kernel that ends 41
  frames below the heap, so that `vmm_init`'s last frame is the last one there is before
  the heap. (A compiler that emits unwind tables puts them before bss and `tmp` at
  0x107700, behind the bitmap's start; such links are outside `Link`.)
* *LabFS.* Files of no block, one block, and several; directories in
  directories; every inode in the table taken; one interruption for the prudent
  user because the rules admit one pending repetition, two for make, because the
  second may hit the repetition. The prudent user is finished when every path
  exists and nothing is torn: no deadlock check there.
* *VFS.* Blocks of two cells, two direct blocks and two pointers a block: a file
  of 16 cells reaches the end of the second indirect block, and every size from
  0 to 16 occurs, so that each loop ends at each of its ends. One file's inode
  is in the second block group. Offsets before, in and behind the file; counts below
  and above what is left. `Room` is one more than the largest file and its zero byte. Nobody has to call: no deadlock check.
* *Console.* Three rows of three characters, the fourth line scrolls; a
  command of two characters, so that the buffer is full early; four bytes for
  every pair of keys pressed and released, six for a line and the one after it with both
  shift keys, three where they may also fall
  between any two of the boot's steps or the program's calls. `QueueLimit` (16)
  is never reached. The machine stops when the program exits or the screen
  scrolls: no deadlock check.

*Mutants.* For each property of each passing run, `PROJECT.json` names one
variant of a mapped operator that makes that run fail on that property: among
them a slot marked before it has a stack, an end of interrupt after `schedule`
instead of before, a scan that stops at the end of the table, a split that
forgets a header, a join that loses one, a `pmm_alloc` that does not mark, a
lookup that sees deleted entries, a copy of whole blocks only, a driver that
reads its port twice, an inode counted before it is written. So no
property holds by the shape of the model alone.

## 5. Fairness

* `Multitasking!FairSpec`: `WF(CpuStep(FALSE))`, because with interrupts off the
  CPU executes its next instruction. `SF(CpuStep(TRUE))`: with interrupts on,
  the step may be disabled again and again by an interrupt, but interrupts come
  at 1 kHz and by hand, and code runs in between. `SF(Tick)`: the 8254 keeps
  its rate, and the 8259 latches a tick that arrives with interrupts off. No
  fairness of `KeyPress` or of what ring 3 does.
* `HandoffQuiet = TRUE` is an assumption on the environment, not on the code: no
  tick falls between `current_process = p` and the read of `p->esp`, some ten
  instructions once per boot. `mt_anytick` and the theorems `Acknowledged`,
  `Nesting`, `TypeCorrect` do without it; `mt_saved_stack` shows what it excludes.
* `Heap!FairSpec`: `WF(Walk)`, a call that was made goes on. Nobody is obliged to
  call.
* `Paging!FairSpec`: `WF(Next)`, `kernel_main` goes on.
* `Vfs!FairSpec`: `WF` of the steps of a call, which goes on. Nobody is obliged to
  call.
* `Console!FairSpec`: `WF(Boot)`, `kernel_main` goes on, whatever interrupts it, and
  `WF(Interrupt)`: a latched IRQ1 is taken, because every handler returns and
  interrupts are on between them, unless the machine stopped. No fairness of
  whoever types, nor of the program.
* The three liveness properties of `Multitasking` say "or ring 3 has stopped the
  machine" (`Halted`): `sys_exit` and `panic` spin with interrupts off by design.
* `LabFS` has no liveness property: a tool may always be interrupted.

## 6. Proofs

The theorems hold for all values of the constants that the `ASSUME`s of the
modules admit; TLC evaluates those assumptions in every run.

| theorem | property | along |
|---|---|---|
| `MultitaskingProofs!TypeCorrect` | (`TypeOK`, a part of `Inv`) | inductive by itself, 1 step per action |
| `MultitaskingProofs!OnlyNewest` | `OnlyNewestLacksPageDir` | with what each label of `process_create` has written; ticks anywhere |
| `MultitaskingProofs!Acknowledged`, `Nesting` | `InterruptsAcknowledged`, `NestingBounded` | `TypeOK /\ InterruptInv` |
| `MultitaskingProofs!Safe` | `Inv` | under `HandoffQuiet = TRUE` |
| `MultitaskingProofs!Exclusive`, `OneIsRunning`, `NeverWild` | `ContextsExclusive`, `OneRunning`, (`NoWildJump`, a part of `Inv`) | from `Safe` |
| `MultitaskingProofs!ContextsKept` | `ContextNeverLost` | from `Safe`, step by step, with `NoFrameYet` |
| `MultitaskingProofs!MultitaskingImplements` | (`DispatcherSafety`, the safety part of `DispatcherSpec`) | from `Safe`, with `FirstCreated`; also assumes `0 \notin StackBudgets` |
| `HeapProofs!HeapInv` | `Inv` | `TypeOK`, `Tiled`, `Held`, `Walked` together |
| `HeapProofs!HeapTypes`, `Disjoint`, `FreeNeighboursJoined` | (`TypeOK`), `LiveDisjoint`, `Coalesced` | from `HeapInv` |
| `HeapProofs!HeapImplements` | `AllocatorSpec` | from `HeapInv`, step by step |
| `HeapProofs!EmptyHeapIsWhole`, `FullWhenFailing` | `NothingLost`, `FailsOnlyWhenFull` | from `HeapInv`, with the lowest or highest block of a stretch |
| `PagingProofs!OnlyUsable` | `FreeIsUsable` | `pmm_init` sets it up, then `free` only shrinks |
| `PagingProofs!StaysReserved` | (`KernelReserved`, what `pg_large_file` violates) | the same |
| `PagingProofs!MemoryLaidOut` | `Inv` | `Layout`, under the hypothesis `Ordinary` that is part of `Inv` |
| `PagingProofs!NoFrameTwice`, `UserIsApart`, `KernelStaysMapped`, `ProgramIsLoaded` | `OneUse`, `UserApart`, `KernelMapped`, `Loaded` | from `MemoryLaidOut`, on an `Ordinary` machine, unless a tick went astray |
| `LabFSProofs!Types` | (`TypeOK`) | with `Room` |
| `LabFSProofs!Apart` | `ExtentsApart` | with `Room` and `Order` |
| `TreeProofs!CopiedStays`, `CreatedStays` | `FilesKept`, `DirsKept` | `Sound`, as long as no directory fills its block |
| `TreeProofs!StageTwoAgrees` | `LoadersAgree` | `Sound /\ Tidy`, if also no path leads through a file |
| `TreeProofs!LabFSImplements` | `FileStoreSpec` | from the same, with `AsReported` |
| `TreeProofs!WhatIsBuiltBoots` | `BuildBoots` | `Sound /\ Padding /\ InOrder`, as long as no directory fills its block |
| `VfsProofs!VfsInv` | `Inv` | `TypeOK`, `NodeOK`, `LoopOK`, `PathOK` together |
| `VfsProofs!ReadsTheFile` | `ReadReturns` | `LoopOK` when the last loop ends |
| `VfsProofs!WritesInFile` | `StaysInFile` | `ptr + bytes_left = inode.size` |
| `VfsProofs!OpensTheFile` | `OpenFinds` | `PathOK` when the path has been walked |
| `ConsoleProofs!GlyphsStayNear` | `Inv` | `IInv`: `Places`, `Flags`, `Device`, `Screened` together |
| `ConsoleProofs!ShowsTheText` | `Rendered` | from the same, under `MovesKernel` |
| `ConsoleProofs!CommandsAsTyped` | `CommandAsTyped` | `IInv /\ Understood` |

A property in brackets is no property of a run by itself.

*Multitasking.* None of the three safety properties is inductive. That no switch
goes wild needs to know that a READY slot always has the live frame of one thread
(`ContextsExclusive`), which needs to know which slot each thread owns while
`kernel_main` is between its stores (`CreateInv`, `HandoffInv`: at each label,
what has already been written and what a tick may have moved), and that the
threads not yet created wait nowhere (`Unborn`), since otherwise
`BuildStack` could give a frame two owners. `InterruptInv` ties the in-service
register to the handler that runs and shows that only after the handoff can an
exit path run with interrupts on. That part needs no assumption; the rest
assumes `HandoffQuiet = TRUE`.

From the same invariant follow two statements about steps. `ContextsKept` goes
through the actions and shows where each context is afterwards: in its slot, in
`new_esp`, or on the CPU; before `process_init` it needs that no slot holds a
frame yet (`NoFrameYet`). `MultitaskingImplements` shows that `SetReady` is the
abstract `Create`, `LoadEsp` is `Leave`, a switch in `onIrq0` is `Dispatch`, a
trap that ends in `for(;;)` is `Stop`, and that no other step is visible. It
needs that `kernel_main` has a process to hand over to, which the code does not
test: `FirstCreated` derives it from a heap with room for one stack and a table
that `process_init` has just emptied.

*Heap.* `Tiled` (the blocks cover the region in address order without gap or
overlap) and `Held` (callers hold exactly the blocks in use) carry the disjointness;
`Walked` records what the search has seen behind it, from which it follows that
`kfree` leaves nothing to join and that `kmalloc` finding nothing means there is
nothing. `TypeOK` is not inductive alone: that a new header is not the address of
another block follows from `Tiled`. When nothing is held, all blocks are free; of
two of them the first would touch its successor, which `Walked` excludes: so there
is one (`NothingLost`). A stretch that could hold a failed request either lies in
one free block, which the walk would have taken, or reaches into a used one, or
into a free one whose neighbour is used: `FailsOnlyWhenFull` takes the last block
that begins at or before the stretch (`LeastNumbers!Greatest`).

*Paging.* `OnlyUsable` assumes `Aligned` (usable entries start at a page and below
4 GB), and like `StaysReserved` `Clear` (the file, read to `tmp`, ends below the bitmap).
Both are exactly what the code relies on without testing it; section 7 and the run
`pg_large_file` show what happens otherwise. They hold for every link.

`Layout` is the inductive invariant of the whole start, from `pmm_init` to the last
page of the program. None of `OneUse`, `UserApart`, `KernelMapped` and `Loaded` is
inductive, because the tables that decide what a store reaches are themselves in
memory: that a table's entry is written into the table, and not into something
else, needs that the table's frame is mapped to itself; that needs that no frame of
a table was given away again; and that needs to know which frames are still free.
`FreeOK` says which, exactly: below 4 MB `pmm_alloc` ascends, so that at each label
the free frames are those from one place on. `TablesOK` says where the tables are,
`PagesOK` what they map, `DataOK` what the frames hold. It holds on an `Ordinary`
machine, which is one with all of the following:

* usable memory, in one piece, from the kernel up to 4 MB, and a bitmap that covers it
  and no more than 4 GB;
* at least 41 frames, which is as many as `vmm_init` takes at most, between the end of
  the kernel and the bitmap, whichever is higher, and the heap;
* a framebuffer of at most 4 MB, above the identity map, apart from the user's stack
  and below 4 GB;
* a program that ends below the bitmap when it is read to `tmp`.

Nothing is asked of where the kernel ends or what the bitmap lies over, so that the
kernel as it is linked, with a program like `userland.exe`, on a PC with 8 MB or with
128, is such a machine: each boot of `pg_boot` with `Pc` is. On a machine whose bitmap lies
over `current_process`, a tick may go astray before `pmm_init` has cleared the bits there, or
at any time if they stay set; `Inv` then says that it was such a machine (`Exposed`), and
the four theorems speak of states other than `"wild"`. Where the bitmap and the program
end below `current_process`, which is so with the actual link below 107 MB, that
disjunct is empty and `Layout` holds at every step. `pg_boot` checks the same `Inv`, also
on machines that are not ordinary.

*LabFS.* `ExtentsApart` needs `Order`: while a tool is at work, its blocks lie
behind those of all inodes in use, and the table it is about to write keeps
that so even if it stops before it raises `inode_count`. Nothing is assumed
about who calls or where tools stop.

`CopiedStays` and `CreatedStays` are about what the tools have reported, to make and
to a prudent user, and neither property is inductive: that a path still leads to a
file needs that every directory on the way has the entry for it, that none of its
entries before that one has the same name, and that what is written next lies in no
block of either. `Growing` says that
the inodes in use form a tree: there is a function `P` that gives each of them a path,
no two the same (`Distinct`), such that every path has an entry in its parent's
block (`Entered`) and every entry is of a path (`Followed`), but for one:
the running or the interrupted tool's entry, which may be there before its inode
counts. Every path is of a call that is done, and every call has its path, with the
file's bytes behind it (`Called`, `Kept`). So the inodes that `Lookup` visits are those of
the path's prefixes (`WalkTo`, `WalkFrom`). `Fresh` is what the rules for calls give: the
running tool's path is new and not below a file; it is lost if anybody may call.
`Working` says how far the tool has come: its data, then its entry, then its inode.
`WriteSuper` extends `P` by the inode it counts, and every other write spares
what the tree rests on (`Spared`). A name that an earlier image left is no
entry, because names start only where blocks have entries (`NamesInSlots`), and a
directory's block was cleared when it was made.

Two hypotheses are needed, and both are state predicates of the tool that runs.
`RoomLeft`: when a directory's entry is written, its block has one left; `lf_full_dir`
shows what happens otherwise. `InImage`: what is written lies in the blocks that
are looked at, which is a bound of the model. All 53420 states of `lf_tools` satisfy
both, so that there they exclude nothing; they say nothing of an `"any"` user.

`StageTwoAgrees` and `LabFSImplements` are also about what is *not* reported: the
entry, the table and the blocks of a tool that runs or was interrupted. `Tidy` says
that behind the inodes that count there is at most one that was ever written, the one
of that tool, and that it is a file or an empty directory; and that sector 0, where
an inode points that was never written, holds no name. So a path leads nowhere, or to
the inode of that path in the tree, or to that one inode (`Reaches`), and stage 2, which
asks neither whether an inode counts nor whether it is a directory, goes the same way
(`SameAlong`). Both theorems assume `PathsApart`, that no command line's path leads
through the file of another, which `lf_tools` satisfies: stage 2 takes the first block of
an empty file, which is the next directory's, for a directory. `AsReported`
then says that the readers' tree is a function of the calls that are done, so that
only `WriteSuper` and formatting change it. What `FileStoreSpec` states is safety, so
that the whole of it is proved.

`WhatIsBuiltBoots` needs more than that the tools find the files, because the loaders
ask less than the tools do. They take whole blocks: `Padding` says that a file has as
many blocks as it needs and zeros behind its last byte, also while it is not counted
(`Filled`). And the boot sector looks at three entries only: `InOrder` says how many steps
of the recipe are done (`InStep`; the running or interrupted call is one of the next
step), that the root's entries from as many on as there were calls for the root are
unused (`RootFilled`), and that an entry with stage 2's name is one of the first three
(`SeenEarly`), which holds because `add_to_dir` takes the first unused entry. When all steps are done,
nothing is torn, so that every entry of the root is of a call that is done (`RootEntry`);
only one of those has stage 2's name. The kernel's path is walked by stage 2
as by the tools (`StageTwoWalks`), and the blocks loaded are the file's
(`WholeFile`). `PathsApart` is not needed. TLC has checked `Padding` and `InOrder` on the states
of `lf_tools` first.

*VFS.* `LoopOK` says, for a file without holes behind the direct blocks, that the
cells before `ptr` are the file's first and that, while there is more, `ptr` is
where the block of the current counters begins; that needs the arithmetic of the
three levels (`BlockOf`), which is split into lemmas. `StaysInFile` needs none of
it and holds for any file. `PathOK` says that the inode in hand is the one that the
path's first names lead to, which `Along` gives as a recursive function of how many
names were read. All are proved for any number of direct blocks,
pointers, cells and block groups, and any disk that is well formed (`DisksAssumption`):
inode numbers in directories name inodes, and a directory's first block holds entries;
also where the code looks for an inode of a later group there is one, any one. For the
first group's numbers it is the right one (`FirstGroupInode`), which is what
`OpenFinds` and `ReadReturns` need; `StaysInFile` holds for any inode it may find.

*Console.* `Screened` says what the screen may look like while `kernel_main` is at
any of `vga_putchar`'s steps: `InCall` gives the range of the cursor at each step
when an echo may have moved it before that step, `Near` that of the glyphs, and
`Left` counts the steps a call still makes, so that an echo, which is a whole
call, ends. As long as nothing raced, `During` says how far the screen has come
from one state of `Terminal` to the next, and `Good` that it has arrived. `Terminal`
is a recursive function of the whole output, which `TerminalAppend` unfolds by one
character. `ShowsTheText` assumes `MovesKernel`, that scrolling reaches over the
kernel, which is so for every screen of stage 2; `con_scroll` exhibits it. On a
smaller screen nothing would say what the moved text looks like. `GlyphsStayNear`
has no hypothesis.

`CommandAsTyped` compares the buffer with what was meant when the keys were
pressed, possibly many bytes ago. `Understood` says that the driver will take each byte
in the port or the queue for what was meant, unless the byte carries `half`: there are
states of shift and caps lock, one per pending byte, that begin with the driver's, change
as the driver would change them, and end with the user's (`Ahead`), where shift is what
the keys held say unless `half` is set (`Shifted`). That holds always, so that a line
after an odd one is right again. That the buffer is the line so far (`Buffered`) holds while
the line is not odd, and from each Enter on again. Nothing is assumed about lengths or how
full the keyboard is.

*Only model-checked.* Liveness (`HandoffDone`, `NoStarvation`, `HandlersReturn`,
`CallsReturn` of heap and VFS, `Starts`, `KeysArrive`) and the fairness part of `DispatcherSpec`, which are out
of the prover's reach, as is `ENABLED`. What a recursive definition computes
is proved where a set of numbers is enough to state the induction
(`LeastNumbers!Induction` is about a set, not a predicate): along a path in `Vfs`, along
the output in `Console`.

## 7. Disagreements between the code and what it says

With a run that exhibits them (`findings` in `PROJECT.json`):

* `mt_saved_stack`: a tick between `current_process = p` and the read of `p->esp`
  (`kernel.c:232-236`) makes the handoff load a stack pointer that has been
  popped.
* `heap_region`: the first block's size is the region's, header not subtracted
  (`memory.c:30`), so the heap ends 12 bytes past the region that is reserved.
* `pg_large_file`: `ext2_vfs_read` reads a file of any size into 4096 bytes and
  reaches the frame bitmap before the program's frames are allocated.
* `lf_full_dir`: a directory of up to 16 entries is given one block, with room
  for eight and a half; the next entry goes into the next file's data.

* `con_scroll`: scrolling moves memory at 0xB8000, not the framebuffer, and with
  1024 by 768 pixels reaches over the kernel (`vga.c:101-113`).

Seen while modelling, without a run of their own:

* A tick between `process_create`'s last two stores (`process.c:57-58`) dispatches
  a process without `page_dir`. Harmless as long as `context_switch.asm` does not
  load cr3 from it (the load is commented out); `OnlyNewestLacksPageDir` says
  that this is all.
* A tick inside `context_switch` may let `task_b` run before `task_a`, although
  `kernel.c:229` says "Start task_a as the first program in the scheduler".
* `pmm.c:49` passes only the low halves of an entry: usable memory at 4 GB or
  above frees frames below 4 GB, whatever is there.
* A framebuffer elsewhere than at 0xFD000000 costs a frame for its page table and
  makes the directory entry PAGE_USER, although `vmm.c:80` says "table already
  exists, vmm_map_page won't call pmm_alloc". `pg_boot` includes one; user mode
  still cannot reach its pages, whose own entries are not PAGE_USER.
* `mcopy` to a path that exists prints "done!" (`mcopy.labfs.c:211`), but readers
  go on finding the old file.
* `mdir` interrupted behind its directory write and repeated reports "already
  exists" (`mdir.labfs.c:134-135`) for an entry that has no inode.
* A hole behind a file's direct blocks ends the loop (`ext2.c:196`, `223`, `234`):
  the rest of the file is not copied, and `vfs_read` returns what an earlier read
  left in `tmp`, with a length as if it had. A zero `i_block[12]` makes the doubly
  indirect blocks follow the direct ones. `ReadReturns` says `Dense`.
* Names in the second block of a directory are not found (`ext2.c:103`);
  `OpenFinds` says `OneBlock`.
* Without ext2 on the second disk, `kernel_main` goes on to open the program: on a
  blank disk `read_inode` divides by a zero inode size and panics, otherwise the
  open returns NULL, through which `kernel.c:191` reads a size.
* With 107 MB or more, QEMU's default of 128 among them, `pmm_init`'s `memset`
  (`pmm.c:35`) writes ones over `current_process`, which lies under the bitmap as the
  kernel is linked. Until `pmm_free_region` has cleared them, a timer tick makes
  `schedule` follow that pointer, and interrupts are on. With 109696 KB the
  bits are those of the firmware's memory and stay set: the first tick after `pmm_init` goes
  astray. `pg_boot` has both machines; `Inv` says `Exposed`.
* `read_inode` ignores `s_inodes_per_group` (`ext2.c:77-97`): it looks for an inode of a later
  block group behind the first group's table and takes what it finds for it.
  `Makefile:58-59` makes a disk of 64 MB with several groups; the files it puts there lie
  in the first. `OpenFinds` and `ReadReturns` say `OneGroup` and `InFirstGroup`; `vfs_read`
  has such a file.
* An echo between `kernel_main`'s store of the cursor and the test behind it is
  drawn right of the screen or below it; `Rendered` is about calls without one.
* A backspace on an empty line is stored as a character (`keyboard.c:77-82`), and
  releasing one of two shift keys ends both (`keyboard.c:45`); `CommandAsTyped`
  leaves such a line out, and no line after it.
* A key pressed between `initIdt` and `keyboard_init` is acknowledged without
  reading port 0x60 (`idt.c:228`): the port stays full and raises no IRQ1 again;
  `KeysArrive` leaves this out (`early`).
* A backspace behind a line wrap removes the character from the buffer, but not
  from the row above (`vga.c:81-88`). A terminal does the same; the user sees a
  line that is not the one stored.
* `mdir` on an image that was stamped but not formatted writes its entry into
  sector 0.

## 8. What is not modelled, and why

* *Mouse* and *shell*: written but never started by `kernel_main`.
* *GDT, TSS, IDT tables*: written once. *ATA*: `ata_read28` is the disk as a
  function in `Ext2`; its waiting for the controller is left out.
* *The serial port*: written only. *Colours, glyph shapes and the squares that
  `task_a` and `task_b` draw* over the text.
* *`read_entries`* of ext2, `putpixel`, `fb_print`, `realloc`, `pmm_free`: no caller, or
  no state.
* *The results of system calls* in eax: the program does not look at them.
* *Utilities* (`util/`), *build scripts, linker scripts*: no state; what matters
  of the linker is in `Link`. A link that puts `tmp` above the start of the bitmap is left
  out: there the bitmap's stores and the file's would overlap both ways.
* *BIOS calls of stage 2*: their answers are part of the constant `Boots`.
* *Memory limits of the boot sector*: where the blocks it loads come to, and the
  disk's geometry. *Bits behind the bitmap*, which a memory map larger than the
  memory size clears.
* *The text of `config.cfg`*: reduced to the path it names.
* *What the code a wild CPU reaches does*, and what an overrun of `tmp` does to
  the variables directly behind it: nothing could be said about it.
* `mdump`: it only prints.

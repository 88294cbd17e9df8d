------------------------------- MODULE Paging -------------------------------
(***************************************************************************)
(* How the kernel hands out physical memory while it starts, from pmm_init *)
(* to the program's last page: vmm_init builds the page tables with the    *)
(* frames pmm_alloc gives it (vmm.c), then kernel_main sets up the heap,   *)
(* reads the program into it and copies it page by page to frames of its   *)
(* own, which it maps for user mode at USER_CODE_BASE, inside the identity *)
(* map (kernel.c:172-218).  Interrupts are on all the time.  Their         *)
(* handlers touch none of this, but a timer tick switches away from it     *)
(* unless current_process is NULL, and the bitmap may lie over that        *)
(* variable.                                                               *)
(*                                                                         *)
(* Addresses are page numbers.  An access to virtual page v reaches frame  *)
(* v before paging is on and what the page tables say afterwards: the page *)
(* tables are read from memory, where everything else is written too.      *)
(* Of an entry the frame and PAGE_USER are kept; all pages are writeable.  *)
(* Entries are never cached: the context switch that follows reloads cr3.  *)
(*                                                                         *)
(* Operators named after another one, like NewTable_unmarked after         *)
(* NewTable, are that one with a plausible programming mistake.            *)
(***************************************************************************)
EXTENDS PhysMem

CONSTANT Boots      \* what is started

ENTRIES          == 1024
IDENTITY_TABLES  == 32          \* up to 0x08000000
USER_STACK_TOP   == 786432      \* 0xC0000000
USER_STACK_PAGES == 4
USER_CODE_BASE   == 1024        \* 0x00400000
HEAP             == 512         \* 0x200000, heap_init's first argument
HEAP_SIZE        == 1048576     \* and its second
HEADER_SIZE      == 12

\* What stage 2 finds out of a machine, how the kernel is linked and how many
\* bytes userland.exe has: kmalloc finds room for them in the heap, clear of the
\* end of the region.
Boot == [mmap : SUBSET Entry, memory_size : Nat, fb : Nat \X (Nat \ {0}), link : Link,
         size : 1 .. HEAP_SIZE - HEADER_SIZE]

ASSUME BootsAssumption == Boots \subseteq Boot

VARIABLES
    pc,             \* what kernel_main does next
    i,              \* the loop's counter
    fb,             \* the framebuffer: its first page and how many there are
    size,           \* the program's size
    tables,         \* what memory holds: page tables, by frame, each its
                    \* present entries by index,
    data,           \* and the program, by frame: PROGRAM or a page of it
    current_dir,    \* the page directory's frame, 0 before there is one
    paging          \* cr0.PG

vars == <<mmap, memory_size, link, free, pc, i, fb, size, tables, data, current_dir, paging>>

PROGRAM == -1       \* the bytes of the file as vfs_read put them
SPOILT  == -2       \* a page copied from anything else

Init ==
    /\ \E b \in Boots : /\ mmap = b.mmap /\ memory_size = b.memory_size /\ fb = b.fb
                        /\ link = b.link /\ size = b.size
    /\ free = {} /\ pc = "pmm_init" /\ i = 0
    /\ tables = <<>> /\ data = <<>> /\ current_dir = 0 /\ paging = FALSE

-----------------------------------------------------------------------------
(* Memory.                                                                 *)

Table(f)   == IF f \in DOMAIN tables THEN tables[f] ELSE <<>>
Dir        == Table(current_dir)
Pde(v)     == Dir[v \div ENTRIES]
IsMapped(v) == v \div ENTRIES \in DOMAIN Dir /\ v % ENTRIES \in DOMAIN Table(Pde(v).frame)
Pte(v)     == Table(Pde(v).frame)[v % ENTRIES]

\* The frame that an access to virtual page v reaches.
Reached(v) == IF paging THEN Pte(v).frame ELSE v

\* Function g with g[x] set to y.
Put(g, x, y) == [z \in DOMAIN g \cup {x} |-> IF z = x THEN y ELSE g[z]]
Without(g, S) == [z \in DOMAIN g \ S |-> g[z]]

\* tabs with entry k of the table in frame g set to [frame |-> f, user |-> user].
WithEntry(tabs, g, k, f, user) ==
    Put(tabs, g, Put(tabs[g], k, [frame |-> f, user |-> user]))

\* tabs with frame g as an empty table that serves directory entry d.
WithTable(tabs, g, d, user) ==
    WithEntry(Put(tabs, Reached(g), <<>>), Reached(current_dir), d, g, user)

\* tabs with virtual page v mapped to frame f.
WithPage(tabs, v, f, user) ==
    LET table == tabs[Reached(current_dir)][v \div ENTRIES].frame
    IN  WithEntry(tabs, Reached(table), v % ENTRIES, f, user)

\* vmm_map_page, called when tabs are the tables and S the frames not in use.
vmm_map_page(tabs, S, v, f, user) ==
    \/ /\ v \div ENTRIES \in DOMAIN Dir
       /\ tables' = WithPage(tabs, v, f, user)
       /\ free' = S
    \/ /\ v \div ENTRIES \notin DOMAIN Dir
       /\ \E g \in pmm_alloc(S) :
             /\ tables' = WithPage(WithTable(tabs, g, v \div ENTRIES, TRUE), v, f, user)
             /\ free' = S \ {g}

\* Round `i' of a loop of n rounds is done.
Round(n, next) ==
    \/ i + 1 < n /\ i' = i + 1 /\ pc' = pc
    \/ i + 1 = n /\ i' = 0 /\ pc' = next

-----------------------------------------------------------------------------
(* pmm_init and vmm_init.                                                  *)

SetAllBits ==
    /\ pc = "pmm_init" /\ pc' = "regions"
    /\ set_all_bits
    /\ UNCHANGED <<mmap, memory_size, link, i, fb, size, tables, data, current_dir, paging>>

FreeUsable ==
    /\ pc = "regions" /\ pc' = "reserve"
    /\ free_usable
    /\ UNCHANGED <<mmap, memory_size, link, i, fb, size, tables, data, current_dir, paging>>

ReserveKernel ==
    /\ pc = "reserve" /\ pc' = "dir"
    /\ reserve_kernel
    /\ UNCHANGED <<mmap, memory_size, link, i, fb, size, tables, data, current_dir, paging>>

NewDir ==
    /\ pc = "dir" /\ pc' = "tables"
    /\ \E f \in pmm_alloc(free) :
          /\ free' = free \ {f}
          /\ tables' = Put(tables, f, <<>>)
          /\ current_dir' = f
    /\ UNCHANGED <<mmap, memory_size, link, i, fb, size, data, paging>>

\* The directory entries whose tables are made first: the identity map's, the
\* user stack's and one for a framebuffer at 0xFD000000.
Preallocated(n) ==
    IF n < IDENTITY_TABLES THEN n ELSE IF n = IDENTITY_TABLES THEN 767 ELSE 1012

\* pmm_alloc forgets to set the bit.
NewTable_unmarked ==
    /\ pc = "tables" /\ Round(IDENTITY_TABLES + 2, "identity")
    /\ \E f \in pmm_alloc(free) :
          tables' = WithTable(tables, f, Preallocated(i), Preallocated(i) = 767)
    /\ UNCHANGED <<mmap, memory_size, link, free, fb, size, data, current_dir, paging>>

NewTable ==
    /\ pc = "tables" /\ Round(IDENTITY_TABLES + 2, "identity")
    /\ \E f \in pmm_alloc(free) :
          /\ free' = free \ {f}
          /\ tables' = WithTable(tables, f, Preallocated(i), Preallocated(i) = 767)
    /\ UNCHANGED <<mmap, memory_size, link, fb, size, data, current_dir, paging>>

FillIdentity ==
    /\ pc = "identity" /\ pc' = "fb"
    /\ LET served(f) == {d \in 0 .. IDENTITY_TABLES - 1 : Dir[d].frame = f}
           filled(d) == [t \in 0 .. ENTRIES - 1 |->
                            [frame |-> d * ENTRIES + t, user |-> FALSE]]
       IN  tables' = [f \in DOMAIN tables |->
                        IF served(f) = {} THEN tables[f]
                        ELSE filled(CHOOSE d \in served(f) : TRUE)]
    /\ UNCHANGED <<mmap, memory_size, link, free, i, fb, size, data, current_dir, paging>>

\* Maps the pages to the wrong end of the framebuffer.
MapFramebuffer_reversed ==
    /\ pc = "fb" /\ Round(fb[2], "stack")
    /\ vmm_map_page(tables, free, fb[1] + i, fb[1] + fb[2] - 1 - i, FALSE)
    /\ UNCHANGED <<mmap, memory_size, link, fb, size, data, current_dir, paging>>

MapFramebuffer ==
    /\ pc = "fb" /\ Round(fb[2], "stack")
    /\ vmm_map_page(tables, free, fb[1] + i, fb[1] + i, FALSE)
    /\ UNCHANGED <<mmap, memory_size, link, fb, size, data, current_dir, paging>>

MapStack ==
    /\ pc = "stack" /\ Round(USER_STACK_PAGES, "enable")
    /\ \E f \in pmm_alloc(free) :
          vmm_map_page(tables, free \ {f}, USER_STACK_TOP - (i + 1), f, TRUE)
    /\ UNCHANGED <<mmap, memory_size, link, fb, size, data, current_dir, paging>>

EnablePaging ==
    /\ pc = "enable" /\ pc' = "heap"
    /\ paging' = TRUE
    /\ UNCHANGED <<mmap, memory_size, link, free, i, fb, size, tables, data, current_dir>>

-----------------------------------------------------------------------------
(* kernel_main, from heap_init to the program's last page.                 *)

\* The heap's frames may be given to others.
ReserveHeap_forgotten ==
    /\ pc = "heap" /\ pc' = "read"
    /\ tables' = Without(tables, {Reached(HEAP)})
    /\ UNCHANGED <<mmap, memory_size, link, free, i, fb, size, data, current_dir, paging>>

\* heap_init writes the first block's header.
ReserveHeap ==
    /\ pc = "heap" /\ pc' = "read"
    /\ tables' = Without(tables, {Reached(HEAP)})
    /\ free' = free \ ReservedBy(HEAP * PAGE_SIZE, HEAP_SIZE)
    /\ UNCHANGED <<mmap, memory_size, link, i, fb, size, data, current_dir, paging>>

\* The heap's pages with bytes first .. last of the program.
HeapPages(first, last) ==
    HEAP + (HEADER_SIZE + first) \div PAGE_SIZE .. HEAP + (HEADER_SIZE + last) \div PAGE_SIZE

\* The heap's pages that kmalloc and vfs_read write: the program, and behind it
\* the header of the block that is left over, if there is room for one.
ProgramPages == HeapPages(0, size - 1)
HeaderPages ==
    IF HEAP_SIZE < size + HEADER_SIZE + 4 THEN {} ELSE HeapPages(size, size + HEADER_SIZE - 1)

\* The frames whose bits are in the memory from first to last.
BitsIn(first, last) == {f \in 0 .. BITMAP_SIZE * 8 - 1 : BITMAP_ADDR + f \div 8 \in first .. last}

\* ext2_read_file writes the file's bytes and a zero byte, from tmp on, whether
\* it has room for them or not.
Overwritten == BitsIn(link.tmp, link.tmp + size)

\* kmalloc, ext2_vfs_read, the copy to the heap, and the check of the magic
\* number.  Overwritten bits are the file's: all of them clear, or none.
ReadProgram ==
    /\ pc = "read" /\ pc' \in {"load", "bad_magic"}
    /\ \E clear \in {{}, Overwritten} : free' = (free \ Overwritten) \cup clear
    /\ LET frames == {Reached(v) : v \in ProgramPages}
       IN  /\ tables' = Without(tables, frames \cup {Reached(v) : v \in HeaderPages})
           /\ data' = [f \in DOMAIN data \cup frames |->
                         IF f \in frames THEN PROGRAM ELSE data[f]]
    /\ UNCHANGED <<mmap, memory_size, link, i, fb, size, current_dir, paging>>

Pages == (size + PAGE_SIZE - 1) \div PAGE_SIZE      \* code_pages

\* The program's page i as it is found in the heap.
Source ==
    LET last   == IF i + 1 = Pages THEN size - 1 ELSE (i + 1) * PAGE_SIZE - 1
        intact == \A v \in HeapPages(i * PAGE_SIZE, last) :
                      Reached(v) \in DOMAIN data /\ data[Reached(v)] = PROGRAM
    IN  IF intact THEN i ELSE SPOILT

\* The copy is made through the identity map, before the page is mapped.
LoadPage ==
    /\ pc = "load" /\ Round(Pages, "user_bit")
    /\ \E f \in pmm_alloc(free) :
          /\ data' = Put(data, Reached(f), Source)
          /\ vmm_map_page(Without(tables, {Reached(f)}), free \ {f},
                          USER_CODE_BASE + i, f, TRUE)
    /\ UNCHANGED <<mmap, memory_size, link, fb, size, current_dir, paging>>

\* Leaves the page table's own entry to the kernel.
SetUserBit_forgotten ==
    /\ pc = "user_bit" /\ pc' = "done"
    /\ UNCHANGED <<mmap, memory_size, link, free, i, fb, size, tables, data, current_dir, paging>>

SetUserBit ==
    /\ pc = "user_bit" /\ pc' = "done"
    /\ LET dir == Reached(current_dir)
           k   == USER_CODE_BASE \div ENTRIES
       IN  tables' = WithEntry(tables, dir, k, tables[dir][k].frame, TRUE)
    /\ UNCHANGED <<mmap, memory_size, link, free, i, fb, size, data, current_dir, paging>>

\* Asks again instead.
OutOfMemory_retry ==
    /\ pc \in {"dir", "tables", "stack", "load"}
    /\ pmm_alloc(free) = {}
    /\ UNCHANGED vars

\* pmm_alloc finds no frame: cli, hlt.
OutOfMemory ==
    /\ \/ pc \in {"dir", "tables", "stack", "load"}
       \/ pc = "fb" /\ (fb[1] + i) \div ENTRIES \notin DOMAIN Dir
    /\ pmm_alloc(free) = {}
    /\ pc' = "halted"
    /\ UNCHANGED <<mmap, memory_size, link, free, i, fb, size, tables, data, current_dir, paging>>

-----------------------------------------------------------------------------
(* Interrupts.                                                             *)

\* The bits that lie over current_process.  Bits beyond the bitmap, which a map
\* larger than memory_size clears, leave a NULL as it is.
CurrentBits == BitsIn(link.current_process, link.current_process + 3)

\* Nobody has set current_process yet; it is NULL unless a set bit or the file
\* has been written over it.
CurrentIsNull ==
    /\ pc # "pmm_init" => CurrentBits \subseteq free
    /\ pc \in {"load", "user_bit"} => link.tmp + size < link.current_process

Ended == {"done", "halted", "bad_magic", "wild"}

\* A tick when current_process is not NULL: schedule follows it (scheduler.c:8).
\* What the machine does from then on is not said.
StrayTick ==
    /\ pc \notin Ended /\ ~ CurrentIsNull
    /\ pc' = "wild"
    /\ UNCHANGED <<mmap, memory_size, link, free, i, fb, size, tables, data, current_dir, paging>>

-----------------------------------------------------------------------------

Next ==
    \/ SetAllBits \/ FreeUsable \/ ReserveKernel
    \/ NewDir \/ NewTable \/ FillIdentity \/ MapFramebuffer \/ MapStack
    \/ EnablePaging \/ ReserveHeap \/ ReadProgram \/ LoadPage \/ SetUserBit
    \/ OutOfMemory \/ StrayTick
    \/ pc \in Ended /\ UNCHANGED vars

Spec == Init /\ [][Next]_vars

FairSpec == Spec /\ WF_vars(Next)

-----------------------------------------------------------------------------
(* Properties.                                                             *)

TypeOK ==
    /\ [mmap |-> mmap, memory_size |-> memory_size, fb |-> fb, link |-> link, size |-> size] \in Boots
    /\ free \subseteq Nat
    /\ pc \in {"pmm_init", "regions", "reserve", "dir", "tables", "identity", "fb", "stack",
               "enable", "heap", "read", "load", "user_bit"} \cup Ended
    /\ i \in Nat
    /\ current_dir \in Nat /\ paging \in BOOLEAN
    /\ \A f \in DOMAIN tables :
          /\ f \in Nat /\ DOMAIN tables[f] \subseteq 0 .. ENTRIES - 1
          /\ \A k \in DOMAIN tables[f] : tables[f][k] \in [frame : Nat, user : BOOLEAN]
    /\ DOMAIN data \subseteq Nat
    /\ \A f \in DOMAIN data : data[f] \in Int

HeapFrames  == ReservedBy(HEAP * PAGE_SIZE, HEAP_SIZE)
TableFrames == {Dir[d].frame : d \in DOMAIN Dir}

\* The pages that user mode can access, and the frame each of them leads to.
UserPages ==
    UNION {{d * ENTRIES + t : t \in {t \in DOMAIN Table(Dir[d].frame) :
                                        Table(Dir[d].frame)[t].user}} :
           d \in {d \in DOMAIN Dir : Dir[d].user}}
UserFrames == {Pte(v).frame : v \in UserPages}

\* The kernel's frames: its image, the bitmap, the page directory and the page
\* tables, and from ReserveHeap on the heap.
Kernel ==
    KernelFrames \cup BitmapFrames \cup TableFrames
    \cup (IF current_dir = 0 THEN {} ELSE {current_dir})
    \cup (IF pc \in {"read", "load", "user_bit", "done"} THEN HeapFrames ELSE {})

\* pmm_init has returned, and no tick gone astray.
PmmReady == pc \notin {"pmm_init", "regions", "reserve", "wild"}

\* pmm_alloc gives no frame away twice: no page table is another's frame or
\* the directory's, and none of what the kernel or the program has is free.
OneUse ==
    /\ \A d, e \in DOMAIN Dir : Dir[d].frame = Dir[e].frame => d = e
    /\ current_dir \notin TableFrames
    /\ PmmReady => free \cap (Kernel \cup UserFrames) = {}

\* User mode reaches nothing of the kernel's (PAGE_USER, vmm.h:24), and no two
\* of its pages are the same memory.
UserApart ==
    /\ UserFrames \cap Kernel = {}
    /\ \A v, w \in UserPages : Pte(v).frame = Pte(w).frame => v = w

\* With paging on, the kernel finds its image, its bitmap, its page tables and
\* its heap where it found them before (vmm.c:72), and the framebuffer.
KernelMapped ==
    paging => \A f \in Kernel \cup fb[1] .. fb[1] + fb[2] - 1 : IsMapped(f) /\ Pte(f).frame = f

\* When kernel_main is done, user mode finds the program at USER_CODE_BASE,
\* whole and in order, and the pages of its stack below USER_STACK_TOP; it can
\* access no page besides.
Loaded ==
    pc = "done" =>
        /\ UserPages = USER_CODE_BASE .. USER_CODE_BASE + Pages - 1
                       \cup USER_STACK_TOP - USER_STACK_PAGES .. USER_STACK_TOP - 1
        /\ \A n \in 0 .. Pages - 1 : data[Pte(USER_CODE_BASE + n).frame] = n

\* A program is loaded, or turned down, unless memory runs out or the machine
\* goes astray.
Starts == <>(pc \in Ended)

\* "PMM: reserving kernel" (pmm.c:53): the kernel's image and the bitmap are
\* never to be allocated.
KernelReserved == PmmReady => free \cap (KernelFrames \cup BitmapFrames) = {}

-----------------------------------------------------------------------------
(* The inductive invariant, for the machines the code was written for.     *)

\* The first frame behind the bitmap and the kernel's image.
FirstFree ==
    LET end == BITMAP_ADDR + BITMAP_SIZE
    IN  ((IF KernelEnd < end THEN end ELSE KernelEnd) + PAGE_SIZE - 1) \div PAGE_SIZE

\* Memory is usable from the kernel up to 4 MB, the bitmap covers it, and the 41
\* frames that vmm_init takes at most fit between the kernel and the heap; the
\* framebuffer lies above the identity map, apart from the user's stack, and is
\* no larger than 4 MB; and the program, read to tmp, ends below the bitmap.
Ordinary ==
    /\ \E e \in mmap : /\ e.type = 1
                       /\ e.base_low <= KernelStart
                       /\ USER_CODE_BASE * PAGE_SIZE <= e.base_low + e.length_low
    /\ USER_CODE_BASE <= memory_size \div PAGE_SIZE /\ memory_size \div PAGE_SIZE <= ENTRIES * ENTRIES
    /\ FirstFree + 41 <= HEAP
    /\ IDENTITY_TABLES * ENTRIES <= fb[1] /\ fb[2] <= ENTRIES
    /\ \/ fb[1] + fb[2] <= USER_STACK_TOP - USER_STACK_PAGES
       \/ USER_STACK_TOP <= fb[1] /\ fb[1] + fb[2] <= ENTRIES * ENTRIES
    /\ link.tmp + size < BITMAP_ADDR

HasDir == PmmReady /\ pc # "dir"
Filled == HasDir /\ pc \notin {"tables", "identity"}

\* Each loop's counter.
CounterOK ==
    /\ pc \notin {"halted", "wild"}
    /\ i < CASE pc = "tables" -> IDENTITY_TABLES + 2
             [] pc = "fb"     -> fb[2]
             [] pc = "stack"  -> USER_STACK_PAGES
             [] pc = "load"   -> Pages
             [] OTHER         -> 1
    /\ paging <=> pc \in {"heap", "read", "load", "user_bit", "done", "bad_magic"}

\* The directory entries that the framebuffer needs, two at most.
FramebufferEntries == fb[1] \div ENTRIES .. fb[1] \div ENTRIES + 1
Made(d)            == IF d \in DOMAIN Dir THEN 1 ELSE 0

LowFree == free \cap 0 .. USER_CODE_BASE - 1

\* pmm_alloc has given away at most n frames, those behind the kernel.
Allocated(n) ==
    \E p \in FirstFree .. FirstFree + n : LowFree = p .. USER_CODE_BASE - 1

\* Below 4 MB, frames are given away one after the other, and vmm_init's end
\* before the heap begins.
FreeOK ==
    /\ pc = "reserve"             => KernelStart \div PAGE_SIZE .. USER_CODE_BASE - 1 \subseteq free
    /\ pc = "dir"                 => Allocated(0)
    /\ pc = "tables"              => Allocated(1 + i)
    /\ pc = "identity"            => Allocated(35)
    /\ pc = "fb"                  => Allocated(35 + Made(fb[1] \div ENTRIES) + Made(fb[1] \div ENTRIES + 1))
    /\ pc = "stack"               => Allocated(37 + i)
    /\ pc \in {"enable", "heap"}  => Allocated(41)
    /\ pc \in {"read", "load", "user_bit", "done", "bad_magic"} =>
          \/ \E p \in FirstFree .. HEAP :
                LowFree = p .. HEAP - 1 \cup HEAP + 256 .. USER_CODE_BASE - 1
          \/ pc \in {"load", "user_bit", "done"}
             /\ \E p \in 0 .. (IF pc = "load" THEN i ELSE Pages) :
                   LowFree = HEAP + 256 + p .. USER_CODE_BASE - 1

\* Frames that vmm_init may have been given: below the heap.
VmmFrames == (FirstFree .. HEAP - 1) \ free

\* Every page table is in a frame of its own.
TablesOK ==
    /\ ~ HasDir => tables = <<>> /\ current_dir = 0
    /\ HasDir =>
        /\ current_dir \in VmmFrames \cap DOMAIN tables
        /\ TableFrames \subseteq (VmmFrames \cap DOMAIN tables) \ {current_dir}
        /\ \A d, e \in DOMAIN Dir : Dir[d].frame = Dir[e].frame => d = e
        /\ LET first == {Preallocated(n) : n \in 0 .. IDENTITY_TABLES + 1}
           IN  IF pc = "tables" THEN DOMAIN Dir = {Preallocated(n) : n \in 0 .. i - 1}
               ELSE first \subseteq DOMAIN Dir /\ DOMAIN Dir \subseteq first \cup FramebufferEntries
        /\ pc = "done" => Dir[USER_CODE_BASE \div ENTRIES].user
        /\ 767 \in DOMAIN Dir => Dir[767].user

IdentityPages    == 0 .. IDENTITY_TABLES * ENTRIES - 1
FramebufferPages == fb[1] .. fb[1] + (IF pc = "fb" THEN i ELSE fb[2]) - 1
StackPages ==
    USER_STACK_TOP - (CASE pc = "fb" -> 0 [] pc = "stack" -> i [] OTHER -> USER_STACK_PAGES)
    .. USER_STACK_TOP - 1
CodePages ==
    USER_CODE_BASE .. USER_CODE_BASE - 1
        + (CASE pc = "load" -> i [] pc \in {"user_bit", "done"} -> Pages [] OTHER -> 0)

MappedPages ==
    {v \in {d * ENTRIES + t : d \in DOMAIN Dir, t \in 0 .. ENTRIES - 1} : IsMapped(v)}

\* What is mapped: the kernel's pages to themselves, the user's to frames that
\* have no other use.
PagesOK ==
    /\ pc \in {"tables", "identity"} => MappedPages = {}
    /\ Filled =>
          /\ MappedPages = IdentityPages \cup FramebufferPages \cup StackPages
          /\ \A v \in (IdentityPages \ CodePages) \cup FramebufferPages :
                Pte(v) = [frame |-> v, user |-> FALSE]
          /\ \A v \in CodePages \cup StackPages :
                /\ Pte(v).user
                /\ Pte(v).frame \in (FirstFree .. USER_CODE_BASE - 1) \ (free \cup TableFrames \cup {current_dir})
                /\ Pte(v).frame \notin HeapFrames
          /\ \A v, w \in CodePages \cup StackPages : Pte(v).frame = Pte(w).frame => v = w

\* The program is in the heap, and what has been copied of it in the frames it
\* was copied to.
DataOK ==
    /\ pc = "load" => \A v \in ProgramPages : v \in DOMAIN data /\ data[v] = PROGRAM
    /\ Filled => \A v \in CodePages :
                    Pte(v).frame \in DOMAIN data /\ data[Pte(v).frame] = v - USER_CODE_BASE

Layout == TypeOK /\ CounterOK /\ FreeOK /\ TablesOK /\ PagesOK /\ DataOK

\* The bitmap or the program is written over current_process.
Exposed == CurrentBits # {} \/ link.current_process <= link.tmp + size

\* Memory is laid out like that as long as no tick goes astray, and none does
\* unless current_process is exposed to it.
Inv == Ordinary => IF pc = "wild" THEN Exposed ELSE Layout

=============================================================================

------------------------------ MODULE PhysMem ------------------------------
(***************************************************************************)
(* The physical memory manager (pmm.c): a bitmap with one bit per 4 KB     *)
(* frame, filled from the BIOS memory map, and a first-fit pmm_alloc.      *)
(* Frames are numbered; what the bitmap says is the set of the frames      *)
(* whose bit is clear.  pmm_free has no caller.                            *)
(*                                                                         *)
(* A memory map entry keeps the halves of its 64-bit addresses apart, as   *)
(* e820_entry_t does.  The sum of two low halves is not taken modulo 2^32: *)
(* no usable entry below 4 GB ends there.                                  *)
(*                                                                         *)
(* The bitmap has a fixed address, inside the kernel's own image (pmm.c:20 *)
(* and kernel.ld): which variables it covers is the linker's choice.       *)
(***************************************************************************)
EXTENDS Integers

PAGE_SIZE   == 4096
BITMAP_ADDR == 1077248      \* 0x107000
KernelStart == 1048576      \* 0x100000, in kernel.ld

Entry == [base_low : Nat, base_high : Nat, length_low : Nat, length_high : Nat, type : Nat]

\* Where the linker puts _kernel_end, ext2_vfs_read's tmp (4096 bytes) and
\* current_process; the bitmap lies among them or behind.
Link == {l \in [kernel_end : Nat, tmp : Nat, current_process : Nat] :
            /\ KernelStart < l.tmp /\ l.tmp <= BITMAP_ADDR
            /\ l.tmp + PAGE_SIZE <= l.current_process
            /\ l.current_process + 4 <= l.kernel_end}

VARIABLES
    mmap,           \* LBootInfo: the memory map, what int 0x15, ax=e820 reports,
    memory_size,    \*            and the memory's size, from int 0x15, ax=e801
    link,           \* the kernel's link
    free            \* the frames whose bit is clear

KernelEnd == link.kernel_end

BITMAP_SIZE == (memory_size \div PAGE_SIZE) \div 8

\* Rounds the end up, so that a page that is only partly usable is freed.
FreedBy_up(e) ==
    e.base_low \div PAGE_SIZE .. (e.base_low + e.length_low + PAGE_SIZE - 1) \div PAGE_SIZE - 1

\* The bits that pmm_free_region clears for an entry.
FreedBy(e) == e.base_low \div PAGE_SIZE .. (e.base_low + e.length_low) \div PAGE_SIZE - 1

\* The bits that pmm_reserve_region sets.
ReservedBy(base, length) ==
    base \div PAGE_SIZE .. (base + length + PAGE_SIZE - 1) \div PAGE_SIZE - 1

\* pmm_init, in three steps: all bits are set, those of usable memory cleared
\* again, and those of the kernel's memory set.
set_all_bits == free' = {}

free_usable == free' = UNION {FreedBy(e) : e \in {e \in mmap : e.type = 1}}

\* Reserves the BIOS's page and stage 2, as pmm.c:54 and :55 once did.
reserve_low_only ==
    free' = free \ (ReservedBy(0, 36864) \cup ReservedBy(BITMAP_ADDR, PAGE_SIZE)
                    \cup ReservedBy(BITMAP_ADDR, BITMAP_SIZE)
                    \cup ReservedBy(KernelStart, KernelEnd - KernelStart))

reserve_kernel ==
    free' = free \ (ReservedBy(BITMAP_ADDR, PAGE_SIZE) \cup ReservedBy(0, BITMAP_ADDR)
                    \cup ReservedBy(BITMAP_ADDR, BITMAP_SIZE)
                    \cup ReservedBy(KernelStart, KernelEnd - KernelStart))

\* The frame pmm_alloc returns when the clear bits are those of S: the lowest
\* one the bitmap has, and none at all when it has none (cli; hlt).
pmm_alloc(S) == {f \in S : f < BITMAP_SIZE * 8 /\ \A g \in S : f <= g}

-----------------------------------------------------------------------------
(* Properties.                                                             *)

\* The bytes first .. last are usable memory below 4 GB, boot_info.h:47.
IsUsable(first, last) ==
    \E e \in mmap : /\ e.type = 1 /\ e.base_high = 0
                    /\ e.base_low <= first /\ last < e.base_low + e.length_low

\* A frame that may still be allocated is usable memory, every byte of it.
FreeIsUsable == \A f \in free : IsUsable(f * PAGE_SIZE, f * PAGE_SIZE + PAGE_SIZE - 1)

KernelFrames == ReservedBy(KernelStart, KernelEnd - KernelStart)
BitmapFrames == ReservedBy(BITMAP_ADDR, BITMAP_SIZE)

=============================================================================

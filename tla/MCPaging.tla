------------------------------ MODULE MCPaging ------------------------------
(* Instances of Paging for TLC.                                            *)
EXTENDS Paging

KB == 1024
Low(base, length, type) ==
    [base_low |-> base, base_high |-> 0, length_low |-> length, length_high |-> 0, type |-> type]

\* What every PC reports of the first megabyte.
Conventional == {Low(0, 639 * KB, 1), Low(639 * KB, KB, 2), Low(960 * KB, 64 * KB, 2)}

\* A PC with so many KB, the last 128 of them the firmware's.
Pc(kb) == Conventional \cup {Low(1024 * KB, (kb - 1152) * KB, 1), Low((kb - 128) * KB, 128 * KB, 2)}

\* One with a hole from the middle of the second megabyte to its end.
Hole == Conventional \cup {Low(1024 * KB, 196 * KB + 2000, 1), Low(1222 * KB, 826 * KB, 2),
                           Low(2048 * KB, 6144 * KB, 1)}

\* One with n frames of memory beyond the kernel and the bitmap.
Tight(n) == Conventional \cup {Low(1024 * KB, 32 * KB + n * 4 * KB, 1)}

AtFD000000 == <<1036288, 3>>
AtE0000000 == <<917504, 3>>

\* The kernel as it is linked: the bitmap starts in tmp, and its bits for the
\* last 128 KB of 109696 KB lie over current_process.
Linked == [kernel_end |-> 1080676, tmp |-> 1076256, current_process |-> 1080672]

\* One with tmp 17 KB below the bitmap, and one that ends 41 frames below the
\* heap.
Apart == [kernel_end |-> 1065251, tmp |-> 1060096, current_process |-> 1064512]
Large == [Apart EXCEPT !.kernel_end = 1929216]

On(map, kb, fb_info, l, bytes) ==
    [mmap |-> map, memory_size |-> kb * KB, fb |-> fb_info, link |-> l, size |-> bytes]

AllBoots ==
    {On(map, 8192, at, Linked, 250) : map \in {Pc(8192), Hole, Tight(39)}, at \in {AtFD000000, AtE0000000}}
    \cup {On(map, 8192, at, Apart, n) :
             map \in {Pc(8192), Hole, Tight(39)}, at \in {AtFD000000, AtE0000000}, n \in {4084, 16400}}
    \cup {On(Tight(n), 8192, at, Linked, 991) : n \in {0, 20, 35}, at \in {AtFD000000, AtE0000000}}
    \cup {On(Pc(kb), kb, AtFD000000, Linked, 991) : kb \in {8192, 109696, 131072}}
    \cup {On(Pc(8192), 8192, AtE0000000, Large, 4200)}

LargeFile == {On(Pc(8192), 8192, AtFD000000, Linked, 9000)}

=============================================================================

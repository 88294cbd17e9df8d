-------------------------------- MODULE Ext2 --------------------------------
(***************************************************************************)
(* The reader of the second disk's ext2 file system (ext2.c, on top of     *)
(* ata.c): the superblock and the group descriptor that ext2_init copies,  *)
(* inodes, directories, and ext2_read_file's three loops over direct,      *)
(* singly and doubly indirect blocks.                                      *)
(*                                                                         *)
(* A disk is a function from block numbers to what the block holds.  The   *)
(* bytes of a file are abstracted to cells, and a cell to its place: the   *)
(* block it is in and where.  Block 0 is all zeros, which is also what a   *)
(* hole in a file (pointer 0) stands for.  Blocks have 1024 bytes, as      *)
(* Makefile:59 formats them: the buffers of ext2.c have room for no more.  *)
(* A block that holds no inodes may be read for some: what its bytes are   *)
(* then is under inodes.                                                   *)
(*                                                                         *)
(* Operators named after another one, like ToCopy_whole after ToCopy, are  *)
(* that one with a plausible programming mistake.                          *)
(***************************************************************************)
EXTENDS Integers, Sequences

CONSTANTS
    Disks,          \* the images that may be on the second drive
    Cells,          \* cells in a block
    Direct,         \* direct blocks of an inode, 12
    Pointers,       \* block numbers in an indirect block, 256
    Room            \* cells from ext2_vfs_read's tmp on that may be written

SUPERBLOCK  == 1        \* sectors 2 and 3
DESCRIPTORS == 2        \* for blocks of 1024 bytes
ROOT        == 2        \* EXT2 root inode

Inode    == [mode : {"dir", "file"}, size : Nat, block : [0 .. Direct + 2 -> Nat]]
DirEntry == [inode : Nat, name : STRING]

\* The inode numbers that directory entries give.
Named(d) ==
    {ROOT} \cup UNION {{d[b].entries[e].inode : e \in DOMAIN d[b].entries} :
                       b \in {b \in DOMAIN d : "entries" \in DOMAIN d[b]}}

\* Entry n, from 1, of an inode table that starts at block b, per a block.
InodeAt(d, b, per, n) == d[b + (n - 1) \div per].inodes[(n - 1) % per]

\* Inode n as the code finds it, in the first group's table.
InodeRead(d, n) == InodeAt(d, d[DESCRIPTORS].groups[0].inode_table, d[SUPERBLOCK].inodes_per_block, n)

\* Inode n as the format has it, in the table of its own group.
InodeOf(d, n) ==
    LET s == d[SUPERBLOCK]
        g == (n - 1) \div s.inodes_per_group
    IN  InodeAt(d, d[DESCRIPTORS].groups[g].inode_table, s.inodes_per_block,
                ((n - 1) % s.inodes_per_group) + 1)

\* What ext2_find_entry and ext2_read_file can make sense of.
Readable(d, ino) ==
    /\ ino \in Inode /\ ino.size < Room
    /\ ino.mode = "dir" =>
          /\ ino.size > 0      \* "." and ".." at least
          /\ ino.block[0] \in DOMAIN d
          /\ "entries" \in DOMAIN d[ino.block[0]]
          /\ d[ino.block[0]].entries \in Seq(DirEntry)

WellFormed(d) ==
    /\ d[SUPERBLOCK].inodes_per_block \in Nat \ {0}
    /\ d[SUPERBLOCK].inodes_per_group \in Nat /\ ROOT <= d[SUPERBLOCK].inodes_per_group
    /\ Named(d) \subseteq Nat /\ InodeOf(d, ROOT).mode = "dir"
    /\ \A n \in Named(d) \ {0} : Readable(d, InodeOf(d, n)) /\ Readable(d, InodeRead(d, n))

ASSUME DisksAssumption == \A d \in Disks : d[SUPERBLOCK].magic => WellFormed(d)
ASSUME SizesAssumption ==
    /\ Cells \in Nat \ {0} /\ Direct \in Nat \ {0} /\ Pointers \in Nat \ {0}
    /\ Room \in Nat \ {0}

VARIABLES
    disk,           \* what is on the second drive
    sb,             \* the superblock as ext2_init copied it
    bgd,            \* the first group's descriptor
    block_size,     \* in cells, 0 unless the magic number was right
    inode,          \* of ext2_read_file: the inode,
    bytes_left,
    ptr,            \* how far dest has been written,
    level,          \* which loop it is in: "direct", "single" or "double",
    i, j,           \* the loops' counters,
    tmp             \* and dest, which is ext2_vfs_read's tmp

mount  == <<disk, sb, bgd, block_size>>
reader == <<inode, bytes_left, ptr, level, i, j, tmp>>

NoInode == [mode |-> "file", size |-> 0, block |-> [k \in 0 .. Direct + 2 |-> 0]]
UNWRITTEN == <<-1, 0>>      \* what a cell of tmp holds before it is written
NUL       == <<-2, 0>>      \* the zero ext2_read_file writes behind a file

Ext2Init ==
    /\ disk \in Disks
    /\ sb = [magic |-> FALSE, inodes_per_block |-> 0, inodes_per_group |-> 0]
    /\ bgd = [inode_table |-> 0]
    /\ block_size = 0
    /\ inode = NoInode /\ bytes_left = 0 /\ ptr = 0
    /\ level = "none" /\ i = 0 /\ j = 0
    /\ tmp = [a \in 0 .. Room - 1 |-> UNWRITTEN]

-----------------------------------------------------------------------------
(* Mounting, inodes and directories.                                       *)

\* A superblock without the magic number is kept, but not used.
ext2_init ==
    /\ sb' = disk[SUPERBLOCK]
    /\ IF disk[SUPERBLOCK].magic
       THEN bgd' = disk[DESCRIPTORS].groups[0] /\ block_size' = Cells
       ELSE UNCHANGED <<bgd, block_size>>
    /\ UNCHANGED <<disk, reader>>

\* Takes no notice of s_inodes_per_group.
read_inode(n) == InodeAt(disk, bgd.inode_table, sb.inodes_per_block, n)

\* Looks at deleted entries too.
ext2_find_entry_deleted(n, name) ==
    LET entries == disk[read_inode(n).block[0]].entries
        match   == {e \in DOMAIN entries : entries[e].name = name}
    IN  IF block_size = 0 \/ match = {} THEN 0
        ELSE entries[CHOOSE e \in match : \A f \in match : e <= f].inode

\* The first entry with that name in the first block of the directory; none
\* in a file system that was not mounted (block_size is 0).
ext2_find_entry(n, name) ==
    LET entries == disk[read_inode(n).block[0]].entries
        match   == {e \in DOMAIN entries : entries[e].inode # 0 /\ entries[e].name = name}
    IN  IF block_size = 0 \/ match = {} THEN 0
        ELSE entries[CHOOSE e \in match : \A f \in match : e <= f].inode

-----------------------------------------------------------------------------
(* ext2_read_file.                                                         *)

StartReading(n) ==
    /\ inode' = read_inode(n)
    /\ bytes_left' = read_inode(n).size
    /\ ptr' = 0 /\ level' = "direct" /\ i' = 0 /\ j' = 0
    /\ UNCHANGED tmp

\* Copies whole blocks only.
ToCopy_whole == block_size

ToCopy == IF bytes_left < block_size THEN bytes_left ELSE block_size

\* The next cells of dest are block b's.
Copy(b) ==
    /\ tmp' = [a \in DOMAIN tmp |->
                 IF ptr <= a /\ a < ptr + ToCopy THEN <<b, a - ptr>> ELSE tmp[a]]
    /\ ptr' = ptr + ToCopy
    /\ bytes_left' = bytes_left - ToCopy
    /\ UNCHANGED inode

\* Entry k of the indirect block b.
Pointer(b, k) == disk[b].pointers[k]

MoreDirect == bytes_left > 0 /\ i < Direct

CopyDirect ==
    /\ level = "direct" /\ MoreDirect
    /\ Copy(inode.block[i])
    /\ i' = i + 1
    /\ UNCHANGED <<level, j>>

EndDirect ==
    /\ level = "direct" /\ ~ MoreDirect
    /\ level' = "single" /\ i' = 0
    /\ UNCHANGED <<inode, bytes_left, ptr, j, tmp>>

\* A zero pointer ends the loop, whatever follows it.
MoreSingle ==
    /\ bytes_left > 0 /\ inode.block[Direct] # 0
    /\ i < Pointers /\ Pointer(inode.block[Direct], i) # 0

CopySingle ==
    /\ level = "single" /\ MoreSingle
    /\ Copy(Pointer(inode.block[Direct], i))
    /\ i' = i + 1
    /\ UNCHANGED <<level, j>>

EndSingle ==
    /\ level = "single" /\ ~ MoreSingle
    /\ level' = "double" /\ i' = 0
    /\ UNCHANGED <<inode, bytes_left, ptr, j, tmp>>

MoreDouble ==
    /\ bytes_left > 0 /\ inode.block[Direct + 1] # 0
    /\ i < Pointers /\ Pointer(inode.block[Direct + 1], i) # 0

Indirect   == Pointer(inode.block[Direct + 1], i)
MoreInner  == j < Pointers /\ Pointer(Indirect, j) # 0

CopyDouble ==
    /\ level = "double" /\ MoreDouble /\ MoreInner
    /\ Copy(Pointer(Indirect, j))
    /\ j' = j + 1
    /\ UNCHANGED <<level, i>>

\* Reads the same indirect block again.
EndInner_again ==
    /\ level = "double" /\ MoreDouble /\ ~ MoreInner
    /\ j' = 0
    /\ UNCHANGED <<inode, bytes_left, ptr, level, i, tmp>>

EndInner ==
    /\ level = "double" /\ MoreDouble /\ ~ MoreInner
    /\ i' = i + 1 /\ j' = 0
    /\ UNCHANGED <<inode, bytes_left, ptr, level, tmp>>

EndDouble ==
    /\ level = "double" /\ ~ MoreDouble
    /\ level' = "done"
    /\ tmp' = [tmp EXCEPT ![ptr] = NUL]
    /\ UNCHANGED <<inode, bytes_left, ptr, i, j>>

ext2_read_file ==
    /\ \/ CopyDirect \/ EndDirect \/ CopySingle \/ EndSingle
       \/ CopyDouble \/ EndInner \/ EndDouble
    /\ UNCHANGED mount

-----------------------------------------------------------------------------
(* What the format means, for whoever reads it.                            *)

\* The disk block that holds block n of a file, 0 if that is a hole.
BlockOf(ino, n) ==
    LET s == ino.block[Direct]
        d == ino.block[Direct + 1]
        m == n - Direct - Pointers
        t == IF d = 0 THEN 0 ELSE Pointer(d, m \div Pointers)
    IN  CASE n < Direct                        -> ino.block[n]
          [] n >= Direct /\ n < Direct + Pointers -> IF s = 0 THEN 0 ELSE Pointer(s, n - Direct)
          [] OTHER                             -> IF t = 0 THEN 0 ELSE Pointer(t, m % Pointers)

\* Cell a of a file.
CellOf(ino, a) == <<BlockOf(ino, a \div Cells), a % Cells>>

BlocksOf(ino) == {n \in 0 .. ino.size : n * Cells < ino.size}

\* There is no hole behind the direct blocks, and nothing behind the doubly
\* indirect ones.
Dense(ino) ==
    \A n \in BlocksOf(ino) : n >= Direct => /\ BlockOf(ino, n) # 0
                                            /\ n < Direct + Pointers + Pointers * Pointers

\* The inode of the first entry of this name in a directory's blocks, 0 if
\* there is none.
FirstNamed(entries, name) ==
    LET match(k) == {e \in DOMAIN entries[k] :
                        entries[k][e].inode # 0 /\ entries[k][e].name = name}
        blocks   == {k \in DOMAIN entries : match(k) # {}}
        k1       == CHOOSE k \in blocks : \A l \in blocks : k <= l
        e1       == CHOOSE e \in match(k1) : \A f \in match(k1) : e <= f
    IN  IF blocks = {} THEN 0 ELSE entries[k1][e1].inode

\* The inode that a name leads to from directory n, in any of its blocks.
Child(n, name) ==
    LET ino == InodeOf(disk, n)
    IN  FirstNamed([k \in BlocksOf(ino) |-> disk[BlockOf(ino, k)].entries], name)

IsDir(n) == InodeOf(disk, n).mode = "dir"

\* Inode n lies in the first block group.
InFirstGroup(n) == n <= disk[SUPERBLOCK].inodes_per_group

=============================================================================

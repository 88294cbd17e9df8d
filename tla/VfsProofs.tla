------------------------------ MODULE VfsProofs ------------------------------
(***************************************************************************)
(* Theorems about Vfs for disks of any number of blocks, files of any size *)
(* and blocks of any number of cells and pointers.                         *)
(***************************************************************************)
EXTENDS Vfs, LeastNumbers, TLAPS

\* Multiplication keeps the order.
LEMMA Monotonic ==
    ASSUME NEW a \in Nat, NEW b \in Nat, NEW k \in Nat, a <= b
    PROVE  a * k <= b * k
<1>1. b - a \in Nat /\ b * k = a * k + (b - a) * k
  OBVIOUS
<1>2. (b - a) * k \in Nat
  BY <1>1
<1> QED BY <1>1, <1>2

\* Block number and place in the block.
LEMMA DivMod ==
    ASSUME NEW n \in Nat, NEW k \in Nat \ {0}, NEW r \in 0 .. k - 1
    PROVE  (n * k + r) \div k = n /\ (n * k + r) % k = r
<1> DEFINE x == n * k + r
           q == x \div k
<1>1. n * k \in Nat /\ x \in Nat /\ q \in Nat /\ x % k \in 0 .. k - 1 /\ x = q * k + (x % k)
  OBVIOUS
<1>2. q <= n
  <2>1. ASSUME n + 1 <= q PROVE FALSE
    <3>1. (n + 1) * k <= q * k
      BY <2>1, <1>1, Monotonic
    <3>2. (n + 1) * k = n * k + k
      OBVIOUS
    <3> QED BY <3>1, <3>2, <1>1
  <2> QED BY <2>1, <1>1
<1>3. n <= q
  <2>1. ASSUME q + 1 <= n PROVE FALSE
    <3>1. (q + 1) * k <= n * k
      BY <2>1, <1>1, Monotonic
    <3>2. (q + 1) * k = q * k + k
      BY <1>1
    <3> QED BY <3>1, <3>2, <1>1
  <2> QED BY <2>1, <1>1
<1>4. q = n
  BY <1>1, <1>2, <1>3
<1> QED BY <1>1, <1>4

-----------------------------------------------------------------------------
(* Inodes and directories.                                                 *)

\* The inodes of the first block group are where the code looks for them.
LEMMA FirstGroupInode ==
    ASSUME TypeOK, block_size # 0, NEW n \in Nat \ {0}, InFirstGroup(n)
    PROVE  InodeOf(disk, n) = read_inode(n)
<1> DEFINE g == disk[SUPERBLOCK].inodes_per_group
<1>1. WellFormed(disk) /\ sb = disk[SUPERBLOCK] /\ bgd = disk[DESCRIPTORS].groups[0]
  BY DisksAssumption DEF TypeOK
<1>2. g \in Nat \ {0} /\ n - 1 \in 0 .. g - 1
  BY <1>1 DEF WellFormed, InFirstGroup, ROOT
<1>3. (n - 1) \div g = 0 /\ ((n - 1) % g) + 1 = n
  <2> HIDE DEF g
  <2>1. (0 * g + (n - 1)) \div g = 0 /\ (0 * g + (n - 1)) % g = n - 1
    BY <1>2, DivMod
  <2>2. 0 * g + (n - 1) = n - 1
    BY <1>2
  <2> QED BY <2>1, <2>2
<1> QED BY <1>1, <1>3 DEF InodeOf, read_inode

\* Every inode that a directory of a mounted disk names is one.
LEMMA InodeFacts ==
    ASSUME TypeOK, block_size # 0, NEW n \in Named(disk) \ {0}
    PROVE  /\ n \in Nat /\ read_inode(n) \in Inode /\ read_inode(n).size < Room
           /\ read_inode(ROOT).mode = "dir"
           /\ read_inode(n).mode = "dir" =>
                 /\ read_inode(n).size > 0
                 /\ read_inode(n).block[0] \in DOMAIN disk
                 /\ "entries" \in DOMAIN disk[read_inode(n).block[0]]
                 /\ disk[read_inode(n).block[0]].entries \in Seq(DirEntry)
<1>1. WellFormed(disk) /\ sb = disk[SUPERBLOCK] /\ bgd = disk[DESCRIPTORS].groups[0]
  BY DisksAssumption DEF TypeOK
<1>2. \A m : read_inode(m) = InodeRead(disk, m)
  BY <1>1 DEF read_inode, InodeRead
<1>3. n \in Nat /\ Readable(disk, read_inode(n))
  BY <1>1, <1>2 DEF WellFormed
<1>4. read_inode(ROOT).mode = "dir"
  <2>1. InFirstGroup(ROOT) /\ ROOT \in Nat \ {0}
    BY <1>1 DEF InFirstGroup, WellFormed, ROOT
  <2>2. InodeOf(disk, ROOT) = read_inode(ROOT)
    BY <2>1, FirstGroupInode
  <2> QED BY <1>1, <2>2 DEF WellFormed
<1> QED BY <1>3, <1>4 DEF Readable

\* A lookup in a directory of a disk finds an inode that the disk names.
LEMMA FindFacts ==
    ASSUME TypeOK, NEW n \in Named(disk) \ {0}, NEW name,
           block_size # 0 => read_inode(n).mode = "dir"
    PROVE  /\ ext2_find_entry(n, name) \in Named(disk) \cup {0}
           /\ ext2_find_entry(n, name) # 0 => block_size # 0
<1> DEFINE b       == read_inode(n).block[0]
           entries == disk[b].entries
           match   == {e \in DOMAIN entries : entries[e].inode # 0 /\ entries[e].name = name}
           first   == CHOOSE e \in match : \A f \in match : e <= f
<1>1. CASE block_size = 0 \/ match = {}
  BY <1>1 DEF ext2_find_entry
<1>2. CASE block_size # 0 /\ match # {}
  <2>1. b \in DOMAIN disk /\ "entries" \in DOMAIN disk[b] /\ entries \in Seq(DirEntry)
    BY <1>2, InodeFacts
  <2>2. match \subseteq Nat
    BY <2>1
  <2>3. \E e \in match : \A f \in match : e <= f
    <3> HIDE DEF match
    <3> QED BY <1>2, <2>2, Least
  <2>4. first \in match
    BY <2>3
  <2>5. entries[first].inode \in Named(disk)
    <3>1. first \in DOMAIN entries
      BY <2>4
    <3>2. entries[first].inode \in {disk[b].entries[e].inode : e \in DOMAIN disk[b].entries}
      <4> HIDE DEF first
      <4> QED BY <3>1
    <3> HIDE DEF first, b
    <3> QED BY <2>1, <3>2 DEF Named
  <2>6. ext2_find_entry(n, name) = entries[first].inode
    BY <1>2 DEF ext2_find_entry
  <2> QED BY <1>2, <2>5, <2>6
<1> QED BY <1>1, <1>2

-----------------------------------------------------------------------------
(* The loops of ext2_read_file.                                            *)

\* Cell k of block n of a file.
LEMMA CellOfBlock ==
    ASSUME NEW ino, NEW n \in Nat, NEW k \in 0 .. Cells - 1
    PROVE  CellOf(ino, n * Cells + k) = <<BlockOf(ino, n), k>>
BY DivMod, SizesAssumption DEF CellOf

\* What the loop over the singly indirect block reads is the file's next block.
LEMMA SingleBlock ==
    ASSUME NEW ino, NEW k \in 0 .. Pointers - 1
    PROVE  BlockOf(ino, Direct + k) =
             IF ino.block[Direct] = 0 THEN 0 ELSE Pointer(ino.block[Direct], k)
BY SizesAssumption DEF BlockOf

\* So is what the loops over the doubly indirect blocks read.
LEMMA DoubleBlock ==
    ASSUME NEW ino, NEW k \in Nat, NEW l \in 0 .. Pointers - 1
    PROVE  BlockOf(ino, Direct + Pointers + k * Pointers + l) =
             IF ino.block[Direct + 1] = 0 THEN 0
             ELSE IF Pointer(ino.block[Direct + 1], k) = 0 THEN 0
             ELSE Pointer(Pointer(ino.block[Direct + 1], k), l)
<1> DEFINE n == Direct + Pointers + k * Pointers + l
<1>1. k * Pointers \in Nat
  BY SizesAssumption
<1>2. n - Direct - Pointers = k * Pointers + l /\ ~ (n < Direct) /\ ~ (n < Direct + Pointers) /\ n \in Nat
  BY <1>1, SizesAssumption
<1>3. (k * Pointers + l) \div Pointers = k /\ (k * Pointers + l) % Pointers = l
  BY DivMod, SizesAssumption
<1> HIDE DEF n
<1> QED BY <1>2, <1>3 DEF BlockOf, n

\* What a file consists of does not change while the disk and the inode do not.
LEMMA SameFile ==
    ASSUME disk' = disk, inode' = inode
    PROVE  /\ \A a : CellOf(inode, a)' = CellOf(inode, a)
           /\ Dense(inode)' = Dense(inode)
BY DEF CellOf, BlockOf, Pointer, Dense, BlocksOf

\* Copying the file's next block leaves dest with the file up to its end.
LEMMA CopyFacts ==
    ASSUME TypeOK, NodeOK, pc = "read", ptr + bytes_left = inode.size,
           bytes_left > 0, NEW b, Copy(b), disk' = disk
    PROVE  /\ ptr' \in Nat /\ bytes_left' \in Nat /\ inode' = inode
           /\ ptr' + bytes_left' = inode.size /\ ptr < ptr' /\ DOMAIN tmp' = DOMAIN tmp
           /\ \A a \in DOMAIN tmp : tmp'[a] # tmp[a] => ptr <= a /\ a < ptr'
           /\ \A n \in Nat :
                 /\ ptr = n * Cells /\ b = BlockOf(inode, n)
                 /\ \A a \in 0 .. ptr - 1 : tmp[a] = CellOf(inode, a)
                 => /\ \A a \in 0 .. ptr' - 1 : tmp'[a] = CellOf(inode, a)
                    /\ bytes_left' > 0 => ptr' = (n + 1) * Cells
<1> USE SizesAssumption
<1>1. /\ ptr \in Nat /\ bytes_left \in Nat /\ DOMAIN tmp = 0 .. Room - 1
      /\ inode.size \in Nat /\ inode.size < Room
  BY DEF TypeOK, Inode
<1>2. block_size = Cells
  BY DEF NodeOK, TypeOK
<1>3. ToCopy \in 1 .. Cells /\ ToCopy <= bytes_left /\ (ToCopy = Cells \/ ToCopy = bytes_left)
  BY <1>1, <1>2 DEF ToCopy
<1>4. /\ ptr' = ptr + ToCopy /\ bytes_left' = bytes_left - ToCopy /\ inode' = inode
      /\ tmp' = [a \in DOMAIN tmp |->
                   IF ptr <= a /\ a < ptr + ToCopy THEN <<b, a - ptr>> ELSE tmp[a]]
  BY DEF Copy
<1>5. ASSUME NEW n \in Nat, ptr = n * Cells, b = BlockOf(inode, n),
             \A a \in 0 .. ptr - 1 : tmp[a] = CellOf(inode, a)
      PROVE  /\ \A a \in 0 .. ptr' - 1 : tmp'[a] = CellOf(inode, a)
             /\ bytes_left' > 0 => ptr' = (n + 1) * Cells
  <2>1. ASSUME NEW a \in 0 .. ptr' - 1 PROVE tmp'[a] = CellOf(inode, a)
    <3>1. a \in DOMAIN tmp /\ a \in Nat
      BY <1>1, <1>3, <1>4
    <3>2. CASE a < ptr
      BY <3>1, <3>2, <1>1, <1>4, <1>5
    <3>3. CASE ptr <= a
      <4>1. a - ptr \in 0 .. Cells - 1 /\ a = ptr + (a - ptr) /\ a < ptr + ToCopy
        BY <3>1, <3>3, <1>1, <1>3, <1>4
      <4>2. CellOf(inode, n * Cells + (a - ptr)) = <<BlockOf(inode, n), a - ptr>>
        BY <4>1, CellOfBlock
      <4>3. tmp'[a] = <<b, a - ptr>>
        BY <4>1, <3>1, <3>3, <1>4
      <4> QED BY <4>1, <4>2, <4>3, <1>5
    <3> QED BY <3>1, <3>2, <3>3, <1>1
  <2>2. bytes_left' > 0 => ptr' = (n + 1) * Cells
    BY <1>1, <1>3, <1>4, <1>5
  <2> QED BY <2>1, <2>2
<1>6. DOMAIN tmp' = DOMAIN tmp /\ \A a \in DOMAIN tmp : tmp'[a] # tmp[a] => ptr <= a /\ a < ptr'
  BY <1>4
<1>7. ptr' \in Nat /\ bytes_left' \in Nat /\ ptr' + bytes_left' = inode.size /\ ptr < ptr'
  BY <1>1, <1>3, <1>4
<1> QED BY <1>4, <1>5, <1>6, <1>7

\* One step of ext2_read_file keeps the types and the node.
LEMMA ReadFileTypes ==
    ASSUME Inv, pc = "read", ext2_read_file, UNCHANGED calls
    PROVE  TypeOK' /\ NodeOK' /\ inode' = inode /\ disk' = disk
<1> USE DEF Inv
<1>0. disk' = disk /\ sb' = sb /\ bgd' = bgd /\ block_size' = block_size
  BY DEF ext2_read_file, mount
<1>1. ptr + bytes_left = inode.size
  BY DEF LoopOK
<1>2. ASSUME NEW b, Copy(b), bytes_left > 0
      PROVE  inode' = inode /\ bytes_left' \in Nat /\ ptr' \in Nat /\ DOMAIN tmp' = DOMAIN tmp
  BY <1>0, <1>1, <1>2, CopyFacts
<1>3. /\ inode' = inode /\ bytes_left' \in Nat /\ ptr' \in Nat /\ DOMAIN tmp' = DOMAIN tmp
      /\ i' \in Nat /\ j' \in Nat /\ level' \in {"direct", "single", "double", "done"}
  <2> USE DEF TypeOK
  <2>1. CASE CopyDirect
    BY <2>1, <1>2 DEF CopyDirect, MoreDirect
  <2>2. CASE EndDirect
    BY <2>2 DEF EndDirect
  <2>3. CASE CopySingle
    BY <2>3, <1>2 DEF CopySingle, MoreSingle
  <2>4. CASE EndSingle
    BY <2>4 DEF EndSingle
  <2>5. CASE CopyDouble
    BY <2>5, <1>2 DEF CopyDouble, MoreDouble
  <2>6. CASE EndInner
    BY <2>6 DEF EndInner
  <2>7. CASE EndDouble
    BY <2>7 DEF EndDouble
  <2> QED BY <2>1, <2>2, <2>3, <2>4, <2>5, <2>6, <2>7 DEF ext2_read_file
<1>4. TypeOK'
  BY <1>0, <1>3 DEF TypeOK, calls
<1>5. NodeOK'
  BY <1>0, <1>3 DEF NodeOK, calls, read_inode, InodeAt, Named
<1> QED BY <1>0, <1>3, <1>4, <1>5

\* Nothing is left of a dense file when a block that would come next is a hole.
LEMMA NoHole ==
    ASSUME NEW n \in Nat, n * Cells < inode.size, inode \in Inode, Dense(inode), n >= Direct
    PROVE  BlockOf(inode, n) # 0 /\ n < Direct + Pointers + Pointers * Pointers
<1>1. n <= n * Cells /\ n * Cells \in Nat
  <2>1. n * 1 <= n * Cells
    <3>1. 1 * n <= Cells * n
      BY SizesAssumption, Monotonic
    <3> QED BY <3>1, SizesAssumption
  <2> QED BY <2>1, SizesAssumption
<1>2. n \in BlocksOf(inode)
  BY <1>1 DEF BlocksOf, Inode
<1> QED BY <1>2 DEF Dense

\* One step of ext2_read_file keeps what is known of the loops.
LEMMA LoopStep ==
    ASSUME Inv, pc = "read", ext2_read_file, UNCHANGED calls
    PROVE  LoopOK'
<1> DEFINE Begun   == \A a \in 0 .. ptr - 1 : tmp[a] = CellOf(inode, a)
           Longer  == \A a \in 0 .. ptr' - 1 : tmp'[a] = CellOf(inode, a)
           Counted ==
             /\ level' \in {"direct", "single", "double", "done"}
             /\ ptr' + bytes_left' = inode.size
             /\ level' = "direct" => i' <= Direct /\ j' = 0
             /\ level' = "single" => j' = 0
             /\ level' \in {"single", "double"} => i' <= Pointers
             /\ level' = "double" => j' <= Pointers
             /\ level' = "double" /\ j' > 0 =>
                   /\ inode.block[Direct + 1] # 0
                   /\ i' < Pointers /\ Pointer(inode.block[Direct + 1], i') # 0
           Placed ==
             Dense(inode) => /\ Longer
                             /\ bytes_left' > 0 => level' # "done" /\ ptr' = NextBlock' * Cells
<1> USE SizesAssumption
<1>1. /\ ptr \in Nat /\ bytes_left \in Nat /\ i \in Nat /\ j \in Nat /\ inode \in Inode
      /\ TypeOK /\ NodeOK /\ LoopOK
  BY DEF Inv, TypeOK
<1>2. /\ ptr + bytes_left = inode.size
      /\ Dense(inode) => Begun
      /\ Dense(inode) /\ bytes_left > 0 => level # "done" /\ ptr = NextBlock * Cells
  BY <1>1 DEF LoopOK
<1>3. inode' = inode /\ disk' = disk /\ pc' = pc
  BY ReadFileTypes DEF calls
<1>4. ASSUME NEW b, NEW n \in Nat, Copy(b), bytes_left > 0,
             Dense(inode) => ptr = n * Cells /\ b = BlockOf(inode, n)
      PROVE  /\ ptr' + bytes_left' = inode.size
             /\ Dense(inode) => Longer /\ (bytes_left' > 0 => ptr' = (n + 1) * Cells)
  BY <1>1, <1>2, <1>3, <1>4, CopyFacts
<1>5. ASSUME CopyDirect PROVE Counted /\ Placed
  <2>1. level = "direct" /\ bytes_left > 0 /\ i < Direct /\ Copy(inode.block[i])
        /\ i' = i + 1 /\ level' = level /\ j' = j /\ j = 0
    BY <1>5, <1>1 DEF CopyDirect, MoreDirect, LoopOK
  <2>2. inode.block[i] = BlockOf(inode, i) /\ NextBlock = i /\ NextBlock' = i + 1
    BY <2>1, <1>1 DEF BlockOf, NextBlock
  <2>3. /\ ptr' + bytes_left' = inode.size
        /\ Dense(inode) => Longer /\ (bytes_left' > 0 => ptr' = (i + 1) * Cells)
    <3> HIDE DEF Begun, Longer
    <3> QED BY <1>1, <1>2, <1>4, <2>1, <2>2
  <2>4. Counted
    BY <2>1, <2>3, <1>1
  <2>5. Placed
    <3> HIDE DEF Begun, Longer
    <3> QED BY <2>1, <2>2, <2>3
  <2> QED BY <2>4, <2>5
<1>6. ASSUME EndDirect PROVE Counted /\ Placed
  <2>1. level = "direct" /\ level' = "single" /\ i' = 0 /\ ptr' = ptr /\ bytes_left' = bytes_left
        /\ tmp' = tmp /\ (bytes_left > 0 => i >= Direct) /\ i <= Direct /\ j' = j /\ j = 0
    BY <1>6, <1>1 DEF EndDirect, MoreDirect, LoopOK
  <2>2. NextBlock = i /\ NextBlock' = Direct
    BY <2>1, <1>1 DEF NextBlock
  <2>3. Counted
    BY <2>1, <1>1, <1>2
  <2>4. Placed
    <3>1. Begun => Longer
      BY <2>1
    <3>2. bytes_left > 0 => i = Direct
      BY <2>1, <1>1
    <3> HIDE DEF Begun, Longer
    <3> QED BY <3>1, <3>2, <2>1, <2>2, <1>2
  <2> QED BY <2>3, <2>4
<1>7. ASSUME CopySingle PROVE Counted /\ Placed
  <2> DEFINE s == inode.block[Direct]
  <2>1. /\ level = "single" /\ bytes_left > 0 /\ s # 0 /\ i < Pointers
        /\ Copy(Pointer(s, i))
        /\ i' = i + 1 /\ level' = level /\ j' = j /\ j = 0
    BY <1>7, <1>1 DEF CopySingle, MoreSingle, LoopOK
  <2>2. Pointer(s, i) = BlockOf(inode, Direct + i) /\ NextBlock = Direct + i /\ NextBlock' = Direct + i + 1
    BY <2>1, <1>1, SingleBlock DEF NextBlock
  <2>3. /\ ptr' + bytes_left' = inode.size
        /\ Dense(inode) => Longer /\ (bytes_left' > 0 => ptr' = (Direct + i + 1) * Cells)
    <3> HIDE DEF Begun, Longer
    <3>1. Direct + i \in Nat
      BY <1>1
    <3> QED BY <1>1, <1>2, <1>4, <2>1, <2>2, <3>1
  <2>4. Counted
    BY <2>1, <2>3, <1>1
  <2>5. Placed
    <3> HIDE DEF Begun, Longer
    <3> QED BY <2>1, <2>2, <2>3
  <2> QED BY <2>4, <2>5
<1>8. ASSUME EndSingle PROVE Counted /\ Placed
  <2> DEFINE s == inode.block[Direct]
  <2>1. /\ level = "single" /\ level' = "double" /\ i' = 0 /\ j' = j
        /\ ptr' = ptr /\ bytes_left' = bytes_left /\ tmp' = tmp /\ i <= Pointers
        /\ bytes_left > 0 => s = 0 \/ i >= Pointers \/ Pointer(s, i) = 0
    BY <1>8, <1>1 DEF EndSingle, MoreSingle, LoopOK
  <2>2. NextBlock = Direct + i /\ NextBlock' = Direct + Pointers + j
    BY <2>1, <1>1 DEF NextBlock
  <2>3. j = 0
    BY <1>1, <2>1 DEF LoopOK
  <2>4. Counted
    BY <2>1, <2>3, <1>1, <1>2
  <2>5. ASSUME Dense(inode), bytes_left > 0 PROVE i = Pointers
    <3>1. ASSUME i < Pointers PROVE FALSE
      <4>1. BlockOf(inode, Direct + i) = 0
        BY <2>1, <2>5, <3>1, <1>1, SingleBlock
      <4>2. ptr = (Direct + i) * Cells /\ ptr < inode.size
        BY <1>1, <1>2, <2>2, <2>5
      <4> QED BY <4>1, <4>2, <2>5, <1>1, NoHole
    <3> QED BY <3>1, <2>1, <1>1
  <2>6. Placed
    <3>1. Begun => Longer
      BY <2>1
    <3> HIDE DEF Begun, Longer
    <3> QED BY <3>1, <2>1, <2>2, <2>3, <2>5, <1>2
  <2> QED BY <2>4, <2>6
<1>9. ASSUME CopyDouble PROVE Counted /\ Placed
  <2> DEFINE d == inode.block[Direct + 1]
             n == Direct + Pointers + i * Pointers + j
  <2>1. /\ level = "double" /\ bytes_left > 0 /\ d # 0 /\ i < Pointers /\ Pointer(d, i) # 0
        /\ j < Pointers /\ Copy(Pointer(Pointer(d, i), j))
        /\ j' = j + 1 /\ level' = level /\ i' = i
    BY <1>9 DEF CopyDouble, MoreDouble, MoreInner, Indirect
  <2>2. n \in Nat
    BY <1>1
  <2>3. Pointer(Pointer(d, i), j) = BlockOf(inode, n) /\ NextBlock = n /\ NextBlock' = n + 1
    <3>1. j \in 0 .. Pointers - 1
      BY <2>1, <1>1
    <3>2. Pointer(Pointer(d, i), j) = BlockOf(inode, n)
      BY <2>1, <3>1, <1>1, DoubleBlock
    <3>3. NextBlock = n /\ NextBlock' = Direct + Pointers + i * Pointers + (j + 1)
      BY <2>1 DEF NextBlock
    <3>4. Direct + Pointers + i * Pointers + (j + 1) = n + 1
      BY <1>1
    <3> QED BY <3>2, <3>3, <3>4
  <2>4. /\ ptr' + bytes_left' = inode.size
        /\ Dense(inode) => Longer /\ (bytes_left' > 0 => ptr' = (n + 1) * Cells)
    <3> HIDE DEF Begun, Longer, n
    <3> QED BY <1>1, <1>2, <1>4, <2>1, <2>2, <2>3
  <2>5. Counted
    BY <2>1, <2>4, <1>1
  <2>6. Placed
    <3> HIDE DEF Begun, Longer, n
    <3> QED BY <2>1, <2>3, <2>4
  <2> QED BY <2>5, <2>6
<1>10. ASSUME EndInner PROVE Counted /\ Placed
  <2> DEFINE d == inode.block[Direct + 1]
             n == Direct + Pointers + i * Pointers + j
  <2>1. /\ level = "double" /\ bytes_left > 0 /\ d # 0 /\ i < Pointers /\ Pointer(d, i) # 0
        /\ j >= Pointers \/ Pointer(Pointer(d, i), j) = 0
        /\ j' = 0 /\ level' = level /\ i' = i + 1 /\ j <= Pointers
        /\ ptr' = ptr /\ bytes_left' = bytes_left /\ tmp' = tmp
    BY <1>10, <1>1 DEF EndInner, MoreDouble, MoreInner, Indirect, LoopOK
  <2>2. NextBlock = n /\ NextBlock' = Direct + Pointers + (i + 1) * Pointers + 0 /\ n \in Nat
    BY <2>1, <1>1 DEF NextBlock
  <2>3. ASSUME Dense(inode) PROVE j = Pointers
    <3>1. ASSUME j < Pointers PROVE FALSE
      <4>1. BlockOf(inode, n) = 0
        BY <2>1, <3>1, <1>1, DoubleBlock
      <4>2. ptr = n * Cells /\ ptr < inode.size
        BY <1>1, <1>2, <2>1, <2>2, <2>3
      <4>3. n >= Direct
        BY <1>1
      <4> HIDE DEF n
      <4> QED BY <4>1, <4>2, <4>3, <2>2, <2>3, <1>1, NoHole
    <3> QED BY <3>1, <2>1, <1>1
  <2>4. Dense(inode) => NextBlock' = n
    BY <2>2, <2>3, <1>1
  <2>5. Counted
    BY <2>1, <1>1, <1>2
  <2>6. Placed
    <3>1. Begun => Longer
      BY <2>1
    <3> HIDE DEF Begun, Longer, n
    <3> QED BY <3>1, <2>1, <2>2, <2>4, <1>2
  <2> QED BY <2>5, <2>6
<1>11. ASSUME EndDouble PROVE Counted /\ Placed
  <2> DEFINE d == inode.block[Direct + 1]
             n == Direct + Pointers + i * Pointers + j
  <2>1. /\ level = "double" /\ level' = "done" /\ tmp' = [tmp EXCEPT ![ptr] = NUL]
        /\ ptr' = ptr /\ bytes_left' = bytes_left /\ i <= Pointers /\ j <= Pointers
        /\ bytes_left > 0 => d = 0 \/ i >= Pointers \/ Pointer(d, i) = 0
        /\ j > 0 => d # 0 /\ i < Pointers /\ Pointer(d, i) # 0
    BY <1>11, <1>1 DEF EndDouble, MoreDouble, LoopOK
  <2>2. NextBlock = n /\ n \in Nat
    BY <2>1, <1>1 DEF NextBlock
  <2>3. Counted
    BY <2>1, <1>1, <1>2
  <2>4. ASSUME Dense(inode), bytes_left > 0 PROVE FALSE
    <3>1. j = 0
      BY <2>1, <2>4, <1>1
    <3>2. ptr = n * Cells /\ ptr < inode.size
      BY <1>1, <1>2, <2>2, <2>4
    <3>3. n >= Direct
      BY <1>1
    <3>4. BlockOf(inode, n) # 0 /\ n < Direct + Pointers + Pointers * Pointers
      <4> HIDE DEF n
      <4> QED BY <3>2, <3>3, <2>2, <2>4, <1>1, NoHole
    <3>5. i # Pointers
      BY <3>1, <3>4
    <3>6. j \in 0 .. Pointers - 1 /\ (d = 0 \/ Pointer(d, i) = 0)
      BY <2>1, <2>4, <3>1, <3>5, <1>1
    <3>7. BlockOf(inode, n) = 0
      BY <3>6, <1>1, DoubleBlock
    <3> QED BY <3>4, <3>7
  <2>5. Begun => Longer
    BY <2>1, <1>1
  <2>6. Placed
    <3> HIDE DEF Begun, Longer
    <3> QED BY <2>1, <2>4, <2>5, <1>2
  <2> QED BY <2>3, <2>6
<1>12. Counted /\ Placed
  <2> HIDE DEF Counted, Placed
  <2> QED BY <1>5, <1>6, <1>7, <1>8, <1>9, <1>10, <1>11 DEF ext2_read_file
<1>13. \A k : Pointer(inode.block[Direct + 1], k)' = Pointer(inode.block[Direct + 1], k)
  BY <1>3 DEF Pointer
<1>14. (\A a : CellOf(inode, a)' = CellOf(inode, a)) /\ Dense(inode)' = Dense(inode)
  BY <1>3, SameFile
<1> QED BY <1>3, <1>12, <1>13, <1>14 DEF LoopOK

-----------------------------------------------------------------------------
(* The invariant.                                                          *)

\* The node a lookup starts from is a directory that the disk names.
LEMMA NodeFacts ==
    ASSUME TypeOK, NodeOK, node # "NULL", Node.flags = "dir"
    PROVE  /\ Node.inode \in Named(disk) \ {0}
           /\ block_size # 0 => read_inode(Node.inode).mode = "dir"
<1>1. CASE node = "root"
  <2>1. Node.inode = ROOT /\ ROOT \in Named(disk) \ {0}
    BY <1>1 DEF Node, RootNode, Named, ROOT
  <2> QED BY <2>1, InodeFacts
<1>2. CASE node = "child"
  <2>1. Node = child
    BY <1>2 DEF Node
  <2> QED BY <1>2, <2>1 DEF NodeOK
<1> QED BY <1>1, <1>2 DEF TypeOK

LEMMA InvInit == Init => Inv
<1> SUFFICES ASSUME Init PROVE Inv
  OBVIOUS
<1>1. NoInode \in Inode /\ NoInode.size < Room
  BY SizesAssumption DEF NoInode, Inode
<1>2. TypeOK
  BY <1>1, SizesAssumption DEF Init, Ext2Init, TypeOK, Nodes, NoInode
<1>3. NodeOK /\ LoopOK /\ PathOK
  BY DEF Init, Ext2Init, NodeOK, LoopOK, PathOK
<1> QED BY <1>2, <1>3 DEF Inv

\* Every step keeps the nodes and the reader in order.
LEMMA OrderNext == Inv /\ [Next]_vars => (TypeOK /\ NodeOK /\ LoopOK)'
<1> SUFFICES ASSUME Inv, [Next]_vars PROVE (TypeOK /\ NodeOK /\ LoopOK)'
  OBVIOUS
<1>0. TypeOK /\ NodeOK /\ LoopOK
  BY DEF Inv
<1> USE SizesAssumption
<1>1. CASE Mount
  <2>1. /\ pc = "boot" /\ pc' = "idle" /\ disk' = disk /\ UNCHANGED reader
        /\ UNCHANGED <<child, node, path, done, offset, count, buffer, result>>
        /\ sb' = disk[SUPERBLOCK]
        /\ \/ sb'.magic /\ bgd' = disk[DESCRIPTORS].groups[0] /\ block_size' = Cells
           \/ UNCHANGED <<bgd, block_size>>
    BY <1>1 DEF Mount, ext2_init
  <2>2. block_size = 0 /\ child.flags = "none" /\ node # "child"
    BY <1>0, <2>1 DEF NodeOK
  <2>3. TypeOK'
    BY <1>0, <2>1, <2>2 DEF TypeOK, reader
  <2>4. NodeOK' /\ LoopOK'
    BY <2>1, <2>2 DEF NodeOK, LoopOK
  <2> QED BY <2>3, <2>4
<1>2. ASSUME NEW p \in Paths, vfs_open(p) PROVE (TypeOK /\ NodeOK /\ LoopOK)'
  <2>1. TypeOK'
    BY <1>0, <1>2 DEF vfs_open, TypeOK, mount, reader
  <2>2. NodeOK'
    BY <1>0, <1>2 DEF vfs_open, NodeOK, mount, read_inode, InodeAt, Named
  <2>3. LoopOK'
    BY <1>2 DEF vfs_open, LoopOK
  <2> QED BY <2>1, <2>2, <2>3
<1>3. CASE DivideError
  <2>1. TypeOK' /\ LoopOK'
    BY <1>0, <1>3 DEF DivideError, TypeOK, LoopOK, mount, reader
  <2>2. NodeOK'
    BY <1>0, <1>3 DEF DivideError, NodeOK, mount, read_inode, InodeAt, Named
  <2> QED BY <2>1, <2>2
<1>4. CASE LookUp
  <2> DEFINE n == ext2_find_entry(Node.inode, path[done + 1])
  <2>1. /\ pc = "open" /\ done' = done + 1 /\ node # "NULL"
        /\ UNCHANGED <<mount, reader, path, offset, count, buffer, result>>
    BY <1>0, <1>4 DEF LookUp, NodeOK
  <2>2. CASE node' = "NULL" /\ pc' = "idle" /\ UNCHANGED child
    <3>1. TypeOK' /\ LoopOK'
      BY <1>0, <2>1, <2>2 DEF TypeOK, LoopOK, mount, reader
    <3>2. NodeOK'
      BY <1>0, <2>1, <2>2 DEF NodeOK, mount, read_inode, InodeAt, Named
    <3> QED BY <3>1, <3>2
  <2>3. CASE /\ Node.flags = "dir" /\ n # 0 /\ node' = "child" /\ pc' = pc
             /\ child' = [inode |-> n, size |-> read_inode(n).size, flags |-> read_inode(n).mode]
    <3>1. n \in Named(disk) \ {0} /\ block_size # 0
      BY <1>0, <2>1, <2>3, NodeFacts, FindFacts
    <3>2. read_inode(n) \in Inode
      BY <1>0, <3>1, InodeFacts
    <3>3. n \in Nat
      BY <1>0, <3>1, InodeFacts
    <3> HIDE DEF n
    <3>4. child' \in Nodes
      BY <2>3, <3>2, <3>3 DEF Inode, Nodes
    <3>5. TypeOK' /\ LoopOK'
      BY <1>0, <2>1, <2>3, <3>4 DEF TypeOK, LoopOK, mount, reader
    <3>6. NodeOK'
      BY <1>0, <2>1, <2>3, <3>1 DEF NodeOK, mount, read_inode, InodeAt, Named
    <3> QED BY <3>5, <3>6
  <2> QED BY <1>4, <2>2, <2>3 DEF LookUp, ext2_vfs_finddir
<1>5. CASE Opened
  <2>1. TypeOK' /\ LoopOK'
    BY <1>0, <1>5 DEF Opened, TypeOK, LoopOK, mount, reader
  <2>2. NodeOK'
    BY <1>0, <1>5 DEF Opened, NodeOK, mount, read_inode, InodeAt, Named
  <2> QED BY <2>1, <2>2
<1>6. CASE vfs_read_nothing
  <2>1. TypeOK' /\ LoopOK'
    BY <1>0, <1>6 DEF vfs_read_nothing, TypeOK, LoopOK, mount, reader
  <2>2. NodeOK'
    BY <1>0, <1>6 DEF vfs_read_nothing, NodeOK, mount, read_inode, InodeAt, Named
  <2> QED BY <2>1, <2>2
<1>7. ASSUME NEW o \in Offsets, NEW c \in Counts, vfs_read(o, c) PROVE (TypeOK /\ NodeOK /\ LoopOK)'
  <2>1. /\ node = "child" /\ Node = child /\ pc' = "read"
        /\ UNCHANGED <<mount, child, node, path, done, buffer, result, tmp>>
        /\ offset' = o /\ count' = c
        /\ inode' = read_inode(child.inode) /\ bytes_left' = inode'.size
        /\ ptr' = 0 /\ level' = "direct" /\ i' = 0 /\ j' = 0
    BY <1>0, <1>7 DEF vfs_read, StartReading, TypeOK, Node, RootNode
  <2>2. inode' \in Inode /\ inode'.size < Room
    BY <1>0, <2>1, InodeFacts DEF NodeOK
  <2>3. TypeOK'
    BY <1>0, <2>1, <2>2, ReadsAssumption DEF TypeOK, mount, Inode
  <2>4. NodeOK'
    BY <1>0, <2>1 DEF NodeOK, mount, read_inode, InodeAt, Named
  <2>5. LoopOK'
    BY <2>1, <2>2 DEF LoopOK, NextBlock, Inode
  <2> QED BY <2>3, <2>4, <2>5
<1>8. CASE ReadFile
  <2>1. pc = "read" /\ ext2_read_file /\ UNCHANGED calls
    BY <1>8 DEF ReadFile
  <2> QED BY <2>1, ReadFileTypes, LoopStep
<1>9. CASE ReadDone
  <2>1. Amount \in Nat
    BY <1>0, <1>9 DEF Amount, Node, TypeOK, Nodes, NodeOK, ReadDone
  <2>2. TypeOK' /\ LoopOK'
    BY <1>0, <1>9, <2>1 DEF ReadDone, TypeOK, LoopOK, mount
  <2>3. NodeOK'
    BY <1>0, <1>9 DEF ReadDone, NodeOK, mount, read_inode, InodeAt, Named
  <2> QED BY <2>2, <2>3
<1>10. CASE UNCHANGED vars
  <2>1. TypeOK'
    BY <1>0, <1>10 DEF TypeOK, vars, mount, reader, calls
  <2>2. NodeOK'
    BY <1>0, <1>10 DEF NodeOK, vars, mount, reader, calls, read_inode, InodeAt, Named
  <2>3. LoopOK'
    BY <1>0, <1>10 DEF LoopOK, vars, mount, reader, calls, NextBlock, Pointer, CellOf, Dense, BlockOf, BlocksOf
  <2> QED BY <2>1, <2>2, <2>3
<1> QED BY <1>1, <1>2, <1>3, <1>4, <1>5, <1>6, <1>7, <1>8, <1>9, <1>10 DEF Next

-----------------------------------------------------------------------------
(* The path.                                                               *)

\* A path leads from each of its names to the next one.
LEMMA AlongFacts ==
    ASSUME NEW p \in Seq(STRING)
    PROVE  \A k \in 1 .. Len(p) :
              Along(p)[k] = IF k = 1 THEN ROOT
                            ELSE IF Along(p)[k - 1] = 0 THEN 0
                            ELSE IF ~ IsDir(Along(p)[k - 1]) THEN 0
                            ELSE Child(Along(p)[k - 1], p[k])
<1> DEFINE Step(f, k) == IF k = 1 THEN ROOT
                         ELSE IF f[k - 1] = 0 THEN 0
                         ELSE IF ~ IsDir(f[k - 1]) THEN 0
                         ELSE Child(f[k - 1], p[k])
           Goes(f, n) == f = [k \in 1 .. n |-> Step(f, k)]
           S == {n \in Nat : \E f : Goes(f, n)}
<1>1. 0 \in S
  <2>1. Goes([k \in 1 .. 0 |-> 0], 0)
    OBVIOUS
  <2> QED BY <2>1
<1>2. ASSUME NEW n \in Nat, n \in S PROVE n + 1 \in S
  <2>1. PICK f : Goes(f, n)
    BY <1>2
  <2> DEFINE g == [k \in 1 .. n + 1 |-> IF k <= n THEN f[k] ELSE Step(f, n + 1)]
  <2>2. ASSUME NEW k \in 1 .. n + 1 PROVE g[k] = Step(g, k)
    <3>1. k # 1 => k - 1 \in 1 .. n /\ g[k - 1] = f[k - 1]
      OBVIOUS
    <3>2. Step(g, k) = Step(f, k)
      <4> HIDE DEF g
      <4> QED BY <3>1
    <3>3. g[k] = Step(f, k)
      <4>1. CASE k <= n
        <5>1. k \in 1 .. n /\ g[k] = f[k]
          BY <4>1
        <5> HIDE DEF g
        <5> QED BY <2>1, <5>1
      <4>2. CASE k = n + 1
        BY <4>2
      <4> QED BY <4>1, <4>2
    <3> QED BY <3>2, <3>3
  <2>3. g = [k \in 1 .. n + 1 |-> g[k]]
    OBVIOUS
  <2>4. Goes(g, n + 1)
    <3> HIDE DEF g, Step
    <3> QED BY <2>2, <2>3
  <2> HIDE DEF g, Goes
  <2> QED BY <2>4
<1>3. Len(p) \in S
  <2> HIDE DEF S
  <2> QED BY <1>1, <1>2, Induction
<1>4. Goes(Along(p), Len(p))
  <2>1. Along(p) = CHOOSE f : Goes(f, Len(p))
    BY DEF Along
  <2>2. \E f : Goes(f, Len(p))
    BY <1>3
  <2> HIDE DEF Goes
  <2> QED BY <2>1, <2>2
<1>5. \A k \in 1 .. Len(p) : Along(p)[k] = Step(Along(p), k)
  <2> HIDE DEF Step
  <2> QED BY <1>4
<1> QED BY <1>5

\* Once a path leads nowhere, so do its further names.
LEMMA NowhereStays ==
    ASSUME NEW p \in Seq(STRING), NEW k \in 1 .. Len(p), Along(p)[k] = 0
    PROVE  Along(p)[Len(p)] = 0
<1> DEFINE S == {n \in Nat : k + n <= Len(p) => Along(p)[k + n] = 0}
<1>1. 0 \in S
  OBVIOUS
<1>2. ASSUME NEW n \in Nat, n \in S PROVE n + 1 \in S
  <2> SUFFICES ASSUME k + (n + 1) <= Len(p) PROVE Along(p)[k + (n + 1)] = 0
    OBVIOUS
  <2>1. Along(p)[k + n] = 0
    BY <1>2
  <2>2. k + (n + 1) \in 1 .. Len(p) /\ k + (n + 1) # 1 /\ (k + (n + 1)) - 1 = k + n
    OBVIOUS
  <2> QED BY <2>1, <2>2, AlongFacts
<1>3. Nat \subseteq S
  <2> HIDE DEF S
  <2> QED BY <1>1, <1>2, Induction
<1>4. Len(p) - k \in S /\ k + (Len(p) - k) = Len(p)
  BY <1>3
<1> QED BY <1>4

\* A lookup that succeeds finds what the format says the name leads to; one
\* that fails is right if the directory has no second block.
LEMMA FindsChild ==
    ASSUME TypeOK, NEW n \in Named(disk) \ {0}, NEW name,
           block_size # 0, read_inode(n).mode = "dir", InFirstGroup(n)
    PROVE  /\ ext2_find_entry(n, name) # 0 => Child(n, name) = ext2_find_entry(n, name)
           /\ ext2_find_entry(n, name) = 0 /\ read_inode(n).size <= Cells =>
                 Child(n, name) = 0
<1> DEFINE ino      == read_inode(n)
           entries  == [k \in BlocksOf(ino) |-> disk[BlockOf(ino, k)].entries]
           match(k) == {e \in DOMAIN entries[k] :
                           entries[k][e].inode # 0 /\ entries[k][e].name = name}
           blocks   == {k \in DOMAIN entries : match(k) # {}}
           k1       == CHOOSE k \in blocks : \A l \in blocks : k <= l
           first(k) == CHOOSE e \in match(k) : \A f \in match(k) : e <= f
<1>1. /\ ino \in Inode /\ 0 \in BlocksOf(ino) /\ BlocksOf(ino) \subseteq Nat
      /\ entries[0] \in Seq(DirEntry) /\ entries[0] = disk[ino.block[0]].entries
      /\ DOMAIN entries = BlocksOf(ino)
  <2>1. BlockOf(ino, 0) = ino.block[0]
    BY SizesAssumption DEF BlockOf
  <2>2. ino \in Inode /\ ino.size > 0 /\ disk[ino.block[0]].entries \in Seq(DirEntry)
    BY InodeFacts
  <2>3. 0 \in BlocksOf(ino) /\ BlocksOf(ino) \subseteq Nat
    BY <2>2, SizesAssumption DEF BlocksOf, Inode
  <2> QED BY <2>1, <2>2, <2>3
<1>2. /\ ext2_find_entry(n, name) = IF match(0) = {} THEN 0 ELSE entries[0][first(0)].inode
      /\ Child(n, name) = IF blocks = {} THEN 0 ELSE entries[k1][first(k1)].inode
  <2> DEFINE ents == disk[ino.block[0]].entries
             mat  == {e \in DOMAIN ents : ents[e].inode # 0 /\ ents[e].name = name}
  <2>1. ext2_find_entry(n, name) =
          IF block_size = 0 \/ mat = {} THEN 0
          ELSE ents[CHOOSE e \in mat : \A f \in mat : e <= f].inode
    BY DEF ext2_find_entry
  <2>2. ents = entries[0] /\ mat = match(0)
    BY <1>1
  <2>3. Child(n, name) = IF blocks = {} THEN 0 ELSE entries[k1][first(k1)].inode
    <3>1. InodeOf(disk, n) = ino
      BY InodeFacts, FirstGroupInode
    <3> HIDE DEF ino
    <3> QED BY <3>1 DEF Child, FirstNamed
  <2> HIDE DEF ents, mat, entries, match, blocks, k1
  <2> QED BY <2>1, <2>2, <2>3
<1>3. CASE match(0) # {}
  <2>2. 0 \in blocks /\ blocks \subseteq Nat
    <3> HIDE DEF entries, match
    <3> QED BY <1>1, <1>3
  <2>3. k1 = 0
    <3>1. \E k \in blocks : \A l \in blocks : k <= l
      <4> HIDE DEF blocks
      <4> QED BY <2>2
    <3>2. k1 \in blocks /\ \A l \in blocks : k1 <= l
      <4> HIDE DEF blocks
      <4> QED BY <3>1
    <3> HIDE DEF k1, blocks
    <3> QED BY <2>2, <3>2
  <2>4. entries[0][first(0)].inode # 0
    <3>1. match(0) \subseteq Nat
      BY <1>1
    <3>2. first(0) \in match(0)
      <4>1. \E e \in match(0) : \A f \in match(0) : e <= f
        <5> HIDE DEF match
        <5> QED BY <1>3, <3>1, Least
      <4> HIDE DEF match
      <4> QED BY <4>1
    <3> HIDE DEF first
    <3> QED BY <3>2
  <2> HIDE DEF entries, match, k1, first, blocks
  <2> QED BY <1>2, <1>3, <2>2, <2>3, <2>4
<1>4. CASE match(0) = {}
  <2>1. ASSUME ino.size <= Cells PROVE blocks = {}
    <3>1. ASSUME NEW k \in BlocksOf(ino), k # 0 PROVE FALSE
      <4>1. k \in Nat /\ 1 <= k /\ k * Cells < ino.size /\ ino.size \in Nat
        BY <1>1, <3>1 DEF BlocksOf, Inode
      <4>2. 1 * Cells <= k * Cells /\ k * Cells \in Nat
        BY <4>1, SizesAssumption, Monotonic
      <4> QED BY <2>1, <4>1, <4>2, SizesAssumption
    <3> HIDE DEF match, entries
    <3> QED BY <1>1, <1>4, <3>1
  <2> HIDE DEF entries, match, k1, first, blocks
  <2> QED BY <1>2, <1>4, <2>1
<1> QED BY <1>3, <1>4

\* Where a path leads depends on the mounted disk only.
LEMMA SamePaths ==
    ASSUME UNCHANGED mount
    PROVE  /\ \A p : path' = p => Along(path)' = Along(p) /\ Target(path)' = Target(p)
           /\ \A p : path' = p => OneGroup(path)' = OneGroup(p)
           /\ OneBlock' = OneBlock
<1>1. \A n : /\ InodeOf(disk, n)' = InodeOf(disk, n) /\ IsDir(n)' = IsDir(n)
             /\ InFirstGroup(n)' = InFirstGroup(n)
  BY DEF mount, InodeOf, InodeAt, IsDir, InFirstGroup
<1>2. ASSUME NEW n, NEW name PROVE Child(n, name)' = Child(n, name)
  <2> DEFINE B == BlocksOf(InodeOf(disk, n))
             E == [k \in B |-> disk[BlockOf(InodeOf(disk, n), k)].entries]
  <2>1. B' = B
    BY <1>1 DEF BlocksOf
  <2>2. E' = E
    BY <2>1 DEF mount, InodeOf, InodeAt, BlockOf, Pointer
  <2>3. Child(n, name) = FirstNamed(E, name)
    BY DEF Child
  <2>4. Child(n, name)' = FirstNamed(E', name)
    BY DEF Child
  <2> HIDE DEF E
  <2> QED BY <2>2, <2>3, <2>4
<1>3. \A p : path' = p => Along(path)' = Along(p)
  BY <1>1, <1>2 DEF Along
<1>4. OneBlock' = OneBlock
  BY <1>1 DEF OneBlock, Named, mount
<1>5. \A p : path' = p => OneGroup(path)' = OneGroup(p)
  BY <1>1, <1>3 DEF OneGroup
<1> QED BY <1>3, <1>4, <1>5 DEF Target

LEMMA PathNext == Inv /\ [Next]_vars => PathOK'
<1> SUFFICES ASSUME Inv, [Next]_vars PROVE PathOK'
  OBVIOUS
<1>0. TypeOK /\ NodeOK /\ LoopOK /\ PathOK /\ path \in Seq(STRING)
  <2>1. <<>> \in Seq(STRING)
    OBVIOUS
  <2> QED BY <2>1, PathsAssumption DEF Inv, TypeOK
<1>1. CASE Mount
  BY <1>0, <1>1 DEF Mount, PathOK
<1>2. ASSUME NEW p \in Paths, vfs_open(p) PROVE PathOK'
  <2>1. /\ path' = p /\ done' = 1 /\ p \in Seq(STRING)
        /\ Along(path)' = Along(p) /\ Target(path)' = Target(p)
        /\ OneGroup(path)' = OneGroup(p)
    BY <1>2, PathsAssumption, SamePaths DEF vfs_open
  <2>2. CASE p # <<>> /\ p[1] = "/" /\ pc' = "open" /\ node' = "root"
    <3>1. Len(p) \in Nat /\ 1 <= Len(p)
      BY <2>1, <2>2
    <3>2. Along(p)[1] = ROOT /\ Node'.inode = ROOT
      BY <2>1, <2>2, <3>1, AlongFacts DEF Node, RootNode
    <3> QED BY <2>1, <2>2, <3>1, <3>2 DEF PathOK
  <2>3. CASE ~ (p # <<>> /\ p[1] = "/") /\ pc' = pc /\ node' = "NULL"
    <3>1. Target(p) = 0
      BY <2>3 DEF Target
    <3> QED BY <1>2, <2>1, <2>3, <3>1 DEF PathOK, vfs_open
  <2> QED BY <1>2, <2>2, <2>3 DEF vfs_open
<1>3. CASE DivideError
  BY <1>3 DEF DivideError, PathOK
<1>4. CASE LookUp
  <2> DEFINE n   == Node.inode
             new == ext2_find_entry(n, path[done + 1])
  <2>1. /\ pc = "open" /\ done' = done + 1 /\ path' = path /\ node # "NULL"
        /\ done \in 1 .. Len(path) /\ done < Len(path) /\ path # <<>> /\ path[1] = "/"
        /\ UNCHANGED mount
    BY <1>0, <1>4 DEF LookUp, NodeOK, PathOK
  <2>2. /\ Along(path)' = Along(path) /\ Target(path)' = Target(path)
        /\ OneBlock' = OneBlock /\ block_size' = block_size /\ OneGroup(path)' = OneGroup(path)
    BY <2>1, SamePaths DEF mount
  <2>3. done + 1 \in 1 .. Len(path) /\ done + 1 # 1 /\ (done + 1) - 1 = done
    BY <1>0, <2>1
  <2>4. ASSUME block_size # 0, OneGroup(path) PROVE n = Along(path)[done] /\ InFirstGroup(n)
    BY <1>0, <2>1, <2>4 DEF PathOK, OneGroup
  <2>5. ASSUME block_size # 0, OneGroup(path), n \in Named(disk) \ {0}
        PROVE  InodeOf(disk, n) = read_inode(n)
    BY <1>0, <2>4, <2>5, InodeFacts, FirstGroupInode
  <2>6. CASE /\ Node.flags = "dir" /\ new # 0 /\ node' = "child" /\ pc' = pc
             /\ child' = [inode |-> new, size |-> read_inode(new).size,
                          flags |-> read_inode(new).mode]
    <3>1. Node'.inode = new
      BY <2>6 DEF Node
    <3>2. ASSUME block_size # 0, OneGroup(path) PROVE new = Along(path)[done + 1]
      <4>1. /\ n \in Named(disk) \ {0} /\ read_inode(n).mode = "dir"
            /\ n = Along(path)[done] /\ InFirstGroup(n) /\ IsDir(n)
        BY <1>0, <2>1, <2>6, <2>4, <2>5, <3>2, NodeFacts DEF IsDir
      <4>2. new = Child(n, path[done + 1])
        BY <1>0, <2>6, <3>2, <4>1, FindsChild
      <4> HIDE DEF new, n
      <4> QED BY <1>0, <2>3, <4>1, <4>2, AlongFacts
    <3> HIDE DEF new
    <3> QED BY <2>1, <2>2, <2>3, <2>6, <3>1, <3>2 DEF PathOK
  <2>7. CASE node' = "NULL" /\ pc' = "idle" /\ (Node.flags # "dir" \/ new = 0)
    <3>1. ASSUME block_size # 0, OneBlock, OneGroup(path) PROVE Target(path) = 0
      <4>1. n = Along(path)[done] /\ InFirstGroup(n)
        BY <2>4, <3>1
      <4>2. CASE Node.flags # "dir"
        <5>1. node = "child" /\ Node = child
          BY <1>0, <2>1, <4>2 DEF TypeOK, Node, RootNode
        <5>2. n \in Named(disk) \ {0} /\ read_inode(n).mode # "dir"
          BY <1>0, <4>2, <5>1 DEF NodeOK
        <5>3. ~ IsDir(n)
          BY <2>5, <3>1, <5>2 DEF IsDir
        <5> HIDE DEF n
        <5>4. Along(path)[done + 1] = 0
          BY <1>0, <2>3, <4>1, <5>3, AlongFacts
        <5> QED BY <1>0, <2>1, <2>3, <5>4, NowhereStays DEF Target
      <4>3. CASE Node.flags = "dir"
        <5>1. n \in Named(disk) \ {0} /\ read_inode(n).mode = "dir"
          BY <1>0, <2>1, <3>1, <4>3, NodeFacts
        <5>2. read_inode(n).size <= Cells
          <6>1. InodeOf(disk, n) = read_inode(n)
            BY <2>5, <3>1, <5>1
          <6> HIDE DEF n
          <6> QED BY <3>1, <5>1, <6>1 DEF OneBlock, IsDir
        <5>3. Child(n, path[done + 1]) = 0
          BY <1>0, <2>7, <3>1, <4>1, <4>3, <5>1, <5>2, FindsChild
        <5> HIDE DEF n
        <5>4. Along(path)[done + 1] = 0
          BY <1>0, <2>3, <4>1, <5>3, AlongFacts
        <5> QED BY <1>0, <2>1, <2>3, <5>4, NowhereStays DEF Target
      <4> QED BY <4>2, <4>3
    <3> QED BY <2>1, <2>2, <2>7, <3>1 DEF PathOK
  <2> QED BY <1>4, <2>6, <2>7 DEF LookUp, ext2_vfs_finddir
<1>5. CASE Opened
  <2>1. /\ pc = "open" /\ pc' = "idle" /\ done = Len(path)
        /\ UNCHANGED <<mount, path, node, child>>
    BY <1>5 DEF Opened
  <2>2. block_size # 0 /\ OneGroup(path) => Node.inode = Target(path)
    BY <1>0, <2>1 DEF PathOK, Target
  <2> QED BY <1>0, <2>1, <2>2, SamePaths DEF PathOK, NodeOK, Node, mount
<1>6. CASE \/ vfs_read_nothing \/ (\E o \in Offsets, c \in Counts : vfs_read(o, c))
           \/ ReadFile \/ ReadDone
  <2>1. /\ pc \in {"idle", "read"} /\ pc' \in {"idle", "read"}
        /\ UNCHANGED <<mount, path, node, child>>
    BY <1>6 DEF vfs_read_nothing, vfs_read, ReadFile, ReadDone, ext2_read_file, calls
  <2> QED BY <1>0, <2>1, SamePaths DEF PathOK, Node, mount
<1>7. CASE UNCHANGED vars
  <2>1. UNCHANGED mount /\ UNCHANGED <<pc, path, node, child, done>>
    BY <1>7 DEF vars, calls
  <2> QED BY <1>0, <2>1, SamePaths DEF PathOK, Node, mount
<1> QED BY <1>1, <1>2, <1>3, <1>4, <1>5, <1>6, <1>7 DEF Next

LEMMA InvNext == Inv /\ [Next]_vars => Inv'
BY OrderNext, PathNext DEF Inv

\* The nodes and the reader of vfs.c, ext2_vfs.c and ext2.c are always in
\* order: whatever has been copied of a file without a hole is its beginning.
THEOREM VfsInv == Spec => []Inv
BY InvInit, InvNext, PTL DEF Spec

-----------------------------------------------------------------------------
(* What vfs_read's caller may rely on.                                     *)

\* vfs_read returns the asked part of every file without a hole whose inode is
\* in the first block group, of any size and with any number of direct and indirect blocks.
THEOREM ReadsTheFile == Spec => ReadReturns
<1> DEFINE file == InodeOf(disk, child.inode)
           Returned ==
      /\ result' = IF file.size <= offset THEN 0
                   ELSE IF file.size <= offset + count THEN file.size - offset ELSE count
      /\ buffer' = [k \in 0 .. result' - 1 |-> CellOf(file, offset + k)]
<1>1. ASSUME Inv, ReadDone, InFirstGroup(child.inode), Dense(file) PROVE Returned
  <2>1. /\ pc = "read" /\ level = "done" /\ result' = Amount
        /\ buffer' = [k \in 0 .. Amount - 1 |-> tmp[offset + k]]
    BY <1>1 DEF ReadDone
  <2>2. TypeOK /\ NodeOK /\ LoopOK
    BY <1>1 DEF Inv
  <2>3. /\ ptr \in Nat /\ bytes_left \in Nat /\ offset \in Nat /\ count \in Nat
        /\ inode.size \in Nat /\ Node = child /\ child.size = inode.size
    BY <2>1, <2>2 DEF TypeOK, NodeOK, Node, Inode
  <2>4. file = inode
    <3>1. block_size # 0 /\ child.inode \in Named(disk) \ {0} /\ inode = read_inode(child.inode)
      BY <2>1, <2>2 DEF NodeOK
    <3> QED BY <1>1, <2>2, <3>1, InodeFacts, FirstGroupInode
  <2> HIDE DEF file
  <2>5. ptr = inode.size /\ \A a \in 0 .. ptr - 1 : tmp[a] = CellOf(inode, a)
    BY <1>1, <2>1, <2>2, <2>3, <2>4 DEF LoopOK
  <2>6. /\ Amount = IF inode.size <= offset THEN 0
                    ELSE IF inode.size <= offset + count THEN inode.size - offset ELSE count
        /\ Amount \in Nat
    BY <2>3 DEF Amount
  <2>7. \A k \in 0 .. Amount - 1 : offset + k \in 0 .. ptr - 1
    BY <2>3, <2>5, <2>6
  <2>8. \A k \in 0 .. Amount - 1 : tmp[offset + k] = CellOf(inode, offset + k)
    BY <2>5, <2>7
  <2> HIDE DEF Amount
  <2> QED BY <2>1, <2>6, <2>8, <2>4
<1>2. Inv /\ [Next]_vars => [ReadDone /\ InFirstGroup(child.inode) /\ Dense(file) => Returned]_vars
  <2> HIDE DEF file
  <2> QED BY <1>1
<1> QED BY <1>2, VfsInv, PTL DEF Spec, ReadReturns

\* On every disk and for every path through inodes of the first block group,
\* what vfs_open returned is the node of the
\* inode the path leads to, until the next vfs_open.
THEOREM OpensTheFile == Spec => []OpenFinds
<1>1. ASSUME Inv PROVE OpenFinds
  <2> SUFFICES ASSUME pc \in {"idle", "read"}, block_size # 0, path # <<>>, OneGroup(path)
               PROVE  /\ node # "NULL" => Node.inode = Target(path)
                      /\ node = "child" => /\ child.size = InodeOf(disk, child.inode).size
                                           /\ child.flags = InodeOf(disk, child.inode).mode
                      /\ node = "NULL" /\ OneBlock => Target(path) = 0
    BY DEF OpenFinds
  <2>1. TypeOK /\ NodeOK /\ PathOK
    BY <1>1 DEF Inv
  <2>2. /\ node # "NULL" => Node.inode = Target(path)
        /\ node = "NULL" /\ OneBlock => Target(path) = 0
    BY <2>1 DEF PathOK
  <2>3. ASSUME node = "child"
        PROVE  /\ child.size = InodeOf(disk, child.inode).size
               /\ child.flags = InodeOf(disk, child.inode).mode
    <3>1. /\ child.inode \in Named(disk) \ {0}
          /\ child.size = read_inode(child.inode).size
          /\ child.flags = read_inode(child.inode).mode
      BY <2>1, <2>3 DEF NodeOK
    <3>2. child.inode = Target(path) /\ child.inode # 0
      BY <2>2, <2>3, <3>1 DEF Node
    <3>3. path[1] = "/" /\ child.inode = Along(path)[Len(path)]
      BY <3>2 DEF Target
    <3>4. Len(path) \in 1 .. Len(path)
      BY <2>1, PathsAssumption DEF TypeOK
    <3>5. InFirstGroup(child.inode)
      BY <3>3, <3>4 DEF OneGroup
    <3> QED BY <2>1, <3>1, <3>5, InodeFacts, FirstGroupInode
  <2> QED BY <2>2, <2>3
<1> QED BY <1>1, VfsInv, PTL

\* Of the memory from tmp on, a read changes nothing but the file's cells and
\* the one behind them.
THEOREM WritesInFile == Spec => StaysInFile
<1> DEFINE Within == \A a \in DOMAIN tmp : tmp'[a] # tmp[a] => a <= inode.size
<1>1. ASSUME Inv, pc = "read", ext2_read_file PROVE Within
  <2>1. TypeOK /\ NodeOK /\ LoopOK
    BY <1>1 DEF Inv
  <2>2. /\ ptr \in Nat /\ bytes_left \in Nat /\ inode.size \in Nat
        /\ ptr + bytes_left = inode.size /\ DOMAIN tmp = 0 .. Room - 1
    BY <1>1, <2>1 DEF TypeOK, LoopOK, Inode
  <2>3. disk' = disk
    BY <1>1 DEF ext2_read_file, mount
  <2>4. ASSUME NEW b, Copy(b), bytes_left > 0 PROVE Within
    <3>1. /\ ptr' \in Nat /\ bytes_left' \in Nat /\ ptr' + bytes_left' = inode.size
          /\ \A a \in DOMAIN tmp : tmp'[a] # tmp[a] => ptr <= a /\ a < ptr'
      BY <1>1, <2>1, <2>2, <2>3, <2>4, CopyFacts
    <3>2. ptr' <= inode.size
      BY <2>2, <3>1
    <3>3. ASSUME NEW a \in DOMAIN tmp, tmp'[a] # tmp[a] PROVE a <= inode.size
      <4>1. a \in 0 .. Room - 1
        BY <2>2
      <4>2. a < ptr'
        BY <3>1, <3>3
      <4> QED BY <2>2, <3>1, <3>2, <4>1, <4>2, SizesAssumption
    <3> QED BY <3>3
  <2>5. CASE CopyDirect \/ CopySingle \/ CopyDouble
    BY <2>4, <2>5 DEF CopyDirect, MoreDirect, CopySingle, MoreSingle, CopyDouble, MoreDouble
  <2>6. CASE EndDouble
    BY <2>2, <2>6 DEF EndDouble
  <2>7. CASE EndDirect \/ EndSingle \/ EndInner
    BY <2>7 DEF EndDirect, EndSingle, EndInner
  <2> QED BY <1>1, <2>5, <2>6, <2>7 DEF ext2_read_file
<1>2. ASSUME Inv, [Next]_vars PROVE [Within]_vars
  <2>1. CASE ReadFile
    BY <1>1, <1>2, <2>1 DEF ReadFile
  <2>2. CASE UNCHANGED tmp
    BY <2>2
  <2>3. ReadFile \/ UNCHANGED tmp
    BY <1>2 DEF Next, Mount, ext2_init, vfs_open, DivideError, LookUp, Opened, vfs_read_nothing,
                vfs_read, StartReading, ReadDone, vars, reader
  <2> QED BY <2>1, <2>2, <2>3
<1> QED BY <1>2, VfsInv, PTL DEF Spec, StaysInFile

=============================================================================

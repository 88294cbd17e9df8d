----------------------------- MODULE LabFSProofs -----------------------------
(***************************************************************************)
(* Proofs about LabFS, for images, tables and command lines of any size,   *)
(* and whoever calls the tools: every variable keeps its type, and no      *)
(* block ever belongs to two inodes.                                       *)
(***************************************************************************)
EXTENDS LabFS, TLAPS

LEMMA OneOrTwo ==
    \A k \in Nat \ {0}, l \in {1, 2} : 0 .. l - 1 \cup {1} \subseteq 0 .. k - 1 \cup {1}
  OBVIOUS

USE SizesAssumption

-----------------------------------------------------------------------------
(* Types.                                                                  *)

\* A tool that runs was called; while it is mdir or mcopy, there is an inode
\* left for it.
Room ==
    /\ pc # "idle" => call \in Calls
    /\ pc \in {"data", "dir", "inodes"} => call \in Calls \ {Mkfs} /\ inode_count < MaxFiles
    /\ pc = "super" => inode_count < MaxFiles

\* What a user may call is a call.
LEMMA UserCalls == TypeOK => user.calls \subseteq Calls
  BY DEF TypeOK, Calls

LEMMA MkfsIsCall == TypeOK => Mkfs \in Calls
  BY CallsAssumption DEF TypeOK, Calls

\* A call that is not mkfs is mdir or mcopy, and has a path.
LEMMA ToolOf ==
    \A c \in Calls \ {Mkfs} :
        /\ c.tool \in {"mdir", "mcopy"} /\ c.path \in Seq(STRING) \ {<<>>}
        /\ c.tool = "mcopy" => Length[c.src] \in Nat
  <1> TAKE c \in Calls \ {Mkfs}
  <1>1. c \in CommandLine /\ c.tool # "mkfs" /\ c.path # <<>>
    BY CallsAssumption
  <1>2. c.tool \in {"mdir", "mcopy"} /\ c.path \in Seq(STRING)
    BY <1>1 DEF CommandLine
  <1>3. c.tool = "mcopy" => Length[c.src] \in Nat
    BY CallsAssumption, LengthAssumption
  <1> QED BY <1>1, <1>2, <1>3

LEMMA BlocksType == \A size \in Nat : Blocks(size) \in Nat
  <1> TAKE size \in Nat
  <1> DEFINE n == size + BlockCells - 1
  <1>1. n \in Nat /\ BlockCells \in Nat /\ BlockCells > 0
    OBVIOUS
  <1>2. n \div BlockCells \in Nat
    BY <1>1
  <1> QED BY <1>2 DEF Blocks

\* A write leaves every cell where it was.
LEMMA WriteType ==
    ASSUME NEW S, NEW new, Write(S, new)
    PROVE  DOMAIN disk' = Addresses
  BY DEF Write

LEMMA NewInodeType ==
    ASSUME TypeOK, Room, pc \in {"data", "dir", "inodes"}
    PROVE  NewInode \in Inode
  <1>1. CASE call.tool = "mdir"
    BY <1>1 DEF NewInode, Inode, TypeOK
  <1>2. CASE call.tool # "mdir"
    <2>1. Length[call.src] \in Nat
      BY <1>2, ToolOf DEF Room
    <2> QED BY <1>2, <2>1, BlocksType DEF NewInode, Inode, TypeOK
  <1> QED BY <1>1, <1>2

LEMMA NextBlockType ==
    ASSUME TypeOK, NEW c, NextBlock(c)
    PROVE  next_block' \in Nat
  BY DEF NextBlock, Ends, TypeOK, Inode, DATA_START

LEMMA BeginTypes ==
    ASSUME NEW c, NEW first, Begin(c, first)
    PROVE  pc' = first /\ call' = c /\ i' = 0 /\ DOMAIN sector0' \subseteq Nat
  <1>1. Block(0) \subseteq Nat
    BY DEF Block
  <1> QED BY <1>1 DEF Begin

LEMMA InitTypes == Init => TypeOK /\ Room
  BY UsersAssumption DEF Init, TypeOK, Room, Inode, NoInode, NONE

LEMMA NextTypes == TypeOK /\ Room /\ [Next]_vars => TypeOK' /\ Room'
  <1> SUFFICES ASSUME TypeOK, Room, [Next]_vars PROVE TypeOK' /\ Room'
    OBVIOUS
  <1>0. user' = user
    BY DEF Next, vars
  <1> USE <1>0
  <1>1. CASE Stamp
    BY <1>1, WriteType DEF Stamp, TypeOK, Room, tool
  <1>2. CASE mkfs
    BY <1>2, BeginTypes, MkfsIsCall DEF mkfs, TypeOK, Room, image, NONE
  <1>3. CASE FormatSuper
    BY <1>3, WriteType DEF FormatSuper, TypeOK, Room, tool, past
  <1>4. CASE FormatInodes
    BY <1>4 DEF FormatInodes, TypeOK, Room, tool, past, Inode, RootInode, NoInode, DATA_START
  <1>5. CASE FormatRoot
    BY <1>5, WriteType DEF FormatRoot, Return, TypeOK, Room, tool
  <1>6. ASSUME NEW c \in user.calls, mcopy(c) PROVE TypeOK' /\ Room'
    <2>1. c.tool = "mcopy" /\ Mkfs.tool = "mkfs"
      BY <1>6 DEF mcopy, Mkfs
    <2>2. c # Mkfs
      BY <2>1
    <2> QED BY <1>6, <2>2, UserCalls, NextBlockType, BeginTypes
        DEF mcopy, TableFull, TypeOK, Room, image, past
  <1>7. ASSUME NEW c \in user.calls, mdir(c) PROVE TypeOK' /\ Room'
    <2>1. c.tool = "mdir" /\ Mkfs.tool = "mkfs"
      BY <1>7 DEF mdir, Mkfs
    <2>2. c # Mkfs
      BY <2>1
    <2> QED BY <1>7, <2>2, UserCalls, NextBlockType, BeginTypes
        DEF mdir, TableFull, TypeOK, Room, image, past
  <1>8. ASSUME NEW c \in user.calls, mdir_exists(c) PROVE TypeOK' /\ Room'
    BY <1>8, UserCalls DEF mdir_exists, TypeOK, Room, image, tool
  <1>9. CASE WriteEmpty
    BY <1>9, WriteType DEF WriteEmpty, TypeOK, Room, tool, past
  <1>10. CASE WriteData
    <2>1. DOMAIN disk' = Addresses
      BY <1>10, WriteType DEF WriteData
    <2>2. i' \in Nat /\ pc' \in {"data", "dir"}
      BY <1>10 DEF WriteData, TypeOK
    <2> QED BY <1>10, <2>1, <2>2 DEF WriteData, TypeOK, Room, tool, past
  <1>11. CASE WriteDir
    <2>1. DOMAIN disk' = Addresses
      BY <1>11, WriteType DEF WriteDir
    <2> QED BY <1>11, <2>1 DEF WriteDir, TypeOK, Room, tool, past
  <1>12. CASE DirectoryFull
    BY <1>12 DEF DirectoryFull, TypeOK, Room, image, tool, past
  <1>13. CASE WriteInodes
    BY <1>13, NewInodeType DEF WriteInodes, NewInodes, TypeOK, Room, tool, past
  <1>14. CASE WriteSuper
    BY <1>14, WriteType DEF WriteSuper, Return, TypeOK, Room, tool
  <1>15. CASE Interrupt
    BY <1>15, UsersAssumption DEF Interrupt, TypeOK, Room, image, tool
  <1>16. CASE UNCHANGED vars
    BY <1>16 DEF vars, image, tool, past, TypeOK, Room
  <1> QED BY <1>1, <1>2, <1>3, <1>4, <1>5, <1>6, <1>7, <1>8, <1>9, <1>10, <1>11, <1>12,
             <1>13, <1>14, <1>15, <1>16 DEF Next

\* The image's tables keep their types: in particular the inode table never
\* overflows (mcopy.labfs.c:142, mdir.labfs.c:142).
THEOREM Types == Spec => []TypeOK
  <1>1. Spec => [](TypeOK /\ Room)
    BY InitTypes, NextTypes, PTL DEF Spec
  <1> QED BY <1>1, PTL

-----------------------------------------------------------------------------
(* Extents.  The block that mdir or mcopy picks lies behind every extent    *)
(* in use, and stays so: nothing else writes the table while the tool runs. *)

Behind ==
    \A n \in 0 .. inode_count - 1 :
        inodes[n].count # 0 => inodes[n].start + inodes[n].count <= next_block

\* The inode to be counted in next.
NextApart == \A n \in 0 .. inode_count - 1 : Extent(n) \cap Extent(inode_count) = {}

Order ==
    /\ pc \in {"data", "dir", "inodes"} => Behind
    /\ pc = "super" => NextApart

\* Fewer inodes in use, or as many, are as far apart.
LEMMA ApartStays ==
    ASSUME ExtentsApart, inodes' = inodes, inode_count \in Nat, inode_count' \in Nat,
           inode_count' = inode_count \/ (inode_count' \in {1, 2} /\ inode_count > 0)
    PROVE  ExtentsApart'
  <1>1. Used' \subseteq Used
    <2>1. CASE inode_count' = inode_count
      BY <2>1 DEF Used
    <2>2. CASE inode_count' \in {1, 2} /\ inode_count > 0
      <3>1. inode_count \in Nat \ {0}
        BY <2>2
      <3>2. 0 .. inode_count' - 1 \cup {1} \subseteq 0 .. inode_count - 1 \cup {1}
        BY <2>2, <3>1, OneOrTwo, Zenon
      <3> QED BY <3>2 DEF Used
    <2> QED BY <2>1, <2>2
  <1>2. \A n : Extent(n)' = Extent(n)
    BY DEF Extent
  <1> QED BY <1>1, <1>2 DEF ExtentsApart

\* mkfs leaves one extent.
LEMMA FormatApart ==
    ASSUME TypeOK, FormatInodes PROVE ExtentsApart'
  <1>1. inodes' = [n \in 0 .. MaxFiles - 1 |-> IF n = 0 THEN RootInode ELSE NoInode]
    BY DEF FormatInodes
  <1>2. Used' \subseteq 0 .. MaxFiles - 1
    BY DEF FormatInodes, Used, TypeOK
  <1>3. \A n \in Used' : n # 0 => Extent(n)' = {}
    BY <1>1, <1>2 DEF Extent, NoInode
  <1> QED BY <1>3 DEF ExtentsApart

\* What a tool finds to be the end is behind everything in use.
LEMMA BehindBegins ==
    ASSUME TypeOK, NEW c, NextBlock(c), UNCHANGED image PROVE Behind'
  <1> SUFFICES ASSUME NEW n \in 0 .. inode_count - 1, inodes[n].count # 0
               PROVE  inodes[n].start + inodes[n].count <= next_block'
    BY DEF Behind, image
  <1>1. inodes[n].start + inodes[n].count \in Ends(c)
    BY DEF Ends
  <1> QED BY <1>1 DEF NextBlock

LEMMA NewApart ==
    ASSUME TypeOK, Room, Behind, ExtentsApart, WriteInodes
    PROVE  ExtentsApart' /\ NextApart'
  <1> DEFINE N == inode_count
  <1>1. /\ N \in 1 .. MaxFiles - 1 /\ NewInode \in Inode /\ NewInode.start = next_block
        /\ inode_count' = N
    <2>1. NewInode \in Inode
      BY NewInodeType DEF WriteInodes
    <2>2. NewInode.start = next_block
      BY DEF NewInode
    <2> QED BY <2>1, <2>2 DEF TypeOK, Room, WriteInodes
  <1>2. \A n \in 0 .. MaxFiles - 1 : inodes'[n] = IF n = N THEN NewInode ELSE inodes[n]
    BY <1>1 DEF WriteInodes, NewInodes, TypeOK
  <1>3. \A n \in 0 .. MaxFiles - 1 : n # N => Extent(n)' = Extent(n)
    BY <1>2 DEF Extent
  <1>4. Extent(N)' = next_block .. next_block + NewInode.count - 1
    BY <1>1, <1>2 DEF Extent
  <1>5. \A n \in 0 .. N - 1 : Extent(n) \cap Extent(N)' = {}
    <2> SUFFICES ASSUME NEW n \in 0 .. N - 1, NEW b \in Extent(n), b \in Extent(N)'
                 PROVE  FALSE
      OBVIOUS
    <2>1. inodes[n] \in Inode
      BY <1>1 DEF TypeOK
    <2>2. b >= next_block /\ b \in Int
      BY <1>1, <1>4 DEF Inode, TypeOK
    <2>3. b \in inodes[n].start .. inodes[n].start + inodes[n].count - 1
      BY DEF Extent
    <2>4. inodes[n].count # 0
      BY <2>1, <2>3 DEF Inode
    <2>5. inodes[n].start + inodes[n].count <= next_block
      BY <2>4 DEF Behind
    <2>6. b < inodes[n].start + inodes[n].count
      BY <2>1, <2>3 DEF Inode
    <2>7. /\ next_block \in Int /\ b \in Int
          /\ inodes[n].start + inodes[n].count \in Int
      BY <2>1, <2>2 DEF Inode, TypeOK
    <2> QED BY <2>2, <2>5, <2>6, <2>7
  <1>6. NextApart'
    BY <1>1, <1>3, <1>5 DEF NextApart
  <1>7. ExtentsApart'
    <2> SUFFICES ASSUME NEW m \in Used', NEW n \in Used', m # n
                 PROVE  Extent(m)' \cap Extent(n)' = {}
      BY DEF ExtentsApart
    <2>1. Used' = Used /\ Used \subseteq 0 .. N
      BY <1>1 DEF Used
    <2>2. CASE m # N /\ n # N
      <3>1. m \in 0 .. MaxFiles - 1 /\ n \in 0 .. MaxFiles - 1
        BY <1>1, <2>1
      <3>2. Extent(m)' = Extent(m) /\ Extent(n)' = Extent(n)
        BY <1>3, <2>2, <3>1
      <3>3. Extent(m) \cap Extent(n) = {}
        BY <2>1 DEF ExtentsApart
      <3> QED BY <3>2, <3>3
    <2>3. CASE m = N
      BY <1>1, <1>3, <1>5, <2>1, <2>3
    <2>4. CASE n = N
      BY <1>1, <1>3, <1>5, <2>1, <2>4
    <2> QED BY <2>2, <2>3, <2>4
  <1> QED BY <1>6, <1>7

\* The inode that WriteSuper counts in is apart from the others.
LEMMA CountedApart ==
    ASSUME TypeOK, NextApart, ExtentsApart, WriteSuper
    PROVE  ExtentsApart'
  <1> SUFFICES ASSUME NEW m \in Used', NEW n \in Used', m # n
               PROVE  Extent(m)' \cap Extent(n)' = {}
    BY DEF ExtentsApart
  <1>1. inode_count \in Nat \ {0}
    BY DEF TypeOK
  <1>2. Used' = Used \cup {inode_count} /\ Used \subseteq 0 .. inode_count
    BY <1>1 DEF Used, WriteSuper
  <1>3. Extent(m)' = Extent(m) /\ Extent(n)' = Extent(n)
    BY DEF Extent, WriteSuper
  <1>4. CASE m \in Used /\ n \in Used
    BY <1>3, <1>4 DEF ExtentsApart
  <1>5. CASE m = inode_count
    BY <1>1, <1>2, <1>3, <1>5 DEF NextApart
  <1>6. CASE n = inode_count
    BY <1>1, <1>2, <1>3, <1>6 DEF NextApart
  <1> QED BY <1>2, <1>4, <1>5, <1>6

LEMMA InitApart == Init => ExtentsApart /\ Order
  <1> SUFFICES ASSUME Init PROVE ExtentsApart /\ Order
    OBVIOUS
  <1>1. \A n \in Used : Extent(n) = {}
    BY DEF Init, Used, Extent, NoInode
  <1> QED BY <1>1 DEF ExtentsApart, Init, Order

LEMMA NextOrder ==
    TypeOK /\ TypeOK' /\ Room /\ ExtentsApart /\ Order /\ [Next]_vars
        => ExtentsApart' /\ Order'
  <1> SUFFICES ASSUME TypeOK, TypeOK', Room, ExtentsApart, Order, [Next]_vars
               PROVE  ExtentsApart' /\ Order'
    OBVIOUS
  <1>0. inode_count \in Nat \ {0} /\ inode_count' \in Nat
    BY DEF TypeOK
  <1>1. ASSUME inodes' = inodes, inode_count' = inode_count, next_block' = next_block
        PROVE  ExtentsApart' /\ (Behind => Behind') /\ (NextApart => NextApart')
    BY <1>0, <1>1, ApartStays DEF Behind, NextApart, Extent
  <1>2. CASE Stamp
    BY <1>0, <1>2, ApartStays DEF Stamp, Order
  <1>3. CASE mkfs
    BY <1>0, <1>3, ApartStays DEF mkfs, Begin, image, Order
  <1>4. CASE FormatSuper
    BY <1>0, <1>4, ApartStays DEF FormatSuper, Order
  <1>5. CASE FormatInodes
    BY <1>5, FormatApart DEF FormatInodes, Order
  <1>6. CASE FormatRoot
    BY <1>1, <1>6 DEF FormatRoot, Return, tool, Order
  <1>7. ASSUME NEW c \in user.calls, mcopy(c) \/ mdir(c) PROVE ExtentsApart' /\ Order'
    <2>1. Behind'
      BY <1>7, BehindBegins DEF mcopy, mdir
    <2>2. ExtentsApart'
      BY <1>0, <1>7, ApartStays DEF mcopy, mdir, image
    <2>3. pc' \in {"data", "dir"}
      BY <1>7 DEF mcopy, mdir, Begin
    <2> QED BY <2>1, <2>2, <2>3 DEF Order
  <1>8. ASSUME NEW c \in user.calls, mdir_exists(c) PROVE ExtentsApart' /\ Order'
    BY <1>1, <1>8 DEF mdir_exists, image, tool, Order
  <1>9. CASE WriteEmpty \/ WriteData \/ WriteDir
    <2>1. pc \in {"data", "dir"} /\ pc' \in {"data", "dir", "inodes"}
      BY <1>9 DEF WriteEmpty, WriteData, WriteDir
    <2> QED BY <1>1, <1>9, <2>1 DEF WriteEmpty, WriteData, WriteDir, tool, Order
  <1>10. CASE DirectoryFull
    BY <1>1, <1>10 DEF DirectoryFull, image, tool, Order
  <1>11. CASE WriteInodes
    BY <1>11, NewApart DEF WriteInodes, Order
  <1>12. CASE WriteSuper
    BY <1>12, CountedApart DEF WriteSuper, Return, Order
  <1>13. CASE Interrupt
    BY <1>1, <1>13 DEF Interrupt, image, tool, Order
  <1>14. CASE UNCHANGED vars
    BY <1>1, <1>14 DEF vars, image, tool, Order
  <1> QED BY <1>2, <1>3, <1>4, <1>5, <1>6, <1>7, <1>8, <1>9, <1>10, <1>11, <1>12, <1>13,
             <1>14 DEF Next

\* However the tools are called, and wherever one is interrupted, no block
\* belongs to two inodes in use (mcopy.labfs.c:149-153, mdir.labfs.c:148-154).
THEOREM Apart == Spec => []ExtentsApart
  <1>1. Spec => [](TypeOK /\ Room)
    BY InitTypes, NextTypes, PTL DEF Spec
  <1>2. (TypeOK /\ Room) /\ (TypeOK /\ Room)' /\ ExtentsApart /\ Order /\ [Next]_vars
            => (ExtentsApart /\ Order)'
    BY NextOrder
  <1>3. Spec => [](ExtentsApart /\ Order)
    BY <1>1, <1>2, InitApart, PTL DEF Spec
  <1> QED BY <1>3, PTL

=============================================================================

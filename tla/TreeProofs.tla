------------------------------ MODULE TreeProofs ------------------------------
(***************************************************************************)
(* Proofs about what LabFS keeps for make and for a prudent user: the      *)
(* files and directories that the tools have reported stay readable under  *)
(* their paths, stage 2 finds what the tools find, LabFS implements        *)
(* FileStore, and what make has built is what the loaders load.  The       *)
(* inodes in use form a tree, in which every inode has one path; the tools *)
(* extend it by the call that runs, or by the call that was interrupted    *)
(* and is repeated.                                                        *)
(***************************************************************************)
EXTENDS BootChain, LabFSProofs, LeastNumbers, SequenceTheorems, FiniteSetTheorems

USE SizesAssumption

-----------------------------------------------------------------------------
(* The conditions.  A block of a directory has an entry left when one is   *)
(* looked for: elsewhere LABFS_MAX_DIRENTS reads and writes the blocks     *)
(* that follow.  And what is written lies in the blocks that are looked    *)
(* at.                                                                     *)

RoomLeft ==
    pc = "dir" /\ user.discipline # "any" =>
        \E e \in 0 .. PER_BLOCK - 1 : Unused(NewInodes[cur], e)

CellsOf(c) == IF c.tool = "mdir" THEN MaxFiles * EntryCells ELSE Length[c.src]

InImage ==
    pc \in {"data", "dir"} /\ user.discipline # "any" =>
        next_block * BlockCells + CellsOf(call) <= ImageBlocks * BlockCells

-----------------------------------------------------------------------------
(* The image as a tree: P gives every inode in use its path.               *)

InUse == 0 .. inode_count - 1
Dirs  == {n \in InUse : inodes[n].type = "dir"}
Slots == 0 .. PER_BLOCK - 1

From(n)         == inodes[n].start * BlockCells
IsName(x)       == "name" \in DOMAIN x
Leads(n, e, x, m) == NameAt(inodes[n], e) = Name(x) /\ IndexAt(inodes[n], e) = m

\* The call that runs, or that was interrupted: its entry may be there before
\* its inode is counted.
Target == IF pc = "idle" THEN torn.path ELSE call.path

Rooted(P) == inodes[0] = RootInode /\ P[0] = <<>>

Distinct(P) == \A m, n \in InUse : P[m] = P[n] => m = n

Placed ==
    \A n \in InUse :
        /\ inodes[n].start >= DATA_START
        /\ inodes[n].size <= inodes[n].count * BlockCells
        /\ From(n) + inodes[n].size <= ImageBlocks * BlockCells
        /\ inodes[n].type = "dir" =>
              inodes[n].count = 1 /\ From(n) + MaxFiles * EntryCells <= ImageBlocks * BlockCells

\* Every path has its entry, and every entry is of a path.
Entered(P) ==
    \A m \in InUse \ {0} :
        /\ P[m] # <<>>
        /\ \E n \in Dirs, e \in Slots : P[n] = Parent(P[m]) /\ Leads(n, e, Last(P[m]), m)

Followed(P) ==
    \A n \in Dirs, e \in Slots :
        IsName(NameAt(inodes[n], e)) =>
            LET m == IndexAt(inodes[n], e)
                p == Append(P[n], NameAt(inodes[n], e).name)
            IN  (m \in InUse \ {0} /\ P[m] = p) \/ (m = inode_count /\ p = Target)

\* Every path is of a call that is done, and every call has its path.
Called(P) ==
    \A m \in InUse \ {0} : \E d \in done : d.path = P[m] /\ (m \in Dirs \/ d.tool = "mcopy")

Kept(P) ==
    \A d \in done \ {Mkfs} : \E m \in InUse \ {0} :
        /\ P[m] = d.path
        /\ d.tool = "mdir" => m \in Dirs
        /\ d.tool = "mcopy" => Holds(m, d.src)

Tree(P) ==
    Rooted(P) /\ Distinct(P) /\ Placed /\ Entered(P) /\ Followed(P) /\ Called(P) /\ Kept(P)

-----------------------------------------------------------------------------
(* The tool that runs.                                                     *)

\* Its path is new, and not below a file.
Fresh(P) ==
    Target # <<>> => /\ \A d \in done : d.tool = "mcopy" => ~ Begins(d.path, Target)
                     /\ \A m \in InUse : P[m] # Target

\* What it has written so far: data, then an entry, then an inode.
Copied == IF pc = "data" THEN i * BlockCells ELSE Length[call.src]

Written ==
    /\ pc = "data" /\ call.tool = "mcopy" => i * BlockCells < Length[call.src]
    /\ pc \in {"data", "dir", "inodes", "super"} /\ call.tool = "mcopy" =>
          \A k \in 0 .. Copied - 1 : disk[next_block * BlockCells + k] = Data(call.src, k)
    /\ pc \in {"dir", "inodes", "super"} /\ call.tool = "mdir" =>
          \A k \in 0 .. MaxFiles * EntryCells - 1 : disk[next_block * BlockCells + k] = ZERO
    /\ pc \in {"inodes", "super"} =>
          /\ next_block * BlockCells + CellsOf(call) <= ImageBlocks * BlockCells
          /\ \E e \in Slots : Leads(cur, e, Last(call.path), inode_count)
    /\ pc = "super" => inodes[inode_count] = NewInode

Working(P) ==
    pc # "idle" => /\ cur \in Dirs /\ P[cur] = Parent(call.path)
                   /\ next_block > DATA_START
                   /\ Written

Grows(P) == Tree(P) /\ Fresh(P) /\ Working(P)

-----------------------------------------------------------------------------
(* What surrounds the tree.                                                *)

\* Names are only where some block has its entries.
AtSlot(a) == \E b \in 0 .. ImageBlocks, e \in Slots : a = b * BlockCells + e * EntryCells
NamesInSlots ==
    /\ \A a \in Addresses : IsName(disk[a]) => AtSlot(a)
    /\ DOMAIN sector0 \subseteq Block(0)
    /\ \A a \in DOMAIN sector0 : IsName(sector0[a]) => AtSlot(a)

\* What make calls is in its recipe.
Running == IF pc = "idle" THEN {} ELSE {call}
FromRecipe ==
    user.discipline = "make" =>
        \A c \in done \cup Running : \E n \in DOMAIN Recipe : c \in Recipe[n]

\* mkfs comes first, and leaves one inode.
Formats == {"format", "format_inodes", "format_root"}
Formatting ==
    /\ pc \in Formats => call = Mkfs /\ done = {}
    /\ pc \notin Formats \cup {"idle"} => call # Mkfs /\ Mkfs \in done
    /\ pc \in {"format_inodes", "format_root"} => inode_count = 1
    /\ pc = "format_root" => inodes[0] = RootInode
    /\ Mkfs \notin done => done = {}

Surroundings == NamesInSlots /\ FromRecipe /\ Formatting

Growing == \E P \in [InUse -> Seq(STRING)] : Grows(P)

Sound == user.discipline # "any" => Surroundings /\ (Mkfs \in done => Growing)

-----------------------------------------------------------------------------
(* Arithmetic of blocks and entries.                                       *)

\* Whole blocks do not overlap.
LEMMA BlocksInOrder ==
    ASSUME NEW a \in Nat, NEW b \in Nat, a < b
    PROVE  /\ a * BlockCells \in Nat /\ b * BlockCells \in Nat
           /\ a * BlockCells + BlockCells <= b * BlockCells
  <1>1. PICK d \in Nat : b = a + 1 + d
    <2>1. b - a - 1 \in Nat /\ b = a + 1 + (b - a - 1)
      OBVIOUS
    <2> QED BY <2>1
  <1>2. b * BlockCells = a * BlockCells + BlockCells + d * BlockCells
    BY <1>1
  <1>3. d * BlockCells \in Nat /\ a * BlockCells \in Nat
    OBVIOUS
  <1> QED BY <1>2, <1>3

\* Neither do entries, in one directory.
LEMMA EntriesInOrder ==
    ASSUME NEW e \in Nat, NEW f \in Nat, e < f
    PROVE  /\ e * EntryCells \in Nat /\ f * EntryCells \in Nat
           /\ e * EntryCells + EntryCells <= f * EntryCells
  <1>1. PICK d \in Nat : f = e + 1 + d
    <2>1. f - e - 1 \in Nat /\ f = e + 1 + (f - e - 1)
      OBVIOUS
    <2> QED BY <2>1
  <1>2. f * EntryCells = e * EntryCells + EntryCells + d * EntryCells
    BY <1>1
  <1>3. d * EntryCells \in Nat /\ e * EntryCells \in Nat
    OBVIOUS
  <1> QED BY <1>2, <1>3

LEMMA PerBlock ==
    /\ PER_BLOCK \in Nat /\ PER_BLOCK * EntryCells <= BlockCells
    /\ Slots \subseteq Entries /\ Entries \subseteq Nat
  <1>1. PER_BLOCK \in Nat /\ PER_BLOCK * EntryCells <= BlockCells
    BY DEF PER_BLOCK
  <1> QED BY <1>1, LayoutAssumption DEF Slots, Entries

\* An entry that counts lies in its directory's block.
LEMMA SlotInBlock ==
    ASSUME NEW e \in Slots
    PROVE  /\ e * EntryCells \in Nat
           /\ e * EntryCells + EntryCells <= BlockCells
           /\ e * EntryCells + EntryCells <= MaxFiles * EntryCells
  <1>1. e \in Nat /\ PER_BLOCK \in Nat /\ e < PER_BLOCK /\ e < MaxFiles
    BY PerBlock DEF Slots, Entries
  <1> QED BY <1>1, EntriesInOrder, PerBlock

\* Where the cells of an entry lie which is o cells behind the start s of a
\* directory's block, and which other entries they miss.
LEMMA EntryCellsLie ==
    ASSUME NEW s \in Nat, NEW o \in Nat, NEW a, NEW z, a = s + o, z = s + o + EntryCells - 1
    PROVE  /\ a \in Nat /\ z \in Nat /\ s <= a /\ a <= z
           /\ o + EntryCells <= BlockCells => z < s + BlockCells
           /\ \A g \in Nat : s + o + EntryCells <= s + g \/ s + g + EntryCells <= s + o
                                => s + g < a \/ s + g > z
  BY SizesAssumption

\* Two starts of entries in blocks are the same, or entries apart.
LEMMA SlotsApart ==
    ASSUME NEW e \in Nat, NEW f \in Nat, e # f, NEW s \in Nat
    PROVE  \/ s + e * EntryCells + EntryCells <= s + f * EntryCells
           \/ s + f * EntryCells + EntryCells <= s + e * EntryCells
  <1>1. CASE e < f
    BY <1>1, EntriesInOrder
  <1>2. CASE f < e
    BY <1>2, EntriesInOrder
  <1> QED BY <1>1, <1>2

\* A name that the tools read as the entry of a directory is in its block.
LEMMA NameInSlot ==
    ASSUME NEW s \in Nat, NEW e \in Entries, AtSlot(s * BlockCells + e * EntryCells)
    PROVE  e \in Slots
  <1> SUFFICES ASSUME e \notin Slots PROVE FALSE
    OBVIOUS
  <1>1. PICK b \in 0 .. ImageBlocks, f \in Slots :
            s * BlockCells + e * EntryCells = b * BlockCells + f * EntryCells
    BY DEF AtSlot
  <1>2. e \in Nat /\ f \in Nat /\ b \in Nat /\ f < e /\ e - f \in 1 .. MaxFiles - 1
    BY PerBlock DEF Slots, Entries
  <1>3. (e - f) * EntryCells > 0
    BY <1>2, EntriesInOrder
  <1>4. (e - f) * EntryCells = e * EntryCells - f * EntryCells
    BY <1>2
  <1>5. s < b
    <2>1. CASE b < s
      BY <1>1, <1>2, <1>3, <1>4, <2>1, BlocksInOrder
    <2>2. CASE b = s
      BY <1>1, <1>2, <1>3, <1>4, <2>2
    <2> QED BY <1>2, <2>1, <2>2
  <1>6. (b - s) * BlockCells = b * BlockCells - s * BlockCells
    BY <1>2
  <1>7. b - s \in 1 .. ImageBlocks /\ (b - s) * BlockCells = (e - f) * EntryCells
    <2>1. /\ s * BlockCells \in Int /\ b * BlockCells \in Int
          /\ e * EntryCells \in Int /\ f * EntryCells \in Int
      BY <1>2
    <2>2. b * BlockCells - s * BlockCells = e * EntryCells - f * EntryCells
      BY <1>1, <2>1
    <2> QED BY <1>2, <1>4, <1>5, <1>6, <2>2
  <1> QED BY <1>2, <1>7, LayoutAssumption

-----------------------------------------------------------------------------
(* Cells and paths.                                                        *)

LEMMA CellKinds ==
    /\ ~ IsName(ZERO)
    /\ \A n : ~ IsName(Index(n)) /\ Index(n) # ZERO /\ Index(n).idx = n /\ "idx" \in DOMAIN Index(n)
    /\ \A f, k : ~ IsName(Data(f, k))
    /\ \A k : ~ IsName(Code(k))
    /\ \A x : IsName(Name(x)) /\ Name(x) # ZERO /\ Name(x).name = x
  BY DEF IsName, ZERO, Index, Data, Code, Name

\* A path that is not empty is its parent's, and one name more.
LEMMA PathSplit ==
    ASSUME NEW p \in Seq(STRING), p # <<>>
    PROVE  /\ Len(p) \in Nat \ {0} /\ Parent(p) \in Seq(STRING)
           /\ Len(Parent(p)) = Len(p) - 1
           /\ \A k \in 1 .. Len(p) - 1 : Parent(p)[k] = p[k]
           /\ p = Append(Parent(p), Last(p))
  <1>1. Len(p) \in Nat \ {0}
    OBVIOUS
  <1>2. /\ Parent(p) \in Seq(STRING) /\ Len(Parent(p)) = Len(p) - 1
        /\ \A k \in 1 .. Len(p) - 1 : Parent(p)[k] = p[k]
    <2>1. \A k \in 1 .. Len(p) - 1 : p[k] \in STRING
      BY <1>1
    <2> DEFINE l == Len(p) - 1
    <2>2. l \in Int /\ 1 \in Int /\ \A k \in 1 .. l : p[k] \in STRING
      BY <1>1, <2>1
    <2>3. /\ SubSeq(p, 1, l) \in Seq(STRING)
          /\ Len(SubSeq(p, 1, l)) = IF 1 <= l THEN l - 1 + 1 ELSE 0
          /\ \A k \in 1 .. l - 1 + 1 : SubSeq(p, 1, l)[k] = p[1 + k - 1]
      <3> HIDE DEF l
      <3> QED BY <2>2, SubSeqProperties
    <2>4. l >= 0 /\ l - 1 + 1 = l /\ \A k \in 1 .. l : 1 + k - 1 = k
      BY <1>1
    <2> QED BY <2>3, <2>4 DEF Parent
  <1>3. p = Append(Parent(p), Last(p))
    <2> DEFINE q == Append(Parent(p), Last(p))
    <2>1. Last(p) \in STRING
      BY <1>1 DEF Last
    <2>2. q \in Seq(STRING) /\ Len(q) = Len(p)
      BY <1>1, <1>2, <2>1
    <2>3. \A k \in 1 .. Len(p) : q[k] = p[k]
      BY <1>1, <1>2, <2>1 DEF Last
    <2>4. p = q
      <3> HIDE DEF q
      <3> QED BY <2>2, <2>3, SeqEqual
    <2> QED BY <2>4
  <1> QED BY <1>1, <1>2, <1>3

\* And no other path is that.
LEMMA AppendSplit ==
    ASSUME NEW p \in Seq(STRING), NEW q \in Seq(STRING), NEW x, Append(q, x) = p
    PROVE  p # <<>> /\ q = Parent(p) /\ x = Last(p)
  <1>1. Len(p) = Len(q) + 1 /\ p[Len(p)] = x /\ \A k \in 1 .. Len(q) : p[k] = q[k]
    OBVIOUS
  <1>2. p # <<>>
    BY <1>1
  <1>3. q = Parent(p)
    <2>1. /\ Parent(p) \in Seq(STRING) /\ Len(Parent(p)) = Len(p) - 1
          /\ \A k \in 1 .. Len(p) - 1 : Parent(p)[k] = p[k]
      BY <1>2, PathSplit
    <2>2. Len(q) \in Nat /\ Len(p) - 1 = Len(q)
      BY <1>1
    <2>3. Len(q) = Len(Parent(p)) /\ \A k \in 1 .. Len(q) : q[k] = Parent(p)[k]
      BY <1>1, <2>1, <2>2
    <2> QED BY <2>1, <2>3, SeqEqual
  <1> QED BY <1>1, <1>2, <1>3 DEF Last

\* What begins a path's parent begins the path; a path does not begin its parent.
LEMMA BeginsParent ==
    ASSUME NEW p \in Seq(STRING), p # <<>>, NEW q \in Seq(STRING)
    PROVE  Begins(q, Parent(p)) => Begins(q, p) /\ q # p
  <1> SUFFICES ASSUME Begins(q, Parent(p)) PROVE Begins(q, p) /\ q # p
    OBVIOUS
  <1>1. Len(q) <= Len(p) - 1 /\ \A n \in DOMAIN q : q[n] = Parent(p)[n]
    BY PathSplit DEF Begins
  <1>2. \A n \in DOMAIN q : n \in 1 .. Len(p) - 1
    BY <1>1, PathSplit
  <1>3. \A n \in DOMAIN q : q[n] = p[n]
    BY <1>1, <1>2, PathSplit
  <1> QED BY <1>1, <1>3, PathSplit DEF Begins

\* The tools follow a path name by name.
WalkAlong(path, w, k) ==
    IF k = 0 THEN 0
    ELSE [n \in -1 .. MaxFiles - 1 |-> IF n = NONE THEN NONE
                                       ELSE find_in_dir(n, path[k])][w[k - 1]]

LEMMA WalkFacts ==
    ASSUME NEW p \in Seq(STRING)
    PROVE  \E w : /\ Lookup(p) = w[Len(p)]
                  /\ \A k \in 0 .. Len(p) : w[k] = WalkAlong(p, w, k)
<1> DEFINE Goes(f, n) == f = [k \in 0 .. n |-> WalkAlong(p, f, k)]
           S == {n \in Nat : \E f : Goes(f, n)}
<1>1. 0 \in S
  <2> DEFINE f == [k \in 0 .. 0 |-> 0]
  <2>1. \A k \in 0 .. 0 : WalkAlong(p, f, k) = 0
    BY DEF WalkAlong
  <2>2. Goes(f, 0)
    <3> HIDE DEF WalkAlong
    <3> QED BY <2>1
  <2> QED BY <2>2
<1>2. ASSUME NEW n \in Nat, n \in S PROVE n + 1 \in S
  <2>1. PICK f : Goes(f, n)
    BY <1>2
  <2> DEFINE g == [k \in 0 .. n + 1 |-> IF k <= n THEN f[k] ELSE WalkAlong(p, f, n + 1)]
  <2>2. ASSUME NEW k \in 0 .. n + 1 PROVE g[k] = WalkAlong(p, g, k)
    <3>1. k # 0 => k - 1 \in 0 .. n /\ g[k - 1] = f[k - 1]
      OBVIOUS
    <3>2. WalkAlong(p, g, k) = WalkAlong(p, f, k)
      <4> HIDE DEF g
      <4> QED BY <3>1 DEF WalkAlong
    <3>3. g[k] = WalkAlong(p, f, k)
      <4>1. CASE k <= n
        <5>1. k \in 0 .. n /\ g[k] = f[k]
          BY <4>1
        <5> HIDE DEF g
        <5> QED BY <2>1, <5>1
      <4>2. CASE k = n + 1
        BY <4>2
      <4> QED BY <4>1, <4>2
    <3> QED BY <3>2, <3>3
  <2>3. g = [k \in 0 .. n + 1 |-> g[k]]
    OBVIOUS
  <2>4. Goes(g, n + 1)
    <3> HIDE DEF g
    <3> QED BY <2>2, <2>3
  <2> HIDE DEF g, Goes
  <2> QED BY <2>4
<1>3. Len(p) \in S
  <2> HIDE DEF S
  <2> QED BY <1>1, <1>2, Induction
<1> DEFINE w == CHOOSE f : Goes(f, Len(p))
<1>4. Goes(w, Len(p))
  <2>1. \E f : Goes(f, Len(p))
    BY <1>3
  <2> HIDE DEF Goes
  <2> QED BY <2>1
<1>5. \A k \in 0 .. Len(p) : w[k] = WalkAlong(p, w, k)
  <2> HIDE DEF w
  <2> QED BY <1>4
<1>6. Lookup(p) = w[Len(p)]
  BY DEF Lookup, WalkAlong
<1> HIDE DEF w
<1> QED BY <1>5, <1>6

\* A path that is not empty is followed from where its parent leads.
LEMMA LookupStep ==
    ASSUME NEW p \in Seq(STRING), p # <<>>, Lookup(Parent(p)) \in -1 .. MaxFiles - 1
    PROVE  Lookup(p) = IF Lookup(Parent(p)) = NONE THEN NONE
                       ELSE find_in_dir(Lookup(Parent(p)), Last(p))
<1>1. PICK w : /\ Lookup(p) = w[Len(p)]
               /\ \A k \in 0 .. Len(p) : w[k] = WalkAlong(p, w, k)
  BY WalkFacts
<1>2. PICK v : /\ Lookup(Parent(p)) = v[Len(p) - 1]
               /\ \A k \in 0 .. Len(p) - 1 : v[k] = WalkAlong(Parent(p), v, k)
  <2>1. Parent(p) \in Seq(STRING) /\ Len(Parent(p)) = Len(p) - 1
    BY PathSplit
  <2> QED BY <2>1, WalkFacts
<1> DEFINE S == {n \in Nat : n <= Len(p) - 1 => w[n] = v[n]}
<1>3. 0 \in S
  <2>1. Len(p) \in Nat \ {0}
    BY PathSplit
  <2>2. 0 \in 0 .. Len(p) /\ 0 \in 0 .. Len(p) - 1
    BY <2>1
  <2>3. w[0] = WalkAlong(p, w, 0) /\ v[0] = WalkAlong(Parent(p), v, 0)
    BY <1>1, <1>2, <2>2
  <2>4. w[0] = 0 /\ v[0] = 0
    BY <2>3 DEF WalkAlong
  <2> QED BY <2>4
<1>4. ASSUME NEW n \in Nat, n \in S PROVE n + 1 \in S
  <2> SUFFICES ASSUME n + 1 <= Len(p) - 1 PROVE w[n + 1] = v[n + 1]
    OBVIOUS
  <2>0. Len(p) \in Nat
    BY PathSplit
  <2>1. w[n] = v[n] /\ n + 1 \in 0 .. Len(p) /\ n + 1 \in 0 .. Len(p) - 1 /\ n + 1 # 0
    BY <1>4, <2>0
  <2>2. Parent(p)[n + 1] = p[n + 1] /\ (n + 1) - 1 = n
    BY <2>0, PathSplit
  <2>3. w[n + 1] = WalkAlong(p, w, n + 1) /\ v[n + 1] = WalkAlong(Parent(p), v, n + 1)
    BY <1>1, <1>2, <2>1
  <2>4. WalkAlong(p, w, n + 1) = WalkAlong(Parent(p), v, n + 1)
    BY <2>1, <2>2 DEF WalkAlong
  <2> QED BY <2>3, <2>4
<1>5. Len(p) - 1 \in Nat /\ Len(p) - 1 \in S
  <2>1. Nat \subseteq S
    <3> HIDE DEF S
    <3> QED BY <1>3, <1>4, Induction
  <2> QED BY <2>1, PathSplit
<1>6. w[Len(p) - 1] = Lookup(Parent(p))
  BY <1>2, <1>5
<1>7. Len(p) \in 0 .. Len(p) /\ Len(p) # 0
  BY PathSplit
<1>8. Lookup(p) = WalkAlong(p, w, Len(p))
  BY <1>1, <1>7
<1> QED BY <1>6, <1>7, <1>8 DEF WalkAlong, Last

LEMMA LookupRoot == Lookup(<<>>) = 0
<1>1. PICK p \in Seq(STRING) : p = <<>>
  <2>1. <<>> \in Seq(STRING)
    BY EmptySeq
  <2> QED BY <2>1, Zenon
<1>2. PICK w : Lookup(p) = w[Len(p)] /\ \A k \in 0 .. Len(p) : w[k] = WalkAlong(p, w, k)
  BY WalkFacts
<1>3. Len(p) = 0
  BY <1>1
<1>4. w[0] = WalkAlong(p, w, 0)
  BY <1>2, <1>3
<1> QED BY <1>1, <1>2, <1>3, <1>4 DEF WalkAlong

\* What find_in_dir finds is the index of the first entry with the name.
LEMMA FirstFound ==
    ASSUME NEW n, NEW x, inodes[n].count # 0,
           NEW e \in Entries, NameAt(inodes[n], e) = Name(x)
    PROVE  \E f \in Entries : /\ f <= e /\ NameAt(inodes[n], f) = Name(x)
                              /\ find_in_dir(n, x) = IndexAt(inodes[n], f)
<1> DEFINE named(f) == NameAt(inodes[n], f) = Name(x)
           S == {f \in Entries : named(f)}
           first == CHOOSE f \in Entries : named(f) /\ \A g \in 0 .. f - 1 : ~ named(g)
<1>1. PICK f \in S : \A g \in S : f <= g
  <2>1. S # {} /\ S \subseteq Nat
    BY PerBlock
  <2> HIDE DEF S
  <2> QED BY <2>1, Least
<1>2. \A g \in 0 .. f - 1 : ~ named(g)
  <2>1. \A g \in 0 .. f - 1 : g \in Entries /\ ~ (f <= g)
    BY DEF Entries
  <2> QED BY <1>1, <2>1
<1>3. first \in Entries /\ named(first) /\ \A g \in 0 .. first - 1 : ~ named(g)
  <2>1. \E h \in Entries : named(h) /\ \A g \in 0 .. h - 1 : ~ named(g)
    BY <1>2
  <2> HIDE DEF named
  <2> QED BY <2>1
<1>4. first <= e
  <2> SUFFICES ASSUME ~ (first <= e) PROVE FALSE
    OBVIOUS
  <2>1. e \in 0 .. first - 1
    <3> HIDE DEF first
    <3> QED BY <1>3 DEF Entries
  <2> HIDE DEF first
  <2> QED BY <1>3, <2>1
<1>5. find_in_dir(n, x) = IndexAt(inodes[n], first)
  <2>1. ~ (inodes[n].count = 0 \/ \A g \in Entries : ~ named(g))
    OBVIOUS
  <2> QED BY <2>1 DEF find_in_dir
<1> HIDE DEF first
<1> QED BY <1>3, <1>4, <1>5

LEMMA NoneFound ==
    ASSUME NEW n, NEW x, \A e \in Entries : NameAt(inodes[n], e) # Name(x)
    PROVE  find_in_dir(n, x) = NONE
  BY DEF find_in_dir

-----------------------------------------------------------------------------
(* Reading the tree.                                                       *)

LEMMA PathTypes ==
    ASSUME TypeOK
    PROVE  /\ \A d \in done : d.path \in Seq(STRING) /\ d.tool \in {"mkfs", "mdir", "mcopy"}
           /\ call.path \in Seq(STRING) /\ torn.path \in Seq(STRING)
           /\ Target \in Seq(STRING)
  <1>1. \A c \in Calls : c.path \in Seq(STRING) /\ c.tool \in {"mkfs", "mdir", "mcopy"}
    BY CallsAssumption DEF CommandLine
  <1>2. NoCall.path \in Seq(STRING)
    BY EmptySeq DEF NoCall
  <1>3. call.path \in Seq(STRING) /\ torn.path \in Seq(STRING)
    BY <1>1, <1>2 DEF TypeOK
  <1>4. \A d \in done : d.path \in Seq(STRING) /\ d.tool \in {"mkfs", "mdir", "mcopy"}
    BY <1>1 DEF TypeOK
  <1> QED BY <1>3, <1>4 DEF Target

LEMMA UseFacts ==
    ASSUME TypeOK, Placed, NEW n \in InUse
    PROVE  /\ n \in 0 .. MaxFiles - 1 /\ inode_count \in Nat
           /\ inodes[n].start \in Nat /\ inodes[n].size \in Nat /\ inodes[n].count \in Nat
           /\ From(n) \in Nat
           /\ n \in Dirs => inodes[n].count = 1 /\ inodes[n].type = "dir"
  <1>1. n \in 0 .. MaxFiles - 1 /\ inode_count \in Nat
    BY DEF TypeOK, InUse
  <1>2. inodes[n] \in Inode
    BY <1>1 DEF TypeOK
  <1>3. inodes[n].start \in Nat /\ inodes[n].size \in Nat /\ inodes[n].count \in Nat
    BY <1>2 DEF Inode
  <1> QED BY <1>1, <1>3 DEF Placed, Dirs, From

\* The entries of a directory are on the image.
LEMMA EntryCellsThere ==
    ASSUME TypeOK, Placed, NEW n \in Dirs, NEW e \in Entries
    PROVE  /\ EntryAt(inodes[n], e) \in Addresses
           /\ EntryAt(inodes[n], e) + EntryCells - 1 \in Addresses
           /\ EntryAt(inodes[n], e) = From(n) + e * EntryCells
           /\ e * EntryCells \in Nat /\ From(n) \in Nat
  <1>1. n \in InUse /\ From(n) \in Nat
    BY UseFacts DEF Dirs
  <1>2. From(n) + MaxFiles * EntryCells <= ImageBlocks * BlockCells
    BY <1>1 DEF Placed, Dirs
  <1>3. e \in Nat /\ e < MaxFiles /\ e * EntryCells \in Nat
    BY DEF Entries
  <1>4. e * EntryCells + EntryCells <= MaxFiles * EntryCells
    BY <1>3, EntriesInOrder
  <1>5. EntryAt(inodes[n], e) = From(n) + e * EntryCells
    BY DEF EntryAt, From
  <1>6. MaxFiles * EntryCells \in Nat /\ ImageBlocks * BlockCells \in Nat
    OBVIOUS
  <1> QED BY <1>1, <1>2, <1>3, <1>4, <1>5, <1>6 DEF Addresses

\* So a name among them is in the directory's block.
LEMMA DirSlot ==
    ASSUME TypeOK, Placed, NamesInSlots, NEW n \in Dirs, NEW e \in Entries,
           IsName(NameAt(inodes[n], e))
    PROVE  e \in Slots
  <1>1. EntryAt(inodes[n], e) \in Addresses
    BY EntryCellsThere
  <1>2. AtSlot(EntryAt(inodes[n], e))
    BY <1>1 DEF NamesInSlots, NameAt
  <1>3. inodes[n].start \in Nat
    BY UseFacts DEF Dirs
  <1>4. AtSlot(inodes[n].start * BlockCells + e * EntryCells)
    BY <1>2 DEF EntryAt
  <1> QED BY <1>3, <1>4, NameInSlot

\* Every inode is found under its path.
LEMMA WalkTo ==
    ASSUME TypeOK, NEW P \in [InUse -> Seq(STRING)], Tree(P), Fresh(P), NEW m \in InUse
    PROVE  Lookup(P[m]) = m
<1> DEFINE S == {l \in Nat : \A k \in InUse : Len(P[k]) = l => Lookup(P[k]) = k}
<1>1. 0 \in S
  <2> SUFFICES ASSUME NEW k \in InUse, Len(P[k]) = 0 PROVE Lookup(P[k]) = k
    OBVIOUS
  <2>1. P[k] \in Seq(STRING) /\ P[k] = <<>>
    BY EmptySeq
  <2>2. k = 0
    BY <2>1 DEF Tree, Entered
  <2> QED BY <2>1, <2>2, LookupRoot
<1>2. ASSUME NEW l \in Nat, l \in S PROVE l + 1 \in S
  <2> SUFFICES ASSUME NEW k \in InUse, Len(P[k]) = l + 1 PROVE Lookup(P[k]) = k
    OBVIOUS
  <2> DEFINE p == P[k]
             x == Last(p)
  <2>1. p \in Seq(STRING) /\ p # <<>>
    BY EmptySeq
  <2>2. Len(Parent(p)) = l /\ p = Append(Parent(p), x)
    BY <2>1, PathSplit
  <2>3. k # 0
    BY <2>1 DEF Tree, Rooted
  <2>4. PICK n \in Dirs, e \in Slots : P[n] = Parent(p) /\ Leads(n, e, x, k)
    BY <2>3 DEF Tree, Entered
  <2>5. n \in InUse /\ n \in 0 .. MaxFiles - 1 /\ inodes[n].count # 0
    BY UseFacts DEF Dirs, Tree
  <2>6. Lookup(Parent(p)) = n
    BY <1>2, <2>2, <2>4, <2>5
  <2>7. Lookup(p) = find_in_dir(n, x)
    <3> HIDE DEF p, x
    <3>1. n \in -1 .. MaxFiles - 1 /\ n # NONE
      BY <2>5 DEF NONE
    <3>2. Lookup(p) = find_in_dir(n, Last(p))
      BY <2>1, <2>6, <3>1, LookupStep
    <3> QED BY <3>2 DEF x
  <2>8. PICK f \in Entries : /\ f <= e /\ NameAt(inodes[n], f) = Name(x)
                             /\ find_in_dir(n, x) = IndexAt(inodes[n], f)
    <3>1. e \in Entries /\ NameAt(inodes[n], e) = Name(x)
      BY <2>4, PerBlock DEF Leads
    <3> HIDE DEF x
    <3> QED BY <2>5, <3>1, FirstFound
  <2>9. f \in Slots
    BY <2>8, PerBlock DEF Slots, Entries
  <2>10. IsName(NameAt(inodes[n], f)) /\ NameAt(inodes[n], f).name = x
    BY <2>8, CellKinds
  <2> DEFINE j == IndexAt(inodes[n], f)
  <2>11. \/ j \in InUse \ {0} /\ P[j] = p
         \/ p = Target
    BY <2>2, <2>4, <2>9, <2>10 DEF Tree, Followed
  <2>12. p # Target
    BY <2>1 DEF Fresh
  <2>13. j = k
    BY <2>11, <2>12 DEF Tree, Distinct
  <2> QED BY <2>7, <2>8, <2>13
<1>3. Nat \subseteq S
  <2> HIDE DEF S
  <2> QED BY <1>1, <1>2, Induction
<1>4. Len(P[m]) \in Nat
  OBVIOUS
<1> QED BY <1>3, <1>4

\* A path that no file and no unfinished call is on.
Clear(p) ==
    /\ \A d \in done : d.tool = "mcopy" => ~ Begins(d.path, p)
    /\ Target # <<>> => ~ Begins(Target, p)

LEMMA ClearParent ==
    ASSUME TypeOK, NEW p \in Seq(STRING), p # <<>>, Clear(p)
    PROVE  Clear(Parent(p))
  BY PathTypes, BeginsParent DEF Clear

\* If such a path leads anywhere, it is to the directory of that path.
LEMMA WalkFrom ==
    ASSUME TypeOK, NEW P \in [InUse -> Seq(STRING)], Tree(P), NamesInSlots,
           NEW q \in Seq(STRING), Clear(q)
    PROVE  Lookup(q) = NONE \/ (Lookup(q) \in Dirs /\ P[Lookup(q)] = q)
<1> DEFINE Right(p) == Lookup(p) = NONE \/ (Lookup(p) \in Dirs /\ P[Lookup(p)] = p)
           S == {l \in Nat : \A p \in Seq(STRING) : Len(p) = l /\ Clear(p) => Right(p)}
<1>0. 0 \in InUse
  BY DEF InUse, TypeOK
<1>1. 0 \in S
  <2> SUFFICES ASSUME NEW p \in Seq(STRING), Len(p) = 0 PROVE Right(p)
    OBVIOUS
  <2>1. p = <<>>
    BY EmptySeq
  <2>2. inodes[0].type = "dir"
    BY DEF Tree, Rooted, RootInode
  <2> QED BY <1>0, <2>1, <2>2, LookupRoot DEF Dirs, Tree, Rooted
<1>2. ASSUME NEW l \in Nat, l \in S PROVE l + 1 \in S
  <2> SUFFICES ASSUME NEW p \in Seq(STRING), Len(p) = l + 1, Clear(p) PROVE Right(p)
    OBVIOUS
  <2> DEFINE x == Last(p)
             n == Lookup(Parent(p))
  <2>1. p # <<>>
    BY EmptySeq
  <2>2. Parent(p) \in Seq(STRING) /\ Len(Parent(p)) = l /\ p = Append(Parent(p), x)
    BY <2>1, PathSplit
  <2>3. Right(Parent(p))
    BY <1>2, <2>1, <2>2, ClearParent
  <2>4. CASE n = NONE
    <3>1. Lookup(Parent(p)) \in -1 .. MaxFiles - 1
      BY <2>4 DEF NONE
    <3>2. Lookup(p) = NONE
      BY <2>1, <2>4, <3>1, LookupStep
    <3> QED BY <3>2
  <2>5. CASE n \in Dirs /\ P[n] = Parent(p) /\ n # NONE
    <3>1. n \in InUse /\ n \in -1 .. MaxFiles - 1 /\ inodes[n].count # 0
      BY <2>5, UseFacts DEF Dirs, Tree
    <3>2. Lookup(p) = find_in_dir(n, x)
      BY <2>1, <2>5, <3>1, LookupStep
    <3>3. CASE \A e \in Entries : NameAt(inodes[n], e) # Name(x)
      BY <3>2, <3>3, NoneFound
    <3>4. ASSUME NEW e \in Entries, NameAt(inodes[n], e) = Name(x) PROVE Right(p)
      <4>1. PICK f \in Entries : /\ NameAt(inodes[n], f) = Name(x)
                                 /\ find_in_dir(n, x) = IndexAt(inodes[n], f)
        <5> HIDE DEF n, x
        <5> QED BY <3>1, <3>4, FirstFound
      <4>2. IsName(NameAt(inodes[n], f)) /\ NameAt(inodes[n], f).name = x
        BY <4>1, CellKinds
      <4>3. f \in Slots
        <5> HIDE DEF n, x
        <5> QED BY <2>5, <4>2, DirSlot DEF Tree
      <4> DEFINE j == IndexAt(inodes[n], f)
      <4>4. \/ j \in InUse \ {0} /\ P[j] = p
            \/ p = Target
        BY <2>2, <2>5, <4>2, <4>3 DEF Tree, Followed
      <4>5. p # Target
        BY <2>1 DEF Clear, Begins
      <4>6. j \in Dirs
        <5>1. PICK d \in done : d.path = p /\ (j \in Dirs \/ d.tool = "mcopy")
          BY <4>4, <4>5 DEF Tree, Called
        <5>2. Begins(p, p)
          BY DEF Begins
        <5> QED BY <5>1, <5>2 DEF Clear
      <4> QED BY <3>2, <4>1, <4>4, <4>5, <4>6
    <3> QED BY <3>3, <3>4
  <2> QED BY <2>3, <2>4, <2>5
<1>3. Nat \subseteq S
  <2> HIDE DEF S
  <2> QED BY <1>1, <1>2, Induction
<1>4. Len(q) \in Nat
  OBVIOUS
<1> QED BY <1>3, <1>4

\* What is reported as copied or created is there: from the tree follow the
\* two properties.
LEMMA TreeKeeps ==
    ASSUME TypeOK, NEW P \in [InUse -> Seq(STRING)], Tree(P), Fresh(P)
    PROVE  FilesKept /\ DirsKept
<1>1. ASSUME NEW c \in done, c.tool \in {"mdir", "mcopy"}
      PROVE  /\ c.tool = "mcopy" => Holds(Lookup(c.path), c.src)
             /\ c.tool = "mdir" => IsDir(Lookup(c.path))
  <2>0. Mkfs.tool = "mkfs"
    BY DEF Mkfs
  <2>1. c # Mkfs
    BY <1>1, <2>0
  <2>2. PICK m \in InUse \ {0} : /\ P[m] = c.path
                                 /\ c.tool = "mdir" => m \in Dirs
                                 /\ c.tool = "mcopy" => Holds(m, c.src)
    BY <2>1 DEF Tree, Kept
  <2>3. Lookup(c.path) = m
    BY <2>2, WalkTo
  <2>4. m \in Dirs => IsDir(m)
    BY UseFacts DEF Dirs, IsDir, Tree
  <2> QED BY <2>2, <2>3, <2>4
<1> QED BY <1>1 DEF FilesKept, DirsKept

-----------------------------------------------------------------------------
(* Steps that leave the inodes in use as they are.                         *)

EntryStays(n, e) ==
    /\ NameAt(inodes[n], e)' = NameAt(inodes[n], e)
    /\ IndexAt(inodes[n], e)' = IndexAt(inodes[n], e)

\* The cells from a on, n of them.
CellsStay(a, n) == \A k \in Addresses : a <= k /\ k < a + n => disk'[k] = disk[k]

LEMMA EntryUntouched ==
    ASSUME TypeOK, Placed, NEW n \in Dirs, NEW e \in Entries, inodes'[n] = inodes[n],
           CellsStay(From(n) + e * EntryCells, EntryCells)
    PROVE  EntryStays(n, e)
  <1> DEFINE a == From(n) + e * EntryCells
             z == a + EntryCells - 1
  <1>1. /\ EntryAt(inodes[n], e) = a /\ a \in Nat
        /\ a \in Addresses /\ z \in Addresses
    BY EntryCellsThere
  <1>2. disk'[a] = disk[a] /\ disk'[z] = disk[z]
    <2>1. a <= a /\ a < a + EntryCells /\ a <= z /\ z < a + EntryCells
      BY <1>1
    <2> QED BY <1>1, <2>1 DEF CellsStay
  <1>3. EntryAt(inodes[n], e)' = EntryAt(inodes[n], e)
    BY DEF EntryAt
  <1>4. NameAt(inodes[n], e)' = NameAt(inodes[n], e)
    <2> HIDE DEF a
    <2> QED BY <1>1, <1>2, <1>3 DEF NameAt
  <1>5. IndexAt(inodes[n], e)' = IndexAt(inodes[n], e)
    <2> HIDE DEF a
    <2> QED BY <1>1, <1>2, <1>3 DEF IndexAt
  <1> QED BY <1>4, <1>5 DEF EntryStays

LEMMA FileUntouched ==
    ASSUME TypeOK, Placed, NEW m \in InUse, inodes'[m] = inodes[m],
           CellsStay(From(m), inodes[m].count * BlockCells), NEW f, Holds(m, f)
    PROVE  Holds(m, f)'
  <1>1. /\ m \in 0 .. MaxFiles - 1 /\ inodes[m].type = "file"
        /\ inodes[m].size = Length[f]
        /\ \A k \in 0 .. Length[f] - 1 : disk[From(m) + k] = Data(f, k)
    BY DEF Holds, From
  <1>2. /\ inodes[m].size \in Nat /\ From(m) \in Nat /\ inodes[m].count * BlockCells \in Nat
        /\ ImageBlocks * BlockCells \in Nat
    BY UseFacts
  <1>3. /\ inodes[m].size <= inodes[m].count * BlockCells
        /\ From(m) + inodes[m].size <= ImageBlocks * BlockCells
    BY DEF Placed
  <1>4. ASSUME NEW k \in 0 .. Length[f] - 1 PROVE disk'[From(m) + k] = Data(f, k)
    <2>1. k \in Nat /\ k < inodes[m].size
      BY <1>1, <1>2
    <2>2. /\ From(m) + k \in Addresses /\ From(m) <= From(m) + k
          /\ From(m) + k < From(m) + inodes[m].count * BlockCells
      BY <1>2, <1>3, <2>1 DEF Addresses
    <2> QED BY <1>1, <2>2 DEF CellsStay
  <1>5. From(m) = inodes'[m].start * BlockCells
    BY DEF From
  <1> QED BY <1>1, <1>4, <1>5 DEF Holds

\* The tree stays if its files do, and its entries but for one that the
\* running tool adds.
LEMMA TreeStays ==
    ASSUME TypeOK, NEW P \in [InUse -> Seq(STRING)], Tree(P),
           inode_count' = inode_count, done' = done,
           Target' = Target \/ Target = <<>>,
           \A n \in InUse : inodes'[n] = inodes[n],
           \A n \in Dirs, e \in Slots :
              \/ EntryStays(n, e)
              \/ /\ ~ IsName(NameAt(inodes[n], e))
                 /\ IndexAt(inodes[n], e)' = inode_count
                 /\ Append(P[n], NameAt(inodes[n], e)'.name) = Target',
           \A m \in InUse, f \in DOMAIN Length : Holds(m, f) => Holds(m, f)'
    PROVE  Tree(P)'
  <1>1. InUse' = InUse /\ Dirs' = Dirs
    BY DEF InUse, Dirs
  <1>2. 0 \in InUse
    BY DEF TypeOK, InUse
  <1>3. Rooted(P)'
    BY <1>2 DEF Tree, Rooted
  <1>4. Distinct(P)'
    BY <1>1 DEF Tree, Distinct
  <1>5. Placed'
    <2>1. \A n \in InUse : From(n)' = From(n)
      BY DEF From
    <2> QED BY <1>1, <2>1 DEF Tree, Placed
  <1>6. Entered(P)'
    <2> SUFFICES ASSUME NEW m \in InUse \ {0}
                 PROVE  /\ P[m] # <<>>
                        /\ \E n \in Dirs, e \in Slots :
                              P[n] = Parent(P[m]) /\ Leads(n, e, Last(P[m]), m)'
      BY <1>1 DEF Entered
    <2>1. PICK n \in Dirs, e \in Slots : P[n] = Parent(P[m]) /\ Leads(n, e, Last(P[m]), m)
      BY DEF Tree, Entered
    <2>2. IsName(NameAt(inodes[n], e))
      BY <2>1, CellKinds DEF Leads
    <2>3. EntryStays(n, e)
      BY <2>2
    <2>4. Leads(n, e, Last(P[m]), m)'
      BY <2>1, <2>3 DEF Leads, EntryStays
    <2> QED BY <2>1, <2>4 DEF Tree, Entered
  <1>7. Followed(P)'
    <2> SUFFICES ASSUME NEW n \in Dirs, NEW e \in Slots, IsName(NameAt(inodes[n], e)')
                 PROVE  LET m == IndexAt(inodes[n], e)'
                            p == Append(P[n], NameAt(inodes[n], e)'.name)
                        IN  (m \in InUse \ {0} /\ P[m] = p) \/ (m = inode_count /\ p = Target')
      BY <1>1 DEF Followed
    <2>1. CASE ~ EntryStays(n, e)
      BY <2>1
    <2>2. CASE EntryStays(n, e)
      <3> DEFINE m == IndexAt(inodes[n], e)
                 p == Append(P[n], NameAt(inodes[n], e).name)
      <3>1. (m \in InUse \ {0} /\ P[m] = p) \/ (m = inode_count /\ p = Target)
        BY <2>2 DEF Tree, Followed, EntryStays
      <3>2. p # <<>>
        BY DEF Dirs
      <3>3. (m \in InUse \ {0} /\ P[m] = p) \/ (m = inode_count /\ p = Target')
        BY <3>1, <3>2
      <3>4. /\ m = IndexAt(inodes[n], e)'
            /\ p = Append(P[n], NameAt(inodes[n], e)'.name)
        BY <2>2 DEF EntryStays
      <3> HIDE DEF m, p
      <3> QED BY <3>3, <3>4
    <2> QED BY <2>1, <2>2
  <1>8. Called(P)'
    BY <1>1 DEF Tree, Called
  <1>9. Kept(P)'
    <2> SUFFICES ASSUME NEW d \in done \ {Mkfs}
                 PROVE  \E m \in InUse \ {0} : /\ P[m] = d.path
                                               /\ d.tool = "mdir" => m \in Dirs
                                               /\ d.tool = "mcopy" => Holds(m, d.src)'
      BY <1>1 DEF Kept
    <2>1. PICK m \in InUse \ {0} : /\ P[m] = d.path
                                   /\ d.tool = "mdir" => m \in Dirs
                                   /\ d.tool = "mcopy" => Holds(m, d.src)
      BY DEF Tree, Kept
    <2>2. d.tool = "mcopy" => d.src \in DOMAIN Length
      BY CallsAssumption DEF TypeOK
    <2> QED BY <2>1, <2>2
  <1> QED BY <1>3, <1>4, <1>5, <1>6, <1>7, <1>8, <1>9 DEF Tree

\* The blocks of the inodes in use are not written to.
Spared == \A n \in InUse : CellsStay(From(n), inodes[n].count * BlockCells)

LEMMA SparedTree ==
    ASSUME TypeOK, NEW P \in [InUse -> Seq(STRING)], Tree(P),
           inode_count' = inode_count, done' = done,
           Target' = Target \/ Target = <<>>,
           \A n \in InUse : inodes'[n] = inodes[n], Spared
    PROVE  Tree(P)'
  <1>1. ASSUME NEW n \in Dirs, NEW e \in Slots PROVE EntryStays(n, e)
    <2>1. n \in InUse /\ inodes[n].count = 1 /\ From(n) \in Nat
      BY UseFacts DEF Dirs, Tree
    <2>2. CellsStay(From(n), BlockCells)
      BY <2>1 DEF Spared
    <2>3. CellsStay(From(n) + e * EntryCells, EntryCells)
      <3> SUFFICES ASSUME NEW k \in Addresses, From(n) + e * EntryCells <= k,
                          k < From(n) + e * EntryCells + EntryCells
                   PROVE  disk'[k] = disk[k]
        BY DEF CellsStay
      <3>1. e * EntryCells \in Nat /\ e * EntryCells + EntryCells <= BlockCells
        BY SlotInBlock
      <3>2. From(n) <= k /\ k < From(n) + BlockCells
        BY <2>1, <3>1 DEF Addresses
      <3> QED BY <2>2, <3>2 DEF CellsStay
    <2> QED BY <2>1, <2>3, EntryUntouched, PerBlock DEF Tree
  <1>2. \A m \in InUse, f \in DOMAIN Length : Holds(m, f) => Holds(m, f)'
    BY FileUntouched DEF Tree, Spared
  <1> QED BY <1>1, <1>2, TreeStays

\* Behind all extents, and in the boot sector, they are spared.
LEMMA BehindSpared ==
    ASSUME TypeOK, Placed, Behind, NEW S, NEW new, Write(S, new),
           \A a \in Addresses : a \in S \cup DOMAIN new => a >= next_block * BlockCells
    PROVE  Spared
  <1> SUFFICES ASSUME NEW n \in InUse, NEW k \in Addresses,
                      From(n) <= k, k < From(n) + inodes[n].count * BlockCells
               PROVE  disk'[k] = disk[k]
    BY DEF Spared, CellsStay
  <1> DEFINE s == inodes[n].start
             c == inodes[n].count
  <1>1. s \in Nat /\ c \in Nat /\ From(n) = s * BlockCells /\ From(n) \in Nat /\ k \in Nat
    BY UseFacts DEF From, Addresses
  <1>2. c # 0
    <2> SUFFICES ASSUME c = 0 PROVE FALSE
      OBVIOUS
    <2>1. c * BlockCells = 0
      BY <1>1
    <2> QED BY <1>1, <2>1
  <1>3. s + c <= next_block /\ next_block \in Nat
    BY <1>2 DEF Behind, InUse, TypeOK
  <1>4. (s + c) * BlockCells = s * BlockCells + c * BlockCells /\ (s + c) * BlockCells \in Nat
    BY <1>1
  <1>5. (s + c) * BlockCells <= next_block * BlockCells
    <2>1. CASE s + c = next_block
      BY <1>1, <2>1
    <2>2. CASE s + c < next_block
      <3> DEFINE t == s + c
      <3>1. t \in Nat /\ t < next_block
        BY <1>1, <2>2
      <3>2. t * BlockCells \in Nat /\ t * BlockCells + BlockCells <= next_block * BlockCells
        <4> HIDE DEF t
        <4> QED BY <1>3, <3>1, BlocksInOrder
      <3>3. next_block * BlockCells \in Nat
        BY <1>3
      <3> QED BY <3>2, <3>3
    <2> QED BY <1>1, <1>3, <2>1, <2>2
  <1>6. k < next_block * BlockCells
    <2>1. next_block * BlockCells \in Nat /\ c * BlockCells \in Nat
      BY <1>1, <1>3
    <2> QED BY <1>1, <1>4, <1>5, <2>1
  <1>7. ~ (k >= next_block * BlockCells)
    BY <1>1, <1>3, <1>6
  <1> QED BY <1>7 DEF Write

LEMMA Block0Spared ==
    ASSUME TypeOK, Placed, NEW new, DOMAIN new \subseteq Block(0), Write(Block(0), new)
    PROVE  Spared
  <1> SUFFICES ASSUME NEW n \in InUse, NEW k \in Addresses, From(n) <= k
               PROVE  disk'[k] = disk[k]
    BY DEF Spared, CellsStay
  <1>1. inodes[n].start \in Nat /\ inodes[n].start >= 2 /\ From(n) = inodes[n].start * BlockCells
    BY UseFacts DEF Placed, DATA_START, From
  <1>2. BlockCells <= From(n)
    <2>1. 0 * BlockCells + BlockCells <= inodes[n].start * BlockCells
      BY <1>1, BlocksInOrder
    <2> QED BY <1>1, <2>1
  <1>3. k \notin Block(0)
    BY <1>1, <1>2 DEF Block, Addresses
  <1> QED BY <1>3 DEF Write

LEMMA NamesWritten ==
    ASSUME NamesInSlots, sector0' = sector0, NEW S, NEW new, Write(S, new),
           \A a \in DOMAIN new : IsName(new[a]) => AtSlot(a)
    PROVE  NamesInSlots'
  <1>1. \A a \in Addresses : IsName(disk'[a]) => AtSlot(a)
    BY CellKinds DEF Write, NamesInSlots
  <1> QED BY <1>1 DEF NamesInSlots

-----------------------------------------------------------------------------
(* The running tool.  Each write keeps the tree, and takes the tool a step *)
(* further.                                                                *)

LEMMA FreshStays ==
    ASSUME NEW P, Fresh(P), inode_count' = inode_count, done' = done, Target' = Target
    PROVE  Fresh(P)'
  <1>1. InUse' = InUse
    BY DEF InUse
  <1> QED BY <1>1 DEF Fresh

LEMMA DirsStay ==
    ASSUME inode_count' = inode_count, \A n \in InUse : inodes'[n] = inodes[n]
    PROVE  InUse' = InUse /\ Dirs' = Dirs
  BY DEF InUse, Dirs

LEMMA WriteEmptyGrows ==
    ASSUME TypeOK, Room, Order, NEW P \in [InUse -> Seq(STRING)], Grows(P),
           InImage, user.discipline # "any", WriteEmpty
    PROVE  Grows(P)' /\ (NamesInSlots => NamesInSlots')
<1> DEFINE from == next_block * BlockCells
           S == from .. from + MaxFiles * EntryCells - 1
<1>1. /\ pc = "data" /\ call.tool = "mdir" /\ pc' = "dir" /\ Write(S, <<>>)
      /\ UNCHANGED <<inode_count, inodes, tool, i, past>>
  BY DEF WriteEmpty
<1>2. /\ Target' = Target /\ call' = call /\ next_block' = next_block /\ cur' = cur
      /\ done' = done /\ sector0' = sector0
  BY <1>1 DEF Target, tool, past
<1>3. from \in Nat /\ MaxFiles * EntryCells \in Nat /\ DOMAIN <<>> = {}
  BY DEF TypeOK
<1>4. Spared
  <2>1. Placed /\ Behind
    BY <1>1 DEF Grows, Tree, Order
  <2>2. \A a \in Addresses : a \in S \cup DOMAIN <<>> => a >= next_block * BlockCells
    BY <1>3
  <2> QED BY <1>1, <2>1, <2>2, BehindSpared
<1>5. Tree(P)'
  BY <1>1, <1>2, <1>4, SparedTree DEF Grows
<1>6. Fresh(P)'
  BY <1>1, <1>2, FreshStays DEF Grows
<1>7. Written'
  <2>1. \A k \in 0 .. MaxFiles * EntryCells - 1 : disk'[from + k] = ZERO
    <3> TAKE k \in 0 .. MaxFiles * EntryCells - 1
    <3>1. from + MaxFiles * EntryCells <= ImageBlocks * BlockCells
      BY <1>1 DEF InImage, CellsOf
    <3>2. ImageBlocks * BlockCells \in Nat
      OBVIOUS
    <3>3. from + k \in Addresses /\ from + k \in S
      <4> HIDE DEF from
      <4> QED BY <1>3, <3>1, <3>2 DEF Addresses
    <3> HIDE DEF from, S
    <3> QED BY <1>1, <1>3, <3>3 DEF Write
  <2> QED BY <1>1, <1>2, <2>1 DEF Written
<1>8. Working(P)'
  <2>1. Dirs' = Dirs
    BY <1>1, DirsStay
  <2> QED BY <1>1, <1>2, <1>7, <2>1 DEF Working, Grows
<1>9. NamesInSlots => NamesInSlots'
  BY <1>1, <1>2, <1>3, NamesWritten
<1> QED BY <1>5, <1>6, <1>8, <1>9 DEF Grows

LEMMA WriteDataGrows ==
    ASSUME TypeOK, Room, Order, NEW P \in [InUse -> Seq(STRING)], Grows(P),
           InImage, user.discipline # "any", WriteData
    PROVE  Grows(P)' /\ (NamesInSlots => NamesInSlots')
<1>1. pc = "data" /\ call.tool = "mcopy" /\ UNCHANGED <<inode_count, inodes, tool, past>>
  BY DEF WriteData
<1>2. /\ Length[call.src] \in Nat /\ i \in Nat /\ next_block \in Nat
      /\ ImageBlocks * BlockCells \in Nat
  <2>1. Length[call.src] \in Nat
    BY <1>1, ToolOf DEF Room
  <2> QED BY <2>1 DEF TypeOK
<1>3. PICK o \in Nat, b \in Nat, l \in Nat, m \in Nat :
          /\ o = i * BlockCells /\ b = next_block * BlockCells
          /\ l = Length[call.src] /\ m = ImageBlocks * BlockCells
  <2>1. i * BlockCells \in Nat /\ next_block * BlockCells \in Nat
    BY <1>2
  <2> QED BY <1>2, <2>1, Zenon
<1>4. o < l /\ b + l <= m
  BY <1>1, <1>3 DEF Grows, Working, Written, InImage, CellsOf
<1>5. PICK n \in 1 .. BlockCells : n = IF l - o < BlockCells THEN l - o ELSE BlockCells
  <2> DEFINE x == IF l - o < BlockCells THEN l - o ELSE BlockCells
  <2>1. x \in 1 .. BlockCells
    BY <1>4
  <2> QED BY <2>1, Zenon
<1>6. /\ (next_block + i) * BlockCells = b + o /\ (i + 1) * BlockCells = o + BlockCells
      /\ Block(next_block + i) = b + o .. b + o + BlockCells - 1
  <2>1. /\ (next_block + i) * BlockCells = b + o /\ (i + 1) * BlockCells = o + BlockCells
        /\ (next_block + i + 1) * BlockCells = b + o + BlockCells
    <3>1. /\ (next_block + i) * BlockCells = next_block * BlockCells + i * BlockCells
          /\ (i + 1) * BlockCells = i * BlockCells + BlockCells
          /\ (next_block + i + 1) * BlockCells
                = next_block * BlockCells + i * BlockCells + BlockCells
      BY <1>2
    <3> QED BY <1>3, <3>1
  <2> QED BY <2>1 DEF Block
<1> DEFINE S   == b + o .. b + o + BlockCells - 1
           new == [a \in b + o .. b + o + n - 1 |-> Data(call.src, o + a - (b + o))]
<1>7. /\ Write(S, new)
      /\ IF n = l - o THEN pc' = "dir" /\ i' = 0 ELSE pc' = pc /\ i' = i + 1
  BY <1>3, <1>5, <1>6 DEF WriteData
<1>8. /\ Target' = Target /\ call' = call /\ next_block' = next_block /\ cur' = cur
      /\ done' = done /\ sector0' = sector0 /\ pc' \in {"data", "dir"}
  BY <1>1, <1>7 DEF Target, tool, past
<1>9. Spared
  <2>1. Placed /\ Behind
    BY <1>1 DEF Grows, Tree, Order
  <2>2. \A a \in Addresses : a \in S \cup DOMAIN new => a >= next_block * BlockCells
    BY <1>3
  <2> HIDE DEF S, new
  <2> QED BY <1>7, <2>1, <2>2, BehindSpared
<1>10. Tree(P)'
  BY <1>1, <1>8, <1>9, SparedTree DEF Grows
<1>11. Fresh(P)'
  BY <1>1, <1>8, FreshStays DEF Grows
<1>12. ASSUME NEW k \in 0 .. o + n - 1 PROVE disk'[b + k] = Data(call.src, k)
  <2>1. k \in Nat /\ k < l
    BY <1>4, <1>5
  <2>2. b + k \in Addresses
    <3>1. b + k \in 0 .. m - 1
      BY <1>4, <2>1
    <3> QED BY <1>3, <3>1 DEF Addresses
  <2>3. CASE k < o
    <3>1. disk[b + k] = Data(call.src, k)
      BY <1>1, <1>3, <2>1, <2>3 DEF Grows, Working, Written, Copied
    <3>2. b + k \notin S /\ b + k \notin DOMAIN new
      BY <2>1, <2>3
    <3> HIDE DEF new, S
    <3> QED BY <1>7, <2>2, <3>1, <3>2 DEF Write
  <2>4. CASE k >= o
    <3>1. b + k \in b + o .. b + o + n - 1 /\ o + (b + k) - (b + o) = k
      BY <2>1, <2>4
    <3>2. b + k \in DOMAIN new /\ new[b + k] = Data(call.src, k)
      BY <3>1
    <3> HIDE DEF new, S
    <3> QED BY <1>7, <2>2, <3>2 DEF Write
  <2> QED BY <2>1, <2>3, <2>4
<1>13. Written'
  <2>1. CASE n = l - o
    <3>1. \A k \in 0 .. l - 1 : disk'[b + k] = Data(call.src, k)
      BY <1>12, <2>1
    <3> QED BY <1>1, <1>3, <1>7, <1>8, <2>1, <3>1 DEF Written, Copied
  <2>2. CASE n # l - o
    <3>1. n = BlockCells /\ i' * BlockCells = o + n /\ o + n < l
      BY <1>5, <1>6, <1>7, <2>2
    <3>2. \A k \in 0 .. i' * BlockCells - 1 : disk'[b + k] = Data(call.src, k)
      BY <1>12, <3>1
    <3>3. i' * BlockCells < Length[call.src] /\ pc' = "data"
      BY <1>1, <1>3, <1>7, <2>2, <3>1
    <3> QED BY <1>1, <1>3, <1>8, <3>2, <3>3 DEF Written, Copied
  <2> QED BY <2>1, <2>2
<1>14. Working(P)'
  <2>1. Dirs' = Dirs
    BY <1>1, DirsStay
  <2> QED BY <1>1, <1>8, <1>13, <2>1 DEF Working, Grows
<1>15. NamesInSlots => NamesInSlots'
  <2>1. \A a \in DOMAIN new : ~ IsName(new[a])
    BY CellKinds
  <2> HIDE DEF new, S
  <2> QED BY <1>7, <1>8, <2>1, NamesWritten
<1> QED BY <1>10, <1>11, <1>14, <1>15 DEF Grows

\* What is written to a directory's block spares all other inodes.
LEMMA OthersSpared ==
    ASSUME TypeOK, Placed, ExtentsApart, NEW d \in Dirs, NEW n \in InUse, n # d,
           NEW S, NEW new, Write(S, new),
           \A a \in Addresses : a \in S \cup DOMAIN new => From(d) <= a /\ a < From(d) + BlockCells
    PROVE  CellsStay(From(n), inodes[n].count * BlockCells)
<1> SUFFICES ASSUME NEW k \in Addresses,
                    From(n) <= k, k < From(n) + inodes[n].count * BlockCells
             PROVE  disk'[k] = disk[k]
  BY DEF CellsStay
<1>1. PICK s \in Nat, c \in Nat, t \in Nat :
         s = inodes[n].start /\ c = inodes[n].count /\ t = inodes[d].start
  <2>1. inodes[n].start \in Nat /\ inodes[n].count \in Nat
    BY UseFacts
  <2>2. inodes[d].start \in Nat
    BY UseFacts DEF Dirs
  <2> QED BY <2>1, <2>2, Zenon
<1>2. From(n) = s * BlockCells /\ From(d) = t * BlockCells
  BY <1>1 DEF From
<1>3. inodes[d].count = 1
  BY UseFacts DEF Dirs
<1>4. t < s \/ t >= s + c
  <2>1. Extent(n) \cap Extent(d) = {}
    BY DEF ExtentsApart, Used, InUse, Dirs
  <2>2. t \in Extent(d)
    BY <1>1, <1>3 DEF Extent
  <2>3. t \notin s .. s + c - 1
    BY <1>1, <2>1, <2>2 DEF Extent
  <2> QED BY <2>3
<1>5. ~ (From(d) <= k /\ k < From(d) + BlockCells)
  <2>0. k \in Nat
    BY DEF Addresses
  <2>1. CASE t < s
    <3>1. t * BlockCells + BlockCells <= s * BlockCells /\ t * BlockCells \in Nat /\ s * BlockCells \in Nat
      BY <2>1, BlocksInOrder
    <3> QED BY <1>2, <2>0, <3>1
  <2>2. CASE t >= s + c
    <3>1. PICK p \in Nat, q \in Nat, r \in Nat :
             p = s * BlockCells /\ q = c * BlockCells /\ r = t * BlockCells
      <4>1. s * BlockCells \in Nat /\ c * BlockCells \in Nat /\ t * BlockCells \in Nat
        OBVIOUS
      <4> QED BY <4>1, Zenon
    <3>2. p + q <= r
      <4>1. (s + c) * BlockCells = s * BlockCells + c * BlockCells
        OBVIOUS
      <4>2. CASE t = s + c
        BY <3>1, <4>1, <4>2
      <4>3. CASE t > s + c
        <5>1. s + c \in Nat /\ s + c < t
          BY <4>3
        <5>2. (s + c) * BlockCells + BlockCells <= t * BlockCells
          BY <5>1, BlocksInOrder
        <5> QED BY <3>1, <4>1, <5>2
      <4> QED BY <2>2, <4>2, <4>3
    <3>3. k < p + q
      BY <1>1, <1>2, <3>1
    <3> QED BY <1>2, <2>0, <3>1, <3>2, <3>3
  <2> QED BY <1>4, <2>1, <2>2
<1>6. k \notin S /\ k \notin DOMAIN new
  BY <1>5
<1> QED BY <1>6 DEF Write

\* While mdir or mcopy writes, the path is one of its own.
LEMMA WriterPath ==
    ASSUME TypeOK, Room, pc \in {"data", "dir", "inodes", "super"}, call # Mkfs
    PROVE  /\ call.path \in Seq(STRING) /\ call.path # <<>> /\ Target = call.path
           /\ call.tool \in {"mdir", "mcopy"}
           /\ call.tool = "mcopy" => Length[call.src] \in Nat
           /\ inode_count \in 0 .. MaxFiles - 1 /\ next_block \in Nat
  <1>1. call \in Calls \ {Mkfs} /\ inode_count < MaxFiles
    BY DEF Room
  <1>2. inode_count \in 0 .. MaxFiles - 1 /\ next_block \in Nat
    BY <1>1 DEF TypeOK
  <1> QED BY <1>1, <1>2, ToolOf DEF Target

\* An entry is written to a directory's block, over one that is not used.
LEMMA WriteDirCells ==
    ASSUME TypeOK, Room, NEW P \in [InUse -> Seq(STRING)], Grows(P), call # Mkfs,
           RoomLeft, user.discipline # "any", WriteDir
    PROVE  \E e \in Slots, a \in Addresses, z \in Addresses :
              /\ FirstUnused(inodes[cur], e) /\ a = EntryAt(inodes[cur], e)
              /\ a = From(cur) + e * EntryCells /\ z = a + EntryCells - 1
              /\ \E new : /\ DOMAIN new = {a, z}
                          /\ new[a] = Name(Last(call.path)) /\ new[z] = Index(inode_count)
                          /\ Write(a .. z, new)
<1>1. pc = "dir"
  BY DEF WriteDir
<1>2. inode_count \in 0 .. MaxFiles - 1
  BY <1>1, WriterPath
<1>4. Placed /\ cur \in Dirs /\ cur \in InUse /\ cur \in 0 .. MaxFiles - 1
  <2>1. Placed /\ cur \in Dirs /\ cur \in InUse
    BY <1>1 DEF Grows, Tree, Working, Dirs
  <2> QED BY <2>1, UseFacts
<1>5. NewInodes[cur] = inodes[cur]
  BY <1>2, <1>4 DEF NewInodes, TypeOK, InUse
<1> DEFINE At(e)  == EntryAt(inodes[cur], e)
           To(e)  == At(e) + EntryCells - 1
           New(e) == [a \in {At(e), To(e)} |->
                         IF a = At(e) THEN Name(Last(call.path)) ELSE Index(inode_count)]
<1>6. PICK e \in Entries : FirstUnused(inodes[cur], e) /\ Write(At(e) .. To(e), New(e))
  BY <1>5 DEF WriteDir
<1>7. e \in Slots
  <2>1. PICK f \in Slots : Unused(inodes[cur], f)
    BY <1>1, <1>5 DEF RoomLeft, Slots
  <2>2. f \notin 0 .. e - 1
    BY <1>6, <2>1 DEF FirstUnused
  <2> QED BY <2>1, <2>2, PerBlock DEF Slots, Entries
<1>9. PICK s \in Nat, o \in Nat, a \in Nat, z \in Nat :
         /\ s = From(cur) /\ o = e * EntryCells /\ a = At(e) /\ z = To(e)
         /\ a = s + o /\ z = a + EntryCells - 1 /\ o + EntryCells <= BlockCells
         /\ a \in Addresses /\ z \in Addresses
  <2>1. At(e) = From(cur) + e * EntryCells /\ At(e) \in Addresses /\ To(e) \in Addresses
    BY <1>4, EntryCellsThere
  <2>2. From(cur) \in Nat /\ e * EntryCells \in Nat
    BY <1>4, EntryCellsThere
  <2>3. e * EntryCells + EntryCells <= BlockCells
    BY <1>7, SlotInBlock
  <2>4. At(e) \in Nat /\ To(e) \in Nat
    BY <2>1 DEF Addresses
  <2> HIDE DEF At, To
  <2>5. To(e) = At(e) + EntryCells - 1
    BY DEF To
  <2> QED BY <2>1, <2>2, <2>3, <2>4, <2>5
<1>10. \E new : /\ DOMAIN new = {a, z}
                /\ new[a] = Name(Last(call.path)) /\ new[z] = Index(inode_count)
                /\ Write(a .. z, new)
  <2>1. a # z
    BY <1>9
  <2>2. New(e) = [k \in {a, z} |-> IF k = a THEN Name(Last(call.path)) ELSE Index(inode_count)]
    BY <1>9
  <2>3. Write(a .. z, New(e))
    BY <1>6, <1>9
  <2>4. DOMAIN New(e) = {a, z} /\ New(e)[a] = Name(Last(call.path)) /\ New(e)[z] = Index(inode_count)
    BY <2>1, <2>2
  <2> HIDE DEF New
  <2> QED BY <2>3, <2>4
<1> QED BY <1>6, <1>7, <1>9, <1>10

LEMMA WriteDirGrows ==
    ASSUME TypeOK, Room, ExtentsApart, Order, NEW P \in [InUse -> Seq(STRING)], Grows(P),
           call # Mkfs, NamesInSlots, RoomLeft, InImage, user.discipline # "any", WriteDir
    PROVE  Grows(P)' /\ NamesInSlots'
<1>1. pc = "dir" /\ pc' = "inodes" /\ UNCHANGED <<inode_count, inodes, tool, i, past>>
  BY DEF WriteDir
<1>2. /\ call.path \in Seq(STRING) /\ call.path # <<>> /\ Target = call.path
      /\ call.tool \in {"mdir", "mcopy"}
      /\ call.tool = "mcopy" => Length[call.src] \in Nat
      /\ inode_count \in 0 .. MaxFiles - 1 /\ next_block \in Nat
  BY <1>1, WriterPath
<1>3. /\ Target' = Target /\ call' = call /\ next_block' = next_block /\ cur' = cur
      /\ done' = done /\ sector0' = sector0
  BY <1>1 DEF Target, tool, past
<1>4. /\ Tree(P) /\ Placed /\ Behind /\ cur \in Dirs /\ cur \in InUse
      /\ cur \in 0 .. MaxFiles - 1 /\ P[cur] = Parent(call.path)
      /\ inodes[cur].count = 1 /\ inodes[cur].start \in Nat
  <2>1. Tree(P) /\ Placed /\ Behind /\ cur \in Dirs /\ cur \in InUse /\ P[cur] = Parent(call.path)
    BY <1>1 DEF Grows, Tree, Order, Working, Dirs
  <2> QED BY <2>1, UseFacts
<1>5. PICK e \in Slots, y \in Addresses, w \in Addresses :
          /\ FirstUnused(inodes[cur], e) /\ y = EntryAt(inodes[cur], e)
          /\ y = From(cur) + e * EntryCells /\ w = y + EntryCells - 1
          /\ \E new : /\ DOMAIN new = {y, w}
                      /\ new[y] = Name(Last(call.path)) /\ new[w] = Index(inode_count)
                      /\ Write(y .. w, new)
  BY WriteDirCells
<1>5a. PICK new : /\ DOMAIN new = {y, w}
                  /\ new[y] = Name(Last(call.path)) /\ new[w] = Index(inode_count)
                  /\ Write(y .. w, new)
  BY <1>5
<1>7. e \in Entries /\ e \in Slots
  BY PerBlock
<1>8. NameAt(inodes[cur], e) = ZERO
  BY <1>5 DEF FirstUnused, Unused
<1>9. PICK s \in Nat, o \in Nat, a \in Nat, z \in Nat :
         /\ s = From(cur) /\ o = e * EntryCells /\ a = y /\ z = w
         /\ a = s + o /\ z = a + EntryCells - 1 /\ o + EntryCells <= BlockCells
         /\ a \in Addresses /\ z \in Addresses
  <2>1. From(cur) \in Nat
    BY <1>4, UseFacts
  <2>2. e * EntryCells \in Nat /\ e * EntryCells + EntryCells <= BlockCells
    BY SlotInBlock
  <2>3. y \in Nat /\ w \in Nat
    BY DEF Addresses
  <2> QED BY <1>5, <2>1, <2>2, <2>3
<1>9a. /\ a = s + o /\ z = a + EntryCells - 1 /\ o + EntryCells <= BlockCells
       /\ a <= z /\ s <= a /\ z < s + BlockCells
  <2>1. a = s + o /\ z = a + EntryCells - 1 /\ o + EntryCells <= BlockCells
    BY <1>9
  <2> QED BY <2>1
<1>10. /\ DOMAIN new = {a, z} /\ a = EntryAt(inodes[cur], e)
       /\ new[a] = Name(Last(call.path)) /\ new[z] = Index(inode_count)
       /\ Write(a .. z, new)
  BY <1>5, <1>5a, <1>9
<1>11. \A k \in Addresses : k \in a .. z \cup DOMAIN new =>
           s <= k /\ k < s + BlockCells /\ a <= k /\ k <= z
  <2>1. \A k \in a .. z \cup DOMAIN new : k \in Nat /\ a <= k /\ k <= z
    <3>1. DOMAIN new = {a, z}
      BY <1>10
    <3> QED BY <1>9a, <3>1
  <2> QED BY <1>9a, <2>1
<1>12. /\ disk'[a] = Name(Last(call.path)) /\ disk'[z] = Index(inode_count)
       /\ \A k \in Addresses : k < a \/ k > z => disk'[k] = disk[k]
  <2>1. disk'[a] = Name(Last(call.path)) /\ disk'[z] = Index(inode_count)
    BY <1>9, <1>10 DEF Write
  <2>2. ASSUME NEW k \in Addresses, k < a \/ k > z PROVE disk'[k] = disk[k]
    <3>1. ~ (a <= k /\ k <= z)
      <4>1. k \in Nat
        BY DEF Addresses
      <4> QED BY <1>9a, <2>2, <4>1
    <3>2. k \notin a .. z /\ k \notin DOMAIN new
      BY <1>11, <3>1
    <3> QED BY <1>10, <3>2 DEF Write
  <2> QED BY <2>1, <2>2
<1>13. ASSUME NEW n \in InUse, n # cur PROVE CellsStay(From(n), inodes[n].count * BlockCells)
  <2>1. \A k \in Addresses : k \in a .. z \cup DOMAIN new =>
            From(cur) <= k /\ k < From(cur) + BlockCells
    BY <1>9, <1>11
  <2> QED BY <1>4, <1>10, <1>13, <2>1, OthersSpared
<1>14. ASSUME NEW n \in Dirs, n = cur
       PROVE  /\ NameAt(inodes[n], e)' = Name(Last(call.path))
              /\ IndexAt(inodes[n], e)' = inode_count
  <2>1. EntryAt(inodes[n], e)' = a
    BY <1>1, <1>9, <1>10, <1>14 DEF EntryAt
  <2>2. NameAt(inodes[n], e)' = disk'[a]
    BY <2>1 DEF NameAt
  <2>3. IndexAt(inodes[n], e)' = inode_count
    BY <1>9, <1>12, <2>1, CellKinds DEF IndexAt
  <2> QED BY <1>12, <2>2, <2>3
<1>15. ASSUME NEW n \in Dirs, NEW f \in Slots, n # cur \/ f # e PROVE EntryStays(n, f)
  <2>1. n \in InUse /\ inodes[n].count = 1 /\ From(n) \in Nat /\ f \in Entries
    BY <1>4, UseFacts, PerBlock DEF Dirs
  <2>2. PICK t \in Nat, g \in Nat : /\ t = From(n) /\ g = f * EntryCells
                                   /\ g + EntryCells <= BlockCells
    <3>1. f * EntryCells \in Nat /\ f * EntryCells + EntryCells <= BlockCells
      BY SlotInBlock
    <3> QED BY <2>1, <3>1, Zenon
  <2>3. CellsStay(t + g, EntryCells)
    <3>1. CASE n # cur
      <4>1. CellsStay(t, BlockCells)
        BY <1>13, <2>1, <2>2, <3>1
      <4>2. \A k \in Addresses : k \in Nat
        BY DEF Addresses
      <4>3. \A k \in Nat : t + g <= k /\ k < t + g + EntryCells => t <= k /\ k < t + BlockCells
        BY <2>2
      <4> QED BY <4>1, <4>2, <4>3 DEF CellsStay
    <3>2. CASE n = cur
      <4>1. f \in Nat /\ e \in Nat /\ f # e
        BY <1>15, <3>2, PerBlock DEF Slots
      <4>2. s + g + EntryCells <= s + o \/ s + o + EntryCells <= s + g
        <5>1. \/ s + e * EntryCells + EntryCells <= s + f * EntryCells
              \/ s + f * EntryCells + EntryCells <= s + e * EntryCells
          BY <4>1, SlotsApart
        <5>2. o = e * EntryCells /\ g = f * EntryCells
          BY <1>9, <2>2
        <5> QED BY <5>1, <5>2, Zenon
      <4>3. \A k \in Nat : s + g <= k /\ k < s + g + EntryCells => k < a \/ k > z
        BY <1>9a, <2>2, <4>2
      <4>4. \A k \in Addresses : k \in Nat
        BY DEF Addresses
      <4> QED BY <1>9, <1>12, <2>2, <3>2, <4>3, <4>4 DEF CellsStay
    <3> QED BY <3>1, <3>2
  <2> QED BY <1>1, <1>4, <2>1, <2>2, <2>3, EntryUntouched
<1>16. \A m \in InUse, f \in DOMAIN Length : Holds(m, f) => Holds(m, f)'
  <2> SUFFICES ASSUME NEW m \in InUse, NEW f \in DOMAIN Length, Holds(m, f)
               PROVE  Holds(m, f)'
    OBVIOUS
  <2>1. m # cur
    BY <1>4 DEF Holds, Dirs
  <2>2. CellsStay(From(m), inodes[m].count * BlockCells) /\ inodes'[m] = inodes[m]
    BY <1>1, <1>13, <2>1
  <2> QED BY <1>4, <2>2, FileUntouched
<1>17. Tree(P)'
  <2>1. /\ ~ IsName(NameAt(inodes[cur], e))
        /\ Append(P[cur], Name(Last(call.path)).name) = Target'
    <3>1. Append(Parent(call.path), Last(call.path)) = call.path
      BY <1>2, PathSplit
    <3>2. Name(Last(call.path)).name = Last(call.path) /\ ~ IsName(ZERO)
      BY CellKinds
    <3> QED BY <1>2, <1>3, <1>4, <1>8, <3>1, <3>2
  <2>2. ASSUME NEW n \in Dirs, NEW f \in Slots
        PROVE  \/ EntryStays(n, f)
               \/ /\ ~ IsName(NameAt(inodes[n], f))
                  /\ IndexAt(inodes[n], f)' = inode_count
                  /\ Append(P[n], NameAt(inodes[n], f)'.name) = Target'
    <3>1. CASE n # cur \/ f # e
      BY <1>15, <3>1
    <3>2. CASE n = cur /\ f = e
      <4>1. NameAt(inodes[n], f)' = Name(Last(call.path)) /\ IndexAt(inodes[n], f)' = inode_count
        BY <1>14, <3>2
      <4> QED BY <2>1, <3>2, <4>1
    <3> QED BY <3>1, <3>2
  <2> QED BY <1>1, <1>3, <1>4, <1>16, <2>2, TreeStays
<1>18. Fresh(P)'
  BY <1>1, <1>3, FreshStays DEF Grows
<1>19. Leads(cur, e, Last(call.path), inode_count)'
  <2>1. PICK n \in Dirs : n = cur
    BY <1>4
  <2>2. NameAt(inodes[n], e)' = Name(Last(call.path)) /\ IndexAt(inodes[n], e)' = inode_count
    BY <1>14, <2>1
  <2>3. Leads(n, e, Last(call.path), inode_count)'
    BY <1>1, <1>3, <2>2 DEF Leads
  <2> QED BY <1>3, <2>1, <2>3 DEF Leads
<1>20. PICK b \in Nat, l \in Nat, m \in Nat :
          /\ b = next_block * BlockCells /\ l = CellsOf(call) /\ m = ImageBlocks * BlockCells
          /\ b + l <= m /\ s + BlockCells <= b
  <2>1. next_block * BlockCells \in Nat /\ ImageBlocks * BlockCells \in Nat /\ CellsOf(call) \in Nat
    <3>1. MaxFiles * EntryCells \in Nat
      OBVIOUS
    <3> QED BY <1>2, <3>1 DEF CellsOf
  <2>2. next_block * BlockCells + CellsOf(call) <= ImageBlocks * BlockCells
    BY <1>1 DEF InImage
  <2>3. inodes[cur].start < next_block
    BY <1>2, <1>4 DEF Behind, InUse
  <2>4. From(cur) + BlockCells <= next_block * BlockCells
    BY <1>2, <1>4, <2>3, BlocksInOrder DEF From
  <2> QED BY <1>9, <2>1, <2>2, <2>4, Zenon
<1>20a. b + l <= m /\ s + BlockCells <= b
  BY <1>20
<1>21. \A k \in 0 .. l - 1 : disk'[b + k] = disk[b + k]
  <2> TAKE k \in 0 .. l - 1
  <2>1. b + k \in 0 .. m - 1 /\ b + k > z
    BY <1>9a, <1>20a
  <2> QED BY <1>12, <1>20, <2>1 DEF Addresses
<1>22. Written'
  <2>1. call.tool = "mcopy" => \A k \in 0 .. Length[call.src] - 1 :
            disk'[next_block * BlockCells + k] = Data(call.src, k)
    BY <1>1, <1>20, <1>21 DEF Grows, Working, Written, Copied, CellsOf
  <2>2. call.tool = "mdir" => \A k \in 0 .. MaxFiles * EntryCells - 1 :
            disk'[next_block * BlockCells + k] = ZERO
    BY <1>1, <1>20, <1>21 DEF Grows, Working, Written, CellsOf
  <2>3. CellsOf(call)' = CellsOf(call)
    BY <1>3 DEF CellsOf
  <2> QED BY <1>1, <1>3, <1>7, <1>19, <1>20, <2>1, <2>2, <2>3 DEF Written, Copied
<1>23. Working(P)'
  <2>1. Dirs' = Dirs
    BY <1>1, DirsStay
  <2> QED BY <1>1, <1>3, <1>22, <2>1 DEF Working, Grows
<1>24. NamesInSlots'
  <2>1. AtSlot(a)
    <3>1. inodes[cur].start \in 0 .. ImageBlocks
      <4>1. PICK t \in Nat : t = inodes[cur].start /\ s = t * BlockCells
        BY <1>4, <1>9 DEF From
      <4>2. ~ (ImageBlocks < t)
        <5> SUFFICES ASSUME ImageBlocks < t PROVE FALSE
          OBVIOUS
        <5>1. m + BlockCells <= s
          <6>1. ImageBlocks * BlockCells + BlockCells <= t * BlockCells
            BY <4>1, BlocksInOrder
          <6>2. m = ImageBlocks * BlockCells /\ s = t * BlockCells
            BY <1>20, <4>1
          <6> QED BY <6>1, <6>2, Zenon
        <5> QED BY <1>20a, <5>1
      <4> QED BY <4>1, <4>2
    <3>2. a = inodes[cur].start * BlockCells + e * EntryCells
      BY <1>9 DEF From
    <3> QED BY <1>7, <3>1, <3>2 DEF AtSlot
  <2>2. \A k \in DOMAIN new : IsName(new[k]) => AtSlot(k)
    BY <1>10, <2>1, CellKinds
  <2> QED BY <1>3, <1>10, <2>2, NamesWritten
<1> QED BY <1>17, <1>18, <1>23, <1>24 DEF Grows

LEMMA WriteInodesGrows ==
    ASSUME TypeOK, Room, NEW P \in [InUse -> Seq(STRING)], Grows(P), call # Mkfs, WriteInodes
    PROVE  Grows(P)' /\ (NamesInSlots => NamesInSlots')
<1>1. /\ pc = "inodes" /\ pc' = "super" /\ inodes' = NewInodes
      /\ UNCHANGED <<disk, inode_count, tool, i, past>>
  BY DEF WriteInodes
<1>2. /\ Target' = Target /\ call' = call /\ next_block' = next_block /\ cur' = cur
      /\ done' = done /\ sector0' = sector0 /\ NewInode' = NewInode
  BY <1>1 DEF Target, tool, past, NewInode
<1>3. inode_count \in 0 .. MaxFiles - 1 /\ DOMAIN inodes = 0 .. MaxFiles - 1
  BY <1>1, WriterPath DEF TypeOK
<1>4. inodes'[inode_count] = NewInode /\ \A n \in InUse : inodes'[n] = inodes[n]
  BY <1>1, <1>3 DEF NewInodes, InUse
<1>5. Spared
  BY <1>1 DEF Spared, CellsStay
<1>6. Tree(P)'
  BY <1>1, <1>2, <1>4, <1>5, SparedTree DEF Grows
<1>7. Fresh(P)'
  BY <1>1, <1>2, FreshStays DEF Grows
<1>8. cur \in Dirs /\ cur \in InUse /\ Written
  BY <1>1 DEF Grows, Working, Dirs
<1>9. Written'
  <2>1. PICK e \in Slots : Leads(cur, e, Last(call.path), inode_count)
    BY <1>1, <1>8 DEF Written
  <2>2. inodes'[cur] = inodes[cur]
    BY <1>4, <1>8
  <2>3. Leads(cur, e, Last(call.path), inode_count)'
    BY <1>1, <1>2, <2>1, <2>2 DEF Leads, NameAt, IndexAt, EntryAt
  <2>4. CellsOf(call)' = CellsOf(call)
    BY <1>2 DEF CellsOf
  <2> QED BY <1>1, <1>2, <1>4, <1>8, <2>3, <2>4 DEF Written, Copied
<1>10. Working(P)'
  <2>1. Dirs' = Dirs
    BY <1>1, <1>4, DirsStay
  <2> QED BY <1>1, <1>2, <1>9, <2>1 DEF Working, Grows
<1>11. NamesInSlots => NamesInSlots'
  BY <1>1, <1>2 DEF NamesInSlots
<1> QED BY <1>6, <1>7, <1>10, <1>11 DEF Grows

\* A file is given no block to spare,
LEMMA BlocksTight == \A size \in Nat : Blocks(size) * BlockCells < size + BlockCells
  <1> TAKE size \in Nat
  <1> DEFINE n == size + BlockCells - 1
  <1>1. n \in Nat /\ BlockCells \in Nat /\ BlockCells > 0
    OBVIOUS
  <1>2. (n \div BlockCells) * BlockCells <= n
    <2> HIDE DEF n
    <2> QED BY <1>1
  <1>3. PICK b \in Nat : b = (n \div BlockCells) * BlockCells
    <2>1. (n \div BlockCells) * BlockCells \in Nat
      <3> HIDE DEF n
      <3> QED BY <1>1
    <2> QED BY <2>1, Zenon
  <1>4. b < size + BlockCells
    BY <1>2, <1>3
  <1> QED BY <1>3, <1>4 DEF Blocks

\* and blocks enough.
LEMMA BlocksEnough == \A size \in Nat : size <= Blocks(size) * BlockCells
  <1> TAKE size \in Nat
  <1> DEFINE n == size + BlockCells - 1
  <1>1. n \in Nat /\ BlockCells \in Nat /\ BlockCells > 0
    OBVIOUS
  <1>2. n < (n \div BlockCells) * BlockCells + BlockCells
    <2> HIDE DEF n
    <2> QED BY <1>1
  <1>3. PICK b \in Nat : b = (n \div BlockCells) * BlockCells
    <2>1. (n \div BlockCells) * BlockCells \in Nat
      <3> HIDE DEF n
      <3> QED BY <1>1
    <2> QED BY <2>1, Zenon
  <1>4. size <= b
    BY <1>2, <1>3
  <1> QED BY <1>3, <1>4 DEF Blocks

\* The inode that is counted in has the place that was written.
LEMMA NewPlaced ==
    ASSUME TypeOK, Room, pc = "super", call # Mkfs, NEW P, Working(P), NEW n, n = NewInode
    PROVE  /\ n.start >= DATA_START /\ n.size <= n.count * BlockCells
           /\ n.start * BlockCells + n.size <= ImageBlocks * BlockCells
           /\ n.type = "dir" =>
                 n.count = 1 /\ n.start * BlockCells + MaxFiles * EntryCells <= ImageBlocks * BlockCells
<1>1. /\ call.tool \in {"mdir", "mcopy"} /\ next_block \in Nat
      /\ call.tool = "mcopy" => Length[call.src] \in Nat
  BY WriterPath
<1>2. next_block > DATA_START /\ next_block * BlockCells + CellsOf(call) <= ImageBlocks * BlockCells
  BY DEF Working, Written
<1>3. n.start = next_block /\ n.start >= DATA_START
  BY <1>1, <1>2 DEF NewInode, DATA_START
<1>4. CASE call.tool = "mdir"
  <2>1. n.size = BlockCells /\ n.count = 1 /\ CellsOf(call) = MaxFiles * EntryCells
    BY <1>4 DEF NewInode, CellsOf
  <2>2. next_block < ImageBlocks
    <3> SUFFICES ASSUME ~ (next_block < ImageBlocks) PROVE FALSE
      OBVIOUS
    <3>1. ImageBlocks * BlockCells <= next_block * BlockCells
      <4>1. CASE ImageBlocks = next_block
        BY <4>1
      <4>2. CASE ImageBlocks < next_block
        <5>1. /\ ImageBlocks * BlockCells \in Nat /\ next_block * BlockCells \in Nat
              /\ ImageBlocks * BlockCells + BlockCells <= next_block * BlockCells
          BY <1>1, <4>2, BlocksInOrder
        <5> QED BY <5>1
      <4> QED BY <1>1, <4>1, <4>2
    <3>2. MaxFiles * EntryCells > 0 /\ MaxFiles * EntryCells \in Nat
      <4>1. 0 * EntryCells + EntryCells <= MaxFiles * EntryCells
        BY EntriesInOrder
      <4> QED BY <4>1
    <3>3. next_block * BlockCells \in Nat /\ ImageBlocks * BlockCells \in Nat
      BY <1>1
    <3> QED BY <1>2, <2>1, <3>1, <3>2, <3>3
  <2>3. next_block * BlockCells + BlockCells <= ImageBlocks * BlockCells
    BY <1>1, <2>2, BlocksInOrder
  <2> QED BY <1>2, <1>3, <2>1, <2>3
<1>5. CASE call.tool = "mcopy"
  <2>1. /\ n.type = "file" /\ n.size = Length[call.src] /\ n.count = Blocks(Length[call.src])
        /\ CellsOf(call) = Length[call.src]
    BY <1>5 DEF NewInode, CellsOf
  <2> QED BY <1>1, <1>2, <1>3, <1>5, <2>1, BlocksEnough
<1> QED BY <1>1, <1>4, <1>5

LEMMA WriteSuperGrows ==
    ASSUME TypeOK, Room, NEW P \in [InUse -> Seq(STRING)], Grows(P), call # Mkfs,
           NamesInSlots, WriteSuper
    PROVE  (\E Q \in [InUse -> Seq(STRING)] : Grows(Q))' /\ NamesInSlots'
<1>1. /\ pc = "super" /\ pc' = "idle" /\ inode_count' = inode_count + 1
      /\ Write(Block(0), sector0) /\ done' = done \cup {call} /\ torn' = NoCall
      /\ UNCHANGED <<inodes, tool>>
  BY DEF WriteSuper, Return
<1>2. /\ call.path \in Seq(STRING) /\ call.path # <<>> /\ Target = call.path
      /\ call.tool \in {"mdir", "mcopy"}
      /\ call.tool = "mcopy" => Length[call.src] \in Nat
      /\ next_block \in Nat
  BY <1>1, WriterPath
<1>3. PICK N \in 0 .. MaxFiles - 1 : N = inode_count
  BY <1>1, WriterPath
<1>4. /\ N # 0 /\ InUse = 0 .. N - 1 /\ InUse' = InUse \cup {N} /\ N \notin InUse
      /\ InUse' \ {0} = (InUse \ {0}) \cup {N}
  <2>1. N \in Nat \ {0}
    BY <1>3 DEF TypeOK
  <2>2. InUse = 0 .. N - 1 /\ InUse' = 0 .. N
    BY <1>1, <1>3 DEF InUse
  <2> QED BY <2>1, <2>2
<1>5. Tree(P) /\ Fresh(P) /\ Working(P) /\ Placed /\ Written
  BY <1>1 DEF Grows, Tree, Working
<1>6. PICK Q \in [InUse' -> Seq(STRING)] :
          Q = [m \in InUse' |-> IF m = N THEN call.path ELSE P[m]]
  <2> DEFINE q == [m \in InUse' |-> IF m = N THEN call.path ELSE P[m]]
  <2>1. q \in [InUse' -> Seq(STRING)]
    BY <1>2, <1>4
  <2> QED BY <2>1, Zenon
<1>7. Q[N] = call.path /\ \A m \in InUse : Q[m] = P[m] /\ m \in InUse'
  BY <1>4, <1>6
<1>8. inodes[N] = NewInode /\ inodes' = inodes
  BY <1>1, <1>3, <1>5 DEF Written
<1>9. /\ \A n \in Dirs : n \in Dirs' /\ n \in InUse
      /\ \A n \in Dirs' : n \in Dirs \/ (n = N /\ call.tool = "mdir")
      /\ call.tool = "mdir" => N \in Dirs'
  BY <1>2, <1>4, <1>8 DEF Dirs, NewInode
<1>10. \A n \in InUse \cup {N} : From(n)' = From(n)
  BY <1>8 DEF From
<1>11. Spared
  BY <1>1, <1>5, Block0Spared DEF NamesInSlots
<1>12. ASSUME NEW n \in Dirs, NEW e \in Slots PROVE EntryStays(n, e)
  <2>1. n \in InUse /\ inodes[n].count = 1 /\ From(n) \in Nat /\ e \in Entries
    BY <1>5, UseFacts, PerBlock DEF Dirs
  <2>2. PICK t \in Nat, g \in Nat : /\ t = From(n) /\ g = e * EntryCells
                                   /\ g + EntryCells <= BlockCells
    <3>1. e * EntryCells \in Nat /\ e * EntryCells + EntryCells <= BlockCells
      BY SlotInBlock
    <3> QED BY <2>1, <3>1, Zenon
  <2>3. CellsStay(t + g, EntryCells)
    <3>1. CellsStay(t, BlockCells)
      BY <1>11, <2>1, <2>2 DEF Spared
    <3>2. \A k \in Addresses : k \in Nat
      BY DEF Addresses
    <3>3. \A k \in Nat : t + g <= k /\ k < t + g + EntryCells => t <= k /\ k < t + BlockCells
      BY <2>2
    <3> QED BY <3>1, <3>2, <3>3 DEF CellsStay
  <2> QED BY <1>5, <1>8, <2>1, <2>2, <2>3, EntryUntouched
<1>13. \A m \in InUse : \A f : Holds(m, f) => Holds(m, f)'
  BY <1>5, <1>8, <1>11, FileUntouched DEF Spared
<1>14. PICK b \in Nat, l \in Nat, m \in Nat :
          /\ b = next_block * BlockCells /\ l = CellsOf(call) /\ m = ImageBlocks * BlockCells
          /\ b + l <= m /\ BlockCells <= b
  <2>1. next_block * BlockCells \in Nat /\ ImageBlocks * BlockCells \in Nat /\ CellsOf(call) \in Nat
    <3>1. MaxFiles * EntryCells \in Nat
      OBVIOUS
    <3> QED BY <1>2, <3>1 DEF CellsOf
  <2>2. next_block * BlockCells + CellsOf(call) <= ImageBlocks * BlockCells
    BY <1>1, <1>5 DEF Written
  <2>3. 0 < next_block
    BY <1>1, <1>2, <1>5 DEF Working, DATA_START
  <2>4. BlockCells <= next_block * BlockCells
    <3>1. 0 * BlockCells + BlockCells <= next_block * BlockCells
      BY <1>2, <2>3, BlocksInOrder
    <3> QED BY <3>1
  <2> QED BY <2>1, <2>2, <2>4, Zenon
<1>15. \A k \in 0 .. l - 1 : disk'[b + k] = disk[b + k]
  <2> TAKE k \in 0 .. l - 1
  <2>1. b + k \in 0 .. m - 1 /\ b + k >= BlockCells
    BY <1>14
  <2>2. Block(0) = 0 .. BlockCells - 1
    BY DEF Block
  <2>3. b + k \in Addresses /\ b + k \notin Block(0) /\ b + k \notin DOMAIN sector0
    BY <1>14, <2>1, <2>2 DEF Addresses, NamesInSlots
  <2> QED BY <1>1, <2>3 DEF Write
<1>16. call.tool = "mcopy" => Holds(N, call.src)'
  <2> SUFFICES ASSUME call.tool = "mcopy" PROVE Holds(N, call.src)'
    OBVIOUS
  <2>1. inodes[N].type = "file" /\ inodes[N].size = Length[call.src] /\ inodes[N].start = next_block
    BY <1>8 DEF NewInode
  <2>2. \A k \in 0 .. Length[call.src] - 1 : disk[b + k] = Data(call.src, k)
    BY <1>1, <1>5, <1>14 DEF Written, Copied
  <2>3. \A k \in 0 .. Length[call.src] - 1 : disk'[b + k] = Data(call.src, k)
    BY <1>14, <1>15, <2>2 DEF CellsOf
  <2>4. call' = call
    BY <1>1 DEF tool
  <2> QED BY <1>8, <1>14, <2>1, <2>3, <2>4 DEF Holds
<1>17. ASSUME call.tool = "mdir", NEW e \in Slots PROVE NameAt(inodes[N], e)' = ZERO
  <2>1. /\ e * EntryCells \in Nat /\ e * EntryCells + EntryCells <= MaxFiles * EntryCells
        /\ MaxFiles * EntryCells \in Nat
    <3>1. MaxFiles * EntryCells \in Nat
      OBVIOUS
    <3> QED BY <3>1, SlotInBlock
  <2>2. e * EntryCells \in 0 .. MaxFiles * EntryCells - 1
    BY <2>1
  <2>3. EntryAt(inodes[N], e)' = b + e * EntryCells
    BY <1>8, <1>14 DEF EntryAt, NewInode
  <2>4. disk[b + e * EntryCells] = ZERO
    BY <1>1, <1>5, <1>14, <1>17, <2>2 DEF Written
  <2>5. e * EntryCells \in 0 .. l - 1
    BY <1>14, <1>17, <2>2 DEF CellsOf
  <2>6. disk'[b + e * EntryCells] = ZERO
    BY <1>15, <2>4, <2>5
  <2> QED BY <2>3, <2>6 DEF NameAt
<1>18. Rooted(Q)'
  <2>1. 0 \in InUse /\ inodes[0] = RootInode /\ P[0] = <<>>
    BY <1>4, <1>5 DEF Tree, Rooted
  <2> QED BY <1>7, <1>8, <2>1 DEF Rooted
<1>19. Distinct(Q)'
  <2> SUFFICES ASSUME NEW m1 \in InUse', NEW m2 \in InUse', Q[m1] = Q[m2] PROVE m1 = m2
    BY DEF Distinct
  <2>1. \A k \in InUse : P[k] # call.path
    BY <1>2, <1>5 DEF Fresh
  <2>2. CASE m1 \in InUse /\ m2 \in InUse
    BY <1>5, <1>7, <2>2 DEF Tree, Distinct
  <2>3. CASE m1 = N \/ m2 = N
    BY <1>4, <1>7, <2>1, <2>3
  <2> QED BY <1>4, <2>2, <2>3
<1>20. Placed'
  <2> SUFFICES ASSUME NEW n \in InUse'
               PROVE  /\ inodes[n].start >= DATA_START
                      /\ inodes[n].size <= inodes[n].count * BlockCells
                      /\ From(n) + inodes[n].size <= ImageBlocks * BlockCells
                      /\ inodes[n].type = "dir" =>
                            /\ inodes[n].count = 1
                            /\ From(n) + MaxFiles * EntryCells <= ImageBlocks * BlockCells
    BY <1>4, <1>8, <1>10 DEF Placed
  <2>1. CASE n \in InUse
    BY <1>5, <2>1 DEF Placed
  <2>2. CASE n = N
    BY <1>1, <1>5, <1>8, <2>2, NewPlaced DEF From
  <2> QED BY <1>4, <2>1, <2>2
<1>21. Entered(Q)'
  <2> SUFFICES ASSUME NEW k \in InUse' \ {0}
               PROVE  /\ Q[k] # <<>>
                      /\ \E n \in Dirs', e \in Slots :
                            Q[n] = Parent(Q[k]) /\ Leads(n, e, Last(Q[k]), k)'
    BY DEF Entered
  <2>1. PICK n \in Dirs, e \in Slots :
            /\ Q[k] # <<>> /\ P[n] = Parent(Q[k]) /\ Leads(n, e, Last(Q[k]), k)
    <3>1. CASE k \in InUse \ {0}
      <4>1. Q[k] = P[k]
        BY <1>7, <3>1
      <4> QED BY <1>5, <3>1, <4>1 DEF Tree, Entered
    <3>2. CASE k = N
      <4>1. cur \in Dirs /\ P[cur] = Parent(call.path)
        BY <1>1, <1>5 DEF Working
      <4>2. \E e \in Slots : Leads(cur, e, Last(call.path), N)
        BY <1>1, <1>3, <1>5 DEF Written
      <4> QED BY <1>2, <1>7, <3>2, <4>1, <4>2
    <3> QED BY <1>4, <3>1, <3>2
  <2>2. EntryStays(n, e)
    BY <1>12
  <2>3. Leads(n, e, Last(Q[k]), k)'
    BY <2>1, <2>2 DEF Leads, EntryStays
  <2>4. n \in Dirs' /\ Q[n] = P[n]
    BY <1>7, <1>9
  <2> QED BY <2>1, <2>3, <2>4
<1>22. Followed(Q)'
  <2> SUFFICES ASSUME NEW n \in Dirs', NEW e \in Slots, IsName(NameAt(inodes[n], e)')
               PROVE  LET k == IndexAt(inodes[n], e)'
                          p == Append(Q[n], NameAt(inodes[n], e)'.name)
                      IN  k \in InUse' \ {0} /\ Q[k] = p
    BY DEF Followed
  <2>1. n # N \/ call.tool # "mdir"
    BY <1>17, CellKinds
  <2>2. n \in Dirs /\ Q[n] = P[n] /\ EntryStays(n, e)
    BY <1>7, <1>9, <1>12, <2>1
  <2> DEFINE k == IndexAt(inodes[n], e)
             p == Append(P[n], NameAt(inodes[n], e).name)
  <2>3. IsName(NameAt(inodes[n], e))
    BY <2>2 DEF EntryStays
  <2>4. (k \in InUse \ {0} /\ P[k] = p) \/ (k = N /\ p = call.path)
    BY <1>2, <1>3, <1>5, <2>2, <2>3 DEF Tree, Followed
  <2>5. k \in InUse' \ {0} /\ Q[k] = p
    <3> HIDE DEF k, p
    <3> QED BY <1>4, <1>7, <2>4
  <2>6. /\ IndexAt(inodes[n], e)' = k
        /\ Append(Q[n], NameAt(inodes[n], e)'.name) = p
    BY <2>2 DEF EntryStays
  <2> HIDE DEF k, p
  <2> QED BY <2>5, <2>6
<1>23. Called(Q)'
  <2> SUFFICES ASSUME NEW k \in InUse' \ {0}
               PROVE  \E d \in done' : d.path = Q[k] /\ (k \in Dirs' \/ d.tool = "mcopy")
    BY DEF Called
  <2>1. CASE k \in InUse \ {0}
    <3>1. PICK d \in done : d.path = P[k] /\ (k \in Dirs \/ d.tool = "mcopy")
      BY <1>5, <2>1 DEF Tree, Called
    <3> QED BY <1>1, <1>7, <1>9, <2>1, <3>1
  <2>2. CASE k = N
    BY <1>1, <1>2, <1>7, <1>9, <2>2
  <2> QED BY <1>4, <2>1, <2>2
<1>24. Kept(Q)'
  <2> SUFFICES ASSUME NEW d \in done' \ {Mkfs}
               PROVE  \E k \in InUse' \ {0} : /\ Q[k] = d.path
                                              /\ d.tool = "mdir" => k \in Dirs'
                                              /\ d.tool = "mcopy" => Holds(k, d.src)'
    BY DEF Kept
  <2>1. CASE d \in done
    <3>1. PICK k \in InUse \ {0} : /\ P[k] = d.path
                                   /\ d.tool = "mdir" => k \in Dirs
                                   /\ d.tool = "mcopy" => Holds(k, d.src)
      BY <1>5, <2>1 DEF Tree, Kept
    <3> QED BY <1>7, <1>9, <1>13, <3>1
  <2>2. CASE d = call
    <3>1. N \in InUse' \ {0} /\ Q[N] = d.path
      BY <1>4, <1>7, <2>2
    <3>2. d.tool = "mdir" => N \in Dirs'
      BY <1>9, <2>2
    <3>3. d.tool = "mcopy" => Holds(N, d.src)'
      <4>1. call' = call
        BY <1>1 DEF tool
      <4> QED BY <1>16, <2>2, <4>1
    <3> QED BY <3>1, <3>2, <3>3
  <2> QED BY <1>1, <2>1, <2>2
<1>25. Tree(Q)'
  BY <1>18, <1>19, <1>20, <1>21, <1>22, <1>23, <1>24 DEF Tree
<1>26. Fresh(Q)' /\ Working(Q)'
  BY <1>1 DEF Fresh, Working, Target, NoCall
<1>27. NamesInSlots'
  <2>1. sector0' = sector0
    BY <1>1 DEF tool
  <2> QED BY <1>1, <2>1, NamesWritten DEF NamesInSlots
<1> QED BY <1>25, <1>26, <1>27 DEF Grows

-----------------------------------------------------------------------------
(* What the users' rules are good for.                                     *)

\* A call that adds to the image is of a path that no file is on, and of a
\* new one but for mdir; nothing but the same mcopy has been interrupted.
LEMMA AllowedFacts ==
    ASSUME TypeOK, FromRecipe, pc = "idle", Mkfs \in done, user.discipline # "any",
           NEW c, c # Mkfs, Allowed(c)
    PROVE  /\ torn = NoCall \/ (torn = c /\ c.tool = "mcopy")
           /\ \A d \in done : /\ d.tool = "mcopy" => ~ Begins(d.path, c.path)
                              /\ d.path = c.path => c.tool = "mdir"
<1>1. user.discipline \in {"make", "prudent"}
  BY UsersAssumption DEF TypeOK
<1>2. CASE user.discipline = "make"
  <2>1. torn = NoCall
    BY <1>2 DEF Allowed
  <2>2. PICK n \in DOMAIN Recipe :
            c \in Recipe[n] /\ \A m \in DOMAIN Recipe : m < n <=> Recipe[m] \cap done # {}
    BY <1>2 DEF Allowed
  <2>3. ASSUME NEW d \in done
        PROVE  /\ d.tool = "mcopy" => ~ Begins(d.path, c.path)
               /\ d.path = c.path => c.tool = "mdir"
    <3>1. PICK m \in DOMAIN Recipe : d \in Recipe[m]
      BY <1>2 DEF FromRecipe
    <3>2. m < n
      BY <2>2, <3>1
    <3> QED BY <2>2, <3>1, <3>2, RecipeAssumption
  <2> QED BY <2>1, <2>3
<1>3. CASE user.discipline = "prudent"
  BY <1>3 DEF Allowed
<1> QED BY <1>1, <1>2, <1>3

\* Nothing is called before mkfs.
LEMMA AllowedFirst ==
    ASSUME TypeOK, done = {}, user.discipline # "any", NEW c, Allowed(c)
    PROVE  c = Mkfs
<1>1. user.discipline \in {"make", "prudent"}
  BY UsersAssumption DEF TypeOK
<1>2. CASE user.discipline = "make"
  <2>1. PICK n \in DOMAIN Recipe :
            c \in Recipe[n] /\ \A m \in DOMAIN Recipe : m < n <=> Recipe[m] \cap done # {}
    BY <1>2 DEF Allowed
  <2>2. 1 \in DOMAIN Recipe /\ DOMAIN Recipe \subseteq Nat \ {0}
    BY RecipeAssumption
  <2>3. n = 1
    BY <2>1, <2>2
  <2> QED BY <2>1, <2>3, RecipeAssumption
<1>3. CASE user.discipline = "prudent"
  BY <1>3 DEF Allowed
<1> QED BY <1>1, <1>2, <1>3

\* What make calls is in the recipe.
LEMMA AllowedInRecipe ==
    ASSUME NEW c, Allowed(c), user.discipline = "make"
    PROVE  \E n \in DOMAIN Recipe : c \in Recipe[n]
  BY DEF Allowed

\* A tool reads the boot sector when it begins.
LEMMA BeginNames ==
    ASSUME NamesInSlots, disk' = disk, NEW c, NEW first, Begin(c, first)
    PROVE  NamesInSlots'
<1>1. sector0' = [a \in Block(0) |-> disk[a]]
  BY DEF Begin
<1>2. Block(0) \subseteq Addresses
  <2>1. 0 * BlockCells + BlockCells <= ImageBlocks * BlockCells /\ ImageBlocks * BlockCells \in Nat
    BY BlocksInOrder DEF DATA_START
  <2>2. Block(0) = 0 .. BlockCells - 1
    BY DEF Block
  <2> QED BY <2>1, <2>2 DEF Addresses
<1> QED BY <1>1, <1>2 DEF NamesInSlots

LEMMA BeginGrows ==
    ASSUME TypeOK, NEW P \in [InUse -> Seq(STRING)], Grows(P), NamesInSlots, FromRecipe,
           Mkfs \in done, user.discipline # "any",
           NEW c \in user.calls, c # Mkfs, mcopy(c) \/ mdir(c)
    PROVE  Grows(P)'
<1> DEFINE up == Parent(c.path)
<1>1. c \in Calls \ {Mkfs} /\ c.path \in Seq(STRING) /\ c.path # <<>>
      /\ c.tool \in {"mdir", "mcopy"} /\ (c.tool = "mcopy" => Length[c.src] \in Nat)
  <2>1. c \in Calls \ {Mkfs}
    BY UserCalls
  <2> QED BY <2>1, ToolOf
<1>2. /\ pc = "idle" /\ Allowed(c) /\ pc' \in {"data", "dir"} /\ call' = c /\ i' = 0
      /\ UNCHANGED <<disk, inode_count, inodes, done, torn, interrupts>>
      /\ cur' = Lookup(up) /\ cur' \in 0 .. MaxFiles - 1
      /\ c.tool = "mcopy" /\ pc' = "dir" => Length[c.src] = 0
      /\ c.tool = "mcopy" /\ pc' = "data" => Length[c.src] # 0
      /\ c.tool = "mdir" => pc' = "data" /\ find_in_dir(cur', Last(c.path)) < 0
      /\ NextBlock(c)
  BY DEF mcopy, mdir, Begin, image, past
<1>3. /\ torn = NoCall \/ torn = c
      /\ \A d \in done : /\ d.tool = "mcopy" => ~ Begins(d.path, c.path)
                         /\ d.path = c.path => c.tool = "mdir"
  BY <1>2, AllowedFacts
<1>4. Target' = c.path /\ (Target = <<>> \/ Target = c.path)
  <2>1. pc' # "idle" /\ call' = c /\ pc = "idle"
    BY <1>2
  <2>2. Target' = c.path /\ Target = torn.path
    BY <2>1 DEF Target
  <2>3. NoCall.path = <<>>
    BY DEF NoCall
  <2> QED BY <1>3, <2>2, <2>3
<1>5. Tree(P)'
  <2>1. Spared
    BY <1>2 DEF Spared, CellsStay
  <2> QED BY <1>2, <1>4, <2>1, SparedTree DEF Grows
<1>6. up \in Seq(STRING) /\ Clear(up)
  <2>1. up \in Seq(STRING)
    BY <1>1, PathSplit
  <2>2. \A q \in Seq(STRING) : Begins(q, up) => Begins(q, c.path) /\ q # c.path
    BY <1>1, BeginsParent
  <2> HIDE DEF up
  <2>3. \A d \in done : d.tool = "mcopy" => ~ Begins(d.path, up)
    BY <1>3, <2>2, PathTypes
  <2>4. Target # <<>> => ~ Begins(Target, up)
    BY <1>1, <1>4, <2>2
  <2> QED BY <2>1, <2>3, <2>4 DEF Clear
<1>7. cur' \in Dirs /\ P[cur'] = up
  <2>1. Lookup(up) = NONE \/ (Lookup(up) \in Dirs /\ P[Lookup(up)] = up)
    <3> HIDE DEF up
    <3> QED BY <1>6, WalkFrom DEF Grows
  <2> QED BY <1>2, <2>1 DEF NONE
<1>8. ASSUME NEW m \in InUse PROVE P[m] # c.path
  <2> SUFFICES ASSUME P[m] = c.path PROVE FALSE
    OBVIOUS
  <2>1. m # 0
    BY <1>1 DEF Grows, Tree, Rooted
  <2>2. PICK d \in done : d.path = P[m]
    BY <2>1 DEF Grows, Tree, Called
  <2>3. find_in_dir(cur', Last(c.path)) < 0
    BY <1>2, <1>3, <2>2
  <2>4. Lookup(c.path) = m
    BY WalkTo DEF Grows
  <2>5. Lookup(c.path) = find_in_dir(cur', Last(c.path))
    <3>1. Lookup(Parent(c.path)) \in -1 .. MaxFiles - 1 /\ Lookup(Parent(c.path)) # NONE
      BY <1>2 DEF NONE
    <3> QED BY <1>1, <1>2, <3>1, LookupStep
  <2>6. m \in Nat
    BY DEF InUse
  <2> QED BY <2>3, <2>4, <2>5, <2>6
<1>9. Fresh(P)'
  <2>1. InUse' = InUse /\ done' = done
    BY <1>2 DEF InUse
  <2> QED BY <1>3, <1>4, <1>8, <2>1 DEF Fresh
<1>10. next_block' > DATA_START
  <2>1. 0 \in 0 .. inode_count - 1 /\ inodes[0] = RootInode
    BY DEF TypeOK, Grows, Tree, Rooted
  <2>2. DATA_START + 1 \in Ends(c)
    <3>1. inodes[0].start + inodes[0].count = DATA_START + 1 /\ inodes[0].count # 0
      BY <2>1 DEF RootInode
    <3>2. 0 \in {n \in 0 .. inode_count - 1 : c.tool = "mdir" \/ inodes[n].count # 0}
      BY <2>1, <3>1
    <3> QED BY <3>1, <3>2 DEF Ends
  <2>3. DATA_START + 1 <= next_block' /\ next_block' \in Nat
    BY <1>2, <2>2, NextBlockType DEF NextBlock
  <2> QED BY <2>3 DEF DATA_START
<1>11. Written'
  <2>1. 0 * BlockCells = 0
    OBVIOUS
  <2>2. c.tool = "mcopy" => Copied' = 0
    BY <1>2, <2>1 DEF Copied
  <2>3. c.tool = "mcopy" /\ pc' = "data" => i' * BlockCells < Length[call'.src]
    BY <1>1, <1>2, <2>1
  <2> QED BY <1>2, <2>2, <2>3 DEF Written
<1>12. Working(P)'
  <2>1. Dirs' = Dirs
    BY <1>2, DirsStay
  <2> QED BY <1>2, <1>7, <1>10, <1>11, <2>1 DEF Working
<1> QED BY <1>5, <1>9, <1>12 DEF Grows

LEMMA ExistsGrows ==
    ASSUME TypeOK, NEW P \in [InUse -> Seq(STRING)], Grows(P), NamesInSlots, FromRecipe,
           Mkfs \in done, user.discipline # "any",
           NEW c \in user.calls, mdir_exists(c)
    PROVE  Grows(P)'
<1>1. /\ pc = "idle" /\ Allowed(c) /\ c.tool = "mdir"
      /\ Lookup(Parent(c.path)) \in 0 .. MaxFiles - 1
      /\ find_in_dir(Lookup(Parent(c.path)), Last(c.path)) >= 0
      /\ done' = done \cup {c}
      /\ UNCHANGED <<disk, inode_count, inodes, pc, tool, torn>>
  BY DEF mdir_exists, image
<1>2. c # Mkfs
  <2>1. Mkfs.tool = "mkfs"
    BY DEF Mkfs
  <2> QED BY <1>1, <2>1
<1>3. c \in Calls \ {Mkfs} /\ c.path \in Seq(STRING) /\ c.path # <<>>
  <2>1. c \in Calls \ {Mkfs}
    BY <1>2, UserCalls
  <2> QED BY <2>1, ToolOf
<1>4. torn = NoCall /\ \A d \in done : d.tool = "mcopy" => ~ Begins(d.path, c.path)
  BY <1>1, <1>2, AllowedFacts
<1>5. Target = <<>> /\ Target' = <<>>
  BY <1>1, <1>4 DEF Target, NoCall
<1>6. Clear(c.path)
  BY <1>4, <1>5 DEF Clear
<1>7. PICK m \in Dirs : P[m] = c.path
  <2>1. Lookup(Parent(c.path)) \in -1 .. MaxFiles - 1 /\ Lookup(Parent(c.path)) # NONE
    BY <1>1 DEF NONE
  <2>2. Lookup(c.path) = find_in_dir(Lookup(Parent(c.path)), Last(c.path))
    BY <1>3, <2>1, LookupStep
  <2>3. Lookup(c.path) # NONE
    BY <1>1, <2>2 DEF NONE
  <2> QED BY <1>3, <1>6, <2>3, WalkFrom DEF Grows
<1>8. m \in InUse \ {0}
  BY <1>3, <1>7 DEF Grows, Tree, Rooted, Dirs
<1>9. /\ InUse' = InUse /\ Dirs' = Dirs
      /\ \A n, e : NameAt(inodes[n], e)' = NameAt(inodes[n], e)
      /\ \A n, e : IndexAt(inodes[n], e)' = IndexAt(inodes[n], e)
      /\ \A n, e, x, k : Leads(n, e, x, k)' = Leads(n, e, x, k)
      /\ \A n, f : Holds(n, f)' = Holds(n, f)
      /\ \A n : From(n)' = From(n)
  BY <1>1 DEF InUse, Dirs, Leads, NameAt, IndexAt, EntryAt, Holds, From
<1>10. Rooted(P)' /\ Distinct(P)' /\ Placed' /\ Entered(P)'
  BY <1>1, <1>9 DEF Grows, Tree, Rooted, Distinct, Placed, Entered
<1>11. Followed(P)'
  <2> SUFFICES ASSUME NEW n \in Dirs', NEW e \in Slots, IsName(NameAt(inodes[n], e)')
               PROVE  LET k == IndexAt(inodes[n], e)'
                          p == Append(P[n], NameAt(inodes[n], e)'.name)
                      IN  (k \in InUse' \ {0} /\ P[k] = p) \/ (k = inode_count' /\ p = Target')
    BY DEF Followed
  <2>1. n \in Dirs /\ IsName(NameAt(inodes[n], e))
    BY <1>9
  <2> DEFINE k == IndexAt(inodes[n], e)
             p == Append(P[n], NameAt(inodes[n], e).name)
  <2>2. (k \in InUse \ {0} /\ P[k] = p) \/ (k = inode_count /\ p = Target)
    BY <2>1 DEF Grows, Tree, Followed
  <2>3. k = IndexAt(inodes[n], e)' /\ p = Append(P[n], NameAt(inodes[n], e)'.name)
    BY <1>9
  <2> HIDE DEF k, p
  <2> QED BY <1>1, <1>5, <1>9, <2>2, <2>3
<1>12. Called(P)'
  BY <1>1, <1>9 DEF Grows, Tree, Called
<1>13. Kept(P)'
  <2> SUFFICES ASSUME NEW d \in done' \ {Mkfs}
               PROVE  \E k \in InUse \ {0} : /\ P[k] = d.path
                                             /\ d.tool = "mdir" => k \in Dirs
                                             /\ d.tool = "mcopy" => Holds(k, d.src)
    BY <1>9 DEF Kept
  <2>1. CASE d \in done
    BY <2>1 DEF Grows, Tree, Kept
  <2>2. CASE d = c
    BY <1>1, <1>7, <1>8, <2>2
  <2> QED BY <1>1, <2>1, <2>2
<1>14. Fresh(P)' /\ Working(P)'
  BY <1>1, <1>5 DEF Fresh, Working
<1> QED BY <1>10, <1>11, <1>12, <1>13, <1>14 DEF Grows, Tree

LEMMA InterruptGrows ==
    ASSUME TypeOK, NEW P \in [InUse -> Seq(STRING)], Grows(P), Interrupt
    PROVE  Grows(P)'
<1>1. /\ pc # "idle" /\ pc' = "idle" /\ torn' = call
      /\ UNCHANGED <<disk, inode_count, inodes, done>>
  BY DEF Interrupt, image
<1>2. Target' = Target
  BY <1>1 DEF Target
<1>3. Spared
  BY <1>1 DEF Spared, CellsStay
<1>4. Tree(P)'
  BY <1>1, <1>2, <1>3, SparedTree DEF Grows
<1>5. Fresh(P)'
  BY <1>1, <1>2, FreshStays DEF Grows
<1>6. Working(P)'
  BY <1>1 DEF Working
<1> QED BY <1>4, <1>5, <1>6 DEF Grows

\* While there is room, no directory is full.
LEMMA NeverFull ==
    ASSUME TypeOK, Room, NEW P \in [InUse -> Seq(STRING)], Grows(P), call # Mkfs,
           RoomLeft, user.discipline # "any"
    PROVE  ~ DirectoryFull
<1> SUFFICES ASSUME DirectoryFull PROVE FALSE
  OBVIOUS
<1>1. pc = "dir" /\ \/ \A e \in Entries : ~ Unused(NewInodes[cur], e)
                    \/ NewInodes[cur].count = 0
  BY DEF DirectoryFull
<1>2. ~ \A e \in Entries : ~ Unused(NewInodes[cur], e)
  BY <1>1, PerBlock DEF RoomLeft, Slots
<1>3. cur \in Dirs /\ cur \in InUse /\ inodes[cur].count = 1 /\ cur \in 0 .. MaxFiles - 1
  <2>1. cur \in Dirs /\ cur \in InUse
    BY <1>1 DEF Grows, Working, Dirs
  <2> QED BY <2>1, UseFacts DEF Grows, Tree
<1>4. NewInodes[cur] = inodes[cur]
  <2>1. inode_count \in 0 .. MaxFiles - 1
    BY <1>1, WriterPath
  <2> QED BY <1>3, <2>1 DEF NewInodes, TypeOK, InUse
<1> QED BY <1>1, <1>2, <1>3, <1>4

\* mkfs leaves a root directory without names.
LEMMA FormatGrows ==
    ASSUME TypeOK, Formatting, NamesInSlots, FormatRoot
    PROVE  Growing' /\ NamesInSlots'
<1>1. /\ pc = "format_root" /\ pc' = "idle" /\ call = Mkfs /\ done' = {Mkfs}
      /\ torn' = NoCall /\ inode_count' = 1 /\ inodes' = inodes /\ inodes[0] = RootInode
      /\ Write(Block(DATA_START), <<>>) /\ sector0' = sector0
  BY DEF FormatRoot, Return, Formatting, Formats, tool
<1>2. InUse' = {0} /\ Dirs' = {0}
  <2>1. 0 .. 1 - 1 = {0} /\ inodes'[0].type = "dir"
    BY <1>1 DEF RootInode
  <2> QED BY <1>1, <2>1 DEF InUse, Dirs
<1>3. PICK P \in [InUse' -> Seq(STRING)] : P[0] = <<>>
  <2>1. <<>> \in Seq(STRING)
    BY EmptySeq
  <2>2. [n \in {0} |-> <<>>] \in [{0} -> Seq(STRING)]
    BY <2>1
  <2> QED BY <1>2, <2>2
<1>4. PICK b \in Nat : /\ b = DATA_START * BlockCells
                       /\ Block(DATA_START) = b .. b + BlockCells - 1
                       /\ b + BlockCells <= ImageBlocks * BlockCells
                       /\ b + MaxFiles * EntryCells <= ImageBlocks * BlockCells
  <2>1. /\ DATA_START * BlockCells \in Nat
        /\ (DATA_START + 1) * BlockCells = DATA_START * BlockCells + BlockCells
    BY DEF DATA_START
  <2>2. DATA_START * BlockCells + BlockCells <= ImageBlocks * BlockCells
    <3>1. DATA_START \in Nat /\ DATA_START < ImageBlocks
      BY DEF DATA_START
    <3> QED BY <3>1, BlocksInOrder
  <2>3. Block(DATA_START) = DATA_START * BlockCells .. DATA_START * BlockCells + BlockCells - 1
    BY <2>1 DEF Block
  <2> QED BY <2>1, <2>2, <2>3, LayoutAssumption
<1>5. ASSUME NEW e \in Slots PROVE ~ IsName(NameAt(inodes[0], e)')
  <2>1. EntryAt(inodes[0], e)' = b + e * EntryCells
    BY <1>1, <1>4 DEF EntryAt, RootInode
  <2>2. PICK o \in Nat : o = e * EntryCells /\ o + EntryCells <= BlockCells
    BY SlotInBlock
  <2>3. b + o \in b .. b + BlockCells - 1
    BY <2>2
  <2>4. PICK m \in Nat : m = ImageBlocks * BlockCells
    <3>1. ImageBlocks * BlockCells \in Nat
      OBVIOUS
    <3> QED BY <3>1, Zenon
  <2>5. b + BlockCells <= m
    BY <1>4, <2>4
  <2>6. b + o \in 0 .. m - 1
    BY <2>3, <2>5
  <2>7. b + o \in Addresses /\ b + o \in Block(DATA_START) /\ DOMAIN <<>> = {}
    BY <1>4, <2>3, <2>4, <2>6 DEF Addresses
  <2>8. disk'[b + o] = ZERO
    BY <1>1, <2>7 DEF Write
  <2> QED BY <2>1, <2>2, <2>8, CellKinds DEF NameAt
<1>6. Rooted(P)' /\ Distinct(P)'
  BY <1>1, <1>2, <1>3 DEF Rooted, Distinct
<1>7. Placed'
  <2>1. /\ inodes'[0].start = DATA_START /\ inodes'[0].size = BlockCells
        /\ inodes'[0].count = 1 /\ From(0)' = b
    BY <1>1, <1>4 DEF RootInode, From
  <2>2. DATA_START >= DATA_START /\ BlockCells <= 1 * BlockCells
    BY DEF DATA_START
  <2> QED BY <1>2, <1>4, <2>1, <2>2 DEF Placed
<1>8. Entered(P)' /\ Followed(P)' /\ Called(P)' /\ Kept(P)'
  BY <1>1, <1>2, <1>5 DEF Entered, Followed, Called, Kept
<1>9. Fresh(P)' /\ Working(P)'
  BY <1>1 DEF Fresh, Working, Target, NoCall
<1>10. NamesInSlots'
  <2>1. DOMAIN <<>> = {}
    OBVIOUS
  <2> QED BY <1>1, <2>1, NamesWritten
<1>11. Grows(P)'
  BY <1>6, <1>7, <1>8, <1>9 DEF Grows, Tree
<1> QED BY <1>10, <1>11 DEF Growing

-----------------------------------------------------------------------------
(* The invariant.                                                          *)

\* The order of calls: mkfs before all others, and make's from its recipe.
LEMMA CallsInOrder ==
    ASSUME TypeOK, Room, FromRecipe, Formatting, user.discipline # "any", [Next]_vars
    PROVE  FromRecipe' /\ Formatting'
<1>0. user' = user
  BY DEF Next, vars
<1> USE <1>0
<1>1. ASSUME pc' \in {"idle", pc} \/ (pc # "idle" /\ pc' # "idle"), call' = call,
             done' \subseteq done \cup Running
      PROVE  FromRecipe'
  <2>1. Running' \subseteq Running
    BY <1>1 DEF Running
  <2> QED BY <1>1, <2>1 DEF FromRecipe
<1>2. CASE Stamp
  BY <1>1, <1>2 DEF Stamp, tool, Formatting, Formats
<1>3. CASE mkfs
  <2>1. pc' = "format" /\ call' = Mkfs /\ done' = {} /\ Allowed(Mkfs)
    BY <1>3 DEF mkfs, Begin
  <2>2. FromRecipe'
    BY <2>1, AllowedInRecipe DEF FromRecipe, Running
  <2> QED BY <2>1, <2>2 DEF Formatting, Formats
<1>4. CASE FormatSuper
  BY <1>1, <1>4 DEF FormatSuper, tool, past, Formatting, Formats
<1>5. CASE FormatInodes
  <2>1. inodes'[0] = RootInode
    BY <1>5 DEF FormatInodes
  <2> QED BY <1>1, <1>5, <2>1 DEF FormatInodes, tool, past, Formatting, Formats
<1>6. CASE FormatRoot
  BY <1>1, <1>6 DEF FormatRoot, Return, tool, Formatting, Formats, Running
<1>7. ASSUME NEW c \in user.calls, mcopy(c) \/ mdir(c) PROVE FromRecipe' /\ Formatting'
  <2>1. /\ pc' \in {"data", "dir"} /\ call' = c /\ done' = done /\ Allowed(c)
        /\ c.tool \in {"mdir", "mcopy"}
    BY <1>7 DEF mcopy, mdir, Begin, past
  <2>2. Mkfs.tool = "mkfs"
    BY DEF Mkfs
  <2>3. c # Mkfs
    BY <2>1, <2>2
  <2>4. Mkfs \in done
    BY <2>1, <2>3, AllowedFirst DEF Formatting
  <2>5. FromRecipe'
    <3>1. Running' = {c}
      BY <2>1 DEF Running
    <3> QED BY <2>1, <3>1, AllowedInRecipe DEF FromRecipe
  <2> QED BY <2>1, <2>3, <2>4, <2>5 DEF Formatting, Formats
<1>8. ASSUME NEW c \in user.calls, mdir_exists(c) PROVE FromRecipe' /\ Formatting'
  <2>1. /\ pc = "idle" /\ pc' = "idle" /\ done' = done \cup {c} /\ Allowed(c)
        /\ c.tool = "mdir"
    BY <1>8 DEF mdir_exists
  <2>2. Mkfs.tool = "mkfs"
    BY DEF Mkfs
  <2>3. Mkfs \in done
    BY <2>1, <2>2, AllowedFirst DEF Formatting
  <2>4. FromRecipe'
    BY <2>1, AllowedInRecipe DEF FromRecipe, Running
  <2> QED BY <2>1, <2>3, <2>4 DEF Formatting, Formats
<1>9. CASE WriteEmpty \/ WriteData \/ WriteDir \/ WriteInodes
  <2>1. /\ pc \in {"data", "dir", "inodes"} /\ pc' \in {"data", "dir", "inodes", "super"}
        /\ call' = call /\ done' = done
    BY <1>9 DEF WriteEmpty, WriteData, WriteDir, WriteInodes, tool, past
  <2> QED BY <1>1, <2>1 DEF Formatting, Formats
<1>10. CASE DirectoryFull
  BY <1>1, <1>10 DEF DirectoryFull, tool, past, Formatting, Formats
<1>11. CASE WriteSuper
  BY <1>1, <1>11 DEF WriteSuper, Return, tool, Formatting, Formats, Running
<1>12. CASE Interrupt
  BY <1>1, <1>12 DEF Interrupt, tool, Formatting, Formats
<1>13. CASE UNCHANGED vars
  BY <1>1, <1>13 DEF vars, image, tool, past, Formatting, Formats
<1> QED BY <1>2, <1>3, <1>4, <1>5, <1>6, <1>7, <1>8, <1>9, <1>10, <1>11, <1>12, <1>13 DEF Next

LEMMA InitSound == Init => Sound
<1> SUFFICES ASSUME Init PROVE Sound
  OBVIOUS
<1>1. NamesInSlots
  <2>1. ASSUME NEW a \in Addresses PROVE ~ IsName(disk[a])
    <3>1. disk[a] = ZERO \/ \E k \in 0 .. BootCells - 1 : disk[a] = Code(k)
      <4>1. disk[a] = IF a < BootCells THEN BootSector[a] ELSE ZERO
        BY DEF Init
      <4>2. a \in Nat /\ BootCells \in Nat
        BY SizesAssumption DEF Addresses
      <4>3. a < BootCells => a \in 0 .. BootCells - 1
        BY <4>2
      <4> QED BY <4>1, <4>3 DEF BootSector
    <3> QED BY <3>1, CellKinds
  <2>2. DOMAIN sector0 = {}
    BY DEF Init
  <2> QED BY <2>1, <2>2 DEF NamesInSlots
<1> QED BY <1>1 DEF Init, Sound, Surroundings, FromRecipe, Running, Formatting, Formats

LEMMA NextSound ==
    TypeOK /\ Room /\ ExtentsApart /\ Order /\ RoomLeft /\ InImage /\ Sound /\ [Next]_vars
        => Sound'
<1> SUFFICES ASSUME TypeOK, Room, ExtentsApart, Order, RoomLeft, InImage, Sound, [Next]_vars,
                    user.discipline # "any"
             PROVE  Surroundings' /\ (Mkfs \in done' => Growing')
  BY DEF Sound, Next, vars
<1>1. /\ NamesInSlots /\ FromRecipe /\ Formatting
      /\ Mkfs \in done => Growing
  BY DEF Sound, Surroundings
<1>2. FromRecipe' /\ Formatting'
  BY <1>1, CallsInOrder
<1> SUFFICES NamesInSlots' /\ (Mkfs \in done' => Growing')
  BY <1>2 DEF Surroundings
<1>3. ASSUME inode_count' = inode_count, NEW P \in [InUse -> Seq(STRING)], Grows(P)'
      PROVE  Growing'
  BY <1>3 DEF Growing, InUse
<1>4. CASE Stamp
  <2>1. \A a \in DOMAIN BootSector : ~ IsName(BootSector[a])
    BY CellKinds DEF BootSector
  <2>2. NamesInSlots'
    BY <1>1, <1>4, <2>1, NamesWritten DEF Stamp, tool
  <2> QED BY <1>4, <2>2 DEF Stamp
<1>5. CASE mkfs
  <2>1. NamesInSlots'
    BY <1>1, <1>5, BeginNames DEF mkfs, image
  <2> QED BY <1>5, <2>1 DEF mkfs
<1>6. CASE FormatSuper
  <2>1. done' = {} /\ sector0' = sector0 /\ Write(Block(0), sector0)
    BY <1>1, <1>6 DEF FormatSuper, Formatting, Formats, past, tool
  <2> QED BY <1>1, <2>1, NamesWritten DEF NamesInSlots
<1>7. CASE FormatInodes
  <2>1. done' = {} /\ sector0' = sector0 /\ disk' = disk
    BY <1>1, <1>7 DEF FormatInodes, Formatting, Formats, past, tool
  <2> QED BY <1>1, <2>1 DEF NamesInSlots
<1>8. CASE FormatRoot
  BY <1>1, <1>8, FormatGrows
<1>9. ASSUME NEW c \in user.calls, mcopy(c) \/ mdir(c)
      PROVE  NamesInSlots' /\ (Mkfs \in done' => Growing')
  <2>1. /\ disk' = disk /\ done' = done /\ inode_count' = inode_count
        /\ c.tool \in {"mdir", "mcopy"} /\ \E first : Begin(c, first)
    BY <1>9 DEF mcopy, mdir, image, past
  <2>2. NamesInSlots'
    BY <1>1, <2>1, BeginNames
  <2>3. Mkfs.tool = "mkfs"
    BY DEF Mkfs
  <2>4. c # Mkfs
    BY <2>1, <2>3
  <2>5. ASSUME Mkfs \in done PROVE Growing'
    <3>1. PICK P \in [InUse -> Seq(STRING)] : Grows(P)
      BY <1>1, <2>5 DEF Growing
    <3>2. Grows(P)'
      BY <1>1, <1>9, <2>4, <2>5, <3>1, BeginGrows
    <3> QED BY <1>3, <2>1, <3>2
  <2> QED BY <2>1, <2>2, <2>5
<1>10. ASSUME NEW c \in user.calls, mdir_exists(c)
       PROVE  NamesInSlots' /\ (Mkfs \in done' => Growing')
  <2>1. /\ disk' = disk /\ sector0' = sector0 /\ done' = done \cup {c}
        /\ inode_count' = inode_count /\ c.tool = "mdir"
    BY <1>10 DEF mdir_exists, image, tool
  <2>2. NamesInSlots'
    BY <1>1, <2>1 DEF NamesInSlots
  <2>3. Mkfs.tool = "mkfs"
    BY DEF Mkfs
  <2>4. ASSUME Mkfs \in done' PROVE Growing'
    <3>1. Mkfs \in done
      BY <2>1, <2>3, <2>4
    <3>2. PICK P \in [InUse -> Seq(STRING)] : Grows(P)
      BY <1>1, <3>1 DEF Growing
    <3>3. Grows(P)'
      BY <1>1, <1>10, <3>1, <3>2, ExistsGrows
    <3> QED BY <1>3, <2>1, <3>3
  <2> QED BY <2>2, <2>4
<1>11. CASE WriteEmpty \/ WriteData \/ WriteDir \/ WriteInodes \/ WriteSuper \/ DirectoryFull
  <2>1. pc \in {"data", "dir", "inodes", "super"}
    BY <1>11 DEF WriteEmpty, WriteData, WriteDir, WriteInodes, WriteSuper, DirectoryFull
  <2>2. call # Mkfs /\ Mkfs \in done
    BY <1>1, <2>1 DEF Formatting, Formats
  <2>3. PICK P \in [InUse -> Seq(STRING)] : Grows(P)
    BY <1>1, <2>2 DEF Growing
  <2>4. CASE WriteEmpty
    BY <1>1, <1>3, <2>3, <2>4, WriteEmptyGrows DEF WriteEmpty
  <2>5. CASE WriteData
    BY <1>1, <1>3, <2>3, <2>5, WriteDataGrows DEF WriteData
  <2>6. CASE WriteDir
    BY <1>1, <1>3, <2>2, <2>3, <2>6, WriteDirGrows DEF WriteDir
  <2>7. CASE WriteInodes
    BY <1>1, <1>3, <2>2, <2>3, <2>7, WriteInodesGrows DEF WriteInodes
  <2>8. CASE WriteSuper
    BY <1>1, <2>2, <2>3, <2>8, WriteSuperGrows DEF Growing
  <2>9. CASE DirectoryFull
    BY <2>2, <2>3, <2>9, NeverFull
  <2> QED BY <1>11, <2>4, <2>5, <2>6, <2>7, <2>8, <2>9
<1>12. CASE Interrupt
  <2>1. /\ disk' = disk /\ sector0' = sector0 /\ done' = done /\ inode_count' = inode_count
    BY <1>12 DEF Interrupt, image, tool
  <2>2. NamesInSlots'
    BY <1>1, <2>1 DEF NamesInSlots
  <2>3. ASSUME Mkfs \in done PROVE Growing'
    <3>1. PICK P \in [InUse -> Seq(STRING)] : Grows(P)
      BY <1>1, <2>3 DEF Growing
    <3> QED BY <1>3, <1>12, <2>1, <3>1, InterruptGrows
  <2> QED BY <2>1, <2>2, <2>3
<1>13. CASE UNCHANGED vars
  <2>1. UNCHANGED <<disk, inode_count, inodes, pc, call, sector0, cur, next_block, i, done, torn>>
    BY <1>13 DEF vars, image, tool, past
  <2>2. NamesInSlots'
    BY <1>1, <2>1 DEF NamesInSlots
  <2>3. Growing => Growing'
    <3> SUFFICES ASSUME NEW P \in [InUse -> Seq(STRING)], Grows(P) PROVE Growing'
      BY DEF Growing
    <3>1. Target' = Target /\ Spared
      BY <2>1 DEF Target, Spared, CellsStay
    <3>2. Tree(P)' /\ Fresh(P)'
      BY <2>1, <3>1, SparedTree, FreshStays DEF Grows
    <3>3. Written' = Written /\ Dirs' = Dirs
      BY <2>1 DEF Written, Copied, CellsOf, Leads, NameAt, IndexAt, EntryAt, NewInode, Dirs, InUse
    <3>4. Working(P)'
      BY <2>1, <3>3 DEF Grows, Working
    <3> QED BY <1>3, <2>1, <3>2, <3>4 DEF Grows
  <2> QED BY <1>1, <2>1, <2>2, <2>3
<1> QED BY <1>4, <1>5, <1>6, <1>7, <1>8, <1>9, <1>10, <1>11, <1>12, <1>13 DEF Next

\* It says what the properties do.
LEMMA SoundKeeps == TypeOK /\ Sound => FilesKept /\ DirsKept
<1> SUFFICES ASSUME TypeOK, Sound PROVE FilesKept /\ DirsKept
  OBVIOUS
<1>1. CASE user.discipline = "any"
  BY <1>1 DEF FilesKept, DirsKept
<1>2. CASE user.discipline # "any" /\ Mkfs \notin done
  BY <1>2 DEF Sound, Surroundings, Formatting, FilesKept, DirsKept
<1>3. CASE user.discipline # "any" /\ Mkfs \in done
  <2>1. PICK P \in [InUse -> Seq(STRING)] : Grows(P)
    BY <1>3 DEF Sound, Growing
  <2> QED BY <2>1, TreeKeeps DEF Grows
<1> QED BY <1>1, <1>2, <1>3

\* Every state is sound, as long as no directory fills its block.
LEMMA AlwaysSound ==
    Spec /\ [](RoomLeft /\ InImage) =>
        []((TypeOK /\ Room) /\ (ExtentsApart /\ Order) /\ Sound)
<1>1. Spec => [](TypeOK /\ Room)
  BY InitTypes, NextTypes, PTL DEF Spec
<1>2. (TypeOK /\ Room) /\ (TypeOK /\ Room)' /\ ExtentsApart /\ Order /\ [Next]_vars
          => (ExtentsApart /\ Order)'
  BY NextOrder
<1>3. Spec => [](ExtentsApart /\ Order)
  BY <1>1, <1>2, InitApart, PTL DEF Spec
<1>4. (TypeOK /\ Room) /\ (ExtentsApart /\ Order) /\ (RoomLeft /\ InImage) /\ Sound
          /\ [Next]_vars => Sound'
  BY NextSound
<1> QED BY <1>1, <1>3, <1>4, InitSound, PTL DEF Spec

\* As long as no directory fills its block, what mcopy has reported as done to a
\* prudent user stays readable under its path, whole, whatever is copied,
\* interrupted and repeated after it (mcopy.labfs.c:211).
THEOREM CopiedStays == Spec /\ [](RoomLeft /\ InImage) => []FilesKept
<1>1. TypeOK /\ Sound => FilesKept
  BY SoundKeeps
<1> QED BY <1>1, AlwaysSound, PTL

\* As long as no directory fills its block, what mdir has reported to make or to
\* a prudent user, as created or as existing, stays a directory under its path
\* (mdir.labfs.c:135, 185).
THEOREM CreatedStays == Spec /\ [](RoomLeft /\ InImage) => []DirsKept
<1>1. TypeOK /\ Sound => DirsKept
  BY SoundKeeps
<1> QED BY <1>1, AlwaysSound, PTL

-----------------------------------------------------------------------------
(* What is left of tools that did not finish.  Readers come across it:     *)
(* they ask neither whether an inode counts nor whether it is a directory. *)

\* The tool that runs, or that was interrupted.
Current == IF pc = "idle" THEN torn ELSE call

\* The table behind the inodes in use is as it was formatted, but for one inode,
\* of a file or of an empty directory.
EmptyDir(n) == \A e \in Entries : NameAt(inodes[n], e) = ZERO
Uncounted ==
    \A n \in inode_count .. MaxFiles - 1 :
        inodes[n] # NoInode =>
            /\ n = inode_count
            /\ \/ Current.tool = "mcopy"
               \/ Current.tool = "mdir" /\ pc \in {"idle", "super"} /\ EmptyDir(n)
TornFits == torn # NoCall => inode_count < MaxFiles

\* No name is in the boot sector, where inodes point that were never written.
BootUnnamed ==
    /\ \A a \in Block(0) : ~ IsName(disk[a])
    /\ \A a \in DOMAIN sector0 : ~ IsName(sector0[a])

Tidy ==
    user.discipline # "any" =>
        /\ BootUnnamed
        /\ pc = "format_root" => \A n \in 1 .. MaxFiles - 1 : inodes[n] = NoInode
        /\ Mkfs \in done => Uncounted /\ TornFits

\* Sector 0 is the first block of the image.
LEMMA SectorThere ==
    /\ Block(0) \subseteq Addresses
    /\ \A a \in Block(0) : a < BlockCells
  <1>1. BlockCells \in Nat /\ 0 * BlockCells + BlockCells <= ImageBlocks * BlockCells
    BY BlocksInOrder DEF DATA_START
  <1> QED BY <1>1 DEF Block, Addresses

\* A write without names, or behind the boot sector, puts none there.
LEMMA BootUntouched ==
    ASSUME BootUnnamed, sector0' = sector0, NEW S, NEW new, Write(S, new),
           \A a \in DOMAIN new : IsName(new[a]) => a \notin Block(0)
    PROVE  BootUnnamed'
  <1>1. ASSUME NEW a \in Block(0) PROVE ~ IsName(disk'[a])
    <2>1. a \in Addresses
      BY SectorThere
    <2>2. disk'[a] = IF a \in DOMAIN new THEN new[a] ELSE IF a \in S THEN ZERO ELSE disk[a]
      BY <2>1 DEF Write
    <2> QED BY <2>2, CellKinds DEF BootUnnamed
  <1> QED BY <1>1 DEF BootUnnamed

LEMMA InitTidy == Init => Tidy
<1> SUFFICES ASSUME Init PROVE Tidy
  OBVIOUS
<1>1. ASSUME NEW a \in Block(0) PROVE ~ IsName(disk[a])
  <2>1. a \in Addresses /\ a \in Nat
    BY SectorThere DEF Addresses
  <2>2. disk[a] = IF a < BootCells THEN BootSector[a] ELSE ZERO
    BY <2>1 DEF Init
  <2>3. a < BootCells => a \in 0 .. BootCells - 1
    BY <2>1
  <2>4. disk[a] = ZERO \/ \E k : disk[a] = Code(k)
    BY <2>2, <2>3 DEF BootSector
  <2> QED BY <2>4, CellKinds
<1>2. DOMAIN sector0 = {}
  BY DEF Init
<1>3. BootUnnamed
  BY <1>1, <1>2 DEF BootUnnamed
<1> QED BY <1>3 DEF Init, Tidy

\* A tool that begins reads the boot sector, and is the one that was interrupted,
\* if there is one.
LEMMA BeginTidy ==
    ASSUME TypeOK, Sound, Tidy, user.discipline # "any",
           NEW c \in user.calls, mcopy(c) \/ mdir(c)
    PROVE  BootUnnamed' /\ (Mkfs \in done' => (Uncounted /\ TornFits)')
<1>1. /\ \E first : Begin(c, first) /\ UNCHANGED <<disk, inode_count, inodes, done, torn>>
      /\ pc = "idle" /\ pc' \in {"data", "dir"} /\ call' = c /\ Allowed(c)
      /\ c.tool \in {"mdir", "mcopy"}
  BY DEF mcopy, mdir, Begin, image, past
<1>2. BootUnnamed'
  <2>1. sector0' = [a \in Block(0) |-> disk[a]]
    BY <1>1 DEF Begin
  <2> QED BY <1>1, <2>1 DEF BootUnnamed, Tidy
<1>3. ASSUME Mkfs \in done PROVE (Uncounted /\ TornFits)'
  <2>0. Mkfs.tool = "mkfs"
    BY DEF Mkfs
  <2>1. c # Mkfs
    BY <1>1, <2>0
  <2>2. torn = NoCall \/ (torn = c /\ c.tool = "mcopy")
    BY <1>1, <1>3, <2>1, AllowedFacts DEF Sound, Surroundings
  <2>3. NoCall.tool = "none"
    BY DEF NoCall
  <2>4. Uncounted /\ TornFits
    BY <1>3 DEF Tidy
  <2>5. Current = torn /\ Current' = c
    BY <1>1 DEF Current
  <2>6. \A n \in inode_count .. MaxFiles - 1 :
            inodes[n] # NoInode => n = inode_count /\ c.tool = "mcopy"
    BY <2>2, <2>3, <2>4, <2>5 DEF Uncounted
  <2>7. Uncounted'
    BY <1>1, <2>5, <2>6 DEF Uncounted
  <2>8. TornFits'
    BY <1>1, <2>4 DEF TornFits
  <2> QED BY <2>7, <2>8
<1> QED BY <1>1, <1>2, <1>3

\* The writes of mdir and mcopy lie behind the boot sector.
LEMMA WritesTidy ==
    ASSUME TypeOK, Room, Order, Sound, Tidy, RoomLeft, user.discipline # "any",
           WriteEmpty \/ WriteData \/ WriteDir
    PROVE  (BootUnnamed /\ Uncounted /\ TornFits)' /\ Mkfs \in done
<1>1. /\ pc \in {"data", "dir"} /\ pc' \in {"data", "dir", "inodes"}
      /\ UNCHANGED <<inode_count, inodes, call, sector0, cur, next_block, done, torn>>
  BY DEF WriteEmpty, WriteData, WriteDir, tool, past
<1>2. call # Mkfs /\ Mkfs \in done
  BY <1>1 DEF Sound, Surroundings, Formatting, Formats
<1>3. PICK P \in [InUse -> Seq(STRING)] : Grows(P)
  BY <1>2 DEF Sound, Growing
<1>4. Uncounted'
  <2>1. Current = call /\ Current' = call
    BY <1>1 DEF Current
  <2> QED BY <1>1, <1>2, <2>1 DEF Uncounted, Tidy
<1>5. TornFits'
  BY <1>1, <1>2 DEF TornFits, Tidy
<1>6. CASE WriteEmpty \/ WriteData
  <2>1. PICK S, new : Write(S, new) /\ \A a \in DOMAIN new : ~ IsName(new[a])
    <3>1. CASE WriteEmpty
      <4>1. PICK S : Write(S, <<>>)
        BY <3>1 DEF WriteEmpty
      <4> QED BY <4>1
    <3>2. CASE WriteData
      <4> DEFINE from == (next_block + i) * BlockCells
                 rest == Length[call.src] - i * BlockCells
                 n    == IF rest < BlockCells THEN rest ELSE BlockCells
                 new  == [a \in from .. from + n - 1 |-> Data(call.src, i * BlockCells + a - from)]
      <4>1. Write(Block(next_block + i), new)
        BY <3>2 DEF WriteData
      <4>2. \A a \in DOMAIN new : ~ IsName(new[a])
        BY CellKinds
      <4> HIDE DEF new
      <4> QED BY <4>1, <4>2
    <3> QED BY <1>6, <3>1, <3>2
  <2> QED BY <1>1, <1>2, <1>4, <1>5, <2>1, BootUntouched DEF Tidy
<1>7. CASE WriteDir
  <2>1. PICK e \in Entries :
            LET from == EntryAt(NewInodes[cur], e)
                to   == from + EntryCells - 1
            IN  Write(from .. to, [a \in {from, to} |->
                    IF a = from THEN Name(Last(call.path)) ELSE Index(inode_count)])
    BY <1>7 DEF WriteDir
  <2>2. cur \in InUse /\ inodes[cur].start \in Nat /\ inodes[cur].start >= DATA_START
        /\ NewInodes[cur] = inodes[cur]
    <3>1. cur \in Dirs /\ cur \in InUse
      BY <1>1, <1>3 DEF Grows, Working, Dirs
    <3>2. cur # inode_count /\ inode_count \in 0 .. MaxFiles - 1 /\ cur \in 0 .. MaxFiles - 1
      BY <1>1, <1>2, <3>1, WriterPath DEF InUse, TypeOK
    <3>3. inodes[cur].start \in Nat /\ inodes[cur].start >= DATA_START
      BY <1>3, <3>1, UseFacts DEF Grows, Tree, Placed
    <3> QED BY <3>1, <3>2, <3>3 DEF NewInodes, TypeOK
  <2> DEFINE from == EntryAt(inodes[cur], e)
             to   == from + EntryCells - 1
  <2>3. from \in Nat /\ to \in Nat /\ from >= BlockCells /\ to >= BlockCells
    <3>1. e \in Nat /\ e * EntryCells \in Nat
      BY PerBlock DEF Entries
    <3>2. PICK s \in Nat : s = inodes[cur].start /\ 0 < s
      BY <2>2 DEF DATA_START
    <3>3. 0 * BlockCells + BlockCells <= s * BlockCells /\ s * BlockCells \in Nat
      BY <3>2, BlocksInOrder
    <3>4. PICK b \in Nat, k \in Nat : b = s * BlockCells /\ k = e * EntryCells /\ BlockCells <= b
      BY <3>1, <3>3
    <3>5. from = b + k
      BY <3>2, <3>4 DEF EntryAt
    <3> HIDE DEF from
    <3> QED BY <3>4, <3>5
  <2>4. PICK new : Write(from .. to, new) /\ DOMAIN new = {from, to}
    <3> DEFINE new == [a \in {from, to} |->
                          IF a = from THEN Name(Last(call.path)) ELSE Index(inode_count)]
    <3>1. Write(from .. to, new)
      BY <2>1, <2>2
    <3>2. DOMAIN new = {from, to}
      OBVIOUS
    <3> HIDE DEF new
    <3> QED BY <3>1, <3>2
  <2>5. \A a \in DOMAIN new : a \notin Block(0)
    <3> HIDE DEF from, to
    <3> QED BY <2>3, <2>4, SectorThere
  <2> QED BY <1>1, <1>2, <1>4, <1>5, <2>4, <2>5, BootUntouched DEF Tidy
<1> QED BY <1>2, <1>4, <1>5, <1>6, <1>7

\* When the inode of a directory is written, the directory has been emptied.
LEMMA WriteInodesTidy ==
    ASSUME TypeOK, Room, Sound, Tidy, user.discipline # "any", WriteInodes
    PROVE  (BootUnnamed /\ Uncounted /\ TornFits)' /\ Mkfs \in done
<1>1. /\ pc = "inodes" /\ pc' = "super" /\ inodes' = NewInodes
      /\ UNCHANGED <<disk, inode_count, call, sector0, cur, next_block, done, torn>>
  BY DEF WriteInodes, tool, past
<1>2. call # Mkfs /\ Mkfs \in done
  BY <1>1 DEF Sound, Surroundings, Formatting, Formats
<1>3. PICK P \in [InUse -> Seq(STRING)] : Grows(P)
  BY <1>2 DEF Sound, Growing
<1>4. inode_count \in 0 .. MaxFiles - 1 /\ call.tool \in {"mdir", "mcopy"} /\ next_block \in Nat
  BY <1>1, <1>2, WriterPath
<1>5. /\ inodes'[inode_count] = NewInode
      /\ \A n \in 0 .. MaxFiles - 1 : n # inode_count => inodes'[n] = inodes[n]
  BY <1>1, <1>4 DEF NewInodes, TypeOK
<1>6. Current = call /\ Current' = call
  BY <1>1 DEF Current
<1>7. ASSUME NEW n, n = inode_count, call.tool = "mdir" PROVE EmptyDir(n)'
  <2> SUFFICES ASSUME NEW e \in Entries
               PROVE  disk[NewInode.start * BlockCells + e * EntryCells] = ZERO
    BY <1>1, <1>5, <1>7 DEF EmptyDir, NameAt, EntryAt, Entries
  <2>1. NewInode.start = next_block
    BY DEF NewInode
  <2>2. \A k \in 0 .. MaxFiles * EntryCells - 1 : disk[next_block * BlockCells + k] = ZERO
    BY <1>1, <1>3, <1>7 DEF Grows, Working, Written
  <2>3. e * EntryCells \in 0 .. MaxFiles * EntryCells - 1
    <3>1. e \in Nat /\ e < MaxFiles
      BY DEF Entries
    <3> QED BY <3>1, EntriesInOrder
  <2> QED BY <2>1, <2>2, <2>3
<1>8. Uncounted'
  <2> SUFFICES ASSUME NEW n \in inode_count .. MaxFiles - 1, inodes'[n] # NoInode
               PROVE  n = inode_count /\ (call.tool = "mcopy" \/ (call.tool = "mdir" /\ EmptyDir(n)'))
    BY <1>1, <1>6 DEF Uncounted
  <2>1. n = inode_count
    BY <1>2, <1>4, <1>5 DEF Uncounted, Tidy
  <2> QED BY <1>4, <1>7, <2>1
<1>9. (BootUnnamed /\ TornFits)'
  BY <1>1, <1>2 DEF BootUnnamed, TornFits, Tidy
<1> QED BY <1>2, <1>8, <1>9

LEMMA NextTidy ==
    TypeOK /\ Room /\ ExtentsApart /\ Order /\ RoomLeft /\ InImage /\ Sound /\ Tidy /\ [Next]_vars
        => Tidy'
<1> SUFFICES ASSUME TypeOK, Room, ExtentsApart, Order, RoomLeft, InImage, Sound, Tidy, [Next]_vars,
                    user.discipline # "any"
             PROVE  /\ BootUnnamed'
                    /\ pc' = "format_root" => \A n \in 1 .. MaxFiles - 1 : inodes'[n] = NoInode
                    /\ Mkfs \in done' => (Uncounted /\ TornFits)'
  BY DEF Tidy, Next, vars
<1>1. /\ BootUnnamed /\ Formatting /\ NamesInSlots
      /\ Mkfs \in done => Uncounted /\ TornFits
  BY DEF Sound, Surroundings, Tidy
<1>2. CASE Stamp
  <2>1. \A a \in DOMAIN BootSector : ~ IsName(BootSector[a])
    BY CellKinds DEF BootSector
  <2> QED BY <1>1, <1>2, <2>1, BootUntouched DEF Stamp, tool
<1>3. CASE mkfs
  <2>1. pc' = "format" /\ done' = {} /\ disk' = disk /\ sector0' = [a \in Block(0) |-> disk[a]]
    BY <1>3 DEF mkfs, Begin, image
  <2> QED BY <1>1, <2>1 DEF BootUnnamed
<1>4. CASE FormatSuper
  <2>1. pc' = "format_inodes" /\ done' = {} /\ sector0' = sector0 /\ Write(Block(0), sector0)
    BY <1>1, <1>4 DEF FormatSuper, Formatting, Formats, past, tool
  <2> QED BY <1>1, <2>1, BootUntouched DEF BootUnnamed
<1>5. CASE FormatInodes
  <2>1. done' = {} /\ sector0' = sector0 /\ disk' = disk
    BY <1>1, <1>5 DEF FormatInodes, Formatting, Formats, past, tool
  <2>2. \A n \in 1 .. MaxFiles - 1 : inodes'[n] = NoInode
    BY <1>5 DEF FormatInodes
  <2> QED BY <1>1, <2>1, <2>2 DEF BootUnnamed
<1>6. CASE FormatRoot
  <2>1. /\ pc = "format_root" /\ pc' = "idle" /\ torn' = NoCall /\ sector0' = sector0
        /\ inodes' = inodes /\ inode_count' = inode_count /\ Write(Block(DATA_START), <<>>)
    BY <1>6 DEF FormatRoot, Return, tool
  <2>2. BootUnnamed'
    BY <1>1, <2>1, BootUntouched
  <2>3. inode_count = 1 /\ \A n \in 1 .. MaxFiles - 1 : inodes[n] = NoInode
    BY <1>1, <2>1 DEF Formatting, Tidy
  <2> QED BY <2>1, <2>2, <2>3 DEF Uncounted, TornFits
<1>7. ASSUME NEW c \in user.calls, mcopy(c) \/ mdir(c)
      PROVE  /\ BootUnnamed' /\ pc' # "format_root"
             /\ Mkfs \in done' => (Uncounted /\ TornFits)'
  <2>1. pc' # "format_root"
    BY <1>7 DEF mcopy, mdir, Begin
  <2> QED BY <1>7, <2>1, BeginTidy
<1>8. ASSUME NEW c \in user.calls, mdir_exists(c)
      PROVE  /\ BootUnnamed' /\ pc' # "format_root"
             /\ Mkfs \in done' => (Uncounted /\ TornFits)'
  <2>1. /\ pc = "idle" /\ done' = done \cup {c} /\ c.tool = "mdir"
        /\ UNCHANGED <<disk, inode_count, inodes, pc, call, sector0, torn>>
    BY <1>8 DEF mdir_exists, image, tool
  <2>2. Mkfs.tool = "mkfs"
    BY DEF Mkfs
  <2>3. BootUnnamed' /\ (Uncounted => Uncounted') /\ (TornFits => TornFits')
    BY <1>1, <2>1 DEF BootUnnamed, Uncounted, TornFits, Current, EmptyDir, NameAt, EntryAt
  <2> QED BY <1>1, <2>1, <2>2, <2>3
<1>9. CASE WriteEmpty \/ WriteData \/ WriteDir
  <2>1. pc' # "format_root"
    BY <1>9 DEF WriteEmpty, WriteData, WriteDir
  <2> QED BY <1>9, <2>1, WritesTidy
<1>10. CASE WriteInodes
  <2>1. pc' # "format_root"
    BY <1>10 DEF WriteInodes
  <2> QED BY <1>10, <2>1, WriteInodesTidy
<1>11. CASE WriteSuper
  <2>1. /\ pc = "super" /\ pc' = "idle" /\ inode_count' = inode_count + 1 /\ Write(Block(0), sector0)
        /\ torn' = NoCall /\ sector0' = sector0 /\ inodes' = inodes
    BY <1>11 DEF WriteSuper, Return, tool
  <2>2. BootUnnamed'
    BY <1>1, <2>1, BootUntouched DEF BootUnnamed
  <2>3. Mkfs \in done
    BY <1>1, <2>1 DEF Formatting, Formats
  <2>4. \A n \in inode_count + 1 .. MaxFiles - 1 : inodes[n] = NoInode
    <3>1. inode_count \in Nat
      BY DEF TypeOK
    <3> QED BY <1>1, <2>3, <3>1 DEF Uncounted
  <2> QED BY <2>1, <2>2, <2>4 DEF Uncounted, TornFits
<1>12. CASE DirectoryFull
  <2>1. pc = "dir"
    BY <1>12 DEF DirectoryFull
  <2>2. call # Mkfs /\ Mkfs \in done
    BY <1>1, <2>1 DEF Formatting, Formats
  <2>3. PICK P \in [InUse -> Seq(STRING)] : Grows(P)
    BY <2>2 DEF Sound, Growing
  <2> QED BY <1>12, <2>2, <2>3, NeverFull
<1>13. CASE Interrupt
  <2>1. /\ pc # "idle" /\ pc' = "idle" /\ torn' = call
        /\ UNCHANGED <<disk, inode_count, inodes, sector0, done>>
    BY <1>13 DEF Interrupt, image, tool
  <2>2. BootUnnamed'
    BY <1>1, <2>1 DEF BootUnnamed
  <2>3. ASSUME Mkfs \in done PROVE (Uncounted /\ TornFits)'
    <3>1. pc \in {"data", "dir", "inodes", "super"}
      BY <1>1, <2>1, <2>3 DEF Formatting, Formats, TypeOK
    <3>2. inode_count < MaxFiles
      BY <3>1 DEF Room
    <3>3. Uncounted'
      BY <1>1, <2>1, <2>3 DEF Uncounted, Current, EmptyDir, NameAt, EntryAt
    <3> QED BY <2>1, <3>2, <3>3 DEF TornFits
  <2> QED BY <2>1, <2>2, <2>3
<1>14. CASE UNCHANGED vars
  <2>1. UNCHANGED <<disk, inode_count, inodes, pc, call, sector0, done, torn>>
    BY <1>14 DEF vars, image, tool, past
  <2> QED BY <1>1, <2>1 DEF Tidy, BootUnnamed, Uncounted, TornFits, Current, EmptyDir, NameAt, EntryAt
<1> QED BY <1>2, <1>3, <1>4, <1>5, <1>6, <1>7, <1>8, <1>9, <1>10, <1>11, <1>12, <1>13, <1>14 DEF Next

-----------------------------------------------------------------------------
(* What readers find.                                                      *)

\* No call's path leads through a file of another's.
PathsApart ==
    \A c \in Calls, d \in Calls \ {Mkfs} :
        d.tool = "mcopy" /\ d.path # c.path => ~ Begins(d.path, c.path)

\* Stage 2 follows a path as the tools do, but for what it finds in a directory.
first_seen(n, x) ==
    CHOOSE e \in SeenBy2(inodes[n], x) : \A f \in SeenBy2(inodes[n], x) : e <= f

Seen(x) ==
    [n \in -1 .. MaxFiles - 1 |-> IF n = NONE \/ SeenBy2(inodes[n], x) = {} THEN NONE
                                  ELSE IndexAt(inodes[n], first_seen(n, x))]

ReadAlong(path, w, k) == IF k = 0 THEN 0 ELSE Seen(path[k])[w[k - 1]]

LEMMA ReadFacts ==
    ASSUME NEW p \in Seq(STRING)
    PROVE  \E w : /\ resolve_path(p) = w[Len(p)]
                  /\ \A k \in 0 .. Len(p) : w[k] = ReadAlong(p, w, k)
<1> DEFINE Goes(f, n) == f = [k \in 0 .. n |-> ReadAlong(p, f, k)]
           S == {n \in Nat : \E f : Goes(f, n)}
<1>1. 0 \in S
  <2> DEFINE f == [k \in 0 .. 0 |-> 0]
  <2>1. \A k \in 0 .. 0 : ReadAlong(p, f, k) = 0
    BY DEF ReadAlong
  <2>2. Goes(f, 0)
    <3> HIDE DEF ReadAlong
    <3> QED BY <2>1
  <2> QED BY <2>2
<1>2. ASSUME NEW n \in Nat, n \in S PROVE n + 1 \in S
  <2>1. PICK f : Goes(f, n)
    BY <1>2
  <2> DEFINE g == [k \in 0 .. n + 1 |-> IF k <= n THEN f[k] ELSE ReadAlong(p, f, n + 1)]
  <2>2. ASSUME NEW k \in 0 .. n + 1 PROVE g[k] = ReadAlong(p, g, k)
    <3>1. k # 0 => k - 1 \in 0 .. n /\ g[k - 1] = f[k - 1]
      OBVIOUS
    <3>2. ReadAlong(p, g, k) = ReadAlong(p, f, k)
      <4> HIDE DEF g
      <4> QED BY <3>1 DEF ReadAlong
    <3>3. g[k] = ReadAlong(p, f, k)
      <4>1. CASE k <= n
        <5>1. k \in 0 .. n /\ g[k] = f[k]
          BY <4>1
        <5> HIDE DEF g
        <5> QED BY <2>1, <5>1
      <4>2. CASE k = n + 1
        BY <4>2
      <4> QED BY <4>1, <4>2
    <3> QED BY <3>2, <3>3
  <2>3. g = [k \in 0 .. n + 1 |-> g[k]]
    OBVIOUS
  <2>4. Goes(g, n + 1)
    <3> HIDE DEF g
    <3> QED BY <2>2, <2>3
  <2> HIDE DEF g, Goes
  <2> QED BY <2>4
<1>3. Len(p) \in S
  <2> HIDE DEF S
  <2> QED BY <1>1, <1>2, Induction
<1> DEFINE w == CHOOSE f : Goes(f, Len(p))
<1>4. Goes(w, Len(p))
  <2>1. \E f : Goes(f, Len(p))
    BY <1>3
  <2> HIDE DEF Goes
  <2> QED BY <2>1
<1>5. \A k \in 0 .. Len(p) : w[k] = ReadAlong(p, w, k)
  <2> HIDE DEF w
  <2> QED BY <1>4
<1>6. resolve_path(p) = w[Len(p)]
  BY DEF resolve_path, ReadAlong, Seen, first_seen
<1> HIDE DEF w
<1> QED BY <1>5, <1>6

LEMMA ReadStep ==
    ASSUME NEW p \in Seq(STRING), p # <<>>
    PROVE  resolve_path(p) = Seen(Last(p))[resolve_path(Parent(p))]
<1>1. PICK w : /\ resolve_path(p) = w[Len(p)]
               /\ \A k \in 0 .. Len(p) : w[k] = ReadAlong(p, w, k)
  BY ReadFacts
<1>2. PICK v : /\ resolve_path(Parent(p)) = v[Len(p) - 1]
               /\ \A k \in 0 .. Len(p) - 1 : v[k] = ReadAlong(Parent(p), v, k)
  <2>1. Parent(p) \in Seq(STRING) /\ Len(Parent(p)) = Len(p) - 1
    BY PathSplit
  <2> QED BY <2>1, ReadFacts
<1> DEFINE S == {n \in Nat : n <= Len(p) - 1 => w[n] = v[n]}
<1>3. 0 \in S
  <2>1. Len(p) \in Nat \ {0}
    BY PathSplit
  <2>2. 0 \in 0 .. Len(p) /\ 0 \in 0 .. Len(p) - 1
    BY <2>1
  <2>3. w[0] = ReadAlong(p, w, 0) /\ v[0] = ReadAlong(Parent(p), v, 0)
    BY <1>1, <1>2, <2>2
  <2>4. w[0] = 0 /\ v[0] = 0
    BY <2>3 DEF ReadAlong
  <2> QED BY <2>4
<1>4. ASSUME NEW n \in Nat, n \in S PROVE n + 1 \in S
  <2> SUFFICES ASSUME n + 1 <= Len(p) - 1 PROVE w[n + 1] = v[n + 1]
    OBVIOUS
  <2>0. Len(p) \in Nat
    BY PathSplit
  <2>1. w[n] = v[n] /\ n + 1 \in 0 .. Len(p) /\ n + 1 \in 0 .. Len(p) - 1 /\ n + 1 # 0
    BY <1>4, <2>0
  <2>2. Parent(p)[n + 1] = p[n + 1] /\ (n + 1) - 1 = n
    BY <2>0, PathSplit
  <2>3. w[n + 1] = ReadAlong(p, w, n + 1) /\ v[n + 1] = ReadAlong(Parent(p), v, n + 1)
    BY <1>1, <1>2, <2>1
  <2>4. ReadAlong(p, w, n + 1) = ReadAlong(Parent(p), v, n + 1)
    BY <2>1, <2>2 DEF ReadAlong
  <2> QED BY <2>3, <2>4
<1>5. Len(p) - 1 \in Nat /\ Len(p) - 1 \in S
  <2>1. Nat \subseteq S
    <3> HIDE DEF S
    <3> QED BY <1>3, <1>4, Induction
  <2> QED BY <2>1, PathSplit
<1>6. w[Len(p) - 1] = resolve_path(Parent(p))
  BY <1>2, <1>5
<1>7. Len(p) \in 0 .. Len(p) /\ Len(p) # 0
  BY PathSplit
<1>8. resolve_path(p) = ReadAlong(p, w, Len(p))
  BY <1>1, <1>7
<1> QED BY <1>6, <1>7, <1>8 DEF ReadAlong, Last

LEMMA ReadRoot == resolve_path(<<>>) = 0
<1>1. PICK p \in Seq(STRING) : p = <<>>
  <2>1. <<>> \in Seq(STRING)
    BY EmptySeq
  <2> QED BY <2>1, Zenon
<1>2. PICK w : resolve_path(p) = w[Len(p)] /\ \A k \in 0 .. Len(p) : w[k] = ReadAlong(p, w, k)
  BY ReadFacts
<1>3. Len(p) = 0
  BY <1>1
<1>4. w[0] = ReadAlong(p, w, 0)
  BY <1>2, <1>3
<1> QED BY <1>1, <1>2, <1>3, <1>4 DEF ReadAlong

\* In a directory the two see the same first entry of a name.
LEMMA DirectoriesAgree ==
    ASSUME TypeOK, NEW P \in [InUse -> Seq(STRING)], Tree(P), NamesInSlots,
           NEW n \in Dirs, NEW x
    PROVE  Seen(x)[n] = find_in_dir(n, x)
<1>0. n \in InUse /\ n \in -1 .. MaxFiles - 1 /\ n # NONE /\ inodes[n].count # 0
  BY UseFacts DEF Dirs, Tree, NONE
<1> DEFINE Named == {e \in Entries : NameAt(inodes[n], e) = Name(x)}
<1>1. ASSUME NEW e \in Named PROVE e \in SeenBy2(inodes[n], x)
  <2>1. IsName(NameAt(inodes[n], e)) /\ NameAt(inodes[n], e).name = x
    BY CellKinds
  <2>2. e \in Slots
    BY <2>1, DirSlot DEF Tree
  <2>3. IndexAt(inodes[n], e) \in InUse \ {0} \/ IndexAt(inodes[n], e) = inode_count
    BY <2>1, <2>2 DEF Tree, Followed
  <2>4. IndexAt(inodes[n], e) # 0
    BY <2>3 DEF TypeOK
  <2> QED BY <2>2, <2>4 DEF SeenBy2, Slots
<1>2. SeenBy2(inodes[n], x) = Named
  <2>1. SeenBy2(inodes[n], x) \subseteq Named
    BY PerBlock DEF SeenBy2, Slots
  <2> QED BY <1>1, <2>1
<1>3. CASE Named = {}
  <2>1. find_in_dir(n, x) = NONE
    BY <1>3, NoneFound
  <2> QED BY <1>0, <1>2, <1>3, <2>1 DEF Seen
<1>4. CASE Named # {}
  <2>1. PICK e \in Named : \A f \in Named : e <= f
    <3>1. Named \subseteq Nat
      BY PerBlock
    <3> QED BY <1>4, <3>1, Least
  <2>2. first_seen(n, x) = e
    <3>1. first_seen(n, x) \in Named /\ \A f \in Named : first_seen(n, x) <= f
      <4>1. \E f \in SeenBy2(inodes[n], x) : \A g \in SeenBy2(inodes[n], x) : f <= g
        BY <1>2, <2>1
      <4>2. /\ first_seen(n, x) \in SeenBy2(inodes[n], x)
            /\ \A f \in SeenBy2(inodes[n], x) : first_seen(n, x) <= f
        BY <4>1 DEF first_seen
      <4> QED BY <1>2, <4>2
    <3>2. first_seen(n, x) \in Nat /\ e \in Nat
      BY <3>1, PerBlock
    <3> QED BY <2>1, <3>1, <3>2
  <2>3. PICK f \in Entries : /\ f <= e /\ NameAt(inodes[n], f) = Name(x)
                             /\ find_in_dir(n, x) = IndexAt(inodes[n], f)
    BY <1>0, <2>1, FirstFound
  <2>4. f = e
    <3>1. e <= f /\ e \in Nat /\ f \in Nat
      BY <2>1, <2>3, PerBlock
    <3> QED BY <2>3, <3>1
  <2>5. Seen(x)[n] = IndexAt(inodes[n], first_seen(n, x))
    <3>1. SeenBy2(inodes[n], x) # {}
      BY <1>2, <1>4
    <3> QED BY <1>0, <3>1 DEF Seen
  <2> QED BY <2>2, <2>3, <2>4, <2>5
<1> QED BY <1>3, <1>4

\* Behind what does not count yet, neither finds anything.
LEMMA NothingBehind ==
    ASSUME TypeOK, BootUnnamed, Uncounted, NEW n \in inode_count .. MaxFiles - 1,
           Current.tool # "mcopy", NEW x
    PROVE  Seen(x)[n] = NONE /\ find_in_dir(n, x) = NONE
<1>1. n \in -1 .. MaxFiles - 1 /\ n # NONE
  BY DEF TypeOK, NONE
<1>2. Slots \subseteq Entries
  BY PerBlock
<1>3. CASE inodes[n] = NoInode
  <2>1. inodes[n].count = 0 /\ inodes[n].start = 0
    BY <1>3 DEF NoInode
  <2>2. \A e \in Slots : NameAt(inodes[n], e) # Name(x)
    <3> SUFFICES ASSUME NEW e \in Slots PROVE NameAt(inodes[n], e) # Name(x)
      OBVIOUS
    <3>1. e * EntryCells \in Nat /\ e * EntryCells + EntryCells <= BlockCells
      BY SlotInBlock
    <3>2. PICK k \in Nat : k = e * EntryCells /\ k < BlockCells
      BY <3>1
    <3>3. EntryAt(inodes[n], e) \in Block(0)
      BY <2>1, <3>2 DEF EntryAt, Block
    <3> QED BY <3>3, CellKinds DEF BootUnnamed, NameAt
  <2>3. SeenBy2(inodes[n], x) = {}
    BY <2>2 DEF SeenBy2, Slots
  <2> QED BY <1>1, <2>1, <2>3 DEF Seen, find_in_dir
<1>4. CASE inodes[n] # NoInode
  <2>1. EmptyDir(n)
    BY <1>4 DEF Uncounted
  <2>2. \A e \in Entries : NameAt(inodes[n], e) # Name(x)
    BY <2>1, CellKinds DEF EmptyDir
  <2>3. SeenBy2(inodes[n], x) = {}
    BY <1>2, <2>2 DEF SeenBy2, Slots
  <2> QED BY <1>1, <2>2, <2>3, NoneFound DEF Seen
<1> QED BY <1>3, <1>4

\* Where a path leads: nowhere, to the inode of that path, or to the one that the
\* running or interrupted tool has entered and not counted yet.
Reaches(P, p) ==
    \/ Lookup(p) = NONE
    \/ Lookup(p) \in InUse /\ P[Lookup(p)] = p
    \/ Lookup(p) = inode_count /\ p = Target /\ Target # <<>>

\* Along a call's path, stage 2 and the tools find the same.
LEMMA SameAlong ==
    ASSUME TypeOK, Room, NEW P \in [InUse -> Seq(STRING)], Tree(P), NamesInSlots,
           BootUnnamed, Uncounted, TornFits, Formatting, PathsApart,
           NEW c \in Calls, NEW q \in Seq(STRING), Begins(q, c.path)
    PROVE  Lookup(q) = resolve_path(q) /\ Reaches(P, q)
<1> DEFINE Same(p) == Lookup(p) = resolve_path(p) /\ Reaches(P, p)
           S == {l \in Nat : \A p \in Seq(STRING) : Len(p) = l /\ Begins(p, c.path) => Same(p)}
<1>0. 0 \in InUse /\ c.path \in Seq(STRING)
  BY CallsAssumption DEF InUse, TypeOK, CommandLine
<1>1. 0 \in S
  <2> SUFFICES ASSUME NEW p \in Seq(STRING), Len(p) = 0 PROVE Same(p)
    OBVIOUS
  <2>1. p = <<>>
    BY EmptySeq
  <2> QED BY <1>0, <2>1, LookupRoot, ReadRoot DEF Reaches, Tree, Rooted
<1>2. ASSUME NEW l \in Nat, l \in S PROVE l + 1 \in S
  <2> SUFFICES ASSUME NEW p \in Seq(STRING), Len(p) = l + 1, Begins(p, c.path) PROVE Same(p)
    OBVIOUS
  <2> DEFINE x == Last(p)
             n == Lookup(Parent(p))
  <2>1. p # <<>>
    BY EmptySeq
  <2>2. Parent(p) \in Seq(STRING) /\ Len(Parent(p)) = l /\ p = Append(Parent(p), x)
    BY <2>1, PathSplit
  <2>3. Begins(Parent(p), c.path) /\ Parent(p) # c.path
    BY <1>0, <2>1, <2>2, PathSplit DEF Begins
  <2>4. Same(Parent(p))
    BY <1>2, <2>2, <2>3
  <2>5. resolve_path(p) = Seen(x)[n]
    BY <2>1, <2>4, ReadStep
  <2>6. CASE n = NONE
    <3>1. n \in -1 .. MaxFiles - 1
      BY <2>6 DEF NONE
    <3>2. Lookup(p) = NONE
      BY <2>1, <2>6, <3>1, LookupStep
    <3>3. Seen(x)[n] = NONE
      BY <2>6, <3>1 DEF Seen
    <3> QED BY <2>5, <3>2, <3>3 DEF Reaches
  <2>7. CASE n \in InUse /\ P[n] = Parent(p) /\ n # NONE
    <3>1. n \in Dirs
      <4>1. CASE n = 0
        BY <1>0, <4>1 DEF Tree, Rooted, RootInode, Dirs
      <4>2. CASE n # 0 /\ n \notin Dirs
        <5>1. PICK d \in done : d.path = P[n] /\ d.tool = "mcopy"
          BY <2>7, <4>2 DEF Tree, Called
        <5>2. d \in Calls \ {Mkfs}
          <6>1. Mkfs.tool = "mkfs"
            BY DEF Mkfs
          <6> QED BY <5>1, <6>1 DEF TypeOK
        <5> QED BY <2>3, <2>7, <5>1, <5>2 DEF PathsApart
      <4> QED BY <4>1, <4>2
    <3>2. n \in -1 .. MaxFiles - 1 /\ inodes[n].count # 0
      BY <2>7, <3>1, UseFacts DEF Tree
    <3>3. Lookup(p) = find_in_dir(n, x)
      BY <2>1, <2>7, <3>2, LookupStep
    <3>4. Seen(x)[n] = find_in_dir(n, x)
      BY <3>1, DirectoriesAgree
    <3>5. Reaches(P, p)
      <4>1. CASE \A e \in Entries : NameAt(inodes[n], e) # Name(x)
        BY <3>3, <4>1, NoneFound DEF Reaches
      <4>2. ASSUME NEW e \in Entries, NameAt(inodes[n], e) = Name(x) PROVE Reaches(P, p)
        <5>1. PICK f \in Entries : /\ NameAt(inodes[n], f) = Name(x)
                                   /\ find_in_dir(n, x) = IndexAt(inodes[n], f)
          <6> HIDE DEF n, x
          <6> QED BY <3>2, <4>2, FirstFound
        <5>2. IsName(NameAt(inodes[n], f)) /\ NameAt(inodes[n], f).name = x
          BY <5>1, CellKinds
        <5>3. f \in Slots
          <6> HIDE DEF n, x
          <6> QED BY <3>1, <5>2, DirSlot DEF Tree
        <5> DEFINE j == IndexAt(inodes[n], f)
        <5>4. \/ j \in InUse \ {0} /\ P[j] = p
              \/ j = inode_count /\ p = Target
          BY <2>2, <2>7, <3>1, <5>2, <5>3 DEF Tree, Followed
        <5> QED BY <2>1, <3>3, <5>1, <5>4 DEF Reaches
      <4> QED BY <4>1, <4>2
    <3> QED BY <2>5, <3>3, <3>4, <3>5
  <2>8. CASE n = inode_count /\ Parent(p) = Target /\ Target # <<>>
    <3>1. Target = Current.path
      BY DEF Target, Current
    <3>2. Current # NoCall /\ Current # Mkfs
      <4>1. NoCall.path = <<>> /\ Mkfs.path = <<>>
        BY DEF NoCall, Mkfs
      <4> QED BY <2>8, <3>1, <4>1
    <3>3. Current \in Calls \ {Mkfs}
      BY <3>2 DEF TypeOK, Current
    <3>4. Current.tool # "mcopy"
      BY <2>3, <2>8, <3>1, <3>3 DEF PathsApart
    <3>5. n \in inode_count .. MaxFiles - 1
      <4>1. inode_count < MaxFiles
        <5>1. CASE pc = "idle"
          BY <3>2, <5>1 DEF TornFits, Current
        <5>2. CASE pc # "idle"
          <6>1. pc \in {"data", "dir", "inodes", "super"}
            BY <3>2, <5>2 DEF Current, Formatting, Formats, TypeOK
          <6> QED BY <6>1 DEF Room
        <5> QED BY <5>1, <5>2
      <4> QED BY <2>8, <4>1 DEF TypeOK
    <3>6. Seen(x)[n] = NONE /\ find_in_dir(n, x) = NONE
      BY <3>4, <3>5, NothingBehind
    <3>7. n \in -1 .. MaxFiles - 1 /\ n # NONE
      BY <3>5 DEF TypeOK, NONE
    <3>8. Lookup(p) = NONE
      BY <2>1, <3>6, <3>7, LookupStep
    <3> QED BY <2>5, <3>6, <3>8 DEF Reaches
  <2> QED BY <2>4, <2>6, <2>7, <2>8 DEF Reaches
<1>3. Nat \subseteq S
  <2> HIDE DEF S
  <2> QED BY <1>1, <1>2, Induction
<1>4. Len(q) \in Nat
  OBVIOUS
<1> QED BY <1>3, <1>4

LEMMA TidyAgrees == TypeOK /\ Room /\ Sound /\ Tidy /\ PathsApart => LoadersAgree
<1> SUFFICES ASSUME TypeOK, Room, Sound, Tidy, PathsApart, Mkfs \in done, user.discipline # "any",
                    NEW c \in Calls \ {Mkfs}
             PROVE  resolve_path(c.path) = Lookup(c.path)
  BY DEF LoadersAgree, Paths
<1>1. PICK P \in [InUse -> Seq(STRING)] : Grows(P)
  BY DEF Sound, Growing
<1>2. c.path \in Seq(STRING) /\ Begins(c.path, c.path)
  BY ToolOf DEF Begins
<1> QED BY <1>1, <1>2, SameAlong DEF Grows, Sound, Surroundings, Tidy

LEMMA AlwaysTidy ==
    Spec /\ [](RoomLeft /\ InImage) => []((TypeOK /\ Room) /\ Sound /\ Tidy)
<1>1. ((TypeOK /\ Room) /\ (ExtentsApart /\ Order) /\ Sound) /\ (RoomLeft /\ InImage) /\ Tidy
          /\ [Next]_vars => Tidy'
  BY NextTidy
<1> QED BY <1>1, AlwaysSound, InitTidy, PTL DEF Spec

\* On an image that make or a prudent user formatted, stage 2 resolves every path
\* as the tools do, at any time, half-written entries and tables of interrupted
\* tools included, if no directory fills its block and no path leads through a
\* file (stage2.c:92-136).
THEOREM StageTwoAgrees ==
    ASSUME PathsApart
    PROVE  Spec /\ [](RoomLeft /\ InImage) => []LoadersAgree
<1>1. TypeOK /\ Room /\ Sound /\ Tidy => LoadersAgree
  BY TidyAgrees
<1> QED BY <1>1, AlwaysTidy, PTL

-----------------------------------------------------------------------------
(* LabFS implements FileStore: what a reader sees is what was reported.    *)

Shown == [p \in Visible |-> Found(Lookup(p))]

\* What the calls D, of one path, have put there.
Alike(f, g) == Length[f] = Length[g] /\ \A k \in 0 .. Length[g] - 1 : Data(f, k) = Data(g, k)
Promised(D) ==
    IF \E d \in D : d.tool = "mdir" THEN "directory"
    ELSE CHOOSE f \in DOMAIN Length : \E d \in D : d.tool = "mcopy" /\ Alike(f, d.src)
Reported(p) == {d \in done : d.path = p}

AsReported ==
    Mkfs \in done /\ user.discipline # "any" =>
        /\ Visible = {d.path : d \in done \ {Mkfs}}
        /\ \A p \in Visible : Found(Lookup(p)) = Promised(Reported(p))

\* A file that holds one host file holds those like it, and no other.
LEMMA HoldsAlike ==
    ASSUME NEW m, NEW g, Holds(m, g), NEW f
    PROVE  Holds(m, f) <=> Alike(f, g)
<1>1. /\ inodes[m].size = Length[g]
      /\ \A k \in 0 .. Length[g] - 1 : disk[inodes[m].start * BlockCells + k] = Data(g, k)
  BY DEF Holds
<1>2. ASSUME Holds(m, f) PROVE Alike(f, g)
  <2>1. /\ inodes[m].size = Length[f]
        /\ \A k \in 0 .. Length[f] - 1 : disk[inodes[m].start * BlockCells + k] = Data(f, k)
    BY <1>2 DEF Holds
  <2> QED BY <1>1, <2>1 DEF Alike
<1>3. ASSUME Alike(f, g) PROVE Holds(m, f)
  BY <1>1, <1>3 DEF Alike, Holds
<1> QED BY <1>2, <1>3

LEMMA TidyReported == TypeOK /\ Room /\ Sound /\ Tidy /\ PathsApart => AsReported
<1> SUFFICES ASSUME TypeOK, Room, Sound, Tidy, PathsApart, Mkfs \in done, user.discipline # "any"
             PROVE  /\ Visible = {d.path : d \in done \ {Mkfs}}
                    /\ \A p \in Visible : Found(Lookup(p)) = Promised(Reported(p))
  BY DEF AsReported
<1>1. PICK P \in [InUse -> Seq(STRING)] : Grows(P)
  BY DEF Sound, Growing
<1>2. ASSUME NEW d \in done \ {Mkfs}
      PROVE  d.path \in Visible
  <2>1. d \in Calls \ {Mkfs}
    BY DEF TypeOK
  <2>2. d.path \in Paths
    BY <2>1 DEF Paths
  <2>3. PICK m \in InUse : P[m] = d.path
    BY <1>1 DEF Grows, Tree, Kept
  <2>4. Lookup(d.path) = m
    BY <1>1, <2>3, WalkTo DEF Grows
  <2> QED BY <2>2, <2>4 DEF Visible, InUse
<1>3. ASSUME NEW p \in Visible
      PROVE  Lookup(p) \in InUse \ {0} /\ P[Lookup(p)] = p /\ p # <<>>
  <2>1. PICK c \in Calls \ {Mkfs} : p = c.path
    BY DEF Visible, Paths
  <2>2. p \in Seq(STRING) /\ p # <<>> /\ Begins(p, c.path)
    BY <2>1, ToolOf DEF Begins
  <2>3. Reaches(P, p)
    BY <1>1, <2>2, SameAlong DEF Grows, Sound, Surroundings, Tidy
  <2>4. Lookup(p) \in InUse
    BY DEF Visible, InUse
  <2>5. Lookup(p) # NONE /\ Lookup(p) # inode_count
    BY <2>4 DEF InUse, TypeOK, NONE
  <2>6. P[Lookup(p)] = p
    BY <2>3, <2>5 DEF Reaches
  <2> QED BY <1>1, <2>2, <2>4, <2>6 DEF Grows, Tree, Rooted
<1>4. ASSUME NEW p \in Visible
      PROVE  /\ \E d \in done \ {Mkfs} : d.path = p
             /\ Found(Lookup(p)) = Promised(Reported(p))
  <2> DEFINE m == Lookup(p)
  <2>1. m \in InUse \ {0} /\ P[m] = p /\ p # <<>>
    BY <1>3
  <2>2. PICK d \in done : d.path = p /\ (m \in Dirs \/ d.tool = "mcopy")
    BY <1>1, <2>1 DEF Grows, Tree, Called
  <2>3. Mkfs.path = <<>>
    BY DEF Mkfs
  <2>4. ASSUME NEW b \in Reported(p)
        PROVE  /\ b.tool \in {"mdir", "mcopy"}
               /\ b.tool = "mdir" => IsDir(m)
               /\ b.tool = "mcopy" => Holds(m, b.src) /\ b.src \in DOMAIN Length
    <3>1. b \in done \ {Mkfs} /\ b \in Calls \ {Mkfs} /\ b.path = p
      BY <2>1, <2>3 DEF Reported, TypeOK
    <3>2. PICK n \in InUse \ {0} : /\ P[n] = p
                                   /\ b.tool = "mdir" => n \in Dirs
                                   /\ b.tool = "mcopy" => Holds(n, b.src)
      BY <1>1, <3>1 DEF Grows, Tree, Kept
    <3>3. n = m
      BY <1>1, <2>1, <3>2 DEF Grows, Tree, Distinct
    <3>4. m \in Dirs => IsDir(m)
      BY <1>1, UseFacts DEF Grows, Tree, Dirs, IsDir
    <3>5. b.tool = "mcopy" => b.src \in DOMAIN Length
      BY <3>1, CallsAssumption
    <3> QED BY <3>1, <3>2, <3>3, <3>4, <3>5, ToolOf
  <2>5. CASE \E b \in Reported(p) : b.tool = "mdir"
    BY <2>2, <2>3, <2>1, <2>4, <2>5 DEF Found, Promised
  <2>6. CASE ~ \E b \in Reported(p) : b.tool = "mdir"
    <3>1. d \in Reported(p) /\ d.tool = "mcopy"
      BY <2>2, <2>4, <2>6 DEF Reported
    <3>2. Holds(m, d.src) /\ d.src \in DOMAIN Length /\ ~ IsDir(m)
      BY <2>4, <3>1 DEF Holds, IsDir
    <3>3. \A f \in DOMAIN Length :
              Holds(m, f) <=> \E b \in Reported(p) : b.tool = "mcopy" /\ Alike(f, b.src)
      <4>1. \A f, b : b \in Reported(p) /\ b.tool = "mcopy" => (Holds(m, f) <=> Alike(f, b.src))
        BY <2>4, HoldsAlike
      <4> QED BY <3>1, <4>1
    <3>4. Found(m) = CHOOSE f \in DOMAIN Length : Holds(m, f)
      BY <3>2 DEF Found
    <3>5. Promised(Reported(p)) =
            CHOOSE f \in DOMAIN Length : \E b \in Reported(p) : b.tool = "mcopy" /\ Alike(f, b.src)
      BY <2>6 DEF Promised
    <3>6. (CHOOSE f \in DOMAIN Length : Holds(m, f)) =
            CHOOSE f \in DOMAIN Length : \E b \in Reported(p) : b.tool = "mcopy" /\ Alike(f, b.src)
      <4> HIDE DEF m
      <4> QED BY <3>3, Zenon
    <3> QED BY <2>1, <2>2, <2>3, <3>4, <3>5, <3>6
  <2>7. d # Mkfs
    BY <2>1, <2>2, <2>3
  <2> QED BY <2>2, <2>5, <2>6, <2>7
<1> QED BY <1>2, <1>4

\* As long as nothing more is reported, nothing else is seen.
LEMMA ReportedStep ==
    ASSUME Mkfs \in done, user.discipline # "any", user' = user, Mkfs \in done',
           AsReported, AsReported', done' = done
    PROVE  Shown' = Shown
<1>1. Visible' = Visible
  BY DEF AsReported
<1>2. \A p \in Visible : Found(Lookup(p))' = Found(Lookup(p))
  <2>1. \A p : Reported(p)' = Reported(p)
    BY DEF Reported
  <2>2. \A D : Promised(D)' = Promised(D)
    BY DEF Promised, Alike, Data
  <2> QED BY <1>1, <2>1, <2>2 DEF AsReported
<1> QED BY <1>1, <1>2 DEF Shown

\* What a tool has finished is added to the tree: its directory is in there, and
\* it is not.
LEMMA FinishedStep ==
    ASSUME TypeOK, Room, Sound, AsReported, AsReported', user' = user, user.discipline # "any",
           WriteSuper
    PROVE  Store!Next
<1>1. pc = "super" /\ done' = done \cup {call}
  BY DEF WriteSuper, Return
<1>2. call # Mkfs /\ Mkfs \in done /\ Mkfs \in done'
  BY <1>1 DEF Sound, Surroundings, Formatting, Formats
<1>3. PICK P \in [InUse -> Seq(STRING)] : Grows(P)
  BY <1>2 DEF Sound, Growing
<1>0. PICK p : p = call.path
  OBVIOUS
<1>4. /\ call \in Calls \ {Mkfs} /\ p \in Seq(STRING) /\ p # <<>> /\ Target = p
      /\ call.tool \in {"mdir", "mcopy"}
  BY <1>0, <1>1, <1>2, WriterPath DEF Room
<1>5. p \in Paths
  BY <1>0, <1>4 DEF Paths
<1>6. /\ Visible = {d.path : d \in done \ {Mkfs}}
      /\ \A q \in Visible : Found(Lookup(q)) = Promised(Reported(q))
  BY <1>2 DEF AsReported
<1>7. /\ Visible' = {d.path : d \in done' \ {Mkfs}}
      /\ \A q \in Visible' : Found(Lookup(q))' = Promised(Reported(q)')
  <2>1. \A D : Promised(D)' = Promised(D)
    BY DEF Promised, Alike, Data
  <2> QED BY <1>2, <2>1 DEF AsReported
<1>8. Visible' = Visible \cup {p}
  BY <1>0, <1>1, <1>2, <1>6, <1>7
<1>9. p \notin Visible
  <2> SUFFICES ASSUME NEW d \in done \ {Mkfs}, d.path = p PROVE FALSE
    BY <1>6
  <2>1. PICK m \in InUse : P[m] = p
    BY <1>3 DEF Grows, Tree, Kept
  <2> QED BY <1>3, <1>4, <2>1 DEF Grows, Fresh
<1>10. ASSUME Len(p) > 1
       PROVE  Parent(p) \in Visible /\ Found(Lookup(Parent(p))) = "directory"
  <2>1. cur \in Dirs /\ P[cur] = Parent(p) /\ cur \in InUse
    BY <1>0, <1>1, <1>3 DEF Grows, Working, Dirs
  <2>2. Len(Parent(p)) = Len(p) - 1 /\ Len(p) \in Nat
    BY <1>4, PathSplit
  <2>3. Parent(p) # <<>>
    BY <1>10, <2>2
  <2>4. cur # 0
    BY <1>3, <2>1, <2>3 DEF Grows, Tree, Rooted
  <2>5. PICK d \in done : d.path = Parent(p)
    BY <1>3, <2>1, <2>4 DEF Grows, Tree, Called
  <2>6. d # Mkfs
    <3>1. Mkfs.path = <<>>
      BY DEF Mkfs
    <3> QED BY <2>3, <2>5, <3>1
  <2>7. Lookup(Parent(p)) = cur
    BY <1>3, <2>1, WalkTo DEF Grows
  <2>8. IsDir(cur)
    BY <1>3, <2>1, UseFacts DEF Grows, Tree, Dirs, IsDir
  <2> QED BY <1>6, <2>5, <2>6, <2>7, <2>8 DEF Found
<1>11. ASSUME NEW q \in Visible PROVE Found(Lookup(q))' = Found(Lookup(q))
  <2>1. Reported(q)' = Reported(q)
    BY <1>0, <1>1, <1>9, <1>11 DEF Reported
  <2> QED BY <1>6, <1>7, <1>8, <2>1
<1> DEFINE content == Found(Lookup(p))'
<1>12. content \in DOMAIN Length \cup {"directory"}
  <2>1. content = Promised(Reported(p)')
    BY <1>7, <1>8
  <2>2. call \in Reported(p)'
    BY <1>0, <1>1 DEF Reported
  <2>3. Alike(call.src, call.src)
    BY DEF Alike
  <2>4. call.tool = "mcopy" => call.src \in DOMAIN Length
    BY <1>4, CallsAssumption
  <2> DEFINE D == Reported(p)'
  <2>5. CASE \E d \in D : d.tool = "mdir"
    BY <2>1, <2>5 DEF Promised
  <2>6. CASE ~ \E d \in D : d.tool = "mdir"
    <3>1. \E f \in DOMAIN Length : \E d \in D : d.tool = "mcopy" /\ Alike(f, d.src)
      BY <1>4, <2>2, <2>3, <2>4, <2>6
    <3> HIDE DEF D
    <3>2. Promised(D) = CHOOSE f \in DOMAIN Length : \E d \in D : d.tool = "mcopy" /\ Alike(f, d.src)
      BY <2>6 DEF Promised
    <3>3. Promised(D) \in DOMAIN Length
      BY <3>1, <3>2
    <3> QED BY <2>1, <3>3 DEF D
  <2> QED BY <2>5, <2>6
<1>13. DOMAIN Shown = Visible /\ \A q \in Visible : Shown[q] = Found(Lookup(q))
  BY DEF Shown
<1>14. Shown' = [q \in DOMAIN Shown \cup {p} |-> IF q = p THEN content ELSE Shown[q]]
  <2>1. Shown' = [q \in Visible \cup {p} |-> Found(Lookup(q))']
    BY <1>8 DEF Shown
  <2> HIDE DEF content
  <2>2. \A q \in Visible \cup {p} :
            Found(Lookup(q))' = IF q = p THEN content ELSE Shown[q]
    BY <1>9, <1>11, <1>13 DEF content
  <2> QED BY <1>13, <2>1, <2>2
<1>15. Store!Add(p)
  <2>1. p \notin DOMAIN Shown
    BY <1>9, <1>13
  <2>2. Len(p) > 1 => Parent(p) \in DOMAIN Shown /\ Shown[Parent(p)] = "directory"
    BY <1>10, <1>13
  <2> HIDE DEF content
  <2> QED BY <1>12, <1>14, <2>1, <2>2
        DEF Store!Add, Store!Parent, Store!With, Parent, Shown
<1> QED BY <1>5, <1>15 DEF Store!Next

\* A directory that exists already is in the tree.
LEMMA ExistsStep ==
    ASSUME TypeOK, Sound, AsReported, AsReported', Mkfs \in done,
           user' = user, user.discipline # "any",
           NEW c \in user.calls, mdir_exists(c)
    PROVE  Shown' = Shown
<1>1. /\ done' = done \cup {c} /\ inodes' = inodes /\ inode_count' = inode_count
      /\ c.tool = "mdir"
  BY DEF mdir_exists, image
<1>2. Mkfs.tool = "mkfs" /\ Mkfs.path = <<>>
  BY DEF Mkfs
<1>3. c \in Calls \ {Mkfs} /\ c # Mkfs /\ c.path # <<>>
  BY <1>1, <1>2, UserCalls, ToolOf
<1>4. PICK P \in [InUse -> Seq(STRING)] : Grows(P)
  BY DEF Sound, Growing
<1>5. Grows(P)'
  BY <1>3, <1>4, ExistsGrows DEF Sound, Surroundings
<1>6. PICK m \in InUse \ {0} : P[m] = c.path /\ m \in Dirs
  <2>1. Kept(P)'
    BY <1>5 DEF Grows, Tree
  <2>2. c \in done' \ {Mkfs}
    BY <1>1, <1>3
  <2>3. InUse' = InUse /\ Dirs' = Dirs
    BY <1>1 DEF InUse, Dirs
  <2> QED BY <1>1, <2>1, <2>2, <2>3 DEF Kept
<1>7. PICK d \in done : d.path = c.path
  BY <1>4, <1>6 DEF Grows, Tree, Called
<1>8. d # Mkfs /\ d.tool = "mdir"
  <2>1. d # Mkfs
    BY <1>2, <1>3, <1>7
  <2>2. d.tool \in {"mdir", "mcopy"}
    BY <2>1, ToolOf DEF TypeOK
  <2>3. PICK n \in InUse \ {0} : P[n] = d.path /\ (d.tool = "mcopy" => Holds(n, d.src))
    BY <1>4, <2>1 DEF Grows, Tree, Kept
  <2>4. n = m
    BY <1>4, <1>6, <1>7, <2>3 DEF Grows, Tree, Distinct
  <2> QED BY <1>6, <2>1, <2>2, <2>3, <2>4 DEF Holds, Dirs
<1>9. /\ Visible = {b.path : b \in done \ {Mkfs}}
      /\ \A q \in Visible : Found(Lookup(q)) = Promised(Reported(q))
  BY DEF AsReported
<1>10. /\ Visible' = {b.path : b \in done' \ {Mkfs}}
       /\ \A q \in Visible' : Found(Lookup(q))' = Promised(Reported(q)')
  <2>1. \A D : Promised(D)' = Promised(D)
    BY DEF Promised, Alike, Data
  <2> QED BY <1>1, <2>1 DEF AsReported
<1>11. Visible' = Visible
  BY <1>1, <1>3, <1>7, <1>8, <1>9, <1>10
<1>12. ASSUME NEW q \in Visible PROVE Promised(Reported(q)') = Promised(Reported(q))
  <2>1. CASE q # c.path
    <3>1. Reported(q)' = Reported(q)
      BY <1>1, <2>1 DEF Reported
    <3> QED BY <3>1
  <2>2. CASE q = c.path
    <3>1. d \in Reported(q) /\ c \in Reported(q)'
      BY <1>1, <1>7, <2>2 DEF Reported
    <3> QED BY <1>1, <1>8, <3>1 DEF Promised
  <2> QED BY <2>1, <2>2
<1> QED BY <1>9, <1>10, <1>11, <1>12 DEF Shown

LEMMA StoreStep ==
    TypeOK /\ Room /\ Sound /\ AsReported /\ AsReported' /\ [Next]_vars => [Store!Next]_Shown
<1> SUFFICES ASSUME TypeOK, Room, Sound, AsReported, AsReported', [Next]_vars
             PROVE  Store!Next \/ Shown' = Shown
  OBVIOUS
<1>0. user' = user
  BY DEF Next, vars
<1>1. ASSUME Shown' = <<>> PROVE Store!Next
  BY <1>1 DEF Store!Next, Store!Format, Shown
<1>2. CASE user.discipline = "any" \/ Mkfs \notin done'
  <2>1. Shown' = <<>>
    BY <1>0, <1>2 DEF Shown, Visible
  <2> QED BY <1>1, <2>1
<1> SUFFICES ASSUME user.discipline # "any", Mkfs \in done'
             PROVE  Store!Next \/ Shown' = Shown
  BY <1>2
<1>3. ASSUME done' = done PROVE Shown' = Shown
  BY <1>0, <1>3, ReportedStep
<1>4. Formatting
  BY DEF Sound, Surroundings
<1>5. Mkfs.tool = "mkfs"
  BY DEF Mkfs
<1>6. CASE Stamp \/ mkfs
  BY <1>6 DEF Stamp, mkfs
<1>7. CASE FormatSuper \/ FormatInodes \/ WriteEmpty \/ WriteData \/ WriteDir \/ DirectoryFull
           \/ WriteInodes \/ Interrupt \/ UNCHANGED vars
  <2>1. done' = done
    BY <1>7 DEF FormatSuper, FormatInodes, WriteEmpty, WriteData, WriteDir, DirectoryFull,
                WriteInodes, Interrupt, past, vars
  <2> QED BY <1>3, <2>1
<1>8. CASE FormatRoot
  <2>1. done' = {Mkfs}
    BY <1>4, <1>8 DEF FormatRoot, Return, Formatting, Formats
  <2>2. Visible' = {}
    BY <1>0, <2>1 DEF AsReported
  <2>3. Shown' = <<>>
    BY <2>2 DEF Shown
  <2> QED BY <1>1, <2>3
<1>9. ASSUME NEW c \in user.calls, mcopy(c) \/ mdir(c) \/ mdir_exists(c)
      PROVE  Store!Next \/ Shown' = Shown
  <2>1. CASE mcopy(c) \/ mdir(c)
    <3>1. done' = done
      BY <2>1 DEF mcopy, mdir, past
    <3> QED BY <1>3, <3>1
  <2>2. CASE mdir_exists(c)
    <3>1. Mkfs \in done
      BY <1>5, <2>2 DEF mdir_exists
    <3> QED BY <1>0, <2>2, <3>1, ExistsStep
  <2> QED BY <1>9, <2>1, <2>2
<1>10. CASE WriteSuper
  BY <1>0, <1>10, FinishedStep
<1> QED BY <1>6, <1>7, <1>8, <1>9, <1>10 DEF Next

\* As long as no directory fills its block, and if no path leads through a file,
\* what a reader of the image sees is a tree that a finished mdir or mcopy adds
\* one entry to, whose directory is there; that shows nothing of a tool that has
\* not finished; and that nothing is replaced in or removed from but by formatting
\* (mcopy.labfs.c:194-211).
THEOREM LabFSImplements ==
    ASSUME PathsApart
    PROVE  Spec /\ [](RoomLeft /\ InImage) => FileStoreSpec
<1>1. TypeOK /\ Room /\ Sound /\ Tidy => AsReported
  BY TidyReported
<1>2. Init => Store!Init
  <2>1. Init => Visible = {}
    BY DEF Init, Visible
  <2> QED BY <2>1 DEF Store!Init
<1>3. TypeOK /\ Room /\ Sound /\ AsReported /\ AsReported' /\ [Next]_vars => [Store!Next]_Shown
  BY StoreStep
<1> QED BY <1>1, <1>2, <1>3, AlwaysTidy, PTL DEF Spec, FileStoreSpec, Store!Spec, Shown
-----------------------------------------------------------------------------
(* What make builds is what the boot sector and stage 2 load.  For that,   *)
(* more is needed than that the tools find the files: a loader takes       *)
(* whole blocks, whose rest is to be zero, and the boot sector only looks  *)
(* at the first three entries of the root.                                 *)

ZerosBetween(a, b) == \A k \in Addresses : a <= k /\ k < b => disk[k] = ZERO

\* Files have as many blocks as they need, which are filled up with zeros.
Padded ==
    \A n \in InUse : inodes[n].type = "file" =>
        /\ inodes[n].count = Blocks(inodes[n].size)
        /\ ZerosBetween(From(n) + inodes[n].size, From(n) + inodes[n].count * BlockCells)

\* So are those of the file that is copied, once all its data is written.
Filled ==
    pc \in {"dir", "inodes", "super"} /\ call.tool = "mcopy" =>
        LET from == next_block * BlockCells
        IN  ZerosBetween(from + Length[call.src], from + Blocks(Length[call.src]) * BlockCells)

Padding == user.discipline # "any" /\ Mkfs \in done => Padded /\ Filled

LEMMA PaddedStays ==
    ASSUME TypeOK, Placed, Padded, inode_count' = inode_count,
           \A n \in InUse : inodes'[n] = inodes[n],
           \A n \in InUse \ Dirs : CellsStay(From(n), inodes[n].count * BlockCells)
    PROVE  Padded'
<1>1. InUse' = InUse
  BY DEF InUse
<1> SUFFICES ASSUME NEW n \in InUse, inodes[n].type = "file"
             PROVE  /\ inodes[n].count = Blocks(inodes[n].size)
                    /\ ZerosBetween(From(n) + inodes[n].size,
                                    From(n) + inodes[n].count * BlockCells)'
  BY <1>1 DEF Padded
<1>2. /\ inodes[n].count = Blocks(inodes[n].size) /\ n \notin Dirs
      /\ ZerosBetween(From(n) + inodes[n].size, From(n) + inodes[n].count * BlockCells)
  BY DEF Padded, Dirs
<1>3. From(n)' = From(n) /\ From(n) \in Nat /\ inodes[n].size \in Nat
  BY UseFacts DEF From
<1>4. ASSUME NEW k \in Addresses, From(n) + inodes[n].size <= k PROVE From(n) <= k
  BY <1>3, <1>4 DEF Addresses
<1> QED BY <1>2, <1>3, <1>4 DEF ZerosBetween, CellsStay

\* A file's last block is written whole.
LEMMA WriteDataFills ==
    ASSUME TypeOK, Room, NEW P, Grows(P), InImage, user.discipline # "any", WriteData
    PROVE  Filled'
<1>1. /\ pc = "data" /\ call.tool = "mcopy"
      /\ UNCHANGED <<inode_count, inodes, call, next_block>>
  BY DEF WriteData, tool
<1>2. Length[call.src] \in Nat /\ i \in Nat /\ next_block \in Nat
  BY <1>1, ToolOf DEF Room, TypeOK
<1>3. PICK o \in Nat, b \in Nat, l \in Nat :
         /\ o = i * BlockCells /\ b = next_block * BlockCells /\ l = Length[call.src]
  <2>1. i * BlockCells \in Nat /\ next_block * BlockCells \in Nat
    BY <1>2
  <2> QED BY <1>2, <2>1, Zenon
<1>4. o < l
  BY <1>1, <1>3 DEF Grows, Working, Written
<1> SUFFICES ASSUME pc' = "dir",
                    NEW k \in Addresses, b + l <= k, k < b + Blocks(l) * BlockCells
             PROVE  disk'[k] = ZERO
  BY <1>1, <1>3 DEF Filled, ZerosBetween, WriteData
<1>5. l - o <= BlockCells
  <2> SUFFICES ASSUME ~ (l - o <= BlockCells) PROVE FALSE
    OBVIOUS
  <2>1. ~ (l - o < BlockCells) /\ BlockCells # l - o
    BY <1>4
  <2>2. pc' = pc
    BY <1>3, <2>1 DEF WriteData
  <2> QED BY <1>1, <2>2
<1>6. Blocks(l) <= i + 1 /\ Blocks(l) \in Nat
  <2>0. Blocks(l) \in Nat
    BY BlocksType
  <2> SUFFICES ASSUME ~ (Blocks(l) <= i + 1) PROVE FALSE
    BY <2>0
  <2>1. (i + 1) * BlockCells + BlockCells <= Blocks(l) * BlockCells
    BY <1>2, <2>0, BlocksInOrder
  <2>2. (i + 1) * BlockCells = o + BlockCells
    BY <1>2, <1>3
  <2>3. Blocks(l) * BlockCells < l + BlockCells
    BY BlocksTight
  <2>4. Blocks(l) * BlockCells \in Nat
    BY <2>0
  <2> QED BY <1>5, <2>1, <2>2, <2>3, <2>4
<1>7. Blocks(l) * BlockCells <= o + BlockCells /\ Blocks(l) * BlockCells \in Nat
  <2>1. (i + 1) * BlockCells = o + BlockCells
    BY <1>2, <1>3
  <2>2. CASE Blocks(l) = i + 1
    BY <2>1, <2>2
  <2>3. CASE Blocks(l) < i + 1
    <3>1. /\ Blocks(l) * BlockCells \in Nat
          /\ Blocks(l) * BlockCells + BlockCells <= (i + 1) * BlockCells
      BY <1>2, <1>6, <2>3, BlocksInOrder
    <3> QED BY <2>1, <3>1
  <2> QED BY <1>2, <1>6, <2>2, <2>3
<1>8. Block(next_block + i) = b + o .. b + o + BlockCells - 1
      /\ (next_block + i) * BlockCells = b + o
  <2>1. /\ (next_block + i) * BlockCells = b + o
        /\ (next_block + i + 1) * BlockCells = b + o + BlockCells
    <3>1. /\ (next_block + i) * BlockCells = next_block * BlockCells + i * BlockCells
          /\ (next_block + i + 1) * BlockCells
                = next_block * BlockCells + i * BlockCells + BlockCells
      BY <1>2
    <3> QED BY <1>3, <3>1
  <2> QED BY <2>1 DEF Block
<1>9. PICK n \in Nat :
         /\ n <= l - o
         /\ \E new : /\ DOMAIN new = b + o .. b + o + n - 1
                     /\ Write(b + o .. b + o + BlockCells - 1, new)
  <2> DEFINE n == IF l - o < BlockCells THEN l - o ELSE BlockCells
             new == [a \in b + o .. b + o + n - 1 |-> Data(call.src, o + a - (b + o))]
  <2>1. n \in Nat /\ n <= l - o
    BY <1>4
  <2>2. Write(b + o .. b + o + BlockCells - 1, new)
    BY <1>3, <1>8 DEF WriteData
  <2>3. DOMAIN new = b + o .. b + o + n - 1
    OBVIOUS
  <2> HIDE DEF n, new
  <2> QED BY <2>1, <2>2, <2>3
<1>9a. PICK new : /\ DOMAIN new = b + o .. b + o + n - 1
                  /\ Write(b + o .. b + o + BlockCells - 1, new)
  BY <1>9
<1>10. k \in b + o .. b + o + BlockCells - 1 /\ k \notin DOMAIN new
  <2>1. k \in Nat
    BY DEF Addresses
  <2>2. PICK t \in Nat : t = Blocks(l) * BlockCells /\ t <= o + BlockCells
    BY <1>7
  <2>3. k < b + t
    BY <2>2
  <2> QED BY <1>4, <1>9, <1>9a, <2>1, <2>2, <2>3
<1> QED BY <1>9a, <1>10 DEF Write

\* A directory's block lies before what the tool writes.
LEMMA WriteDirBelow ==
    ASSUME TypeOK, Room, Order, NEW P \in [InUse -> Seq(STRING)], Grows(P), call # Mkfs,
           RoomLeft, user.discipline # "any", WriteDir
    PROVE  \A k \in Addresses : next_block * BlockCells <= k => disk'[k] = disk[k]
<1>1. PICK e \in Slots, a \in Addresses, z \in Addresses :
          /\ a = From(cur) + e * EntryCells /\ z = a + EntryCells - 1
          /\ \E new : DOMAIN new = {a, z} /\ Write(a .. z, new)
  BY WriteDirCells
<1>1a. PICK new : DOMAIN new = {a, z} /\ Write(a .. z, new)
  BY <1>1
<1>2. cur \in Dirs /\ cur \in InUse /\ Placed /\ Behind /\ next_block \in Nat
  BY DEF WriteDir, Grows, Tree, Working, Dirs, Order, TypeOK
<1>3. From(cur) \in Nat /\ inodes[cur].start \in Nat /\ inodes[cur].count = 1
  BY <1>2, UseFacts
<1>4. From(cur) + BlockCells <= next_block * BlockCells /\ next_block * BlockCells \in Nat
  <2>1. inodes[cur].start < next_block
    BY <1>2, <1>3 DEF Behind, InUse
  <2> QED BY <1>2, <1>3, <2>1, BlocksInOrder DEF From
<1>5. PICK s \in Nat, o \in Nat, b \in Nat :
         /\ s = From(cur) /\ o = e * EntryCells /\ b = next_block * BlockCells
         /\ o + EntryCells <= BlockCells /\ s + BlockCells <= b
  BY <1>3, <1>4, SlotInBlock
<1>6. a = s + o /\ z = a + EntryCells - 1 /\ o + EntryCells <= BlockCells /\ s + BlockCells <= b
  BY <1>1, <1>1a, <1>5
<1>7. ASSUME NEW k \in Addresses, b <= k PROVE k \notin a .. z /\ k \notin DOMAIN new
  <2>1. k \in Nat
    BY DEF Addresses
  <2>2. k > z /\ a <= z
    BY <1>6, <1>7, <2>1
  <2> QED BY <1>1, <1>1a, <2>1, <2>2
<1> QED BY <1>1, <1>1a, <1>5, <1>7 DEF Write

\* No block of an inode in use is written to, but that of the directory which
\* gets the entry.
LEMMA WritesSpare ==
    ASSUME TypeOK, Room, ExtentsApart, Order, NEW P \in [InUse -> Seq(STRING)], Grows(P),
           call # Mkfs, RoomLeft, InImage, user.discipline # "any",
           WriteEmpty \/ WriteData \/ WriteDir
    PROVE  \A n \in InUse : \/ CellsStay(From(n), inodes[n].count * BlockCells)
                            \/ WriteDir /\ n = cur
<1>1. Placed /\ Behind
  BY DEF Grows, Tree, Order, WriteEmpty, WriteData, WriteDir
<1>2. next_block \in Nat /\ next_block * BlockCells \in Nat
  BY DEF TypeOK
<1>3. CASE WriteEmpty
  <2>1. PICK l \in Nat : Write(next_block * BlockCells .. next_block * BlockCells + l - 1, <<>>)
    <3>1. MaxFiles * EntryCells \in Nat
      OBVIOUS
    <3> QED BY <1>3, <3>1 DEF WriteEmpty
  <2>2. Spared
    <3>1. DOMAIN <<>> = {}
      OBVIOUS
    <3> QED BY <1>1, <1>2, <2>1, <3>1, BehindSpared
  <2> QED BY <2>2 DEF Spared
<1>4. CASE WriteData
  <2>1. i \in Nat /\ Length[call.src] \in Nat /\ i * BlockCells \in Nat
    BY <1>4, ToolOf DEF WriteData, Room, TypeOK
  <2>2. PICK b \in Nat, o \in Nat :
           /\ b = next_block * BlockCells /\ (next_block + i) * BlockCells = b + o
           /\ Block(next_block + i) = b + o .. b + o + BlockCells - 1
    <3>1. /\ (next_block + i) * BlockCells = next_block * BlockCells + i * BlockCells
          /\ (next_block + i + 1) * BlockCells
                = next_block * BlockCells + i * BlockCells + BlockCells
      BY <1>2, <2>1
    <3> QED BY <1>2, <2>1, <3>1 DEF Block
  <2>3. PICK new : /\ Write(b + o .. b + o + BlockCells - 1, new)
                   /\ \E n \in Int : DOMAIN new = b + o .. b + o + n - 1
    <3> DEFINE rest == Length[call.src] - i * BlockCells
               n    == IF rest < BlockCells THEN rest ELSE BlockCells
               new  == [a \in b + o .. b + o + n - 1 |->
                           Data(call.src, i * BlockCells + a - (b + o))]
    <3>1. Write(b + o .. b + o + BlockCells - 1, new)
      BY <1>4, <2>2 DEF WriteData
    <3>2. n \in Int /\ DOMAIN new = b + o .. b + o + n - 1
      BY <2>1
    <3> HIDE DEF n, new
    <3> QED BY <3>1, <3>2
  <2>4. Spared
    <3>1. \A a \in b + o .. b + o + BlockCells - 1 \cup DOMAIN new : a >= b
      BY <2>3
    <3> QED BY <1>1, <2>2, <2>3, <3>1, BehindSpared
  <2> QED BY <2>4 DEF Spared
<1>5. CASE WriteDir
  <2>1. PICK e \in Slots, a \in Addresses, z \in Addresses :
            /\ a = From(cur) + e * EntryCells /\ z = a + EntryCells - 1
            /\ \E new : DOMAIN new = {a, z} /\ Write(a .. z, new)
    BY <1>5, WriteDirCells
  <2>1a. PICK new : DOMAIN new = {a, z} /\ Write(a .. z, new)
    BY <2>1
  <2>2. cur \in Dirs /\ cur \in InUse /\ From(cur) \in Nat
    <3>1. cur \in Dirs /\ cur \in InUse
      BY <1>5 DEF WriteDir, Grows, Working, Dirs
    <3> QED BY <1>1, <3>1, UseFacts
  <2>3. \A k \in Addresses : k \in a .. z \cup DOMAIN new =>
            From(cur) <= k /\ k < From(cur) + BlockCells
    <3>1. PICK s \in Nat, o \in Nat : s = From(cur) /\ o = e * EntryCells
                                      /\ o + EntryCells <= BlockCells
      BY <2>2, SlotInBlock
    <3>2. a = s + o /\ z = s + o + EntryCells - 1
      BY <2>1, <3>1
    <3>3. o + EntryCells <= BlockCells
      BY <3>1
    <3>4. a \in Nat /\ z \in Nat /\ s <= a /\ a <= z /\ z < s + BlockCells
      BY <3>2, <3>3, EntryCellsLie
    <3>5. \A k \in a .. z \cup DOMAIN new : k \in Nat /\ s <= k /\ k < s + BlockCells
      BY <2>1a, <3>4
    <3> QED BY <3>1, <3>5
  <2>4. ASSUME NEW n \in InUse, n # cur PROVE CellsStay(From(n), inodes[n].count * BlockCells)
    <3>1. \A k \in Addresses : k \in a .. z \cup DOMAIN new =>
              From(cur) <= k /\ k < From(cur) + BlockCells
      BY <2>3
    <3>2. Write(a .. z, new) /\ cur \in Dirs
      BY <2>1, <2>1a, <2>2
    <3> QED BY <1>1, <2>4, <3>1, <3>2, OthersSpared
  <2> QED BY <1>5, <2>4
<1> QED BY <1>3, <1>4, <1>5

LEMMA NextPadding ==
    TypeOK /\ Room /\ ExtentsApart /\ Order /\ RoomLeft /\ InImage /\ Sound /\ Padding
        /\ [Next]_vars => Padding'
<1> SUFFICES ASSUME TypeOK, Room, ExtentsApart, Order, RoomLeft, InImage, Sound, Padding,
                    [Next]_vars, user.discipline # "any", Mkfs \in done'
             PROVE  Padded' /\ Filled'
  BY DEF Padding, Next, vars
<1>1. /\ NamesInSlots /\ Formatting
      /\ Mkfs \in done => Growing /\ Padded /\ Filled
  BY DEF Sound, Surroundings, Padding
<1>2. ASSUME UNCHANGED <<disk, inode_count, inodes>>, Padded PROVE Padded'
  BY <1>2 DEF Padded, InUse, ZerosBetween, From
<1>3. CASE Stamp \/ mkfs \/ FormatSuper \/ FormatInodes
  BY <1>1, <1>3 DEF Stamp, mkfs, FormatSuper, FormatInodes, past, Formatting, Formats
<1>4. CASE FormatRoot
  <2>1. /\ pc' = "idle" /\ inode_count' = 1 /\ inodes'[0] = RootInode
    BY <1>1, <1>4 DEF FormatRoot, Return, Formatting, Formats
  <2>2. \A n \in InUse' : n = 0
    BY <2>1 DEF InUse
  <2> QED BY <2>1, <2>2 DEF Padded, Filled, RootInode
<1>5. ASSUME NEW c \in user.calls, mcopy(c) \/ mdir(c) PROVE Padded' /\ Filled'
  <2>1. /\ UNCHANGED <<disk, inode_count, inodes, done>> /\ call' = c
        /\ pc' \in {"data", "dir"} /\ (c.tool = "mcopy" /\ pc' = "dir" => Length[c.src] = 0)
    BY <1>5 DEF mcopy, mdir, Begin, image, past
  <2>2. Padded'
    BY <1>1, <1>2, <2>1
  <2>3. ASSUME c.tool = "mcopy", pc' = "dir"
        PROVE  Blocks(Length[c.src]) * BlockCells = 0
    <3>1. Length[c.src] = 0 /\ Blocks(0) \in Nat
      BY <2>1, <2>3, BlocksType
    <3>2. Blocks(0) * BlockCells < 0 + BlockCells
      BY BlocksTight
    <3>3. ~ (0 < Blocks(0))
      <4> SUFFICES ASSUME 0 < Blocks(0) PROVE FALSE
        OBVIOUS
      <4>1. 0 * BlockCells + BlockCells <= Blocks(0) * BlockCells /\ Blocks(0) * BlockCells \in Nat
        BY <3>1, BlocksInOrder
      <4> QED BY <3>2, <4>1
    <3> QED BY <3>1, <3>3
  <2>4. Filled'
    <3> SUFFICES ASSUME c.tool = "mcopy", pc' = "dir",
                        NEW k \in Addresses,
                        next_block' * BlockCells + Length[c.src] <= k,
                        k < next_block' * BlockCells + Blocks(Length[c.src]) * BlockCells
                 PROVE  FALSE
      BY <2>1 DEF Filled, ZerosBetween
    <3>1. next_block' \in Nat
      BY <1>5, NextBlockType DEF mcopy, mdir
    <3>2. PICK b \in Nat : b = next_block' * BlockCells
      <4>1. next_block' * BlockCells \in Nat
        BY <3>1
      <4> QED BY <4>1, Zenon
    <3>3. b + 0 <= k /\ k < b + 0
      BY <2>1, <2>3, <3>2
    <3> QED BY <3>3 DEF Addresses
  <2> QED BY <2>2, <2>4
<1>6. ASSUME NEW c \in user.calls, mdir_exists(c) PROVE Padded' /\ Filled'
  <2>1. /\ UNCHANGED <<disk, inode_count, inodes, pc>> /\ done' = done \cup {c}
        /\ c.tool = "mdir" /\ pc = "idle"
    BY <1>6 DEF mdir_exists, image
  <2>2. Mkfs.tool = "mkfs"
    BY DEF Mkfs
  <2>3. Mkfs \in done
    BY <2>1, <2>2
  <2> QED BY <1>1, <1>2, <2>1, <2>3 DEF Filled
<1>7. CASE WriteEmpty \/ WriteData \/ WriteDir \/ WriteInodes \/ WriteSuper \/ DirectoryFull
  <2>1. pc \in {"data", "dir", "inodes", "super"}
    BY <1>7 DEF WriteEmpty, WriteData, WriteDir, WriteInodes, WriteSuper, DirectoryFull
  <2>2. call # Mkfs /\ Mkfs \in done
    BY <1>1, <2>1 DEF Formatting, Formats
  <2>3. PICK P \in [InUse -> Seq(STRING)] : Grows(P)
    BY <1>1, <2>2 DEF Growing
  <2>4. Placed /\ Padded /\ Filled
    BY <1>1, <2>2, <2>3 DEF Grows, Tree
  <2>5. CASE WriteEmpty \/ WriteData \/ WriteDir
    <3>1. UNCHANGED <<inode_count, inodes, call, next_block>>
      BY <2>5 DEF WriteEmpty, WriteData, WriteDir, tool
    <3>2. \A n \in InUse \ Dirs : CellsStay(From(n), inodes[n].count * BlockCells)
      <4>1. WriteDir => cur \in Dirs
        BY <2>3 DEF WriteDir, Grows, Working
      <4> QED BY <2>2, <2>3, <2>5, <4>1, WritesSpare
    <3>3. Padded'
      BY <2>4, <3>1, <3>2, PaddedStays
    <3>4. Filled'
      <4>1. CASE WriteEmpty
        BY <4>1, <3>1 DEF WriteEmpty, Filled
      <4>2. CASE WriteData
        BY <2>3, <4>2, WriteDataFills
      <4>3. CASE WriteDir
        <5>1. \A k \in Addresses : next_block * BlockCells <= k => disk'[k] = disk[k]
          BY <2>2, <2>3, <4>3, WriteDirBelow
        <5>2. pc = "dir" /\ call.path # <<>> /\ (call.tool = "mcopy" => Length[call.src] \in Nat)
              /\ next_block * BlockCells \in Nat
          BY <2>2, <4>3, WriterPath DEF WriteDir, TypeOK
        <5>3. \A k \in Addresses : call.tool = "mcopy" /\
                 next_block * BlockCells + Length[call.src] <= k => next_block * BlockCells <= k
          BY <5>2 DEF Addresses
        <5> QED BY <2>4, <3>1, <5>1, <5>2, <5>3 DEF Filled, ZerosBetween
      <4> QED BY <2>5, <4>1, <4>2, <4>3
    <3> QED BY <3>3, <3>4
  <2>6. CASE WriteInodes
    <3>1. /\ pc = "inodes" /\ UNCHANGED <<disk, inode_count, call, next_block>>
          /\ inodes' = NewInodes
      BY <2>6 DEF WriteInodes, tool
    <3>2. inode_count \in 0 .. MaxFiles - 1
      BY <2>2, <3>1, WriterPath
    <3>3. \A n \in InUse : inodes'[n] = inodes[n]
      BY <3>1, <3>2 DEF NewInodes, InUse, TypeOK
    <3>4. Padded'
      BY <2>4, <3>1, <3>3, PaddedStays DEF CellsStay
    <3> QED BY <2>4, <3>1, <3>4 DEF Filled, ZerosBetween
  <2>7. CASE WriteSuper
    <3>1. /\ pc = "super" /\ pc' = "idle" /\ inode_count' = inode_count + 1 /\ inodes' = inodes
          /\ Write(Block(0), sector0)
      BY <2>7 DEF WriteSuper, Return
    <3>2. /\ next_block \in Nat /\ inode_count \in 0 .. MaxFiles - 1
          /\ call.tool \in {"mdir", "mcopy"}
          /\ call.tool = "mcopy" => Length[call.src] \in Nat
      BY <2>2, <3>1, WriterPath
    <3>3. Filled'
      BY <3>1 DEF Filled
    <3>4. ASSUME NEW n \in InUse', inodes[n].type = "file"
          PROVE  /\ inodes[n].count = Blocks(inodes[n].size)
                 /\ ZerosBetween(From(n) + inodes[n].size,
                                 From(n) + inodes[n].count * BlockCells)'
      <4>1. n \in InUse \/ n = inode_count
        BY <3>1, <3>2 DEF InUse
      <4>2. From(n)' = From(n)
        BY <3>1 DEF From
      <4>3. /\ inodes[n].count = Blocks(inodes[n].size)
            /\ ZerosBetween(From(n) + inodes[n].size, From(n) + inodes[n].count * BlockCells)
            /\ inodes[n].start \in Nat /\ inodes[n].start >= DATA_START /\ inodes[n].size \in Nat
        <5>1. CASE n \in InUse
          BY <2>4, <3>4, <5>1, UseFacts DEF Padded, Placed
        <5>2. CASE n = inode_count
          <6>1. inodes[n] = NewInode /\ next_block > DATA_START
            BY <2>3, <3>1, <5>2 DEF Grows, Working, Written
          <6>2. call.tool = "mcopy"
            BY <3>2, <3>4, <5>2, <6>1 DEF NewInode
          <6>3. /\ inodes[n].start = next_block /\ inodes[n].size = Length[call.src]
                /\ inodes[n].count = Blocks(Length[call.src])
            BY <6>1, <6>2 DEF NewInode
          <6> QED BY <2>4, <3>1, <3>2, <6>1, <6>2, <6>3 DEF Filled, From, DATA_START
        <5> QED BY <4>1, <5>1, <5>2
      <4>4. ASSUME NEW k \in Addresses, From(n) + inodes[n].size <= k PROVE disk'[k] = disk[k]
        <5>1. 1 * BlockCells <= From(n) /\ From(n) \in Nat
          <6>1. 0 < inodes[n].start
            BY <4>3 DEF DATA_START
          <6>2. /\ 0 * BlockCells + BlockCells <= inodes[n].start * BlockCells
                /\ inodes[n].start * BlockCells \in Nat
            BY <4>3, <6>1, BlocksInOrder
          <6> QED BY <6>2 DEF From
        <5>2. k \notin Block(0)
          BY <4>3, <4>4, <5>1, SectorThere DEF Addresses
        <5>3. DOMAIN sector0 \subseteq Block(0)
          BY <1>1 DEF NamesInSlots
        <5> QED BY <3>1, <5>2, <5>3 DEF Write
      <4> QED BY <3>1, <4>2, <4>3, <4>4 DEF ZerosBetween
    <3>5. Padded'
      BY <3>1, <3>4 DEF Padded
    <3> QED BY <3>3, <3>5
  <2>8. CASE DirectoryFull
    BY <2>2, <2>3, <2>8, NeverFull
  <2> QED BY <1>7, <2>5, <2>6, <2>7, <2>8
<1>8. CASE Interrupt
  <2>1. pc' = "idle" /\ UNCHANGED <<disk, inode_count, inodes, done>>
    BY <1>8 DEF Interrupt, image
  <2> QED BY <1>1, <1>2, <2>1 DEF Filled
<1>9. CASE UNCHANGED vars
  <2>1. UNCHANGED <<disk, inode_count, inodes, done, pc, call, next_block>>
    BY <1>9 DEF vars, image, tool, past
  <2> QED BY <1>1, <1>2, <2>1 DEF Filled, ZerosBetween
<1> QED BY <1>3, <1>4, <1>5, <1>6, <1>7, <1>8, <1>9 DEF Next

-----------------------------------------------------------------------------
(* The root directory of a build: the first k calls of the recipe are      *)
(* done, and have made no more entries than there are calls for the root.  *)

InStep(k) ==
    /\ \A m \in DOMAIN Recipe : m <= k <=> Recipe[m] \cap done # {}
    /\ Current # NoCall => k + 1 \in DOMAIN Recipe /\ Current \in Recipe[k + 1]

\* The running tool, or the one that was interrupted, may have made its entry.
Entering == pc \in {"inodes", "super"} \/ torn # NoCall

RootFilled(k) ==
    \A e \in Slots :
        e >= Cardinality(RootSteps(IF Entering THEN k + 1 ELSE k)) => Unused(Root, e)

\* The boot sector looks at the entry with stage 2's name.
SeenEarly == \A e \in Slots : \A x \in Stage2Names : NameAt(Root, e) = Name(x) => e <= 2

InOrder ==
    user.discipline = "make" =>
        /\ pc # "idle" => torn = NoCall
        /\ Mkfs \in done => SeenEarly /\ \E k \in DOMAIN Recipe : InStep(k) /\ RootFilled(k)

LEMMA RecipeSteps ==
    /\ Len(Recipe) \in Nat \ {0} /\ DOMAIN Recipe = 1 .. Len(Recipe)
    /\ 1 \in DOMAIN Recipe /\ Recipe[1] = {Mkfs}
  BY RecipeAssumption

\* How many calls for the root there are.
LEMMA RootCount ==
    ASSUME NEW k \in Nat
    PROVE  /\ Cardinality(RootSteps(k)) \in Nat
           /\ Cardinality(RootSteps(k)) <= Cardinality(RootSteps(k + 1))
           /\ \A c \in Recipe[k + 1] : Len(c.path) = 1 =>
                 Cardinality(RootSteps(k + 1)) = Cardinality(RootSteps(k)) + 1
<1>1. IsFiniteSet(RootSteps(k))
  <2>1. IsFiniteSet(1 .. k) /\ RootSteps(k) \subseteq 1 .. k
    BY FS_Interval DEF RootSteps
  <2> QED BY <2>1, FS_Subset
<1>2. k + 1 \notin RootSteps(k)
  BY DEF RootSteps
<1>3. RootSteps(k + 1) = RootSteps(k) \cup
          (IF \E c \in Recipe[k + 1] : Len(c.path) = 1 THEN {k + 1} ELSE {})
  BY DEF RootSteps
<1>4. CASE \E c \in Recipe[k + 1] : Len(c.path) = 1
  <2>1. RootSteps(k + 1) = RootSteps(k) \cup {k + 1}
    BY <1>3, <1>4
  <2>2. Cardinality(RootSteps(k + 1)) = Cardinality(RootSteps(k)) + 1
    BY <1>1, <1>2, <2>1, FS_AddElement
  <2> QED BY <1>1, <2>2, FS_CardinalityType
<1>5. CASE ~ \E c \in Recipe[k + 1] : Len(c.path) = 1
  <2>1. RootSteps(k + 1) = RootSteps(k)
    BY <1>3, <1>5
  <2> QED BY <1>1, <1>5, <2>1, FS_CardinalityType
<1> QED BY <1>4, <1>5

\* The next call that make makes is that of the next step.
LEMMA NextStep ==
    ASSUME NEW k \in DOMAIN Recipe, InStep(k), user.discipline = "make", NEW c, Allowed(c)
    PROVE  k + 1 \in DOMAIN Recipe /\ c \in Recipe[k + 1] /\ torn = NoCall
<1>1. PICK n \in DOMAIN Recipe :
          c \in Recipe[n] /\ \A m \in DOMAIN Recipe : m < n <=> Recipe[m] \cap done # {}
  BY DEF Allowed
<1>2. \A m \in DOMAIN Recipe : m < n <=> m <= k
  BY <1>1 DEF InStep
<1>3. DOMAIN Recipe = 1 .. Len(Recipe) /\ Len(Recipe) \in Nat
  BY RecipeSteps
<1>4. k < n /\ ~ (n <= k)
  BY <1>1, <1>2, <1>3
<1>5. k + 1 \in DOMAIN Recipe
  BY <1>1, <1>3, <1>4
<1>6. n = k + 1
  <2>1. k + 1 < n <=> k + 1 <= k
    BY <1>2, <1>5
  <2> QED BY <1>1, <1>3, <1>4, <2>1
<1> QED BY <1>1, <1>5, <1>6 DEF Allowed

\* A call that returns completes its step, and no other.
LEMMA StepDone ==
    ASSUME NEW k \in DOMAIN Recipe, InStep(k), k + 1 \in DOMAIN Recipe,
           NEW c \in Recipe[k + 1], done' = done \cup {c}
    PROVE  \A m \in DOMAIN Recipe : m <= k + 1 <=> Recipe[m] \cap done' # {}
<1> TAKE m \in DOMAIN Recipe
<1>1. DOMAIN Recipe \subseteq Nat
  BY RecipeSteps
<1>2. m <= k <=> Recipe[m] \cap done # {}
  BY DEF InStep
<1>3. c \in Recipe[m] => m = k + 1
  BY <1>1, RecipeAssumption
<1>4. Recipe[m] \cap done' # {} <=> m <= k \/ m = k + 1
  BY <1>2, <1>3
<1> QED BY <1>1, <1>4

\* The root's entries lie in its block.
LEMMA RootStays ==
    ASSUME TypeOK, NEW P, Tree(P), CellsStay(From(0), inodes[0].count * BlockCells),
           NEW e \in Slots
    PROVE  NameAt(Root, e)' = NameAt(Root, e)
<1>1. inodes[0] = Root /\ 0 \in InUse /\ 0 \in Dirs /\ inodes[0].count = 1
  BY DEF TypeOK, Tree, Rooted, Root, RootInode, InUse, Dirs
<1>2. EntryAt(Root, e) \in Addresses /\ EntryAt(Root, e) = From(0) + e * EntryCells
  BY <1>1, EntryCellsThere, PerBlock DEF Tree
<1>3. e * EntryCells \in Nat /\ e * EntryCells + EntryCells <= BlockCells /\ From(0) \in Nat
  BY <1>1, SlotInBlock, UseFacts DEF Tree
<1>4. From(0) <= EntryAt(Root, e) /\ EntryAt(Root, e) < From(0) + BlockCells
  BY <1>2, <1>3
<1>5. disk'[EntryAt(Root, e)] = disk[EntryAt(Root, e)]
  BY <1>1, <1>2, <1>4 DEF CellsStay
<1> QED BY <1>5 DEF NameAt, Root, EntryAt, RootInode

\* When the root's entries stay, fewer are wanted, or none is in the way.
LEMMA FilledStays ==
    ASSUME NEW k \in Nat, NEW l \in Nat, RootFilled(k), SeenEarly,
           l \in {k, k + 1}, l = k /\ Entering => Entering',
           \A e \in Slots : NameAt(Root, e)' = NameAt(Root, e)
    PROVE  RootFilled(l)' /\ SeenEarly'
<1> DEFINE u == Cardinality(RootSteps(IF Entering THEN k + 1 ELSE k))
           v == Cardinality(RootSteps(IF Entering' THEN l + 1 ELSE l))
<1>1. u \in Nat /\ v \in Nat /\ u <= v
  BY RootCount
<1>2. ASSUME NEW e \in Slots, e >= v PROVE Unused(Root, e)'
  <2>1. e \in Nat
    BY PerBlock DEF Slots
  <2>2. e >= u
    BY <1>1, <1>2, <2>1
  <2> QED BY <2>2 DEF RootFilled, Unused
<1> QED BY <1>2 DEF RootFilled, SeenEarly

\* An entry is added to the root when a call for the root is made.
LEMMA WriteDirInOrder ==
    ASSUME TypeOK, Room, ExtentsApart, Order, NEW P \in [InUse -> Seq(STRING)], Grows(P),
           call # Mkfs, RoomLeft, InImage, user.discipline # "any", WriteDir,
           NEW k \in DOMAIN Recipe, k + 1 \in DOMAIN Recipe, call \in Recipe[k + 1],
           RootFilled(k), SeenEarly, ~ Entering
    PROVE  RootFilled(k)' /\ SeenEarly'
<1>1. pc' = "inodes" /\ Entering' /\ k \in Nat
  BY RecipeSteps DEF WriteDir, Entering
<1>2. PICK u \in Nat, v \in Nat :
         /\ u = Cardinality(RootSteps(k)) /\ v = Cardinality(RootSteps(k + 1)) /\ u <= v
         /\ Len(call.path) = 1 => v = u + 1
  <2>1. Cardinality(RootSteps(k)) \in Nat /\ Cardinality(RootSteps(k + 1)) \in Nat
    BY <1>1, RootCount
  <2> QED BY <1>1, <2>1, RootCount
<1>3. \A e \in Slots : e \in Nat /\ (e >= u => Unused(Root, e))
  BY <1>2, PerBlock DEF RootFilled, Slots
<1>4. Tree(P) /\ Placed /\ cur \in Dirs /\ cur \in InUse /\ P[cur] = Parent(call.path)
      /\ inodes[0] = Root /\ P[0] = <<>> /\ 0 \in InUse
  BY DEF WriteDir, Grows, Tree, Working, Dirs, Rooted, Root, InUse, TypeOK
<1>5. CASE cur # 0
  <2>1. \A e \in Slots : NameAt(Root, e)' = NameAt(Root, e)
    BY <1>4, <1>5, WritesSpare, RootStays
  <2>2. ASSUME NEW e \in Slots, e >= v PROVE Unused(Root, e)'
    <3>1. e >= u
      BY <1>2, <1>3, <2>2
    <3> QED BY <1>3, <2>1, <3>1 DEF Unused
  <2> QED BY <1>1, <1>2, <2>1, <2>2 DEF RootFilled, SeenEarly
<1>6. CASE cur = 0
  <2>1. call.path \in Seq(STRING) /\ call.path # <<>> /\ Len(call.path) = 1
    <3>1. call.path \in Seq(STRING) /\ call.path # <<>>
      BY WriterPath DEF WriteDir
    <3>2. Len(Parent(call.path)) = 0
      BY <1>4, <1>6
    <3>3. PICK l \in Nat : l = Len(call.path) /\ 0 = l - 1
      BY <3>1, <3>2, PathSplit
    <3> QED BY <3>1, <3>3
  <2>2. PICK e \in Slots, a \in Addresses, z \in Addresses :
            /\ FirstUnused(inodes[cur], e) /\ a = EntryAt(inodes[cur], e)
            /\ a = From(cur) + e * EntryCells /\ z = a + EntryCells - 1
            /\ \E new : /\ DOMAIN new = {a, z} /\ new[a] = Name(Last(call.path))
                        /\ Write(a .. z, new)
    BY WriteDirCells
  <2>2a. PICK new : /\ DOMAIN new = {a, z} /\ new[a] = Name(Last(call.path))
                    /\ Write(a .. z, new)
    BY <2>2
  <2>3. e <= u
    <3> SUFFICES ASSUME ~ (e <= u) PROVE FALSE
      OBVIOUS
    <3>1. u \in Slots /\ u \in 0 .. e - 1
      BY <1>2, <1>3, PerBlock DEF Slots
    <3> QED BY <1>3, <1>4, <1>6, <2>2, <3>1 DEF FirstUnused
  <2>4. NameAt(Root, e)' = Name(Last(call.path))
    <3>1. EntryAt(Root, e)' = a
      BY <1>4, <1>6, <2>2 DEF EntryAt, Root, RootInode
    <3>2. disk'[a] = new[a]
      BY <2>2, <2>2a DEF Write
    <3> QED BY <2>2, <2>2a, <3>1, <3>2 DEF NameAt
  <2>5. ASSUME NEW f \in Slots, f # e PROVE NameAt(Root, f)' = NameAt(Root, f)
    <3>1. EntryAt(Root, f) \in Addresses /\ EntryAt(Root, f) = From(0) + f * EntryCells
      BY <1>4, <1>6, EntryCellsThere, PerBlock
    <3>2. PICK s \in Nat, o \in Nat, g \in Nat :
             /\ s = From(0) /\ o = e * EntryCells /\ g = f * EntryCells
             /\ s + o + EntryCells <= s + g \/ s + g + EntryCells <= s + o
      <4>1. From(0) \in Nat /\ e * EntryCells \in Nat /\ f * EntryCells \in Nat
        BY <1>4, UseFacts, SlotInBlock
      <4> QED BY <1>3, <2>5, <4>1, SlotsApart
    <3>3. a = s + o /\ z = s + o + EntryCells - 1 /\ EntryAt(Root, f) = s + g
      BY <1>6, <2>2, <3>1, <3>2
    <3>4. s + g < a \/ s + g > z
      <4>1. a = s + o /\ z = s + o + EntryCells - 1
        BY <3>3
      <4>2. s + o + EntryCells <= s + g \/ s + g + EntryCells <= s + o
        BY <3>2
      <4> QED BY <4>1, <4>2, EntryCellsLie
    <3>5. EntryAt(Root, f) \notin a .. z /\ EntryAt(Root, f) \notin DOMAIN new
      BY <2>2, <2>2a, <3>3, <3>4
    <3>6. disk'[EntryAt(Root, f)] = disk[EntryAt(Root, f)]
      BY <2>2, <2>2a, <3>1, <3>5 DEF Write
    <3> QED BY <3>6 DEF NameAt, Root, EntryAt, RootInode
  <2>6. RootFilled(k)'
    <3> SUFFICES ASSUME NEW f \in Slots, f >= v PROVE Unused(Root, f)'
      BY <1>1, <1>2 DEF RootFilled
    <3>1. f >= u /\ f # e
      BY <1>2, <1>3, <2>1, <2>3
    <3> QED BY <1>3, <2>5, <3>1 DEF Unused
  <2>7. SeenEarly'
    <3> SUFFICES ASSUME NEW f \in Slots, NEW x \in Stage2Names, NameAt(Root, f)' = Name(x)
                 PROVE  f <= 2
      BY DEF SeenEarly
    <3>1. CASE f # e
      BY <2>5, <3>1 DEF SeenEarly
    <3>2. CASE f = e
      <4>1. Last(call.path) = x
        <5>1. Name(Last(call.path)) = Name(x)
          BY <2>4, <3>2
        <5> QED BY <5>1, CellKinds
      <4>2. Cardinality(RootSteps((k + 1) - 1)) <= 2
        BY <4>1, BuildAssumption
      <4>3. (k + 1) - 1 = k
        BY <1>1
      <4> QED BY <1>2, <1>3, <2>3, <3>2, <4>2, <4>3
    <3> QED BY <3>1, <3>2
  <2> QED BY <2>6, <2>7
<1> QED BY <1>5, <1>6

LEMMA NextInOrder ==
    TypeOK /\ Room /\ ExtentsApart /\ Order /\ RoomLeft /\ InImage /\ Sound /\ InOrder
        /\ [Next]_vars => InOrder'
<1> DEFINE Goal == /\ pc' # "idle" => torn' = NoCall
                   /\ Mkfs \in done' =>
                         SeenEarly' /\ \E l \in DOMAIN Recipe : InStep(l)' /\ RootFilled(l)'
<1> SUFFICES ASSUME TypeOK, Room, ExtentsApart, Order, RoomLeft, InImage, Sound, InOrder,
                    [Next]_vars, user.discipline = "make"
             PROVE  Goal
  BY DEF InOrder, Next, vars
<1>1. /\ NamesInSlots /\ Formatting
      /\ Mkfs \in done => Growing
      /\ pc # "idle" => torn = NoCall
      /\ Mkfs \in done => SeenEarly /\ \E k \in DOMAIN Recipe : InStep(k) /\ RootFilled(k)
  BY DEF Sound, Surroundings, InOrder
<1>2. user.discipline # "any"
  OBVIOUS
<1>3. disk' = disk => \A e \in Slots : NameAt(Root, e)' = NameAt(Root, e)
  BY DEF NameAt, Root, EntryAt, RootInode
<1>4. DOMAIN Recipe \subseteq Nat
  BY RecipeSteps
\* A step that calls nothing, or ends nothing.
<1>5. ASSUME NEW k \in DOMAIN Recipe, InStep(k), RootFilled(k), SeenEarly, done' = done,
             Current' # NoCall => k + 1 \in DOMAIN Recipe /\ Current' \in Recipe[k + 1],
             pc' # "idle" => torn' = NoCall, Entering => Entering',
             \A e \in Slots : NameAt(Root, e)' = NameAt(Root, e)
      PROVE  Goal
  <2>1. InStep(k)'
    BY <1>5 DEF InStep
  <2>2. RootFilled(k)' /\ SeenEarly'
    BY <1>4, <1>5, FilledStays
  <2> QED BY <1>5, <2>1, <2>2
\* One that ends a call.
<1>6. ASSUME NEW k \in DOMAIN Recipe, InStep(k), RootFilled(k), SeenEarly,
             k + 1 \in DOMAIN Recipe, NEW c \in Recipe[k + 1], done' = done \cup {c},
             pc' = "idle", torn' = NoCall,
             \A e \in Slots : NameAt(Root, e)' = NameAt(Root, e)
      PROVE  Goal
  <2>1. InStep(k + 1)'
    <3>1. \A m \in DOMAIN Recipe : m <= k + 1 <=> Recipe[m] \cap done' # {}
      BY <1>6, StepDone
    <3>2. Current' = NoCall
      BY <1>6 DEF Current
    <3> QED BY <3>1, <3>2 DEF InStep
  <2>2. RootFilled(k + 1)' /\ SeenEarly'
    <3>1. k + 1 \in Nat /\ k \in Nat /\ k + 1 \in {k, k + 1} /\ k + 1 # k
      BY <1>4, <1>6
    <3> QED BY <1>6, <3>1, FilledStays
  <2> QED BY <1>6, <2>1, <2>2
<1> HIDE DEF Goal
<1>7. ASSUME done' = {}, pc' # "idle" => torn' = NoCall PROVE Goal
  BY <1>7 DEF Goal
<1>8. CASE Stamp
  BY <1>7, <1>8 DEF Stamp
<1>9. CASE mkfs
  <2>1. done' = {} /\ torn' = torn /\ Allowed(Mkfs)
    BY <1>9 DEF mkfs, Begin
  <2> QED BY <1>7, <2>1 DEF Allowed
<1>10. CASE FormatSuper \/ FormatInodes
  <2>1. pc \in Formats /\ pc # "idle" /\ done' = done /\ torn' = torn
    BY <1>10 DEF FormatSuper, FormatInodes, past, Formats
  <2> QED BY <1>1, <1>7, <2>1 DEF Formatting
<1>11. CASE FormatRoot
  <2>1. /\ pc' = "idle" /\ done' = {Mkfs} /\ torn' = NoCall
        /\ Write(Block(DATA_START), <<>>)
    BY <1>1, <1>11 DEF FormatRoot, Return, Formatting, Formats
  <2>2. ASSUME NEW e \in Slots PROVE NameAt(Root, e)' = ZERO
    <3>1. PICK b \in Nat, l \in Nat : /\ b = DATA_START * BlockCells
                                      /\ l = ImageBlocks * BlockCells
                                      /\ Block(DATA_START) = b .. b + BlockCells - 1
                                      /\ b + BlockCells <= l
      <4>1. /\ DATA_START * BlockCells \in Nat
            /\ (DATA_START + 1) * BlockCells = DATA_START * BlockCells + BlockCells
        BY DEF DATA_START
      <4>2. /\ DATA_START * BlockCells + BlockCells <= ImageBlocks * BlockCells
            /\ ImageBlocks * BlockCells \in Nat
        <5>1. DATA_START \in Nat /\ DATA_START < ImageBlocks
          BY DEF DATA_START
        <5> QED BY <5>1, BlocksInOrder
      <4>3. Block(DATA_START) = DATA_START * BlockCells .. DATA_START * BlockCells + BlockCells - 1
        BY <4>1 DEF Block
      <4> QED BY <4>1, <4>2, <4>3, Zenon
    <3>2. PICK o \in Nat : o = e * EntryCells /\ o + EntryCells <= BlockCells
      BY SlotInBlock
    <3>3. EntryAt(Root, e)' = b + o
      BY <3>1, <3>2 DEF EntryAt, Root, RootInode
    <3>4. b + o \in 0 .. l - 1 /\ b + o \in b .. b + BlockCells - 1
      BY <3>1, <3>2
    <3>5. b + o \in Addresses /\ b + o \in Block(DATA_START) /\ DOMAIN <<>> = {}
      BY <3>1, <3>4 DEF Addresses
    <3>6. disk'[b + o] = ZERO
      BY <2>1, <3>5 DEF Write
    <3> QED BY <3>3, <3>6 DEF NameAt
  <2>3. SeenEarly'
    BY <2>2, CellKinds DEF SeenEarly
  <2>4. RootFilled(1)'
    BY <2>2 DEF RootFilled, Unused
  <2>5. InStep(1)'
    <3>1. \A m \in DOMAIN Recipe : m <= 1 <=> Recipe[m] \cap {Mkfs} # {}
      <4> TAKE m \in DOMAIN Recipe
      <4>1. m \in Nat /\ m >= 1
        BY RecipeSteps
      <4>2. CASE m = 1
        BY <4>2, RecipeSteps
      <4>3. CASE m # 1
        BY <4>1, <4>3, RecipeAssumption
      <4> QED BY <4>2, <4>3
    <3>2. Current' = NoCall
      BY <2>1 DEF Current
    <3> QED BY <2>1, <3>1, <3>2 DEF InStep
  <2> QED BY <2>1, <2>3, <2>4, <2>5, RecipeSteps DEF Goal
<1>12. ASSUME NEW c, pc = "idle", Allowed(c), c.tool # "mkfs"
       PROVE  \E k \in DOMAIN Recipe :
                 /\ InStep(k) /\ RootFilled(k) /\ SeenEarly /\ ~ Entering /\ torn = NoCall
                 /\ k + 1 \in DOMAIN Recipe /\ c \in Recipe[k + 1]
  <2>1. Mkfs.tool = "mkfs"
    BY DEF Mkfs
  <2>2. Mkfs \in done
    BY <1>1, <1>12, <2>1, AllowedFirst DEF Formatting
  <2>3. PICK k \in DOMAIN Recipe : InStep(k) /\ RootFilled(k) /\ SeenEarly
    BY <1>1, <2>2
  <2>4. k + 1 \in DOMAIN Recipe /\ c \in Recipe[k + 1] /\ torn = NoCall
    BY <1>12, <2>3, NextStep
  <2> QED BY <1>12, <2>3, <2>4 DEF Entering
<1>13. ASSUME NEW c \in user.calls, mcopy(c) \/ mdir(c) PROVE Goal
  <2>1. /\ pc = "idle" /\ Allowed(c) /\ c.tool # "mkfs" /\ pc' # "idle" /\ call' = c
        /\ disk' = disk /\ done' = done /\ torn' = torn
    BY <1>13 DEF mcopy, mdir, Begin, image, past
  <2>2. PICK k \in DOMAIN Recipe :
           /\ InStep(k) /\ RootFilled(k) /\ SeenEarly /\ ~ Entering /\ torn = NoCall
           /\ k + 1 \in DOMAIN Recipe /\ c \in Recipe[k + 1]
    BY <1>12, <2>1
  <2>3. Current' = c
    BY <2>1 DEF Current
  <2> QED BY <1>3, <1>5, <2>1, <2>2, <2>3
<1>14. ASSUME NEW c \in user.calls, mdir_exists(c) PROVE Goal
  <2>1. /\ pc = "idle" /\ Allowed(c) /\ c.tool # "mkfs" /\ pc' = "idle"
        /\ disk' = disk /\ done' = done \cup {c} /\ torn' = torn
    BY <1>14 DEF mdir_exists, image
  <2>2. PICK k \in DOMAIN Recipe :
           /\ InStep(k) /\ RootFilled(k) /\ SeenEarly /\ ~ Entering /\ torn = NoCall
           /\ k + 1 \in DOMAIN Recipe /\ c \in Recipe[k + 1]
    BY <1>12, <2>1
  <2> QED BY <1>3, <1>6, <2>1, <2>2
<1>15. ASSUME pc \in {"data", "dir", "inodes", "super"}
       PROVE  /\ call # Mkfs /\ call # NoCall /\ Mkfs \in done /\ torn = NoCall
              /\ \E P \in [InUse -> Seq(STRING)] : Grows(P)
              /\ \E k \in DOMAIN Recipe :
                    /\ InStep(k) /\ RootFilled(k) /\ SeenEarly
                    /\ k + 1 \in DOMAIN Recipe /\ call \in Recipe[k + 1]
  <2>1. call # Mkfs /\ Mkfs \in done /\ torn = NoCall /\ Current = call
    BY <1>1, <1>15 DEF Formatting, Formats, Current
  <2>2. call # NoCall
    <3>1. call.tool \in {"mdir", "mcopy"}
      BY <1>15, <2>1, WriterPath
    <3>2. NoCall.tool = "none"
      BY DEF NoCall
    <3> QED BY <3>1, <3>2
  <2> QED BY <1>1, <2>1, <2>2 DEF Growing, InStep
<1>16. CASE WriteEmpty \/ WriteData \/ WriteDir \/ WriteInodes \/ WriteSuper \/ DirectoryFull
  <2>1. pc \in {"data", "dir", "inodes", "super"}
    BY <1>16 DEF WriteEmpty, WriteData, WriteDir, WriteInodes, WriteSuper, DirectoryFull
  <2>2. call # Mkfs /\ call # NoCall /\ Mkfs \in done /\ torn = NoCall
    BY <1>15, <2>1
  <2>3. PICK P \in [InUse -> Seq(STRING)] : Grows(P)
    BY <1>15, <2>1
  <2>4. PICK k \in DOMAIN Recipe : /\ InStep(k) /\ RootFilled(k) /\ SeenEarly
                                   /\ k + 1 \in DOMAIN Recipe /\ call \in Recipe[k + 1]
    BY <1>15, <2>1
  <2>5. Tree(P) /\ 0 \in InUse
    BY <2>3 DEF Grows, InUse, TypeOK
  <2>6. CASE WriteEmpty \/ WriteData
    <3>1. /\ pc = "data" /\ pc' \in {"data", "dir"} /\ done' = done /\ torn' = torn /\ call' = call
      BY <2>6 DEF WriteEmpty, WriteData, past, tool
    <3>2. ~ WriteDir
      BY <3>1 DEF WriteDir
    <3>3. CellsStay(From(0), inodes[0].count * BlockCells)
      BY <1>2, <2>2, <2>3, <2>5, <2>6, <3>2, WritesSpare
    <3>4. \A e \in Slots : NameAt(Root, e)' = NameAt(Root, e)
      BY <2>5, <3>3, RootStays
    <3>5. ~ Entering /\ Current' = call
      BY <2>2, <3>1 DEF Entering, Current
    <3> QED BY <1>5, <2>2, <2>4, <3>1, <3>4, <3>5
  <2>7. CASE WriteDir
    <3>1. pc = "dir" /\ pc' = "inodes" /\ done' = done /\ torn' = torn /\ call' = call
      BY <2>7 DEF WriteDir, past, tool
    <3>2. ~ Entering /\ Current' = call
      BY <2>2, <3>1 DEF Entering, Current
    <3>3. RootFilled(k)' /\ SeenEarly'
      BY <1>2, <2>2, <2>3, <2>4, <2>7, <3>2, WriteDirInOrder
    <3>4. InStep(k)'
      BY <2>4, <3>1, <3>2 DEF InStep
    <3> QED BY <2>2, <3>1, <3>3, <3>4 DEF Goal
  <2>8. CASE WriteInodes
    <3>1. /\ pc = "inodes" /\ pc' = "super" /\ disk' = disk /\ done' = done /\ torn' = torn
          /\ call' = call
      BY <2>8 DEF WriteInodes, past, tool
    <3>2. Entering' /\ Current' = call
      BY <3>1 DEF Entering, Current
    <3> QED BY <1>3, <1>5, <2>2, <2>4, <3>1, <3>2
  <2>9. CASE WriteSuper
    <3>1. /\ pc' = "idle" /\ done' = done \cup {call} /\ torn' = NoCall
          /\ Write(Block(0), sector0)
      BY <2>9 DEF WriteSuper, Return
    <3>2. CellsStay(From(0), inodes[0].count * BlockCells)
      BY <1>1, <2>5, <3>1, Block0Spared DEF NamesInSlots, Tree, Spared
    <3>3. \A e \in Slots : NameAt(Root, e)' = NameAt(Root, e)
      BY <2>5, <3>2, RootStays
    <3> QED BY <1>6, <2>4, <3>1, <3>3
  <2>10. CASE DirectoryFull
    BY <1>2, <2>2, <2>3, <2>10, NeverFull
  <2> QED BY <1>16, <2>6, <2>7, <2>8, <2>9, <2>10
<1>17. CASE Interrupt
  <2>1. /\ pc # "idle" /\ pc' = "idle" /\ torn' = call /\ done' = done /\ disk' = disk
    BY <1>17 DEF Interrupt, image
  <2>2. CASE pc \in Formats
    BY <1>1, <1>7, <2>1, <2>2 DEF Formatting
  <2>3. CASE pc \notin Formats
    <3>1. pc \in {"data", "dir", "inodes", "super"}
      BY <2>1, <2>3 DEF TypeOK, Formats
    <3>2. call # NoCall
      BY <1>15, <3>1
    <3>3. Entering' /\ Current' = call
      BY <2>1, <3>2 DEF Entering, Current
    <3> QED BY <1>3, <1>5, <1>15, <2>1, <3>1, <3>3
  <2> QED BY <2>2, <2>3
<1>18. CASE UNCHANGED vars
  <2>1. UNCHANGED <<disk, pc, call, done, torn>>
    BY <1>18 DEF vars, image, tool, past
  <2>2. Current' = Current /\ Entering' = Entering
    BY <2>1 DEF Current, Entering
  <2>3. CASE Mkfs \in done
    <3>1. PICK k \in DOMAIN Recipe : InStep(k) /\ RootFilled(k) /\ SeenEarly
      BY <1>1, <2>3
    <3> QED BY <1>1, <1>3, <1>5, <2>1, <2>2, <3>1 DEF InStep
  <2>4. CASE Mkfs \notin done
    BY <1>1, <2>1, <2>4 DEF Goal
  <2> QED BY <2>3, <2>4
<1> QED BY <1>8, <1>9, <1>10, <1>11, <1>13, <1>14, <1>16, <1>17, <1>18 DEF Next

LEMMA InitBuild == Init => Padding /\ InOrder
  BY DEF Init, Padding, InOrder

-----------------------------------------------------------------------------
(* What the loaders find in such a root.                                   *)

\* The blocks of a file that holds f are f's.
LEMMA WholeFile ==
    ASSUME TypeOK, NEW P, Tree(P), Padded, NEW n \in InUse,
           NEW f \in DOMAIN Length, Holds(n, f)
    PROVE  Loaded(n) = BlocksOf(f)
<1>1. /\ inodes[n].type = "file" /\ inodes[n].size = Length[f] /\ Length[f] \in Nat
      /\ \A k \in 0 .. Length[f] - 1 : disk[inodes[n].start * BlockCells + k] = Data(f, k)
  BY LengthAssumption DEF Holds
<1>2. /\ inodes[n].count = Blocks(Length[f])
      /\ ZerosBetween(From(n) + Length[f], From(n) + inodes[n].count * BlockCells)
  BY <1>1 DEF Padded
<1>3. inodes[n].start \in Nat /\ inodes[n].start >= DATA_START
  BY UseFacts DEF Tree, Placed
<1>4. PICK s \in Nat, l \in Nat, t \in Nat, z \in Nat :
         /\ s = inodes[n].start * BlockCells /\ s = From(n) /\ l = Length[f]
         /\ t = Blocks(l) * BlockCells /\ z = ImageBlocks * BlockCells
  <2>1. inodes[n].start * BlockCells \in Nat /\ Blocks(Length[f]) * BlockCells \in Nat
        /\ ImageBlocks * BlockCells \in Nat
    BY <1>1, <1>3, BlocksType
  <2> QED BY <1>1, <2>1, Zenon DEF From
\* All of them lie on the image.
<1>5. t > 0 => s + t <= z
  <2> SUFFICES ASSUME t > 0 PROVE s + t <= z
    OBVIOUS
  <2>1. Blocks(l) \in Nat /\ t < l + BlockCells
    BY <1>4, BlocksType, BlocksTight
  <2>2. s + l <= z
    BY <1>1, <1>4 DEF Tree, Placed
  <2>3. (inodes[n].start + Blocks(l)) * BlockCells = s + t
    <3>1. (inodes[n].start + Blocks(l)) * BlockCells
              = inodes[n].start * BlockCells + Blocks(l) * BlockCells
      BY <1>3, <2>1
    <3> QED BY <1>4, <3>1
  <2>4. inodes[n].start + Blocks(l) <= ImageBlocks
    <3> SUFFICES ASSUME ImageBlocks < inodes[n].start + Blocks(l) PROVE FALSE
      BY <1>3, <2>1
    <3>1. z + BlockCells <= s + t
      BY <1>3, <1>4, <2>1, <2>3, BlocksInOrder
    <3> QED BY <2>1, <2>2, <3>1
  <2>5. CASE inodes[n].start + Blocks(l) = ImageBlocks
    BY <1>4, <2>3, <2>5
  <2>6. CASE inodes[n].start + Blocks(l) < ImageBlocks
    <3>1. (inodes[n].start + Blocks(l)) * BlockCells + BlockCells <= z
      BY <1>3, <1>4, <2>1, <2>6, BlocksInOrder
    <3> QED BY <2>3, <3>1
  <2> QED BY <1>3, <2>1, <2>4, <2>5, <2>6
<1>6. ASSUME NEW k \in 0 .. t - 1
      PROVE  disk[s + k] = IF k < l THEN Data(f, k) ELSE ZERO
  <2>1. CASE k < l
    BY <1>1, <1>4, <2>1
  <2>2. CASE ~ (k < l)
    <3>1. s + k \in 0 .. z - 1 /\ s + l <= s + k /\ s + k < s + t
      BY <1>5, <2>2
    <3>2. s + k \in Addresses
      BY <1>4, <3>1 DEF Addresses
    <3> QED BY <1>2, <1>4, <2>2, <3>1, <3>2 DEF ZerosBetween
  <2> QED BY <2>1, <2>2
<1>7. Loaded(n) = [k \in 0 .. t - 1 |-> disk[s + k]]
  BY <1>2, <1>4, Zenon DEF Loaded, BlocksAt
<1>8. BlocksOf(f) = [k \in 0 .. t - 1 |-> IF k < l THEN Data(f, k) ELSE ZERO]
  BY <1>4, Zenon DEF BlocksOf
<1> QED BY <1>6, <1>7, <1>8

\* A file that is not empty has blocks, and the boot sector loads them all.
LEMMA SectorLoads ==
    ASSUME TypeOK, NEW P, Tree(P), Padded, NEW n \in InUse,
           NEW f \in DOMAIN Length, Holds(n, f), Length[f] > 0
    PROVE  Stage2Loaded(n) = BlocksOf(f)
<1>1. inodes[n].count = Blocks(Length[f])
  BY DEF Holds, Padded
<1>2. Blocks(Length[f]) # 0
  <2>1. Length[f] \in Nat
    BY LengthAssumption
  <2>2. Length[f] <= Blocks(Length[f]) * BlockCells
    BY <2>1, BlocksEnough
  <2>3. BlockCells \in Nat
    OBVIOUS
  <2>4. ASSUME Blocks(Length[f]) = 0 PROVE FALSE
    BY <2>1, <2>2, <2>3, <2>4
  <2> QED BY <2>4
<1>3. Stage2Loaded(n) = Loaded(n)
  BY <1>1, <1>2 DEF Stage2Loaded, Loaded
<1>4. Loaded(n) = BlocksOf(f)
  BY WholeFile
<1> QED BY <1>3, <1>4

\* Stage 2 finds every inode under its path.
LEMMA StageTwoWalks ==
    ASSUME TypeOK, NEW P \in [InUse -> Seq(STRING)], Tree(P), Fresh(P), NamesInSlots,
           NEW m \in InUse
    PROVE  resolve_path(P[m]) = m
<1> DEFINE S == {l \in Nat : \A k \in InUse : Len(P[k]) = l => resolve_path(P[k]) = k}
<1>1. 0 \in S
  <2> SUFFICES ASSUME NEW k \in InUse, Len(P[k]) = 0 PROVE resolve_path(P[k]) = k
    OBVIOUS
  <2>1. P[k] \in Seq(STRING) /\ P[k] = <<>>
    BY EmptySeq
  <2>2. k = 0
    BY <2>1 DEF Tree, Entered
  <2> QED BY <2>1, <2>2, ReadRoot
<1>2. ASSUME NEW l \in Nat, l \in S PROVE l + 1 \in S
  <2> SUFFICES ASSUME NEW k \in InUse, Len(P[k]) = l + 1 PROVE resolve_path(P[k]) = k
    OBVIOUS
  <2>1. P[k] \in Seq(STRING) /\ P[k] # <<>>
    BY EmptySeq
  <2>2. Len(Parent(P[k])) = l
    BY <2>1, PathSplit
  <2>3. PICK n \in Dirs : P[n] = Parent(P[k])
    <3>1. k # 0
      BY <2>1 DEF Tree, Rooted
    <3> QED BY <3>1 DEF Tree, Entered
  <2>4. n \in InUse /\ n \in -1 .. MaxFiles - 1 /\ n # NONE
    BY <2>3, UseFacts DEF Dirs, Tree, NONE
  <2>5. resolve_path(Parent(P[k])) = n
    BY <1>2, <2>2, <2>3, <2>4
  <2>6. Lookup(Parent(P[k])) = n /\ Lookup(P[k]) = k
    BY <2>3, <2>4, WalkTo
  <2>7. k = find_in_dir(n, Last(P[k]))
    BY <2>1, <2>4, <2>6, LookupStep
  <2>8. Seen(Last(P[k]))[n] = find_in_dir(n, Last(P[k]))
    BY <2>3, DirectoriesAgree
  <2> QED BY <2>1, <2>5, <2>7, <2>8, ReadStep
<1>3. Nat \subseteq S
  <2> HIDE DEF S
  <2> QED BY <1>1, <1>2, Induction
<1>4. Len(P[m]) \in Nat
  OBVIOUS
<1> QED BY <1>3, <1>4

\* When all steps have been taken, nothing is left of another one, and the root's
\* entries are those of the calls that are done.
AllBuilt ==
    /\ user.discipline = "make" /\ pc = "idle"
    /\ \A n \in DOMAIN Recipe : Built(n) # {}

LEMMA NothingTorn ==
    ASSUME TypeOK, Sound, Padding, InOrder, AllBuilt
    PROVE  /\ Mkfs \in done /\ NamesInSlots /\ Padded /\ SeenEarly
           /\ Target = <<>>
           /\ \E P \in [InUse -> Seq(STRING)] : Grows(P)
           /\ \A d \in done : \E n \in DOMAIN Recipe : d \in Recipe[n]
<1>1. Mkfs \in done
  BY RecipeSteps DEF AllBuilt, Built
<1>2. PICK k \in DOMAIN Recipe : InStep(k)
  BY <1>1 DEF AllBuilt, InOrder
<1>3. torn = NoCall
  <2> SUFFICES ASSUME torn # NoCall PROVE FALSE
    OBVIOUS
  <2>1. k + 1 \in DOMAIN Recipe
    BY <1>2 DEF AllBuilt, InStep, Current
  <2>2. k + 1 <= k
    BY <1>2, <2>1 DEF AllBuilt, Built, InStep
  <2> QED BY <2>2, RecipeSteps
<1>4. Target = <<>>
  BY <1>3 DEF AllBuilt, Target, NoCall
<1> QED BY <1>1, <1>4 DEF AllBuilt, InOrder, Sound, Surroundings, Growing, FromRecipe, Padding

\* So an entry of the root is of a call that is done.
LEMMA RootEntry ==
    ASSUME TypeOK, NEW P \in [InUse -> Seq(STRING)], Grows(P), Target = <<>>,
           NEW e \in Slots, NEW x, NameAt(Root, e) = Name(x)
    PROVE  LET m == IndexAt(Root, e)
           IN  /\ m \in InUse \ {0} /\ P[m] # <<>> /\ Parent(P[m]) = <<>> /\ Last(P[m]) = x
               /\ \E d \in done \ {Mkfs} : d.path = P[m]
<1>1. inodes[0] = Root /\ 0 \in Dirs /\ P[0] = <<>>
  BY DEF Grows, Tree, Rooted, Root, RootInode, Dirs, InUse, TypeOK
<1>2. IsName(NameAt(inodes[0], e)) /\ NameAt(inodes[0], e).name = x
  BY <1>1, CellKinds
<1> DEFINE m == IndexAt(inodes[0], e)
<1>3. \/ m \in InUse \ {0} /\ P[m] = Append(P[0], x)
      \/ Append(P[0], x) = Target
  BY <1>1, <1>2 DEF Grows, Tree, Followed
<1>4. P[0] \in Seq(STRING)
  BY <1>1 DEF Dirs
<1> HIDE DEF m
<1>5. Append(P[0], x) # <<>>
  BY <1>4
<1>6. m \in InUse \ {0} /\ P[m] = Append(P[0], x) /\ P[m] \in Seq(STRING)
  BY <1>3, <1>5
<1>7. P[m] # <<>> /\ P[0] = Parent(P[m]) /\ x = Last(P[m])
  BY <1>4, <1>6, AppendSplit
<1>8. PICK d \in done : d.path = P[m]
  BY <1>6 DEF Grows, Tree, Called
<1>9. d # Mkfs
  <2>1. Mkfs.path = <<>>
    BY DEF Mkfs
  <2> QED BY <1>7, <1>8, <2>1
<1>10. m = IndexAt(Root, e)
  BY <1>1 DEF m
<1> QED BY <1>1, <1>6, <1>7, <1>8, <1>9, <1>10

\* And a call for the root that is done has its entry there.
LEMMA RootCall ==
    ASSUME TypeOK, NEW P \in [InUse -> Seq(STRING)], Grows(P),
           NEW d \in done \ {Mkfs}, Len(d.path) = 1, d.tool = "mcopy"
    PROVE  \E m \in InUse \ {0} : \E e \in Slots :
              /\ P[m] = d.path /\ Holds(m, d.src)
              /\ NameAt(Root, e) = Name(Last(d.path)) /\ IndexAt(Root, e) = m
<1>1. PICK m \in InUse \ {0} : P[m] = d.path /\ Holds(m, d.src)
  BY DEF Grows, Tree, Kept
<1>2. PICK n \in Dirs, e \in Slots : P[n] = Parent(P[m]) /\ Leads(n, e, Last(P[m]), m)
  BY DEF Grows, Tree, Entered
<1>3. P[m] \in Seq(STRING) /\ P[m] # <<>>
  BY DEF Grows, Tree, Entered
<1>4. P[n] = <<>>
  <2>1. PICK l \in Nat : l = Len(Parent(P[m])) /\ l = 1 - 1
    BY <1>1, <1>3, PathSplit
  <2>2. Parent(P[m]) \in Seq(STRING) /\ Len(Parent(P[m])) = 0
    BY <1>3, <2>1, PathSplit
  <2> QED BY <1>2, <2>2, EmptySeq
<1>5. n = 0 /\ inodes[0] = Root
  <2>1. 0 \in InUse /\ n \in InUse
    BY DEF TypeOK, InUse, Dirs
  <2> QED BY <1>4, <2>1 DEF Grows, Tree, Rooted, Distinct, Root
<1> QED BY <1>1, <1>2, <1>5 DEF Leads

LEMMA BuiltBoots == TypeOK /\ Sound /\ Padding /\ InOrder => BuildBoots
<1> SUFFICES ASSUME TypeOK, Sound, Padding, InOrder, AllBuilt, NEW c \in done \ {Mkfs}
             PROVE  /\ Last(c.path) \in Stage2Names =>
                          Stage2Inode # NONE /\ Stage2Loaded(Stage2Inode) = BlocksOf(c.src)
                    /\ c.path \in {KernelPath[f] : f \in DOMAIN KernelPath} =>
                          KernelInode # NONE /\ Loaded(KernelInode) = BlocksOf(c.src)
  BY DEF BuildBoots, AllBuilt
<1>1. /\ NamesInSlots /\ Padded /\ SeenEarly /\ Target = <<>>
      /\ \A d \in done : \E n \in DOMAIN Recipe : d \in Recipe[n]
  BY NothingTorn
<1>2. PICK P \in [InUse -> Seq(STRING)] : Grows(P)
  BY NothingTorn
<1>3. /\ Tree(P) /\ Fresh(P)
      /\ \A m, n \in InUse : P[m] = P[n] => m = n
      /\ InUse \subseteq Nat
  BY <1>2 DEF Grows, Tree, Distinct, InUse
<1>4. PICK n \in DOMAIN Recipe : c \in Recipe[n] \ {Mkfs}
  BY <1>1
<1>5. c.tool = "mcopy" => c.src \in DOMAIN Length
  BY CallsAssumption DEF TypeOK
<1>6. ASSUME Last(c.path) \in Stage2Names
      PROVE  Stage2Inode # NONE /\ Stage2Loaded(Stage2Inode) = BlocksOf(c.src)
  <2>1. /\ c.tool = "mcopy" /\ Len(c.path) = 1 /\ Length[c.src] > 0
        /\ \A m \in DOMAIN Recipe : \A d \in Recipe[m] \ {Mkfs} :
              Last(d.path) \in Stage2Names => d.path = c.path
    BY <1>4, <1>6, BuildAssumption
  <2>2. PICK m \in InUse \ {0}, e \in Slots :
            /\ P[m] = c.path /\ Holds(m, c.src)
            /\ NameAt(Root, e) = Name(Last(c.path)) /\ IndexAt(Root, e) = m
    BY <1>2, <2>1, RootCall
  <2>3. e <= 2 /\ e \in Nat
    BY <1>1, <1>6, <2>2, PerBlock DEF SeenEarly
  <2>4. e \in BootEntries /\ BootEntries \subseteq Nat
    BY <1>6, <2>2, <2>3 DEF BootEntries
  <2>5. PICK f \in BootEntries :
            Stage2Inode = IndexAt(Root, f) /\ \A g \in BootEntries : f <= g
    <3>1. \E f \in BootEntries : \A g \in BootEntries : f <= g
      BY <2>4, Least
    <3> QED BY <2>4, <3>1 DEF Stage2Inode
  <2>6. f \in Slots
    <3>1. f \in Nat /\ f <= e
      BY <2>4, <2>5
    <3> QED BY <2>3, <3>1, PerBlock DEF Slots
  <2>7. PICK x \in Stage2Names : NameAt(Root, f) = Name(x)
    BY <2>5 DEF BootEntries
  <2>8. PICK d \in done \ {Mkfs} : /\ Stage2Inode \in InUse \ {0}
                                   /\ d.path = P[Stage2Inode] /\ Last(d.path) = x
    BY <1>1, <1>2, <2>5, <2>6, <2>7, RootEntry
  <2>9. Stage2Inode = m
    <3>1. d.path = c.path
      BY <1>1, <2>1, <2>7, <2>8
    <3> QED BY <1>3, <2>2, <2>8, <3>1
  <2> QED BY <1>1, <1>3, <1>5, <2>1, <2>2, <2>9, SectorLoads DEF NONE
<1>7. ASSUME c.path \in {KernelPath[f] : f \in DOMAIN KernelPath}
      PROVE  KernelInode # NONE /\ Loaded(KernelInode) = BlocksOf(c.src)
  <2>1. PICK l \in DOMAIN Recipe \ {1} : \A d \in Recipe[l] :
            /\ d.tool = "mcopy" /\ d.path = <<ConfigName>>
            /\ d.src \in DOMAIN KernelPath /\ Length[d.src] > 0
            /\ \A b \in Recipe[n] \ {Mkfs} :
                  b.path \in {KernelPath[f] : f \in DOMAIN KernelPath} =>
                      b.tool = "mcopy" /\ b.path = KernelPath[d.src]
    BY BuildAssumption
  <2>2. PICK d \in done \ {Mkfs} :
            /\ d.tool = "mcopy" /\ d.path = <<ConfigName>> /\ Length[d.src] > 0
            /\ c.tool = "mcopy" /\ c.path = KernelPath[d.src]
    <3>1. PICK d \in Recipe[l] : d \in done
      BY DEF AllBuilt, Built
    <3>2. d # Mkfs
      BY RecipeAssumption
    <3> QED BY <1>4, <1>7, <2>1, <3>1, <3>2
  <2>3. Len(d.path) = 1 /\ Last(d.path) = ConfigName
    BY <2>2 DEF Last
  <2>4. PICK m \in InUse \ {0}, e \in Slots :
            /\ P[m] = d.path /\ Holds(m, d.src)
            /\ NameAt(Root, e) = Name(ConfigName) /\ IndexAt(Root, e) = m
    BY <1>2, <2>2, <2>3, RootCall
  <2> DEFINE seen == SeenBy2(Root, ConfigName)
  <2>5. e \in seen /\ seen \subseteq Nat /\ \A f \in seen : f \in Slots /\ f <= PER_BLOCK - 1
    BY <2>4, PerBlock DEF SeenBy2, Slots
  <2>6. PICK f \in seen : ConfigInode = IndexAt(Root, f)
    <3>1. PER_BLOCK - 1 \in Nat
      BY <2>5, PerBlock DEF Slots
    <3>2. \E f \in seen : \A g \in seen : g <= f
      <4> HIDE DEF seen
      <4> QED BY <2>5, <3>1, Greatest
    <3> QED BY <2>5, <3>2 DEF ConfigInode
  <2>7. ConfigInode = m
    <3>1. NameAt(Root, f) = Name(ConfigName) /\ f \in Slots
      BY <2>5, <2>6 DEF SeenBy2
    <3>2. /\ ConfigInode \in InUse \ {0} /\ P[ConfigInode] \in Seq(STRING)
          /\ P[ConfigInode] # <<>> /\ Parent(P[ConfigInode]) = <<>>
          /\ Last(P[ConfigInode]) = ConfigName
      BY <1>1, <1>2, <2>6, <3>1, RootEntry
    <3>3. /\ P[m] \in Seq(STRING) /\ P[m] # <<>> /\ Last(P[m]) = ConfigName
          /\ Parent(P[m]) = <<>>
      <4>1. IndexAt(Root, e) = m /\ NameAt(Root, e) = Name(ConfigName)
        BY <2>4
      <4> QED BY <1>1, <1>2, <4>1, RootEntry
    <3>4. P[ConfigInode] = Append(<<>>, ConfigName) /\ P[m] = Append(<<>>, ConfigName)
      BY <3>2, <3>3, PathSplit
    <3> QED BY <1>3, <3>2, <3>4
  <2>8. Says(ConfigInode) = d.src
    <3>1. disk[inodes[m].start * BlockCells + 0] = Data(d.src, 0)
      BY <2>2, <2>4, LengthAssumption, CallsAssumption DEF Holds, TypeOK
    <3>2. inodes[m].start * BlockCells + 0 = inodes[m].start * BlockCells
      BY <1>3, UseFacts DEF Tree
    <3> QED BY <2>7, <3>1, <3>2 DEF Says, Data
  <2>9. KernelInode = resolve_path(c.path)
    BY <1>3, <2>2, <2>7, <2>8 DEF KernelInode, NONE
  <2>10. PICK k \in InUse \ {0} : P[k] = c.path /\ Holds(k, c.src)
    BY <1>3, <2>2 DEF Tree, Kept
  <2>11. KernelInode = k
    BY <1>1, <1>3, <2>9, <2>10, StageTwoWalks
  <2> QED BY <1>1, <1>3, <1>5, <2>2, <2>10, <2>11, WholeFile DEF NONE
<1> QED BY <1>6, <1>7

\* As long as no directory fills its block: when make has run its recipe to the
\* end, the boot sector loads this build's stage 2, all of it and nothing else, and
\* stage 2 this build's kernel, whatever earlier builds left on the image and
\* wherever they stopped (Makefile:50-55, boot.asm:84-141, stage2.c:198-245).
THEOREM WhatIsBuiltBoots == Spec /\ [](RoomLeft /\ InImage) => []BuildBoots
<1>1. ((TypeOK /\ Room) /\ (ExtentsApart /\ Order) /\ Sound) /\ (RoomLeft /\ InImage)
          /\ Padding /\ InOrder /\ [Next]_vars => (Padding /\ InOrder)'
  BY NextPadding, NextInOrder
<1>2. TypeOK /\ Sound /\ Padding /\ InOrder => BuildBoots
  BY BuiltBoots
<1> QED BY <1>1, <1>2, AlwaysSound, InitBuild, PTL DEF Spec

=============================================================================

------------------------------ MODULE BootChain ------------------------------
(***************************************************************************)
(* The readers of the boot partition: the boot sector, which looks for     *)
(* stage2.bin in the root directory and loads it (boot.asm), and stage 2,  *)
(* which finds config.cfg there, takes the kernel's path from it and loads *)
(* the kernel (stage2.c).  They run when no tool does, and only read, so   *)
(* that they are functions of the image.                                   *)
(*                                                                         *)
(* The boot sector compares the ten characters of "stage2.bin" without the *)
(* end of the name; Stage2Names are the names that begin so.               *)
(***************************************************************************)
EXTENDS LabFS, FiniteSets

CONSTANTS
    Stage2Names,    \* the names that begin with "stage2.bin"
    ConfigName,     \* "config.cfg"
    KernelPath      \* what host file c says of the kernel: its path, by c

\* The calls of the recipe that make an entry in the root, up to the k-th.
RootSteps(k) == {n \in 1 .. k : \E c \in Recipe[n] : Len(c.path) = 1}

\* The Makefile copies one file whose name begins with "stage2.bin", not empty, into
\* the root and as one of its first three entries, and the kernel as a file to where
\* the config.cfg that it copies says (Makefile:52-55, config.cfg:2).
ASSUME BuildAssumption ==
    LET made(n) == Recipe[n] \ {Mkfs}
    IN  /\ \A n \in DOMAIN Recipe : \A c \in made(n) : Last(c.path) \in Stage2Names =>
              /\ c.tool = "mcopy" /\ Len(c.path) = 1 /\ Length[c.src] > 0
              /\ Cardinality(RootSteps(n - 1)) <= 2
              /\ \A m \in DOMAIN Recipe : \A d \in made(m) :
                    Last(d.path) \in Stage2Names => d.path = c.path
        /\ \E n \in DOMAIN Recipe \ {1} : \A d \in Recipe[n] :
              /\ d.tool = "mcopy" /\ d.path = <<ConfigName>>
              /\ d.src \in DOMAIN KernelPath /\ Length[d.src] > 0
              /\ \A m \in DOMAIN Recipe : \A c \in made(m) :
                    c.path \in {KernelPath[f] : f \in DOMAIN KernelPath} =>
                        c.tool = "mcopy" /\ c.path = KernelPath[d.src]

Root == RootInode       \* both start from the block at data_start

\* What k blocks from block b on hold, one after the other.
BlocksAt(b, k) == [a \in 0 .. k * BlockCells - 1 |-> disk[b * BlockCells + a]]

\* What stage 2 brings to memory for inode n.
Loaded(n) == BlocksAt(inodes[n].start, inodes[n].count)

\* What the boot sector does: its loop counts down before it asks, so that it
\* loads 65536 blocks of an empty file.  (The memory they come to, and the disk's
\* geometry, are left out.)
Stage2Loaded(n) ==
    BlocksAt(inodes[n].start, IF inodes[n].count = 0 THEN 65536 ELSE inodes[n].count)

\* Looks at two entries.
BootEntries_two == {e \in 0 .. 1 : \E x \in Stage2Names : NameAt(Root, e) = Name(x)}

\* boot.asm: of the first three entries of the root.
BootEntries == {e \in 0 .. 2 : \E x \in Stage2Names : NameAt(Root, e) = Name(x)}

Stage2Inode ==
    IF BootEntries = {} THEN NONE
    ELSE IndexAt(Root, CHOOSE e \in BootEntries : \A f \in BootEntries : e <= f)

\* Misses the last entry of the block.
SeenBy2_short(d, x) ==
    {e \in 0 .. PER_BLOCK - 2 : NameAt(d, e) = Name(x) /\ IndexAt(d, e) # 0}

\* stage2.c looks at the entries of one block, skips those with index 0, and
\* does not ask whether an inode is a directory.  (For config.cfg it looks at
\* twice as many; behind its buffer there is no such name.)
SeenBy2(d, x) ==
    {e \in 0 .. PER_BLOCK - 1 : NameAt(d, e) = Name(x) /\ IndexAt(d, e) # 0}

\* Of two entries with the same name, the last counts.
ConfigInode ==
    LET seen == SeenBy2(Root, ConfigName)
    IN  IF seen = {} THEN NONE
        ELSE IndexAt(Root, CHOOSE e \in seen : \A f \in seen : f <= e)

\* Of two entries with the same name, the first counts.
resolve_path(path) ==
    LET first(n, x) == CHOOSE e \in SeenBy2(inodes[n], x) :
                           \A f \in SeenBy2(inodes[n], x) : e <= f
        next(x) == [n \in -1 .. MaxFiles - 1 |->
                       IF n = NONE \/ SeenBy2(inodes[n], x) = {} THEN NONE
                       ELSE IndexAt(inodes[n], first(n, x))]
        walk[k \in 0 .. Len(path)] == IF k = 0 THEN 0 ELSE next(path[k])[walk[k - 1]]
    IN  walk[Len(path)]

\* The host file whose bytes a file's blocks begin with.
Says(n) == disk[inodes[n].start * BlockCells].file

KernelInode ==
    IF ConfigInode = NONE THEN NONE ELSE resolve_path(KernelPath[Says(ConfigInode)])

-----------------------------------------------------------------------------
(* Properties.                                                             *)

\* The blocks of a file that holds f, filled up with zeros.
BlocksOf(f) ==
    [k \in 0 .. Blocks(Length[f]) * BlockCells - 1 |->
        IF k < Length[f] THEN Data(f, k) ELSE ZERO]

Built(n) == Recipe[n] \cap done

\* Whatever earlier builds left on the image, and wherever they stopped: when
\* make has run its recipe to the end (Makefile:50-55), the boot sector loads
\* this build's stage 2, and stage 2 this build's kernel.
BuildBoots ==
    user.discipline = "make" /\ pc = "idle" /\ (\A n \in DOMAIN Recipe : Built(n) # {}) =>
        \A c \in done \ {Mkfs} :
            /\ Last(c.path) \in Stage2Names =>
                  Stage2Inode # NONE /\ Stage2Loaded(Stage2Inode) = BlocksOf(c.src)
            /\ c.path \in {KernelPath[f] : f \in DOMAIN KernelPath} =>
                  KernelInode # NONE /\ Loaded(KernelInode) = BlocksOf(c.src)

\* Stage 2's own path resolution finds what the tools find (stage2.c:92-136).
LoadersAgree ==
    Mkfs \in done /\ user.discipline # "any" =>
        \A p \in Paths : resolve_path(p) = Lookup(p)

=============================================================================

-------------------------------- MODULE LabFS --------------------------------
(***************************************************************************)
(* LabFS-Lite, the file system of the boot partition, and the three tools  *)
(* that write it: mkfs.labfs, mdir.labfs and mcopy.labfs.  A tool is one   *)
(* action per write to the image, between any two of which it may be       *)
(* interrupted; what it reads does not change while it runs.               *)
(*                                                                         *)
(* The image is a row of cells, BlockCells to a block.  A directory entry  *)
(* is EntryCells cells, the first for the name, the last for the inode     *)
(* index, and its size does not divide that of a block (60 and 512 bytes). *)
(* The superblock's inode_count and the inode table, which has a block to  *)
(* itself, are variables.                                                  *)
(*                                                                         *)
(* Operators named after another one, like Ends_files after Ends, are      *)
(* that one with a plausible programming mistake.                          *)
(***************************************************************************)
EXTENDS Integers, Sequences

CONSTANTS
    BlockCells,     \* LABFS_BLOCK_SIZE, 128 four-byte words
    EntryCells,     \* sizeof(struct DirEntry), 15 of them
    MaxFiles,       \* LABFS_MAX_FILES, 16
    ImageBlocks,    \* how many blocks of the image are looked at
    BootCells,      \* how many cells of sector 0 hold the boot sector's code
    Users,          \* who may call the tools
    Length,         \* the host files' lengths in cells, by name
    Recipe          \* what the Makefile calls, in order

DATA_START == 2
PER_BLOCK  == BlockCells \div EntryCells     \* LABFS_DIRENTRIES_PER_BLOCK
NONE       == -1
Mkfs       == [tool |-> "mkfs", path |-> <<>>, src |-> ""]
NoCall     == [tool |-> "none", path |-> <<>>, src |-> ""]

\* The path p is q, or leads to a directory on the way to it.
Begins(p, q) == Len(p) <= Len(q) /\ \A n \in DOMAIN p : p[n] = q[n]

CommandLine == [tool : {"mkfs", "mdir", "mcopy"}, path : Seq(STRING), src : STRING]

\* A user's command lines (tool, path, src), whether make calls them, a
\* prudent user or anyone, and how often a tool is interrupted at most.
Calls == UNION {u.calls : u \in Users}

ASSUME SizesAssumption ==
    /\ BlockCells \in Nat \ {0} /\ EntryCells \in Nat \ {0, 1}
    /\ MaxFiles \in Nat /\ MaxFiles > 1
    /\ ImageBlocks \in Nat /\ ImageBlocks > DATA_START + 1
    /\ BootCells \in 0 .. BlockCells
\* The root directory's entries fit the image, those of a block are no more
\* than a directory's, and an entry behind its directory's block starts where
\* no block's entries do.
ASSUME LayoutAssumption ==
    /\ DATA_START * BlockCells + MaxFiles * EntryCells <= ImageBlocks * BlockCells
    /\ PER_BLOCK <= MaxFiles
    /\ \A k \in 1 .. ImageBlocks, e \in 1 .. MaxFiles - 1 : k * BlockCells # e * EntryCells
ASSUME CallsAssumption ==
    /\ \A u \in Users : Mkfs \in u.calls
    /\ Calls \subseteq CommandLine
    /\ \A c \in Calls \ {Mkfs} : c.tool # "mkfs" /\ c.path # <<>>
    /\ \A c \in Calls : c.tool = "mcopy" => c.src \in DOMAIN Length
\* The Makefile formats first, and names no path twice nor below a file's.
ASSUME RecipeAssumption ==
    /\ Recipe \in Seq(SUBSET CommandLine) /\ Recipe # <<>> /\ Recipe[1] = {Mkfs}
    /\ \A n \in DOMAIN Recipe \ {1} : Mkfs \notin Recipe[n]
    /\ \A n \in DOMAIN Recipe, m \in DOMAIN Recipe : m < n =>
          \A c \in Recipe[n], d \in Recipe[m] :
             d.path # c.path /\ (d.tool = "mcopy" => ~ Begins(d.path, c.path))
ASSUME LengthAssumption     == \A f \in DOMAIN Length : Length[f] \in Nat
ASSUME UsersAssumption ==
    \A u \in Users : u.discipline \in {"make", "prudent", "any"} /\ u.interrupts \in Nat

VARIABLES
    disk,           \* the image's cells, by address
    inode_count,    \* in the superblock
    inodes,         \* the inode table
    pc,             \* the running tool's next write, or "idle"
    call,           \* its command line
    sector0,        \* the boot sector as it read it
    cur,            \* the directory it works in
    next_block,     \* the first block of what it writes
    i,              \* the next block of the file it copies
    done,           \* the calls that have returned 0 since the last mkfs
    torn,           \* the call that was interrupted and not repeated yet
    interrupts,
    user            \* who calls the tools

image == <<disk, inode_count, inodes>>
tool  == <<call, sector0, cur, next_block>>
past  == <<done, torn, interrupts>>
vars  == <<image, pc, tool, i, past, user>>

-----------------------------------------------------------------------------
(* The image.                                                              *)

ZERO       == [zero |-> 0]
Name(x)    == [name |-> x]
Index(n)   == [idx |-> n]
Data(f, k) == [file |-> f, at |-> k]
Code(k)    == [code |-> k]

Block(b) == b * BlockCells .. (b + 1) * BlockCells - 1
Addresses == 0 .. ImageBlocks * BlockCells - 1

\* Writes to the addresses S: new, and zero where new is not defined.
Write(S, new) ==
    disk' = [a \in Addresses |-> IF a \in DOMAIN new THEN new[a]
                                 ELSE IF a \in S THEN ZERO ELSE disk[a]]

BootSector == [k \in 0 .. BootCells - 1 |-> Code(k)]
NoInode    == [type |-> "none", size |-> 0, start |-> 0, count |-> 0]
RootInode  == [type |-> "dir", size |-> BlockCells, start |-> DATA_START, count |-> 1]

\* The tools read LABFS_MAX_FILES entries, whatever block they lie in.
Entries        == 0 .. MaxFiles - 1
EntryAt(d, e)  == d.start * BlockCells + e * EntryCells
NameAt(d, e)   == disk[EntryAt(d, e)]

\* An index that was overwritten is none that the tools could use.
IndexAt(d, e) ==
    LET c == disk[EntryAt(d, e) + EntryCells - 1]
    IN  IF c = ZERO THEN 0 ELSE IF "idx" \in DOMAIN c THEN c.idx ELSE NONE

find_in_dir(n, x) ==
    LET named(e) == NameAt(inodes[n], e) = Name(x)
    IN  IF inodes[n].count = 0 \/ \A e \in Entries : ~ named(e) THEN NONE
        ELSE IndexAt(inodes[n], CHOOSE e \in Entries :
                                   named(e) /\ \A f \in 0 .. e - 1 : ~ named(f))

\* The inode that a path leads to from the root, or NONE.
Lookup(path) ==
    LET next(x) == [n \in -1 .. MaxFiles - 1 |-> IF n = NONE THEN NONE ELSE find_in_dir(n, x)]
        walk[k \in 0 .. Len(path)] == IF k = 0 THEN 0 ELSE next(path[k])[walk[k - 1]]
    IN  walk[Len(path)]

Parent(path) == SubSeq(path, 1, Len(path) - 1)
Last(path)   == path[Len(path)]

-----------------------------------------------------------------------------
(* Who calls the tools.  make runs its recipe from the boot sector's stamp *)
(* on and stops at the first failure.  A prudent user formats first; adds  *)
(* each path once; names a file never as a directory; and after an         *)
(* interruption repeats the mcopy or starts again with mkfs.               *)

Allowed(c) ==
    CASE user.discipline = "make" ->
            torn = NoCall /\ \E n \in DOMAIN Recipe :
                c \in Recipe[n] /\ \A m \in DOMAIN Recipe : m < n <=> Recipe[m] \cap done # {}
      [] user.discipline = "prudent" ->
            c = Mkfs \/ /\ Mkfs \in done
                        /\ torn = NoCall \/ (c = torn /\ c.tool = "mcopy")
                        /\ \A d \in done :
                              /\ d.tool = "mcopy" => ~ Begins(d.path, c.path)
                              /\ d.path = c.path => c.tool = "mdir"
      [] OTHER -> TRUE

\* Once it is formatted, a prudent user keeps the image unless a tool is torn.
MayRestart == user.discipline = "prudent" => Mkfs \notin done \/ torn # NoCall

Begin(c, first) ==
    /\ pc = "idle" /\ Allowed(c)
    /\ pc' = first /\ call' = c /\ i' = 0
    /\ sector0' = [a \in Block(0) |-> disk[a]]

\* The tool prints its last line and returns 0.
Return ==
    /\ pc' = "idle"
    /\ done' = done \cup {call}
    /\ torn' = NoCall

-----------------------------------------------------------------------------
(* dd writes boot.bin over sector 0, and leaves the rest as it was.        *)

Stamp ==
    /\ pc = "idle" /\ MayRestart
    /\ Write(Block(0), BootSector)
    /\ inode_count' = 2
    /\ done' = {} /\ torn' = NoCall
    /\ UNCHANGED <<inodes, pc, tool, i, interrupts>>

-----------------------------------------------------------------------------
(* mkfs.labfs.                                                             *)

mkfs ==
    /\ MayRestart
    /\ Begin(Mkfs, "format")
    /\ cur' = NONE /\ next_block' = 0
    /\ done' = {}
    /\ UNCHANGED <<image, torn, interrupts>>

FormatSuper ==
    /\ pc = "format" /\ pc' = "format_inodes"
    /\ inode_count' = 1
    /\ Write(Block(0), sector0)
    /\ UNCHANGED <<inodes, tool, i, past>>

FormatInodes ==
    /\ pc = "format_inodes" /\ pc' = "format_root"
    /\ inodes' = [n \in 0 .. MaxFiles - 1 |-> IF n = 0 THEN RootInode ELSE NoInode]
    /\ UNCHANGED <<disk, inode_count, tool, i, past>>

\* Leaves the directory as it was.
FormatRoot_forgotten ==
    /\ pc = "format_root"
    /\ Return
    /\ UNCHANGED <<image, tool, i, interrupts>>

FormatRoot ==
    /\ pc = "format_root"
    /\ Write(Block(DATA_START), <<>>)
    /\ Return
    /\ UNCHANGED <<inode_count, inodes, tool, i, interrupts>>

-----------------------------------------------------------------------------
(* mdir.labfs and mcopy.labfs.  What stops a tool before its first write   *)
(* changes nothing and is left out: no such directory, inode table full.   *)

TableFull == inode_count >= MaxFiles

\* Does not respect directories.
Ends_files(c) ==
    {DATA_START + 1} \cup {inodes[n].start + inodes[n].count :
                             n \in {n \in 0 .. inode_count - 1 : inodes[n].type = "file"}}

\* Where what is there ends, as far as each tool looks.
Ends(c) ==
    LET looked == {n \in 0 .. inode_count - 1 : c.tool = "mdir" \/ inodes[n].count # 0}
    IN  {IF c.tool = "mdir" THEN DATA_START + 1 ELSE DATA_START}
        \cup {inodes[n].start + inodes[n].count : n \in looked}

\* The first block behind all files and directories.
NextBlock(c) == next_block' \in Ends(c) /\ \A e \in Ends(c) : e <= next_block'

mcopy(c) ==
    /\ c.tool = "mcopy"
    /\ ~ TableFull
    /\ cur' = Lookup(Parent(c.path)) /\ cur' \in 0 .. MaxFiles - 1
    /\ NextBlock(c)
    /\ Begin(c, IF Length[c.src] = 0 THEN "dir" ELSE "data")
    /\ UNCHANGED <<image, past>>

mdir(c) ==
    /\ c.tool = "mdir"
    /\ ~ TableFull
    /\ cur' = Lookup(Parent(c.path)) /\ cur' \in 0 .. MaxFiles - 1
    /\ find_in_dir(cur', Last(c.path)) < 0
    /\ NextBlock(c)
    /\ Begin(c, "data")
    /\ UNCHANGED <<image, past>>

\* "directory already exists" is a success.
mdir_exists(c) ==
    /\ pc = "idle" /\ Allowed(c)
    /\ c.tool = "mdir"
    /\ LET d == Lookup(Parent(c.path))
       IN  d \in 0 .. MaxFiles - 1 /\ find_in_dir(d, Last(c.path)) >= 0
    /\ done' = done \cup {c}
    /\ UNCHANGED <<image, pc, tool, i, torn, interrupts>>

Blocks(size) == (size + BlockCells - 1) \div BlockCells

NewInode ==
    IF call.tool = "mdir"
    THEN [type |-> "dir", size |-> BlockCells, start |-> next_block, count |-> 1]
    ELSE [type |-> "file", size |-> Length[call.src], start |-> next_block,
          count |-> Blocks(Length[call.src])]

\* The tool's copy of the table, when the new inode has been filled in.
NewInodes == [inodes EXCEPT ![inode_count] = NewInode]

\* An empty directory is written as LABFS_MAX_FILES entries.
WriteEmpty ==
    /\ pc = "data" /\ call.tool = "mdir" /\ pc' = "dir"
    /\ LET from == next_block * BlockCells
       IN  Write(from .. from + MaxFiles * EntryCells - 1, <<>>)
    /\ UNCHANGED <<inode_count, inodes, tool, i, past>>

\* The last block is filled up with zeros.
WriteData ==
    /\ pc = "data" /\ call.tool = "mcopy"
    /\ LET from == (next_block + i) * BlockCells
           rest == Length[call.src] - i * BlockCells
           n    == IF rest < BlockCells THEN rest ELSE BlockCells
       IN  /\ Write(Block(next_block + i),
                    [a \in from .. from + n - 1 |-> Data(call.src, i * BlockCells + a - from)])
           /\ IF n = rest THEN pc' = "dir" /\ i' = 0
                          ELSE pc' = pc /\ i' = i + 1
    /\ UNCHANGED <<inode_count, inodes, tool, past>>

Unused(d, e)      == NameAt(d, e) = ZERO
FirstUnused(d, e) == Unused(d, e) /\ \A f \in 0 .. e - 1 : ~ Unused(d, f)

\* Counts the inode in before it is in the table.
WriteDir_counted ==
    /\ pc = "dir"
    /\ LET d == NewInodes[cur]
       IN  \E e \in Entries :
              /\ FirstUnused(d, e)
              /\ LET from == EntryAt(d, e)
                     to   == from + EntryCells - 1
                 IN  Write(from .. to, [a \in {from, to} |->
                         IF a = from THEN Name(Last(call.path)) ELSE Index(inode_count)])
    /\ inode_count' = inode_count + 1
    /\ Return
    /\ UNCHANGED <<inodes, tool, i, interrupts>>

\* add_to_dir, on the directory as it is in that copy.
WriteDir ==
    /\ pc = "dir" /\ pc' = "inodes"
    /\ LET d == NewInodes[cur]
       IN  /\ call.tool = "mcopy" => d.count # 0
           /\ \E e \in Entries :
                 /\ FirstUnused(d, e)
                 /\ LET from == EntryAt(d, e)
                        to   == from + EntryCells - 1
                    IN  Write(from .. to, [a \in {from, to} |->
                            IF a = from THEN Name(Last(call.path)) ELSE Index(inode_count)])
    /\ UNCHANGED <<inode_count, inodes, tool, i, past>>

\* "directory full": the data stays where it is, in blocks nobody owns.
DirectoryFull ==
    /\ pc = "dir" /\ pc' = "idle"
    /\ LET d == NewInodes[cur]
       IN  (\A e \in Entries : ~ Unused(d, e)) \/ (call.tool = "mcopy" /\ d.count = 0)
    /\ UNCHANGED <<image, tool, i, past>>

WriteInodes ==
    /\ pc = "inodes" /\ pc' = "super"
    /\ inodes' = NewInodes
    /\ UNCHANGED <<disk, inode_count, tool, i, past>>

WriteSuper ==
    /\ pc = "super"
    /\ inode_count' = inode_count + 1
    /\ Write(Block(0), sector0)
    /\ Return
    /\ UNCHANGED <<inodes, tool, i, interrupts>>

\* The tool is killed between two writes.
Interrupt ==
    /\ pc # "idle" /\ pc' = "idle"
    /\ interrupts < user.interrupts
    /\ interrupts' = interrupts + 1
    /\ torn' = call
    /\ UNCHANGED <<image, tool, i, done>>

-----------------------------------------------------------------------------

\* The build directory has an image of boot.bin alone, or none.
Init ==
    /\ disk = [a \in Addresses |-> IF a < BootCells THEN BootSector[a] ELSE ZERO]
    /\ inode_count = 2
    /\ inodes = [n \in 0 .. MaxFiles - 1 |-> NoInode]
    /\ pc = "idle" /\ call = NoCall /\ sector0 = <<>>
    /\ cur = NONE /\ next_block = 0 /\ i = 0
    /\ done = {} /\ torn = NoCall /\ interrupts = 0
    /\ user \in Users

Next ==
    /\ \/ Stamp
       \/ mkfs \/ FormatSuper \/ FormatInodes \/ FormatRoot
       \/ \E c \in user.calls : mcopy(c) \/ mdir(c) \/ mdir_exists(c)
       \/ WriteEmpty \/ WriteData \/ WriteDir \/ DirectoryFull \/ WriteInodes \/ WriteSuper
       \/ Interrupt
    /\ UNCHANGED user

Spec == Init /\ [][Next]_vars

-----------------------------------------------------------------------------
(* Properties.                                                             *)

Inode == [type : {"none", "file", "dir"}, size : Nat, start : Nat, count : Nat]

\* Every variable keeps its type (LabFS-Lite.h).
TypeOK ==
    /\ DOMAIN disk = Addresses
    /\ inode_count \in 1 .. MaxFiles
    /\ inodes \in [0 .. MaxFiles - 1 -> Inode]
    /\ pc \in {"idle", "format", "format_inodes", "format_root",
               "data", "dir", "inodes", "super"}
    /\ call \in Calls \cup {NoCall}
    /\ DOMAIN sector0 \subseteq Nat
    /\ cur \in -1 .. MaxFiles - 1
    /\ next_block \in Nat /\ i \in Nat
    /\ done \subseteq Calls /\ torn \in Calls \cup {NoCall} /\ interrupts \in Nat
    /\ user \in Users

IsDir(n) == n \in 0 .. MaxFiles - 1 /\ inodes[n].type = "dir"

\* Inode n is a file that holds host file f, all of it and nothing else.
Holds(n, f) ==
    /\ n \in 0 .. MaxFiles - 1 /\ inodes[n].type = "file"
    /\ inodes[n].size = Length[f]
    /\ \A k \in 0 .. Length[f] - 1 : disk[inodes[n].start * BlockCells + k] = Data(f, k)

\* What mcopy has reported to a prudent user as done stays readable under its
\* path, whole, whatever is copied, interrupted and repeated after it
\* (mcopy.labfs.c:211).
FilesKept ==
    user.discipline = "prudent" =>
        \A c \in done : c.tool = "mcopy" => Holds(Lookup(c.path), c.src)

\* What mdir has reported as created, or as existing, is and stays a directory
\* (mdir.labfs.c:135, 185), unless an interrupted mdir was repeated.
DirsKept ==
    user.discipline # "any" => \A c \in done : c.tool = "mdir" => IsDir(Lookup(c.path))

\* No block belongs to two inodes in use (mcopy.labfs.c:149), however tools were
\* interrupted.  Inode 1 counts as used too, since a stamp makes it so.
Used == 0 .. inode_count - 1 \cup {1}
Extent(n) == inodes[n].start .. inodes[n].start + inodes[n].count - 1
ExtentsApart == \A m, n \in Used : m # n => Extent(m) \cap Extent(n) = {}

-----------------------------------------------------------------------------
(* What a reader of a formatted image sees: inodes below inode_count.  It  *)
(* is looked at only where the tools are not called in any order.          *)

Paths   == {c.path : c \in Calls \ {Mkfs}}
Visible ==
    {p \in Paths : /\ Mkfs \in done /\ user.discipline # "any"
                   /\ Lookup(p) \in 0 .. inode_count - 1}

Found(n) ==
    IF IsDir(n) THEN "directory"
    ELSE IF \E f \in DOMAIN Length : Holds(n, f)
    THEN CHOOSE f \in DOMAIN Length : Holds(n, f) ELSE "spoilt"

Store == INSTANCE FileStore WITH
    Contents <- DOMAIN Length, Directory <- "directory",
    tree <- [p \in Visible |-> Found(Lookup(p))]

FileStoreSpec == Store!Spec

=============================================================================

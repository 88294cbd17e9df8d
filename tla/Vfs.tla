--------------------------------- MODULE Vfs ---------------------------------
(***************************************************************************)
(* The virtual file system (vfs.c) and its one back end (ext2_vfs.c).      *)
(* vfs_open goes from node to node along a path, vfs_read reads a whole    *)
(* file into a buffer and hands out a part of it.                          *)
(*                                                                         *)
(* There are two nodes, both static: the root's and one for whatever was   *)
(* looked up last, so that what vfs_open returns is one of two pointers    *)
(* or NULL.  One flow of control calls; it reads through the pointer that  *)
(* vfs_open returned last, without looking whether it is NULL, as          *)
(* kernel_main does.  A path is the sequence of its names, each of at most *)
(* 63 characters, after "/" if it is absolute.                             *)
(***************************************************************************)
EXTENDS Ext2

CONSTANTS
    Paths,          \* what vfs_open is asked for
    Offsets,        \* what vfs_read is asked for
    Counts

ASSUME PathsAssumption == \A p \in Paths : p \in Seq(STRING)
ASSUME ReadsAssumption == Offsets \subseteq Nat /\ Counts \subseteq Nat

VARIABLES
    pc,
    child,          \* ext2_vfs_finddir's static node
    node,           \* vfs_open's node: "root", "child" or "NULL"
    path,           \* what vfs_open was called with
    done,           \* how many of its names it has looked up
    offset,         \* vfs_read's arguments
    count,
    buffer,         \* what it has returned
    result

calls == <<pc, child, node, path, done, offset, count, buffer, result>>
vars  == <<mount, reader, calls>>

RootNode == [inode |-> ROOT, size |-> 0, flags |-> "dir"]
Nodes    == [inode : Nat, size : Nat, flags : {"none", "dir", "file"}]

Init ==
    /\ Ext2Init
    /\ pc = "boot"
    /\ child = [inode |-> 0, size |-> 0, flags |-> "none"]
    /\ node = "NULL" /\ path = <<>> /\ done = 0
    /\ offset = 0 /\ count = 0 /\ buffer = <<>> /\ result = 0

Node == IF node = "root" THEN RootNode ELSE child

\* ext2_init and ext2_mount_root.
Mount ==
    /\ pc = "boot" /\ pc' = "idle"
    /\ ext2_init
    /\ UNCHANGED <<child, node, path, done, offset, count, buffer, result>>

-----------------------------------------------------------------------------
(* vfs_open.                                                               *)

\* Nothing but an absolute path is looked for.
vfs_open(p) ==
    /\ pc = "idle"
    /\ path' = p /\ done' = 1
    /\ \/ p # <<>> /\ p[1] = "/" /\ pc' = "open" /\ node' = "root"
       \/ ~ (p # <<>> /\ p[1] = "/") /\ pc' = pc /\ node' = "NULL"
    /\ UNCHANGED <<mount, reader, child, offset, count, buffer, result>>

\* The division by the inode size faults on a disk of zeros: panic.
DivideError ==
    /\ pc = "open" /\ done < Len(path)
    /\ sb.inodes_per_block = 0
    /\ pc' = "panic"
    /\ UNCHANGED <<mount, reader, child, node, path, done, offset, count, buffer, result>>

\* Keeps the size of the node it had before.
ext2_vfs_finddir_size(name) ==
    LET n == ext2_find_entry(Node.inode, name)
    IN  IF n = 0
        THEN node' = "NULL" /\ pc' = "idle" /\ UNCHANGED child
        ELSE /\ node' = "child" /\ pc' = pc
             /\ child' = [inode |-> n, size |-> child.size, flags |-> read_inode(n).mode]

ext2_vfs_finddir(name) ==
    LET n == ext2_find_entry(Node.inode, name)
    IN  IF n = 0
        THEN node' = "NULL" /\ pc' = "idle" /\ UNCHANGED child
        ELSE /\ node' = "child" /\ pc' = pc
             /\ child' = [inode |-> n, size |-> read_inode(n).size, flags |-> read_inode(n).mode]

\* A file has no finddir: there is nothing below it.
LookUp ==
    /\ pc = "open" /\ done < Len(path)
    /\ sb.inodes_per_block # 0
    /\ done' = done + 1
    /\ \/ Node.flags = "dir" /\ ext2_vfs_finddir(path[done + 1])
       \/ Node.flags # "dir" /\ node' = "NULL" /\ pc' = "idle" /\ UNCHANGED child
    /\ UNCHANGED <<mount, reader, path, offset, count, buffer, result>>

Opened ==
    /\ pc = "open" /\ done = Len(path)
    /\ pc' = "idle"
    /\ UNCHANGED <<mount, reader, child, node, path, done, offset, count, buffer, result>>

-----------------------------------------------------------------------------
(* vfs_read.                                                               *)

\* Nothing is read through NULL or from a directory, which has no read().
vfs_read_nothing ==
    /\ pc = "idle"
    /\ node = "NULL" \/ Node.flags # "file"
    /\ result' = 0 /\ buffer' = <<>>
    /\ UNCHANGED <<mount, reader, pc, child, node, path, done, offset, count>>

vfs_read(o, n) ==
    /\ pc = "idle" /\ pc' = "read"
    /\ node # "NULL" /\ Node.flags = "file"
    /\ StartReading(Node.inode)
    /\ offset' = o /\ count' = n
    /\ UNCHANGED <<mount, child, node, path, done, buffer, result>>

ReadFile ==
    /\ pc = "read"
    /\ ext2_read_file
    /\ UNCHANGED calls

\* Forgets what lies before the offset.
Amount_whole == IF Node.size > count THEN count ELSE Node.size

\* What is left of the file behind the offset, if it is not more than asked.
Amount ==
    IF offset >= Node.size THEN 0
    ELSE IF Node.size - offset > count THEN count ELSE Node.size - offset

ReadDone ==
    /\ pc = "read" /\ level = "done"
    /\ pc' = "idle"
    /\ result' = Amount
    /\ buffer' = [k \in 0 .. Amount - 1 |-> tmp[offset + k]]
    /\ level' = "none"
    /\ UNCHANGED <<mount, inode, bytes_left, ptr, i, j, tmp,
                   child, node, path, done, offset, count>>

-----------------------------------------------------------------------------

Next ==
    \/ Mount
    \/ \E p \in Paths : vfs_open(p)
    \/ DivideError \/ LookUp \/ Opened
    \/ vfs_read_nothing
    \/ \E o \in Offsets, n \in Counts : vfs_read(o, n)
    \/ ReadFile \/ ReadDone

Spec == Init /\ [][Next]_vars

\* A call that was made goes on.
FairSpec == Spec /\ WF_vars(DivideError \/ LookUp \/ Opened \/ ReadFile \/ ReadDone)

-----------------------------------------------------------------------------
(* Properties.                                                             *)

TypeOK ==
    /\ disk \in Disks
    /\ sb \in {[magic |-> FALSE, inodes_per_block |-> 0, inodes_per_group |-> 0], disk[SUPERBLOCK]}
    /\ bgd \in {[inode_table |-> 0], disk[DESCRIPTORS].groups[0]}
    /\ block_size \in {0, Cells}
    /\ block_size # 0 => sb = disk[SUPERBLOCK] /\ sb.magic /\ bgd = disk[DESCRIPTORS].groups[0]
    /\ inode \in Inode /\ inode.size < Room
    /\ bytes_left \in Nat /\ ptr \in Nat /\ i \in Nat /\ j \in Nat
    /\ level \in {"none", "direct", "single", "double", "done"}
    /\ DOMAIN tmp = 0 .. Room - 1
    /\ pc \in {"boot", "idle", "open", "read", "panic"}
    /\ child \in Nodes
    /\ node \in {"root", "child", "NULL"}
    /\ path \in Paths \cup {<<>>} /\ done \in Nat
    /\ offset \in Nat /\ count \in Nat /\ result \in Nat

\* The static node describes an inode that a directory names, and what is
\* read is the file behind the node.
NodeOK ==
    /\ child.flags # "none" \/ node = "child" =>
          /\ block_size # 0
          /\ child.inode \in Named(disk) \ {0}
          /\ child.size = read_inode(child.inode).size
          /\ child.flags = read_inode(child.inode).mode
    /\ pc = "boot" => block_size = 0 /\ node # "child" /\ child.flags = "none"
    /\ pc = "open" => node # "NULL"
    /\ pc = "read" => node = "child" /\ inode = read_inode(child.inode)

\* The file's block that comes next.
NextBlock ==
    CASE level = "direct" -> i
      [] level = "single" -> Direct + i
      [] OTHER            -> Direct + Pointers + i * Pointers + j

\* What ext2_read_file has copied is the beginning of the file; while there is
\* more, it ends with a whole block, if no hole has cut the loops short.
LoopOK ==
    pc = "read" =>
        /\ level # "none"
        /\ ptr + bytes_left = inode.size
        /\ level = "direct" => i <= Direct /\ j = 0
        /\ level = "single" => j = 0
        /\ level \in {"single", "double"} => i <= Pointers
        /\ level = "double" => j <= Pointers
        /\ level = "double" /\ j > 0 =>
              /\ inode.block[Direct + 1] # 0
              /\ i < Pointers /\ Pointer(inode.block[Direct + 1], i) # 0
        /\ Dense(inode) =>
              /\ \A a \in 0 .. ptr - 1 : tmp[a] = CellOf(inode, a)
              /\ bytes_left > 0 => level # "done" /\ ptr = NextBlock * Cells

\* The inodes along path p when directories are read whole: the one that its
\* first k names lead to, 0 if none.
Along(p) ==
    LET at[k \in 1 .. Len(p)] ==
            IF k = 1 THEN ROOT
            ELSE IF at[k - 1] = 0 THEN 0
            ELSE IF ~ IsDir(at[k - 1]) THEN 0
            ELSE Child(at[k - 1], p[k])
    IN  at

\* The inode that path p leads to, 0 if none.
Target(p) ==
    IF p = <<>> THEN 0 ELSE IF p[1] # "/" THEN 0 ELSE Along(p)[Len(p)]

OneBlock == \A n \in Named(disk) \ {0} : IsDir(n) => InodeOf(disk, n).size <= Cells

\* No inode along path p is in a later block group, where read_inode does not
\* look for it.
OneGroup(p) == p # <<>> /\ p[1] = "/" => \A k \in 1 .. Len(p) : InFirstGroup(Along(p)[k])

\* vfs_open has come as far along the path as it has looked up names, and as
\* it stopped, so the path ends.
PathOK ==
    /\ pc = "boot" => path = <<>>
    /\ pc = "open" => path # <<>> /\ path[1] = "/" /\ done \in 1 .. Len(path)
    /\ pc = "open" /\ block_size # 0 /\ OneGroup(path) => Node.inode = Along(path)[done]
    /\ pc \in {"idle", "read"} /\ block_size # 0 /\ path # <<>> /\ OneGroup(path) =>
          /\ node # "NULL" => Node.inode = Target(path)
          /\ node = "NULL" /\ OneBlock => Target(path) = 0

Inv == TypeOK /\ NodeOK /\ LoopOK /\ PathOK

\* Until the next vfs_open, the node that vfs_open returned is that of the
\* inode its path leads to, with that inode's size and kind, although every
\* lookup on the way uses the same static node.  NULL means that the path
\* leads nowhere, if no directory has a second block: that is not read.  Paths
\* through later block groups are left out: their inodes are misread.
OpenFinds ==
    pc \in {"idle", "read"} /\ block_size # 0 /\ path # <<>> /\ OneGroup(path) =>
        /\ node # "NULL" => Node.inode = Target(path)
        /\ node = "child" => /\ child.size = InodeOf(disk, child.inode).size
                             /\ child.flags = InodeOf(disk, child.inode).mode
        /\ node = "NULL" /\ OneBlock => Target(path) = 0

\* vfs_read returns what the file holds from the offset on, as much as was
\* asked for or as there is, whichever of direct, singly and doubly indirect
\* blocks it is in.  For files with a hole behind the direct blocks it does
\* not: the loop ends there.  Nor does it for files of a later block group.
ReadReturns ==
    [][LET file == InodeOf(disk, child.inode)
       IN  ReadDone /\ InFirstGroup(child.inode) /\ Dense(file) =>
              /\ result' = IF file.size <= offset THEN 0
                           ELSE IF file.size <= offset + count THEN file.size - offset ELSE count
              /\ buffer' = [k \in 0 .. result' - 1 |-> CellOf(file, offset + k)]]_vars

\* ext2_read_file is not told how large the buffer is: of the memory from tmp
\* on it changes the cells of the file and one more, whatever the file's
\* blocks hold behind its end.
StaysInFile ==
    [][\A a \in DOMAIN tmp : tmp'[a] # tmp[a] => a <= inode.size]_vars

\* vfs_open and vfs_read return, or the kernel has stopped in a panic; no
\* arrangement of zero pointers keeps the loops of ext2_read_file going.
CallsReturn == pc \in {"open", "read"} ~> pc \in {"idle", "panic"}

=============================================================================

-------------------------------- MODULE MCVfs --------------------------------
(***************************************************************************)
(* Small disks for Vfs: files of every size over direct, singly and doubly *)
(* indirect blocks, holes in each, a deleted entry before one of the same  *)
(* name, a directory of two blocks, a file in the second of two block      *)
(* groups, a blank disk and a foreign one.                                 *)
(***************************************************************************)
EXTENDS Vfs, TLC

Dir(s, b0, b1)     == [mode |-> "dir",  size |-> s, block |-> (0 :> b0 @@ 1 :> b1 @@ 2 :> 0 @@ 3 :> 0 @@ 4 :> 0)]
File(s, b0, b1, s1, d1) == [mode |-> "file", size |-> s, block |-> (0 :> b0 @@ 1 :> b1 @@ 2 :> s1 @@ 3 :> d1 @@ 4 :> 0)]
E(n, name) == [inode |-> n, name |-> name]

\* The directory /usr has usrsize cells; /file is the inode f.
Image(usrsize, f, p1, p3, pb) ==
    (0 :> [boot |-> TRUE]) @@
    (1 :> [magic |-> TRUE, inodes_per_block |-> 2, inodes_per_group |-> 6]) @@
    (2 :> [groups |-> (0 :> [inode_table |-> 3] @@ 1 :> [inode_table |-> 7])]) @@
    (3 :> [inodes |-> (0 :> File(0, 0, 0, 0, 0) @@ 1 :> Dir(2, 10, 0))]) @@
    (4 :> [inodes |-> (0 :> Dir(usrsize, 11, 12) @@ 1 :> f)]) @@
    (5 :> [inodes |-> (0 :> File(3, 13, 14, 0, 0) @@ 1 :> File(1, 15, 0, 0, 0))]) @@
    (10 :> [entries |-> <<E(2, "."), E(0, "file"), E(3, "usr"), E(4, "file")>>]) @@
    (11 :> [entries |-> <<E(3, "."), E(2, ".."), E(5, "sh")>>]) @@
    (12 :> [entries |-> <<E(6, "late")>>]) @@
    (22 :> [pointers |-> (0 :> 23 @@ 1 :> p1)]) @@
    (25 :> [pointers |-> (0 :> 26 @@ 1 :> 27)]) @@
    (26 :> [pointers |-> (0 :> 28 @@ 1 :> p3)]) @@
    (27 :> [pointers |-> (0 :> 30 @@ 1 :> pb)])

\* Inode 7 is the first of the second group; the code looks for it in block 6.
Far ==
    10 :> [entries |-> <<E(2, "."), E(0, "file"), E(3, "usr"), E(4, "file"), E(7, "far")>>] @@
    6 :> [inodes |-> (0 :> File(5, 14, 13, 22, 0) @@ 1 :> File(0, 0, 0, 0, 0))] @@
    7 :> [inodes |-> (0 :> File(3, 20, 21, 0, 0) @@ 1 :> File(0, 0, 0, 0, 0))] @@
    Image(2, File(1, 15, 0, 0, 0), 24, 29, 31)

NotExt2(per) ==
    (0 :> [boot |-> TRUE]) @@ (2 :> [groups |-> (0 :> [inode_table |-> 0])]) @@
    (1 :> [magic |-> FALSE, inodes_per_block |-> per, inodes_per_group |-> 3 * per])
Blank   == NotExt2(0)
Foreign == NotExt2(2)

MCDisks ==
    {Image(2, File(s, 20, 21, 22, 25), 24, 29, 31) : s \in 0 .. 16}
    \cup {Image(2, File(s, 0, 21, 22, 25), 24, 29, 31) : s \in {3, 13}}
    \cup {Image(2, File(s, 20, 21, 22, 25), 0, 29, 31) : s \in {6, 7, 16}}
    \cup {Image(2, File(s, 20, 21, 22, 25), 24, 0, 31) : s \in {11, 15}}
    \cup {Image(2, File(s, 20, 21, 0, 25), 24, 29, 31) : s \in {5, 16}}
    \cup {26 :> [pointers |-> (0 :> 0 @@ 1 :> 29)] @@ Image(2, File(16, 20, 21, 22, 25), 24, 29, 31)}
    \cup {Image(4, File(5, 20, 21, 22, 0), 24, 29, 31), Far, Blank, Foreign}

MCPaths ==
    {<<"/", "usr", "sh">>, <<"/", "file">>, <<"/", "usr", "late">>, <<"/", "far">>,
     <<"/", "file", "sh">>, <<"/">>, <<"usr">>}
=============================================================================

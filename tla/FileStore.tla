------------------------------ MODULE FileStore ------------------------------
(***************************************************************************)
(* What the LabFS-Lite image tools promise to whoever reads the image: a   *)
(* tree that a finished mdir or mcopy adds one entry to, and that shows    *)
(* nothing of a tool that has not finished.  Nothing is ever replaced or   *)
(* removed, but by starting again from an empty tree.  It is the           *)
(* specification that LabFS implements.                                    *)
(***************************************************************************)
EXTENDS Integers, Sequences

CONSTANTS
    Paths,      \* sequences of names
    Contents,   \* what a file may hold
    Directory   \* what a path holds that leads to a directory

VARIABLE tree   \* what each path that leads somewhere holds

Init == tree = <<>>

Parent(p) == SubSeq(p, 1, Len(p) - 1)

With(p, content) == [q \in DOMAIN tree \cup {p} |-> IF q = p THEN content ELSE tree[q]]

Add(p) ==
    /\ p \notin DOMAIN tree
    /\ Len(p) > 1 => Parent(p) \in DOMAIN tree /\ tree[Parent(p)] = Directory
    /\ tree' \in {With(p, content) : content \in Contents \cup {Directory}}

Format == tree' = <<>>

Next == Format \/ \E p \in Paths : Add(p)

Spec == Init /\ [][Next]_tree

=============================================================================

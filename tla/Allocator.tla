------------------------------ MODULE Allocator ------------------------------
(***************************************************************************)
(* What a heap promises to its callers, without headers, lists or a search *)
(* order: a request is given bytes of the arena that no other live request *)
(* has, and keeps them until it gives them back.  It is the specification  *)
(* that Heap implements.                                                   *)
(***************************************************************************)
EXTENDS Integers

CONSTANTS
    Arena,      \* the addresses that may be given out
    Requests    \* the sizes that may be asked for

VARIABLE live   \* the size of every live request, by its address

Init == live = <<>>

\* The bytes from p to p + n are all of the arena and of no live request.
Fresh(p, n) ==
    /\ p .. p + n - 1 \subseteq Arena
    /\ p \notin DOMAIN live
    /\ \A q \in DOMAIN live : p + n <= q \/ q + live[q] <= p

Allocate(p, n) ==
    /\ Fresh(p, n)
    /\ live' = [q \in DOMAIN live \cup {p} |-> IF q = p THEN n ELSE live[q]]

Release(p) ==
    /\ p \in DOMAIN live
    /\ live' = [q \in DOMAIN live \ {p} |-> live[q]]

Next ==
    \/ \E p \in Arena, n \in Requests : Allocate(p, n)
    \/ \E p \in Arena : Release(p)

Spec == Init /\ [][Next]_live

=============================================================================

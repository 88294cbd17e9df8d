-------------------------------- MODULE Heap --------------------------------
(***************************************************************************)
(* The kernel heap (memory.c): one list of blocks in address order, each   *)
(* block a header followed by its bytes; kmalloc takes the first block     *)
(* that fits and splits it, kfree marks a block free and joins free        *)
(* neighbours.  kmalloc and kfree walk the list one block per step.        *)
(*                                                                         *)
(* All calls come from one flow of control (kernel_main and                *)
(* process_create; no interrupt handler allocates), so that calls do not   *)
(* overlap.  Sizes are size_t, 32 bits wide: no sum here comes near 2^32,  *)
(* because kmalloc adds to a request only after it found it no larger than *)
(* a block.  The bytes of the blocks are left out.                         *)
(*                                                                         *)
(* The operators named after another one, like Fits_larger after Fits,     *)
(* are that one with a plausible programming mistake, for checking that a  *)
(* property notices it.                                                    *)
(***************************************************************************)
EXTENDS Integers

CONSTANTS
    Start,      \* heap_init's arguments, 0x200000 and 0x100000 in the code
    Size,
    Requests    \* the sizes asked of kmalloc

HEADER_SIZE == 12
SMALLEST    == 4    \* kmalloc splits a block if the rest holds this much
NULL        == 0

ASSUME StartAssumption    == Start \in Nat /\ Start > HEADER_SIZE
ASSUME SizeAssumption     == Size \in Nat
ASSUME RequestsAssumption == Requests \subseteq Nat

VARIABLES
    heap,   \* the headers, by address: size, free, next
    curr,   \* the block the walk is at
    op,     \* what is being done: "idle", "malloc" or "free"
    want,   \* kmalloc's argument
    live    \* what the callers hold: the size asked for, by address

vars == <<heap, curr, op, want, live>>

\* heap_init.  The first block's size is the whole region's, header included.
Init ==
    /\ heap = [b \in {Start} |-> [size |-> Size, free |-> TRUE, next |-> NULL]]
    /\ curr = NULL
    /\ op = "idle"
    /\ want = 0
    /\ live = <<>>

-----------------------------------------------------------------------------
(* kmalloc.                                                                *)

kmalloc(n) ==
    /\ op = "idle"
    /\ op' = "malloc" /\ want' = n /\ curr' = Start
    /\ UNCHANGED <<heap, live>>

\* Turns down a block of just the size wanted.
Fits_larger(b) == heap[b].free /\ heap[b].size > want

\* Does not look at the flag.
Fits_used(b) == heap[b].size >= want

Fits(b) == heap[b].free /\ heap[b].size >= want

\* Goes on only from blocks in use.
Skip_stuck ==
    /\ op = "malloc" /\ curr # NULL
    /\ ~ Fits(curr)
    /\ curr' = IF heap[curr].free THEN curr ELSE heap[curr].next
    /\ UNCHANGED <<heap, op, want, live>>

Skip ==
    /\ op = "malloc" /\ curr # NULL
    /\ ~ Fits(curr)
    /\ curr' = heap[curr].next
    /\ UNCHANGED <<heap, op, want, live>>

\* kmalloc's tail: the bytes after curr's header go to the caller.
Return ==
    /\ live' = [p \in DOMAIN live \cup {curr + HEADER_SIZE} |->
                  IF p = curr + HEADER_SIZE THEN want ELSE live[p]]
    /\ op' = "idle" /\ curr' = NULL /\ want' = 0

Roomy(b) == heap[b].size >= want + HEADER_SIZE + SMALLEST

\* Places the new block without leaving room for curr's header.
Split_misplaced ==
    /\ op = "malloc" /\ curr # NULL
    /\ Fits(curr) /\ Roomy(curr)
    /\ LET new == curr + want
       IN  heap' = [b \in DOMAIN heap \cup {new} |->
                      CASE b = new  -> [size |-> heap[curr].size - want - HEADER_SIZE,
                                        free |-> TRUE, next |-> heap[curr].next]
                        [] b = curr -> [size |-> want, free |-> FALSE, next |-> new]
                        [] OTHER    -> heap[b]]
    /\ Return

\* Reads curr->next after it has been set to the new block.
Split_swapped ==
    /\ op = "malloc" /\ curr # NULL
    /\ Fits(curr) /\ Roomy(curr)
    /\ LET new == curr + HEADER_SIZE + want
       IN  heap' = [b \in DOMAIN heap \cup {new} |->
                      CASE b = new  -> [size |-> heap[curr].size - want - HEADER_SIZE,
                                        free |-> TRUE, next |-> new]
                        [] b = curr -> [size |-> want, free |-> FALSE, next |-> new]
                        [] OTHER    -> heap[b]]
    /\ Return

\* The rest of the block becomes a free block of its own.
Split ==
    /\ op = "malloc" /\ curr # NULL
    /\ Fits(curr) /\ Roomy(curr)
    /\ LET new == curr + HEADER_SIZE + want
       IN  heap' = [b \in DOMAIN heap \cup {new} |->
                      CASE b = new  -> [size |-> heap[curr].size - want - HEADER_SIZE,
                                        free |-> TRUE, next |-> heap[curr].next]
                        [] b = curr -> [size |-> want, free |-> FALSE, next |-> new]
                        [] OTHER    -> heap[b]]
    /\ Return

TakeWhole ==
    /\ op = "malloc" /\ curr # NULL
    /\ Fits(curr) /\ ~ Roomy(curr)
    /\ heap' = [heap EXCEPT ![curr].free = FALSE]
    /\ Return

OutOfHeap ==
    /\ op = "malloc" /\ curr = NULL
    /\ op' = "idle" /\ want' = 0
    /\ UNCHANGED <<heap, curr, live>>

-----------------------------------------------------------------------------
(* kfree, of a pointer kmalloc returned and that was not freed since.  It  *)
(* has no caller; kfree(NULL) would return at once and change nothing.     *)

kfree(p) ==
    /\ op = "idle"
    /\ p \in DOMAIN live
    /\ live' = [q \in DOMAIN live \ {p} |-> live[q]]
    /\ heap' = [heap EXCEPT ![p - HEADER_SIZE].free = TRUE]
    /\ op' = "free" /\ curr' = Start
    /\ UNCHANGED want

Coalescing == op = "free" /\ heap[curr].next # NULL
Joinable   == heap[curr].free /\ heap[heap[curr].next].free

\* Goes on to the block after the joined one.
Join_once ==
    /\ Coalescing /\ Joinable
    /\ LET gone == heap[curr].next
       IN  /\ heap' = [b \in DOMAIN heap \ {gone} |->
                          IF b = curr
                          THEN [size |-> heap[curr].size + HEADER_SIZE + heap[gone].size,
                                free |-> TRUE, next |-> heap[gone].next]
                          ELSE heap[b]]
           /\ curr' = IF heap[gone].next = NULL THEN curr ELSE heap[gone].next
    /\ UNCHANGED <<op, want, live>>

\* Loses the neighbour's header.
Join_lossy ==
    /\ Coalescing /\ Joinable
    /\ LET gone == heap[curr].next
       IN  heap' = [b \in DOMAIN heap \ {gone} |->
                      IF b = curr
                      THEN [size |-> heap[curr].size + heap[gone].size,
                            free |-> TRUE, next |-> heap[gone].next]
                      ELSE heap[b]]
    /\ UNCHANGED <<curr, op, want, live>>

\* curr takes its neighbour's header and bytes, and is looked at again.
Join ==
    /\ Coalescing /\ Joinable
    /\ LET gone == heap[curr].next
       IN  heap' = [b \in DOMAIN heap \ {gone} |->
                      IF b = curr
                      THEN [size |-> heap[curr].size + HEADER_SIZE + heap[gone].size,
                            free |-> TRUE, next |-> heap[gone].next]
                      ELSE heap[b]]
    /\ UNCHANGED <<curr, op, want, live>>

Pass ==
    /\ Coalescing /\ ~ Joinable
    /\ curr' = heap[curr].next
    /\ UNCHANGED <<heap, op, want, live>>

Freed ==
    /\ op = "free" /\ heap[curr].next = NULL
    /\ op' = "idle" /\ curr' = NULL
    /\ UNCHANGED <<heap, want, live>>

-----------------------------------------------------------------------------

Walk == Skip \/ Split \/ TakeWhole \/ OutOfHeap \/ Join \/ Pass \/ Freed

Next ==
    \/ \E n \in Requests : kmalloc(n)
    \/ Walk
    \/ \E p \in DOMAIN live : kfree(p)

Spec == Init /\ [][Next]_vars

\* A call runs to its end.
FairSpec == Spec /\ WF_vars(Walk)

-----------------------------------------------------------------------------
(* Properties.                                                             *)

Blocks == DOMAIN heap
End(b) == b + HEADER_SIZE + heap[b].size    \* where block b ends

\* Every variable keeps its type (block_header_t and the calls' locals).
TypeOK ==
    /\ heap \in [Blocks -> [size : Nat, free : BOOLEAN, next : Nat]]
    /\ Start \in Blocks /\ Blocks \subseteq Nat \ {NULL}
    /\ curr \in Blocks \cup {NULL}
    /\ op \in {"idle", "malloc", "free"}
    /\ want \in Nat
    /\ live \in [DOMAIN live -> Nat] /\ DOMAIN live \subseteq Nat

\* What callers hold never overlaps: not two of their regions, nor a region
\* and a header of the list, whatever was split and joined before
\* (memory.c:43-51, 70-74).
LiveDisjoint ==
    \A p \in DOMAIN live :
        /\ \A q \in DOMAIN live \ {p} : p + live[p] <= q \/ q + live[q] <= p
        /\ \A b \in Blocks : p + live[p] <= b \/ b + HEADER_SIZE <= p

\* Between calls no two free blocks touch (memory.c:66): kfree leaves nothing
\* to join, and splitting a block makes no free block next to another one.
Coalesced ==
    op = "idle" => \A b \in Blocks :
                       ~ (heap[b].free /\ heap[b].next # NULL /\ heap[heap[b].next].free)

\* kmalloc gives up ("out of heap", memory.c:57) only if no stretch of memory
\* without a live block's header or bytes could hold the request and a header.
FailsOnlyWhenFull ==
    op = "malloc" /\ curr = NULL =>
        \A a \in Start .. Start + Size - want :
            \E b \in Blocks : /\ ~ heap[b].free
                              /\ b < a + HEADER_SIZE + want
                              /\ a < End(b)

\* However it was used, a heap that holds nothing is as heap_init left it.
NothingLost ==
    op = "idle" /\ live = <<>> =>
        heap = [b \in {Start} |-> [size |-> Size, free |-> TRUE, next |-> NULL]]

\* The list has no cycle: every kmalloc and every kfree returns.
CallsReturn == op # "idle" ~> op = "idle"

\* "heap_init(0x200000, 0x100000)" is given the region that kernel.c:178 then
\* reserves: what kmalloc returns lies in it.
LiveInRegion == \A p \in DOMAIN live : Start <= p /\ p + live[p] <= Start + Size

-----------------------------------------------------------------------------
(* The inductive invariant.                                                *)

\* The blocks are in address order, without gaps and without overlap, from
\* Start to a header's length beyond the region.
Tiled ==
    /\ \A b \in Blocks : Start <= b /\ End(b) <= Start + HEADER_SIZE + Size
    /\ \A b \in Blocks :
          IF heap[b].next = NULL THEN End(b) = Start + HEADER_SIZE + Size
                                 ELSE heap[b].next = End(b) /\ heap[b].next \in Blocks
    /\ \A b, c \in Blocks : b < c => End(b) <= c

\* The callers hold exactly the blocks that are not free.
Held ==
    /\ \A p \in DOMAIN live :
          /\ p - HEADER_SIZE \in Blocks
          /\ ~ heap[p - HEADER_SIZE].free
          /\ live[p] <= heap[p - HEADER_SIZE].size
    /\ \A b \in Blocks : ~ heap[b].free => b + HEADER_SIZE \in DOMAIN live

Touching(b) == heap[b].free /\ heap[b].next # NULL /\ heap[heap[b].next].free

\* How far the walk has come: kmalloc has seen no block that fits, kfree has
\* left no two free blocks behind.
Walked ==
    /\ op = "idle" => curr = NULL
    /\ op = "malloc" => \A b \in Blocks : curr = NULL \/ b < curr => ~ Fits(b)
    /\ op = "free" => curr # NULL /\ \A b \in Blocks : b < curr => ~ Touching(b)
    /\ op # "free" => \A b \in Blocks : ~ Touching(b)

Inv == TypeOK /\ Tiled /\ Held /\ Walked

-----------------------------------------------------------------------------

Abstract == INSTANCE Allocator WITH Arena <- Start .. Start + HEADER_SIZE + Size

AllocatorSpec == Abstract!Spec

=============================================================================

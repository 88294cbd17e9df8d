------------------------------ MODULE HeapProofs ------------------------------
(***************************************************************************)
(* Theorems about Heap for a region of any size and any requests.          *)
(***************************************************************************)
EXTENDS Heap, LeastNumbers, TLAPS

\* What a block of the list is.
LEMMA BlockFacts ==
    ASSUME TypeOK, NEW b \in Blocks
    PROVE  /\ b \in Nat /\ b # NULL
           /\ heap[b].size \in Nat /\ heap[b].free \in BOOLEAN /\ heap[b].next \in Nat
           /\ End(b) \in Nat /\ b + HEADER_SIZE <= End(b)
<1>1. heap[b] \in [size : Nat, free : BOOLEAN, next : Nat] /\ b \in Nat \ {NULL}
  BY DEF TypeOK
<1>2. heap[b].size \in Nat /\ heap[b].free \in BOOLEAN /\ heap[b].next \in Nat
  BY <1>1
<1> QED BY <1>1, <1>2 DEF End, HEADER_SIZE

\* A block's successor is the block after it.
LEMMA NextFacts ==
    ASSUME TypeOK, Tiled, NEW b \in Blocks, heap[b].next # NULL
    PROVE  /\ heap[b].next \in Blocks /\ heap[b].next = End(b)
           /\ b < heap[b].next /\ heap[b].next # Start
           /\ \A c \in Blocks : c < heap[b].next => c <= b
<1>1. heap[b].next \in Blocks /\ heap[b].next = End(b)
  BY DEF Tiled
<1>2. b < heap[b].next /\ Start <= b /\ b \in Nat
  BY <1>1, BlockFacts DEF Tiled, HEADER_SIZE
<1>3. ASSUME NEW c \in Blocks, c < heap[b].next PROVE c <= b
  <2>1. c \in Nat /\ ~ (b < c)
    BY <1>1, <1>2, <1>3, BlockFacts DEF Tiled
  <2> QED BY <1>2, <2>1
<1> QED BY <1>1, <1>2, <1>3, StartAssumption

\* The block without a successor is the last one.
LEMMA LastBlock ==
    ASSUME TypeOK, Tiled, NEW b \in Blocks, heap[b].next = NULL, NEW c \in Blocks
    PROVE  c <= b
<1>1. b \in Nat /\ c \in Nat /\ c + HEADER_SIZE <= End(c) /\ End(c) \in Nat
  BY BlockFacts
<1>2. End(b) = Start + HEADER_SIZE + Size /\ End(c) <= Start + HEADER_SIZE + Size
  BY DEF Tiled
<1>3. b < c => End(b) <= c
  BY DEF Tiled
<1> QED BY <1>1, <1>2, <1>3, StartAssumption, SizeAssumption DEF HEADER_SIZE

LEMMA InvInit == Init => Inv
<1> SUFFICES ASSUME Init PROVE Inv
  OBVIOUS
<1> USE StartAssumption, SizeAssumption DEF HEADER_SIZE, NULL
<1>1. /\ Blocks = {Start} /\ DOMAIN live = {}
      /\ heap[Start].size = Size /\ heap[Start].free = TRUE /\ heap[Start].next = NULL
  BY DEF Init, Blocks
<1>2. TypeOK
  BY <1>1 DEF Init, TypeOK
<1>3. Tiled
  BY <1>1 DEF Tiled, End
<1>4. Held
  BY <1>1 DEF Held
<1>5. Walked
  BY <1>1 DEF Init, Walked, Touching
<1> QED BY <1>2, <1>3, <1>4, <1>5 DEF Inv

-----------------------------------------------------------------------------
(* The steps that leave the list alone.                                    *)

LEMMA InvWalk ==
    Inv /\ ((\E n \in Requests : kmalloc(n)) \/ Skip \/ OutOfHeap \/ Pass \/ Freed) => Inv'
<1> SUFFICES ASSUME Inv, (\E n \in Requests : kmalloc(n)) \/ Skip \/ OutOfHeap \/ Pass \/ Freed
             PROVE  Inv'
  OBVIOUS
<1> USE DEF Inv
<1>1. UNCHANGED <<heap, live>> /\ Blocks' = Blocks
  BY DEF kmalloc, Skip, OutOfHeap, Pass, Freed, Blocks
<1>2. Tiled' /\ Held'
  BY <1>1 DEF Tiled, Held, End
<1>3. \A b \in Blocks : Touching(b)' <=> Touching(b)
  BY <1>1 DEF Touching
<1>4. CASE \E n \in Requests : kmalloc(n)
  <2>1. /\ op = "idle" /\ op' = "malloc" /\ curr' = Start /\ want' \in Nat
        /\ Start \in Blocks /\ Start # NULL
    BY <1>4, RequestsAssumption, StartAssumption DEF kmalloc, TypeOK, NULL
  <2>2. TypeOK'
    BY <1>1, <2>1 DEF TypeOK
  <2>3. \A b \in Blocks : ~ (b < Start) /\ ~ Touching(b)
    BY <2>1, BlockFacts, StartAssumption DEF Tiled, Walked
  <2>4. Walked'
    BY <1>1, <1>3, <2>1, <2>3 DEF Walked
  <2> QED BY <1>2, <2>2, <2>4
<1>5. CASE Skip
  <2>1. /\ op = "malloc" /\ op' = op /\ want' = want /\ curr \in Blocks /\ ~ Fits(curr)
        /\ curr' = heap[curr].next
    BY <1>5 DEF Skip, TypeOK
  <2>2. curr' \in Blocks \cup {NULL}
    BY <2>1 DEF Tiled
  <2>3. TypeOK'
    BY <1>1, <2>1, <2>2 DEF TypeOK
  <2>4. \A b \in Blocks : curr' = NULL \/ b < curr' => ~ Fits(b)
    <3> SUFFICES ASSUME NEW b \in Blocks, curr' = NULL \/ b < curr', b # curr PROVE ~ Fits(b)
      BY <2>1
    <3>1. CASE curr' = NULL
      <4>1. b <= curr
        BY <2>1, <3>1, LastBlock
      <4>2. b < curr
        BY <2>1, <4>1, BlockFacts
      <4> QED BY <2>1, <4>2 DEF Walked
    <3>2. CASE curr' # NULL
      <4>1. b <= curr
        BY <2>1, <3>2, NextFacts
      <4>2. b < curr
        BY <2>1, <4>1, BlockFacts
      <4> QED BY <2>1, <4>2 DEF Walked
    <3> QED BY <3>1, <3>2
  <2>5. Walked'
    BY <1>1, <1>3, <2>1, <2>4 DEF Walked, Fits
  <2> QED BY <1>2, <2>3, <2>5
<1>6. CASE OutOfHeap
  <2>1. TypeOK'
    BY <1>1, <1>6 DEF OutOfHeap, TypeOK
  <2>2. Walked'
    BY <1>1, <1>3, <1>6 DEF OutOfHeap, Walked
  <2> QED BY <1>2, <2>1, <2>2
<1>7. CASE Pass
  <2>1. /\ op = "free" /\ op' = op /\ want' = want /\ curr # NULL /\ curr \in Blocks
        /\ heap[curr].next # NULL /\ curr' = heap[curr].next /\ ~ Touching(curr)
    BY <1>7 DEF Pass, Coalescing, Joinable, Touching, TypeOK, Walked
  <2>2. curr' \in Blocks /\ \A b \in Blocks : b < curr' => b < curr \/ b = curr
    BY <2>1, NextFacts, BlockFacts
  <2>3. TypeOK'
    BY <1>1, <2>1, <2>2 DEF TypeOK
  <2>4. Walked'
    BY <1>1, <1>3, <2>1, <2>2 DEF Walked
  <2> QED BY <1>2, <2>3, <2>4
<1>8. CASE Freed
  <2>1. op = "free" /\ curr \in Blocks /\ heap[curr].next = NULL /\ op' = "idle" /\ curr' = NULL
        /\ want' = want
    BY <1>8 DEF Freed, Walked, TypeOK
  <2>2. TypeOK'
    BY <1>1, <2>1 DEF TypeOK
  <2>3. ASSUME NEW b \in Blocks PROVE ~ Touching(b)
    <3>1. CASE b = curr
      BY <2>1, <3>1 DEF Touching
    <3>2. CASE b # curr
      <4>1. b < curr
        BY <2>1, <3>2, LastBlock, BlockFacts
      <4> QED BY <2>1, <4>1 DEF Walked
    <3> QED BY <3>1, <3>2
  <2>4. Walked'
    BY <1>1, <1>3, <2>1, <2>3 DEF Walked
  <2> QED BY <1>2, <2>2, <2>4
<1> QED BY <1>4, <1>5, <1>6, <1>7, <1>8

-----------------------------------------------------------------------------
(* kmalloc finds a block.                                                  *)

\* What Return gives the caller.
LEMMA ReturnFacts ==
    ASSUME TypeOK, curr \in Blocks, Return
    PROVE  /\ op' = "idle" /\ curr' = NULL /\ want' = 0
           /\ DOMAIN live' = DOMAIN live \cup {curr + HEADER_SIZE}
           /\ live'[curr + HEADER_SIZE] = want
           /\ \A p \in DOMAIN live : p # curr + HEADER_SIZE => live'[p] = live[p]
           /\ live' \in [DOMAIN live' -> Nat] /\ DOMAIN live' \subseteq Nat
<1>1. curr + HEADER_SIZE \in Nat
  BY BlockFacts DEF HEADER_SIZE
<1> QED BY <1>1 DEF Return, TypeOK

LEMMA InvTakeWhole == Inv /\ TakeWhole => Inv'
<1> SUFFICES ASSUME Inv, TakeWhole PROVE Inv'
  OBVIOUS
<1> USE DEF Inv
<1>1. op = "malloc" /\ curr \in Blocks /\ heap[curr].free = TRUE /\ heap[curr].size >= want
  BY BlockFacts DEF TakeWhole, Fits, TypeOK
<1>2. /\ Blocks' = Blocks
      /\ \A b \in Blocks : heap'[b].size = heap[b].size /\ heap'[b].next = heap[b].next
      /\ \A b \in Blocks \ {curr} : heap'[b].free = heap[b].free
      /\ heap'[curr].free = FALSE
      /\ heap' \in [Blocks -> [size : Nat, free : BOOLEAN, next : Nat]]
  BY <1>1 DEF TakeWhole, TypeOK, Blocks
<1>3. Return
  BY DEF TakeWhole
<1>4. TypeOK'
  BY <1>1, <1>2, <1>3, ReturnFacts DEF TypeOK
<1>5. Tiled'
  BY <1>2 DEF Tiled, End
<1>6. Held'
  <2>1. ASSUME NEW p \in DOMAIN live'
        PROVE  /\ p - HEADER_SIZE \in Blocks
               /\ ~ heap'[p - HEADER_SIZE].free
               /\ live'[p] <= heap'[p - HEADER_SIZE].size
    <3>1. CASE p = curr + HEADER_SIZE
      <4>1. p - HEADER_SIZE = curr /\ live'[p] = want
        BY <1>1, <1>3, <3>1, ReturnFacts, BlockFacts DEF HEADER_SIZE
      <4> QED BY <1>1, <1>2, <4>1
    <3>2. CASE p # curr + HEADER_SIZE
      <4>1. p \in DOMAIN live /\ live'[p] = live[p]
        BY <1>1, <1>3, <2>1, <3>2, ReturnFacts
      <4>2. p - HEADER_SIZE \in Blocks /\ ~ heap[p - HEADER_SIZE].free
            /\ live[p] <= heap[p - HEADER_SIZE].size
        BY <4>1 DEF Held
      <4> QED BY <1>1, <1>2, <4>1, <4>2
    <3> QED BY <3>1, <3>2
  <2>2. ASSUME NEW b \in Blocks, ~ heap'[b].free PROVE b + HEADER_SIZE \in DOMAIN live'
    BY <1>1, <1>2, <1>3, <2>2, ReturnFacts DEF Held
  <2> QED BY <1>2, <2>1, <2>2 DEF Held
<1>7. Walked'
  <2>1. \A b \in Blocks : ~ Touching(b)
    BY <1>1 DEF Walked
  <2>2. ASSUME NEW b \in Blocks PROVE ~ Touching(b)'
    <3>1. heap[b].next # NULL => heap[b].next \in Blocks
      BY DEF Tiled
    <3> QED BY <1>1, <1>2, <2>1, <3>1 DEF Touching
  <2>3. op' = "idle" /\ curr' = NULL
    BY <1>1, <1>3, ReturnFacts
  <2> QED BY <1>2, <2>2, <2>3 DEF Walked
<1> QED BY <1>4, <1>5, <1>6, <1>7

LEMMA InvSplit == Inv /\ Split => Inv'
<1> SUFFICES ASSUME Inv, Split PROVE Inv'
  OBVIOUS
<1> USE DEF Inv
<1> DEFINE new == curr + HEADER_SIZE + want
<1>1. /\ op = "malloc" /\ curr \in Blocks /\ heap[curr].free = TRUE /\ want \in Nat
      /\ heap[curr].size >= want + HEADER_SIZE + SMALLEST
  BY BlockFacts DEF Split, Fits, Roomy, TypeOK
<1>2. /\ curr \in Nat /\ heap[curr].size \in Nat /\ heap[curr].next \in Nat
      /\ End(curr) = curr + HEADER_SIZE + heap[curr].size
  BY <1>1, BlockFacts DEF End
<1>3. /\ new \in Nat /\ curr < new /\ curr + HEADER_SIZE <= new /\ new + HEADER_SIZE < End(curr)
      /\ heap[curr].size - want - HEADER_SIZE \in Nat
  BY <1>1, <1>2 DEF HEADER_SIZE, SMALLEST
<1>4. new \notin Blocks
  <2> SUFFICES ASSUME new \in Blocks PROVE FALSE
    OBVIOUS
  <2>1. End(curr) <= new
    BY <1>1, <1>3 DEF Tiled
  <2> QED BY <1>2, <1>3, <2>1, BlockFacts DEF HEADER_SIZE
<1>5. /\ Blocks' = Blocks \cup {new}
      /\ \A b \in Blocks \ {curr} : heap'[b] = heap[b]
      /\ heap'[curr] = [size |-> want, free |-> FALSE, next |-> new]
      /\ heap'[new] = [size |-> heap[curr].size - want - HEADER_SIZE,
                       free |-> TRUE, next |-> heap[curr].next]
  BY <1>1, <1>4 DEF Split, Blocks
<1>6. /\ heap'[curr].size = want /\ heap'[curr].free = FALSE /\ heap'[curr].next = new
      /\ heap'[new].size = heap[curr].size - want - HEADER_SIZE
      /\ heap'[new].free = TRUE /\ heap'[new].next = heap[curr].next
  BY <1>5
<1>7. Return
  BY DEF Split
<1>8. TypeOK'
  <2>1. heap' \in [Blocks' -> [size : Nat, free : BOOLEAN, next : Nat]]
    <3>1. heap' = [b \in Blocks' |-> heap'[b]]
      BY DEF Split, Blocks
    <3>2. \A b \in Blocks' : heap'[b] \in [size : Nat, free : BOOLEAN, next : Nat]
      <4>1. \A b \in Blocks : heap[b] \in [size : Nat, free : BOOLEAN, next : Nat]
        BY DEF TypeOK
      <4>2. heap'[curr] \in [size : Nat, free : BOOLEAN, next : Nat]
        BY <1>1, <1>3, <1>5
      <4>3. heap'[new] \in [size : Nat, free : BOOLEAN, next : Nat]
        BY <1>2, <1>3, <1>5
      <4> QED BY <1>5, <4>1, <4>2, <4>3
    <3> QED BY <3>1, <3>2
  <2>2. Start \in Blocks' /\ Blocks' \subseteq Nat \ {NULL}
    BY <1>2, <1>3, <1>5 DEF TypeOK, NULL
  <2>3. op' = "idle" /\ curr' = NULL /\ want' = 0
        /\ live' \in [DOMAIN live' -> Nat] /\ DOMAIN live' \subseteq Nat
    BY <1>1, <1>7, ReturnFacts
  <2> QED BY <2>1, <2>2, <2>3 DEF TypeOK
<1>9. \A b \in Blocks' : End(b)' = IF b = curr THEN new
                                    ELSE IF b = new THEN End(curr) ELSE End(b)
  <2>1. /\ curr + HEADER_SIZE + heap'[curr].size = new
        /\ new + HEADER_SIZE + heap'[new].size = End(curr)
    BY <1>1, <1>2, <1>3, <1>6 DEF HEADER_SIZE
  <2> QED BY <1>5, <2>1 DEF End
<1>10. Tiled'
  <2>1. Start <= curr /\ End(curr) <= Start + HEADER_SIZE + Size
    BY <1>1 DEF Tiled
  <2>2. \A b \in Blocks' : Start <= b /\ End(b)' <= Start + HEADER_SIZE + Size
    <3>1. Start <= new /\ new <= Start + HEADER_SIZE + Size
      BY <1>2, <1>3, <2>1, StartAssumption, SizeAssumption DEF HEADER_SIZE
    <3> QED BY <1>5, <1>9, <2>1, <3>1 DEF Tiled
  <2>3. ASSUME NEW b \in Blocks'
        PROVE  IF heap'[b].next = NULL THEN End(b)' = Start + HEADER_SIZE + Size
               ELSE heap'[b].next = End(b)' /\ heap'[b].next \in Blocks'
    <3>1. CASE b = curr
      BY <1>2, <1>3, <1>5, <1>6, <1>9, <3>1 DEF NULL
    <3>2. CASE b = new
      <4>1. heap'[b].next = heap[curr].next /\ End(b)' = End(curr)
        BY <1>3, <1>5, <1>6, <1>9, <3>2
      <4> QED BY <1>1, <1>5, <4>1 DEF Tiled
    <3>3. CASE b # curr /\ b # new
      <4>1. b \in Blocks /\ heap'[b] = heap[b] /\ End(b)' = End(b)
        BY <1>5, <1>9, <3>3
      <4> QED BY <1>5, <4>1 DEF Tiled
    <3> QED BY <3>1, <3>2, <3>3
  <2>4. ASSUME NEW b \in Blocks', NEW c \in Blocks', b < c PROVE End(b)' <= c
    <3>1. CASE b = new
      <4>1. c \in Blocks /\ c # curr
        BY <1>2, <1>3, <1>5, <2>4, <3>1
      <4>2. curr < c
        BY <1>2, <1>3, <2>4, <3>1, <4>1, BlockFacts
      <4>3. End(curr) <= c
        BY <1>1, <4>1, <4>2 DEF Tiled
      <4>4. End(b)' = End(curr)
        BY <1>2, <1>3, <1>9, <2>4, <3>1
      <4> QED BY <4>3, <4>4
    <3>2. CASE b = curr
      <4>1. CASE c = new
        BY <1>2, <1>3, <1>9, <3>2, <4>1
      <4>2. CASE c # new
        <5>1. c \in Blocks /\ End(curr) <= c
          BY <1>1, <1>5, <2>4, <3>2, <4>2 DEF Tiled
        <5> QED BY <1>2, <1>3, <1>9, <3>2, <5>1, BlockFacts DEF HEADER_SIZE
      <4> QED BY <4>1, <4>2
    <3>3. CASE b # new /\ b # curr
      <4>1. b \in Blocks /\ End(b)' = End(b) /\ b \in Nat /\ End(b) \in Nat
        BY <1>5, <1>9, <3>3, BlockFacts
      <4>2. CASE c = new
        <5>1. b < curr
          <6> SUFFICES ASSUME curr < b PROVE FALSE
            BY <1>2, <3>3, <4>1
          <6>1. End(curr) <= b
            BY <1>1, <4>1 DEF Tiled
          <6> QED BY <1>2, <1>3, <2>4, <4>1, <4>2, <6>1 DEF HEADER_SIZE
        <5>2. End(b) <= curr
          BY <1>1, <4>1, <5>1 DEF Tiled
        <5> QED BY <1>2, <1>3, <4>1, <4>2, <5>2
      <4>3. CASE c # new
        BY <1>5, <2>4, <4>1, <4>3 DEF Tiled
      <4> QED BY <4>2, <4>3
    <3> QED BY <3>1, <3>2, <3>3
  <2> QED BY <2>2, <2>3, <2>4 DEF Tiled
<1>11. Held'
  <2>1. ASSUME NEW p \in DOMAIN live'
        PROVE  /\ p - HEADER_SIZE \in Blocks'
               /\ ~ heap'[p - HEADER_SIZE].free
               /\ live'[p] <= heap'[p - HEADER_SIZE].size
    <3>1. CASE p = curr + HEADER_SIZE
      <4>1. p - HEADER_SIZE = curr /\ live'[p] = want
        BY <1>1, <1>2, <1>7, <3>1, ReturnFacts DEF HEADER_SIZE
      <4> QED BY <1>1, <1>5, <1>6, <4>1
    <3>2. CASE p # curr + HEADER_SIZE
      <4>1. p \in DOMAIN live /\ live'[p] = live[p]
        BY <1>1, <1>7, <2>1, <3>2, ReturnFacts
      <4>2. p - HEADER_SIZE \in Blocks /\ ~ heap[p - HEADER_SIZE].free
            /\ live[p] <= heap[p - HEADER_SIZE].size
        BY <4>1 DEF Held
      <4>3. heap'[p - HEADER_SIZE] = heap[p - HEADER_SIZE]
        BY <1>1, <1>5, <4>2
      <4> QED BY <1>5, <4>1, <4>2, <4>3
    <3> QED BY <3>1, <3>2
  <2>2. ASSUME NEW b \in Blocks', ~ heap'[b].free PROVE b + HEADER_SIZE \in DOMAIN live'
    BY <1>1, <1>5, <1>6, <1>7, <2>2, ReturnFacts DEF Held
  <2> QED BY <2>1, <2>2 DEF Held
<1>12. Walked'
  <2>1. \A b \in Blocks : ~ Touching(b)
    BY <1>1 DEF Walked
  <2>2. ASSUME NEW b \in Blocks' PROVE ~ Touching(b)'
    <3>1. CASE b = new
      <4>1. heap[curr].next # NULL => /\ heap[curr].next \in Blocks \ {curr}
                                      /\ ~ heap[heap[curr].next].free
        BY <1>1, <1>2, <2>1, NextFacts DEF Touching
      <4> QED BY <1>5, <1>6, <3>1, <4>1 DEF Touching
    <3>2. CASE b = curr
      BY <1>6, <3>2 DEF Touching
    <3>3. CASE b \in Blocks \ {curr}
      <4>1. heap'[b] = heap[b] /\ ~ Touching(b)
        BY <1>5, <2>1, <3>3
      <4>2. heap[b].next # NULL => heap[b].next \in Blocks
        BY <3>3 DEF Tiled
      <4> QED BY <1>5, <1>6, <4>1, <4>2 DEF Touching
    <3> QED BY <1>5, <3>1, <3>2, <3>3
  <2>3. op' = "idle" /\ curr' = NULL
    BY <1>1, <1>7, ReturnFacts
  <2> QED BY <2>2, <2>3 DEF Walked
<1> QED BY <1>8, <1>10, <1>11, <1>12

-----------------------------------------------------------------------------
(* kfree.                                                                  *)

LEMMA InvFree == Inv /\ (\E p \in DOMAIN live : kfree(p)) => Inv'
<1> SUFFICES ASSUME Inv, NEW p \in DOMAIN live, kfree(p) PROVE Inv'
  OBVIOUS
<1> USE DEF Inv
<1> DEFINE b0 == p - HEADER_SIZE
<1>1. op = "idle" /\ b0 \in Blocks /\ heap[b0].free = FALSE
  BY BlockFacts DEF kfree, Held
<1>2. /\ Blocks' = Blocks
      /\ \A b \in Blocks : heap'[b].size = heap[b].size /\ heap'[b].next = heap[b].next
      /\ \A b \in Blocks \ {b0} : heap'[b].free = heap[b].free
      /\ heap'[b0].free = TRUE
      /\ heap' \in [Blocks -> [size : Nat, free : BOOLEAN, next : Nat]]
  BY <1>1 DEF kfree, TypeOK, Blocks
<1>3. /\ op' = "free" /\ curr' = Start /\ want' = want
      /\ DOMAIN live' = DOMAIN live \ {p} /\ \A q \in DOMAIN live \ {p} : live'[q] = live[q]
      /\ live' \in [DOMAIN live' -> Nat] /\ DOMAIN live' \subseteq Nat
  BY DEF kfree, TypeOK
<1>4. TypeOK'
  BY <1>2, <1>3 DEF TypeOK
<1>5. Tiled'
  BY <1>2 DEF Tiled, End
<1>6. Held'
  <2>1. ASSUME NEW q \in DOMAIN live'
        PROVE  /\ q - HEADER_SIZE \in Blocks
               /\ ~ heap'[q - HEADER_SIZE].free
               /\ live'[q] <= heap'[q - HEADER_SIZE].size
    <3>1. q \in DOMAIN live \ {p} /\ q \in Nat /\ p \in Nat
      BY <1>3 DEF TypeOK
    <3>2. q - HEADER_SIZE # b0
      BY <3>1 DEF HEADER_SIZE
    <3> QED BY <1>2, <1>3, <3>1, <3>2 DEF Held
  <2>2. ASSUME NEW b \in Blocks, ~ heap'[b].free PROVE b + HEADER_SIZE \in DOMAIN live'
    <3>1. b # b0 /\ b + HEADER_SIZE \in DOMAIN live
      BY <1>2, <2>2 DEF Held
    <3>2. b + HEADER_SIZE # p
      BY <3>1, BlockFacts DEF HEADER_SIZE
    <3> QED BY <1>3, <3>1, <3>2
  <2> QED BY <1>2, <2>1, <2>2 DEF Held
<1>7. Walked'
  <2>1. Start # NULL /\ \A b \in Blocks : ~ (b < Start)
    BY StartAssumption, BlockFacts DEF Tiled, NULL, HEADER_SIZE
  <2> QED BY <1>2, <1>3, <2>1 DEF Walked
<1> QED BY <1>4, <1>5, <1>6, <1>7

LEMMA InvJoin == Inv /\ Join => Inv'
<1> SUFFICES ASSUME Inv, Join PROVE Inv'
  OBVIOUS
<1> USE DEF Inv
<1> DEFINE gone == heap[curr].next
<1>1. /\ op = "free" /\ curr \in Blocks /\ gone # NULL
      /\ heap[curr].free = TRUE /\ heap[gone].free = TRUE
  <2>1. op = "free" /\ curr \in Blocks /\ gone # NULL
    BY DEF Join, Coalescing, Walked, TypeOK
  <2>2. gone \in Blocks
    BY <2>1, NextFacts
  <2> QED BY <2>1, <2>2, BlockFacts DEF Join, Joinable
<1>2. /\ gone \in Blocks /\ gone = End(curr) /\ curr < gone /\ gone # Start
      /\ \A c \in Blocks : c < gone => c <= curr
  BY <1>1, NextFacts
<1>3. /\ curr \in Nat /\ heap[curr].size \in Nat /\ gone \in Nat
      /\ heap[gone].size \in Nat /\ heap[gone].next \in Nat
      /\ End(gone) = gone + HEADER_SIZE + heap[gone].size
      /\ End(curr) = curr + HEADER_SIZE + heap[curr].size
  BY <1>1, <1>2, BlockFacts DEF End
<1>4. /\ Blocks' = Blocks \ {gone}
      /\ \A b \in Blocks \ {gone, curr} : heap'[b] = heap[b]
      /\ heap'[curr] = [size |-> heap[curr].size + HEADER_SIZE + heap[gone].size,
                        free |-> TRUE, next |-> heap[gone].next]
  BY <1>1, <1>2, <1>3 DEF Join, Blocks
<1>5. /\ heap'[curr].size = heap[curr].size + HEADER_SIZE + heap[gone].size
      /\ heap'[curr].free = TRUE /\ heap'[curr].next = heap[gone].next
  BY <1>4
<1>6. UNCHANGED <<curr, op, want, live>>
  BY DEF Join
<1>7. TypeOK'
  <2>1. heap' \in [Blocks' -> [size : Nat, free : BOOLEAN, next : Nat]]
    <3>1. heap' = [b \in Blocks' |-> heap'[b]]
      BY DEF Join, Blocks
    <3>2. \A b \in Blocks' : heap'[b] \in [size : Nat, free : BOOLEAN, next : Nat]
      <4>1. \A b \in Blocks : heap[b] \in [size : Nat, free : BOOLEAN, next : Nat]
        BY DEF TypeOK
      <4>2. heap[curr].size + HEADER_SIZE + heap[gone].size \in Nat
        BY <1>3 DEF HEADER_SIZE
      <4>3. heap'[curr] \in [size : Nat, free : BOOLEAN, next : Nat]
        BY <1>3, <1>4, <4>2
      <4> QED BY <1>4, <4>1, <4>3
    <3> QED BY <3>1, <3>2
  <2>2. Start \in Blocks' /\ Blocks' \subseteq Nat \ {NULL} /\ curr \in Blocks'
    BY <1>1, <1>2, <1>3, <1>4 DEF TypeOK
  <2> QED BY <1>6, <2>1, <2>2 DEF TypeOK
<1>8. \A b \in Blocks' : End(b)' = IF b = curr THEN End(gone) ELSE End(b)
  <2>1. curr + HEADER_SIZE + heap'[curr].size = End(gone)
    BY <1>2, <1>3, <1>5 DEF HEADER_SIZE
  <2> QED BY <1>4, <1>6, <2>1 DEF End
<1>9. Tiled'
  <2>1. \A b \in Blocks' : Start <= b /\ End(b)' <= Start + HEADER_SIZE + Size
    BY <1>1, <1>2, <1>4, <1>8 DEF Tiled
  <2>2. ASSUME NEW b \in Blocks'
        PROVE  IF heap'[b].next = NULL THEN End(b)' = Start + HEADER_SIZE + Size
               ELSE heap'[b].next = End(b)' /\ heap'[b].next \in Blocks'
    <3>1. CASE b = curr
      <4>1. heap[gone].next # gone
        BY <1>1, <1>2, <1>3, NextFacts
      <4> QED BY <1>1, <1>2, <1>4, <1>5, <1>8, <3>1, <4>1 DEF Tiled
    <3>2. CASE b # curr
      <4>1. b \in Blocks /\ heap'[b] = heap[b] /\ End(b)' = End(b) /\ b \in Nat /\ b # gone
        BY <1>4, <1>8, <3>2, BlockFacts
      <4>2. heap[b].next # gone \/ heap[b].next = NULL
        <5> SUFFICES ASSUME heap[b].next # NULL, heap[b].next = gone PROVE FALSE
          OBVIOUS
        <5>1. b < gone /\ \A c \in Blocks : c < gone => c <= b
          BY <4>1, NextFacts
        <5>2. b <= curr /\ curr <= b
          BY <1>1, <1>2, <4>1, <5>1
        <5> QED BY <1>3, <3>2, <4>1, <5>2
      <4> QED BY <1>1, <1>4, <4>1, <4>2 DEF Tiled
    <3> QED BY <3>1, <3>2
  <2>3. ASSUME NEW b \in Blocks', NEW c \in Blocks', b < c PROVE End(b)' <= c
    <3>1. CASE b = curr
      <4>1. c \in Blocks /\ c \in Nat /\ c # gone
        BY <1>4, BlockFacts
      <4>2. gone < c
        BY <1>2, <1>3, <2>3, <3>1, <4>1
      <4> QED BY <1>2, <1>8, <3>1, <4>1, <4>2 DEF Tiled
    <3>2. CASE b # curr
      BY <1>4, <1>8, <2>3, <3>2 DEF Tiled
    <3> QED BY <3>1, <3>2
  <2> QED BY <2>1, <2>2, <2>3 DEF Tiled
<1>10. Held'
  <2>1. ASSUME NEW p \in DOMAIN live
        PROVE  /\ p - HEADER_SIZE \in Blocks'
               /\ ~ heap'[p - HEADER_SIZE].free
               /\ live[p] <= heap'[p - HEADER_SIZE].size
    <3>1. p - HEADER_SIZE \in Blocks /\ ~ heap[p - HEADER_SIZE].free
          /\ live[p] <= heap[p - HEADER_SIZE].size
      BY DEF Held
    <3>2. p - HEADER_SIZE # curr /\ p - HEADER_SIZE # gone
      BY <1>1, <3>1
    <3> QED BY <1>4, <3>1, <3>2
  <2>2. ASSUME NEW b \in Blocks', ~ heap'[b].free PROVE b + HEADER_SIZE \in DOMAIN live
    BY <1>4, <1>5, <2>2 DEF Held
  <2> QED BY <1>6, <2>1, <2>2 DEF Held
<1>11. Walked'
  <2>1. ASSUME NEW b \in Blocks', b < curr PROVE ~ Touching(b)'
    <3>1. b \in Blocks \ {curr, gone} /\ heap'[b] = heap[b] /\ ~ Touching(b)
      BY <1>1, <1>3, <1>4, <2>1 DEF Walked
    <3>2. heap[b].next # NULL => heap[b].next \in Blocks
      BY <3>1 DEF Tiled
    <3>3. CASE heap[b].next = curr
      BY <1>1, <1>3, <3>1, <3>3 DEF Touching
    <3>4. CASE heap[b].next = gone
      BY <1>1, <1>3, <3>1, <3>4 DEF Touching
    <3>5. CASE heap[b].next \notin {curr, gone}
      BY <1>4, <3>1, <3>2, <3>5 DEF Touching
    <3> QED BY <3>3, <3>4, <3>5
  <2>2. curr # NULL
    BY <1>1, BlockFacts
  <2> QED BY <1>1, <1>6, <2>1, <2>2 DEF Walked
<1> QED BY <1>7, <1>9, <1>10, <1>11

-----------------------------------------------------------------------------

LEMMA InvNext == Inv /\ [Next]_vars => Inv'
<1> SUFFICES ASSUME Inv, [Next]_vars PROVE Inv'
  OBVIOUS
<1>1. CASE UNCHANGED vars
  BY <1>1 DEF vars, Inv, TypeOK, Tiled, Held, Walked, Touching, Fits, Blocks, End
<1> QED
  BY <1>1, InvWalk, InvTakeWhole, InvSplit, InvFree, InvJoin DEF Next, Walk

\* The list tiles the region, the callers hold exactly the blocks in use, and
\* no two free blocks touch between calls.
THEOREM HeapInv == Spec => []Inv
BY InvInit, InvNext, PTL DEF Spec

\* Every variable keeps its type.
THEOREM HeapTypes == Spec => []TypeOK
BY HeapInv, PTL DEF Inv

\* No two callers are ever given the same byte, nor a header.
THEOREM Disjoint == Spec => []LiveDisjoint
<1>1. Inv => LiveDisjoint
  <2> SUFFICES ASSUME Inv, NEW p \in DOMAIN live
               PROVE  /\ \A q \in DOMAIN live \ {p} : p + live[p] <= q \/ q + live[q] <= p
                      /\ \A b \in Blocks : p + live[p] <= b \/ b + HEADER_SIZE <= p
    BY DEF LiveDisjoint
  <2> DEFINE h(q) == q - HEADER_SIZE
  <2>1. \A q \in DOMAIN live : /\ h(q) \in Blocks /\ q \in Nat /\ live[q] \in Nat
                               /\ q + live[q] <= End(h(q)) /\ End(h(q)) \in Nat
    <3> SUFFICES ASSUME NEW q \in DOMAIN live
                 PROVE  /\ h(q) \in Blocks /\ q \in Nat /\ live[q] \in Nat
                        /\ q + live[q] <= End(h(q)) /\ End(h(q)) \in Nat
      OBVIOUS
    <3>1. h(q) \in Blocks /\ live[q] <= heap[h(q)].size /\ q \in Nat /\ live[q] \in Nat
      BY DEF Inv, Held, TypeOK
    <3> QED BY <3>1, BlockFacts DEF Inv, End, HEADER_SIZE
  <2>2. ASSUME NEW q \in DOMAIN live \ {p} PROVE p + live[p] <= q \/ q + live[q] <= p
    <3>1. h(p) < h(q) => End(h(p)) <= h(q)
      BY <2>1 DEF Inv, Tiled
    <3>2. h(q) < h(p) => End(h(q)) <= h(p)
      BY <2>1 DEF Inv, Tiled
    <3> QED BY <2>1, <3>1, <3>2 DEF HEADER_SIZE
  <2>3. ASSUME NEW b \in Blocks PROVE p + live[p] <= b \/ b + HEADER_SIZE <= p
    <3>1. h(p) < b => End(h(p)) <= b
      BY <2>1 DEF Inv, Tiled
    <3> QED BY <2>1, <3>1, BlockFacts DEF Inv, HEADER_SIZE
  <2> QED BY <2>2, <2>3
<1> QED BY <1>1, HeapInv, PTL

\* Free neighbours are joined whenever no call is under way.
THEOREM FreeNeighboursJoined == Spec => []Coalesced
<1>1. Inv => Coalesced
  BY DEF Inv, Walked, Touching, Coalesced
<1> QED BY <1>1, HeapInv, PTL

-----------------------------------------------------------------------------
(* Nothing of the region is lost, and kmalloc gives up only if it must.    *)

\* Once everything has been freed, the heap is the one block that heap_init
\* made: no header is left in the middle and no byte is gone.
THEOREM EmptyHeapIsWhole == Spec => []NothingLost
<1>1. Inv => NothingLost
  <2> SUFFICES ASSUME Inv, op = "idle", live = <<>>
               PROVE  heap = [b \in {Start} |-> [size |-> Size, free |-> TRUE, next |-> NULL]]
    BY DEF NothingLost
  <2> USE DEF Inv
  <2>1. \A b \in Blocks : heap[b].free /\ ~ Touching(b)
    BY DEF Held, Walked
  <2>2. Start \in Blocks /\ heap[Start].next = NULL
    <3>1. Start \in Blocks
      BY DEF TypeOK
    <3>2. heap[Start].next # NULL => heap[Start].next \in Blocks
      BY <3>1 DEF Tiled
    <3> QED BY <2>1, <3>1, <3>2 DEF Touching
  <2>3. \A b \in Blocks : b = Start
    <3> SUFFICES ASSUME NEW b \in Blocks PROVE b = Start
      OBVIOUS
    <3>1. b <= Start /\ Start <= b
      BY <2>2, LastBlock DEF Tiled
    <3> QED BY <3>1, StartAssumption, BlockFacts
  <2>4. heap[Start].size = Size /\ heap[Start].free = TRUE
    <3>1. End(Start) = Start + HEADER_SIZE + Size
      BY <2>2 DEF Tiled
    <3> QED BY <2>1, <2>2, <3>1, BlockFacts, StartAssumption, SizeAssumption DEF End, HEADER_SIZE
  <2>5. /\ Blocks = {Start}
        /\ heap \in [Blocks -> [size : Nat, free : BOOLEAN, next : Nat]]
    BY <2>2, <2>3 DEF TypeOK
  <2>6. heap[Start] = [size |-> Size, free |-> TRUE, next |-> NULL]
    BY <2>2, <2>4, <2>5
  <2> QED BY <2>5, <2>6
<1> QED BY <1>1, HeapInv, PTL

\* The list leaves no gap: every address of the region is in a block.
LEMMA EveryAddress ==
    ASSUME TypeOK, Tiled, NEW a \in Nat, Start <= a, a < Start + HEADER_SIZE + Size
    PROVE  \E b \in Blocks : b <= a /\ a < End(b)
<1> DEFINE Before == {b \in Blocks : b <= a}
<1>1. Start \in Before /\ Before \subseteq Nat /\ \A c \in Before : c <= a
  BY BlockFacts DEF TypeOK
<1>2. PICK b \in Before : \A c \in Before : c <= b
  <2> HIDE DEF Before
  <2> QED BY <1>1, Greatest
<1>3. CASE heap[b].next = NULL
  <2>1. End(b) = Start + HEADER_SIZE + Size
    BY <1>3 DEF Tiled
  <2> QED BY <2>1
<1>4. CASE heap[b].next # NULL
  <2>1. heap[b].next \in Blocks /\ heap[b].next = End(b) /\ b < heap[b].next
    BY <1>4, NextFacts
  <2>2. ~ (End(b) <= b) /\ b \in Nat /\ End(b) \in Nat
    BY <2>1, BlockFacts
  <2>3. ~ (End(b) <= a)
    BY <1>2, <2>1, <2>2
  <2> QED BY <2>2, <2>3
<1> QED BY <1>3, <1>4

\* When kmalloc returns NULL, every stretch that could hold the request and a
\* header has a byte or the header of a block in use in it.
THEOREM FullWhenFailing == Spec => []FailsOnlyWhenFull
<1>1. Inv => FailsOnlyWhenFull
  <2> SUFFICES ASSUME Inv, op = "malloc", curr = NULL, NEW a \in Start .. Start + Size - want
               PROVE  \E b \in Blocks : /\ ~ heap[b].free
                                        /\ b < a + HEADER_SIZE + want
                                        /\ a < End(b)
    BY DEF FailsOnlyWhenFull
  <2> USE DEF Inv
  <2>1. /\ a \in Nat /\ want \in Nat /\ Start <= a
        /\ a + want <= Start + Size /\ a < Start + HEADER_SIZE + Size
    BY StartAssumption, SizeAssumption DEF TypeOK, HEADER_SIZE
  <2>2. PICK b \in Blocks : b <= a /\ a < End(b)
    BY <2>1, EveryAddress
  <2>3. b \in Nat /\ End(b) = b + HEADER_SIZE + heap[b].size /\ heap[b].size \in Nat
    BY BlockFacts DEF End
  <2>4. CASE ~ heap[b].free
    BY <2>1, <2>2, <2>3, <2>4 DEF HEADER_SIZE
  <2>5. CASE heap[b].free
    <3>1. ~ Fits(b) /\ ~ Touching(b)
      BY DEF Walked
    <3>2. heap[b].size < want
      BY <2>1, <2>3, <2>5, <3>1 DEF Fits
    <3>3. End(b) < a + HEADER_SIZE + want
      BY <2>1, <2>2, <2>3, <3>2 DEF HEADER_SIZE
    <3>4. heap[b].next # NULL
      <4>1. End(b) # Start + HEADER_SIZE + Size
        BY <2>1, <2>3, <3>3, StartAssumption, SizeAssumption DEF HEADER_SIZE
      <4> QED BY <4>1 DEF Tiled
    <3> DEFINE c == heap[b].next
    <3>5. c \in Blocks /\ c = End(b)
      BY <3>4, NextFacts
    <3>6. ~ heap[c].free
      BY <2>5, <3>1, <3>4 DEF Touching
    <3>7. c < a + HEADER_SIZE + want /\ a < End(c)
      <4>1. c + HEADER_SIZE <= End(c) /\ c \in Nat /\ End(c) \in Nat
        BY <3>5, BlockFacts
      <4> QED BY <2>1, <2>2, <3>3, <3>5, <4>1 DEF HEADER_SIZE
    <3> QED BY <3>5, <3>6, <3>7
  <2> QED BY <2>4, <2>5
<1> QED BY <1>1, HeapInv, PTL

-----------------------------------------------------------------------------
(* Heap implements Allocator.                                              *)

\* What kmalloc looks for is what it was asked for.
Asked == op = "malloc" => want \in Requests

LEMMA AskedNext == Asked /\ [Next]_vars => Asked'
<1> SUFFICES ASSUME Asked, [Next]_vars PROVE Asked'
  OBVIOUS
<1>1. CASE UNCHANGED vars
  BY <1>1 DEF vars, Asked
<1>2. CASE \E n \in Requests : kmalloc(n)
  BY <1>2 DEF kmalloc, Asked
<1>3. CASE Walk
  BY <1>3 DEF Walk, Skip, Split, TakeWhole, OutOfHeap, Join, Pass, Freed, Return, Asked
<1>4. CASE \E p \in DOMAIN live : kfree(p)
  BY <1>4 DEF kfree, Asked
<1> QED BY <1>1, <1>2, <1>3, <1>4 DEF Next

\* The bytes of a free block belong to no caller.
LEMMA FreeIsFresh ==
    ASSUME Inv, Asked, op = "malloc", curr \in Blocks, Fits(curr), Return
    PROVE  Abstract!Next
<1> DEFINE new == curr + HEADER_SIZE
<1> USE DEF Inv
<1>1. /\ curr \in Nat /\ heap[curr].size \in Nat /\ want \in Nat /\ heap[curr].free
      /\ End(curr) = new + heap[curr].size /\ want <= heap[curr].size /\ new \in Nat
  BY BlockFacts DEF Fits, End, TypeOK, HEADER_SIZE
<1>2. Start <= curr /\ End(curr) <= Start + HEADER_SIZE + Size
  BY DEF Tiled
<1>3. new .. new + want - 1 \subseteq Start .. Start + HEADER_SIZE + Size
  BY <1>1, <1>2, StartAssumption, SizeAssumption DEF HEADER_SIZE
<1>4. new \in Start .. Start + HEADER_SIZE + Size
  BY <1>1, <1>2, StartAssumption, SizeAssumption DEF HEADER_SIZE
<1>5. ASSUME NEW q \in DOMAIN live
      PROVE  q # new /\ (new + want <= q \/ q + live[q] <= new)
  <2> DEFINE b == q - HEADER_SIZE
  <2>1. b \in Blocks /\ ~ heap[b].free /\ live[q] <= heap[b].size
        /\ q \in Nat /\ live[q] \in Nat
    BY DEF Held, TypeOK
  <2>2. b # curr /\ b \in Nat /\ End(b) = q + heap[b].size /\ heap[b].size \in Nat
    BY <1>1, <2>1, BlockFacts DEF End, HEADER_SIZE
  <2>3. b < curr => End(b) <= curr
    BY <2>1 DEF Tiled
  <2>4. curr < b => End(curr) <= b
    BY <2>1 DEF Tiled
  <2> QED BY <1>1, <2>1, <2>2, <2>3, <2>4 DEF HEADER_SIZE
<1>6. Abstract!Fresh(new, want)
  BY <1>3, <1>5 DEF Abstract!Fresh
<1>7. Abstract!Allocate(new, want)
  BY <1>6 DEF Abstract!Allocate, Return
<1> QED BY <1>4, <1>7 DEF Abstract!Next, Asked

LEMMA AllocatorStep == Inv /\ Asked /\ [Next]_vars => [Abstract!Next]_live
<1> SUFFICES ASSUME Inv, Asked, [Next]_vars PROVE [Abstract!Next]_live
  OBVIOUS
<1>1. CASE UNCHANGED vars
  BY <1>1 DEF vars
<1>2. CASE (\E n \in Requests : kmalloc(n)) \/ Skip \/ OutOfHeap \/ Join \/ Pass \/ Freed
  BY <1>2 DEF kmalloc, Skip, OutOfHeap, Join, Pass, Freed
<1>3. CASE Split \/ TakeWhole
  <2>1. op = "malloc" /\ curr \in Blocks /\ Fits(curr) /\ Return
    BY <1>3 DEF Split, TakeWhole, Inv, TypeOK
  <2> QED BY <2>1, FreeIsFresh
<1>4. ASSUME NEW p \in DOMAIN live, kfree(p) PROVE Abstract!Next
  <2>1. /\ p - HEADER_SIZE \in Blocks /\ p \in Nat
        /\ live[p] \in Nat /\ live[p] <= heap[p - HEADER_SIZE].size
    BY DEF Inv, Held, TypeOK
  <2>2. /\ Start <= p - HEADER_SIZE
        /\ End(p - HEADER_SIZE) = p + heap[p - HEADER_SIZE].size
        /\ End(p - HEADER_SIZE) <= Start + HEADER_SIZE + Size
        /\ heap[p - HEADER_SIZE].size \in Nat
    BY <2>1, BlockFacts DEF Inv, Tiled, End, HEADER_SIZE
  <2>3. p \in Start .. Start + HEADER_SIZE + Size
    BY <2>1, <2>2, StartAssumption, SizeAssumption DEF HEADER_SIZE
  <2>4. Abstract!Release(p)
    BY <1>4 DEF kfree, Abstract!Release
  <2> QED BY <2>3, <2>4 DEF Abstract!Next
<1> QED BY <1>1, <1>2, <1>3, <1>4 DEF Next, Walk

\* Every step of the heap is a step of the abstract allocator, which gives a
\* caller only bytes that no other caller holds, or leaves it alone.
THEOREM HeapImplements == Spec => AllocatorSpec
<1>1. Init => Abstract!Init /\ Asked
  BY DEF Init, Abstract!Init, Asked
<1> QED BY <1>1, InvInit, InvNext, AskedNext, AllocatorStep, PTL
        DEF Spec, AllocatorSpec, Abstract!Spec

=============================================================================

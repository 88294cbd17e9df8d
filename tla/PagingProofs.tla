----------------------------- MODULE PagingProofs -----------------------------
(***************************************************************************)
(* Theorems about Paging, for every kernel, memory map and program (Boots) *)
(* or for those whose usable entries lie below 4 GB and start at a page    *)
(* (Aligned), whose program is too small to reach from tmp to the bitmap   *)
(* (Clear), or that are Ordinary.  The run pg_large_file shows what        *)
(* happens to a program that is not Clear.                                 *)
(***************************************************************************)
EXTENDS Paging, LeastNumbers, TLAPS

Aligned ==
    \A b \in Boots : \A e \in b.mmap :
        e.type = 1 => e.base_high = 0 /\ e.base_low % PAGE_SIZE = 0

Clear == \A b \in Boots : b.link.tmp + b.size < BITMAP_ADDR

\* What never changes, and what pmm_init has yet to fill.
Given ==
    /\ \E b \in Boots : /\ mmap = b.mmap /\ memory_size = b.memory_size
                        /\ link = b.link /\ size = b.size
    /\ pc \in {"pmm_init", "regions"} => free = {}

LEMMA GivenInit == Init => Given
BY DEF Init, Given

LEMMA GivenNext == Given /\ [Next]_vars => Given'
<1> SUFFICES ASSUME Given, [Next]_vars PROVE Given'
  OBVIOUS
<1>1. UNCHANGED <<mmap, memory_size, link, size>> /\ (pc' \in {"pmm_init", "regions"} => free' = {})
  <2>1. CASE UNCHANGED vars
    BY <2>1 DEF Given, vars
  <2>2. CASE SetAllBits \/ FreeUsable \/ ReserveKernel \/ NewDir \/ NewTable \/ FillIdentity
    BY <2>2 DEF SetAllBits, set_all_bits, FreeUsable, ReserveKernel, NewDir, NewTable, FillIdentity, Round
  <2>3. CASE MapFramebuffer \/ MapStack \/ EnablePaging \/ ReserveHeap \/ ReadProgram
    BY <2>3 DEF MapFramebuffer, MapStack, EnablePaging, ReserveHeap, ReadProgram, Round
  <2>4. CASE LoadPage \/ SetUserBit \/ OutOfMemory \/ StrayTick
    BY <2>4 DEF LoadPage, SetUserBit, OutOfMemory, StrayTick, Round
  <2> QED BY <2>1, <2>2, <2>3, <2>4 DEF Next, vars
<1> QED BY <1>1, Zenon DEF Given

-----------------------------------------------------------------------------
(* Frames become free once, and are never given back.                      *)

\* A file that ends below the bitmap leaves it alone.
LEMMA NothingOverwritten ==
    ASSUME link \in Link, size \in Nat, link.tmp + size < BITMAP_ADDR
    PROVE  Overwritten = {}
<1>1. link.tmp \in Nat
  BY DEF Link
<1>2. ASSUME NEW f \in 0 .. BITMAP_SIZE * 8 - 1
      PROVE  BITMAP_ADDR + f \div 8 \notin link.tmp .. link.tmp + size
  <2>1. f \in Nat /\ f \div 8 \in Nat
    BY SMT
  <2> QED BY SMT, <1>1, <2>1 DEF BITMAP_ADDR
<1> QED BY <1>2 DEF Overwritten, BitsIn

LEMMA FreeShrinks ==
    ASSUME Clear, Given, [Next]_vars, ~ FreeUsable
    PROVE  free' \subseteq free /\ UNCHANGED <<mmap, memory_size, link>>
<1>1. CASE UNCHANGED vars
  BY <1>1 DEF vars
<1>2. CASE SetAllBits \/ ReserveKernel
  BY <1>2 DEF SetAllBits, set_all_bits, ReserveKernel, reserve_kernel
<1>3. CASE NewDir \/ NewTable \/ FillIdentity \/ EnablePaging
  BY <1>3 DEF NewDir, NewTable, FillIdentity, EnablePaging, Round
<1>4. CASE MapFramebuffer \/ MapStack \/ LoadPage
  BY <1>4 DEF MapFramebuffer, MapStack, LoadPage, vmm_map_page, Round
<1>5. CASE ReadProgram
  <2>1. Overwritten = {}
    BY NothingOverwritten, BootsAssumption DEF Clear, Given, Boot
  <2> QED BY <1>5, <2>1 DEF ReadProgram
<1>6. CASE ReserveHeap \/ SetUserBit \/ OutOfMemory \/ StrayTick
  BY <1>6 DEF ReserveHeap, SetUserBit, OutOfMemory, StrayTick
<1> QED BY <1>1, <1>2, <1>3, <1>4, <1>5, <1>6 DEF Next, vars

-----------------------------------------------------------------------------
(* What may be allocated is usable memory.                                 *)

\* A page that starts and ends in an aligned entry lies in it.
LEMMA FreedIsUsable ==
    ASSUME NEW e \in Entry, e.base_low % PAGE_SIZE = 0, NEW f \in FreedBy(e)
    PROVE  /\ f \in Nat /\ e.base_low <= f * PAGE_SIZE
           /\ f * PAGE_SIZE + PAGE_SIZE - 1 < e.base_low + e.length_low
<1>1. e.base_low \in Nat /\ e.length_low \in Nat
  BY DEF Entry
<1> QED BY <1>1 DEF FreedBy, PAGE_SIZE

LEMMA UsableFreed == ASSUME Aligned, Given, FreeUsable PROVE FreeIsUsable'
<1> SUFFICES ASSUME NEW f \in free'
             PROVE  IsUsable(f * PAGE_SIZE, f * PAGE_SIZE + PAGE_SIZE - 1)'
  BY DEF FreeIsUsable
<1>1. PICK e \in mmap : e.type = 1 /\ f \in FreedBy(e)
  BY DEF FreeUsable, free_usable
<1>2. e \in Entry /\ e.base_high = 0 /\ e.base_low % PAGE_SIZE = 0
  BY <1>1, BootsAssumption DEF Given, Aligned, Boot
<1>3. mmap' = mmap
  BY DEF FreeUsable
<1> QED BY <1>1, <1>2, <1>3, FreedIsUsable DEF IsUsable

\* Every frame that may still be allocated is usable memory, every byte of it.
THEOREM OnlyUsable == ASSUME Aligned, Clear PROVE Spec => []FreeIsUsable
<1>1. Init => FreeIsUsable
  BY DEF Init, FreeIsUsable
<1>2. Given /\ FreeIsUsable /\ [Next]_vars => FreeIsUsable'
  <2> SUFFICES ASSUME Given, FreeIsUsable, [Next]_vars PROVE FreeIsUsable'
    OBVIOUS
  <2>1. CASE FreeUsable
    BY <2>1, UsableFreed
  <2>2. CASE ~ FreeUsable
    BY <2>2, FreeShrinks DEF FreeIsUsable, IsUsable
  <2> QED BY <2>1, <2>2
<1> QED BY <1>1, <1>2, GivenInit, GivenNext, PTL DEF Spec

-----------------------------------------------------------------------------
(* The kernel's image and the bitmap are never to be allocated.            *)

\* From pmm_init's return on, as long as no tick goes astray, no frame of the
\* kernel's image or of the bitmap can be allocated.
THEOREM StaysReserved == ASSUME Clear PROVE Spec => []KernelReserved
<1>1. Init => KernelReserved
  BY DEF Init, KernelReserved, PmmReady
<1>2. Given /\ KernelReserved /\ [Next]_vars => KernelReserved'
  <2> SUFFICES ASSUME Given, KernelReserved, [Next]_vars, PmmReady'
               PROVE  (free \cap (KernelFrames \cup BitmapFrames) = {})'
    BY DEF KernelReserved
  <2>1. CASE PmmReady
    <3>1. ~ FreeUsable
      BY <2>1 DEF PmmReady, FreeUsable
    <3> QED BY <2>1, <3>1, FreeShrinks DEF KernelReserved, KernelFrames, BitmapFrames, BITMAP_SIZE, KernelEnd
  <2>2. CASE ReserveKernel
    BY <2>2 DEF ReserveKernel, reserve_kernel, KernelFrames, BitmapFrames, BITMAP_SIZE, KernelEnd
  <2>3. CASE ~ PmmReady /\ ~ ReserveKernel
    <3>1. pc' \in {"pmm_init", "regions", "reserve", "wild"}
      BY <2>3 DEF PmmReady, Next, vars, SetAllBits, FreeUsable, NewDir, NewTable, FillIdentity, MapFramebuffer,
                  MapStack, EnablePaging, ReserveHeap, ReadProgram, LoadPage, SetUserBit, OutOfMemory, StrayTick
    <3> QED BY <3>1 DEF PmmReady
  <2> QED BY <2>1, <2>2, <2>3
<1> QED BY <1>1, <1>2, GivenInit, GivenNext, PTL DEF Spec

-----------------------------------------------------------------------------
(* Page tables, as a value T of tables with the page directory in frame c. *)

Tab(T, f)      == IF f \in DOMAIN T THEN T[f] ELSE <<>>
PteOf(T, c, v) == Tab(T, Tab(T, c)[v \div ENTRIES].frame)[v % ENTRIES]
FramesOf(T, c) == {Tab(T, c)[d].frame : d \in DOMAIN Tab(T, c)}
MappedBy(T, c) ==
    {v \in {d * ENTRIES + t : d \in DOMAIN Tab(T, c), t \in 0 .. ENTRIES - 1} :
        /\ v \div ENTRIES \in DOMAIN Tab(T, c)
        /\ v % ENTRIES \in DOMAIN Tab(T, Tab(T, c)[v \div ENTRIES].frame)}

IsTables(T) ==
    \A f \in DOMAIN T :
          /\ f \in Nat /\ DOMAIN T[f] \subseteq 0 .. ENTRIES - 1
          /\ \A k \in DOMAIN T[f] : T[f][k] \in [frame : Nat, user : BOOLEAN]

Good(T, c) ==
    /\ IsTables(T) /\ c \in DOMAIN T
    /\ \A d \in DOMAIN T[c] : T[c][d].frame \in DOMAIN T \ {c}
    /\ \A d, e \in DOMAIN T[c] : T[c][d].frame = T[c][e].frame => d = e

\* The model's operators are these, of the tables before and after a step.
LEMMA Views ==
    /\ Dir = Tab(tables, current_dir) /\ Dir' = Tab(tables', current_dir')
    /\ TableFrames = FramesOf(tables, current_dir) /\ TableFrames' = FramesOf(tables', current_dir')
    /\ MappedPages = MappedBy(tables, current_dir) /\ MappedPages' = MappedBy(tables', current_dir')
    /\ \A v : Pte(v) = PteOf(tables, current_dir, v)
    /\ \A v : Pte(v)' = PteOf(tables', current_dir', v)
BY DEF Dir, Table, Tab, TableFrames, FramesOf, MappedPages, MappedBy, IsMapped, Pte, Pde, PteOf

\* A page number is an entry of the directory and one of its table.
LEMMA Split ==
    ASSUME NEW v \in Nat
    PROVE  /\ v \div ENTRIES \in Nat /\ v % ENTRIES \in 0 .. ENTRIES - 1
           /\ v = (v \div ENTRIES) * ENTRIES + (v % ENTRIES)
BY DEF ENTRIES

LEMMA Join ==
    ASSUME NEW d \in Nat, NEW t \in 0 .. ENTRIES - 1
    PROVE  /\ d * ENTRIES + t \in Nat
           /\ (d * ENTRIES + t) \div ENTRIES = d /\ (d * ENTRIES + t) % ENTRIES = t
BY DEF ENTRIES

LEMMA Numbers ==
    ENTRIES = 1024 /\ IDENTITY_TABLES = 32 /\ USER_CODE_BASE = 1024 /\ HEAP = 512
BY DEF ENTRIES, IDENTITY_TABLES, USER_CODE_BASE, HEAP

LEMMA IdentityRange ==
    IdentityPages \subseteq Nat /\ \A v \in Nat : v \in IdentityPages <=> v <= 32767
<1>1. IDENTITY_TABLES * ENTRIES - 1 = 32767
  BY Numbers
<1> QED BY <1>1 DEF IdentityPages

LEMMA IdentityEntries ==
    ASSUME NEW v \in Nat
    PROVE  v \in IdentityPages <=> v \div ENTRIES \in 0 .. IDENTITY_TABLES - 1
<1>1. v <= 32767 <=> v \div 1024 <= 31
  OBVIOUS
<1>2. v \div 1024 \in Nat
  OBVIOUS
<1>3. v \div ENTRIES \in 0 .. IDENTITY_TABLES - 1 <=> v \div ENTRIES <= 31
  BY <1>2, Numbers
<1> QED BY <1>1, <1>3, IdentityRange, Numbers

\* What is mapped is what the directory and the tables have entries for.
LEMMA Mapped ==
    ASSUME NEW T, NEW c, Good(T, c)
    PROVE  /\ MappedBy(T, c) \subseteq Nat
           /\ \A v \in Nat : v \in MappedBy(T, c)
                <=> /\ v \div ENTRIES \in DOMAIN T[c]
                    /\ v % ENTRIES \in DOMAIN T[T[c][v \div ENTRIES].frame]
           /\ \A v \in MappedBy(T, c) :
                PteOf(T, c, v) = T[T[c][v \div ENTRIES].frame][v % ENTRIES]
           /\ FramesOf(T, c) = {T[c][d].frame : d \in DOMAIN T[c]}
           /\ FramesOf(T, c) \subseteq DOMAIN T \ {c}
<1>1. Tab(T, c) = T[c] /\ \A d \in DOMAIN T[c] : Tab(T, T[c][d].frame) = T[T[c][d].frame]
  BY DEF Good, Tab
<1>2. \A d \in DOMAIN T[c] : d \in 0 .. ENTRIES - 1 /\ DOMAIN T[T[c][d].frame] \subseteq 0 .. ENTRIES - 1
  BY DEF Good, IsTables
<1>3. MappedBy(T, c) = {v \in {d * ENTRIES + t : d \in DOMAIN T[c], t \in 0 .. ENTRIES - 1} :
                            /\ v \div ENTRIES \in DOMAIN T[c]
                            /\ v % ENTRIES \in DOMAIN T[T[c][v \div ENTRIES].frame]}
  BY <1>1 DEF MappedBy
<1>4. ASSUME NEW v \in MappedBy(T, c)
      PROVE  /\ v \in Nat
             /\ v \div ENTRIES \in DOMAIN T[c]
             /\ v % ENTRIES \in DOMAIN T[T[c][v \div ENTRIES].frame]
  <2>1. PICK d \in DOMAIN T[c], t \in 0 .. ENTRIES - 1 : v = d * ENTRIES + t
    BY <1>3
  <2>2. v \in Nat
    BY <1>2, <2>1, Join
  <2> QED BY <1>3, <2>2
<1>5. ASSUME NEW v \in Nat, v \div ENTRIES \in DOMAIN T[c],
             v % ENTRIES \in DOMAIN T[T[c][v \div ENTRIES].frame]
      PROVE  v \in MappedBy(T, c)
  <2>1. v = (v \div ENTRIES) * ENTRIES + (v % ENTRIES) /\ v % ENTRIES \in 0 .. ENTRIES - 1
    BY Split
  <2>2. v \in {d * ENTRIES + t : d \in DOMAIN T[c], t \in 0 .. ENTRIES - 1}
    BY <1>5, <2>1
  <2> QED BY <1>3, <1>5, <2>2
<1>6. \A v \in MappedBy(T, c) : PteOf(T, c, v) = T[T[c][v \div ENTRIES].frame][v % ENTRIES]
  BY <1>1, <1>4 DEF PteOf
<1>7. FramesOf(T, c) = {T[c][d].frame : d \in DOMAIN T[c]}
  BY <1>1 DEF FramesOf
<1>8. FramesOf(T, c) \subseteq DOMAIN T \ {c}
  BY <1>7 DEF Good
<1> QED BY <1>4, <1>5, <1>6, <1>7, <1>8

\* An entry that is set is the only one that changes.
LEMMA PutEntry ==
    ASSUME NEW T, IsTables(T), NEW g \in DOMAIN T, NEW k \in 0 .. ENTRIES - 1,
           NEW f \in Nat, NEW u \in BOOLEAN
    PROVE  LET W == WithEntry(T, g, k, f, u)
           IN  /\ IsTables(W) /\ DOMAIN W = DOMAIN T
               /\ \A h \in DOMAIN T \ {g} : W[h] = T[h]
               /\ DOMAIN W[g] = DOMAIN T[g] \cup {k}
               /\ W[g][k] = [frame |-> f, user |-> u]
               /\ \A j \in DOMAIN T[g] \ {k} : W[g][j] = T[g][j]
<1> DEFINE W == WithEntry(T, g, k, f, u)
           e == [frame |-> f, user |-> u]
           N == [z \in DOMAIN T[g] \cup {k} |-> IF z = k THEN e ELSE T[g][z]]
<1>1. W = [z \in DOMAIN T \cup {g} |-> IF z = g THEN N ELSE T[z]]
  BY DEF WithEntry, Put
<1>2. e \in [frame : Nat, user : BOOLEAN]
  OBVIOUS
<1> HIDE DEF W, e
<1>3. DOMAIN W = DOMAIN T /\ W[g] = N /\ \A h \in DOMAIN T \ {g} : W[h] = T[h]
  <2> HIDE DEF N
  <2> QED BY <1>1
<1>4. DOMAIN N = DOMAIN T[g] \cup {k} /\ N[k] = e /\ \A j \in DOMAIN T[g] \ {k} : N[j] = T[g][j]
  OBVIOUS
<1> HIDE DEF N
<1>5. IsTables(W)
  <2> SUFFICES ASSUME NEW h \in DOMAIN W
               PROVE  /\ h \in Nat /\ DOMAIN W[h] \subseteq 0 .. ENTRIES - 1
                      /\ \A j \in DOMAIN W[h] : W[h][j] \in [frame : Nat, user : BOOLEAN]
    BY DEF IsTables
  <2>1. CASE h = g
    BY <2>1, <1>2, <1>3, <1>4 DEF IsTables
  <2>2. CASE h # g
    BY <2>2, <1>3 DEF IsTables
  <2> QED BY <2>1, <2>2
<1> QED BY <1>3, <1>4, <1>5 DEF W, e

\* Entries that a page of W has if and only if it has them in T.
LEMMA SameMapping ==
    ASSUME NEW T, NEW W, NEW c, Good(T, c), Good(W, c), DOMAIN W[c] = DOMAIN T[c],
           \A d \in DOMAIN T[c] : W[c][d].frame = T[c][d].frame /\ W[T[c][d].frame] = T[T[c][d].frame]
    PROVE  /\ MappedBy(W, c) = MappedBy(T, c) /\ FramesOf(W, c) = FramesOf(T, c)
           /\ \A v \in MappedBy(T, c) : PteOf(W, c, v) = PteOf(T, c, v)
<1>1. MappedBy(W, c) = MappedBy(T, c)
  <2>1. \A v \in Nat : v \in MappedBy(W, c) <=> v \in MappedBy(T, c)
    BY Mapped
  <2> QED BY <2>1, Mapped
<1>2. FramesOf(W, c) = FramesOf(T, c)
  BY Mapped
<1>3. ASSUME NEW v \in MappedBy(T, c) PROVE PteOf(W, c, v) = PteOf(T, c, v)
  <2>1. v \in Nat /\ v \div ENTRIES \in DOMAIN T[c]
    BY Mapped
  <2>2. PteOf(T, c, v) = T[T[c][v \div ENTRIES].frame][v % ENTRIES]
    BY Mapped
  <2>3. PteOf(W, c, v) = W[W[c][v \div ENTRIES].frame][v % ENTRIES]
    BY <1>1, Mapped
  <2> QED BY <2>1, <2>2, <2>3
<1> QED BY <1>1, <1>2, <1>3

\* vmm_map_page maps one page and changes no other.
PageAdded(T, c, v, f, u, W) ==
    /\ Good(W, c) /\ DOMAIN W = DOMAIN T /\ W[c] = T[c]
    /\ FramesOf(W, c) = FramesOf(T, c)
    /\ MappedBy(W, c) = MappedBy(T, c) \cup {v}
    /\ PteOf(W, c, v) = [frame |-> f, user |-> u]
    /\ \A w \in MappedBy(T, c) \ {v} : PteOf(W, c, w) = PteOf(T, c, w)

LEMMA PutPage ==
    ASSUME NEW T, NEW c, Good(T, c), NEW v \in Nat, v \div ENTRIES \in DOMAIN T[c],
           NEW f \in Nat, NEW u \in BOOLEAN
    PROVE  PageAdded(T, c, v, f, u, WithEntry(T, T[c][v \div ENTRIES].frame, v % ENTRIES, f, u))
<1> DEFINE d == v \div ENTRIES
           t == v % ENTRIES
           g == T[c][d].frame
           W == WithEntry(T, g, t, f, u)
           e == [frame |-> f, user |-> u]
<1>1. IsTables(T) /\ g \in DOMAIN T \ {c} /\ d \in DOMAIN T[c] /\ c \in DOMAIN T
  BY DEF Good
<1>2. t \in 0 .. ENTRIES - 1 /\ d \in Nat /\ v = d * ENTRIES + t
  BY Split
<1> HIDE DEF d, t
<1>3. /\ IsTables(W) /\ DOMAIN W = DOMAIN T
      /\ \A h \in DOMAIN T \ {g} : W[h] = T[h]
      /\ DOMAIN W[g] = DOMAIN T[g] \cup {t} /\ W[g][t] = e
      /\ \A j \in DOMAIN T[g] \ {t} : W[g][j] = T[g][j]
  <2> HIDE DEF g
  <2> QED BY <1>1, <1>2, PutEntry
<1> HIDE DEF W, e
<1>4. W[c] = T[c]
  <2> HIDE DEF g
  <2> QED BY <1>1, <1>3
<1>5. Good(W, c)
  BY <1>1, <1>3, <1>4 DEF Good
<1>6. FramesOf(W, c) = FramesOf(T, c)
  <2>1. FramesOf(W, c) = {W[c][x].frame : x \in DOMAIN W[c]}
    BY <1>5, Mapped
  <2>2. FramesOf(T, c) = {T[c][x].frame : x \in DOMAIN T[c]}
    BY Mapped
  <2> QED BY <2>1, <2>2, <1>4
<1>7. ASSUME NEW w \in Nat
      PROVE  /\ w \in MappedBy(W, c) <=> w \in MappedBy(T, c) \/ w = v
             /\ w \in MappedBy(T, c) /\ w # v => PteOf(W, c, w) = PteOf(T, c, w)
             /\ w = v => PteOf(W, c, w) = e
  <2> DEFINE dw == w \div ENTRIES
             tw == w % ENTRIES
  <2>1. dw \in Nat /\ tw \in 0 .. ENTRIES - 1 /\ w = dw * ENTRIES + tw
    BY Split
  <2>2. w = v => dw = d /\ tw = t
    BY DEF d, t
  <2>3. /\ w \in MappedBy(T, c) <=> dw \in DOMAIN T[c] /\ tw \in DOMAIN T[T[c][dw].frame]
        /\ w \in MappedBy(W, c) <=> dw \in DOMAIN T[c] /\ tw \in DOMAIN W[T[c][dw].frame]
        /\ w \in MappedBy(T, c) => PteOf(T, c, w) = T[T[c][dw].frame][tw]
        /\ w \in MappedBy(W, c) => PteOf(W, c, w) = W[T[c][dw].frame][tw]
    <3>1. /\ Good(T, c) /\ Good(W, c)
          /\ dw = w \div ENTRIES /\ tw = w % ENTRIES
      BY <1>5
    <3> HIDE DEF dw, tw
    <3>2. /\ w \in MappedBy(T, c) <=> dw \in DOMAIN T[c] /\ tw \in DOMAIN T[T[c][dw].frame]
          /\ w \in MappedBy(T, c) => PteOf(T, c, w) = T[T[c][dw].frame][tw]
      BY <3>1, Mapped
    <3>3. /\ w \in MappedBy(W, c) <=> dw \in DOMAIN W[c] /\ tw \in DOMAIN W[W[c][dw].frame]
          /\ w \in MappedBy(W, c) => PteOf(W, c, w) = W[W[c][dw].frame][tw]
      BY <3>1, Mapped
    <3> QED BY <3>2, <3>3, <1>4
  <2> HIDE DEF dw, tw
  <2>4. CASE dw \in DOMAIN T[c] /\ dw = d
    <3>1. T[c][dw].frame = g
      BY <2>4
    <3>2. tw = t <=> w = v
      BY <2>1, <2>2, <2>4, <1>2
    <3> HIDE DEF g
    <3>3. w = v => w \in MappedBy(W, c) /\ PteOf(W, c, w) = e
      BY <2>3, <2>4, <3>1, <3>2, <1>3
    <3>4. w # v => (w \in MappedBy(W, c) <=> w \in MappedBy(T, c))
      BY <2>3, <2>4, <3>1, <3>2, <1>3
    <3>5. w # v /\ w \in MappedBy(T, c) => PteOf(W, c, w) = PteOf(T, c, w)
      BY <2>3, <2>4, <3>1, <3>2, <3>4, <1>3
    <3> QED BY <3>3, <3>4, <3>5
  <2>5. CASE dw \in DOMAIN T[c] /\ dw # d
    <3>1. T[c][dw].frame # g /\ T[c][dw].frame \in DOMAIN T
      BY <2>5, <1>1 DEF Good
    <3>2. W[T[c][dw].frame] = T[T[c][dw].frame]
      <4> HIDE DEF g
      <4> QED BY <3>1, <1>3
    <3> QED BY <2>2, <2>3, <2>5, <3>2
  <2>6. CASE dw \notin DOMAIN T[c]
    <3>1. w # v
      BY <1>1, <2>2, <2>6
    <3> QED BY <2>3, <2>6, <3>1
  <2> QED BY <2>4, <2>5, <2>6
<1>8. MappedBy(W, c) = MappedBy(T, c) \cup {v}
  <2>1. MappedBy(W, c) \subseteq Nat /\ MappedBy(T, c) \subseteq Nat
    BY <1>5, Mapped
  <2> QED BY <1>7, <2>1
<1>9. PteOf(W, c, v) = e /\ \A w \in MappedBy(T, c) \ {v} : PteOf(W, c, w) = PteOf(T, c, w)
  <2>1. MappedBy(T, c) \subseteq Nat
    BY Mapped
  <2> QED BY <1>7, <2>1
<1> QED BY <1>3, <1>4, <1>5, <1>6, <1>8, <1>9 DEF PageAdded, W, e, g, d, t

\* A frame becomes an empty table, which maps nothing.
TableAdded(T, c, g, d, u, W) ==
    /\ Good(W, c) /\ DOMAIN W = DOMAIN T \cup {g}
    /\ DOMAIN W[c] = DOMAIN T[c] \cup {d}
    /\ W[c][d] = [frame |-> g, user |-> u]
    /\ \A x \in DOMAIN T[c] : W[c][x] = T[c][x]
    /\ FramesOf(W, c) = FramesOf(T, c) \cup {g}
    /\ MappedBy(W, c) = MappedBy(T, c)
    /\ \A w \in MappedBy(T, c) : PteOf(W, c, w) = PteOf(T, c, w)

LEMMA PutTable ==
    ASSUME NEW T, NEW c, Good(T, c), NEW g \in Nat, g # c, g \notin FramesOf(T, c),
           NEW d \in 0 .. ENTRIES - 1, d \notin DOMAIN T[c], NEW u \in BOOLEAN
    PROVE  TableAdded(T, c, g, d, u, WithEntry(Put(T, g, <<>>), c, d, g, u))
<1> DEFINE P == Put(T, g, <<>>)
           W == WithEntry(P, c, d, g, u)
           e == [frame |-> g, user |-> u]
<1>1. DOMAIN P = DOMAIN T \cup {g} /\ P[g] = <<>> /\ \A f \in DOMAIN T \ {g} : P[f] = T[f]
  BY DEF Put
<1>2. DOMAIN <<>> = {}
  OBVIOUS
<1>3. IsTables(T) /\ c \in DOMAIN T /\ P[c] = T[c] /\ c \in DOMAIN P
  BY <1>1 DEF Good
<1>4. IsTables(P)
  <2> HIDE DEF P
  <2> SUFFICES ASSUME NEW h \in DOMAIN P
               PROVE  /\ h \in Nat /\ DOMAIN P[h] \subseteq 0 .. ENTRIES - 1
                      /\ \A j \in DOMAIN P[h] : P[h][j] \in [frame : Nat, user : BOOLEAN]
    BY DEF IsTables
  <2>1. CASE h = g
    BY <2>1, <1>1, <1>2
  <2>2. CASE h # g
    BY <2>2, <1>1, <1>3 DEF IsTables
  <2> QED BY <2>1, <2>2
<1> HIDE DEF P
<1>5. /\ IsTables(W) /\ DOMAIN W = DOMAIN P
      /\ \A h \in DOMAIN P \ {c} : W[h] = P[h]
      /\ DOMAIN W[c] = DOMAIN P[c] \cup {d} /\ W[c][d] = e
      /\ \A j \in DOMAIN P[c] \ {d} : W[c][j] = P[c][j]
  BY <1>3, <1>4, PutEntry
<1> HIDE DEF W
<1>6. /\ DOMAIN W = DOMAIN T \cup {g} /\ DOMAIN W[c] = DOMAIN T[c] \cup {d}
      /\ W[c][d] = e /\ \A x \in DOMAIN T[c] : W[c][x] = T[c][x]
  BY <1>1, <1>3, <1>5
<1>7. e.frame = g
  OBVIOUS
<1> HIDE DEF e
<1>8. \A x \in DOMAIN T[c] : T[c][x].frame \in DOMAIN T \ {c, g}
  <2>1. FramesOf(T, c) = {T[c][x].frame : x \in DOMAIN T[c]}
    BY Mapped
  <2> QED BY <2>1 DEF Good
<1>9. W[g] = <<>> /\ \A x \in DOMAIN T[c] : W[T[c][x].frame] = T[T[c][x].frame]
  BY <1>1, <1>5, <1>8
<1>10. Good(W, c)
  <2>1. IsTables(W) /\ c \in DOMAIN W
    BY <1>3, <1>5
  <2>2. \A x \in DOMAIN W[c] : W[c][x].frame \in DOMAIN W \ {c}
    BY <1>6, <1>7, <1>8
  <2>3. \A x, y \in DOMAIN W[c] : W[c][x].frame = W[c][y].frame => x = y
    BY <1>6, <1>7, <1>8 DEF Good
  <2> QED BY <2>1, <2>2, <2>3 DEF Good
<1>11. FramesOf(W, c) = FramesOf(T, c) \cup {g}
  <2>1. FramesOf(W, c) = {W[c][x].frame : x \in DOMAIN W[c]}
    BY <1>10, Mapped
  <2>2. FramesOf(T, c) = {T[c][x].frame : x \in DOMAIN T[c]}
    BY Mapped
  <2> QED BY <2>1, <2>2, <1>6, <1>7
<1>12. ASSUME NEW w \in Nat
       PROVE  /\ w \in MappedBy(W, c) <=> w \in MappedBy(T, c)
              /\ w \in MappedBy(T, c) => PteOf(W, c, w) = PteOf(T, c, w)
  <2> DEFINE dw == w \div ENTRIES
             tw == w % ENTRIES
  <2>1. /\ w \in MappedBy(T, c) <=> dw \in DOMAIN T[c] /\ tw \in DOMAIN T[T[c][dw].frame]
        /\ w \in MappedBy(T, c) => PteOf(T, c, w) = T[T[c][dw].frame][tw]
    BY Mapped
  <2>2. /\ w \in MappedBy(W, c) <=> dw \in DOMAIN W[c] /\ tw \in DOMAIN W[W[c][dw].frame]
        /\ w \in MappedBy(W, c) => PteOf(W, c, w) = W[W[c][dw].frame][tw]
    BY <1>10, Mapped
  <2> HIDE DEF dw, tw
  <2>3. CASE dw \in DOMAIN T[c]
    BY <2>1, <2>2, <2>3, <1>6, <1>9
  <2>4. CASE dw = d
    BY <2>1, <2>2, <2>4, <1>2, <1>6, <1>7, <1>9
  <2>5. CASE dw # d /\ dw \notin DOMAIN T[c]
    BY <2>1, <2>2, <2>5, <1>6
  <2> QED BY <2>3, <2>4, <2>5
<1>13. MappedBy(W, c) = MappedBy(T, c) /\ \A w \in MappedBy(T, c) : PteOf(W, c, w) = PteOf(T, c, w)
  <2>1. MappedBy(W, c) \subseteq Nat /\ MappedBy(T, c) \subseteq Nat
    BY <1>10, Mapped
  <2> QED BY <1>12, <2>1
<1> QED BY <1>6, <1>10, <1>11, <1>13 DEF TableAdded, W, e, P

\* Tables that map what T maps.
SameTables(T, c, W) ==
    /\ Good(W, c) /\ FramesOf(W, c) = FramesOf(T, c)
    /\ MappedBy(W, c) = MappedBy(T, c)
    /\ \A w \in MappedBy(T, c) : PteOf(W, c, w) = PteOf(T, c, w)

\* Frames that hold no table may be written.
LEMMA DropFrames ==
    ASSUME NEW T, NEW c, Good(T, c), NEW S, c \notin S, FramesOf(T, c) \cap S = {}
    PROVE  SameTables(T, c, Without(T, S)) /\ Without(T, S)[c] = T[c]
<1> DEFINE W == Without(T, S)
<1>1. DOMAIN W = DOMAIN T \ S /\ \A f \in DOMAIN T \ S : W[f] = T[f]
  BY DEF Without
<1> HIDE DEF W
<1>2. FramesOf(T, c) = {T[c][d].frame : d \in DOMAIN T[c]}
  BY Mapped
<1>3. c \in DOMAIN W /\ W[c] = T[c]
  BY <1>1 DEF Good
<1>4. \A d \in DOMAIN T[c] : T[c][d].frame \in DOMAIN W \ {c} /\ W[T[c][d].frame] = T[T[c][d].frame]
  BY <1>1, <1>2 DEF Good
<1>5. IsTables(W)
  BY <1>1 DEF Good, IsTables
<1>6. Good(W, c)
  BY <1>3, <1>4, <1>5 DEF Good
<1>7. /\ MappedBy(W, c) = MappedBy(T, c) /\ FramesOf(W, c) = FramesOf(T, c)
      /\ \A v \in MappedBy(T, c) : PteOf(W, c, v) = PteOf(T, c, v)
  BY <1>3, <1>4, <1>6, SameMapping
<1> QED BY <1>1, <1>3, <1>6, <1>7 DEF SameTables, W

\* PAGE_USER in the directory concerns no frame.
LEMMA PutUser ==
    ASSUME NEW T, NEW c, Good(T, c), NEW k \in DOMAIN T[c]
    PROVE  LET W == WithEntry(T, c, k, T[c][k].frame, TRUE)
           IN  /\ SameTables(T, c, W) /\ DOMAIN W[c] = DOMAIN T[c] /\ W[c][k].user
               /\ \A x \in DOMAIN T[c] \ {k} : W[c][x] = T[c][x]
<1> DEFINE g == T[c][k].frame
           u == TRUE
           W == WithEntry(T, c, k, g, u)
<1>1. IsTables(T) /\ c \in DOMAIN T /\ k \in 0 .. ENTRIES - 1 /\ g \in Nat /\ u \in BOOLEAN
  BY DEF Good, IsTables
<1>2. /\ IsTables(W) /\ DOMAIN W = DOMAIN T
      /\ \A h \in DOMAIN T \ {c} : W[h] = T[h]
      /\ DOMAIN W[c] = DOMAIN T[c] \cup {k}
      /\ W[c][k] = [frame |-> g, user |-> u]
      /\ \A j \in DOMAIN T[c] \ {k} : W[c][j] = T[c][j]
  <2> HIDE DEF g, u
  <2> QED BY <1>1, PutEntry
<1> HIDE DEF W
<1>3. /\ DOMAIN W[c] = DOMAIN T[c] /\ W[c][k].user
      /\ \A x \in DOMAIN T[c] : W[c][x].frame = T[c][x].frame
  BY <1>2
<1>4. Good(W, c)
  BY <1>1, <1>2, <1>3 DEF Good
<1>5. \A d \in DOMAIN T[c] : W[T[c][d].frame] = T[T[c][d].frame]
  BY <1>2 DEF Good
<1>6. /\ MappedBy(W, c) = MappedBy(T, c) /\ FramesOf(W, c) = FramesOf(T, c)
      /\ \A v \in MappedBy(T, c) : PteOf(W, c, v) = PteOf(T, c, v)
  BY <1>3, <1>4, <1>5, SameMapping
<1> QED BY <1>2, <1>3, <1>4, <1>6 DEF SameTables, W, g, u

\* What FillIdentity writes into table d, and which tables it leaves alone.
IdentityTable(d) == [t \in 0 .. ENTRIES - 1 |-> [frame |-> d * ENTRIES + t, user |-> FALSE]]
Served(T, c, f)  == {d \in 0 .. IDENTITY_TABLES - 1 : T[c][d].frame = f}

Fill(T, c) ==
    [f \in DOMAIN T |-> IF Served(T, c, f) = {} THEN T[f]
                        ELSE IdentityTable(CHOOSE d \in Served(T, c, f) : TRUE)]

IsFilled(T, c, W) ==
    /\ DOMAIN W = DOMAIN T
    /\ \A d \in 0 .. IDENTITY_TABLES - 1 : W[T[c][d].frame] = IdentityTable(d)
    /\ \A f \in DOMAIN T :
          (\A d \in 0 .. IDENTITY_TABLES - 1 : T[c][d].frame # f) => W[f] = T[f]

LEMMA TablesFilled ==
    ASSUME NEW T, NEW c, Good(T, c), 0 .. IDENTITY_TABLES - 1 \subseteq DOMAIN T[c]
    PROVE  IsFilled(T, c, Fill(T, c))
<1> DEFINE W == Fill(T, c)
<1>1. DOMAIN W = DOMAIN T
  BY DEF Fill
<1>2. \A f \in DOMAIN T : W[f] = IF Served(T, c, f) = {} THEN T[f]
                                 ELSE IdentityTable(CHOOSE d \in Served(T, c, f) : TRUE)
  BY DEF Fill
<1> HIDE DEF W
<1>3. ASSUME NEW d \in 0 .. IDENTITY_TABLES - 1 PROVE W[T[c][d].frame] = IdentityTable(d)
  <2>1. T[c][d].frame \in DOMAIN T /\ Served(T, c, T[c][d].frame) = {d}
    BY DEF Good, Served
  <2>2. (CHOOSE x \in {d} : TRUE) = d
    OBVIOUS
  <2> QED BY <2>1, <2>2, <1>2
<1>4. \A f \in DOMAIN T : (\A d \in 0 .. IDENTITY_TABLES - 1 : T[c][d].frame # f) => W[f] = T[f]
  BY <1>2 DEF Served
<1> QED BY <1>1, <1>3, <1>4 DEF IsFilled, W

\* The identity map's tables map each page to itself, and the rest stay empty.
LEMMA FillTables ==
    ASSUME NEW T, NEW c, Good(T, c), 0 .. IDENTITY_TABLES - 1 \subseteq DOMAIN T[c],
           MappedBy(T, c) = {},
           NEW W, IsFilled(T, c, W)
    PROVE  /\ Good(W, c) /\ W[c] = T[c]
           /\ FramesOf(W, c) = FramesOf(T, c)
           /\ MappedBy(W, c) = IdentityPages
           /\ \A v \in IdentityPages : PteOf(W, c, v) = [frame |-> v, user |-> FALSE]
<1>1. /\ DOMAIN W = DOMAIN T
      /\ \A d \in 0 .. IDENTITY_TABLES - 1 : W[T[c][d].frame] = IdentityTable(d)
      /\ \A f \in DOMAIN T :
            (\A d \in 0 .. IDENTITY_TABLES - 1 : T[c][d].frame # f) => W[f] = T[f]
  BY DEF IsFilled
<1>5. \A d \in 0 .. IDENTITY_TABLES - 1 :
          /\ DOMAIN IdentityTable(d) = 0 .. ENTRIES - 1
          /\ \A t \in 0 .. ENTRIES - 1 :
                /\ IdentityTable(d)[t] = [frame |-> d * ENTRIES + t, user |-> FALSE]
                /\ IdentityTable(d)[t] \in [frame : Nat, user : BOOLEAN]
  <2>1. ASSUME NEW d \in 0 .. IDENTITY_TABLES - 1, NEW t \in 0 .. ENTRIES - 1
        PROVE  d * ENTRIES + t \in Nat
    BY DEF ENTRIES, IDENTITY_TABLES
  <2> QED BY <2>1 DEF IdentityTable
<1>7. W[c] = T[c] /\ c \in DOMAIN W
  BY <1>1 DEF Good
<1>8. ASSUME NEW f \in DOMAIN W
      PROVE  W[f] = T[f] \/ \E d \in 0 .. IDENTITY_TABLES - 1 : f = T[c][d].frame /\ W[f] = IdentityTable(d)
  BY <1>1
<1>9. IsTables(W)
  <2> SUFFICES ASSUME NEW h \in DOMAIN W
               PROVE  /\ h \in Nat /\ DOMAIN W[h] \subseteq 0 .. ENTRIES - 1
                      /\ \A j \in DOMAIN W[h] : W[h][j] \in [frame : Nat, user : BOOLEAN]
    BY DEF IsTables
  <2>1. IsTables(T)
    BY DEF Good
  <2>2. CASE W[h] = T[h]
    BY <2>1, <1>1, <2>2 DEF IsTables
  <2>3. CASE \E d \in 0 .. IDENTITY_TABLES - 1 : W[h] = IdentityTable(d)
    BY <2>1, <2>3, <1>1, <1>5 DEF IsTables
  <2> QED BY <1>8, <2>2, <2>3
<1>10. Good(W, c)
  <2>1. \A d \in DOMAIN W[c] : W[c][d].frame \in DOMAIN W \ {c}
    BY <1>1, <1>7 DEF Good
  <2>2. \A d, e \in DOMAIN W[c] : W[c][d].frame = W[c][e].frame => d = e
    BY <1>1, <1>7 DEF Good
  <2> QED BY <1>7, <1>9, <2>1, <2>2 DEF Good
<1>11. FramesOf(W, c) = FramesOf(T, c)
  <2>1. FramesOf(W, c) = {W[c][x].frame : x \in DOMAIN W[c]}
    BY <1>10, Mapped
  <2>2. FramesOf(T, c) = {T[c][x].frame : x \in DOMAIN T[c]}
    BY Mapped
  <2> QED BY <2>1, <2>2, <1>7
<1>12. \A d \in DOMAIN T[c] : DOMAIN T[T[c][d].frame] = {}
  <2> SUFFICES ASSUME NEW d \in DOMAIN T[c], NEW t \in DOMAIN T[T[c][d].frame] PROVE FALSE
    OBVIOUS
  <2>1. d \in Nat /\ t \in 0 .. ENTRIES - 1
    BY DEF Good, IsTables
  <2> DEFINE v == d * ENTRIES + t
  <2>2. v \in Nat /\ v \div ENTRIES = d /\ v % ENTRIES = t
    BY <2>1, Join
  <2> HIDE DEF v
  <2>3. v \in MappedBy(T, c)
    BY <2>2, Mapped
  <2> QED BY <2>3
<1>13. ASSUME NEW v \in Nat
       PROVE  /\ v \in MappedBy(W, c) <=> v \in IdentityPages
              /\ v \in IdentityPages => PteOf(W, c, v) = [frame |-> v, user |-> FALSE]
  <2> DEFINE d == v \div ENTRIES
             t == v % ENTRIES
  <2>1. d \in Nat /\ t \in 0 .. ENTRIES - 1 /\ v = d * ENTRIES + t
    BY Split
  <2>2. v \in IdentityPages <=> d \in 0 .. IDENTITY_TABLES - 1
    BY IdentityEntries
  <2>3. /\ v \in MappedBy(W, c) <=> d \in DOMAIN W[c] /\ t \in DOMAIN W[W[c][d].frame]
        /\ v \in MappedBy(W, c) => PteOf(W, c, v) = W[W[c][d].frame][t]
    BY <1>10, Mapped DEF d, t
  <2> HIDE DEF d, t
  <2>4. CASE d \in 0 .. IDENTITY_TABLES - 1
    <3>1. d \in DOMAIN W[c] /\ W[W[c][d].frame] = IdentityTable(d)
      BY <1>1, <2>4, <1>7
    <3> QED BY <2>1, <2>2, <2>3, <2>4, <3>1, <1>5
  <2>5. CASE d \notin 0 .. IDENTITY_TABLES - 1
    <3>1. d \in DOMAIN T[c] => W[T[c][d].frame] = T[T[c][d].frame]
      <4> SUFFICES ASSUME d \in DOMAIN T[c] PROVE W[T[c][d].frame] = T[T[c][d].frame]
        OBVIOUS
      <4>1. \A x \in 0 .. IDENTITY_TABLES - 1 : T[c][x].frame # T[c][d].frame
        BY <2>5 DEF Good
      <4> QED BY <4>1, <1>1 DEF Good
    <3> QED BY <2>2, <2>3, <2>5, <3>1, <1>7, <1>12
  <2> QED BY <2>4, <2>5
<1>14. MappedBy(W, c) = IdentityPages
  <2>1. MappedBy(W, c) \subseteq Nat
    BY <1>10, Mapped
  <2>2. IdentityPages \subseteq Nat
    BY DEF IdentityPages
  <2> QED BY <1>13, <2>1, <2>2
<1>15. IdentityPages \subseteq Nat
  BY DEF IdentityPages
<1> QED BY <1>7, <1>10, <1>11, <1>13, <1>14, <1>15

-----------------------------------------------------------------------------
(* What an ordinary machine's memory looks like.                           *)

LEMMA Types ==
    ASSUME TypeOK
    PROVE  /\ memory_size \in Nat /\ fb[1] \in Nat /\ fb[2] \in Nat \ {0} /\ mmap \subseteq Entry
           /\ size \in Nat \ {0} /\ size <= HEAP_SIZE - HEADER_SIZE
           /\ link \in Link /\ KernelEnd \in Nat
           /\ free \subseteq Nat /\ i \in Nat /\ current_dir \in Nat
           /\ IsTables(tables) /\ paging \in BOOLEAN
<1>1. PICK b \in Boots : b = [mmap |-> mmap, memory_size |-> memory_size, fb |-> fb, link |-> link, size |-> size]
  BY DEF TypeOK
<1>2. b.mmap = mmap /\ b.memory_size = memory_size /\ b.fb = fb /\ b.link = link /\ b.size = size
  BY <1>1
<1>3. /\ memory_size \in Nat /\ mmap \subseteq Entry /\ link \in Link
      /\ fb \in Nat \X (Nat \ {0}) /\ size \in 1 .. HEAP_SIZE - HEADER_SIZE
  BY <1>2, BootsAssumption DEF Boot
<1>4. KernelEnd \in Nat
  BY <1>3 DEF KernelEnd, Link
<1>5. IsTables(tables)
  BY DEF TypeOK, IsTables
<1>6. size \in Nat \ {0} /\ size <= HEAP_SIZE - HEADER_SIZE
  <2>1. HEAP_SIZE - HEADER_SIZE = 1048564
    BY SMT DEF HEAP_SIZE, HEADER_SIZE
  <2> QED BY SMT, <1>3, <2>1
<1> QED BY <1>3, <1>4, <1>5, <1>6 DEF TypeOK

\* Roundings.
LEMMA BitmapBytes ==
    ASSUME NEW m \in Nat, m >= 1024, m <= 1048576
    PROVE  m \div 8 \in Nat /\ m \div 8 >= 128 /\ m \div 8 <= 131072 /\ (m \div 8) * 8 >= 1024
OBVIOUS

LEMMA BitmapEnd ==
    ASSUME NEW b \in Nat, b >= 128, b <= 131072
    PROVE  LET f == (1077248 + b + 4096 - 1) \div 4096 IN f \in Nat /\ f >= 264 /\ f <= 295
BY SMT

LEMMA ImageEnd ==
    ASSUME NEW k \in Nat, k > 1048576
    PROVE  LET f == (1048576 + (k - 1048576) + 4096 - 1) \div 4096
           IN  f \in Nat /\ f >= 257 /\ f = (k + 4096 - 1) \div 4096
BY SMT

LEMMA EndsInOrder ==
    ASSUME NEW j \in Nat, NEW k \in Nat, j <= k
    PROVE  (j + 4096 - 1) \div 4096 <= (k + 4096 - 1) \div 4096
BY SMT

LEMMA Edges ==
    /\ 1048576 \div 4096 = 256 /\ 1077248 \div 4096 = 263
    /\ (0 + 1077248 + 4096 - 1) \div 4096 - 1 = 262 /\ 0 \div 4096 = 0
    /\ (1077248 + 4096 + 4096 - 1) \div 4096 - 1 = 263
    /\ (512 * 4096) \div 4096 = 512 /\ (512 * 4096 + 1048576 + 4096 - 1) \div 4096 - 1 = 767
BY SMT

LEMMA ProgramRounding ==
    ASSUME NEW s \in Nat, s >= 1, s <= 1048564
    PROVE  /\ (s + 4096 - 1) \div 4096 \in Nat
           /\ (s + 4096 - 1) \div 4096 >= 1 /\ (s + 4096 - 1) \div 4096 <= 256
           /\ (12 + (s - 1)) \div 4096 \in Nat /\ (12 + (s - 1)) \div 4096 <= 255
           /\ (12 + 0) \div 4096 = 0
BY SMT

LEMMA BitmapSize ==
    ASSUME Ordinary, TypeOK
    PROVE  /\ BITMAP_SIZE \in Nat /\ BITMAP_SIZE >= 128 /\ BITMAP_SIZE <= 131072
           /\ BITMAP_SIZE * 8 >= 1024
<1> DEFINE m == memory_size \div 4096
<1>1. memory_size \in Nat
  BY Types
<1>2. m \in Nat
  BY <1>1
<1>3. 1024 * 1024 = 1048576
  BY SMT
<1>4. m >= USER_CODE_BASE /\ m <= ENTRIES * ENTRIES
  BY SMT, <1>1 DEF Ordinary, PAGE_SIZE
<1>5. m >= 1024 /\ m <= 1024 * 1024 /\ BITMAP_SIZE = m \div 8
  BY SMT, <1>4 DEF BITMAP_SIZE, PAGE_SIZE, USER_CODE_BASE, ENTRIES
<1> HIDE DEF m
<1>6. m >= 1024 /\ m <= 1048576
  BY SMT, <1>2, <1>3, <1>5
<1> QED BY SMT, <1>2, <1>5, <1>6, BitmapBytes

LEMMA Bounds ==
    ASSUME Ordinary, TypeOK
    PROVE  /\ FirstFree \in Nat /\ FirstFree >= 264 /\ FirstFree <= 471
           /\ \A f \in KernelFrames \cup BitmapFrames : f \in Nat /\ 256 <= f /\ f < FirstFree
           /\ \A f \in Nat : f >= 264 /\ f < FirstFree => f \in KernelFrames \cup BitmapFrames
           /\ \A f : f \in ReservedBy(BITMAP_ADDR, PAGE_SIZE) <=> f = 263
           /\ \A f : f \in ReservedBy(0, BITMAP_ADDR) <=> f \in Nat /\ f < 263
<1> DEFINE b == 1077248 + BITMAP_SIZE
           Up(x) == (x + 4096 - 1) \div 4096
<1>1. b \in Nat /\ b >= 1077248 /\ BITMAP_SIZE \in Nat
  BY BitmapSize
<1>2. KernelEnd \in Nat /\ KernelEnd > 1048576
  BY SMT, Types DEF Link, KernelEnd, KernelStart, PAGE_SIZE
<1>3. FirstFree = IF KernelEnd < b THEN Up(b) ELSE Up(KernelEnd)
  BY DEF FirstFree, BITMAP_ADDR, PAGE_SIZE
<1>4. Up(b) \in Nat /\ Up(b) >= 264
  <2>1. BITMAP_SIZE >= 128 /\ BITMAP_SIZE <= 131072
    BY BitmapSize
  <2> QED BY <1>1, <2>1, BitmapEnd
<1>5. BitmapFrames = 263 .. Up(b) - 1
  BY SMT, Edges DEF BitmapFrames, ReservedBy, BITMAP_ADDR, PAGE_SIZE
<1>6. KernelFrames = 256 .. Up(KernelEnd) - 1 /\ Up(KernelEnd) \in Nat
  <2>1. KernelFrames = 1048576 \div 4096 .. (1048576 + (KernelEnd - 1048576) + 4096 - 1) \div 4096 - 1
    BY DEF KernelFrames, ReservedBy, PAGE_SIZE, KernelStart
  <2> QED BY <1>2, <2>1, ImageEnd, Edges
<1>7. /\ KernelEnd < b => Up(KernelEnd) <= Up(b)
      /\ b <= KernelEnd => Up(b) <= Up(KernelEnd)
  BY <1>1, <1>2, EndsInOrder
<1>9. /\ \A f : f \in ReservedBy(BITMAP_ADDR, PAGE_SIZE) <=> f = 263
      /\ \A f : f \in ReservedBy(0, BITMAP_ADDR) <=> f \in Nat /\ f < 263
  BY SMT, Edges DEF ReservedBy, BITMAP_ADDR, PAGE_SIZE
<1> HIDE DEF b, Up
<1>10. FirstFree \in Nat /\ FirstFree >= Up(b) /\ FirstFree >= Up(KernelEnd)
       /\ (FirstFree = Up(b) \/ FirstFree = Up(KernelEnd))
  BY <1>1, <1>2, <1>3, <1>4, <1>6, <1>7
<1>11. FirstFree <= 471
  BY <1>10 DEF Ordinary, HEAP
<1> QED BY <1>4, <1>5, <1>6, <1>9, <1>10, <1>11

LEMMA HeapBounds ==
    ASSUME Ordinary, TypeOK
    PROVE  /\ \A f : f \in HeapFrames <=> f \in Nat /\ 512 <= f /\ f < 768
           /\ Pages \in Nat /\ Pages >= 1 /\ Pages <= 256
           /\ ProgramPages \subseteq HeapFrames
           /\ \A v \in HeaderPages : v \in Nat /\ 512 <= v /\ v <= 768
           /\ Overwritten = {}
<1>1. size \in Nat /\ size >= 1 /\ size <= 1048564
  BY SMT, Types DEF HEAP_SIZE, HEADER_SIZE
<1>2. \A f : f \in HeapFrames <=> f \in Nat /\ 512 <= f /\ f < 768
  BY SMT, Edges DEF HeapFrames, ReservedBy, HEAP, HEAP_SIZE, PAGE_SIZE
<1>3. /\ Pages = (size + 4096 - 1) \div 4096
      /\ HeapPages(0, size - 1) = 512 + (12 + 0) \div 4096 .. 512 + (12 + (size - 1)) \div 4096
  BY DEF Pages, PAGE_SIZE, HeapPages, HEAP, HEADER_SIZE
<1>4. Pages \in Nat /\ Pages >= 1 /\ Pages <= 256
  BY SMT, <1>1, <1>3, ProgramRounding
<1>5. HeapPages(0, size - 1) \subseteq HeapFrames
  <2> DEFINE l == (12 + (size - 1)) \div 4096
  <2>1. l \in Nat /\ l <= 255 /\ (12 + 0) \div 4096 = 0
    BY <1>1, ProgramRounding
  <2>2. HeapPages(0, size - 1) = 512 + (12 + 0) \div 4096 .. 512 + l
    BY <1>3
  <2> HIDE DEF l
  <2> QED BY <2>1, <2>2, <1>2
<1>6. Overwritten = {}
  BY <1>1, Types, NothingOverwritten DEF Ordinary
<1>7. ASSUME NEW v \in HeaderPages PROVE v \in Nat /\ 512 <= v /\ v <= 768
  <2>1. v \in 512 + (12 + size) \div 4096 .. 512 + (12 + (size + 12 - 1)) \div 4096
    BY DEF HeaderPages, HeapPages, HEAP, HEADER_SIZE, PAGE_SIZE
  <2> DEFINE a == (12 + size) \div 4096
             l == (12 + (size + 12 - 1)) \div 4096
  <2>2. a \in Nat /\ l \in Nat /\ l <= 256
    BY SMT, <1>1
  <2>3. v \in 512 + a .. 512 + l
    BY <2>1
  <2> HIDE DEF a, l
  <2> QED BY <2>2, <2>3
<1> QED BY <1>2, <1>4, <1>5, <1>6, <1>7 DEF ProgramPages

\* pmm_alloc returns the lowest of the frames below 4 MB that are left.
LEMMA Alloc ==
    ASSUME Ordinary, TypeOK, NEW S, S \subseteq Nat, NEW p \in S, p < USER_CODE_BASE,
           \A g \in S : g < USER_CODE_BASE => p <= g
    PROVE  pmm_alloc(S) = {p}
<1>1. BITMAP_SIZE * 8 >= 1024 /\ BITMAP_SIZE \in Nat
  BY BitmapSize
<1>2. \A g \in S : p <= g
  BY DEF USER_CODE_BASE
<1>3. p < BITMAP_SIZE * 8 /\ p \in Nat
  BY <1>1 DEF USER_CODE_BASE
<1>4. ASSUME NEW f \in S, \A g \in S : f <= g PROVE f = p
  <2>1. f \in Nat /\ f <= p /\ p <= f
    BY <1>2, <1>4
  <2> QED BY <2>1, <1>3
<1> QED BY <1>2, <1>3, <1>4 DEF pmm_alloc

\* So it gives them away in order.
LEMMA AllocLow ==
    ASSUME Ordinary, TypeOK, NEW n \in Nat, n < 500, Allocated(n)
    PROVE  \E p \in FirstFree .. FirstFree + n :
              /\ pmm_alloc(free) = {p} /\ p \in free /\ p < USER_CODE_BASE
              /\ LowFree = p .. USER_CODE_BASE - 1
              /\ (free \ {p}) \cap 0 .. USER_CODE_BASE - 1 = p + 1 .. USER_CODE_BASE - 1
<1>1. PICK p \in FirstFree .. FirstFree + n : LowFree = p .. USER_CODE_BASE - 1
  BY DEF Allocated
<1>2. FirstFree \in Nat /\ FirstFree >= 264 /\ FirstFree <= 471 /\ free \subseteq Nat
  BY Bounds, Types
<1>3. p \in Nat /\ p < 1000 /\ p >= 264
  BY <1>2
<1>4. p \in free /\ p < USER_CODE_BASE /\ \A g \in free : g < USER_CODE_BASE => p <= g
  BY <1>1, <1>2, <1>3, Numbers DEF LowFree
<1>5. pmm_alloc(free) = {p}
  BY <1>2, <1>4, Alloc
<1>6. (free \ {p}) \cap 0 .. USER_CODE_BASE - 1 = p + 1 .. USER_CODE_BASE - 1
  BY <1>1, <1>3, Numbers DEF LowFree
<1> QED BY <1>1, <1>4, <1>5, <1>6

\* The directory and the tables lie below the heap, where paging leaves them.
LEMMA InDir ==
    ASSUME Ordinary, Layout, HasDir
    PROVE  /\ Good(tables, current_dir) /\ Dir = tables[current_dir]
           /\ current_dir \in VmmFrames
           /\ FramesOf(tables, current_dir) \subseteq VmmFrames \ {current_dir}
           /\ \A d \in DOMAIN Dir : Dir[d].frame \in FramesOf(tables, current_dir)
<1>1. IsTables(tables)
  BY Types DEF Layout
<1>2. current_dir \in VmmFrames \cap DOMAIN tables
  BY DEF Layout, TablesOK
<1>3. Dir = tables[current_dir]
  BY <1>2 DEF Dir, Table
<1>4. TableFrames \subseteq (VmmFrames \cap DOMAIN tables) \ {current_dir}
  BY DEF Layout, TablesOK
<1>5. \A d, e \in DOMAIN Dir : Dir[d].frame = Dir[e].frame => d = e
  BY DEF Layout, TablesOK
<1>6. \A d \in DOMAIN Dir : Dir[d].frame \in TableFrames
  BY DEF TableFrames
<1>7. Good(tables, current_dir)
  BY <1>1, <1>2, <1>3, <1>4, <1>5, <1>6 DEF Good
<1> QED BY <1>2, <1>3, <1>4, <1>6, <1>7, Views

\* An access below 4 MB reaches the frame of the same number.
LEMMA ReachedLow ==
    ASSUME Ordinary, Layout, NEW v \in Nat, v < 1024
    PROVE  Reached(v) = v
<1>1. CASE ~ paging
  BY <1>1 DEF Reached
<1>2. CASE paging
  <2>1. Filled
    BY <1>2 DEF Layout, CounterOK, Filled, HasDir, PmmReady
  <2>2. v \in IdentityPages
    BY IdentityRange
  <2>3. \A w \in CodePages : w >= 1024
    BY Numbers DEF CodePages
  <2>4. v \notin CodePages
    BY <2>3
  <2>5. Pte(v) = [frame |-> v, user |-> FALSE]
    BY <2>1, <2>2, <2>4 DEF Layout, PagesOK
  <2> QED BY <1>2, <2>5 DEF Reached
<1> QED BY <1>1, <1>2

LEMMA TypeNext ==
    ASSUME TypeOK, UNCHANGED <<mmap, memory_size, link, fb, size>>, free' \subseteq Nat, i' \in Nat,
           pc' \in {"pmm_init", "regions", "reserve", "dir", "tables", "identity", "fb", "stack",
                    "enable", "heap", "read", "load", "user_bit"} \cup Ended,
           current_dir' \in Nat, paging' \in BOOLEAN, IsTables(tables'),
           DOMAIN data' \subseteq Nat, \A f \in DOMAIN data' : data'[f] \in Int
    PROVE  TypeOK'
BY DEF TypeOK, IsTables

\* What a step does not change.
LEMMA Fixed ==
    ASSUME UNCHANGED <<mmap, memory_size, link, fb, size>>
    PROVE  /\ Ordinary' <=> Ordinary
           /\ FirstFree' = FirstFree /\ Pages' = Pages
           /\ KernelFrames' = KernelFrames /\ BitmapFrames' = BitmapFrames
           /\ ProgramPages' = ProgramPages
<1>1. KernelEnd' = KernelEnd /\ BITMAP_SIZE' = BITMAP_SIZE
  BY DEF KernelEnd, BITMAP_SIZE
<1>2. FirstFree' = FirstFree
  BY <1>1 DEF FirstFree
<1>3. Ordinary' <=> Ordinary
  BY <1>2 DEF Ordinary
<1> QED BY <1>1, <1>2, <1>3 DEF Pages, KernelFrames, BitmapFrames, ProgramPages, HeapPages

-----------------------------------------------------------------------------
(* Each step keeps the layout.                                             *)

\* Before the page directory there is nothing but the bitmap.
LEMMA EarlyLayout ==
    ASSUME Ordinary, Layout, pc \in {"pmm_init", "regions", "reserve"},
           pc' \in {"regions", "reserve", "dir"}, free' \subseteq Nat,
           UNCHANGED <<mmap, memory_size, link, i, fb, size, tables, data, current_dir, paging>>,
           FreeOK'
    PROVE  Layout'
<1>1. ~ HasDir /\ ~ HasDir' /\ ~ Filled' /\ pc' \notin {"done", "load", "tables", "identity"}
  BY DEF HasDir, PmmReady, Filled
<1>2. tables = <<>> /\ current_dir = 0 /\ ~ paging /\ i \in Nat /\ i < 1
  BY <1>1, Types DEF Layout, TablesOK, CounterOK
<1>3. TypeOK'
  BY DEF Layout, TypeOK, Ended
<1>4. CounterOK'
  BY <1>2 DEF CounterOK
<1>5. TablesOK'
  <2>1. Dir' = Dir /\ tables' = <<>> /\ current_dir' = 0
    BY <1>2 DEF Dir, Table
  <2> QED BY <1>1, <2>1 DEF Layout, TablesOK
<1>6. PagesOK' /\ DataOK'
  BY <1>1 DEF PagesOK, DataOK
<1> QED BY <1>3, <1>4, <1>5, <1>6 DEF Layout

LEMMA SetAllBitsStep == ASSUME Ordinary, Layout, SetAllBits PROVE Layout'
<1>1. free' = {} /\ pc' = "regions" /\ pc = "pmm_init"
  BY DEF SetAllBits, set_all_bits
<1>2. FreeOK'
  BY <1>1 DEF FreeOK
<1> QED BY <1>1, <1>2, EarlyLayout DEF SetAllBits

LEMMA FreeUsableStep == ASSUME Ordinary, Layout, FreeUsable PROVE Layout'
<1>1. /\ pc = "regions" /\ pc' = "reserve"
      /\ free' = UNION {FreedBy(e) : e \in {e \in mmap : e.type = 1}}
  BY DEF FreeUsable, free_usable
<1>2. mmap \subseteq Entry
  BY Types DEF Layout
<1>3. ASSUME NEW f \in free' PROVE f \in Nat
  <2>1. PICK e \in mmap : f \in FreedBy(e)
    BY <1>1
  <2>2. e.base_low \in Nat
    BY <1>2 DEF Entry
  <2> QED BY <2>1, <2>2 DEF FreedBy, PAGE_SIZE
<1>4. PICK e \in mmap : /\ e.type = 1
                        /\ e.base_low <= KernelStart
                        /\ USER_CODE_BASE * PAGE_SIZE <= e.base_low + e.length_low
  BY DEF Ordinary
<1>5. \A x \in Nat : x >= 256 /\ x <= 1023 => x \in FreedBy(e)
  <2> DEFINE a == e.base_low \div 4096
             b == (e.base_low + e.length_low) \div 4096
  <2>1. e.base_low \in Nat /\ e.length_low \in Nat
    BY <1>2 DEF Entry
  <2>2. e.base_low \div 4096 <= 256 /\ (e.base_low + e.length_low) \div 4096 >= 1024
    BY SMT, <1>4, <2>1 DEF KernelStart, USER_CODE_BASE, PAGE_SIZE
  <2>3. a \in Nat /\ a <= 256 /\ b \in Nat /\ b >= 1024
    BY <2>1, <2>2
  <2>4. FreedBy(e) = a .. b - 1
    BY DEF FreedBy, PAGE_SIZE
  <2> HIDE DEF a, b
  <2> QED BY <2>3, <2>4
<1>6. KernelStart \div PAGE_SIZE .. USER_CODE_BASE - 1 \subseteq free'
  <2>1. KernelStart \div PAGE_SIZE = 256
    BY Edges DEF KernelStart, PAGE_SIZE
  <2>2. \A x \in Nat : x >= 256 /\ x <= 1023 => x \in free'
    BY <1>1, <1>4, <1>5
  <2> QED BY <2>1, <2>2, Numbers
<1>7. FreeOK'
  BY <1>1, <1>6 DEF FreeOK
<1> QED BY <1>1, <1>3, <1>7, EarlyLayout DEF FreeUsable

LEMMA ReserveKernelStep == ASSUME Ordinary, Layout, ReserveKernel PROVE Layout'
<1> DEFINE R == ReservedBy(BITMAP_ADDR, PAGE_SIZE) \cup ReservedBy(0, BITMAP_ADDR)
                \cup (BitmapFrames \cup KernelFrames)
<1>1. /\ pc = "reserve" /\ pc' = "dir" /\ free' = free \ R
      /\ UNCHANGED <<mmap, memory_size, link, fb, size>>
  BY DEF ReserveKernel, reserve_kernel, BitmapFrames, KernelFrames
<1>2. /\ FirstFree \in Nat /\ FirstFree >= 264 /\ FirstFree <= 471
      /\ \A f \in KernelFrames \cup BitmapFrames : f \in Nat /\ 256 <= f /\ f < FirstFree
      /\ \A f \in Nat : f >= 264 /\ f < FirstFree => f \in KernelFrames \cup BitmapFrames
      /\ \A f : f \in ReservedBy(BITMAP_ADDR, PAGE_SIZE) <=> f = 263
      /\ \A f : f \in ReservedBy(0, BITMAP_ADDR) <=> f \in Nat /\ f < 263
  BY Bounds DEF Layout
<1>3. free \subseteq Nat /\ \A x \in Nat : x >= 256 /\ x <= 1023 => x \in free
  <2>1. KernelStart \div PAGE_SIZE = 256
    BY Edges DEF KernelStart, PAGE_SIZE
  <2>2. KernelStart \div PAGE_SIZE .. USER_CODE_BASE - 1 \subseteq free
    BY <1>1 DEF Layout, FreeOK
  <2>3. \A x \in Nat : x >= 256 /\ x <= 1023 => x \in free
    BY <2>1, <2>2, Numbers
  <2> QED BY <2>3, Types DEF Layout
<1>4. \A x : x \in R <=> x \in Nat /\ x < FirstFree
  <2>1. ASSUME NEW x \in Nat, x < FirstFree PROVE x \in R
    BY <1>2, <2>1
  <2>2. ASSUME NEW x \in R PROVE x \in Nat /\ x < FirstFree
    BY <1>2, <2>2
  <2> HIDE DEF R
  <2> QED BY <2>1, <2>2
<1> HIDE DEF R
<1>5. LowFree' = free' \cap 0 .. USER_CODE_BASE - 1 /\ free' \subseteq Nat
  BY <1>1, <1>3 DEF LowFree
<1>6. LowFree' = FirstFree .. USER_CODE_BASE - 1
  <2>1. ASSUME NEW x \in LowFree' PROVE x \in FirstFree .. USER_CODE_BASE - 1
    BY <1>1, <1>2, <1>4, <1>5, Numbers
  <2>2. ASSUME NEW x \in FirstFree .. USER_CODE_BASE - 1 PROVE x \in LowFree'
    BY <1>1, <1>2, <1>3, <1>4, <1>5, Numbers
  <2> QED BY <2>1, <2>2
<1>7. FreeOK'
  <2>1. FirstFree' = FirstFree
    BY <1>1, Fixed
  <2>2. Allocated(0)'
    BY <1>2, <1>6, <2>1 DEF Allocated
  <2> QED BY <1>1, <2>2 DEF FreeOK
<1> QED BY <1>1, <1>5, <1>7, EarlyLayout DEF ReserveKernel

LEMMA PreallocatedFacts ==
    ASSUME NEW n \in Nat, n < 34
    PROVE  /\ Preallocated(n) \in 0 .. ENTRIES - 1
           /\ \A m \in Nat : m < 34 /\ Preallocated(m) = Preallocated(n) => m = n
           /\ n < 32 => Preallocated(n) = n
           /\ n = 32 => Preallocated(n) = 767
           /\ n = 33 => Preallocated(n) = 1012
BY Numbers DEF Preallocated

\* Frames taken stay taken.
LEMMA VmmNext ==
    ASSUME FirstFree' = FirstFree, free' \subseteq free
    PROVE  /\ VmmFrames \subseteq VmmFrames'
           /\ \A f \in FirstFree .. HEAP - 1 : f \notin free' => f \in VmmFrames'
BY DEF VmmFrames

First == {Preallocated(n) : n \in 0 .. IDENTITY_TABLES + 1}

LEMMA TablesNext ==
    ASSUME HasDir', Good(tables', current_dir'), current_dir' \in VmmFrames',
           FramesOf(tables', current_dir') \subseteq VmmFrames',
           pc' = "tables" => DOMAIN tables'[current_dir'] = {Preallocated(n) : n \in 0 .. i' - 1},
           pc' # "tables" => /\ First \subseteq DOMAIN tables'[current_dir']
                             /\ DOMAIN tables'[current_dir'] \subseteq First \cup FramebufferEntries',
           pc' = "done" => tables'[current_dir'][USER_CODE_BASE \div ENTRIES].user,
           767 \in DOMAIN tables'[current_dir'] => tables'[current_dir'][767].user
    PROVE  TablesOK'
<1>1. Dir' = tables'[current_dir']
  BY DEF Dir, Table, Good
<1>2. TableFrames' = FramesOf(tables', current_dir')
  BY Views
<1>3. FramesOf(tables', current_dir') \subseteq DOMAIN tables' \ {current_dir'}
  <2> DEFINE T == tables'
             c == current_dir'
  <2>1. Good(T, c)
    OBVIOUS
  <2> HIDE DEF T, c
  <2>2. FramesOf(T, c) \subseteq DOMAIN T \ {c}
    BY <2>1, Mapped
  <2> QED BY <2>2 DEF T, c
<1>4. current_dir' \in VmmFrames' \cap DOMAIN tables'
  BY DEF Good
<1>5. TableFrames' \subseteq (VmmFrames' \cap DOMAIN tables') \ {current_dir'}
  BY <1>2, <1>3
<1>6. \A d, e \in DOMAIN Dir' : Dir'[d].frame = Dir'[e].frame => d = e
  BY <1>1 DEF Good
<1>7. pc' = "tables" => DOMAIN Dir' = {Preallocated(n) : n \in 0 .. i' - 1}
  BY <1>1
<1>8. pc' # "tables" => First \subseteq DOMAIN Dir' /\ DOMAIN Dir' \subseteq First \cup FramebufferEntries'
  BY <1>1
<1>9. pc' = "done" => Dir'[USER_CODE_BASE \div ENTRIES].user
  BY <1>1
<1>10. 767 \in DOMAIN Dir' => Dir'[767].user
  BY <1>1
<1> QED BY <1>4, <1>5, <1>6, <1>7, <1>8, <1>9, <1>10, Zenon DEF TablesOK, First

LEMMA NewDirStep == ASSUME Ordinary, Layout, NewDir PROVE Layout'
<1>1. /\ pc = "dir" /\ pc' = "tables"
      /\ UNCHANGED <<mmap, memory_size, link, i, fb, size, data, paging>>
  BY DEF NewDir
<1>2. TypeOK /\ tables = <<>> /\ i = 0 /\ ~ paging /\ Allocated(0)
  <2>1. TypeOK /\ i \in Nat
    BY Types DEF Layout
  <2> QED BY <2>1, <1>1 DEF Layout, TablesOK, HasDir, PmmReady, CounterOK, FreeOK
<1>3. PICK p \in FirstFree .. FirstFree + 0 :
         /\ pmm_alloc(free) = {p} /\ p \in free /\ p < USER_CODE_BASE
         /\ (free \ {p}) \cap 0 .. USER_CODE_BASE - 1 = p + 1 .. USER_CODE_BASE - 1
  BY <1>2, AllocLow
<1>4. free' = free \ {p} /\ tables' = Put(tables, p, <<>>) /\ current_dir' = p
  BY <1>3 DEF NewDir
<1>5. FirstFree \in Nat /\ FirstFree >= 264 /\ FirstFree <= 471 /\ free \subseteq Nat /\ p \in Nat /\ p < 500
  BY <1>2, <1>3, Bounds, Types
<1>6. FirstFree' = FirstFree
  BY <1>1, Fixed
<1>7. DOMAIN tables' = {p} /\ DOMAIN tables'[p] = {}
  BY <1>2, <1>4 DEF Put
<1>8. Good(tables', current_dir')
  <2>1. IsTables(tables')
    BY <1>5, <1>7 DEF IsTables
  <2> QED BY <2>1, <1>4, <1>7 DEF Good
<1>9. FramesOf(tables', current_dir') = {} /\ MappedBy(tables', current_dir') = {}
  BY <1>4, <1>7 DEF FramesOf, MappedBy, Tab
<1>10. TypeOK'
  <2>1. DOMAIN data' \subseteq Nat /\ \A f \in DOMAIN data' : data'[f] \in Int
    BY <1>1, <1>2 DEF TypeOK
  <2>2. IsTables(tables')
    BY <1>8 DEF Good
  <2>3. free' \subseteq Nat /\ i' \in Nat /\ current_dir' \in Nat
    BY <1>1, <1>2, <1>4, <1>5
  <2>4. paging' \in BOOLEAN
    BY <1>1, <1>2 DEF TypeOK
  <2> QED BY <1>1, <1>2, <2>1, <2>2, <2>3, <2>4, TypeNext
<1>11. CounterOK'
  BY <1>1, <1>2, Numbers DEF CounterOK
<1>12. FreeOK'
  <2>1. LowFree' = p + 1 .. USER_CODE_BASE - 1
    BY <1>3, <1>4 DEF LowFree
  <2>2. Allocated(1 + i)'
    BY <1>1, <1>2, <1>3, <1>5, <1>6, <2>1 DEF Allocated
  <2> QED BY <1>1, <2>2 DEF FreeOK
<1>13. TablesOK'
  <2>1. p \in VmmFrames'
    BY <1>3, <1>4, <1>5, <1>6, VmmNext, Numbers
  <2>2. {Preallocated(n) : n \in 0 .. i' - 1} = {}
    BY <1>1, <1>2
  <2> QED BY <1>1, <1>4, <1>7, <1>8, <1>9, <2>1, <2>2, TablesNext DEF HasDir, PmmReady
<1>14. PagesOK' /\ DataOK'
  <2>1. MappedPages' = {}
    BY <1>9, Views
  <2> QED BY <1>1, <2>1 DEF PagesOK, DataOK, Filled
<1> QED BY <1>10, <1>11, <1>12, <1>13, <1>14 DEF Layout

\* A frame that vmm_init is given: it lies below the heap and had no use.
LEMMA Take ==
    ASSUME Ordinary, TypeOK, NEW n \in Nat, n < 41, Allocated(n), NEW f \in pmm_alloc(free)
    PROVE  /\ f \in free /\ f \in Nat /\ f >= 264 /\ f < 512 /\ f \in FirstFree .. HEAP - 1
           /\ f \in FirstFree .. FirstFree + n
           /\ f \notin VmmFrames
           /\ (free \ {f}) \cap 0 .. USER_CODE_BASE - 1 = f + 1 .. USER_CODE_BASE - 1
<1>1. PICK p \in FirstFree .. FirstFree + n :
         /\ pmm_alloc(free) = {p} /\ p \in free /\ p < USER_CODE_BASE
         /\ (free \ {p}) \cap 0 .. USER_CODE_BASE - 1 = p + 1 .. USER_CODE_BASE - 1
  BY AllocLow
<1>2. p = f
  BY <1>1
<1>3. FirstFree \in Nat /\ FirstFree >= 264 /\ FirstFree <= 471
  BY Bounds
<1>4. f \in Nat /\ f >= 264 /\ f < 512 /\ f \in FirstFree .. HEAP - 1
  BY <1>1, <1>2, <1>3, Numbers
<1> QED BY <1>1, <1>2, <1>4 DEF VmmFrames

AllocatedBy(F, q, n) == \E p \in q .. q + n : F = p .. USER_CODE_BASE - 1

LEMMA AllocatedViews ==
    /\ \A n : Allocated(n) <=> AllocatedBy(LowFree, FirstFree, n)
    /\ \A n : Allocated(n)' <=> AllocatedBy(LowFree', FirstFree', n)
BY DEF Allocated, AllocatedBy

LEMMA AllocatedMore ==
    ASSUME NEW F, NEW q \in Nat, NEW m \in Nat, NEW n \in Nat, m <= n, AllocatedBy(F, q, m)
    PROVE  AllocatedBy(F, q, n)
BY DEF AllocatedBy

LEMMA AllocatedNext ==
    ASSUME FirstFree' = FirstFree, FirstFree \in Nat, NEW n \in Nat, NEW f \in FirstFree .. FirstFree + n,
           free' = free \ {f}, (free \ {f}) \cap 0 .. USER_CODE_BASE - 1 = f + 1 .. USER_CODE_BASE - 1
    PROVE  AllocatedBy(LowFree', FirstFree', n + 1)
<1>1. LowFree' = f + 1 .. USER_CODE_BASE - 1
  BY DEF LowFree
<1>2. f + 1 \in FirstFree .. FirstFree + (n + 1)
  OBVIOUS
<1> QED BY <1>1, <1>2 DEF AllocatedBy

LEMMA NewTableStep == ASSUME Ordinary, Layout, NewTable PROVE Layout'
<1> DEFINE T == tables
           c == current_dir
           d == Preallocated(i)
           u == d = 767
<1>1. /\ pc = "tables" /\ Round(34, "identity")
      /\ UNCHANGED <<mmap, memory_size, link, fb, size, data, current_dir, paging>>
  BY Numbers DEF NewTable
<1>2. TypeOK /\ i \in Nat /\ i < 34 /\ ~ paging /\ Allocated(1 + i)
  <2>1. TypeOK /\ i \in Nat
    BY Types DEF Layout
  <2> QED BY <2>1, <1>1, Numbers DEF Layout, CounterOK, FreeOK
<1>3. PICK g \in pmm_alloc(free) : /\ free' = free \ {g}
                                   /\ tables' = WithTable(T, g, d, u)
  BY DEF NewTable
<1>4. /\ g \in free /\ g \in Nat /\ g \in FirstFree .. HEAP - 1
      /\ g \in FirstFree .. FirstFree + (1 + i)
      /\ g \notin VmmFrames
      /\ (free \ {g}) \cap 0 .. USER_CODE_BASE - 1 = g + 1 .. USER_CODE_BASE - 1
  BY <1>2, Take
<1>5. FirstFree' = FirstFree /\ FirstFree \in Nat /\ free \subseteq Nat
  BY <1>1, <1>2, Fixed, Bounds, Types
<1>6. HasDir
  BY <1>1 DEF HasDir, PmmReady
<1>7. /\ Good(T, c) /\ Dir = T[c] /\ c \in VmmFrames /\ FramesOf(T, c) \subseteq VmmFrames
  BY <1>6, InDir
<1>8. DOMAIN T[c] = {Preallocated(n) : n \in 0 .. i - 1}
  BY <1>1, <1>6, <1>7 DEF Layout, TablesOK
<1>9. d \in 0 .. ENTRIES - 1 /\ d \notin DOMAIN T[c] /\ u \in BOOLEAN
  BY <1>2, <1>8, PreallocatedFacts
<1>10. tables' = WithEntry(Put(T, g, <<>>), c, d, g, u)
  BY <1>2, <1>3 DEF WithTable, Reached
<1> DEFINE W == tables'
<1>11. /\ Good(W, c) /\ DOMAIN W = DOMAIN T \cup {g}
       /\ DOMAIN W[c] = DOMAIN T[c] \cup {d}
       /\ W[c][d] = [frame |-> g, user |-> u]
       /\ \A x \in DOMAIN T[c] : W[c][x] = T[c][x]
       /\ FramesOf(W, c) = FramesOf(T, c) \cup {g}
       /\ MappedBy(W, c) = MappedBy(T, c)
  <2>1. g # c /\ g \notin FramesOf(T, c)
    BY <1>4, <1>7
  <2> HIDE DEF T, c, d, u
  <2>2. Good(T, c) /\ g \in Nat /\ d \in 0 .. ENTRIES - 1 /\ d \notin DOMAIN T[c]
    BY <1>4, <1>7, <1>9
  <2>3. PICK b \in BOOLEAN : b = u
    BY <1>9
  <2>4. W = WithEntry(Put(T, g, <<>>), c, d, g, b)
    BY <1>10, <2>3
  <2> HIDE DEF W, u
  <2>5. TableAdded(T, c, g, d, b, W)
    BY <2>1, <2>2, <2>4, PutTable
  <2> QED BY <2>3, <2>5 DEF TableAdded
<1>12. TypeOK'
  <2>1. DOMAIN data' \subseteq Nat /\ \A f \in DOMAIN data' : data'[f] \in Int
    BY <1>1, <1>2 DEF TypeOK
  <2>2. IsTables(tables')
    BY <1>11 DEF Good
  <2>3. free' \subseteq Nat /\ i' \in Nat /\ current_dir' \in Nat
    <3>1. free' \subseteq Nat /\ current_dir \in Nat
      BY <1>2, <1>3, <1>5, Types
    <3>2. i' \in Nat
      BY <1>1, <1>2 DEF Round
    <3> QED BY <3>1, <3>2, <1>1
  <2>4. paging' \in BOOLEAN
    BY <1>1, <1>2 DEF TypeOK
  <2>5. pc' \in {"tables", "identity"}
    BY <1>1 DEF Round
  <2> QED BY <1>1, <1>2, <2>1, <2>2, <2>3, <2>4, <2>5, TypeNext
<1>13. CounterOK'
  BY <1>1, <1>2, Numbers DEF CounterOK, Round
<1>14. FreeOK'
  <2>1. AllocatedBy(LowFree', FirstFree', 1 + i + 1)
    BY <1>2, <1>3, <1>4, <1>5, AllocatedNext
  <2>2. CASE i + 1 < 34 /\ i' = i + 1 /\ pc' = "tables"
    <3>1. Allocated(1 + i)'
      BY <2>1, <2>2, <1>2 DEF Allocated, AllocatedBy
    <3> QED BY <2>2, <3>1 DEF FreeOK
  <2>3. CASE i + 1 = 34 /\ i' = 0 /\ pc' = "identity"
    <3>1. Allocated(35)'
      BY <2>1, <2>3, <1>2 DEF Allocated, AllocatedBy
    <3> QED BY <2>3, <3>1 DEF FreeOK
  <2> QED BY <2>2, <2>3, <1>1 DEF Round
<1>15. TablesOK'
  <2>1. VmmFrames \subseteq VmmFrames' /\ g \in VmmFrames'
    BY <1>3, <1>4, <1>5, VmmNext
  <2>2. HasDir'
    BY <1>1 DEF Round, HasDir, PmmReady
  <2>3. DOMAIN W[c] = {Preallocated(n) : n \in 0 .. i}
    <3>1. \A n \in 0 .. i : n = i \/ n \in 0 .. i - 1
      BY <1>2
    <3>2. \A n \in 0 .. i - 1 : n \in 0 .. i
      BY <1>2
    <3>3. i \in 0 .. i
      BY <1>2
    <3> QED BY <1>8, <1>11, <3>1, <3>2, <3>3
  <2>4. pc' = "tables" => DOMAIN W[c] = {Preallocated(n) : n \in 0 .. i' - 1}
    BY <2>3, <1>1, <1>2 DEF Round
  <2>5. pc' # "tables" => First \subseteq DOMAIN W[c] /\ DOMAIN W[c] \subseteq First
    <3>1. pc' # "tables" => i = IDENTITY_TABLES + 1
      BY <1>1, <1>2, Numbers DEF Round
    <3> QED BY <3>1, <2>3 DEF First
  <2>6. 767 \in DOMAIN W[c] => W[c][767].user
    <3>1. CASE d = 767
      <4>1. u = TRUE /\ W[c][d].user = u
        <5> HIDE DEF d, W, T, c
        <5> QED BY <3>1, <1>11
      <4> QED BY <3>1, <4>1
    <3>2. CASE d # 767 /\ 767 \in DOMAIN T[c]
      <4>1. T[c][767].user
        BY <3>2, <1>6, <1>7 DEF Layout, TablesOK
      <4> QED BY <3>2, <4>1, <1>11
    <3>3. CASE d # 767 /\ 767 \notin DOMAIN T[c]
      BY <3>3, <1>11
    <3> QED BY <3>1, <3>2, <3>3
  <2>7. pc' # "done" /\ current_dir' = c
    BY <1>1 DEF Round
  <2> QED BY <1>7, <1>11, <2>1, <2>2, <2>4, <2>5, <2>6, <2>7, TablesNext
<1>16. PagesOK' /\ DataOK'
  <2>1. MappedPages' = {}
    <3>1. MappedPages = {}
      BY <1>1 DEF Layout, PagesOK
    <3> QED BY <3>1, <1>1, <1>11, Views
  <2>2. pc' \in {"tables", "identity"}
    BY <1>1 DEF Round
  <2> QED BY <2>1, <2>2 DEF PagesOK, DataOK, Filled, HasDir, PmmReady
<1> QED BY <1>12, <1>13, <1>14, <1>15, <1>16 DEF Layout

\* Before their loops begin, the framebuffer, the stack and the program have no pages.
LEMMA NoPages ==
    ASSUME NEW a \in Nat
    PROVE  a .. a + 0 - 1 = {} /\ a - 0 .. a - 1 = {} /\ a .. a - 1 + 0 = {}
OBVIOUS

LEMMA FillIdentityStep == ASSUME Ordinary, Layout, FillIdentity PROVE Layout'
<1> DEFINE T == tables
           c == current_dir
           W == tables'
<1>1. /\ pc = "identity" /\ pc' = "fb"
      /\ UNCHANGED <<mmap, memory_size, link, free, i, fb, size, data, current_dir, paging>>
  BY DEF FillIdentity
<1>2. TypeOK /\ i = 0 /\ ~ paging /\ Allocated(35) /\ HasDir /\ fb[1] \in Nat /\ fb[2] \in Nat \ {0}
  <2>1. TypeOK /\ i \in Nat /\ fb[1] \in Nat /\ fb[2] \in Nat \ {0}
    BY Types DEF Layout
  <2> QED BY <2>1, <1>1 DEF Layout, CounterOK, FreeOK, HasDir, PmmReady
<1>3. Good(T, c) /\ Dir = T[c] /\ c \in VmmFrames /\ FramesOf(T, c) \subseteq VmmFrames
  BY <1>2, InDir
<1>4. W = Fill(T, c)
  BY <1>3 DEF FillIdentity, Fill, Served, IdentityTable
<1>5. First \subseteq DOMAIN T[c] /\ DOMAIN T[c] \subseteq First \cup FramebufferEntries
  BY <1>1, <1>2, <1>3 DEF Layout, TablesOK, First
<1>6. 0 .. IDENTITY_TABLES - 1 \subseteq DOMAIN T[c]
  <2>1. ASSUME NEW d \in 0 .. IDENTITY_TABLES - 1 PROVE d \in First
    <3>1. Preallocated(d) = d /\ d \in 0 .. IDENTITY_TABLES + 1
      BY Numbers DEF Preallocated
    <3> QED BY <3>1 DEF First
  <2> QED BY <2>1, <1>5
<1>7. MappedBy(T, c) = {}
  BY <1>1, Views DEF Layout, PagesOK
<1>8. IsFilled(T, c, W)
  <2> HIDE DEF T, c, W
  <2> QED BY <1>3, <1>4, <1>6, TablesFilled
<1>9. /\ Good(W, c) /\ W[c] = T[c] /\ FramesOf(W, c) = FramesOf(T, c)
      /\ MappedBy(W, c) = IdentityPages
      /\ \A v \in IdentityPages : PteOf(W, c, v) = [frame |-> v, user |-> FALSE]
  <2> HIDE DEF T, c, W
  <2> QED BY <1>3, <1>6, <1>7, <1>8, FillTables
<1>10. TypeOK'
  <2>1. DOMAIN data' \subseteq Nat /\ \A f \in DOMAIN data' : data'[f] \in Int
    BY <1>1, <1>2 DEF TypeOK
  <2>2. IsTables(tables')
    BY <1>9 DEF Good
  <2>3. free' \subseteq Nat /\ i' \in Nat /\ current_dir' \in Nat
    BY <1>1, <1>2, Types
  <2>4. paging' \in BOOLEAN
    BY <1>1, <1>2 DEF TypeOK
  <2> QED BY <1>1, <1>2, <2>1, <2>2, <2>3, <2>4, TypeNext
<1>11. CounterOK'
  BY <1>1, <1>2, Numbers DEF CounterOK
<1>12. FirstFree' = FirstFree /\ FirstFree \in Nat
  BY <1>1, <1>2, Fixed, Bounds
<1>13. FreeOK'
  <2>1. AllocatedBy(LowFree', FirstFree', 35)
    BY <1>1, <1>2, <1>12 DEF Allocated, AllocatedBy, LowFree
  <2>2. Made(fb[1] \div ENTRIES)' \in {0, 1} /\ Made(fb[1] \div ENTRIES + 1)' \in {0, 1}
    BY DEF Made
  <2> DEFINE n == 35 + Made(fb[1] \div ENTRIES)' + Made(fb[1] \div ENTRIES + 1)'
  <2>3. n \in Nat /\ 35 <= n
    BY <2>2
  <2> HIDE DEF n
  <2>4. AllocatedBy(LowFree', FirstFree', n)
    BY <1>12, <2>1, <2>3, AllocatedMore
  <2> QED BY <1>1, <2>4 DEF FreeOK, n, Allocated, AllocatedBy
<1>14. TablesOK'
  <2>1. VmmFrames \subseteq VmmFrames'
    BY <1>1, <1>12, VmmNext
  <2>2. HasDir'
    BY <1>1 DEF HasDir, PmmReady
  <2>3. 767 \in DOMAIN W[c] => W[c][767].user
    BY <1>2, <1>3, <1>9 DEF Layout, TablesOK
  <2>4. FramebufferEntries' = FramebufferEntries
    BY <1>1 DEF FramebufferEntries
  <2> QED BY <1>1, <1>3, <1>5, <1>9, <2>1, <2>2, <2>3, <2>4, TablesNext
<1>15. PagesOK' /\ DataOK'
  <2>1. MappedPages' = IdentityPages
    BY <1>1, <1>9, Views
  <2>2. \A v \in IdentityPages : Pte(v)' = [frame |-> v, user |-> FALSE]
    BY <1>1, <1>9, Views
  <2>3. FramebufferPages' = {} /\ StackPages' = {} /\ CodePages' = {}
    <3>1. FramebufferPages' = fb[1] .. fb[1] + 0 - 1
      BY <1>1, <1>2 DEF FramebufferPages
    <3>2. StackPages' = USER_STACK_TOP - 0 .. USER_STACK_TOP - 1
      BY <1>1, <1>2 DEF StackPages
    <3>3. CodePages' = USER_CODE_BASE .. USER_CODE_BASE - 1 + 0
      BY <1>1, <1>2 DEF CodePages
    <3>4. USER_STACK_TOP \in Nat /\ USER_CODE_BASE \in Nat
      BY SMT DEF USER_STACK_TOP, USER_CODE_BASE
    <3> QED BY <1>2, <3>1, <3>2, <3>3, <3>4, NoPages
  <2> QED BY <1>1, <2>1, <2>2, <2>3 DEF PagesOK, DataOK
<1> QED BY <1>10, <1>11, <1>13, <1>14, <1>15 DEF Layout

LEMMA TwoEntries ==
    ASSUME NEW a \in Nat, NEW k \in Nat, k < 1024, a + k < 1048576
    PROVE  /\ (a + k) \div 1024 = a \div 1024 \/ (a + k) \div 1024 = a \div 1024 + 1
           /\ (a + k) \div 1024 \in Nat /\ (a + k) \div 1024 < 1024 /\ a \div 1024 \in Nat
BY SMT

\* The framebuffer lies above the identity map, apart from the stack.
LEMMA FramebufferBounds ==
    ASSUME Ordinary, TypeOK
    PROVE  /\ fb[1] \in Nat /\ fb[2] \in Nat \ {0} /\ fb[1] >= 32768 /\ fb[2] <= 1024
           /\ fb[1] + fb[2] <= 1048576
           /\ \A k \in Nat : k < fb[2] => fb[1] + k < USER_STACK_TOP - USER_STACK_PAGES
                                          \/ USER_STACK_TOP <= fb[1] + k
<1>1. fb[1] \in Nat /\ fb[2] \in Nat \ {0}
  BY Types
<1>2. 32 * 1024 = 32768 /\ 1024 * 1024 = 1048576 /\ USER_STACK_TOP = 786432 /\ USER_STACK_PAGES = 4
  BY SMT DEF USER_STACK_TOP, USER_STACK_PAGES
<1>3. /\ 32 * 1024 <= fb[1] /\ fb[2] <= 1024
      /\ \/ fb[1] + fb[2] <= USER_STACK_TOP - USER_STACK_PAGES
         \/ USER_STACK_TOP <= fb[1] /\ fb[1] + fb[2] <= 1024 * 1024
  BY SMT, Numbers DEF Ordinary
<1> QED BY SMT, <1>1, <1>2, <1>3

LEMMA MapFramebufferStep == ASSUME Ordinary, Layout, MapFramebuffer PROVE Layout'
<1> DEFINE T == tables
           c == current_dir
           W == tables'
           v == fb[1] + i
           e == v \div ENTRIES
           a == fb[1] \div ENTRIES
           n == 35 + Made(a) + Made(a + 1)
<1>1. /\ pc = "fb" /\ Round(fb[2], "stack")
      /\ vmm_map_page(tables, free, v, v, FALSE)
      /\ UNCHANGED <<mmap, memory_size, link, fb, size, data, current_dir, paging>>
  BY DEF MapFramebuffer
<1>2. /\ TypeOK /\ i \in Nat /\ i < fb[2] /\ ~ paging /\ Allocated(n) /\ HasDir
      /\ fb[1] \in Nat /\ fb[2] \in Nat \ {0} /\ fb[1] >= 32768 /\ fb[2] <= 1024
      /\ fb[1] + fb[2] <= 1048576
  <2>1. TypeOK /\ i \in Nat
    BY Types DEF Layout
  <2>2. i < fb[2] /\ ~ paging /\ HasDir
    BY <2>1, <1>1 DEF Layout, CounterOK, HasDir, PmmReady
  <2>3. Allocated(n)
    BY <1>1 DEF Layout, FreeOK
  <2> QED BY <2>1, <2>2, <2>3, FramebufferBounds
<1>3. Good(T, c) /\ Dir = T[c] /\ c \in VmmFrames /\ FramesOf(T, c) \subseteq VmmFrames
  BY <1>2, InDir
<1>4. First \subseteq DOMAIN T[c] /\ DOMAIN T[c] \subseteq First \cup FramebufferEntries
  BY <1>1, <1>2, <1>3 DEF Layout, TablesOK, First
<1>5. v \in Nat /\ e \in 0 .. ENTRIES - 1 /\ a \in Nat /\ (e = a \/ e = a + 1)
  <2>1. v \in Nat /\ v < 1048576 /\ i < 1024
    BY SMT, <1>2
  <2>2. \A b, k \in Nat : k < 1024 /\ b + k < 1048576 =>
              /\ (b + k) \div 1024 = b \div 1024 \/ (b + k) \div 1024 = b \div 1024 + 1
              /\ (b + k) \div 1024 \in Nat /\ (b + k) \div 1024 < 1024 /\ b \div 1024 \in Nat
    BY TwoEntries
  <2>3. ENTRIES = 1024
    BY Numbers
  <2>4. /\ v \div 1024 = fb[1] \div 1024 \/ v \div 1024 = fb[1] \div 1024 + 1
        /\ v \div 1024 \in Nat /\ v \div 1024 < 1024 /\ fb[1] \div 1024 \in Nat
    BY <1>2, <2>1, <2>2
  <2>5. e \in Nat /\ e < 1024 /\ a \in Nat /\ (e = a \/ e = a + 1)
    BY <2>3, <2>4
  <2> HIDE DEF e, a
  <2> QED BY <2>1, <2>3, <2>5
<1>6. /\ n \in Nat /\ n <= 37 /\ FirstFree' = FirstFree /\ FirstFree \in Nat /\ free \subseteq Nat
  <2>1. Made(a) \in {0, 1} /\ Made(a + 1) \in {0, 1}
    BY DEF Made
  <2>2. n \in Nat /\ n <= 37
    BY <2>1
  <2> QED BY <1>1, <1>2, <2>2, Fixed, Bounds, Types
<1>7. \A x : Made(x) = IF x \in DOMAIN T[c] THEN 1 ELSE 0
  BY <1>3 DEF Made
<1> DEFINE Result ==
        /\ Good(W, c) /\ c \in VmmFrames' /\ FramesOf(W, c) \subseteq VmmFrames'
        /\ DOMAIN T[c] \subseteq DOMAIN W[c] /\ DOMAIN W[c] \subseteq DOMAIN T[c] \cup {e}
        /\ 767 \in DOMAIN W[c] => W[c][767].user
        /\ MappedBy(W, c) = MappedBy(T, c) \cup {v}
        /\ PteOf(W, c, v) = [frame |-> v, user |-> FALSE]
        /\ \A w \in MappedBy(T, c) \ {v} : PteOf(W, c, w) = PteOf(T, c, w)
        /\ free' \subseteq free
        /\ \E m \in Nat : /\ AllocatedBy(LowFree', FirstFree', m) /\ m <= 37
                          /\ m = 35 + (IF a \in DOMAIN W[c] THEN 1 ELSE 0)
                                    + (IF a + 1 \in DOMAIN W[c] THEN 1 ELSE 0)
<1>8. 767 \in DOMAIN T[c] /\ T[c][767].user
  <2>1. 767 \in First
    BY Numbers DEF First, Preallocated
  <2> QED BY <2>1, <1>2, <1>3, <1>4 DEF Layout, TablesOK
<1>9. ASSUME e \in DOMAIN T[c] PROVE Result
  <2>1. free' = free /\ W = WithEntry(T, T[c][e].frame, v % ENTRIES, v, FALSE)
    <3>1. Reached(c) = c /\ \A x : Reached(x) = x
      BY <1>2 DEF Reached
    <3>2. free' = free /\ W = WithPage(T, v, v, FALSE)
      <4> HIDE DEF v
      <4> QED BY <1>1, <1>3, <1>9 DEF vmm_map_page
    <3>3. WithPage(T, v, v, FALSE) = WithEntry(T, T[c][e].frame, v % ENTRIES, v, FALSE)
      <4> HIDE DEF v
      <4> QED BY <3>1 DEF WithPage
    <3> HIDE DEF v, e, W
    <3> QED BY <3>2, <3>3
  <2>2. PICK b \in BOOLEAN : b = FALSE
    OBVIOUS
  <2>3. PageAdded(T, c, v, v, b, W)
    <3>1. W = WithEntry(T, T[c][v \div ENTRIES].frame, v % ENTRIES, v, b)
      BY <2>1, <2>2
    <3> HIDE DEF T, c, W, v
    <3> QED BY <1>3, <1>5, <1>9, <3>1, PutPage DEF e
  <2>4. VmmFrames' = VmmFrames
    BY <1>6, <2>1 DEF VmmFrames
  <2>5. AllocatedBy(LowFree', FirstFree', n)
    BY <1>2, <1>6, <2>1 DEF Allocated, AllocatedBy, LowFree
  <2>6. W[c] = T[c]
    BY <2>3 DEF PageAdded
  <2>7. Result
    <3>1. n = 35 + (IF a \in DOMAIN W[c] THEN 1 ELSE 0) + (IF a + 1 \in DOMAIN W[c] THEN 1 ELSE 0)
      BY <1>7, <2>6
    <3> HIDE DEF T, c, W, v, n, e, a
    <3> QED BY <1>3, <1>6, <1>8, <2>1, <2>2, <2>3, <2>4, <2>5, <2>6, <3>1 DEF PageAdded
  <2> QED BY <2>7
<1>10. ASSUME e \notin DOMAIN T[c] PROVE Result
  <2>1. PICK g \in pmm_alloc(free) :
          /\ W = WithPage(WithTable(T, g, e, TRUE), v, v, FALSE)
          /\ free' = free \ {g}
    BY <1>1, <1>3, <1>10 DEF vmm_map_page
  <2>2. /\ g \in free /\ g \in Nat /\ g \in FirstFree .. HEAP - 1
        /\ g \in FirstFree .. FirstFree + n
        /\ g \notin VmmFrames
        /\ (free \ {g}) \cap 0 .. USER_CODE_BASE - 1 = g + 1 .. USER_CODE_BASE - 1
    <3> HIDE DEF n
    <3>1. n <= 41
      BY <1>6
    <3> QED BY <1>2, <1>6, <3>1, Take
  <2>3. PICK t \in BOOLEAN : t = TRUE
    OBVIOUS
  <2>4. PICK b \in BOOLEAN : b = FALSE
    OBVIOUS
  <2> DEFINE X == WithEntry(Put(T, g, <<>>), c, e, g, t)
  <2>5. TableAdded(T, c, g, e, t, X)
    <3>1. g # c /\ g \notin FramesOf(T, c)
      BY <1>3, <2>2
    <3> HIDE DEF T, c, v, e
    <3> QED BY <1>3, <1>5, <1>10, <2>2, <3>1, PutTable
  <2>6. WithTable(T, g, e, TRUE) = X
    BY <1>2, <2>3 DEF WithTable, Reached
  <2> HIDE DEF X
  <2>7. W = WithEntry(X, X[c][e].frame, v % ENTRIES, v, b)
    <3>1. Reached(c) = c /\ \A x : Reached(x) = x
      BY <1>2 DEF Reached
    <3>2. W = WithPage(X, v, v, FALSE)
      <4> HIDE DEF v, e
      <4> QED BY <2>1, <2>6
    <3>3. WithPage(X, v, v, FALSE) = WithEntry(X, X[c][e].frame, v % ENTRIES, v, FALSE)
      <4> HIDE DEF v
      <4> QED BY <3>1 DEF WithPage
    <3> HIDE DEF v, e, W
    <3> QED BY <2>4, <3>2, <3>3
  <2>8. PageAdded(X, c, v, v, b, W)
    <3>1. Good(X, c) /\ v \div ENTRIES \in DOMAIN X[c]
      BY <2>5 DEF TableAdded
    <3>2. W = WithEntry(X, X[c][v \div ENTRIES].frame, v % ENTRIES, v, b)
      BY <2>7
    <3> HIDE DEF c, W, v
    <3> QED BY <1>5, <3>1, <3>2, PutPage
  <2>9. VmmFrames \subseteq VmmFrames' /\ g \in VmmFrames'
    BY <1>6, <2>1, <2>2, VmmNext
  <2>10. AllocatedBy(LowFree', FirstFree', n + 1)
    <3> HIDE DEF n
    <3> QED BY <1>6, <2>1, <2>2, AllocatedNext
  <2>11. /\ Good(W, c) /\ W[c] = X[c] /\ DOMAIN X[c] = DOMAIN T[c] \cup {e}
         /\ FramesOf(W, c) = FramesOf(T, c) \cup {g}
         /\ MappedBy(W, c) = MappedBy(T, c) \cup {v}
         /\ PteOf(W, c, v) = [frame |-> v, user |-> FALSE]
         /\ \A w \in MappedBy(T, c) \ {v} : PteOf(W, c, w) = PteOf(T, c, w)
    <3> HIDE DEF T, c, W, v, e
    <3> QED BY <2>4, <2>5, <2>8 DEF PageAdded, TableAdded
  <2>12. e # 767 /\ W[c][767] = T[c][767]
    <3> HIDE DEF T, c, W, v, e
    <3> QED BY <1>8, <1>10, <2>5, <2>11 DEF TableAdded
  <2>13. n + 1 = 35 + (IF a \in DOMAIN W[c] THEN 1 ELSE 0) + (IF a + 1 \in DOMAIN W[c] THEN 1 ELSE 0)
    <3>1. n = 35 + (IF a \in DOMAIN T[c] THEN 1 ELSE 0) + (IF a + 1 \in DOMAIN T[c] THEN 1 ELSE 0)
      BY <1>7
    <3> HIDE DEF T, c, W, v, e, n, a
    <3> QED BY <1>5, <1>10, <2>11, <3>1
  <2>14. n + 1 <= 37
    <3> HIDE DEF T, c, W, v, e, n, a
    <3> QED BY <2>13, <1>6
  <2>15. Result
    <3> HIDE DEF T, c, W, v, e, n, a
    <3>1. FramesOf(W, c) \subseteq VmmFrames' /\ c \in VmmFrames' /\ free' \subseteq free
      BY <1>3, <2>1, <2>9, <2>11
    <3>2. DOMAIN T[c] \subseteq DOMAIN W[c] /\ DOMAIN W[c] \subseteq DOMAIN T[c] \cup {e}
      BY <2>11
    <3>3. W[c][767].user
      BY <1>8, <2>12
    <3>4. n + 1 \in Nat
      BY <1>6
    <3> QED BY <2>10, <2>11, <2>13, <2>14, <3>1, <3>2, <3>3, <3>4
  <2> QED BY <2>15
<1>11. Result
  BY <1>9, <1>10
<1>12. TypeOK'
  <2>1. DOMAIN data' \subseteq Nat /\ \A f \in DOMAIN data' : data'[f] \in Int
    BY <1>1, <1>2 DEF TypeOK
  <2>2. IsTables(tables')
    BY <1>11 DEF Good
  <2>3. free' \subseteq Nat /\ current_dir' \in Nat
    BY <1>1, <1>2, <1>6, <1>11, Types
  <2>4. i' \in Nat /\ pc' \in {"fb", "stack"}
    BY <1>1, <1>2 DEF Round
  <2>5. paging' \in BOOLEAN
    BY <1>1, <1>2 DEF TypeOK
  <2> QED BY <1>1, <1>2, <2>1, <2>2, <2>3, <2>4, <2>5, TypeNext
<1>13. CounterOK'
  <2>1. USER_STACK_PAGES = 4
    BY DEF USER_STACK_PAGES
  <2> QED BY <2>1, <1>1, <1>2 DEF CounterOK, Round
<1>14. FreeOK'
  <2>1. PICK m \in Nat : /\ AllocatedBy(LowFree', FirstFree', m) /\ m <= 37
                         /\ m = 35 + (IF a \in DOMAIN W[c] THEN 1 ELSE 0)
                                   + (IF a + 1 \in DOMAIN W[c] THEN 1 ELSE 0)
    BY <1>11
  <2>2. CASE pc' = "fb"
    <3>1. Dir' = W[c]
      BY <1>1, <1>11 DEF Dir, Table, Good
    <3>2. m = 35 + Made(fb[1] \div ENTRIES)' + Made(fb[1] \div ENTRIES + 1)'
      BY <1>1, <2>1, <3>1 DEF Made
    <3> HIDE DEF a
    <3> QED BY <2>1, <2>2, <3>2 DEF FreeOK, Allocated, AllocatedBy
  <2>3. CASE pc' = "stack" /\ i' = 0
    <3>1. AllocatedBy(LowFree', FirstFree', 37)
      <4> HIDE DEF a, c, W
      <4> QED BY <2>1, <1>6, AllocatedMore
    <3>2. Allocated(37 + i)'
      BY <2>3, <3>1 DEF Allocated, AllocatedBy
    <3> QED BY <2>3, <3>2 DEF FreeOK
  <2> QED BY <2>2, <2>3, <1>1 DEF Round
<1>15. TablesOK'
  <2>1. HasDir' /\ pc' \notin {"tables", "done"}
    BY <1>1 DEF HasDir, PmmReady, Round
  <2>2. FramebufferEntries' = FramebufferEntries /\ e \in FramebufferEntries
    <3> HIDE DEF e
    <3> QED BY <1>1, <1>5 DEF FramebufferEntries
  <2>3. First \subseteq DOMAIN W[c] /\ DOMAIN W[c] \subseteq First \cup FramebufferEntries'
    <3> HIDE DEF T, c, W, e, v
    <3> QED BY <1>4, <1>11, <2>2
  <2> QED BY <1>1, <1>11, <2>1, <2>3, TablesNext
<1>16. PagesOK'
  <2>1. /\ MappedPages = IdentityPages \cup FramebufferPages \cup StackPages
        /\ \A w \in (IdentityPages \ CodePages) \cup FramebufferPages :
                Pte(w) = [frame |-> w, user |-> FALSE]
    BY <1>1 DEF Layout, PagesOK, Filled, HasDir, PmmReady
  <2>2. /\ StackPages = {} /\ CodePages = {} /\ StackPages' = {} /\ CodePages' = {}
    <3>1. USER_STACK_TOP \in Nat /\ USER_CODE_BASE \in Nat
      BY SMT DEF USER_STACK_TOP, USER_CODE_BASE
    <3>2. /\ StackPages = USER_STACK_TOP - 0 .. USER_STACK_TOP - 1
          /\ StackPages' = USER_STACK_TOP - 0 .. USER_STACK_TOP - 1
      BY <1>1 DEF StackPages, Round
    <3>3. /\ CodePages = USER_CODE_BASE .. USER_CODE_BASE - 1 + 0
          /\ CodePages' = USER_CODE_BASE .. USER_CODE_BASE - 1 + 0
      BY <1>1 DEF CodePages, Round
    <3> QED BY <3>1, <3>2, <3>3, NoPages
  <2>3. FramebufferPages' = FramebufferPages \cup {v}
    <3>1. FramebufferPages = fb[1] .. fb[1] + i - 1
      BY <1>1 DEF FramebufferPages
    <3>2. FramebufferPages' = fb[1] .. fb[1] + (i + 1) - 1
      BY <1>1, <1>2 DEF FramebufferPages, Round
    <3> QED BY <1>2, <3>1, <3>2
  <2>4. MappedPages' = IdentityPages \cup FramebufferPages' \cup StackPages'
    <3>1. MappedPages' = MappedPages \cup {v}
      BY <1>1, <1>11, Views
    <3> HIDE DEF v
    <3> QED BY <2>1, <2>2, <2>3, <3>1
  <2>5. ASSUME NEW w \in IdentityPages \cup FramebufferPages' PROVE Pte(w)' = [frame |-> w, user |-> FALSE]
    <3>1. CASE w = v
      BY <3>1, <1>1, <1>11, Views
    <3>2. CASE w # v
      <4>1. w \in IdentityPages \cup FramebufferPages
        <5> HIDE DEF v
        <5> QED BY <3>2, <2>3
      <4>2. Pte(w) = [frame |-> w, user |-> FALSE] /\ w \in MappedPages
        BY <4>1, <2>1, <2>2
      <4>3. PteOf(W, c, w) = PteOf(T, c, w)
        BY <3>2, <4>2, <1>11, Views
      <4> QED BY <4>2, <4>3, <1>1, Views
    <3> QED BY <3>1, <3>2
  <2>6. pc' \notin {"tables", "identity"}
    BY <1>1 DEF Round
  <2> QED BY <2>2, <2>4, <2>5, <2>6 DEF PagesOK
<1>17. DataOK'
  <2>1. CodePages' = USER_CODE_BASE .. USER_CODE_BASE - 1 + 0
    BY <1>1 DEF CodePages, Round
  <2>2. CodePages' = {}
    BY <2>1, NoPages, Numbers
  <2>3. pc' # "load"
    BY <1>1 DEF Round
  <2> QED BY <2>2, <2>3 DEF DataOK
<1> QED BY <1>12, <1>13, <1>14, <1>15, <1>16, <1>17 DEF Layout

\* vmm_map_page for a page whose table is there already, when memory holds T.
LEMMA MapPage ==
    ASSUME Ordinary, Layout, HasDir, NEW T, NEW c, c = current_dir, SameTables(tables, c, T), T[c] = Dir,
           NEW S, NEW v \in Nat, v \div ENTRIES \in DOMAIN Dir, NEW f \in Nat,
           NEW u \in BOOLEAN, vmm_map_page(T, S, v, f, u)
    PROVE  free' = S /\ PageAdded(T, c, v, f, u, tables')
<1>1. free' = S /\ tables' = WithPage(T, v, f, u)
  BY DEF vmm_map_page
<1> DEFINE g == T[c][v \div ENTRIES].frame
<1>2. Reached(c) = c /\ Reached(g) = g
  <2>1. c \in VmmFrames /\ g \in VmmFrames
    BY InDir DEF VmmFrames
  <2>2. c \in Nat /\ c < 1024 /\ g \in Nat /\ g < 1024
    <3>1. FirstFree \in Nat /\ HEAP = 512
      BY Bounds, Numbers DEF Layout
    <3> HIDE DEF g
    <3> QED BY <2>1, <3>1 DEF VmmFrames
  <2> HIDE DEF g
  <2> QED BY <2>2, ReachedLow
<1>3. tables' = WithEntry(T, g, v % ENTRIES, f, u)
  BY <1>1, <1>2 DEF WithPage
<1>4. Good(T, c)
  BY DEF SameTables
<1>5. PageAdded(T, c, v, f, u, WithEntry(T, T[c][v \div ENTRIES].frame, v % ENTRIES, f, u))
  BY <1>4, PutPage
<1> QED BY <1>1, <1>3, <1>5

LEMMA StackEntry ==
    ASSUME NEW k \in Nat, k < 4
    PROVE  /\ USER_STACK_TOP - (k + 1) \in Nat
           /\ (USER_STACK_TOP - (k + 1)) \div ENTRIES = 767
           /\ USER_STACK_TOP - (k + 1) > 32767
<1>1. USER_STACK_TOP = 786432 /\ ENTRIES = 1024
  BY SMT, Numbers DEF USER_STACK_TOP
<1>2. (786432 - (k + 1)) \div 1024 = 767 /\ 786432 - (k + 1) \in Nat /\ 786432 - (k + 1) > 32767
  BY SMT
<1> QED BY SMT, <1>1, <1>2

LEMMA MapStackStep == ASSUME Ordinary, Layout, MapStack PROVE Layout'
<1> DEFINE T == tables
           c == current_dir
           W == tables'
           v == USER_STACK_TOP - (i + 1)
<1>1. /\ pc = "stack" /\ Round(4, "enable")
      /\ UNCHANGED <<mmap, memory_size, link, fb, size, data, current_dir, paging>>
  BY DEF MapStack, USER_STACK_PAGES
<1>2. TypeOK /\ i \in Nat /\ i < 4 /\ ~ paging /\ Allocated(37 + i) /\ HasDir /\ Filled
  <2>1. TypeOK /\ i \in Nat
    BY Types DEF Layout
  <2> QED BY <2>1, <1>1 DEF Layout, CounterOK, FreeOK, HasDir, PmmReady, Filled, USER_STACK_PAGES
<1>3. PICK f \in pmm_alloc(free) : vmm_map_page(tables, free \ {f}, v, f, TRUE)
  BY DEF MapStack
<1>4. /\ f \in free /\ f \in Nat /\ f \in FirstFree .. HEAP - 1
      /\ f \in FirstFree .. FirstFree + (37 + i) /\ f \notin VmmFrames
      /\ (free \ {f}) \cap 0 .. USER_CODE_BASE - 1 = f + 1 .. USER_CODE_BASE - 1
  BY <1>2, Take
<1>5. Good(T, c) /\ Dir = T[c] /\ c \in VmmFrames /\ FramesOf(T, c) \subseteq VmmFrames
  BY <1>2, InDir
<1>6. v \in Nat /\ v \div ENTRIES = 767 /\ v > 32767
  BY <1>2, StackEntry
<1>7. 767 \in DOMAIN T[c] /\ T[c][767].user
  <2>1. 767 \in First
    BY Numbers DEF First, Preallocated
  <2> QED BY <2>1, <1>1, <1>2, <1>5 DEF Layout, TablesOK, First
<1>8. PICK b \in BOOLEAN : b = TRUE
  OBVIOUS
<1>9. free' = free \ {f} /\ PageAdded(T, c, v, f, b, W)
  <2>1. SameTables(T, c, T)
    BY <1>5 DEF SameTables
  <2>2. vmm_map_page(T, free \ {f}, v, f, b)
    BY <1>3, <1>8
  <2> HIDE DEF T, c, W, v
  <2> QED BY <1>2, <1>4, <1>5, <1>6, <1>7, <2>1, <2>2, MapPage DEF T, c, W
<1>10. /\ Good(W, c) /\ W[c] = T[c] /\ FramesOf(W, c) = FramesOf(T, c)
       /\ MappedBy(W, c) = MappedBy(T, c) \cup {v}
       /\ PteOf(W, c, v) = [frame |-> f, user |-> TRUE]
       /\ \A w \in MappedBy(T, c) \ {v} : PteOf(W, c, w) = PteOf(T, c, w)
  <2> HIDE DEF T, c, W, v
  <2> QED BY <1>8, <1>9 DEF PageAdded
<1>11. FirstFree' = FirstFree /\ FirstFree \in Nat /\ free' \subseteq Nat /\ HEAP = 512 /\ USER_CODE_BASE = 1024
  BY <1>1, <1>2, <1>9, Fixed, Bounds, Types, Numbers
<1>12. TypeOK'
  <2>1. DOMAIN data' \subseteq Nat /\ \A x \in DOMAIN data' : data'[x] \in Int
    BY <1>1, <1>2 DEF TypeOK
  <2>2. IsTables(tables')
    BY <1>10 DEF Good
  <2>3. current_dir' \in Nat
    BY <1>1, <1>2, Types
  <2>4. i' \in Nat /\ pc' \in {"stack", "enable"}
    BY <1>1, <1>2 DEF Round
  <2>5. paging' \in BOOLEAN
    BY <1>1, <1>2 DEF TypeOK
  <2> HIDE DEF v, W, T, c
  <2> QED BY <1>1, <1>2, <1>11, <2>1, <2>2, <2>3, <2>4, <2>5, TypeNext
<1>13. CounterOK'
  BY <1>1, <1>2 DEF CounterOK, Round, USER_STACK_PAGES
<1>14. FreeOK'
  <2>1. AllocatedBy(LowFree', FirstFree', 37 + i + 1)
    <3>1. 37 + i \in Nat
      BY <1>2
    <3> QED BY <1>4, <1>9, <1>11, <3>1, AllocatedNext
  <2>2. CASE pc' = "stack" /\ i' = i + 1
    <3>1. Allocated(37 + i)'
      BY <2>1, <2>2, <1>2 DEF Allocated, AllocatedBy
    <3> QED BY <2>2, <3>1 DEF FreeOK
  <2>3. CASE pc' = "enable" /\ i' = 0
    <3>1. Allocated(41)'
      <4>1. 37 + i + 1 \in Nat /\ 37 + i + 1 <= 41
        BY <1>2
      <4>2. AllocatedBy(LowFree', FirstFree', 41)
        BY <2>1, <1>11, <4>1, AllocatedMore
      <4> QED BY <4>2 DEF Allocated, AllocatedBy
    <3> QED BY <2>3, <3>1 DEF FreeOK
  <2> QED BY <2>2, <2>3, <1>1 DEF Round
<1>15. VmmFrames \subseteq VmmFrames'
  BY <1>9, <1>11, VmmNext
<1>16. TablesOK'
  <2>1. HasDir' /\ pc' \notin {"tables", "done"}
    BY <1>1 DEF HasDir, PmmReady, Round
  <2>2. FramebufferEntries' = FramebufferEntries
    BY <1>1 DEF FramebufferEntries
  <2>3. First \subseteq DOMAIN W[c] /\ DOMAIN W[c] \subseteq First \cup FramebufferEntries'
    <3>1. First \subseteq DOMAIN T[c] /\ DOMAIN T[c] \subseteq First \cup FramebufferEntries
      BY <1>1, <1>2, <1>5 DEF Layout, TablesOK, First
    <3> QED BY <1>10, <2>2, <3>1
  <2> HIDE DEF v
  <2> QED BY <1>1, <1>5, <1>7, <1>10, <1>15, <2>1, <2>3, TablesNext
<1>17. /\ FramebufferPages' = FramebufferPages /\ CodePages = {} /\ CodePages' = {}
       /\ StackPages' = StackPages \cup {v} /\ v \notin StackPages \cup FramebufferPages \cup IdentityPages
  <2>1. CodePages = 1024 .. 1024 - 1 + 0 /\ CodePages' = 1024 .. 1024 - 1 + 0
    BY <1>1, Numbers DEF CodePages, Round
  <2>2. FramebufferPages' = FramebufferPages /\ FramebufferPages = fb[1] .. fb[1] + fb[2] - 1
    BY <1>1 DEF FramebufferPages, Round
  <2>3. USER_STACK_PAGES = 4 /\ USER_STACK_TOP \in Nat
    BY SMT DEF USER_STACK_PAGES, USER_STACK_TOP
  <2>4. StackPages = USER_STACK_TOP - i .. USER_STACK_TOP - 1
    BY <1>1 DEF StackPages
  <2>5. StackPages' = USER_STACK_TOP - (i + 1) .. USER_STACK_TOP - 1
    BY <1>1, <1>2, <2>3 DEF StackPages, Round
  <2>6. StackPages' = StackPages \cup {v} /\ v \notin StackPages
    BY <1>2, <2>3, <2>4, <2>5
  <2>7. v \notin IdentityPages
    BY <1>6, IdentityRange
  <2>8. v \notin FramebufferPages
    <3>1. /\ fb[1] \in Nat /\ fb[2] \in Nat
          /\ \A k \in Nat : k < fb[2] => fb[1] + k < USER_STACK_TOP - 4 \/ USER_STACK_TOP <= fb[1] + k
      BY <1>2, <2>3, FramebufferBounds
    <3>2. SUFFICES ASSUME v \in FramebufferPages PROVE FALSE
      OBVIOUS
    <3>3. v - fb[1] \in Nat /\ v - fb[1] < fb[2] /\ fb[1] + (v - fb[1]) = v
      <4> HIDE DEF v
      <4> QED BY <2>2, <3>1, <3>2, <1>6
    <3>4. v < USER_STACK_TOP - 4 \/ USER_STACK_TOP <= v
      <4> HIDE DEF v
      <4> QED BY <3>1, <3>3
    <3> QED BY <3>4, <1>2, <2>3
  <2> HIDE DEF v
  <2> QED BY <2>1, <2>2, <2>6, <2>7, <2>8, NoPages
<1>18. /\ MappedPages = IdentityPages \cup FramebufferPages \cup StackPages
       /\ \A w \in IdentityPages \cup FramebufferPages : Pte(w) = [frame |-> w, user |-> FALSE]
       /\ \A w \in StackPages :
             /\ Pte(w).user /\ Pte(w).frame \notin HeapFrames
             /\ Pte(w).frame \in (FirstFree .. USER_CODE_BASE - 1) \ (free \cup TableFrames \cup {c})
       /\ \A x, w \in StackPages : Pte(x).frame = Pte(w).frame => x = w
  BY <1>2, <1>17 DEF Layout, PagesOK
<1>19. PagesOK'
  <2>1. \A w \in MappedPages : Pte(w)' = Pte(w)
    <3>1. \A w \in MappedPages : w # v
      <4> HIDE DEF v
      <4> QED BY <1>17, <1>18
    <3> HIDE DEF v
    <3> QED BY <1>1, <1>10, <3>1, Views
  <2>2. /\ \A w : w = v => Pte(w)' = [frame |-> f, user |-> TRUE]
        /\ MappedPages' = MappedPages \cup {v}
    <3> HIDE DEF v
    <3> QED BY <1>1, <1>10, Views
  <2>3. HeapFrames' = HeapFrames /\ TableFrames' = TableFrames /\ IdentityPages' = IdentityPages
    BY <1>1, <1>10, Views DEF HeapFrames, IdentityPages, ReservedBy
  <2>4. f \notin HeapFrames /\ f \in FirstFree .. USER_CODE_BASE - 1 /\ f \notin TableFrames /\ f # c
    <3>1. f \notin TableFrames /\ f # c
      BY <1>4, <1>5, Views
    <3>2. \A x \in HeapFrames : x >= 512
      BY <1>2, HeapBounds
    <3> QED BY <1>4, <1>11, <3>1, <3>2
  <2>5. MappedPages' = IdentityPages \cup FramebufferPages' \cup StackPages'
    BY <1>17, <1>18, <2>2
  <2>6. \A w \in IdentityPages \cup FramebufferPages' : Pte(w)' = [frame |-> w, user |-> FALSE]
    BY <1>17, <1>18, <2>1
  <2>7. ASSUME NEW w \in StackPages'
        PROVE  /\ Pte(w)'.user /\ Pte(w)'.frame \notin HeapFrames
               /\ Pte(w)'.frame \in (FirstFree .. USER_CODE_BASE - 1) \ (free' \cup TableFrames \cup {c})
               /\ w # v => Pte(w)' = Pte(w) /\ w \in StackPages
    <3>1. CASE w = v
      <4> HIDE DEF v
      <4>1. Pte(w)'.user /\ Pte(w)'.frame = f
        BY <3>1, <2>2
      <4> HIDE DEF c
      <4> QED BY <3>1, <4>1, <2>4, <1>9
    <3>2. CASE w # v
      <4>1. w \in StackPages /\ Pte(w)' = Pte(w)
        <5> HIDE DEF v
        <5> QED BY <3>2, <1>17, <1>18, <2>1
      <4> HIDE DEF v
      <4> QED BY <1>9, <1>18, <4>1, <3>2
    <3> QED BY <3>1, <3>2
  <2>8. ASSUME NEW x \in StackPages', NEW w \in StackPages', Pte(x)'.frame = Pte(w)'.frame PROVE x = w
    <3>1. \A y \in StackPages : Pte(y).frame # f
      BY <1>4, <1>18
    <3>2. w = v => Pte(w)'.frame = f
      BY <2>2
    <3>3. x = v => Pte(x)'.frame = f
      BY <2>2
    <3> HIDE DEF v
    <3> QED BY <1>18, <2>7, <2>8, <3>1, <3>2, <3>3
  <2>9. pc' \notin {"tables", "identity"} /\ Filled' /\ USER_CODE_BASE' = USER_CODE_BASE
    BY <1>1 DEF Round, Filled, HasDir, PmmReady, USER_CODE_BASE
  <2>10. \A w \in StackPages' : /\ Pte(w)'.user /\ Pte(w)'.frame \notin HeapFrames'
                                /\ Pte(w)'.frame \in (FirstFree' .. USER_CODE_BASE - 1)
                                                     \ (free' \cup TableFrames' \cup {current_dir'})
    BY <1>1, <1>11, <2>3, <2>7
  <2>11. \A x, w \in StackPages' : Pte(x)'.frame = Pte(w)'.frame => x = w
    BY <2>8
  <2> HIDE DEF v
  <2> QED BY <1>17, <2>3, <2>5, <2>6, <2>9, <2>10, <2>11 DEF PagesOK
<1>20. DataOK'
  BY <1>1, <1>17 DEF DataOK, Round
<1> QED BY <1>12, <1>13, <1>14, <1>16, <1>19, <1>20 DEF Layout

\* The program takes no more than the heap has pages.
LEMMA CodeRange ==
    ASSUME Ordinary, Layout
    PROVE  \A v \in CodePages : v \in Nat /\ 1024 <= v /\ v < 1280
<1>1. i \in Nat /\ (pc = "load" => i < Pages) /\ Pages \in Nat /\ Pages <= 256
  BY Types, HeapBounds DEF Layout, CounterOK
<1> DEFINE n == CASE pc = "load" -> i [] pc \in {"user_bit", "done"} -> Pages [] OTHER -> 0
<1>2. n \in Nat /\ n <= 256
  BY <1>1
<1>3. CodePages = USER_CODE_BASE .. USER_CODE_BASE - 1 + n
  BY DEF CodePages
<1>4. USER_CODE_BASE = 1024
  BY Numbers
<1> HIDE DEF n
<1> SUFFICES ASSUME NEW v \in CodePages PROVE v \in Nat /\ 1024 <= v /\ v < 1280
  OBVIOUS
<1> QED BY <1>2, <1>3, <1>4

\* A step that maps nothing, gives no frame back and lets the directory lead
\* to the same tables.
Keeps ==
    /\ UNCHANGED <<mmap, memory_size, link, fb, size, current_dir>> /\ free' \subseteq free
    /\ Filled /\ Filled' /\ pc # "fb" /\ pc' # "fb" /\ pc # "stack" /\ pc' # "stack"
    /\ SameTables(tables, current_dir, tables')

LEMMA KeepsPages ==
    ASSUME Ordinary, Layout, Keeps, CodePages' = CodePages
    PROVE  /\ PagesOK' /\ \A v \in CodePages : Pte(v)' = Pte(v)
<1> DEFINE T == tables
           c == current_dir
           W == tables'
<1>1. /\ UNCHANGED <<mmap, memory_size, link, fb, size>> /\ c' = c /\ free' \subseteq free /\ Filled /\ Filled'
      /\ FramesOf(W, c) = FramesOf(T, c) /\ MappedBy(W, c) = MappedBy(T, c)
      /\ \A w \in MappedBy(T, c) : PteOf(W, c, w) = PteOf(T, c, w)
  BY DEF Keeps, SameTables
<1>2. MappedPages' = MappedPages /\ TableFrames' = TableFrames /\ \A w \in MappedPages : Pte(w)' = Pte(w)
  <2> HIDE DEF W, T
  <2> QED BY <1>1, Views DEF W, T
<1>3. /\ MappedPages = IdentityPages \cup FramebufferPages \cup StackPages
      /\ \A v \in (IdentityPages \ CodePages) \cup FramebufferPages :
            Pte(v) = [frame |-> v, user |-> FALSE]
      /\ \A v \in CodePages \cup StackPages :
            /\ Pte(v).user
            /\ Pte(v).frame \in (FirstFree .. USER_CODE_BASE - 1) \ (free \cup TableFrames \cup {current_dir})
            /\ Pte(v).frame \notin HeapFrames
      /\ \A v, w \in CodePages \cup StackPages : Pte(v).frame = Pte(w).frame => v = w
  BY <1>1 DEF Layout, PagesOK
<1>4. CodePages \subseteq IdentityPages
  <2> SUFFICES ASSUME NEW v \in CodePages PROVE v \in IdentityPages
    OBVIOUS
  <2>1. v \in Nat /\ v < 1280
    BY CodeRange
  <2> QED BY <2>1, IdentityRange
<1>5. FramebufferPages' = FramebufferPages
  BY <1>1 DEF Keeps, FramebufferPages
<1>6. StackPages' = StackPages
  BY DEF Keeps, StackPages
<1>7. FirstFree' = FirstFree /\ HeapFrames' = HeapFrames /\ IdentityPages' = IdentityPages
  BY <1>1, Fixed DEF HeapFrames, IdentityPages, ReservedBy
<1>8. pc' \notin {"tables", "identity"}
  BY <1>1 DEF Filled
<1>9. \A v \in (IdentityPages \ CodePages) \cup FramebufferPages \cup CodePages \cup StackPages : Pte(v)' = Pte(v)
  BY <1>2, <1>3, <1>4
<1>10. \A v \in CodePages \cup StackPages :
            /\ Pte(v)'.user
            /\ Pte(v)'.frame \in (FirstFree .. USER_CODE_BASE - 1) \ (free' \cup TableFrames \cup {current_dir})
            /\ Pte(v)'.frame \notin HeapFrames
  <2> SUFFICES ASSUME NEW v \in CodePages \cup StackPages
               PROVE  /\ Pte(v)'.user
                      /\ Pte(v)'.frame \in (FirstFree .. USER_CODE_BASE - 1) \ (free' \cup TableFrames \cup {current_dir})
                      /\ Pte(v)'.frame \notin HeapFrames
    OBVIOUS
  <2>1. Pte(v)' = Pte(v)
    BY <1>9
  <2> QED BY <2>1, <1>1, <1>3
<1>11. \A v \in (IdentityPages \ CodePages) \cup FramebufferPages : Pte(v)' = [frame |-> v, user |-> FALSE]
  BY <1>3, <1>9
<1>12. \A v, w \in CodePages \cup StackPages : Pte(v)'.frame = Pte(w)'.frame => v = w
  BY <1>3, <1>9
<1>13. \A v \in CodePages : Pte(v)' = Pte(v)
  BY <1>9
<1>14. \A v \in CodePages' \cup StackPages' :
            /\ Pte(v)'.user
            /\ Pte(v)'.frame \in (FirstFree' .. USER_CODE_BASE - 1) \ (free' \cup TableFrames' \cup {current_dir'})
            /\ Pte(v)'.frame \notin HeapFrames'
  BY <1>1, <1>2, <1>6, <1>7, <1>10
<1>15. MappedPages' = IdentityPages' \cup FramebufferPages' \cup StackPages'
  BY <1>2, <1>3, <1>5, <1>6, <1>7
<1>16. \A v \in (IdentityPages' \ CodePages') \cup FramebufferPages' : Pte(v)' = [frame |-> v, user |-> FALSE]
  BY <1>5, <1>7, <1>11
<1>17. \A v, w \in CodePages' \cup StackPages' : Pte(v)'.frame = Pte(w)'.frame => v = w
  BY <1>6, <1>12
<1>18. PagesOK'
  BY <1>8, <1>14, <1>15, <1>16, <1>17 DEF PagesOK
<1> QED BY <1>13, <1>18

LEMMA KeepsTables ==
    ASSUME Ordinary, Layout, Keeps, DOMAIN tables'[current_dir] = DOMAIN tables[current_dir],
           tables'[current_dir][767] = tables[current_dir][767],
           pc' = "done" => tables'[current_dir][USER_CODE_BASE \div ENTRIES].user
    PROVE  TablesOK' /\ IsTables(tables')
<1>1. /\ UNCHANGED <<mmap, memory_size, link, fb, size>> /\ current_dir' = current_dir /\ free' \subseteq free
      /\ HasDir /\ HasDir' /\ pc \notin {"tables", "identity"} /\ pc' \notin {"tables", "identity"}
      /\ FramesOf(tables', current_dir) = FramesOf(tables, current_dir)
      /\ Good(tables', current_dir)
  BY DEF Keeps, SameTables, Filled
<1>2. FirstFree' = FirstFree
  BY <1>1, Fixed
<1>3. VmmFrames \subseteq VmmFrames'
  BY <1>1, <1>2, VmmNext
<1>4. /\ Dir = tables[current_dir] /\ current_dir \in VmmFrames
      /\ FramesOf(tables, current_dir) \subseteq VmmFrames
  BY <1>1, InDir
<1>5. First \subseteq DOMAIN Dir /\ DOMAIN Dir \subseteq First \cup FramebufferEntries
  BY <1>1 DEF Layout, TablesOK, First
<1>6. 767 \in DOMAIN Dir => Dir[767].user
  BY <1>1 DEF Layout, TablesOK
<1>7. FramebufferEntries' = FramebufferEntries
  BY <1>1 DEF FramebufferEntries
<1>8. IsTables(tables')
  BY <1>1 DEF Good
<1> QED BY <1>1, <1>3, <1>4, <1>5, <1>6, <1>7, <1>8, TablesNext

LEMMA EnablePagingStep == ASSUME Ordinary, Layout, EnablePaging PROVE Layout'
<1>1. /\ pc = "enable" /\ pc' = "heap" /\ paging' = TRUE
      /\ UNCHANGED <<mmap, memory_size, link, free, i, fb, size, tables, data, current_dir>>
  BY DEF EnablePaging
<1>2. TypeOK /\ i = 0 /\ Allocated(41) /\ HasDir
  <2>1. TypeOK /\ i \in Nat
    BY Types DEF Layout
  <2> QED BY <2>1, <1>1 DEF Layout, CounterOK, FreeOK, HasDir, PmmReady
<1>3. Good(tables, current_dir) /\ Dir = tables[current_dir]
  BY <1>2, InDir
<1>4. Keeps
  BY <1>1, <1>3 DEF Keeps, SameTables, Filled, HasDir, PmmReady
<1>5. CodePages' = CodePages
  BY <1>1 DEF CodePages
<1>6. PagesOK' /\ \A v \in CodePages : Pte(v)' = Pte(v)
  BY <1>4, <1>5, KeepsPages
<1>7. TablesOK'
  BY <1>1, <1>4, KeepsTables
<1>8. TypeOK'
  BY <1>1, <1>2 DEF TypeOK
<1>9. CounterOK'
  BY <1>1, <1>2 DEF CounterOK
<1>10. FreeOK'
  <2>1. FirstFree' = FirstFree
    BY <1>1, Fixed
  <2>2. Allocated(41)'
    BY <1>1, <1>2, <2>1 DEF Allocated, LowFree
  <2> QED BY <1>1, <2>2 DEF FreeOK
<1>11. DataOK'
  <2>1. \A v \in CodePages : Pte(v).frame \in DOMAIN data /\ data[Pte(v).frame] = v - USER_CODE_BASE
    BY <1>4 DEF Layout, DataOK, Keeps
  <2> QED BY <1>1, <1>5, <1>6, <2>1 DEF DataOK
<1> QED BY <1>6, <1>7, <1>8, <1>9, <1>10, <1>11 DEF Layout

\* The program's frames hold what they held, wherever else data were written.
LEMMA DataKept ==
    ASSUME Layout, Keeps, CodePages' = CodePages, \A v \in CodePages : Pte(v)' = Pte(v),
           \A v \in CodePages : /\ Pte(v).frame \in DOMAIN data'
                                /\ data'[Pte(v).frame] = data[Pte(v).frame],
           pc' = "load" => \A v \in ProgramPages' : v \in DOMAIN data' /\ data'[v] = PROGRAM
    PROVE  DataOK'
<1>1. \A v \in CodePages : Pte(v).frame \in DOMAIN data /\ data[Pte(v).frame] = v - USER_CODE_BASE
  BY DEF Layout, DataOK, Keeps
<1>2. \A v \in CodePages' : Pte(v)'.frame \in DOMAIN data' /\ data'[Pte(v)'.frame] = v - USER_CODE_BASE
  BY <1>1
<1> QED BY <1>2 DEF DataOK, PROGRAM

\* Frames from the heap's first page on hold no page table.
LEMMA DropHigh ==
    ASSUME Ordinary, Layout, HasDir, NEW S, \A f \in S : f \notin VmmFrames
    PROVE  /\ SameTables(tables, current_dir, Without(tables, S))
           /\ Without(tables, S)[current_dir] = tables[current_dir]
<1>1. /\ Good(tables, current_dir) /\ current_dir \in VmmFrames
      /\ FramesOf(tables, current_dir) \subseteq VmmFrames
  BY InDir
<1>2. current_dir \notin S /\ FramesOf(tables, current_dir) \cap S = {}
  BY <1>1
<1> HIDE DEF Layout
<1> DEFINE T == tables
           c == current_dir
<1>3. Good(T, c) /\ c \notin S /\ FramesOf(T, c) \cap S = {}
  BY <1>1, <1>2
<1> HIDE DEF T, c
<1>4. SameTables(T, c, Without(T, S)) /\ Without(T, S)[c] = T[c]
  BY <1>3, DropFrames
<1> QED BY <1>4 DEF T, c

LEMMA ReserveHeapStep == ASSUME Ordinary, Layout, ReserveHeap PROVE Layout'
<1>1. /\ pc = "heap" /\ pc' = "read"
      /\ tables' = Without(tables, {Reached(HEAP)}) /\ free' = free \ HeapFrames
      /\ UNCHANGED <<mmap, memory_size, link, i, fb, size, data, current_dir, paging>>
  BY DEF ReserveHeap, HeapFrames
<1>2. TypeOK /\ i = 0 /\ Allocated(41) /\ HasDir /\ paging /\ HEAP = 512 /\ USER_CODE_BASE = 1024
  <2>1. TypeOK /\ i \in Nat
    BY Types DEF Layout
  <2> QED BY <2>1, <1>1, Numbers DEF Layout, CounterOK, FreeOK, HasDir, PmmReady
<1>3. Reached(HEAP) = HEAP /\ HEAP \notin VmmFrames
  BY <1>2, ReachedLow DEF VmmFrames
<1>4. SameTables(tables, current_dir, tables') /\ tables'[current_dir] = tables[current_dir]
  BY <1>1, <1>2, <1>3, DropHigh
<1>5. Keeps
  BY <1>1, <1>4 DEF Keeps, Filled, HasDir, PmmReady
<1>6. CodePages' = CodePages
  BY <1>1 DEF CodePages
<1>7. PagesOK' /\ \A v \in CodePages : Pte(v)' = Pte(v)
  BY <1>5, <1>6, KeepsPages
<1>8. TablesOK' /\ IsTables(tables')
  BY <1>1, <1>4, <1>5, KeepsTables
<1>9. TypeOK'
  <2>1. DOMAIN data' \subseteq Nat /\ \A x \in DOMAIN data' : data'[x] \in Int
    BY <1>1, <1>2 DEF TypeOK
  <2>2. free' \subseteq Nat /\ i' \in Nat /\ current_dir' \in Nat
    BY <1>1, <1>2, Types
  <2> QED BY <1>1, <1>2, <1>8, <2>1, <2>2, TypeNext
<1>10. CounterOK'
  BY <1>1, <1>2 DEF CounterOK
<1>11. FreeOK'
  <2>1. PICK p \in FirstFree .. FirstFree + 41 : LowFree = p .. 1023
    BY <1>2 DEF Allocated
  <2>2. FirstFree' = FirstFree /\ FirstFree \in Nat /\ FirstFree <= 471
    BY <1>1, <1>2, Fixed, Bounds
  <2>3. \A f : f \in HeapFrames <=> f \in Nat /\ 512 <= f /\ f < 768
    BY <1>2, HeapBounds
  <2>4. p \in FirstFree .. 512
    BY <2>1, <2>2
  <2>5. \A f : f \in LowFree' <=> f \in LowFree /\ f \notin HeapFrames
    BY <1>1 DEF LowFree
  <2>6. ASSUME NEW f
        PROVE  f \in LowFree' <=> f \in p .. HEAP - 1 \cup HEAP + 256 .. USER_CODE_BASE - 1
    <3>1. p \in Nat
      BY <2>1, <2>2
    <3>2. f \in LowFree <=> f \in Nat /\ p <= f /\ f <= 1023
      BY <2>1, <3>1
    <3>3. f \in LowFree' <=> f \in Nat /\ p <= f /\ f <= 1023 /\ ~ (512 <= f /\ f < 768)
      BY <2>3, <2>5, <3>2
    <3> QED BY <1>2, <2>4, <3>1, <3>3
  <2>7. LowFree' = p .. HEAP - 1 \cup HEAP + 256 .. USER_CODE_BASE - 1 /\ p \in FirstFree' .. HEAP
    BY <2>6, <2>4, <2>2, <1>2
  <2> QED BY <2>7, <1>1 DEF FreeOK
<1>12. DataOK'
  <2>1. \A v \in CodePages : Pte(v).frame \in DOMAIN data
    BY <1>5 DEF Layout, DataOK, Keeps
  <2> QED BY <1>1, <1>5, <1>6, <1>7, <2>1, DataKept
<1> QED BY <1>7, <1>8, <1>9, <1>10, <1>11, <1>12 DEF Layout

LEMMA ReadProgramStep == ASSUME Ordinary, Layout, ReadProgram PROVE Layout'
<1> DEFINE H == ProgramPages
           S == {Reached(v) : v \in H}
           R == S \cup {Reached(v) : v \in HeaderPages}
<1>1. /\ pc = "read" /\ pc' \in {"load", "bad_magic"}
      /\ tables' = Without(tables, R)
      /\ data' = [f \in DOMAIN data \cup S |-> IF f \in S THEN PROGRAM ELSE data[f]]
      /\ UNCHANGED <<mmap, memory_size, link, i, fb, size, current_dir, paging>>
  BY DEF ReadProgram
<1>2. TypeOK /\ i = 0 /\ HasDir /\ paging /\ HEAP = 512 /\ USER_CODE_BASE = 1024
  <2>1. TypeOK /\ i \in Nat
    BY Types DEF Layout
  <2> QED BY <2>1, <1>1, Numbers DEF Layout, CounterOK, HasDir, PmmReady
<1>3. /\ \A f \in H : f \in Nat /\ 512 <= f /\ f < 1024
      /\ Pages \in Nat /\ Pages >= 1 /\ Overwritten = {}
  BY <1>2, HeapBounds
<1>4. free' = free
  BY <1>3 DEF ReadProgram
<1>5. \A v \in H : Reached(v) = v
  BY <1>3, ReachedLow
<1>6. S = H
  BY <1>5
<1>7. \A f \in R : f \notin VmmFrames
  <2>1. ASSUME NEW v \in HeaderPages PROVE Reached(v) \in Nat /\ 512 <= Reached(v)
    <3>1. v \in Nat /\ 512 <= v /\ v < 1024
      BY <1>2, HeapBounds
    <3> QED BY <3>1, ReachedLow
  <2>2. \A f \in R : f \in Nat /\ 512 <= f
    BY <1>3, <1>6, <2>1
  <2> HIDE DEF R
  <2> QED BY <1>2, <2>2 DEF VmmFrames
<1> HIDE DEF H, S, R
<1>8. SameTables(tables, current_dir, tables') /\ tables'[current_dir] = tables[current_dir]
  BY <1>1, <1>2, <1>7, DropHigh
<1>9. Keeps
  BY <1>1, <1>4, <1>8 DEF Keeps, Filled, HasDir, PmmReady
<1>10. CodePages' = {} /\ CodePages = {}
  <2>1. CodePages' = 1024 .. 1024 - 1 + 0 /\ CodePages = 1024 .. 1024 - 1 + 0
    BY <1>1, <1>2 DEF CodePages
  <2> QED BY <2>1, NoPages
<1>11. PagesOK'
  BY <1>9, <1>10, KeepsPages
<1>12. TablesOK' /\ IsTables(tables')
  BY <1>1, <1>8, <1>9, KeepsTables
<1>13. DOMAIN data' = DOMAIN data \cup S /\ \A f \in DOMAIN data' : data'[f] = IF f \in S THEN PROGRAM ELSE data[f]
  BY <1>1
<1>14. TypeOK'
  <2>1. DOMAIN data' \subseteq Nat
    BY <1>2, <1>3, <1>6, <1>13 DEF TypeOK
  <2>2. PROGRAM \in Int
    BY DEF PROGRAM
  <2>3. \A x \in DOMAIN data' : data'[x] \in Int
    BY <1>2, <1>13, <2>2 DEF TypeOK
  <2>4. free' \subseteq Nat /\ i' \in Nat /\ current_dir' \in Nat
    BY <1>1, <1>2, <1>4, Types
  <2> QED BY <1>1, <1>2, <1>12, <2>1, <2>3, <2>4, TypeNext DEF Ended
<1>15. CounterOK'
  <2>1. Pages' = Pages
    BY <1>1, Fixed
  <2> QED BY <1>1, <1>2, <1>3, <2>1 DEF CounterOK
<1>16. FreeOK'
  <2>1. PICK p \in FirstFree .. HEAP :
           LowFree = p .. HEAP - 1 \cup HEAP + 256 .. USER_CODE_BASE - 1
    BY <1>1 DEF Layout, FreeOK
  <2>2. FirstFree' = FirstFree /\ LowFree' = LowFree
    BY <1>1, <1>4, Fixed DEF LowFree
  <2> QED BY <2>1, <2>2, <1>1 DEF FreeOK
<1>17. DataOK'
  <2>1. ProgramPages' = H
    BY <1>1, Fixed DEF H
  <2>2. \A v \in H : v \in DOMAIN data' /\ data'[v] = PROGRAM
    BY <1>6, <1>13
  <2> QED BY <1>10, <2>1, <2>2 DEF DataOK, PROGRAM
<1> QED BY <1>11, <1>12, <1>14, <1>15, <1>16, <1>17 DEF Layout

LEMMA SetUserBitStep == ASSUME Ordinary, Layout, SetUserBit PROVE Layout'
<1> DEFINE T == tables
           c == current_dir
           k == USER_CODE_BASE \div ENTRIES
<1>1. /\ pc = "user_bit" /\ pc' = "done"
      /\ UNCHANGED <<mmap, memory_size, link, free, i, fb, size, data, current_dir, paging>>
  BY DEF SetUserBit
<1>2. TypeOK /\ i = 0 /\ HasDir /\ paging
  <2>1. TypeOK /\ i \in Nat
    BY Types DEF Layout
  <2> QED BY <2>1, <1>1 DEF Layout, CounterOK, HasDir, PmmReady
<1>3. Good(T, c) /\ Dir = T[c] /\ c \in VmmFrames
  BY <1>2, InDir
<1>4. Reached(c) = c
  <2>1. FirstFree \in Nat /\ HEAP = 512
    BY <1>2, Bounds, Numbers
  <2> QED BY <1>3, <2>1, ReachedLow DEF VmmFrames
<1>5. tables' = WithEntry(T, c, k, T[c][k].frame, TRUE)
  BY <1>4 DEF SetUserBit
<1>6. k = 1 /\ k \in DOMAIN T[c]
  <2>1. First \subseteq DOMAIN T[c]
    BY <1>1, <1>2, <1>3 DEF Layout, TablesOK, First
  <2>2. k = 1 /\ IDENTITY_TABLES = 32
    BY Numbers
  <2>3. Preallocated(1) = 1 /\ 1 \in 0 .. IDENTITY_TABLES + 1
    BY <2>2 DEF Preallocated
  <2>4. 1 \in First
    BY <2>3 DEF First
  <2> HIDE DEF k
  <2> QED BY <2>1, <2>2, <2>4
<1>7. /\ SameTables(T, c, tables') /\ DOMAIN tables'[c] = DOMAIN T[c] /\ tables'[c][k].user
      /\ \A x \in DOMAIN T[c] \ {k} : tables'[c][x] = T[c][x]
  <2> HIDE DEF T, c, k
  <2>1. LET W == WithEntry(T, c, k, T[c][k].frame, TRUE)
        IN  /\ SameTables(T, c, W) /\ DOMAIN W[c] = DOMAIN T[c] /\ W[c][k].user
            /\ \A x \in DOMAIN T[c] \ {k} : W[c][x] = T[c][x]
    BY <1>3, <1>6, PutUser
  <2> QED BY <1>5, <2>1
<1>8. Keeps
  BY <1>1, <1>7 DEF Keeps, Filled, HasDir, PmmReady
<1>9. CodePages' = CodePages
  <2>1. Pages' = Pages
    BY <1>1, Fixed
  <2> QED BY <1>1, <2>1 DEF CodePages
<1>10. PagesOK' /\ \A v \in CodePages : Pte(v)' = Pte(v)
  BY <1>8, <1>9, KeepsPages
<1>11. TablesOK' /\ IsTables(tables')
  <2>1. 767 \in DOMAIN T[c]
    <3>1. First \subseteq DOMAIN T[c]
      BY <1>1, <1>2, <1>3 DEF Layout, TablesOK, First
    <3>2. 767 \in First
      BY Numbers DEF First, Preallocated
    <3> QED BY <3>1, <3>2
  <2>2. tables'[c][767] = T[c][767]
    BY <1>6, <1>7, <2>1
  <2> QED BY <1>7, <1>8, <2>2, KeepsTables
<1>12. TypeOK'
  <2>1. DOMAIN data' \subseteq Nat /\ \A x \in DOMAIN data' : data'[x] \in Int
    BY <1>1, <1>2 DEF TypeOK
  <2>2. free' \subseteq Nat /\ i' \in Nat /\ current_dir' \in Nat
    BY <1>1, <1>2, Types
  <2> QED BY <1>1, <1>2, <1>11, <2>1, <2>2, TypeNext DEF Ended
<1>13. CounterOK'
  BY <1>1, <1>2 DEF CounterOK
<1>14. FreeOK'
  <2>1. FirstFree' = FirstFree /\ LowFree' = LowFree /\ Pages' = Pages
    BY <1>1, Fixed DEF LowFree
  <2> QED BY <2>1, <1>1 DEF Layout, FreeOK
<1>15. DataOK'
  <2>1. \A v \in CodePages : Pte(v).frame \in DOMAIN data
    BY <1>8 DEF Layout, DataOK, Keeps
  <2> QED BY <1>1, <1>8, <1>9, <1>10, <2>1, DataKept
<1> QED BY <1>10, <1>11, <1>12, <1>13, <1>14, <1>15 DEF Layout

\* The frames below 4 MB that are free while the program's first n pages have
\* frames: on both sides of the heap, or behind it.
LeftFor(L, n) ==
    \/ \E p \in FirstFree .. HEAP : L = p .. HEAP - 1 \cup HEAP + 256 .. USER_CODE_BASE - 1
    \/ \E p \in 0 .. n : L = HEAP + 256 + p .. USER_CODE_BASE - 1

LEMMA TakeLow ==
    ASSUME Ordinary, TypeOK, NEW p \in LowFree, \A g \in LowFree : p <= g, NEW f \in pmm_alloc(free)
    PROVE  f = p /\ f \in free /\ f \in Nat /\ f < USER_CODE_BASE
<1>1. p \in free /\ p \in Nat /\ p < USER_CODE_BASE /\ free \subseteq Nat /\ USER_CODE_BASE = 1024
  BY Numbers, Types DEF LowFree
<1>2. \A g \in free : g < USER_CODE_BASE => p <= g
  BY <1>1 DEF LowFree
<1>3. pmm_alloc(free) = {p}
  BY <1>1, <1>2, Alloc
<1> QED BY <1>1, <1>3

LEMMA LoadTake ==
    ASSUME Ordinary, Layout, pc = "load", NEW f \in pmm_alloc(free)
    PROVE  /\ f \in free /\ f \in Nat /\ f \in FirstFree .. USER_CODE_BASE - 1
           /\ f \notin HeapFrames /\ f \notin VmmFrames
           /\ LeftFor((free \ {f}) \cap 0 .. USER_CODE_BASE - 1, i + 1)
<1>1. TypeOK /\ i \in Nat /\ i < Pages /\ Pages \in Nat /\ Pages <= 256
  <2>1. TypeOK
    BY DEF Layout
  <2> QED BY <2>1, Types, HeapBounds DEF Layout, CounterOK
<1>2. FirstFree \in Nat /\ FirstFree <= 471 /\ HEAP = 512 /\ USER_CODE_BASE = 1024
  BY <1>1, Bounds, Numbers
<1>3. \A g : g \in HeapFrames <=> g \in Nat /\ 512 <= g /\ g < 768
  BY <1>1, HeapBounds
<1>4. \A g \in free : g \notin VmmFrames
  BY DEF VmmFrames
<1> DEFINE L == (free \ {f}) \cap 0 .. USER_CODE_BASE - 1
<1>5. L = LowFree \ {f}
  BY DEF LowFree
<1>6. ASSUME NEW p \in FirstFree .. HEAP,
             LowFree = p .. HEAP - 1 \cup HEAP + 256 .. USER_CODE_BASE - 1
      PROVE  f \in free /\ f \in FirstFree .. USER_CODE_BASE - 1 /\ f \notin HeapFrames /\ LeftFor(L, i + 1)
  <2>1. CASE p < HEAP
    <3>1. p \in LowFree /\ \A g \in LowFree : p <= g
      BY <1>2, <1>6, <2>1
    <3>2. f = p /\ f \in free
      BY <1>1, <3>1, TakeLow
    <3>3. f \in FirstFree .. USER_CODE_BASE - 1 /\ f \notin HeapFrames
      BY <1>2, <1>3, <2>1, <3>2
    <3>4. p + 1 \in FirstFree .. HEAP
      BY <1>2, <2>1
    <3>5. L = p + 1 .. HEAP - 1 \cup HEAP + 256 .. USER_CODE_BASE - 1
      <4> HIDE DEF L
      <4>1. ASSUME NEW g
            PROVE  g \in L <=> g \in p + 1 .. HEAP - 1 \cup HEAP + 256 .. USER_CODE_BASE - 1
        <5>1. g \in L <=> g \in LowFree /\ g # p
          BY <1>5, <3>2
        <5>2. p \in Nat
          BY <1>2
        <5> QED BY <5>1, <5>2, <1>2, <1>6, <2>1
      <4> QED BY <4>1
    <3> HIDE DEF L
    <3> QED BY <3>2, <3>3, <3>4, <3>5 DEF LeftFor
  <2>2. CASE p = HEAP
    <3> DEFINE q == HEAP + 256
    <3>1. LowFree = q .. USER_CODE_BASE - 1 /\ q = 768
      BY <1>2, <1>6, <2>2
    <3> HIDE DEF q
    <3>2. q \in LowFree /\ \A g \in LowFree : q <= g
      BY <1>2, <3>1
    <3>3. f = q /\ f \in free
      BY <1>1, <3>2, TakeLow
    <3>4. f \in FirstFree .. USER_CODE_BASE - 1 /\ f \notin HeapFrames
      BY <1>2, <1>3, <3>1, <3>3
    <3>5. L = q + 1 .. USER_CODE_BASE - 1
      <4> HIDE DEF L
      <4> QED BY <1>2, <1>5, <3>1, <3>3
    <3>6. 1 \in 0 .. i + 1
      BY <1>1
    <3> HIDE DEF L
    <3> QED BY <3>3, <3>4, <3>5, <3>6 DEF LeftFor, q
  <2> QED BY <2>1, <2>2, <1>2
<1>7. ASSUME NEW p \in 0 .. i, LowFree = HEAP + 256 + p .. USER_CODE_BASE - 1
      PROVE  f \in free /\ f \in FirstFree .. USER_CODE_BASE - 1 /\ f \notin HeapFrames /\ LeftFor(L, i + 1)
  <2> DEFINE q == HEAP + 256 + p
  <2>1. LowFree = q .. USER_CODE_BASE - 1 /\ q = 768 + p /\ p \in Nat /\ p <= 255
    BY <1>1, <1>2, <1>7
  <2>2. HEAP + 256 + (p + 1) = q + 1
    BY <1>2, <2>1
  <2> HIDE DEF q
  <2>3. q \in LowFree /\ \A g \in LowFree : q <= g
    BY <1>2, <2>1
  <2>4. f = q /\ f \in free
    BY <1>1, <2>3, TakeLow
  <2>5. f \in FirstFree .. USER_CODE_BASE - 1 /\ f \notin HeapFrames
    BY <1>2, <1>3, <2>1, <2>4
  <2>6. L = q + 1 .. USER_CODE_BASE - 1
    <3> HIDE DEF L
    <3> QED BY <1>2, <1>5, <2>1, <2>4
  <2>7. p + 1 \in 0 .. i + 1
    BY <1>1, <2>1
  <2> HIDE DEF L
  <2> QED BY <2>2, <2>4, <2>5, <2>6, <2>7 DEF LeftFor
<1>8. \/ \E p \in FirstFree .. HEAP : LowFree = p .. HEAP - 1 \cup HEAP + 256 .. USER_CODE_BASE - 1
      \/ \E p \in 0 .. i : LowFree = HEAP + 256 + p .. USER_CODE_BASE - 1
  BY DEF Layout, FreeOK
<1>9. f \in free /\ f \in FirstFree .. USER_CODE_BASE - 1 /\ f \notin HeapFrames /\ LeftFor(L, i + 1)
  <2> HIDE DEF L
  <2> QED BY <1>6, <1>7, <1>8
<1>10. f \in Nat
  BY <1>9, <1>1, Types
<1> QED BY <1>4, <1>9, <1>10

\* The part of the heap that is copied for page k of n lies in the program.
LEMMA SourceBytes ==
    ASSUME NEW s \in Nat, s >= 1, s <= 1048564, NEW k \in Nat, k < (s + 4096 - 1) \div 4096
    PROVE  LET l == IF k + 1 = (s + 4096 - 1) \div 4096 THEN s - 1 ELSE (k + 1) * 4096 - 1
           IN  /\ l \in Nat /\ k * 4096 \in Nat
               /\ (12 + k * 4096) \div 4096 >= 0 /\ (12 + l) \div 4096 <= (12 + (s - 1)) \div 4096
               /\ (12 + k * 4096) \div 4096 \in Int /\ (12 + l) \div 4096 \in Int
<1>1. CASE k + 1 = (s + 4096 - 1) \div 4096
  BY SMT, <1>1
<1>2. CASE k + 1 # (s + 4096 - 1) \div 4096
  <2>1. (k + 1) * 4096 - 1 <= s - 1 /\ (k + 1) * 4096 - 1 \in Nat
    BY SMT, <1>2
  <2> DEFINE l == (k + 1) * 4096 - 1
  <2>2. l \in Nat /\ l <= s - 1
    BY <2>1
  <2> HIDE DEF l
  <2>3. (12 + l) \div 4096 <= (12 + (s - 1)) \div 4096 /\ (12 + l) \div 4096 \in Int
    BY SMT, <2>2
  <2>4. (12 + k * 4096) \div 4096 >= 0 /\ (12 + k * 4096) \div 4096 \in Int /\ k * 4096 \in Nat
    BY SMT
  <2> QED BY <1>2, <2>2, <2>3, <2>4 DEF l
<1> QED BY <1>1, <1>2

LEMMA SourceIs == ASSUME Ordinary, Layout, pc = "load" PROVE Source = i
<1>1. TypeOK /\ i \in Nat /\ i < Pages /\ size \in Nat /\ size >= 1 /\ size <= 1048564
  <2>1. TypeOK
    BY DEF Layout
  <2>2. size \in Nat /\ size >= 1 /\ size <= 1048564
    BY SMT, <2>1, Types DEF HEAP_SIZE, HEADER_SIZE
  <2> QED BY <2>1, <2>2, Types DEF Layout, CounterOK
<1>2. Pages = (size + 4096 - 1) \div 4096
  BY DEF Pages, PAGE_SIZE
<1> DEFINE l == IF i + 1 = Pages THEN size - 1 ELSE (i + 1) * PAGE_SIZE - 1
<1>3. /\ (12 + i * 4096) \div 4096 >= 0 /\ (12 + l) \div 4096 <= (12 + (size - 1)) \div 4096
      /\ (12 + i * 4096) \div 4096 \in Int /\ (12 + l) \div 4096 \in Int
  BY <1>1, <1>2, SourceBytes DEF PAGE_SIZE
<1> HIDE DEF l
<1>4. /\ HeapPages(i * PAGE_SIZE, l) = 512 + (12 + i * 4096) \div 4096 .. 512 + (12 + l) \div 4096
      /\ ProgramPages = 512 + (12 + 0) \div 4096 .. 512 + (12 + (size - 1)) \div 4096
  BY DEF ProgramPages, HeapPages, HEAP, HEADER_SIZE, PAGE_SIZE
<1>5. HeapPages(i * PAGE_SIZE, l) \subseteq ProgramPages
  <2> DEFINE a == (12 + i * 4096) \div 4096
             b == (12 + l) \div 4096
             e == (12 + (size - 1)) \div 4096
  <2>1. a \in Int /\ b \in Int /\ e \in Int /\ a >= 0 /\ b <= e /\ (12 + 0) \div 4096 = 0
    BY <1>1, <1>3, ProgramRounding
  <2> HIDE DEF a, b, e
  <2>2. 512 + a .. 512 + b \subseteq 512 + 0 .. 512 + e
    BY <2>1
  <2> QED BY <1>4, <2>1, <2>2 DEF a, b, e
<1>6. \A v \in ProgramPages : v \in DOMAIN data /\ data[v] = PROGRAM /\ Reached(v) = v
  <2>1. \A v \in ProgramPages : v \in DOMAIN data /\ data[v] = PROGRAM
    BY DEF Layout, DataOK
  <2>2. \A v \in ProgramPages : v \in Nat /\ v < 1024
    BY <1>1, HeapBounds
  <2> QED BY <2>1, <2>2, ReachedLow
<1>7. \A v \in HeapPages(i * PAGE_SIZE, l) : Reached(v) \in DOMAIN data /\ data[Reached(v)] = PROGRAM
  BY <1>5, <1>6
<1> QED BY <1>7 DEF Source, l

LEMMA LoadPageStep == ASSUME Ordinary, Layout, LoadPage PROVE Layout'
<1> DEFINE T == tables
           c == current_dir
           W == tables'
           v == USER_CODE_BASE + i
<1>1. /\ pc = "load" /\ Round(Pages, "user_bit")
      /\ UNCHANGED <<mmap, memory_size, link, fb, size, current_dir, paging>>
  BY DEF LoadPage
<1>2. /\ TypeOK /\ i \in Nat /\ i < Pages /\ Pages \in Nat /\ Pages <= 256 /\ paging /\ HasDir /\ Filled
      /\ USER_CODE_BASE = 1024
  <2>1. TypeOK /\ i \in Nat
    BY Types DEF Layout
  <2>2. Pages \in Nat /\ Pages <= 256
    BY <2>1, HeapBounds
  <2> QED BY <2>1, <2>2, <1>1, Numbers DEF Layout, CounterOK, HasDir, PmmReady, Filled
<1>3. PICK f \in pmm_alloc(free) :
         /\ data' = Put(data, Reached(f), Source)
         /\ vmm_map_page(Without(tables, {Reached(f)}), free \ {f}, v, f, TRUE)
  BY DEF LoadPage
<1>4. /\ f \in free /\ f \in Nat /\ f \in FirstFree .. USER_CODE_BASE - 1
      /\ f \notin HeapFrames /\ f \notin VmmFrames
      /\ LeftFor((free \ {f}) \cap 0 .. USER_CODE_BASE - 1, i + 1)
  BY <1>1, LoadTake
<1>5. Good(T, c) /\ Dir = T[c] /\ c \in VmmFrames /\ FramesOf(T, c) \subseteq VmmFrames
  BY <1>2, InDir
<1>6. Reached(f) = f /\ Source = i
  <2>1. f < 1024
    BY <1>2, <1>4, Bounds
  <2> QED BY <1>1, <1>4, <2>1, ReachedLow, SourceIs
<1>7. data' = Put(data, f, i)
  BY <1>3, <1>6
<1> DEFINE X == Without(tables, {f})
<1>8. SameTables(T, c, X) /\ X[c] = T[c]
  <2>1. \A g \in {f} : g \notin VmmFrames
    BY <1>4
  <2> QED BY <1>2, <2>1, DropHigh
<1>9. v \in Nat /\ v \div ENTRIES = 1 /\ v \in IdentityPages
  <2>1. (1024 + i) \div 1024 = 1 /\ 1024 + i <= 32767 /\ 1024 + i \in Nat
    BY SMT, <1>2
  <2>2. ENTRIES = 1024
    BY Numbers
  <2> QED BY <1>2, <2>1, <2>2, IdentityRange
<1>10. First \subseteq DOMAIN T[c] /\ DOMAIN T[c] \subseteq First \cup FramebufferEntries /\ T[c][767].user
       /\ 1 \in DOMAIN T[c]
  <2>1. First \subseteq DOMAIN T[c] /\ DOMAIN T[c] \subseteq First \cup FramebufferEntries
    BY <1>1, <1>2, <1>5 DEF Layout, TablesOK, First
  <2>2. 767 \in First /\ 1 \in First
    <3>1. /\ Preallocated(1) = 1 /\ 1 \in 0 .. IDENTITY_TABLES + 1
          /\ Preallocated(32) = 767 /\ 32 \in 0 .. IDENTITY_TABLES + 1
      BY Numbers DEF Preallocated
    <3> QED BY <3>1 DEF First
  <2> QED BY <2>1, <2>2, <1>2, <1>5 DEF Layout, TablesOK
<1>11. PICK b \in BOOLEAN : b = TRUE
  OBVIOUS
<1>12. free' = free \ {f} /\ PageAdded(X, c, v, f, b, W)
  <2>1. vmm_map_page(X, free \ {f}, v, f, b)
    BY <1>3, <1>6, <1>11
  <2> HIDE DEF X, v, W
  <2> QED BY <1>2, <1>4, <1>5, <1>8, <1>9, <1>10, <2>1, MapPage DEF T, W
<1> HIDE DEF X
<1>13. /\ Good(W, c) /\ W[c] = T[c] /\ FramesOf(W, c) = FramesOf(T, c)
       /\ MappedBy(W, c) = MappedBy(T, c) \cup {v}
       /\ PteOf(W, c, v) = [frame |-> f, user |-> TRUE]
       /\ \A w \in MappedBy(T, c) \ {v} : PteOf(W, c, w) = PteOf(T, c, w)
  <2> HIDE DEF T, c, W, v
  <2> QED BY <1>8, <1>11, <1>12 DEF PageAdded, SameTables
<1>14. /\ FirstFree' = FirstFree /\ FirstFree \in Nat /\ free' \subseteq Nat /\ Pages' = Pages
       /\ ProgramPages' = ProgramPages
  BY <1>1, <1>2, <1>12, Fixed, Bounds, Types
<1>15. VmmFrames \subseteq VmmFrames'
  BY <1>12, <1>14, VmmNext
<1>16. DOMAIN data' = DOMAIN data \cup {f} /\ data'[f] = i /\ \A g \in DOMAIN data \ {f} : data'[g] = data[g]
  BY <1>7 DEF Put
<1>17. TypeOK'
  <2>1. DOMAIN data' \subseteq Nat /\ \A x \in DOMAIN data' : data'[x] \in Int
    BY <1>2, <1>4, <1>16 DEF TypeOK
  <2>2. IsTables(tables')
    BY <1>13 DEF Good
  <2>3. current_dir' \in Nat
    BY <1>1, <1>2, Types
  <2>4. i' \in Nat /\ pc' \in {"load", "user_bit"}
    BY <1>1, <1>2 DEF Round
  <2>5. paging' \in BOOLEAN
    BY <1>1, <1>2 DEF TypeOK
  <2> HIDE DEF v, W, T, c
  <2> QED BY <1>1, <1>2, <1>14, <2>1, <2>2, <2>3, <2>4, <2>5, TypeNext
<1>18. CounterOK'
  BY <1>1, <1>2, <1>14 DEF CounterOK, Round
<1>19. FreeOK'
  <2>1. LowFree' = (free \ {f}) \cap 0 .. USER_CODE_BASE - 1
    BY <1>12 DEF LowFree
  <2>2. LeftFor(LowFree', i + 1)
    BY <1>4, <2>1
  <2>3. CASE pc' = "load" /\ i' = i + 1
    BY <2>2, <2>3, <1>14 DEF FreeOK, LeftFor
  <2>4. CASE pc' = "user_bit" /\ i + 1 = Pages
    BY <2>2, <2>4, <1>14 DEF FreeOK, LeftFor
  <2> QED BY <2>3, <2>4, <1>1 DEF Round
<1>20. TablesOK'
  <2>1. HasDir' /\ pc' \notin {"tables", "done"}
    BY <1>1 DEF HasDir, PmmReady, Round
  <2>2. FramebufferEntries' = FramebufferEntries
    BY <1>1 DEF FramebufferEntries
  <2> HIDE DEF v
  <2> QED BY <1>1, <1>5, <1>10, <1>13, <1>15, <2>1, <2>2, TablesNext
<1>21. /\ FramebufferPages' = FramebufferPages /\ StackPages' = StackPages
       /\ CodePages' = CodePages \cup {v} /\ v \notin CodePages \cup FramebufferPages \cup StackPages
  <2>1. FramebufferPages' = FramebufferPages /\ FramebufferPages = fb[1] .. fb[1] + fb[2] - 1
    BY <1>1 DEF FramebufferPages, Round
  <2>2. StackPages' = StackPages /\ StackPages = USER_STACK_TOP - USER_STACK_PAGES .. USER_STACK_TOP - 1
    BY <1>1 DEF StackPages, Round
  <2>3. CodePages = 1024 .. 1024 - 1 + i
    BY <1>1, <1>2 DEF CodePages
  <2>4. CodePages' = 1024 .. 1024 - 1 + (i + 1)
    BY <1>1, <1>2, <1>14 DEF CodePages, Round
  <2>5. CodePages' = CodePages \cup {v} /\ v \notin CodePages
    BY <1>2, <2>3, <2>4
  <2>6. v <= 32767
    BY <1>9, IdentityRange
  <2>7. v \notin FramebufferPages
    <3>1. fb[1] \in Nat /\ fb[1] >= 32768
      BY <1>2, FramebufferBounds
    <3> HIDE DEF v
    <3> QED BY <1>9, <2>1, <2>6, <3>1
  <2>8. v \notin StackPages
    <3>1. USER_STACK_TOP - USER_STACK_PAGES > 32767 /\ USER_STACK_TOP - USER_STACK_PAGES \in Nat
      BY SMT DEF USER_STACK_TOP, USER_STACK_PAGES
    <3> HIDE DEF v
    <3> QED BY <1>9, <2>2, <2>6, <3>1
  <2> HIDE DEF v
  <2> QED BY <2>1, <2>2, <2>5, <2>7, <2>8
<1>22. /\ MappedPages = IdentityPages \cup FramebufferPages \cup StackPages
       /\ \A w \in (IdentityPages \ CodePages) \cup FramebufferPages : Pte(w) = [frame |-> w, user |-> FALSE]
       /\ \A w \in CodePages \cup StackPages :
             /\ Pte(w).user /\ Pte(w).frame \notin HeapFrames
             /\ Pte(w).frame \in (FirstFree .. USER_CODE_BASE - 1) \ (free \cup TableFrames \cup {c})
       /\ \A x, w \in CodePages \cup StackPages : Pte(x).frame = Pte(w).frame => x = w
  BY <1>2 DEF Layout, PagesOK
<1>23. CodePages \subseteq IdentityPages
  <2> SUFFICES ASSUME NEW w \in CodePages PROVE w \in IdentityPages
    OBVIOUS
  <2>1. w \in Nat /\ w < 1280
    BY CodeRange
  <2> QED BY <2>1, IdentityRange
<1>24. \A w \in MappedPages : w # v => Pte(w)' = Pte(w)
  <2> HIDE DEF v
  <2> QED BY <1>1, <1>13, Views
<1>25. \A w : w = v => Pte(w)' = [frame |-> f, user |-> TRUE]
  <2> HIDE DEF v
  <2> QED BY <1>1, <1>13, Views
<1>26. PagesOK'
  <2>1. MappedPages' = MappedPages
    <3>1. v \in MappedPages
      BY <1>9, <1>22
    <3> HIDE DEF v
    <3> QED BY <1>1, <1>13, <3>1, Views
  <2>2. HeapFrames' = HeapFrames /\ TableFrames' = TableFrames /\ IdentityPages' = IdentityPages
    BY <1>1, <1>13, Views DEF HeapFrames, IdentityPages, ReservedBy
  <2>3. f \notin TableFrames /\ f # c
    BY <1>4, <1>5, Views
  <2>4. MappedPages' = IdentityPages \cup FramebufferPages' \cup StackPages'
    BY <1>21, <1>22, <2>1
  <2>5. ASSUME NEW w \in (IdentityPages \ CodePages') \cup FramebufferPages'
        PROVE  Pte(w)' = [frame |-> w, user |-> FALSE]
    <3>1. w \in (IdentityPages \ CodePages) \cup FramebufferPages /\ w # v
      <4> HIDE DEF v
      <4> QED BY <1>21
    <3> HIDE DEF v
    <3> QED BY <3>1, <1>22, <1>24
  <2>6. ASSUME NEW w \in CodePages' \cup StackPages'
        PROVE  /\ Pte(w)'.user /\ Pte(w)'.frame \notin HeapFrames
               /\ Pte(w)'.frame \in (FirstFree .. USER_CODE_BASE - 1) \ (free' \cup TableFrames \cup {c})
               /\ w # v => Pte(w)' = Pte(w) /\ w \in CodePages \cup StackPages
    <3>1. CASE w = v
      <4>1. Pte(w)'.user /\ Pte(w)'.frame = f
        BY <3>1, <1>25
      <4> HIDE DEF c
      <4> QED BY <3>1, <4>1, <2>3, <1>4, <1>12
    <3>2. CASE w # v
      <4>1. w \in CodePages \cup StackPages
        <5> HIDE DEF v
        <5> QED BY <3>2, <1>21
      <4>2. Pte(w)' = Pte(w)
        <5> HIDE DEF v
        <5> QED BY <3>2, <4>1, <1>22, <1>23, <1>24
      <4> HIDE DEF v
      <4> QED BY <1>12, <1>22, <4>1, <4>2, <3>2
    <3> QED BY <3>1, <3>2
  <2>7. ASSUME NEW x \in CodePages' \cup StackPages', NEW w \in CodePages' \cup StackPages',
               Pte(x)'.frame = Pte(w)'.frame
        PROVE  x = w
    <3>1. \A y \in CodePages \cup StackPages : Pte(y).frame # f
      BY <1>4, <1>22
    <3>2. w = v => Pte(w)'.frame = f
      BY <1>25
    <3>3. x = v => Pte(x)'.frame = f
      BY <1>25
    <3> HIDE DEF v
    <3> QED BY <1>22, <2>6, <2>7, <3>1, <3>2, <3>3
  <2>8. pc' \notin {"tables", "identity"}
    BY <1>1 DEF Round
  <2>9. \A w \in CodePages' \cup StackPages' :
           /\ Pte(w)'.user /\ Pte(w)'.frame \notin HeapFrames'
           /\ Pte(w)'.frame \in (FirstFree' .. USER_CODE_BASE - 1)
                                \ (free' \cup TableFrames' \cup {current_dir'})
    BY <1>1, <1>14, <2>2, <2>6
  <2>10. \A x, w \in CodePages' \cup StackPages' : Pte(x)'.frame = Pte(w)'.frame => x = w
    BY <2>7
  <2>11. \A w \in (IdentityPages' \ CodePages') \cup FramebufferPages' : Pte(w)' = [frame |-> w, user |-> FALSE]
    BY <2>2, <2>5
  <2>12. MappedPages' = IdentityPages' \cup FramebufferPages' \cup StackPages'
    BY <2>2, <2>4
  <2> HIDE DEF v
  <2> QED BY <2>8, <2>9, <2>10, <2>11, <2>12 DEF PagesOK
<1>27. DataOK'
  <2>1. \A w \in CodePages : Pte(w).frame \in DOMAIN data /\ data[Pte(w).frame] = w - USER_CODE_BASE
    BY <1>2 DEF Layout, DataOK
  <2>2. ASSUME NEW w \in CodePages'
        PROVE  Pte(w)'.frame \in DOMAIN data' /\ data'[Pte(w)'.frame] = w - USER_CODE_BASE
    <3>1. CASE w = v
      <4>1. Pte(w)'.frame = f
        BY <3>1, <1>25
      <4> QED BY <3>1, <4>1, <1>2, <1>16
    <3>2. CASE w # v
      <4>1. w \in CodePages
        <5> HIDE DEF v
        <5> QED BY <3>2, <1>21
      <4>2. Pte(w)' = Pte(w)
        <5> HIDE DEF v
        <5> QED BY <3>2, <4>1, <1>22, <1>23, <1>24
      <4>3. Pte(w).frame # f
        BY <1>4, <1>22, <4>1
      <4> QED BY <1>16, <2>1, <4>1, <4>2, <4>3
    <3> QED BY <3>1, <3>2
  <2>3. ASSUME NEW g \in ProgramPages PROVE g \in DOMAIN data' /\ data'[g] = PROGRAM
    <3>1. g \in HeapFrames
      BY <1>2, HeapBounds
    <3>2. g # f
      BY <1>4, <3>1
    <3>3. g \in DOMAIN data /\ data[g] = PROGRAM
      BY <1>1 DEF Layout, DataOK
    <3> QED BY <3>2, <3>3, <1>16
  <2> QED BY <1>14, <2>2, <2>3 DEF DataOK, PROGRAM
<1> QED BY <1>17, <1>18, <1>19, <1>20, <1>26, <1>27 DEF Layout

-----------------------------------------------------------------------------
(* The kernel of an ordinary machine finds a frame whenever it asks.       *)

LEMMA LowFound ==
    ASSUME Ordinary, TypeOK, NEW p \in LowFree, \A g \in LowFree : p <= g
    PROVE  pmm_alloc(free) # {}
<1>1. p \in free /\ p < USER_CODE_BASE /\ free \subseteq Nat
  BY Numbers, Types DEF LowFree
<1>2. \A g \in free : g < USER_CODE_BASE => p <= g
  BY <1>1, Numbers DEF LowFree
<1>3. pmm_alloc(free) = {p}
  BY <1>1, <1>2, Alloc
<1> QED BY <1>3

LEMMA AlwaysFound == ASSUME Ordinary, Layout PROVE ~ OutOfMemory
<1> SUFFICES ASSUME pc \in {"dir", "tables", "fb", "stack", "load"}
             PROVE  pmm_alloc(free) # {}
  BY DEF OutOfMemory
<1>1. TypeOK /\ i \in Nat
  BY Types DEF Layout
<1>2. ASSUME NEW n \in Nat, n <= 41, Allocated(n) PROVE pmm_alloc(free) # {}
  BY <1>1, <1>2, AllocLow
<1>3. CASE pc = "dir"
  BY <1>2, <1>3 DEF Layout, FreeOK
<1>4. CASE pc = "tables"
  BY <1>1, <1>2, <1>4, Numbers DEF Layout, FreeOK, CounterOK
<1>5. CASE pc = "fb"
  <2> DEFINE a == Made(fb[1] \div ENTRIES)
             b == Made(fb[1] \div ENTRIES + 1)
  <2>1. a \in {0, 1} /\ b \in {0, 1}
    BY DEF Made
  <2>2. Allocated(35 + a + b)
    BY <1>5 DEF Layout, FreeOK
  <2> HIDE DEF a, b
  <2> QED BY <1>2, <2>1, <2>2
<1>6. CASE pc = "stack"
  BY <1>1, <1>2, <1>6 DEF Layout, FreeOK, CounterOK, USER_STACK_PAGES
<1>7. CASE pc = "load"
  <2>1. FirstFree \in Nat /\ HEAP = 512 /\ USER_CODE_BASE = 1024 /\ i < Pages /\ Pages <= 256 /\ Pages \in Nat
    BY <1>1, <1>7, Bounds, HeapBounds, Numbers DEF Layout, CounterOK
  <2>2. ASSUME NEW p \in FirstFree .. HEAP,
               LowFree = p .. HEAP - 1 \cup HEAP + 256 .. USER_CODE_BASE - 1
        PROVE  pmm_alloc(free) # {}
    <3>1. CASE p < HEAP
      <4>1. p \in LowFree /\ \A g \in LowFree : p <= g
        BY <2>1, <2>2, <3>1
      <4> QED BY <1>1, <4>1, LowFound
    <3>2. CASE p = HEAP
      <4> DEFINE q == HEAP + 256
      <4>1. LowFree = q .. USER_CODE_BASE - 1 /\ q = 768
        BY <2>1, <2>2, <3>2
      <4> HIDE DEF q
      <4>2. q \in LowFree /\ \A g \in LowFree : q <= g
        BY <2>1, <4>1
      <4> QED BY <1>1, <4>2, LowFound
    <3> QED BY <2>1, <3>1, <3>2
  <2>3. ASSUME NEW p \in 0 .. i, LowFree = HEAP + 256 + p .. USER_CODE_BASE - 1
        PROVE  pmm_alloc(free) # {}
    <3> DEFINE q == HEAP + 256 + p
    <3>1. LowFree = q .. USER_CODE_BASE - 1 /\ q \in Nat /\ q < 1024
      BY <1>1, <2>1, <2>3
    <3> HIDE DEF q
    <3>2. q \in LowFree /\ \A g \in LowFree : q <= g
      BY <2>1, <3>1
    <3> QED BY <1>1, <3>2, LowFound
  <2> QED BY <1>7, <2>2, <2>3 DEF Layout, FreeOK
<1> QED BY <1>3, <1>4, <1>5, <1>6, <1>7

-----------------------------------------------------------------------------
(* The inductive invariant.                                                *)

LEMMA LayoutInit == ASSUME Init PROVE Layout
<1>1. /\ free = {} /\ pc = "pmm_init" /\ i = 0
      /\ tables = <<>> /\ data = <<>> /\ current_dir = 0 /\ paging = FALSE
  BY DEF Init
<1>2. DOMAIN <<>> = {}
  OBVIOUS
<1>3. TypeOK
  <2>1. PICK b \in Boots : /\ mmap = b.mmap /\ memory_size = b.memory_size /\ fb = b.fb
                           /\ link = b.link /\ size = b.size
    BY DEF Init
  <2>2. b = [mmap |-> mmap, memory_size |-> memory_size, fb |-> fb, link |-> link, size |-> size]
    BY <2>1, BootsAssumption DEF Boot
  <2> QED BY <1>1, <1>2, <2>2 DEF TypeOK
<1>4. CounterOK
  BY <1>1 DEF CounterOK
<1>5. FreeOK
  BY <1>1 DEF FreeOK
<1>6. TablesOK
  <2>1. ~ HasDir /\ pc # "done"
    BY <1>1 DEF HasDir, PmmReady
  <2>2. 767 \notin DOMAIN Dir
    BY <1>1, <1>2 DEF Dir, Table
  <2> QED BY <1>1, <2>1, <2>2 DEF TablesOK
<1>7. PagesOK /\ DataOK
  BY <1>1 DEF PagesOK, DataOK, Filled, HasDir, PmmReady
<1> QED BY <1>3, <1>4, <1>5, <1>6, <1>7 DEF Layout

LEMMA LayoutStutter == ASSUME Layout, UNCHANGED vars PROVE Layout'
<1>1. UNCHANGED <<mmap, memory_size, link, free, pc, i, fb, size, tables, data, current_dir, paging>>
  BY DEF vars
<1>2. Dir' = Dir /\ (\A f : Table(f)' = Table(f)) /\ (\A v : Pte(v)' = Pte(v))
  BY <1>1 DEF Dir, Table, Pte, Pde
<1>3. /\ FirstFree' = FirstFree /\ LowFree' = LowFree /\ Pages' = Pages /\ VmmFrames' = VmmFrames
      /\ TableFrames' = TableFrames /\ FramebufferEntries' = FramebufferEntries
      /\ \A n : Allocated(n)' <=> Allocated(n)
      /\ \A d : Made(d)' = Made(d)
  BY <1>1, <1>2, Fixed DEF LowFree, VmmFrames, TableFrames, FramebufferEntries, Allocated, Made
<1>4. /\ HasDir' = HasDir /\ Filled' = Filled /\ MappedPages' = MappedPages /\ HeapFrames' = HeapFrames
      /\ IdentityPages' = IdentityPages /\ FramebufferPages' = FramebufferPages
      /\ StackPages' = StackPages /\ CodePages' = CodePages
      /\ ProgramPages' = ProgramPages
  BY <1>1, <1>2, <1>3, Fixed DEF HasDir, PmmReady, Filled, MappedPages, IsMapped, Pde, HeapFrames, ReservedBy,
                                 IdentityPages, FramebufferPages, StackPages, CodePages
<1>5. TypeOK'
  BY <1>1 DEF Layout, TypeOK
<1>6. CounterOK'
  BY <1>1, <1>3 DEF Layout, CounterOK
<1>7. FreeOK'
  BY <1>1, <1>3 DEF Layout, FreeOK
<1>8. TablesOK'
  BY <1>1, <1>2, <1>3, <1>4 DEF Layout, TablesOK
<1>9. PagesOK'
  BY <1>1, <1>2, <1>3, <1>4 DEF Layout, PagesOK
<1>10. DataOK'
  BY <1>1, <1>2, <1>3, <1>4 DEF Layout, DataOK
<1> QED BY <1>5, <1>6, <1>7, <1>8, <1>9, <1>10 DEF Layout

LEMMA WildExposed == ASSUME StrayTick, Ordinary, pc # "wild" => Layout PROVE Exposed
<1>1. ~ CurrentIsNull /\ Layout
  BY DEF StrayTick, Ended
<1>2. CASE CurrentBits # {}
  BY <1>2 DEF Exposed
<1>3. CASE ~ link.tmp + size < link.current_process
  <2>1. link.tmp \in Nat /\ link.current_process \in Nat /\ size \in Nat
    BY <1>1, Types DEF Layout, Link
  <2> QED BY <1>3, <2>1 DEF Exposed
<1> QED BY <1>1, <1>2, <1>3 DEF CurrentIsNull

LEMMA NotWild == ASSUME Next, ~ StrayTick, ~ UNCHANGED vars PROVE pc # "wild" /\ pc' # "wild"
BY DEF Next, Ended, SetAllBits, FreeUsable, ReserveKernel, NewDir, NewTable, FillIdentity, MapFramebuffer,
       MapStack, EnablePaging, ReserveHeap, ReadProgram, LoadPage, SetUserBit, OutOfMemory, Round

\* On an ordinary machine the kernel's start lays out memory as Layout says, at
\* every step: which frames pmm_alloc has given away, where the page tables are,
\* what they map and what the frames hold; and it never runs out of frames.
THEOREM MemoryLaidOut == Spec => []Inv
<1>1. Init => Inv
  BY LayoutInit DEF Inv, Init
<1>2. Inv /\ [Next]_vars => Inv'
  <2> SUFFICES ASSUME Inv, [Next]_vars, Ordinary'
               PROVE  IF pc' = "wild" THEN Exposed' ELSE Layout'
    BY DEF Inv
  <2>1. UNCHANGED <<mmap, memory_size, link, fb, size>>
    BY DEF Next, vars, SetAllBits, FreeUsable, ReserveKernel, NewDir, NewTable, FillIdentity, MapFramebuffer,
           MapStack, EnablePaging, ReserveHeap, ReadProgram, LoadPage, SetUserBit, OutOfMemory, StrayTick
  <2>2. Ordinary /\ (IF pc = "wild" THEN Exposed ELSE Layout)
    BY <2>1, Fixed DEF Inv
  <2>3. Exposed' <=> Exposed
    BY <2>1 DEF Exposed, CurrentBits, BitsIn, BITMAP_SIZE
  <2>4. CASE UNCHANGED vars
    <3>1. pc' = pc
      BY <2>4 DEF vars
    <3> QED BY <2>2, <2>3, <2>4, <3>1, LayoutStutter
  <2>5. CASE StrayTick
    <3>1. pc' = "wild"
      BY <2>5 DEF StrayTick
    <3> QED BY <2>2, <2>3, <2>5, <3>1, WildExposed
  <2>6. CASE ~ StrayTick /\ ~ UNCHANGED vars
    <3>1. pc # "wild" /\ pc' # "wild"
      BY <2>6, NotWild
    <3>2. Layout'
      BY <2>2, <2>6, <3>1, AlwaysFound, SetAllBitsStep, FreeUsableStep, ReserveKernelStep, NewDirStep,
         NewTableStep, FillIdentityStep, MapFramebufferStep, MapStackStep, EnablePagingStep, ReserveHeapStep,
         ReadProgramStep, LoadPageStep, SetUserBitStep DEF Next
    <3> QED BY <3>1, <3>2
  <2> QED BY <2>4, <2>5, <2>6
<1> QED BY <1>1, <1>2, PTL DEF Spec

-----------------------------------------------------------------------------
(* What the layout says of frames and of user mode.                        *)

LEMMA NoDir == ASSUME Ordinary, Layout, ~ HasDir PROVE DOMAIN Dir = {} /\ TableFrames = {} /\ current_dir = 0
<1>1. tables = <<>> /\ current_dir = 0
  BY DEF Layout, TablesOK
<1>2. DOMAIN Dir = {}
  BY <1>1 DEF Dir, Table
<1> QED BY <1>1, <1>2 DEF TableFrames

LEMMA MappedIs ==
    ASSUME Ordinary, Layout, HasDir, NEW v \in Nat
    PROVE  v \in MappedPages <=> IsMapped(v)
<1> DEFINE T == tables
           c == current_dir
<1>1. Good(T, c) /\ Dir = T[c] /\ MappedPages = MappedBy(T, c)
  BY InDir, Views
<1>2. \A d \in DOMAIN T[c] : Table(T[c][d].frame) = T[T[c][d].frame]
  BY <1>1 DEF Good, Table
<1> HIDE DEF T, c
<1>3. v \in MappedBy(T, c) <=> /\ v \div ENTRIES \in DOMAIN T[c]
                              /\ v % ENTRIES \in DOMAIN T[T[c][v \div ENTRIES].frame]
  BY <1>1, Mapped
<1> QED BY <1>1, <1>2, <1>3 DEF IsMapped, Pde

\* The page tables' frames and the kernel's others.
LEMMA KernelRange ==
    ASSUME Ordinary, Layout
    PROVE  /\ \A f \in Kernel : f \in Nat /\ f < 768
           /\ TableFrames \cup (IF current_dir = 0 THEN {} ELSE {current_dir}) \subseteq VmmFrames
           /\ KernelFrames \cup BitmapFrames \subseteq 0 .. FirstFree - 1
<1>1. /\ FirstFree \in Nat /\ FirstFree >= 264 /\ FirstFree <= 471 /\ HEAP = 512
      /\ \A f \in KernelFrames \cup BitmapFrames : f \in Nat /\ 256 <= f /\ f < FirstFree
  BY Bounds, Numbers DEF Layout
<1>2. \A f : f \in HeapFrames => f \in Nat /\ f < 768
  BY HeapBounds DEF Layout
<1>3. TableFrames \cup (IF current_dir = 0 THEN {} ELSE {current_dir}) \subseteq VmmFrames
  <2>1. CASE HasDir
    BY <2>1 DEF Layout, TablesOK
  <2>2. CASE ~ HasDir
    BY <2>2, NoDir
  <2> QED BY <2>1, <2>2
<1>4. \A f \in VmmFrames : f \in Nat /\ f < 768
  BY <1>1 DEF VmmFrames
<1>5. KernelFrames \cup BitmapFrames \subseteq 0 .. FirstFree - 1
  BY <1>1
<1>6. \A f \in 0 .. FirstFree - 1 : f \in Nat /\ f < 768
  BY <1>1
<1> QED BY <1>2, <1>3, <1>4, <1>5, <1>6 DEF Kernel

\* What is free below 4 MB lies behind the bitmap, and outside the heap from
\* ReserveHeap on.
LEMMA FreeRange ==
    ASSUME Ordinary, Layout, PmmReady, NEW f \in LowFree
    PROVE  /\ f \in Nat /\ FirstFree <= f
           /\ pc \in {"read", "load", "user_bit", "done", "bad_magic"} => f \notin HeapFrames
<1>1. /\ FirstFree \in Nat /\ FirstFree <= 471 /\ HEAP = 512 /\ USER_CODE_BASE = 1024
      /\ \A g : g \in HeapFrames <=> g \in Nat /\ 512 <= g /\ g < 768
  BY Bounds, HeapBounds, Numbers DEF Layout
<1>2. ASSUME NEW n, Allocated(n) PROVE f \in Nat /\ FirstFree <= f
  BY <1>1, <1>2 DEF Allocated
<1>3. CASE pc \in {"dir", "tables", "identity", "fb", "stack", "enable", "heap"}
  BY <1>2, <1>3 DEF Layout, FreeOK
<1>4. CASE pc \in {"read", "load", "user_bit", "done", "bad_magic"}
  <2>1. ASSUME NEW p \in FirstFree .. HEAP,
               LowFree = p .. HEAP - 1 \cup HEAP + 256 .. USER_CODE_BASE - 1
        PROVE  f \in Nat /\ FirstFree <= f /\ f \notin HeapFrames
    BY <1>1, <2>1
  <2>2. ASSUME NEW p \in Nat, LowFree = HEAP + 256 + p .. USER_CODE_BASE - 1
        PROVE  f \in Nat /\ FirstFree <= f /\ f \notin HeapFrames
    BY <1>1, <2>2
  <2> QED BY <1>4, <2>1, <2>2 DEF Layout, FreeOK
<1>5. pc \in {"dir", "tables", "identity", "fb", "stack", "enable", "heap", "read", "load",
              "user_bit", "done", "bad_magic"}
  BY DEF Layout, TypeOK, CounterOK, PmmReady, Ended
<1> QED BY <1>3, <1>4, <1>5

\* Only the program's pages and the stack's have PAGE_USER.
LEMMA UserRange ==
    ASSUME Ordinary, Layout, NEW v \in UserPages
    PROVE  Filled /\ v \in CodePages \cup StackPages
<1>1. PICK d \in DOMAIN Dir : \E t \in DOMAIN Table(Dir[d].frame) :
             v = d * ENTRIES + t /\ Table(Dir[d].frame)[t].user
  BY DEF UserPages
<1>2. PICK t \in DOMAIN Table(Dir[d].frame) : v = d * ENTRIES + t /\ Table(Dir[d].frame)[t].user
  BY <1>1
<1>3. HasDir
  BY NoDir
<1>4. d \in Nat /\ v \in Nat /\ v \div ENTRIES = d /\ v % ENTRIES = t
  <2>1. /\ IsTables(tables) /\ current_dir \in DOMAIN tables /\ Dir = tables[current_dir]
    BY <1>3, InDir DEF Good
  <2>2. DOMAIN Dir \subseteq Nat
    BY <2>1 DEF IsTables
  <2>3. t \in 0 .. ENTRIES - 1
    BY <2>1 DEF IsTables, Table
  <2> QED BY <1>2, <2>2, <2>3, Join
<1>5. Pte(v) = Table(Dir[d].frame)[t] /\ v \in MappedPages
  BY <1>2, <1>3, <1>4, MappedIs DEF Pte, Pde, IsMapped
<1>6. Filled
  BY <1>3, <1>5 DEF Layout, PagesOK, Filled
<1>7. Pte(v).user
  BY <1>2, <1>5
<1>8. v \notin (IdentityPages \ CodePages) \cup FramebufferPages
  BY <1>6, <1>7 DEF Layout, PagesOK
<1> QED BY <1>5, <1>6, <1>8 DEF Layout, PagesOK

\* The frames of user mode's pages are nobody else's.
LEMMA UserFrameRange ==
    ASSUME Ordinary, Layout, NEW f \in UserFrames
    PROVE  f \in FirstFree .. USER_CODE_BASE - 1 /\ f \notin free /\ f \notin Kernel
<1>1. PICK v \in UserPages : f = Pte(v).frame
  BY DEF UserFrames
<1>2. Filled /\ v \in CodePages \cup StackPages
  BY UserRange
<1>3. /\ f \in (FirstFree .. USER_CODE_BASE - 1) \ (free \cup TableFrames \cup {current_dir})
      /\ f \notin HeapFrames
  BY <1>1, <1>2 DEF Layout, PagesOK
<1>4. f \notin KernelFrames \cup BitmapFrames
  <2>1. FirstFree \in Nat
    BY Bounds DEF Layout
  <2> QED BY <1>3, <2>1, KernelRange, Numbers
<1> QED BY <1>3, <1>4 DEF Kernel

\* On an ordinary machine, pmm_alloc gives no frame away twice: every table has
\* a frame of its own, and no frame that the kernel or user mode has is free.
THEOREM NoFrameTwice == Spec => [](Ordinary /\ pc # "wild" => OneUse)
<1>1. ASSUME Ordinary, Layout PROVE OneUse
  <2>1. \A d, e \in DOMAIN Dir : Dir[d].frame = Dir[e].frame => d = e
    BY <1>1, NoDir DEF Layout, TablesOK
  <2>2. current_dir \notin TableFrames
    BY <1>1, NoDir DEF Layout, TablesOK
  <2>3. ASSUME PmmReady, NEW f \in free, f \in Kernel \cup UserFrames PROVE FALSE
    <3>1. f \in Kernel
      BY <1>1, <2>3, UserFrameRange
    <3>2. f \in LowFree
      <4>1. f \in Nat /\ f < 768
        BY <1>1, <3>1, KernelRange
      <4> QED BY <2>3, <4>1, Numbers DEF LowFree
    <3>3. f \in Nat /\ FirstFree <= f /\ FirstFree \in Nat
      BY <1>1, <2>3, <3>2, FreeRange, Bounds DEF Layout
    <3>4. f \notin KernelFrames \cup BitmapFrames
      BY <1>1, <3>3, KernelRange
    <3>5. f \notin TableFrames \cup (IF current_dir = 0 THEN {} ELSE {current_dir})
      BY <1>1, <2>3, KernelRange DEF VmmFrames
    <3>6. pc \in {"read", "load", "user_bit", "done"} => f \notin HeapFrames
      BY <1>1, <2>3, <3>2, FreeRange
    <3> QED BY <3>1, <3>4, <3>5, <3>6 DEF Kernel
  <2> QED BY <2>1, <2>2, <2>3 DEF OneUse
<1>2. Inv => (Ordinary /\ pc # "wild" => OneUse)
  BY <1>1 DEF Inv
<1> QED BY <1>2, MemoryLaidOut, PTL

\* On an ordinary machine, user mode reaches none of the kernel's frames, and no
\* two of its pages are the same frame.
THEOREM UserIsApart == Spec => [](Ordinary /\ pc # "wild" => UserApart)
<1>1. ASSUME Ordinary, Layout PROVE UserApart
  <2>1. UserFrames \cap Kernel = {}
    BY <1>1, UserFrameRange
  <2>2. ASSUME NEW v \in UserPages, NEW w \in UserPages, Pte(v).frame = Pte(w).frame PROVE v = w
    <3>1. Filled /\ v \in CodePages \cup StackPages /\ w \in CodePages \cup StackPages
      BY <1>1, UserRange
    <3> QED BY <1>1, <2>2, <3>1 DEF Layout, PagesOK
  <2> QED BY <2>1, <2>2 DEF UserApart
<1>2. Inv => (Ordinary /\ pc # "wild" => UserApart)
  BY <1>1 DEF Inv
<1> QED BY <1>2, MemoryLaidOut, PTL

\* On an ordinary machine, once paging is on the kernel finds its image, the
\* bitmap, the page tables, the heap and the framebuffer where they are.
THEOREM KernelStaysMapped == Spec => [](Ordinary /\ pc # "wild" => KernelMapped)
<1>1. ASSUME Ordinary, Layout, paging, NEW f \in Kernel \cup fb[1] .. fb[1] + fb[2] - 1
      PROVE  IsMapped(f) /\ Pte(f).frame = f
  <2>1. Filled /\ HasDir /\ pc # "fb"
    BY <1>1 DEF Layout, CounterOK, Filled, HasDir, PmmReady
  <2>2. CASE f \in Kernel
    <3>1. f \in Nat /\ f < 768
      BY <1>1, <2>2, KernelRange
    <3>2. f \in IdentityPages
      BY <3>1, IdentityRange
    <3>3. f \notin CodePages
      BY <1>1, <3>1, CodeRange
    <3> QED BY <1>1, <2>1, <3>1, <3>2, <3>3, MappedIs DEF Layout, PagesOK
  <2>3. CASE f \in fb[1] .. fb[1] + fb[2] - 1
    <3>1. f \in FramebufferPages
      BY <2>1, <2>3 DEF FramebufferPages
    <3>2. f \in Nat
      <4>1. fb[1] \in Nat /\ fb[2] \in Nat
        BY <1>1, Types DEF Layout
      <4> QED BY <2>3, <4>1
    <3> QED BY <1>1, <2>1, <3>1, <3>2, MappedIs DEF Layout, PagesOK
  <2> QED BY <1>1, <2>2, <2>3
<1>2. Inv => (Ordinary /\ pc # "wild" => KernelMapped)
  BY <1>1 DEF Inv, KernelMapped
<1> QED BY <1>2, MemoryLaidOut, PTL

\* On an ordinary machine, when kernel_main is done user mode finds the whole
\* program, in order, and its stack, and can access no page besides.
THEOREM ProgramIsLoaded == Spec => [](Ordinary => Loaded)
<1>1. ASSUME Ordinary, Layout, pc = "done"
      PROVE  /\ UserPages = USER_CODE_BASE .. USER_CODE_BASE + Pages - 1
                            \cup USER_STACK_TOP - USER_STACK_PAGES .. USER_STACK_TOP - 1
             /\ \A n \in 0 .. Pages - 1 : data[Pte(USER_CODE_BASE + n).frame] = n
  <2>1. Filled /\ HasDir /\ Pages \in Nat /\ USER_CODE_BASE = 1024 /\ ENTRIES = 1024
    BY <1>1, HeapBounds, Numbers DEF Layout, Filled, HasDir, PmmReady
  <2>2. CodePages = 1024 .. 1024 - 1 + Pages
    BY <1>1, <2>1 DEF CodePages
  <2>3. StackPages = USER_STACK_TOP - USER_STACK_PAGES .. USER_STACK_TOP - 1
    BY <1>1 DEF StackPages
  <2>4. ASSUME NEW v \in CodePages \cup StackPages PROVE v \in UserPages
    <3>1. v \in Nat /\ v \div 1024 \in {1, 767}
      <4>1. CASE v \in CodePages
        <5>1. v \in Nat /\ 1024 <= v /\ v < 1280
          BY <1>1, <4>1, CodeRange
        <5>2. v \div 1024 = 1
          BY SMT, <5>1
        <5> QED BY <5>1, <5>2
      <4>2. CASE v \in StackPages
        <5>1. USER_STACK_TOP = 786432 /\ USER_STACK_PAGES = 4
          BY SMT DEF USER_STACK_TOP, USER_STACK_PAGES
        <5>2. v \in Nat /\ v >= 786428 /\ v < 786432
          BY SMT, <2>3, <4>2, <5>1
        <5>3. v \div 1024 = 767
          BY SMT, <5>2
        <5> QED BY <5>2, <5>3
      <4> QED BY <4>1, <4>2
    <3>2. v \in MappedPages
      <4>1. v \in CodePages => v \in IdentityPages
        <5>1. v \in CodePages => v <= 32767
          BY <1>1, CodeRange
        <5> QED BY <3>1, <5>1, IdentityRange
      <4> QED BY <1>1, <2>1, <4>1 DEF Layout, PagesOK
    <3>3. IsMapped(v)
      BY <1>1, <2>1, <3>1, <3>2, MappedIs
    <3>4. Pte(v).user
      BY <1>1, <2>1 DEF Layout, PagesOK
    <3> DEFINE d == v \div ENTRIES
               t == v % ENTRIES
    <3>5. d \in DOMAIN Dir /\ t \in DOMAIN Table(Dir[d].frame) /\ Table(Dir[d].frame)[t].user
      BY <3>3, <3>4 DEF IsMapped, Pte, Pde
    <3>6. Dir[d].user
      <4>1. d \in {1, 767} /\ USER_CODE_BASE \div ENTRIES = 1
        BY <2>1, <3>1, Numbers
      <4> HIDE DEF d
      <4> QED BY <1>1, <2>1, <3>5, <4>1 DEF Layout, TablesOK
    <3>7. v = d * ENTRIES + t
      BY <3>1, Split
    <3> HIDE DEF d, t
    <3> QED BY <3>5, <3>6, <3>7 DEF UserPages
  <2>5. UserPages = CodePages \cup StackPages
    BY <1>1, <2>4, UserRange
  <2>6. ASSUME NEW n \in 0 .. Pages - 1 PROVE data[Pte(USER_CODE_BASE + n).frame] = n
    <3> DEFINE v == USER_CODE_BASE + n
    <3>1. v \in CodePages /\ v - USER_CODE_BASE = n
      BY <2>1, <2>2
    <3> HIDE DEF v
    <3>2. data[Pte(v).frame] = n
      BY <1>1, <2>1, <3>1 DEF Layout, DataOK
    <3> QED BY <3>2 DEF v
  <2>7. 1024 - 1 + Pages = 1024 + Pages - 1
    BY <2>1
  <2> QED BY <2>1, <2>2, <2>3, <2>5, <2>6, <2>7
<1>2. Inv => (Ordinary => Loaded)
  BY <1>1 DEF Inv, Loaded
<1> QED BY <1>2, MemoryLaidOut, PTL

=============================================================================

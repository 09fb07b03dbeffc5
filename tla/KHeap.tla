------------------------------- MODULE KHeap -------------------------------
(***************************************************************************)
(* The kernel heap of src/kernel/mem/alloc.c: a first-fit free list in     *)
(* address order, split on allocation and coalesced on free.               *)
(*                                                                         *)
(* Addresses and sizes are in words of 4 bytes.  A header is [at, size];   *)
(* its magic is where it is kept: free_list holds the free headers in list *)
(* order, blocks the ones marked used.  live is what the clients were      *)
(* given and have not freed: they pass kfree and krealloc nothing else, so *)
(* the assertions on the magics hold whenever the lists are right.         *)
(***************************************************************************)
EXTENDS Integers, Sequences, SequencesExt, FiniteSets, FiniteSetsExt

CONSTANTS
    KHEAP_BASE, KHEAP_SIZE,     \* the region
    HDR_SIZE, KHEAP_ALIGN, KHEAP_MIN_SPLIT,
    META_SIZE,                  \* sizeof(align_meta_t)
    U32,                        \* sizes wrap here
    Sizes,                      \* the sizes asked for
    AlignedSizes,               \* the <<size, alignment>> of kmalloc_aligned
    ReallocAligned,             \* is krealloc called on aligned pointers?
    MaxLive                     \* bound on live allocations

ASSUME HeapConstants ==
    /\ {KHEAP_BASE, KHEAP_SIZE, HDR_SIZE, KHEAP_ALIGN, KHEAP_MIN_SPLIT} \subseteq Nat \ {0}
    /\ {META_SIZE, U32, MaxLive} \subseteq Nat \ {0}
    /\ KHEAP_SIZE > HDR_SIZE + KHEAP_MIN_SPLIT
    /\ KHEAP_BASE + KHEAP_SIZE <= U32
    /\ Sizes \subseteq 0 .. U32 - 1
    /\ AlignedSizes \subseteq (0 .. U32 - 1) \X (0 .. U32 - 1)
    /\ ReallocAligned \in BOOLEAN

nullptr == 0

VARIABLES g_kheap, live
vars == <<g_kheap, live>>

Init ==
    /\ g_kheap = [free_list |-> <<[at |-> KHEAP_BASE, size |-> KHEAP_SIZE - HDR_SIZE]>>,
                  blocks |-> {}, used |-> 0]
    /\ live = {}

-----------------------------------------------------------------------------
(* The operations, as functions of the heap.                               *)

Round(size) == LET s == (size + KHEAP_ALIGN - 1) % U32 IN s - (s % KHEAP_ALIGN)
AlignUp(a, alignment) == ((a + alignment - 1) \div alignment) * alignment

Fits(heap, size) == {k \in DOMAIN heap.free_list : heap.free_list[k].size >= size}

\* Mutant of SplitTail: the new header is not paid for.
SplitTailWide(cur, size) == [at |-> cur.at + HDR_SIZE + size, size |-> cur.size - size]

\* The free block carved from the tail of cur.
SplitTail(cur, size) ==
    [at |-> cur.at + HDR_SIZE + size, size |-> cur.size - size - HDR_SIZE]

\* Block k of the list serves size: split it, or give all of it.
Grant(heap, k, size) ==
    LET cur == heap.free_list[k]
        splits == cur.size >= size + HDR_SIZE + KHEAP_MIN_SPLIT
        given == IF splits THEN size ELSE cur.size
    IN [free_list |-> IF splits THEN ReplaceAt(heap.free_list, k, SplitTail(cur, size))
                                ELSE RemoveAt(heap.free_list, k),
        blocks |-> heap.blocks \cup {[at |-> cur.at, size |-> given]},
        used |-> heap.used + given]

\* kmalloc: the heap afterwards and the pointer returned.
kmalloc(heap, request) ==
    LET size == Round(request)
        k == Min(Fits(heap, size))
    IN IF request = 0 \/ Fits(heap, size) = {}
         THEN [heap |-> heap, ptr |-> nullptr]
         ELSE [heap |-> Grant(heap, k, size), ptr |-> heap.free_list[k].at + HDR_SIZE]

Follows(a, b) == b.at = a.at + HDR_SIZE + a.size
Merge(a, b) == [at |-> a.at, size |-> a.size + HDR_SIZE + b.size]

BlockOf(heap, raw) == CHOOSE b \in heap.blocks : b.at = raw - HDR_SIZE

\* Mutant of Insert: only the following block is coalesced.
InsertNextOnly(list, h) ==
    LET p == Cardinality({k \in DOMAIN list : \A j \in 1 .. k : list[j].at < h.at})
        before == SubSeq(list, 1, p)
        after == SubSeq(list, p + 1, Len(list))
    IN IF after # <<>> /\ Follows(h, Head(after))
         THEN before \o <<Merge(h, Head(after))>> \o Tail(after)
         ELSE before \o <<h>> \o after

\* Insert h after the blocks below it, then coalesce with the next block and
\* with the previous one.
Insert(list, h) ==
    LET p == Cardinality({k \in DOMAIN list : \A j \in 1 .. k : list[j].at < h.at})
        before == SubSeq(list, 1, p)
        after == SubSeq(list, p + 1, Len(list))
        withNext == IF after # <<>> /\ Follows(h, Head(after))
                      THEN <<Merge(h, Head(after))>> \o Tail(after)
                      ELSE <<h>> \o after
    IN IF before # <<>> /\ Follows(Last(before), h)
         THEN Front(before) \o <<Merge(Last(before), Head(withNext))>> \o Tail(withNext)
         ELSE before \o withNext

\* kfree on the pointer kmalloc returned (what meta->raw resolves to).
kfree(heap, raw) ==
    LET h == BlockOf(heap, raw)
    IN [free_list |-> Insert(heap.free_list, h),
        blocks |-> heap.blocks \ {h},
        used |-> heap.used - h.size]

-----------------------------------------------------------------------------
(* The calls.                                                              *)

CanHold == Cardinality(live) < MaxLive

\* What the caller keeps of an allocation, if there is one.
Given(ptr, raw, size) == IF ptr = nullptr THEN {} ELSE {[ptr |-> ptr, raw |-> raw, size |-> size]}

Malloc(size) ==
    LET m == kmalloc(g_kheap, size)
    IN /\ CanHold
       /\ g_kheap' = m.heap
       /\ live' = live \cup Given(m.ptr, m.ptr, size)

\* Mutant of AlignedTotal: no room for the padding.
AlignedTotalBare(size, alignment) == (size + META_SIZE) % U32

\* Padding and the stored pointer come on top of the size.
AlignedTotal(size, alignment) == (size + alignment + META_SIZE) % U32

PowerOfTwo(a) == \E e \in 0 .. a : a = 2^e

kmalloc_aligned(size, asked) ==
    LET alignment == IF asked < KHEAP_ALIGN THEN KHEAP_ALIGN ELSE asked
        m == kmalloc(g_kheap, AlignedTotal(size, alignment))
        raw == m.ptr
        ptr == IF raw = nullptr THEN nullptr ELSE AlignUp(raw + META_SIZE, alignment)
    IN /\ CanHold
       /\ IF size = 0 \/ ~ PowerOfTwo(asked)
            THEN UNCHANGED vars
            ELSE g_kheap' = m.heap /\ live' = live \cup Given(ptr, raw, size)

Free(a) ==
    /\ a \in live
    /\ g_kheap' = kfree(g_kheap, a.raw)
    /\ live' = live \ {a}

\* Mutant of Moved: the old block is not freed.
MovedLeaking(heap, raw) == heap

\* The old block, once its bytes are copied to the new one.
Moved(heap, raw) == kfree(heap, raw)

\* krealloc: the raw block's size decides, also for an aligned pointer.
krealloc(a, size) ==
    /\ a \in live /\ (a.ptr # a.raw => ReallocAligned)
    /\ LET m == kmalloc(g_kheap, size)
       IN \/ size = 0 /\ g_kheap' = kfree(g_kheap, a.raw) /\ live' = live \ {a}
          \/ /\ size # 0 /\ BlockOf(g_kheap, a.raw).size >= Round(size)
             /\ live' = (live \ {a}) \cup {[a EXCEPT !.size = size]}
             /\ UNCHANGED g_kheap
          \/ /\ size # 0 /\ BlockOf(g_kheap, a.raw).size < Round(size)
             /\ \/ m.ptr = nullptr /\ UNCHANGED vars
                \/ /\ m.ptr # nullptr
                   /\ g_kheap' = Moved(m.heap, a.raw)
                   /\ live' = (live \ {a}) \cup Given(m.ptr, m.ptr, size)

Next ==
    \/ \E size \in Sizes : Malloc(size)
    \/ \E s \in AlignedSizes : kmalloc_aligned(s[1], s[2])
    \/ \E a \in live : Free(a)
    \/ \E a \in live, size \in Sizes : krealloc(a, size)

Spec == Init /\ [][Next]_vars

-----------------------------------------------------------------------------
(* Properties.                                                             *)

Headers == ToSet(g_kheap.free_list) \cup g_kheap.blocks
Extent(b) == b.at .. b.at + HDR_SIZE + b.size - 1
DataOf(b) == b.at + HDR_SIZE .. b.at + HDR_SIZE + b.size - 1

\* Every variable has its type; used never wraps below zero.
TypeOK ==
    /\ g_kheap.free_list \in Seq([at : Nat, size : Nat])
    /\ g_kheap.blocks \subseteq [at : Nat, size : Nat]
    /\ g_kheap.used \in 0 .. KHEAP_SIZE
    /\ live \subseteq [ptr : Nat, raw : Nat, size : 0 .. U32 - 1]

\* Splits and merges neither lose nor share a word of the region: every word
\* lies in exactly one block, header included.
Tiling ==
    /\ \A w \in KHEAP_BASE .. KHEAP_BASE + KHEAP_SIZE - 1 :
          Cardinality({b \in Headers : w \in Extent(b)}) = 1
    /\ \A b \in Headers : Extent(b) \subseteq KHEAP_BASE .. KHEAP_BASE + KHEAP_SIZE - 1

\* The free list is in address order and no two free blocks touch, in whatever
\* order the neighbours of a block are freed.
Coalesced ==
    LET list == g_kheap.free_list
    IN \A k \in 1 .. Len(list) - 1 : list[k].at + HDR_SIZE + list[k].size < list[k + 1].at

\* used is the sum of the sizes of the used blocks.
UsedCount == g_kheap.used = MapThenSumSet(LAMBDA b : b.size, g_kheap.blocks)

\* Splits and merges lose and share nothing, and used counts what is in use.
BlocksOK == TypeOK /\ Tiling /\ UsedCount

\* Every live allocation lies inside the data of a used block of its own,
\* aligned ones and ones that krealloc kept in place or moved included.
LiveInBlock ==
    \A a \in live :
        /\ \E b \in g_kheap.blocks :
              b.at = a.raw - HDR_SIZE /\ a.ptr .. a.ptr + a.size - 1 \subseteq DataOf(b)
        /\ \A c \in live : c.raw = a.raw => c = a

\* Nothing leaks: there is one used block for each live allocation, so when the
\* last one is freed the heap is the single free block it started as.
Reclaimed ==
    /\ Cardinality(g_kheap.blocks) = Cardinality(live)
    /\ live = {} => g_kheap.free_list = <<[at |-> KHEAP_BASE, size |-> KHEAP_SIZE - HDR_SIZE]>>
=============================================================================

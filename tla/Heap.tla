--------------------------------- MODULE Heap ---------------------------------
(***************************************************************************)
(* The heaps of the kernel (portable/MemMang): heap_1, which never frees,  *)
(* heap_2, the one of this build, which keeps free blocks by size and does *)
(* not join them, and heap_4 and heap_5, which keep them by address and    *)
(* do.  Sizes are in bytes and wrap like size_t.  A call that works on the *)
(* free list does so with the scheduler suspended and is one step; a free  *)
(* marks its block before that, and other tasks may come in between.       *)
(***************************************************************************)
EXTENDS Integers, Sequences, FiniteSets
LOCAL INSTANCE SequencesExt
LOCAL INSTANCE FiniteSetsExt

CONSTANTS
    Align,    \* portBYTE_ALIGNMENT
    Struct,   \* heapSTRUCT_SIZE: the BlockLink_t in front of a block
    SizeMod,  \* size_t has the values 0 .. SizeMod - 1
    Heaps,    \* the heaps of the instance, as they start
    Sizes,    \* sizes asked for
    Numbers,  \* numbers of elements asked for
    MaxAllocs \* bound of an instance: the calls of one run

VARIABLES
    heap,  \* the statics of the allocator
    used   \* the blocks handed out, with what was asked for

vars == <<heap, used>>

Block(at, size) == [at |-> at, size |-> size]
SizeOf(blocks) == MapThenSumSet(LAMBDA b : b.size, blocks)

-----------------------------------------------------------------------------
(* How the heaps start *)

\* A heap of a kind, in regions: its free list, in the order of the kind.
Starts(kind, regions, free) ==
    [kind      |-> kind,
     regions   |-> regions,
     free      |-> free,                     \* from xStart on, without pxEnd
     remaining |-> SizeOf(ToSet(regions)),   \* xFreeBytesRemaining
     minimum   |-> SizeOf(ToSet(regions)),   \* xMinimumEver...
     allocs    |-> 0,                        \* xNumberOfSuccessful...
     frees     |-> 0]

RoundUp(n) == ((n + Align - 1) \div Align) * Align
RoundDown(n) == n - (n % Align)

\* heap_1: what is left after xNextFreeByte is the one free block.
Heap1(total) ==
    LET all == <<Block(Align, total - Align)>> IN Starts(1, all, all)

\* prvHeapInit of heap_2: configADJUSTED_HEAP_SIZE from an aligned address on.
Heap2(total) ==
    LET all == <<Block(Align, total - Align)>> IN Starts(2, all, all)

\* prvHeapInit of heap_4: pxEnd takes the last bytes of the array at start.
Heap4(start, total) ==
    LET first == RoundUp(start)
        end == RoundDown(start + total - Struct)
        all == <<Block(first, end - first)>>
    IN  Starts(4, all, all)

\* vPortDefineHeapRegions of heap_5: the end of each region but the last stays
\* in the list, a block of no size.
vPortDefineHeapRegions(ranges) ==
    LET Usable(r) == Heap4(r.at, r.size).regions[1]
        regions == [i \in DOMAIN ranges |-> Usable(ranges[i])]
        End(r) == Block(r.at + r.size, 0)
        n == Len(regions)
        listed == [i \in 1 .. 2 * n - 1 |->
                     LET r == regions[(i + 1) \div 2]
                     IN  IF i % 2 = 1 THEN r ELSE End(r)]
    IN  Starts(5, regions, listed)

Init == heap \in Heaps /\ used = {}

-----------------------------------------------------------------------------
(* The free list *)

\* prvInsertBlockIntoFreeList of heap_2: before the first that is not smaller.
InsertBySize(free, b) ==
    LET n == Cardinality({i \in DOMAIN free : free[i].size < b.size})
    IN  InsertAt(free, n + 1, b)

\* Mutant: the block after is joined to what it was before it was joined itself.
InsertByAddressUnjoined(free, b) ==
    LET n == Cardinality({i \in DOMAIN free : free[i].at < b.at})
        before == SubSeq(free, 1, n)
        after == SubSeq(free, n + 1, Len(free))
        follows == n > 0 /\ Last(before).at + Last(before).size = b.at
        touches == after # <<>> /\ b.at + b.size = Head(after).at
        joined == IF touches THEN Block(b.at, b.size + Head(after).size) ELSE b
        rest == IF touches THEN Tail(after) ELSE after
    IN  IF follows
          THEN Front(before) \o <<Block(Last(before).at, Last(before).size + b.size)>>
               \o rest
          ELSE before \o <<joined>> \o rest

\* prvInsertBlockIntoFreeList of heap_4 and heap_5: by address, joined with
\* the block before and with the block after that it touches.
InsertByAddress(free, b) ==
    LET n == Cardinality({i \in DOMAIN free : free[i].at < b.at})
        before == SubSeq(free, 1, n)
        after == SubSeq(free, n + 1, Len(free))
        follows == n > 0 /\ Last(before).at + Last(before).size = b.at
        c == IF follows THEN Block(Last(before).at, Last(before).size + b.size)
             ELSE b
        touches == after # <<>> /\ c.at + c.size = Head(after).at
    IN  (IF follows THEN Front(before) ELSE before)
        \o <<IF touches THEN [c EXCEPT !.size = @ + Head(after).size] ELSE c>>
        \o (IF touches THEN Tail(after) ELSE after)

Insert(kind, free, b) ==
    IF kind = 2 THEN InsertBySize(free, b) ELSE InsertByAddress(free, b)

\* xWantedSize with the BlockLink_t and up to the next multiple of the
\* alignment, 0 when that overflows.
Wanted(w) ==
    LET more == Struct + Align - (w % Align)
    IN  IF w = 0 \/ w > SizeMod - 1 - more THEN 0 ELSE w + more

\* heapBLOCK_SIZE_IS_VALID, and there are as many bytes left.
MayFit(h, w) == w < SizeMod \div 2 /\ w > 0 /\ w <= h.remaining

None == Block(0, 0)
Fails(h) == [heap |-> h, block |-> None]

\* The first block of the list that is large enough is taken, and what it has
\* in excess goes back as a block, if that is more than heapMINIMUM_BLOCK_SIZE.
TakeFirstFit(h, w) ==
    LET fits == {i \in DOMAIN h.free : h.free[i].size >= w}
        i == Min(fits)
        b == h.free[i]
        rest == RemoveAt(h.free, i)
        splits == b.size - w > 2 * Struct
        taken == IF splits THEN Block(b.at, w) ELSE b
        left == h.remaining - taken.size
    IN  IF fits = {} THEN Fails(h)
        ELSE [heap |-> [h EXCEPT
                          !.free = IF splits
                                     THEN Insert(h.kind, rest, Block(b.at + w, b.size - w))
                                     ELSE rest,
                          !.remaining = left,
                          !.minimum = IF left < @ THEN left ELSE @,
                          !.allocs = @ + 1],
              block |-> taken]

-----------------------------------------------------------------------------
(* pvPortMalloc, of each heap *)

Malloc1(h, wanted) ==
    LET w == RoundUp(wanted) % SizeMod
        b == h.free[1]
    IN  IF w > 0 /\ w < b.size
          THEN [heap |-> [h EXCEPT !.free = <<Block(b.at + w, b.size - w)>>,
                                   !.remaining = @ - w],
                block |-> Block(b.at, w)]
          ELSE Fails(h)

Malloc2(h, wanted) ==
    LET w == Wanted(wanted)
    IN  IF MayFit(h, w) THEN TakeFirstFit(h, w) ELSE Fails(h)

Malloc4(h, wanted) ==
    LET w == Wanted(wanted)
    IN  IF MayFit(h, w) THEN TakeFirstFit(h, w) ELSE Fails(h)

\* heap_5 has the same function, over the list of all regions.
Malloc5(h, wanted) == Malloc4(h, wanted)

pvPortMalloc(h, w) ==
    CASE h.kind = 1 -> Malloc1(h, w)
      [] h.kind = 2 -> Malloc2(h, w)
      [] h.kind = 4 -> Malloc4(h, w)
      [] h.kind = 5 -> Malloc5(h, w)

\* The caller has the block; b.asked is what it may use.
Takes(r, asked) ==
    /\ heap' = r.heap
    /\ used' = IF r.block = None THEN used
               ELSE used \cup {[at |-> r.block.at, size |-> r.block.size,
                                asked |-> asked, marked |-> FALSE]}

Malloc(w) == Takes(pvPortMalloc(heap, w), w)

\* pvPortCalloc, of heap_2, heap_4 and heap_5: nothing when the product
\* overflows.
Calloc(num, size) ==
    /\ heap.kind # 1
    /\ IF num > 0 /\ size > (SizeMod - 1) \div num THEN UNCHANGED vars
       ELSE Takes(pvPortMalloc(heap, num * size), num * size)

\* vPortFree: heapFREE_BLOCK clears the mark of an allocated block before the
\* scheduler is suspended.  In heap_1 it does nothing.
FreeBlock(b) ==
    /\ heap.kind # 1
    /\ ~b.marked
    /\ used' = (used \ {b}) \cup {[b EXCEPT !.marked = TRUE]}
    /\ UNCHANGED heap

Free2(b) ==
    /\ heap.kind = 2 /\ b.marked
    /\ heap' = [heap EXCEPT !.free = Insert(2, @, Block(b.at, b.size)),
                            !.remaining = @ + b.size]
    /\ used' = used \ {b}

Free4(b) ==
    /\ heap.kind \in {4, 5} /\ b.marked
    /\ heap' = [heap EXCEPT !.remaining = @ + b.size,
                            !.free = Insert(4, @, Block(b.at, b.size)),
                            !.frees = @ + 1]
    /\ used' = used \ {b}

Next ==
    \/ /\ heap.allocs < MaxAllocs
       /\ \/ \E w \in Sizes : Malloc(w)
          \/ \E num \in Numbers, size \in Sizes : Calloc(num, size)
    \/ \E b \in used : FreeBlock(b) \/ Free2(b) \/ Free4(b)

Spec == Init /\ [][Next]_vars

-----------------------------------------------------------------------------
(* vPortGetHeapStats, of heap_4 and heap_5 *)

\* What it finds on its walk through the free list.  The ends of regions are
\* counted as blocks, but are never the smallest.
HeapStats(h) ==
    LET sizes == {b.size : b \in ToSet(h.free)} \ {0}
    IN  [blocks   |-> Len(h.free),
         largest  |-> IF sizes = {} THEN 0 ELSE Max(sizes),
         smallest |-> IF sizes = {} THEN SizeMod - 1 ELSE Min(sizes)]

-----------------------------------------------------------------------------
(* Properties *)

Meet(a, b) == a.at < b.at + b.size /\ b.at < a.at + a.size

\* No byte is lost or has two owners, whatever is allocated and freed in
\* whatever order and split and joined on the way: the blocks handed out and
\* the free ones lie in the regions, none meets another, together they have
\* all the bytes, and xFreeBytesRemaining has those of the free ones.
NoByteLost ==
    LET free == {b \in ToSet(heap.free) : b.size > 0}
        taken == {Block(b.at, b.size) : b \in used}
        inUse == SizeOf(taken)
    IN  /\ \A a, b \in free \cup taken : a # b => ~Meet(a, b)
        /\ \A b \in free \cup taken : \E r \in ToSet(heap.regions) :
             r.at <= b.at /\ b.at + b.size <= r.at + r.size
        /\ heap.remaining = SizeOf(free)
        /\ heap.remaining + inUse = SizeOf(ToSet(heap.regions))
        /\ heap.kind \in {4, 5} => heap.minimum <= heap.remaining

\* Who asks gets an aligned address with as many bytes behind it, at the edge
\* of size_t too, and heap_4 and heap_5 leave no two free blocks side by side:
\* when all is freed, the largest allocation is possible again.
BlocksServe ==
    /\ \A b \in used :
         /\ b.at % Align = 0
         /\ b.size >= b.asked + (IF heap.kind = 1 THEN 0 ELSE Struct)
    /\ heap.kind \in {4, 5} =>
         \A i \in 1 .. Len(heap.free) - 1 :
           \/ heap.free[i].at + heap.free[i].size < heap.free[i + 1].at
           \/ heap.free[i + 1].size = 0
    /\ heap.kind \in {4, 5} /\ used = {} =>
         \A r \in ToSet(heap.regions) : r \in ToSet(heap.free)

=============================================================================

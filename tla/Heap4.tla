-------------------------------- MODULE Heap4 --------------------------------
(***************************************************************************)
(* The heap with coalescing (Source/portable/MemMang/heap_4.c).  A block   *)
(* is known by the address of its header; the free ones are linked in      *)
(* order of address.  The list is changed with the scheduler suspended,    *)
(* the allocated flag of a block that is being freed before that.          *)
(***************************************************************************)
EXTENDS Integers, Sequences, SequencesExt, FiniteSets, FiniteSetsExt

CONSTANTS ucHeap,               \* address of the array the heap is in
          configTOTAL_HEAP_SIZE,
          Alignment,            \* portBYTE_ALIGNMENT, a power of 2
          xHeapStructSize,      \* aligned size of a block's header
          SizeMax,              \* largest size_t, 2^w - 1
          Sizes,                \* sizes asked of pvPortMalloc
          Arrays                \* numbers of elements and their sizes asked of pvPortCalloc

Aligned(n) == n - (n % Alignment)

FirstBlock == Aligned(ucHeap + Alignment - 1)
pxEnd == Aligned(ucHeap + configTOTAL_HEAP_SIZE - xHeapStructSize)
HeapSize == pxEnd - FirstBlock

ASSUME Heap4Assumption ==
    /\ ucHeap \in Nat /\ configTOTAL_HEAP_SIZE \in Nat
    /\ Alignment \in Nat \ {0} /\ xHeapStructSize \in Nat \ {0}
    /\ xHeapStructSize % Alignment = 0
    /\ SizeMax \in Nat /\ SizeMax % 2 = 1
    /\ HeapSize > 0 /\ HeapSize <= SizeMax \div 2
    /\ Sizes \subseteq 0 .. SizeMax
    /\ Arrays \subseteq (0 .. SizeMax) \X (0 .. SizeMax)

Addresses == FirstBlock .. pxEnd - 1

VARIABLES
    freeList,           \* addresses of the free blocks in the order of the links
    xBlockSize,         \* by address; 0 where there is no header
    allocated,          \* blocks with the allocated flag set
    freeing,            \* blocks whose flag is cleared but that are not in the list yet
    initialised,        \* pxEnd # NULL
    xFreeBytesRemaining, xMinimumEverFreeBytesRemaining,
    requested           \* no state of the program: what each block was asked for

heapVars == <<freeList, xBlockSize, allocated, freeing, initialised,
          xFreeBytesRemaining, xMinimumEverFreeBytesRemaining, requested>>

NoBlocks == [a \in Addresses |-> 0]

HeapInit ==
    /\ freeList = <<>> /\ xBlockSize = NoBlocks
    /\ allocated = {} /\ freeing = {}
    /\ initialised = FALSE
    /\ xFreeBytesRemaining = 0 /\ xMinimumEverFreeBytesRemaining = 0
    /\ requested = NoBlocks

-----------------------------------------------------------------------------
(***************************************************************************)
(* The free list: h is a record of its links and of the block sizes.       *)
(***************************************************************************)

\* Mutant: the block is merged with the one behind it or, failing that, the one before.
InsertMergedOnce(h, block) ==
    LET before == SelectInSeq(h.list \o <<pxEnd>>, LAMBDA a : a >= block) - 1
        next   == IF before = Len(h.list) THEN pxEnd ELSE h.list[before + 1]
        joinNext == block + h.size[block] = next /\ next # pxEnd
        joinPrev == ~joinNext /\ before > 0 /\ h.list[before] + h.size[h.list[before]] = block
        start  == IF joinPrev THEN h.list[before] ELSE block
        length == h.size[block] + (IF joinPrev THEN h.size[start] ELSE 0)
                                + (IF joinNext THEN h.size[next] ELSE 0)
    IN  [list |-> SubSeq(h.list, 1, before) \o (IF joinPrev THEN <<>> ELSE <<block>>)
                  \o SubSeq(h.list, before + (IF joinNext THEN 2 ELSE 1), Len(h.list)),
         size |-> [a \in Addresses |-> CASE a = start -> length
                                         [] a = block /\ joinPrev -> 0
                                         [] a = next /\ joinNext -> 0
                                         [] OTHER -> h.size[a]]]

\* prvInsertBlockIntoFreeList: behind the last block with a lower address, merged with
\* it if they touch, and the result with the block after it unless that is the end.
InsertBlock(h, block) ==
    LET before == SelectInSeq(h.list \o <<pxEnd>>, LAMBDA a : a >= block) - 1
        next   == IF before = Len(h.list) THEN pxEnd ELSE h.list[before + 1]
        joinPrev == before > 0 /\ h.list[before] + h.size[h.list[before]] = block
        start  == IF joinPrev THEN h.list[before] ELSE block
        merged == h.size[block] + IF joinPrev THEN h.size[start] ELSE 0
        joinNext == start + merged = next /\ next # pxEnd
        length == merged + IF joinNext THEN h.size[next] ELSE 0
    IN  [list |-> SubSeq(h.list, 1, before) \o (IF joinPrev THEN <<>> ELSE <<block>>)
                  \o SubSeq(h.list, before + (IF joinNext THEN 2 ELSE 1), Len(h.list)),
         size |-> [a \in Addresses |-> CASE a = start -> length
                                         [] a = block /\ joinPrev -> 0
                                         [] a = next /\ joinNext -> 0
                                         [] OTHER -> h.size[a]]]

\* What is left of a block behind its first size bytes goes back, if it is worth it.
Split(h, block, size) ==
    IF h.size[block] - size > 2 * xHeapStructSize
    THEN InsertBlock([h EXCEPT !.size[block + size] = h.size[block] - size,
                               !.size[block] = size],
                     block + size)
    ELSE h

-----------------------------------------------------------------------------
(***************************************************************************)
(* Operations                                                              *)
(***************************************************************************)

\* Mutant: the sum is not checked for overflow.
BlockSizeForUnchecked(size) ==
    IF size = 0 THEN 0
    ELSE (size + xHeapStructSize + Alignment - (size % Alignment)) % (SizeMax + 1)

\* Room for the header and the alignment; 0 for a size that cannot be had.
BlockSizeFor(size) ==
    LET more == xHeapStructSize + Alignment - (size % Alignment)
    IN  IF size = 0 \/ size > SizeMax - more THEN 0 ELSE size + more

\* The top bit of a block size is the allocated flag.
SizeIsValid(size) == size <= SizeMax \div 2

\* prvHeapInit in the first call.
HeapNow == IF initialised
           THEN [list |-> freeList, size |-> xBlockSize]
           ELSE [list |-> <<FirstBlock>>, size |-> [NoBlocks EXCEPT ![FirstBlock] = HeapSize]]
FreeBytesNow == IF initialised THEN xFreeBytesRemaining ELSE HeapSize
MinimumNow   == IF initialised THEN xMinimumEverFreeBytesRemaining ELSE HeapSize

\* Position in the list of the first block of that size; 0 if there is none.
FirstFit(size) == SelectInSeq(HeapNow.list, LAMBDA a : HeapNow.size[a] >= size)

MayAllocate(size) ==
    SizeIsValid(size) /\ size > 0 /\ size <= FreeBytesNow /\ FirstFit(size) > 0

\* pvPortMalloc
Malloc(xWantedSize) ==
    LET size == BlockSizeFor(xWantedSize)
        i == FirstFit(size)
    IN
    /\ initialised' = TRUE
    /\ \/ /\ MayAllocate(size)
          /\ LET block == HeapNow.list[i]
                 h == Split([HeapNow EXCEPT !.list = RemoveAt(@, i)], block, size)
                 left == FreeBytesNow - h.size[block]
             IN  /\ freeList' = h.list /\ xBlockSize' = h.size
                 /\ allocated' = allocated \cup {block}
                 /\ requested' = [requested EXCEPT ![block] = xWantedSize]
                 /\ xFreeBytesRemaining' = left
                 /\ xMinimumEverFreeBytesRemaining' = Min({left, MinimumNow})
       \/ /\ ~MayAllocate(size)
          /\ freeList' = HeapNow.list /\ xBlockSize' = HeapNow.size
          /\ xFreeBytesRemaining' = FreeBytesNow
          /\ xMinimumEverFreeBytesRemaining' = MinimumNow
          /\ UNCHANGED <<allocated, requested>>
    /\ UNCHANGED freeing

\* pvPortCalloc: nothing is asked for if the product does not fit a size_t.
Calloc(xNum, xSize) ==
    /\ ~(xNum > 0 /\ xSize > SizeMax \div xNum)
    /\ Malloc(xNum * xSize)

\* vPortFree marks the block as free ...
Free(block) ==
    /\ block \in allocated
    /\ allocated' = allocated \ {block}
    /\ freeing' = freeing \cup {block}
    /\ requested' = [requested EXCEPT ![block] = 0]
    /\ UNCHANGED <<freeList, xBlockSize, initialised,
                   xFreeBytesRemaining, xMinimumEverFreeBytesRemaining>>

\* ... and then, with the scheduler suspended, puts it in the list.
FreeBlock(block) ==
    LET h == InsertBlock(HeapNow, block) IN
    /\ block \in freeing
    /\ freeing' = freeing \ {block}
    /\ freeList' = h.list /\ xBlockSize' = h.size
    /\ xFreeBytesRemaining' = xFreeBytesRemaining + xBlockSize[block]
    /\ UNCHANGED <<allocated, initialised, xMinimumEverFreeBytesRemaining, requested>>

HeapNext ==
    \/ \E size \in Sizes : Malloc(size)
    \/ \E array \in Arrays : Calloc(array[1], array[2])
    \/ \E block \in Addresses : Free(block) \/ FreeBlock(block)

HeapSpec == HeapInit /\ [][HeapNext]_heapVars

-----------------------------------------------------------------------------
(***************************************************************************)
(* Properties                                                              *)
(***************************************************************************)

Blocks == ToSet(freeList) \cup allocated \cup freeing
EndOf(block) == block + xBlockSize[block]

\* The blocks fill the heap from end to end without overlap, are aligned, and each that
\* is allocated has room for what was asked for behind its header.
BlocksTileHeap ==
    initialised =>
        /\ FirstBlock \in Blocks
        /\ Cardinality(Blocks) =
               Len(freeList) + Cardinality(allocated) + Cardinality(freeing)
        /\ \A b \in Blocks :
               /\ b % Alignment = 0 /\ xBlockSize[b] > 0
               /\ EndOf(b) \in Blocks \cup {pxEnd}
               /\ \A c \in Blocks : b < c => EndOf(b) <= c
        /\ \A b \in allocated : xBlockSize[b] - xHeapStructSize >= requested[b]

\* No two free blocks touch, so a heap with nothing allocated is one block again, and
\* the count of free bytes is that of the list.
FreeBlocksMerged ==
    initialised =>
        /\ \A i \in 1 .. Len(freeList) - 1 : EndOf(freeList[i]) < freeList[i + 1]
        /\ xFreeBytesRemaining =
               FoldLeft(LAMBDA n, b : n + xBlockSize[b], 0, freeList)
        /\ xMinimumEverFreeBytesRemaining <= xFreeBytesRemaining
=============================================================================

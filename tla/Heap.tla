-------------------------------- MODULE Heap --------------------------------
(***************************************************************************)
(* One heap of heap/heap.c: the first-fit allocator with a free list kept  *)
(* in address order, PortMalloc, PortFree, HeapInit and name##_reinit.     *)
(*                                                                         *)
(* Memory.  A block header (BlockLink_t) lives at an aligned address of    *)
(* the byte array, or at xStart.  pxNextFreeBlock and xBlockSize are the   *)
(* two words of a header; the top bit of xBlockSize marks a block owned by *)
(* the application, as in the code.  The contents of an address that is    *)
(* not a header any more (absorbed by a merge, or before a reinit) are     *)
(* payload bytes and are forgotten: both words are 0 there.  A header with *)
(* a size other than 0 is a block, so Blocks needs no ghost state.         *)
(*                                                                         *)
(* Steps.  vTaskSuspendAll and taskENTER_CRITICAL are defined as nothing   *)
(* (heap.c:70-76), so a task switch can come between any two statements.   *)
(* Each loop iteration and each stretch between two loops is one step of   *)
(* its task; with one task this is the sequential program.                 *)
(***************************************************************************)
EXTENDS Integers, FiniteSets, FiniteSetsExt

CONSTANTS Tasks,                  \* the tasks that call name##_malloc, _free, _reinit
          xStart,                 \* &heap->xStart
          ucHeap,                 \* address of heap_memory_##name##_base
          configTOTAL_HEAP_SIZE,  \* its length in bytes
          SizeMod,                \* number of values of size_t, 2^w
          Requests,               \* the request sizes used by the application
          MaxAllocs               \* bound on the allocations counted between two reinits

NULL == 0
portBYTE_ALIGNMENT == 4
xHeapStructSize == 8
heapMINIMUM_BLOCK_SIZE == 2 * xHeapStructSize
xBlockAllocatedBit == SizeMod \div 2

AlignDown(a) == a - (a % portBYTE_ALIGNMENT)
AlignUp(a) == AlignDown(a + portBYTE_ALIGNMENT - 1)
\* Addition of two size_t values: wraps at SizeMod.
AddSize(a, b) == IF a + b >= SizeMod THEN a + b - SizeMod ELSE a + b

\* The addresses HeapInit computes: first block and end marker.
pucAlignedHeap == AlignUp(ucHeap)
EndAddress ==
    LET xTotalHeapSize == configTOTAL_HEAP_SIZE - (pucAlignedHeap - ucHeap)
    IN  AlignDown(pucAlignedHeap + xTotalHeapSize - xHeapStructSize)

\* The addresses a header can have, besides xStart.
Cells == {a \in pucAlignedHeap .. EndAddress : a % portBYTE_ALIGNMENT = 0}
Addr == Cells \cup {xStart}

ASSUME HeapAssumption ==
    /\ ucHeap \in Nat \ {0}
    /\ configTOTAL_HEAP_SIZE \in Nat
    /\ SizeMod \in Nat /\ SizeMod % 2 = 0
    /\ pucAlignedHeap + xHeapStructSize <= EndAddress
    /\ EndAddress + xHeapStructSize < xBlockAllocatedBit
    /\ xStart \in Nat \ {0} /\ xStart \notin ucHeap .. ucHeap + configTOTAL_HEAP_SIZE
    /\ Requests \subseteq 0 .. SizeMod - 1
    /\ MaxAllocs \in Nat

VARIABLES pxNextFreeBlock, xBlockSize,              \* the headers in memory
          pxEnd,                                    \* heap->pxEnd
          xFreeBytesRemaining, xMinimumEverFreeBytesRemaining,
          xNumberOfSuccessfulAllocations, xNumberOfSuccessfulFrees,
          live,                                     \* chunks the application holds
          pc, request, xWantedSize, pxPreviousBlock, pxBlock, pvReturn,
          pxBlockToInsert, pxIterator               \* locals of each task

memory == <<pxNextFreeBlock, xBlockSize>>
stats == <<xFreeBytesRemaining, xMinimumEverFreeBytesRemaining,
           xNumberOfSuccessfulAllocations, xNumberOfSuccessfulFrees>>
locals == <<pc, request, xWantedSize, pxPreviousBlock, pxBlock, pvReturn,
            pxBlockToInsert, pxIterator>>
vars == <<memory, pxEnd, stats, live, locals>>

-----------------------------------------------------------------------------
\* What the memory holds.

IsAllocated(b) == xBlockSize[b] >= xBlockAllocatedBit
BlockSize(b) == IF IsAllocated(b) THEN xBlockSize[b] - xBlockAllocatedBit ELSE xBlockSize[b]
Blocks == {b \in Cells : xBlockSize[b] # 0}

\* Blocks a task has taken off the list, or not yet put on it.
Held(t) == (IF pc[t] \in {"split_insert", "alloc_done"} THEN {pxBlock[t]} ELSE {})
           \cup (IF pc[t] \in {"split_insert", "free_insert"} THEN {pxBlockToInsert[t]} ELSE {})
FreeBlocks == {b \in Blocks : ~IsAllocated(b)} \ UNION {Held(t) : t \in Tasks}

-----------------------------------------------------------------------------
Init ==
    /\ pxNextFreeBlock = [a \in Addr |-> NULL]
    /\ xBlockSize = [a \in Addr |-> 0]
    /\ pxEnd = NULL
    /\ xFreeBytesRemaining = 0
    /\ xMinimumEverFreeBytesRemaining = 0
    /\ xNumberOfSuccessfulAllocations = 0
    /\ xNumberOfSuccessfulFrees = 0
    /\ live = {}
    /\ pc = [t \in Tasks |-> "idle"]
    /\ request = [t \in Tasks |-> 0]
    /\ xWantedSize = [t \in Tasks |-> 0]
    /\ pxPreviousBlock = [t \in Tasks |-> NULL]
    /\ pxBlock = [t \in Tasks |-> NULL]
    /\ pvReturn = [t \in Tasks |-> NULL]
    /\ pxBlockToInsert = [t \in Tasks |-> NULL]
    /\ pxIterator = [t \in Tasks |-> NULL]

\* The task returns to its caller: its locals die.
Return(t) ==
    /\ pc' = [pc EXCEPT ![t] = "idle"]
    /\ request' = [request EXCEPT ![t] = 0]
    /\ xWantedSize' = [xWantedSize EXCEPT ![t] = 0]
    /\ pxPreviousBlock' = [pxPreviousBlock EXCEPT ![t] = NULL]
    /\ pxBlock' = [pxBlock EXCEPT ![t] = NULL]
    /\ pvReturn' = [pvReturn EXCEPT ![t] = NULL]
    /\ pxBlockToInsert' = [pxBlockToInsert EXCEPT ![t] = NULL]
    /\ pxIterator' = [pxIterator EXCEPT ![t] = NULL]

\* Call of prvInsertBlockIntoFreeList(heap, b): the scan starts at xStart.
CallInsert(t, b, from) ==
    /\ pc' = [pc EXCEPT ![t] = from]
    /\ pxBlockToInsert' = [pxBlockToInsert EXCEPT ![t] = b]
    /\ pxIterator' = [pxIterator EXCEPT ![t] = xStart]

-----------------------------------------------------------------------------
\* HeapInit: one free block from the aligned start up to the end marker.
HeapInit(t) ==
    /\ pc[t] \in {"init", "reinit"}
    /\ pxEnd' = EndAddress
    /\ pxNextFreeBlock' = [a \in Addr |-> CASE a = xStart -> pucAlignedHeap
                                            [] a = pucAlignedHeap -> EndAddress
                                            [] OTHER -> NULL]
    /\ xBlockSize' = [a \in Addr |-> IF a = pucAlignedHeap THEN EndAddress - pucAlignedHeap ELSE 0]
    /\ xFreeBytesRemaining' = EndAddress - pucAlignedHeap
    /\ xMinimumEverFreeBytesRemaining' = EndAddress - pucAlignedHeap
    /\ pc' = [pc EXCEPT ![t] = IF pc[t] = "init" THEN "check" ELSE "idle"]
    /\ UNCHANGED <<xNumberOfSuccessfulAllocations, xNumberOfSuccessfulFrees, live, request,
                   xWantedSize, pxPreviousBlock, pxBlock, pvReturn, pxBlockToInsert, pxIterator>>

\* name##_reinit: every field of the heap is zeroed, then HeapInit runs.  The
\* application gives up all the chunks it holds.
Reinit(t) ==
    /\ pc[t] = "idle"
    /\ pxNextFreeBlock' = [pxNextFreeBlock EXCEPT ![xStart] = NULL]
    /\ xBlockSize' = [xBlockSize EXCEPT ![xStart] = 0]
    /\ pxEnd' = NULL
    /\ xFreeBytesRemaining' = 0
    /\ xMinimumEverFreeBytesRemaining' = 0
    /\ xNumberOfSuccessfulAllocations' = 0
    /\ xNumberOfSuccessfulFrees' = 0
    /\ live' = {}
    /\ pc' = [pc EXCEPT ![t] = "reinit"]
    /\ UNCHANGED <<request, xWantedSize, pxPreviousBlock, pxBlock, pvReturn, pxBlockToInsert, pxIterator>>

-----------------------------------------------------------------------------
\* PortMalloc.

MallocCall(t, n) ==
    /\ pc[t] = "idle"
    /\ xNumberOfSuccessfulAllocations < MaxAllocs
    /\ request' = [request EXCEPT ![t] = n]
    /\ pc' = [pc EXCEPT ![t] = IF pxEnd = NULL THEN "init" ELSE "check"]
    /\ UNCHANGED <<memory, pxEnd, stats, live, xWantedSize, pxPreviousBlock, pxBlock,
                   pvReturn, pxBlockToInsert, pxIterator>>

\* Mutants of WantedSize: the size is not rounded up; the header is forgotten.
WantedSizeUnrounded(n) ==
    IF n >= xBlockAllocatedBit \/ n = 0 THEN 0 ELSE AddSize(n, xHeapStructSize)
WantedSizeWithoutHeader(n) ==
    IF n >= xBlockAllocatedBit \/ n = 0 THEN 0 ELSE AlignUp(n)

\* The block size for a request of n bytes: header added, rounded up to the
\* alignment; 0 if n is 0, has the top bit set or overflows.
WantedSize(n) ==
    LET withHeader == AddSize(n, xHeapStructSize)
        rest == withHeader % portBYTE_ALIGNMENT
        rounded == AddSize(withHeader, portBYTE_ALIGNMENT - rest)
    IN  IF n >= xBlockAllocatedBit \/ n = 0 \/ withHeader <= n THEN 0
        ELSE IF rest = 0 THEN withHeader
        ELSE IF rounded > withHeader THEN rounded
        ELSE 0

MallocRefused(t) ==
    /\ pc[t] = "check"
    /\ LET want == WantedSize(request[t]) IN want = 0 \/ want > xFreeBytesRemaining
    /\ Return(t)
    /\ UNCHANGED <<memory, pxEnd, stats, live>>

MallocSearch(t) ==
    /\ pc[t] = "check"
    /\ LET want == WantedSize(request[t]) IN
           /\ want > 0 /\ want <= xFreeBytesRemaining
           /\ xWantedSize' = [xWantedSize EXCEPT ![t] = want]
    /\ pc' = [pc EXCEPT ![t] = "search"]
    /\ pxPreviousBlock' = [pxPreviousBlock EXCEPT ![t] = xStart]
    /\ pxBlock' = [pxBlock EXCEPT ![t] = pxNextFreeBlock[xStart]]
    /\ UNCHANGED <<memory, pxEnd, stats, live, request, pvReturn, pxBlockToInsert, pxIterator>>

\* Mutants of TooSmall: the block is compared with the request, which leaves out the
\* header; a block that fits exactly is passed over.
TooSmallForRequest(t) ==
    /\ xBlockSize[pxBlock[t]] < request[t]
    /\ pxNextFreeBlock[pxBlock[t]] # NULL
TooSmallOrEqual(t) ==
    /\ xBlockSize[pxBlock[t]] <= xWantedSize[t]
    /\ pxNextFreeBlock[pxBlock[t]] # NULL

\* The while loop goes on: too small, and not the end marker.
TooSmall(t) ==
    /\ xBlockSize[pxBlock[t]] < xWantedSize[t]
    /\ pxNextFreeBlock[pxBlock[t]] # NULL

\* Mutant of SearchNext: pxBlock is not moved on.
SearchNextStays(t) ==
    /\ pc[t] = "search"
    /\ TooSmall(t)
    /\ pxPreviousBlock' = [pxPreviousBlock EXCEPT ![t] = pxBlock[t]]
    /\ UNCHANGED <<memory, pxEnd, stats, live, pc, request, xWantedSize, pxBlock, pvReturn,
                   pxBlockToInsert, pxIterator>>

SearchNext(t) ==
    /\ pc[t] = "search"
    /\ TooSmall(t)
    /\ pxPreviousBlock' = [pxPreviousBlock EXCEPT ![t] = pxBlock[t]]
    /\ pxBlock' = [pxBlock EXCEPT ![t] = pxNextFreeBlock[pxBlock[t]]]
    /\ UNCHANGED <<memory, pxEnd, stats, live, pc, request, xWantedSize, pvReturn,
                   pxBlockToInsert, pxIterator>>

\* The end marker was reached: malloc returns NULL.
SearchFail(t) ==
    /\ pc[t] = "search"
    /\ ~TooSmall(t)
    /\ pxBlock[t] = pxEnd
    /\ Return(t)
    /\ UNCHANGED <<memory, pxEnd, stats, live>>

\* Mutant of LeavesRemainder: every block is split, even with nothing left over.
LeavesAnything(t) == xBlockSize[pxBlock[t]] - xWantedSize[t] >= 0

\* A block that leaves no more than heapMINIMUM_BLOCK_SIZE is taken whole.
LeavesRemainder(t) == xBlockSize[pxBlock[t]] - xWantedSize[t] > heapMINIMUM_BLOCK_SIZE

TakeWhole(t) ==
    /\ pc[t] = "search"
    /\ ~TooSmall(t)
    /\ pxBlock[t] # pxEnd
    /\ ~LeavesRemainder(t)
    /\ pvReturn' = [pvReturn EXCEPT ![t] = pxNextFreeBlock[pxPreviousBlock[t]] + xHeapStructSize]
    /\ pxNextFreeBlock' = [pxNextFreeBlock EXCEPT ![pxPreviousBlock[t]] = pxNextFreeBlock[pxBlock[t]]]
    /\ pc' = [pc EXCEPT ![t] = "alloc_done"]
    /\ UNCHANGED <<xBlockSize, pxEnd, stats, live, request, xWantedSize, pxPreviousBlock, pxBlock,
                   pxBlockToInsert, pxIterator>>

\* Mutant of TakeAndSplit: the size of the block that was split is not reduced.
TakeAndSplitUncut(t) ==
    /\ pc[t] = "search"
    /\ ~TooSmall(t)
    /\ pxBlock[t] # pxEnd
    /\ LeavesRemainder(t)
    /\ pvReturn' = [pvReturn EXCEPT ![t] = pxNextFreeBlock[pxPreviousBlock[t]] + xHeapStructSize]
    /\ pxNextFreeBlock' = [pxNextFreeBlock EXCEPT ![pxPreviousBlock[t]] = pxNextFreeBlock[pxBlock[t]]]
    /\ LET pxNewBlockLink == pxBlock[t] + xWantedSize[t] IN
           /\ xBlockSize' = [xBlockSize EXCEPT ![pxNewBlockLink] = xBlockSize[pxBlock[t]] - xWantedSize[t]]
           /\ CallInsert(t, pxNewBlockLink, "split_insert")
    /\ UNCHANGED <<pxEnd, stats, live, request, xWantedSize, pxPreviousBlock, pxBlock>>

\* A larger block is split; the remainder goes through prvInsertBlockIntoFreeList.
TakeAndSplit(t) ==
    /\ pc[t] = "search"
    /\ ~TooSmall(t)
    /\ pxBlock[t] # pxEnd
    /\ LeavesRemainder(t)
    /\ pvReturn' = [pvReturn EXCEPT ![t] = pxNextFreeBlock[pxPreviousBlock[t]] + xHeapStructSize]
    /\ pxNextFreeBlock' = [pxNextFreeBlock EXCEPT ![pxPreviousBlock[t]] = pxNextFreeBlock[pxBlock[t]]]
    /\ LET pxNewBlockLink == pxBlock[t] + xWantedSize[t] IN
           /\ xBlockSize' = [xBlockSize EXCEPT ![pxNewBlockLink] = xBlockSize[pxBlock[t]] - xWantedSize[t],
                                               ![pxBlock[t]] = xWantedSize[t]]
           /\ CallInsert(t, pxNewBlockLink, "split_insert")
    /\ UNCHANGED <<pxEnd, stats, live, request, xWantedSize, pxPreviousBlock, pxBlock>>

\* Mutants of AllocDone, which differ in what they subtract, how they keep the low-water
\* mark and whether they clear the link: the wanted size is subtracted, not the size of
\* the block; the mark is not kept; the link stays.
AllocDoneWith(t, taken, mark(_), link) ==
    /\ pc[t] = "alloc_done"
    /\ xFreeBytesRemaining' = xFreeBytesRemaining - taken
    /\ xMinimumEverFreeBytesRemaining' = mark(xFreeBytesRemaining - taken)
    /\ xBlockSize' = [xBlockSize EXCEPT ![pxBlock[t]] =
                          IF IsAllocated(pxBlock[t]) THEN @ ELSE @ + xBlockAllocatedBit]
    /\ pxNextFreeBlock' = [pxNextFreeBlock EXCEPT ![pxBlock[t]] = link]
    /\ xNumberOfSuccessfulAllocations' = xNumberOfSuccessfulAllocations + 1
    /\ live' = live \cup {[ptr |-> pvReturn[t], len |-> request[t]]}
    /\ Return(t)
    /\ UNCHANGED <<pxEnd, xNumberOfSuccessfulFrees>>
Lowest(left) == IF left < xMinimumEverFreeBytesRemaining THEN left ELSE xMinimumEverFreeBytesRemaining
AllocDoneWantedSize(t) == AllocDoneWith(t, xWantedSize[t], Lowest, NULL)
AllocDoneNoMark(t) ==
    LET mark(left) == xMinimumEverFreeBytesRemaining
    IN  AllocDoneWith(t, xBlockSize[pxBlock[t]], mark, NULL)
AllocDoneKeepsLink(t) ==
    AllocDoneWith(t, xBlockSize[pxBlock[t]], Lowest, pxNextFreeBlock[pxBlock[t]])

\* The tail of PortMalloc: accounting, the block is marked as allocated and
\* handed to the application.
AllocDone(t) ==
    /\ pc[t] = "alloc_done"
    /\ LET left == xFreeBytesRemaining - xBlockSize[pxBlock[t]] IN
           /\ xFreeBytesRemaining' = left
           /\ xMinimumEverFreeBytesRemaining' =
                  IF left < xMinimumEverFreeBytesRemaining THEN left
                  ELSE xMinimumEverFreeBytesRemaining
    /\ xBlockSize' = [xBlockSize EXCEPT ![pxBlock[t]] =
                          IF IsAllocated(pxBlock[t]) THEN @ ELSE @ + xBlockAllocatedBit]
    /\ pxNextFreeBlock' = [pxNextFreeBlock EXCEPT ![pxBlock[t]] = NULL]
    /\ xNumberOfSuccessfulAllocations' = xNumberOfSuccessfulAllocations + 1
    /\ live' = live \cup {[ptr |-> pvReturn[t], len |-> request[t]]}
    /\ Return(t)
    /\ UNCHANGED <<pxEnd, xNumberOfSuccessfulFrees>>

-----------------------------------------------------------------------------
\* PortFree of a chunk the application holds.  (PortFree(NULL) does nothing; the
\* two configASSERTs are the guards.)
PortFree(t, c) ==
    LET pxLink == c.ptr - xHeapStructSize IN
    /\ pc[t] = "idle"
    /\ IsAllocated(pxLink)
    /\ pxNextFreeBlock[pxLink] = NULL
    /\ live' = live \ {c}
    /\ xBlockSize' = [xBlockSize EXCEPT ![pxLink] = BlockSize(pxLink)]
    /\ xFreeBytesRemaining' = xFreeBytesRemaining + BlockSize(pxLink)
    /\ CallInsert(t, pxLink, "free_insert")
    /\ UNCHANGED <<pxNextFreeBlock, pxEnd, xMinimumEverFreeBytesRemaining,
                   xNumberOfSuccessfulAllocations, xNumberOfSuccessfulFrees,
                   request, xWantedSize, pxPreviousBlock, pxBlock, pvReturn>>

-----------------------------------------------------------------------------
\* prvInsertBlockIntoFreeList.

InsertScan(t) ==
    /\ pc[t] \in {"split_insert", "free_insert"}
    /\ pxNextFreeBlock[pxIterator[t]] < pxBlockToInsert[t]
    /\ pxIterator' = [pxIterator EXCEPT ![t] = pxNextFreeBlock[pxIterator[t]]]
    /\ UNCHANGED <<memory, pxEnd, stats, live, pc, request, xWantedSize, pxPreviousBlock, pxBlock,
                   pvReturn, pxBlockToInsert>>

\* Mutant of Link: the block after is never merged.
LinkWithoutMergeAfter(t) ==
    LET it == pxIterator[t]
        new == pxBlockToInsert[t]
        next == pxNextFreeBlock[it]
        mergeBefore == it + xBlockSize[it] = new
    IN  /\ next >= new
        /\ xBlockSize' = IF mergeBefore
                         THEN [xBlockSize EXCEPT ![it] = @ + xBlockSize[new], ![new] = 0]
                         ELSE xBlockSize
        /\ pxNextFreeBlock' = IF mergeBefore
                              THEN pxNextFreeBlock
                              ELSE [pxNextFreeBlock EXCEPT ![it] = new, ![new] = next]

\* The position is found: merge with the block before, merge with the block
\* after unless that is the end marker, link.
Link(t) ==
    LET it == pxIterator[t]
        new == pxBlockToInsert[t]
        next == pxNextFreeBlock[it]
        mergeBefore == it + xBlockSize[it] = new
        b == IF mergeBefore THEN it ELSE new
        size == IF mergeBefore THEN xBlockSize[it] + xBlockSize[new] ELSE xBlockSize[new]
        mergeAfter == b + size = next /\ next # pxEnd
    IN  /\ next >= new
        /\ xBlockSize' = [a \in Addr |->
               CASE a = b -> IF mergeAfter THEN size + xBlockSize[next] ELSE size
                 [] a # b /\ (a = new \/ (mergeAfter /\ a = next)) -> 0
                 [] OTHER -> xBlockSize[a]]
        /\ pxNextFreeBlock' = [a \in Addr |->
               CASE a = b -> IF mergeAfter THEN pxNextFreeBlock[next] ELSE next
                 [] a # b /\ (a = new \/ (mergeAfter /\ a = next)) -> NULL
                 [] a = it /\ a # b -> b
                 [] OTHER -> pxNextFreeBlock[a]]

SplitLink(t) ==
    /\ pc[t] = "split_insert"
    /\ Link(t)
    /\ pc' = [pc EXCEPT ![t] = "alloc_done"]
    /\ pxBlockToInsert' = [pxBlockToInsert EXCEPT ![t] = NULL]
    /\ pxIterator' = [pxIterator EXCEPT ![t] = NULL]
    /\ UNCHANGED <<pxEnd, stats, live, request, xWantedSize, pxPreviousBlock, pxBlock, pvReturn>>

FreeLink(t) ==
    /\ pc[t] = "free_insert"
    /\ Link(t)
    /\ xNumberOfSuccessfulFrees' = xNumberOfSuccessfulFrees + 1
    /\ Return(t)
    /\ UNCHANGED <<pxEnd, xFreeBytesRemaining, xMinimumEverFreeBytesRemaining,
                   xNumberOfSuccessfulAllocations, live>>

-----------------------------------------------------------------------------
\* The steps of a call under way, and the calls the application makes.
Running(t) ==
    \/ HeapInit(t) \/ MallocRefused(t) \/ MallocSearch(t)
    \/ SearchNext(t) \/ SearchFail(t) \/ TakeWhole(t) \/ TakeAndSplit(t) \/ AllocDone(t)
    \/ InsertScan(t) \/ SplitLink(t) \/ FreeLink(t)

MallocOrFree(t) ==
    \/ \E n \in Requests : MallocCall(t, n)
    \/ \E c \in live : PortFree(t, c)

Next == \E t \in Tasks : Running(t) \/ MallocOrFree(t) \/ Reinit(t)

\* A task inside the allocator keeps running: nothing in it blocks.
Fairness == \A t \in Tasks : WF_vars(Running(t))
Spec == Init /\ [][Next]_vars
FairSpec == Spec /\ Fairness
-----------------------------------------------------------------------------
(***************************************************************************)
(* Properties.                                                             *)
(***************************************************************************)
Idle == \A t \in Tasks : pc[t] = "idle"
Ready == pxEnd # NULL
Chunks == [ptr : Nat, len : Nat]

\* Every variable has its type: the headers, counters and locals are addresses and
\* sizes, the application holds chunks.
TypeOK ==
    /\ pxNextFreeBlock \in [Addr -> Cells \cup {NULL}]
    /\ xBlockSize \in [Addr -> Nat]
    /\ pxEnd \in {NULL, EndAddress}
    /\ xFreeBytesRemaining \in Int
    /\ xMinimumEverFreeBytesRemaining \in Int
    /\ xNumberOfSuccessfulAllocations \in Nat
    /\ xNumberOfSuccessfulFrees \in Nat
    /\ live \subseteq Chunks
    /\ pc \in [Tasks -> {"idle", "init", "reinit", "check", "search", "split_insert",
                         "free_insert", "alloc_done"}]
    /\ request \in [Tasks -> Nat]
    /\ xWantedSize \in [Tasks -> Nat]
    /\ pxPreviousBlock \in [Tasks -> Addr \cup {NULL}]
    /\ pxBlock \in [Tasks -> Cells \cup {NULL}]
    /\ pvReturn \in [Tasks -> Nat]
    /\ pxBlockToInsert \in [Tasks -> Cells \cup {NULL}]
    /\ pxIterator \in [Tasks -> Addr \cup {NULL}]

\* What PortMalloc hands out: two chunks the application holds never share a byte,
\* and every chunk is aligned (the configASSERT of heap.c:248), lies inside the heap
\* and ends before the end marker.
ChunksDisjoint ==
    \A c \in live :
        /\ c.ptr % portBYTE_ALIGNMENT = 0
        /\ c.ptr >= pucAlignedHeap + xHeapStructSize
        /\ c.ptr + c.len <= EndAddress
        /\ \A d \in live \ {c} : c.ptr + c.len <= d.ptr \/ d.ptr + d.len <= c.ptr

\* A chunk shares no byte with the header or the body of a free block or of another
\* chunk's block: writing to it cannot damage the free list.
ChunksOffTheList ==
    \A c \in live : \A b \in Blocks :
        b # c.ptr - xHeapStructSize => c.ptr + c.len <= b \/ b + BlockSize(b) <= c.ptr

\* The two configASSERTs of PortFree (heap.c:269-270) hold for every chunk the
\* application holds, whatever was allocated and freed around it.
FreeAssertsHold ==
    \A c \in live : LET pxLink == c.ptr - xHeapStructSize IN
        pxLink \in Blocks /\ IsAllocated(pxLink) /\ pxNextFreeBlock[pxLink] = NULL

\* What a caller of PortMalloc relies on: the chunk is theirs alone, and can be freed.
ChunksSafe == ChunksDisjoint /\ ChunksOffTheList /\ FreeAssertsHold

\* No byte of the heap is lost or counted twice: the blocks tile the space from the
\* first block up to the end marker.
BlocksTile ==
    Ready =>
        /\ pucAlignedHeap \in Blocks
        /\ \A b \in Blocks :
               /\ b + BlockSize(b) \in Blocks \cup {EndAddress}
               /\ \A c \in Blocks : b < c => b + BlockSize(b) <= c

\* The free list threads exactly the free blocks, in address order, and ends at pxEnd.
FreeListOrdered ==
    Ready =>
        \A x \in FreeBlocks \cup {xStart} :
            LET n == pxNextFreeBlock[x] IN
            /\ n \in FreeBlocks \cup {EndAddress}
            /\ x # xStart => x < n
            /\ \A f \in FreeBlocks : (x = xStart \/ x < f) => n <= f

\* No two free blocks on the list touch: prvInsertBlockIntoFreeList merges them all.
Coalesced ==
    Ready => \A f \in FreeBlocks : f + BlockSize(f) \notin FreeBlocks

\* The structure PortMalloc and PortFree walk: between any two steps of a call the
\* blocks tile the heap, and the list has all the free ones, ordered and merged.
FreeListSound == BlocksTile /\ FreeListOrdered /\ Coalesced

\* Once everything has been freed, in whatever order, the heap is one free block of
\* its original size again (what heap_test.c exercises).
AllFreedIsOneBlock ==
    (Ready /\ Idle /\ live = {}) =>
        /\ FreeBlocks = {pucAlignedHeap}
        /\ xBlockSize[pucAlignedHeap] = EndAddress - pucAlignedHeap

\* Between calls xFreeBytesRemaining is the sum of all the free blocks, as the
\* comment on xAvailableHeapSpaceInBytes says (heap_private.h:20), and the counters of
\* allocations and frees account for the chunks outstanding.
AccountsExact ==
    Idle => /\ xFreeBytesRemaining = MapThenSumSet(BlockSize, FreeBlocks)
            /\ xNumberOfSuccessfulAllocations - xNumberOfSuccessfulFrees = Cardinality(live)

\* The low-water mark never exceeds what is free now.
LowWaterMark == xMinimumEverFreeBytesRemaining <= xFreeBytesRemaining

\* PortMalloc returns NULL for a valid size only when no single free block can hold
\* the request: neither the early test on xFreeBytesRemaining nor the walk misses one.
FailsOnlyWhenNothingFits ==
    [][\A t \in Tasks :
         (pc[t] \in {"check", "search"} /\ pc'[t] = "idle" /\ WantedSize(request[t]) # 0)
             => \A b \in FreeBlocks : xBlockSize[b] < WantedSize(request[t])]_vars

\* First fit: the block taken is the lowest one that is large enough.
TakesFirstFit ==
    [][\A t \in Tasks :
         (pc[t] = "search" /\ pc'[t] \in {"split_insert", "alloc_done"})
             => \A b \in FreeBlocks : b < pxBlock[t] => xBlockSize[b] < xWantedSize[t]]_vars

\* Every call returns: the walks along the free list end.
CallsReturn == \A t \in Tasks : pc[t] # "idle" ~> pc[t] = "idle"
=============================================================================

------------------------------ MODULE HeapInfo ------------------------------
(***************************************************************************)
(* heap_info and vPortGetHeapStats of heap/heap.c: a reader prints the     *)
(* header fields of a heap, walks its free list and copies its counters.   *)
(* The reader is a task that also allocates (Reader \in Tasks: its walk    *)
(* and its own calls alternate) or another thread, such as the FinSH shell *)
(* of heap_test.c (Reader \notin Tasks: the walk interleaves with theirs,  *)
(* because vTaskSuspendAll is defined as nothing).                         *)
(***************************************************************************)
EXTENDS Heap

CONSTANT Reader

portMAX_DELAY == SizeMod - 1

VARIABLES infoPc,                          \* where the reader is
          walk,                            \* pxBlock of vPortGetHeapStats
          xBlocks, xMaxSize, xMinSize,     \* its locals
          report                           \* the HeapStats_t it fills

infoVars == <<infoPc, walk, xBlocks, xMaxSize, xMinSize, report>>

NoReport == [xAvailableHeapSpaceInBytes |-> 0, xSizeOfLargestFreeBlockInBytes |-> 0,
             xSizeOfSmallestFreeBlockInBytes |-> 0, xNumberOfFreeBlocks |-> 0,
             xMinimumEverFreeBytesRemaining |-> 0, xNumberOfSuccessfulAllocations |-> 0,
             xNumberOfSuccessfulFrees |-> 0]

InfoInit ==
    /\ Init
    /\ infoPc = "out"
    /\ walk = NULL
    /\ xBlocks = 0 /\ xMaxSize = 0 /\ xMinSize = portMAX_DELAY
    /\ report = NoReport

\* heap_info is called.
InfoCall ==
    /\ infoPc = "out"
    /\ Reader \in Tasks => pc[Reader] = "idle"
    /\ infoPc' = "print"
    /\ UNCHANGED <<vars, walk, xBlocks, xMaxSize, xMinSize, report>>

\* The header of the first free block and the one at pxEnd are printed; then
\* vPortGetHeapStats starts its walk, unless there is no list yet.
InfoPrint ==
    /\ infoPc = "print"
    /\ walk' = pxNextFreeBlock[xStart]
    /\ infoPc' = IF walk' = NULL THEN "copy" ELSE "walk"
    /\ UNCHANGED <<vars, xBlocks, xMaxSize, xMinSize, report>>

\* Mutant of Count: the smallest block is looked for only among those that do not
\* raise the maximum.
CountElse(b) ==
    /\ xBlocks' = xBlocks + 1
    /\ xMaxSize' = IF xBlockSize[b] > xMaxSize THEN xBlockSize[b] ELSE xMaxSize
    /\ xMinSize' = IF xBlockSize[b] > xMaxSize \/ xBlockSize[b] >= xMinSize THEN xMinSize
                   ELSE xBlockSize[b]

Count(b) ==
    /\ xBlocks' = xBlocks + 1
    /\ xMaxSize' = IF xBlockSize[b] > xMaxSize THEN xBlockSize[b] ELSE xMaxSize
    /\ xMinSize' = IF xBlockSize[b] < xMinSize THEN xBlockSize[b] ELSE xMinSize

\* Mutant of AtEnd: the do-while loop that heap.c:461-480 keeps as a comment.
AtEndDoWhile == walk = pxEnd /\ xBlocks > 0

AtEnd == walk = pxEnd

\* Mutant of WalkBlock: pxBlock is not moved on.
WalkBlockStays ==
    /\ infoPc = "walk"
    /\ ~AtEnd
    /\ Count(walk)
    /\ UNCHANGED <<vars, infoPc, walk, report>>

\* One turn of the while loop.  A walk that has left the heap never meets pxEnd again:
\* it goes on for ever, as the comment at heap.c:479 says of the old loop.
WalkBlock ==
    /\ infoPc = "walk"
    /\ ~AtEnd
    /\ IF walk \in Addr
       THEN Count(walk) /\ walk' = pxNextFreeBlock[walk]
       ELSE UNCHANGED <<walk, xBlocks, xMaxSize, xMinSize>>
    /\ UNCHANGED <<vars, infoPc, report>>

WalkDone ==
    /\ infoPc = "walk"
    /\ AtEnd
    /\ infoPc' = "copy"
    /\ UNCHANGED <<vars, walk, xBlocks, xMaxSize, xMinSize, report>>

\* The results of the walk and the counters go into the HeapStats_t.
FillReport ==
    /\ infoPc = "copy"
    /\ infoPc' = "filled"
    /\ report' = [xAvailableHeapSpaceInBytes |-> xFreeBytesRemaining,
                  xSizeOfLargestFreeBlockInBytes |-> xMaxSize,
                  xSizeOfSmallestFreeBlockInBytes |-> xMinSize,
                  xNumberOfFreeBlocks |-> xBlocks,
                  xMinimumEverFreeBytesRemaining |-> xMinimumEverFreeBytesRemaining,
                  xNumberOfSuccessfulAllocations |-> xNumberOfSuccessfulAllocations,
                  xNumberOfSuccessfulFrees |-> xNumberOfSuccessfulFrees]
    /\ UNCHANGED <<vars, walk, xBlocks, xMaxSize, xMinSize>>

\* The report is printed and heap_info returns: its locals die.
InfoReturn ==
    /\ infoPc = "filled"
    /\ infoPc' = "out"
    /\ walk' = NULL
    /\ xBlocks' = 0 /\ xMaxSize' = 0 /\ xMinSize' = portMAX_DELAY
    /\ report' = NoReport
    /\ UNCHANGED vars

InfoRunning == InfoPrint \/ WalkBlock \/ WalkDone \/ FillReport \/ InfoReturn

\* A step of a task; the reader's own calls wait until its heap_info has returned.
TaskStep ==
    /\ \E t \in Tasks : /\ t = Reader => infoPc = "out"
                        /\ Running(t) \/ MallocOrFree(t) \/ Reinit(t)
    /\ UNCHANGED infoVars

InfoNext == TaskStep \/ InfoCall \/ InfoRunning

InfoSpec == InfoInit /\ [][InfoNext]_<<vars, infoVars>>
InfoFairSpec == InfoSpec /\ Fairness /\ WF_<<vars, infoVars>>(InfoRunning)

\* Tasks that only allocate and free: none reinitialises the heap under the others, none
\* reads the statistics.
SharedSpec ==
    /\ InfoInit
    /\ [][(\E t \in Tasks : Running(t) \/ MallocOrFree(t)) /\ UNCHANGED infoVars]_<<vars, infoVars>>
-----------------------------------------------------------------------------
\* The reader's variables have their types; it counts no more blocks than there are
\* places for a header.
InfoTypeOK ==
    /\ infoPc \in {"out", "print", "walk", "copy", "filled"}
    /\ walk \in Addr \cup {NULL}
    /\ xBlocks \in 0 .. Cardinality(Cells)
    /\ xMaxSize \in Nat
    /\ xMinSize \in 0 .. portMAX_DELAY
    /\ DOMAIN report = DOMAIN NoReport

\* heap_info finds a first free block and an end marker to print (heap.c:608-614).
HeadersExist == infoPc = "print" => pxNextFreeBlock[xStart] # NULL /\ pxEnd # NULL

\* The walk of vPortGetHeapStats stays on the free list up to the end marker: it never
\* counts a block that is in use or that a merge has absorbed.
WalkOnList == infoPc = "walk" => walk \in FreeBlocks \cup {EndAddress}

\* The counters are exact between calls, and a report is that of the heap at the time of
\* the call, as the comments on the fields of HeapStats_t say (heap_private.h:20-39): the
\* number, the largest and the smallest of the free blocks, and their sum.
ReportExact ==
    /\ AccountsExact /\ LowWaterMark
    /\ infoPc = "filled" =>
        LET sizes == {xBlockSize[b] : b \in FreeBlocks} IN
        /\ report.xNumberOfFreeBlocks = Cardinality(FreeBlocks)
        /\ report.xAvailableHeapSpaceInBytes = MapThenSumSet(BlockSize, FreeBlocks)
        /\ IF sizes = {}
           THEN /\ report.xSizeOfLargestFreeBlockInBytes = 0
                /\ report.xSizeOfSmallestFreeBlockInBytes = portMAX_DELAY
           ELSE /\ report.xSizeOfLargestFreeBlockInBytes = Max(sizes)
                /\ report.xSizeOfSmallestFreeBlockInBytes = Min(sizes)

\* heap_info returns, also when no block is free: the case in which the do-while loop
\* it replaces ran past the end marker (heap.c:479).
InfoReturns == infoPc # "out" ~> infoPc = "out"
=============================================================================

---------------------------- MODULE HeapInvariant ---------------------------
(***************************************************************************)
(* The inductive invariant of Heap, for one task, and the steps that move  *)
(* no block: initialisation, the start of a call, the search, the scan for *)
(* the place of an insertion, and a return without a block.                *)
(***************************************************************************)
EXTENDS Heap, TLAPS

OneTask == \A s, t \in Tasks : s = t

(***************************************************************************)
(* The inductive invariant.                                                *)
(***************************************************************************)
\* Every block lies below the end marker and has an aligned, non-zero size; the
\* headers of xStart and of the end marker have size 0.
SizesOK ==
    /\ xBlockSize[xStart] = 0
    /\ xBlockSize[EndAddress] = 0
    /\ pxNextFreeBlock[EndAddress] = NULL
    /\ \A b \in Blocks : /\ BlockSize(b) > 0
                         /\ BlockSize(b) % 4 = 0
                         /\ b + BlockSize(b) <= EndAddress

\* The chunks of the application are exactly the allocated blocks.
LiveOK ==
    /\ \A c \in live : /\ c.ptr - xHeapStructSize \in Blocks
                       /\ IsAllocated(c.ptr - xHeapStructSize)
                       /\ pxNextFreeBlock[c.ptr - xHeapStructSize] = NULL
                       /\ c.len + xHeapStructSize <= BlockSize(c.ptr - xHeapStructSize)
    /\ \A c, d \in live : c.ptr = d.ptr => c = d
    /\ \A b \in Blocks : IsAllocated(b) => \E c \in live : c.ptr = b + xHeapStructSize

\* What a task inside PortMalloc, PortFree or prvInsertBlockIntoFreeList knows.
AtSearch(t) ==
    /\ pxPreviousBlock[t] \in FreeBlocks \cup {xStart}
    /\ pxBlock[t] = pxNextFreeBlock[pxPreviousBlock[t]]
    /\ xWantedSize[t] = WantedSize(request[t])
    /\ xWantedSize[t] > 0
    /\ \A f \in FreeBlocks : f < pxBlock[t] => xBlockSize[f] < xWantedSize[t]

Taken(t) ==
    /\ pxBlock[t] \in Blocks
    /\ ~IsAllocated(pxBlock[t])
    /\ pvReturn[t] = pxBlock[t] + xHeapStructSize
    /\ request[t] + xHeapStructSize <= xBlockSize[pxBlock[t]]

Inserting(t) ==
    /\ pxBlockToInsert[t] \in Blocks
    /\ ~IsAllocated(pxBlockToInsert[t])
    /\ pxIterator[t] \in FreeBlocks \cup {xStart}
    /\ pxIterator[t] # xStart => pxIterator[t] < pxBlockToInsert[t]

LocalsOK(t) ==
    /\ pc[t] \in {"init", "reinit"} => pxEnd = NULL
    /\ pc[t] \in {"check", "search", "split_insert", "alloc_done", "free_insert"} => Ready
    /\ pc[t] \in {"init", "check", "search", "split_insert", "alloc_done"} => request[t] \in Requests
    /\ pc[t] = "search" => AtSearch(t)
    /\ pc[t] \in {"split_insert", "alloc_done"} => Taken(t)
    /\ pc[t] \in {"split_insert", "free_insert"} => Inserting(t)
    /\ pc[t] = "split_insert" => pxBlockToInsert[t] = pxBlock[t] + xBlockSize[pxBlock[t]]

IInv ==
    /\ TypeOK
    /\ \A t \in Tasks : LocalsOK(t)
    /\ pxEnd = NULL => live = {}
    /\ Ready => SizesOK /\ LiveOK /\ BlocksTile /\ FreeListOrdered /\ Coalesced
    /\ LowWaterMark
-----------------------------------------------------------------------------
\* The addresses HeapInit computes: aligned, inside the array, in order; and the
\* address of xStart is not one of them.
LEMMA Geometry ==
    /\ pucAlignedHeap \in Nat /\ EndAddress \in Nat
    /\ pucAlignedHeap % 4 = 0 /\ EndAddress % 4 = 0
    /\ 0 < pucAlignedHeap /\ pucAlignedHeap + 8 <= EndAddress
    /\ xBlockAllocatedBit \in Nat /\ SizeMod = 2 * xBlockAllocatedBit
    /\ EndAddress + 8 < xBlockAllocatedBit
    /\ xStart \in Nat /\ xStart # 0 /\ xStart \notin Cells
    /\ pucAlignedHeap \in Cells /\ EndAddress \in Cells
    /\ Cells \subseteq Nat /\ 0 \notin Cells
    /\ \A a : a \in Cells <=> a \in Nat /\ pucAlignedHeap <= a /\ a <= EndAddress /\ a % 4 = 0
<1>1. /\ pucAlignedHeap \in Nat /\ pucAlignedHeap % 4 = 0
      /\ ucHeap <= pucAlignedHeap /\ 0 < pucAlignedHeap
  BY HeapAssumption DEF pucAlignedHeap, AlignUp, AlignDown, portBYTE_ALIGNMENT
<1>2. /\ EndAddress \in Int /\ EndAddress % 4 = 0
      /\ EndAddress <= ucHeap + configTOTAL_HEAP_SIZE - 8
  BY <1>1, HeapAssumption DEF EndAddress, AlignDown, portBYTE_ALIGNMENT, xHeapStructSize
<1>3. pucAlignedHeap + 8 <= EndAddress /\ EndAddress + 8 < xBlockAllocatedBit
  BY Zenon, HeapAssumption DEF xHeapStructSize
<1>4. xBlockAllocatedBit \in Nat /\ SizeMod = 2 * xBlockAllocatedBit
  BY HeapAssumption DEF xBlockAllocatedBit
<1>5. \A a : a \in Cells <=> a \in Nat /\ pucAlignedHeap <= a /\ a <= EndAddress /\ a % 4 = 0
  BY <1>1, <1>2, <1>3 DEF Cells, portBYTE_ALIGNMENT
<1>6. xStart \in Nat /\ xStart # 0 /\ xStart \notin Cells
  BY <1>1, <1>2, <1>5, HeapAssumption
<1> QED
  BY <1>1, <1>2, <1>3, <1>4, <1>5, <1>6

\* The size PortMalloc looks for holds the request and a header, and is aligned.
LEMMA WantedSizeHolds ==
    ASSUME NEW n \in Requests, WantedSize(n) # 0
    PROVE  /\ WantedSize(n) \in Nat
           /\ WantedSize(n) % 4 = 0
           /\ n + xHeapStructSize <= WantedSize(n)
<1> DEFINE B == xBlockAllocatedBit
<1>1. n \in Nat /\ n < SizeMod
  BY HeapAssumption
<1>2. B \in Nat /\ SizeMod = 2 * B /\ 16 < B
  BY Geometry
<1>3. n < B
  BY <1>1, <1>2 DEF WantedSize
<1>4. AddSize(n, xHeapStructSize) = n + 8
  BY <1>1, <1>2, <1>3 DEF AddSize, xHeapStructSize
<1>5. (n + 8) % 4 \in 0..3
  BY <1>1
<1>6. AddSize(n + 8, 4 - ((n + 8) % 4)) = n + 8 + (4 - ((n + 8) % 4))
  BY <1>1, <1>2, <1>3, <1>5 DEF AddSize
<1>7. (n + 8 + (4 - ((n + 8) % 4))) % 4 = 0
  BY <1>1
<1>8. WantedSize(n) = IF (n + 8) % 4 = 0 THEN n + 8 ELSE n + 8 + (4 - ((n + 8) % 4))
  BY Zenon, <1>1, <1>3, <1>4, <1>5, <1>6 DEF WantedSize, portBYTE_ALIGNMENT
<1> QED
  BY <1>1, <1>5, <1>7, <1>8 DEF xHeapStructSize
-----------------------------------------------------------------------------
Structure == SizesOK /\ LiveOK /\ BlocksTile /\ FreeListOrdered /\ Coalesced

\* With one task, only what that task holds is off the list.
LEMMA FreeBlocksOneTask ==
    ASSUME OneTask, NEW t \in Tasks
    PROVE  /\ FreeBlocks = {b \in Blocks : ~IsAllocated(b)} \ Held(t)
           /\ FreeBlocks' = {b \in Blocks' : ~IsAllocated(b)'} \ Held(t)'
<1>1. Tasks = {t}
  BY Zenon DEF OneTask
<1> QED
  BY Zenon, <1>1 DEF FreeBlocks

\* A step that touches neither the headers nor the chunks, and takes nothing off the
\* list, keeps the structure of the heap.
LEMMA StructureKept ==
    ASSUME OneTask, NEW t \in Tasks, Structure,
           UNCHANGED <<memory, pxEnd, live>>, Held(t)' = Held(t)
    PROVE  /\ Blocks' = Blocks /\ FreeBlocks' = FreeBlocks
           /\ \A b : BlockSize(b)' = BlockSize(b) /\ (IsAllocated(b)' <=> IsAllocated(b))
           /\ Structure'
<1>1. /\ xBlockSize' = xBlockSize /\ pxNextFreeBlock' = pxNextFreeBlock
      /\ pxEnd' = pxEnd /\ live' = live
  BY Zenon DEF memory
<1>2. \A b : BlockSize(b)' = BlockSize(b) /\ (IsAllocated(b)' <=> IsAllocated(b))
  BY Zenon, <1>1 DEF BlockSize, IsAllocated
<1>3. Blocks' = Blocks
  BY Zenon, <1>1 DEF Blocks
<1>4. FreeBlocks' = FreeBlocks
  BY Zenon, <1>2, <1>3, FreeBlocksOneTask
<1>5. SizesOK'
  BY Zenon, <1>1, <1>2, <1>3 DEF Structure, SizesOK
<1>6. LiveOK'
  BY Zenon, <1>1, <1>2, <1>3 DEF Structure, LiveOK
<1>7. BlocksTile'
  BY Zenon, <1>1, <1>2, <1>3 DEF Structure, BlocksTile, Ready
<1>8. FreeListOrdered' /\ Coalesced'
  BY Zenon, <1>1, <1>2, <1>4 DEF Structure, FreeListOrdered, Coalesced, Ready
<1> QED
  BY Zenon, <1>2, <1>3, <1>4, <1>5, <1>6, <1>7, <1>8 DEF Structure

\* The structure of an uninitialised heap says nothing; the last conjunct of IInv is
\* the structure as soon as the heap is ready.
LEMMA IInvParts ==
    ASSUME IInv, NEW t \in Tasks
    PROVE  /\ TypeOK /\ LocalsOK(t) /\ LowWaterMark
           /\ Ready => Structure
           /\ pxEnd = NULL => live = {}
BY Zenon DEF IInv, Structure

\* The converse: the parts make the invariant.
LEMMA IInvFromParts ==
    ASSUME OneTask, NEW t \in Tasks, TypeOK', LocalsOK(t)', LowWaterMark',
           Ready' => Structure', (pxEnd = NULL => live = {})'
    PROVE  IInv'
<1>1. Tasks = {t}
  BY Zenon DEF OneTask
<1> QED
  BY Zenon, <1>1 DEF IInv, Structure

-----------------------------------------------------------------------------
\* One lemma per action.

\* HeapInit makes the heap one free block.
LEMMA HeapInitKeeps ==
    ASSUME OneTask, IInv, NEW t \in Tasks, HeapInit(t)
    PROVE  IInv'
<1> USE Geometry, IInvParts
<1>1. TypeOK'
  BY DEF TypeOK, HeapInit, Addr, NULL
<1>2. /\ pxEnd = NULL /\ live = {} /\ live' = {}
      /\ pxEnd' = EndAddress
  BY Zenon DEF HeapInit, LocalsOK
<1>3. /\ xBlockSize'[pucAlignedHeap] = EndAddress - pucAlignedHeap
      /\ \A a \in Addr : a # pucAlignedHeap => xBlockSize'[a] = 0
      /\ pxNextFreeBlock'[xStart] = pucAlignedHeap
      /\ pxNextFreeBlock'[pucAlignedHeap] = EndAddress
      /\ pxNextFreeBlock'[EndAddress] = NULL
  BY DEF HeapInit, Addr
<1>4. Blocks' = {pucAlignedHeap}
  BY <1>3 DEF Blocks, Addr
<1>5. ~IsAllocated(pucAlignedHeap)' /\ BlockSize(pucAlignedHeap)' = EndAddress - pucAlignedHeap
  BY <1>3 DEF IsAllocated, BlockSize
<1>6. pc'[t] \in {"check", "idle"} /\ (pc'[t] = "check" => request'[t] \in Requests)
  BY Zenon DEF HeapInit, TypeOK, LocalsOK
<1>7. FreeBlocks' = {pucAlignedHeap}
  BY Zenon, <1>4, <1>5, <1>6, FreeBlocksOneTask DEF Held
<1>8. SizesOK' /\ LiveOK'
  BY <1>2, <1>3, <1>4, <1>5 DEF SizesOK, LiveOK, Addr
<1>9. BlocksTile' /\ FreeListOrdered' /\ Coalesced'
  BY <1>2, <1>3, <1>4, <1>5, <1>7 DEF BlocksTile, FreeListOrdered, Coalesced
<1>10. LocalsOK(t)'
  BY Zenon, <1>2, <1>6 DEF LocalsOK, Ready, NULL
<1>11. LowWaterMark'
  BY DEF LowWaterMark, HeapInit
<1> QED
  BY Zenon, <1>1, <1>2, <1>8, <1>9, <1>10, <1>11, IInvFromParts DEF Structure, NULL

\* name##_reinit leaves a heap that is not initialised.
LEMMA ReinitKeeps ==
    ASSUME OneTask, IInv, NEW t \in Tasks, Reinit(t)
    PROVE  IInv'
<1> USE Geometry
<1>0. TypeOK /\ LocalsOK(t)
  BY Zenon, IInvParts
<1>1. TypeOK'
  BY <1>0 DEF TypeOK, Reinit, Addr, NULL
<1>2. LocalsOK(t)'
  BY Zenon, <1>0 DEF TypeOK, Reinit, LocalsOK
<1>3. LowWaterMark'
  BY DEF Reinit, LowWaterMark
<1> QED
  BY Zenon, <1>1, <1>2, <1>3, IInvFromParts DEF Reinit, Ready
\* A call of PortMalloc only records the request.
LEMMA MallocCallKeeps ==
    ASSUME OneTask, IInv, NEW t \in Tasks, NEW n \in Requests, MallocCall(t, n)
    PROVE  IInv'
<1>0. TypeOK /\ LocalsOK(t) /\ LowWaterMark /\ (Ready => Structure) /\ (pxEnd = NULL => live = {})
  BY Zenon, IInvParts
<1>1. n \in Nat
  BY HeapAssumption
<1>2. TypeOK'
  BY Zenon, <1>0, <1>1 DEF TypeOK, MallocCall, memory, stats
<1>3. Held(t)' = Held(t)
  BY Zenon, <1>0 DEF Held, MallocCall, TypeOK
<1>4. UNCHANGED <<memory, pxEnd, live>>
  BY Zenon DEF MallocCall
<1>5. Ready' => Structure'
  BY Zenon, <1>0, <1>3, <1>4, StructureKept DEF Ready
<1>6. LocalsOK(t)'
  BY Zenon, <1>0 DEF LocalsOK, MallocCall, TypeOK, Ready
<1>7. LowWaterMark'
  BY Zenon, <1>0 DEF LowWaterMark, MallocCall, stats
<1> QED
  BY Zenon, <1>0, <1>2, <1>4, <1>5, <1>6, <1>7, IInvFromParts

\* Returning without having taken anything.
LEMMA ReturnKeeps ==
    ASSUME OneTask, IInv, NEW t \in Tasks, pc[t] \in {"check", "search"},
           Return(t), UNCHANGED <<memory, pxEnd, stats, live>>
    PROVE  IInv'
<1>0. TypeOK /\ LocalsOK(t) /\ LowWaterMark /\ (Ready => Structure) /\ (pxEnd = NULL => live = {})
  BY Zenon, IInvParts
<1>2. TypeOK'
  BY Zenon, <1>0 DEF TypeOK, Return, memory, stats, NULL
<1>3. Held(t)' = Held(t)
  BY Zenon, <1>0 DEF Held, Return, TypeOK
<1>5. Ready' => Structure'
  BY Zenon, <1>0, <1>3, StructureKept DEF Ready
<1>6. LocalsOK(t)'
  BY Zenon, <1>0 DEF LocalsOK, Return, TypeOK
<1>7. LowWaterMark'
  BY Zenon, <1>0 DEF LowWaterMark, stats
<1> QED
  BY Zenon, <1>0, <1>2, <1>5, <1>6, <1>7, IInvFromParts

\* The search starts at the first block of the list.
LEMMA MallocSearchKeeps ==
    ASSUME OneTask, IInv, NEW t \in Tasks, MallocSearch(t)
    PROVE  IInv'
<1> USE Geometry
<1>0. TypeOK /\ LocalsOK(t) /\ LowWaterMark /\ (Ready => Structure) /\ (pxEnd = NULL => live = {})
  BY Zenon, IInvParts
<1>1. /\ pc[t] = "check" /\ Ready /\ Structure /\ request[t] \in Requests
      /\ UNCHANGED <<memory, pxEnd, stats, live>>
      /\ WantedSize(request[t]) \in Nat
  BY <1>0, WantedSizeHolds DEF MallocSearch, LocalsOK
<1>2. TypeOK'
  BY Zenon, <1>0, <1>1 DEF TypeOK, MallocSearch, memory, stats, Addr
<1>3. Held(t)' = Held(t)
  BY Zenon, <1>0 DEF Held, MallocSearch, TypeOK
<1>4. Structure' /\ FreeBlocks' = FreeBlocks
  BY Zenon, <1>1, <1>3, StructureKept
<1>5. AtSearch(t)'
  <2>1. pxNextFreeBlock[xStart] \in Nat /\ FreeBlocks \subseteq Nat
    BY <1>0 DEF TypeOK, FreeBlocks, Blocks, Addr, NULL
  <2>2. \A f \in FreeBlocks : pxNextFreeBlock[xStart] <= f
    BY Zenon, <1>1 DEF Structure, FreeListOrdered
  <2> QED
    BY <1>0, <1>1, <1>4, <2>1, <2>2 DEF AtSearch, MallocSearch, TypeOK, memory
<1>6. LocalsOK(t)'
  BY Zenon, <1>0, <1>1, <1>5 DEF LocalsOK, MallocSearch, TypeOK, Ready
<1>7. LowWaterMark'
  BY Zenon, <1>0, <1>1 DEF LowWaterMark, stats
<1> QED
  BY Zenon, <1>0, <1>1, <1>2, <1>4, <1>6, <1>7, IInvFromParts

\* The search passes over a block that is too small.
LEMMA SearchNextKeeps ==
    ASSUME OneTask, IInv, NEW t \in Tasks, SearchNext(t)
    PROVE  IInv'
<1>0. TypeOK /\ LocalsOK(t) /\ LowWaterMark /\ (Ready => Structure) /\ (pxEnd = NULL => live = {})
  BY Zenon, IInvParts
<1>1. /\ pc[t] = "search" /\ Ready /\ Structure /\ request[t] \in Requests /\ AtSearch(t)
      /\ UNCHANGED <<memory, pxEnd, stats, live>>
  BY Zenon, <1>0 DEF SearchNext, LocalsOK
<1>2. pxBlock[t] \in FreeBlocks
  <2>1. pxBlock[t] \in FreeBlocks \cup {EndAddress}
    BY Zenon, <1>1 DEF AtSearch, Structure, FreeListOrdered
  <2>2. pxBlock[t] # EndAddress
    BY Zenon, <1>1 DEF SearchNext, TooSmall, Structure, SizesOK
  <2> QED
    BY Zenon, <2>1, <2>2
<1>3. FreeBlocks \subseteq Cells /\ FreeBlocks \subseteq Nat /\ EndAddress \in Nat /\ EndAddress \in Cells
  BY Zenon, Geometry DEF FreeBlocks, Blocks
<1>4. TypeOK'
  BY Zenon, <1>0, <1>1, <1>2, <1>3 DEF TypeOK, SearchNext, memory, stats, Addr
<1>5. Held(t)' = Held(t)
  BY Zenon, <1>0 DEF Held, SearchNext, TypeOK
<1>6. Structure' /\ FreeBlocks' = FreeBlocks
  BY Zenon, <1>1, <1>5, StructureKept
<1>7. AtSearch(t)'
  <2>1. pxNextFreeBlock[pxBlock[t]] \in FreeBlocks \cup {EndAddress}
    BY Zenon, <1>1, <1>2 DEF Structure, FreeListOrdered
  <2>2. \A f \in FreeBlocks : pxBlock[t] < f => pxNextFreeBlock[pxBlock[t]] <= f
    BY Zenon, <1>1, <1>2 DEF Structure, FreeListOrdered
  <2>4. \A f \in FreeBlocks : f < pxNextFreeBlock[pxBlock[t]] => xBlockSize[f] < xWantedSize[t]
    <3> SUFFICES ASSUME NEW f \in FreeBlocks, f < pxNextFreeBlock[pxBlock[t]]
                 PROVE  xBlockSize[f] < xWantedSize[t]
      BY Zenon
    <3>0. f \in Nat /\ pxBlock[t] \in Nat /\ pxNextFreeBlock[pxBlock[t]] \in Nat
      BY Zenon, <1>2, <1>3, <2>1
    <3>1. CASE f = pxBlock[t]
      BY Zenon, <3>1 DEF SearchNext, TooSmall
    <3>2. CASE f < pxBlock[t]
      BY Zenon, <3>2, <1>1 DEF AtSearch
    <3>3. CASE pxBlock[t] < f
      BY <3>0, <3>3, <2>2
    <3> QED
      BY <3>0, <3>1, <3>2, <3>3
  <2> QED
    BY Zenon, <1>0, <1>1, <1>2, <1>6, <2>4 DEF AtSearch, SearchNext, TypeOK, memory
<1>8. LocalsOK(t)'
  BY Zenon, <1>0, <1>1, <1>7 DEF LocalsOK, SearchNext, TypeOK, Ready
<1>9. LowWaterMark'
  BY Zenon, <1>0, <1>1 DEF LowWaterMark, stats
<1> QED
  BY Zenon, <1>0, <1>1, <1>4, <1>6, <1>8, <1>9, IInvFromParts
\* The scan for the insertion point passes a block below the one inserted.
LEMMA InsertScanKeeps ==
    ASSUME OneTask, IInv, NEW t \in Tasks, InsertScan(t)
    PROVE  IInv'
<1>0. TypeOK /\ LocalsOK(t) /\ LowWaterMark /\ (Ready => Structure) /\ (pxEnd = NULL => live = {})
  BY Zenon, IInvParts
<1>1. /\ pc[t] \in {"split_insert", "free_insert"} /\ Ready /\ Structure /\ Inserting(t)
      /\ UNCHANGED <<memory, pxEnd, stats, live>>
  BY Zenon, <1>0 DEF InsertScan, LocalsOK
<1>2. FreeBlocks \subseteq Cells /\ Blocks \subseteq Cells /\ EndAddress \in Nat /\ xStart \notin Cells
  BY Zenon, Geometry DEF FreeBlocks, Blocks
<1>3. pxNextFreeBlock[pxIterator[t]] \in FreeBlocks
  <2>1. pxNextFreeBlock[pxIterator[t]] \in FreeBlocks \cup {EndAddress}
    BY Zenon, <1>1 DEF Inserting, Structure, FreeListOrdered
  <2>2. pxBlockToInsert[t] \in Nat /\ pxBlockToInsert[t] <= EndAddress
    BY Zenon, <1>1, Geometry DEF Inserting, Blocks
  <2> QED
    BY <1>2, <2>1, <2>2 DEF InsertScan
<1>4. TypeOK'
  BY Zenon, <1>0, <1>1, <1>2, <1>3 DEF TypeOK, InsertScan, memory, stats, Addr
<1>5. Held(t)' = Held(t)
  BY Zenon, <1>0 DEF Held, InsertScan, TypeOK
<1>6. Structure' /\ FreeBlocks' = FreeBlocks /\ Blocks' = Blocks
  BY Zenon, <1>1, <1>5, StructureKept
<1>7. Inserting(t)'
  BY Zenon, <1>0, <1>1, <1>2, <1>3, <1>6 DEF Inserting, InsertScan, TypeOK, memory, IsAllocated
<1>8. LocalsOK(t)'
  BY Zenon, <1>0, <1>1, <1>6, <1>7 DEF LocalsOK, InsertScan, TypeOK, Ready, Taken, memory, IsAllocated
<1>9. LowWaterMark'
  BY Zenon, <1>0, <1>1 DEF LowWaterMark, stats
<1> QED
  BY Zenon, <1>0, <1>1, <1>4, <1>6, <1>8, <1>9, IInvFromParts

-----------------------------------------------------------------------------
\* Taking the successor p of prev off an ordered list leaves an ordered list.
LEMMA Unlink ==
    ASSUME TypeOK, Ready, FreeListOrdered,
           NEW prev \in FreeBlocks \cup {xStart}, NEW p \in FreeBlocks, p = pxNextFreeBlock[prev]
    PROVE  \A x \in (FreeBlocks \ {p}) \cup {xStart} :
               LET n == IF x = prev THEN pxNextFreeBlock[p] ELSE pxNextFreeBlock[x] IN
               /\ n \in (FreeBlocks \ {p}) \cup {EndAddress}
               /\ x # xStart => x < n
               /\ \A f \in FreeBlocks \ {p} : (x = xStart \/ x < f) => n <= f
<1>1. FreeBlocks \subseteq Nat /\ EndAddress \in Nat /\ xStart \notin FreeBlocks
  BY Zenon, Geometry DEF FreeBlocks, Blocks
<1>2. \A x \in FreeBlocks \cup {xStart} : pxNextFreeBlock[x] \in Nat
  BY Zenon, <1>1 DEF FreeListOrdered
<1> SUFFICES ASSUME NEW x \in (FreeBlocks \ {p}) \cup {xStart}
             PROVE  LET n == IF x = prev THEN pxNextFreeBlock[p] ELSE pxNextFreeBlock[x] IN
                    /\ n \in (FreeBlocks \ {p}) \cup {EndAddress}
                    /\ x # xStart => x < n
                    /\ \A f \in FreeBlocks \ {p} : (x = xStart \/ x < f) => n <= f
  BY Zenon
<1>3. p \in Nat /\ p < pxNextFreeBlock[p] /\ pxNextFreeBlock[p] \in FreeBlocks \cup {EndAddress}
      /\ \A f \in FreeBlocks : p < f => pxNextFreeBlock[p] <= f
  BY Zenon, <1>1 DEF FreeListOrdered
<1>4. CASE x = prev
  <2>1. x # xStart => x < p
    BY Zenon, <1>1, <1>4 DEF FreeListOrdered
  <2>2. \A f \in FreeBlocks \ {p} : (x = xStart \/ x < f) => p < f
    BY <1>1, <1>4 DEF FreeListOrdered
  <2> QED
    BY <1>1, <1>2, <1>3, <1>4, <2>1, <2>2
<1>5. CASE x # prev
  <2>1. pxNextFreeBlock[x] # p
    <3> SUFFICES ASSUME pxNextFreeBlock[x] = p PROVE FALSE
      BY Zenon
    <3>1. CASE x = xStart
      BY <1>1, <1>5, <3>1 DEF FreeListOrdered
    <3>2. CASE x # xStart /\ prev = xStart
      BY <1>1, <1>5, <3>2 DEF FreeListOrdered
    <3>3. CASE x # xStart /\ prev # xStart /\ x < prev
      BY <1>1, <1>5, <3>3 DEF FreeListOrdered
    <3>4. CASE x # xStart /\ prev # xStart /\ prev < x
      BY <1>1, <1>5, <3>4 DEF FreeListOrdered
    <3> QED
      BY <1>1, <1>5, <3>1, <3>2, <3>3, <3>4
  <2> QED
    BY Zenon, <1>5, <2>1 DEF FreeListOrdered
<1> QED
  BY Zenon, <1>4, <1>5

\* What the search has found when it stops before the end marker.
LEMMA FoundBlock ==
    ASSUME OneTask, IInv, NEW t \in Tasks,
           pc[t] = "search", ~TooSmall(t), pxBlock[t] # pxEnd
    PROVE  /\ Ready /\ Structure /\ TypeOK /\ request[t] \in Requests
           /\ pxBlock[t] \in FreeBlocks /\ pxBlock[t] \in Blocks /\ ~IsAllocated(pxBlock[t])
           /\ pxPreviousBlock[t] \in FreeBlocks \cup {xStart}
           /\ pxBlock[t] = pxNextFreeBlock[pxPreviousBlock[t]]
           /\ xWantedSize[t] \in Nat /\ xWantedSize[t] % 4 = 0
           /\ request[t] + xHeapStructSize <= xWantedSize[t]
           /\ xWantedSize[t] <= xBlockSize[pxBlock[t]]
<1>0. TypeOK /\ LocalsOK(t) /\ (Ready => Structure)
  BY Zenon, IInvParts
<1>1. Ready /\ Structure /\ AtSearch(t) /\ request[t] \in Requests
  BY Zenon, <1>0 DEF LocalsOK
<1>2. pxEnd = EndAddress
  BY Zenon, <1>0, <1>1 DEF TypeOK, Ready
<1>3. pxBlock[t] \in FreeBlocks
  BY Zenon, <1>1, <1>2 DEF AtSearch, Structure, FreeListOrdered
<1>4. pxBlock[t] \in Blocks /\ ~IsAllocated(pxBlock[t])
  BY Zenon, <1>3 DEF FreeBlocks
<1>5. pxNextFreeBlock[pxBlock[t]] # NULL
  BY Zenon, <1>1, <1>3, Geometry DEF Structure, FreeListOrdered, FreeBlocks, Blocks, NULL
<1>6. /\ xWantedSize[t] \in Nat /\ xWantedSize[t] % 4 = 0
      /\ request[t] + xHeapStructSize <= xWantedSize[t]
  BY <1>1, WantedSizeHolds DEF AtSearch
<1>7. xBlockSize[pxBlock[t]] \in Nat
  BY Zenon, <1>0, <1>4 DEF TypeOK, Blocks, Addr
<1> QED
  BY <1>0, <1>1, <1>3, <1>4, <1>5, <1>6, <1>7 DEF AtSearch, TooSmall
=============================================================================

----------------------------- MODULE HeapProofs -----------------------------
(***************************************************************************)
(* The steps of PortMalloc and PortFree keep the invariant, and what the   *)
(* invariant gives for one task using the heap, whatever the size and the  *)
(* position of the array and whatever the requests.                        *)
(***************************************************************************)
EXTENDS HeapInvariant

(***************************************************************************)
(* Taking a block off the list, splitting it, marking it as allocated or   *)
(* unmarking it.                                                           *)
(***************************************************************************)
\* A block taken whole leaves the list; nothing else moves.
LEMMA TakeWholeKeeps ==
    ASSUME OneTask, IInv, NEW t \in Tasks, TakeWhole(t)
    PROVE  IInv'
<1> DEFINE p == pxBlock[t]
           prev == pxPreviousBlock[t]
<1>0. LocalsOK(t) /\ LowWaterMark
  BY Zenon, IInvParts
<1>1. /\ Ready /\ Structure /\ TypeOK /\ request[t] \in Requests
      /\ p \in FreeBlocks /\ p \in Blocks /\ ~IsAllocated(p)
      /\ prev \in FreeBlocks \cup {xStart} /\ p = pxNextFreeBlock[prev]
      /\ request[t] + xHeapStructSize <= xBlockSize[p]
  <2>1. xBlockSize[p] \in Nat /\ request[t] \in Nat
    BY Zenon, FoundBlock, HeapAssumption DEF TakeWhole, TypeOK, Blocks, Addr
  <2> QED
    BY <2>1, FoundBlock DEF TakeWhole, xHeapStructSize
<1>2. /\ pc[t] = "search" /\ pc' = [pc EXCEPT ![t] = "alloc_done"] /\ pxBlock' = pxBlock
      /\ pxNextFreeBlock' = [pxNextFreeBlock EXCEPT ![prev] = pxNextFreeBlock[p]]
      /\ pvReturn' = [pvReturn EXCEPT ![t] = p + xHeapStructSize]
      /\ UNCHANGED <<xBlockSize, pxEnd, live, request>> /\ UNCHANGED stats
  BY Zenon, <1>1 DEF TakeWhole
<1>3. FreeBlocks \subseteq Cells /\ prev \in Addr /\ p \in Addr /\ p \in Nat /\ xStart \notin Cells
  BY Zenon, <1>1, Geometry DEF FreeBlocks, Blocks, Addr
<1>4. TypeOK'
  BY <1>1, <1>2, <1>3 DEF TypeOK, TakeWhole, stats, xHeapStructSize
<1>5. /\ Blocks' = Blocks
      /\ \A b : BlockSize(b)' = BlockSize(b) /\ (IsAllocated(b)' <=> IsAllocated(b))
  BY Zenon, <1>2 DEF Blocks, BlockSize, IsAllocated
<1>6. Held(t) = {} /\ Held(t)' = {p}
  BY Zenon, <1>1, <1>2 DEF Held, TypeOK
<1>7. FreeBlocks' = FreeBlocks \ {p}
  BY Zenon, <1>5, <1>6, FreeBlocksOneTask
<1>8. \A x \in Addr : pxNextFreeBlock'[x] = IF x = prev THEN pxNextFreeBlock[p] ELSE pxNextFreeBlock[x]
  BY Zenon, <1>1, <1>2, <1>3 DEF TypeOK
<1>9. SizesOK'
  <2>1. prev # EndAddress /\ EndAddress \in Addr
    BY Zenon, <1>1, Geometry DEF Structure, SizesOK, FreeBlocks, Blocks, Addr
  <2> QED
    BY Zenon, <1>1, <1>2, <1>5, <1>8, <2>1 DEF Structure, SizesOK
<1>10. LiveOK'
  <2>1. \A b \in Blocks : IsAllocated(b) => b # prev /\ b \in Addr
    BY Zenon, <1>1, <1>3 DEF FreeBlocks, Blocks, Addr
  <2> QED
    BY <1>1, <1>2, <1>5, <1>8, <2>1 DEF Structure, LiveOK
<1>11. BlocksTile'
  BY Zenon, <1>1, <1>2, <1>5 DEF Structure, BlocksTile, Ready
<1>12. FreeListOrdered'
  BY <1>1, <1>3, <1>7, <1>8, Unlink DEF Structure, FreeListOrdered, Addr
<1>13. Coalesced'
  BY Zenon, <1>1, <1>2, <1>5, <1>7 DEF Structure, Coalesced, Ready
<1>14. Taken(t)'
  BY Zenon, <1>1, <1>2, <1>5 DEF Taken, TypeOK
<1>15. LocalsOK(t)'
  BY Zenon, <1>1, <1>2, <1>14 DEF LocalsOK, TypeOK, Ready
<1>16. LowWaterMark'
  BY Zenon, <1>0, <1>2 DEF LowWaterMark, stats
<1> QED
  BY Zenon, <1>1, <1>2, <1>4, <1>9, <1>10, <1>11, <1>12, <1>13, <1>15, <1>16, IInvFromParts
     DEF Structure, Ready

\* A block is split: its tail is a new block, and the task holds both.
LEMMA TakeAndSplitKeeps ==
    ASSUME OneTask, IInv, NEW t \in Tasks, TakeAndSplit(t)
    PROVE  IInv'
<1>a. SUFFICES ASSUME NEW p, p = pxBlock[t], NEW prev, prev = pxPreviousBlock[t],
                     NEW w, w = xWantedSize[t], NEW new, new = p + w,
                     NEW rest, rest = xBlockSize[p] - w
              PROVE  IInv'
  BY Zenon
<1>0. LocalsOK(t) /\ LowWaterMark
  BY Zenon, IInvParts
<1>1. /\ Ready /\ Structure /\ TypeOK /\ request[t] \in Requests /\ request[t] \in Nat
      /\ p \in FreeBlocks /\ p \in Blocks /\ ~IsAllocated(p)
      /\ prev \in FreeBlocks \cup {xStart} /\ p = pxNextFreeBlock[prev]
      /\ w \in Nat /\ w % 4 = 0 /\ request[t] + 8 <= w
  BY <1>a, FoundBlock, HeapAssumption DEF TakeAndSplit, xHeapStructSize
<1>2. /\ pc[t] = "search" /\ pc' = [pc EXCEPT ![t] = "split_insert"] /\ pxBlock' = pxBlock
      /\ pxNextFreeBlock' = [pxNextFreeBlock EXCEPT ![prev] = pxNextFreeBlock[p]]
      /\ xBlockSize' = [xBlockSize EXCEPT ![new] = rest, ![p] = w]
      /\ pvReturn' = [pvReturn EXCEPT ![t] = p + xHeapStructSize]
      /\ pxBlockToInsert' = [pxBlockToInsert EXCEPT ![t] = new]
      /\ pxIterator' = [pxIterator EXCEPT ![t] = xStart]
      /\ UNCHANGED <<pxEnd, live, request, xWantedSize, pxPreviousBlock>> /\ UNCHANGED stats
  BY Zenon, <1>1, <1>a DEF TakeAndSplit, CallInsert
<1>3. /\ FreeBlocks \subseteq Cells /\ Blocks \subseteq Cells /\ prev \in Addr /\ p \in Addr
      /\ p \in Nat /\ p % 4 = 0 /\ xStart \notin Cells /\ EndAddress \in Addr
      /\ EndAddress \in Nat /\ EndAddress < xBlockAllocatedBit /\ xBlockAllocatedBit \in Nat
  BY <1>1, Geometry DEF FreeBlocks, Blocks, Addr
<1>4. /\ xBlockSize[p] \in Nat /\ BlockSize(p) = xBlockSize[p]
      /\ rest \in Nat /\ 16 < rest /\ p + xBlockSize[p] <= EndAddress
      /\ xBlockSize[p] % 4 = 0 /\ rest % 4 = 0
  <2>1. xBlockSize[p] \in Nat /\ BlockSize(p) = xBlockSize[p]
    BY Zenon, <1>1, <1>3 DEF TypeOK, BlockSize
  <2>2. 16 < rest
    BY <1>a DEF TakeAndSplit, LeavesRemainder, heapMINIMUM_BLOCK_SIZE, xHeapStructSize
  <2>3. xBlockSize[p] % 4 = 0 /\ p + xBlockSize[p] <= EndAddress
    BY Zenon, <1>1, <2>1 DEF Structure, SizesOK
  <2> QED
    BY <1>1, <1>a, <2>1, <2>2, <2>3
<1>5a. new + rest = p + xBlockSize[p] /\ new = p + w
  BY <1>1, <1>3, <1>4, <1>a
<1>5. new \in Cells /\ new \in Nat /\ new \in Addr /\ new < EndAddress /\ p < new /\ new # xStart
  <2>0. new \in Nat /\ p < new /\ new < EndAddress
    <3>1. w \in Nat /\ 8 <= w /\ p \in Nat /\ EndAddress \in Nat
      BY <1>1, <1>3
    <3> QED
      BY <1>a, <3>1, <1>4, <1>5a
  <2>1. new % 4 = 0
    BY <1>1, <1>3, <1>a
  <2>2. pucAlignedHeap \in Nat /\ pucAlignedHeap <= p
    BY Zenon, <1>1, <1>3, Geometry
  <2>3. pucAlignedHeap <= new
    BY <1>3, <2>0, <2>2
  <2>4. new \in Cells
    BY <2>0, <2>1, <2>3, <1>3, Geometry
  <2> QED
    BY Zenon, <1>3, <2>0, <2>4 DEF Addr
<1>6. new \notin Blocks
  BY <1>1, <1>3, <1>4, <1>5, <1>5a DEF Structure, BlocksTile
<1>7. \A a \in Addr : xBlockSize'[a] = IF a = p THEN w ELSE IF a = new THEN rest ELSE xBlockSize[a]
  BY Zenon, <1>1, <1>2, <1>3, <1>5 DEF TypeOK
<1>8. \A a \in Addr : pxNextFreeBlock'[a] = IF a = prev THEN pxNextFreeBlock[p] ELSE pxNextFreeBlock[a]
  BY Zenon, <1>1, <1>2, <1>3 DEF TypeOK
<1>9. TypeOK'
  <2>1. xBlockSize' \in [Addr -> Nat]
    BY Zenon, <1>1, <1>2, <1>4 DEF TypeOK
  <2>2. pxNextFreeBlock[p] \in Cells \cup {NULL}
    BY Zenon, <1>1, <1>3 DEF TypeOK
  <2>3. pxNextFreeBlock' \in [Addr -> Cells \cup {NULL}]
    BY Zenon, <1>1, <1>2, <2>2 DEF TypeOK
  <2>4. p + xHeapStructSize \in Nat /\ xStart \in Addr
    BY <1>3 DEF xHeapStructSize, Addr
  <2> QED
    BY Zenon, <1>1, <1>2, <1>5, <2>1, <2>3, <2>4 DEF TypeOK, stats
<1>10. Blocks' = Blocks \cup {new}
  <2>1. w # 0 /\ rest # 0 /\ p \in Blocks /\ xBlockSize[p] # 0
    <3>1. w # 0
      BY <1>1
    <3>2. rest # 0
      BY <1>4
    <3>3. xBlockSize[p] # 0
      BY Zenon, <1>1 DEF Blocks
    <3> QED
      BY Zenon, <1>1, <3>1, <3>2, <3>3
  <2>2. ASSUME NEW a \in Cells PROVE xBlockSize'[a] # 0 <=> (xBlockSize[a] # 0 \/ a = new)
    <3>1. a \in Addr
      BY Zenon DEF Addr
    <3>2. CASE a = p
      BY Zenon, <1>7, <2>1, <3>1, <3>2
    <3>3. CASE a # p /\ a = new
      BY Zenon, <1>7, <2>1, <3>1, <3>3
    <3>4. CASE a # p /\ a # new
      BY Zenon, <1>7, <3>1, <3>4
    <3> QED
      BY Zenon, <3>2, <3>3, <3>4
  <2> QED
    BY Zenon, <1>5, <2>2 DEF Blocks
<1>11. /\ BlockSize(p)' = w /\ ~IsAllocated(p)' /\ BlockSize(new)' = rest /\ ~IsAllocated(new)'
       /\ \A a \in Addr \ {p, new} : BlockSize(a)' = BlockSize(a) /\ (IsAllocated(a)' <=> IsAllocated(a))
  <2>1. w < xBlockAllocatedBit /\ rest < xBlockAllocatedBit
    BY <1>1, <1>3, <1>4, <1>5, <1>5a
  <2>2. xBlockSize'[p] = w /\ xBlockSize'[new] = rest
    BY <1>3, <1>5, <1>7
  <2>3. BlockSize(p)' = w /\ ~IsAllocated(p)' /\ BlockSize(new)' = rest /\ ~IsAllocated(new)'
    BY <1>1, <1>3, <1>4, <2>1, <2>2 DEF BlockSize, IsAllocated
  <2>4. \A a \in Addr \ {p, new} : xBlockSize'[a] = xBlockSize[a]
    BY Zenon, <1>7
  <2> QED
    BY Zenon, <2>3, <2>4 DEF BlockSize, IsAllocated
<1>12. Held(t) = {} /\ Held(t)' = {p, new}
  BY Zenon, <1>1, <1>2, <1>a DEF Held, TypeOK
<1>13. FreeBlocks' = FreeBlocks \ {p}
  <2>1. FreeBlocks = {b \in Blocks : ~IsAllocated(b)}
    BY Zenon, <1>12, FreeBlocksOneTask
  <2>2. FreeBlocks' = {b \in Blocks \cup {new} : ~IsAllocated(b)'} \ {p, new}
    BY Zenon, <1>10, <1>12, FreeBlocksOneTask
  <2> QED
    BY Zenon, <1>3, <1>6, <1>11, <2>1, <2>2 DEF Addr
<1>14. SizesOK'
  <2>1. prev # EndAddress /\ p # EndAddress /\ xBlockSize[EndAddress] = 0
    BY ZenonT(60), <1>1, <1>3, <1>4, Geometry DEF Structure, SizesOK, FreeBlocks, Blocks
  <2>2. /\ xBlockSize'[xStart] = 0 /\ xBlockSize'[EndAddress] = 0
        /\ pxNextFreeBlock'[EndAddress] = NULL
    <3>1. EndAddress # new /\ xStart # new /\ xStart # p /\ xStart \in Addr
      BY <1>1, <1>3, <1>5 DEF Addr
    <3>2. xBlockSize[xStart] = 0 /\ pxNextFreeBlock[EndAddress] = NULL
      BY Zenon, <1>1 DEF Structure, SizesOK
    <3> QED
      BY Zenon, <1>3, <1>7, <1>8, <2>1, <3>1, <3>2
  <2>3. ASSUME NEW b \in Blocks'
        PROVE  BlockSize(b)' > 0 /\ BlockSize(b)' % 4 = 0 /\ b + BlockSize(b)' <= EndAddress
    <3>1. CASE b = p
      BY <1>1, <1>3, <1>5, <1>5a, <1>11, <3>1
    <3>2. CASE b = new
      BY <1>4, <1>5, <1>5a, <1>11, <3>2
    <3>3. CASE b \in Blocks \ {p, new}
      BY Zenon, <1>1, <1>3, <1>11, <3>3 DEF Structure, SizesOK, Addr
    <3> QED
      BY Zenon, <1>10, <3>1, <3>2, <3>3
  <2> QED
    BY Zenon, <2>2, <2>3 DEF SizesOK
<1>15. LiveOK'
  <2>1. \A b \in Blocks : IsAllocated(b) => b # prev /\ b # p /\ b # new /\ b \in Addr
    BY Zenon, <1>1, <1>3, <1>6 DEF FreeBlocks, Addr
  <2>2. ASSUME NEW c \in live
        PROVE  /\ c.ptr - xHeapStructSize \in Blocks'
               /\ IsAllocated(c.ptr - xHeapStructSize)'
               /\ pxNextFreeBlock'[c.ptr - xHeapStructSize] = NULL
               /\ c.len + xHeapStructSize <= BlockSize(c.ptr - xHeapStructSize)'
    BY <1>1, <1>8, <1>10, <1>11, <2>1 DEF Structure, LiveOK
  <2>3. ASSUME NEW b \in Blocks', IsAllocated(b)'
        PROVE  \E c \in live : c.ptr = b + xHeapStructSize
    BY Zenon, <1>1, <1>3, <1>10, <1>11, <2>3 DEF Structure, LiveOK, Addr
  <2> QED
    BY Zenon, <1>1, <1>2, <2>2, <2>3 DEF Structure, LiveOK
<1>16. BlocksTile'
  <2>0. \A b \in Blocks : b \in Nat /\ BlockSize(b) \in Nat
    BY <1>1, Geometry DEF TypeOK, BlockSize, IsAllocated, Blocks, Addr
  <2>1. pucAlignedHeap \in Blocks'
    BY Zenon, <1>1, <1>10 DEF Structure, BlocksTile
  <2>2. ASSUME NEW b \in Blocks' PROVE b + BlockSize(b)' \in Blocks' \cup {EndAddress}
    <3>1. CASE b = p
      BY Zenon, <1>5a, <1>10, <1>11, <3>1
    <3>2. CASE b = new
      <4>1. new + rest = p + BlockSize(p)
        BY Zenon, <1>4, <1>5a
      <4> QED
        BY Zenon, <1>1, <1>10, <1>11, <3>2, <4>1 DEF Structure, BlocksTile
    <3>3. CASE b \in Blocks \ {p, new}
      BY Zenon, <1>1, <1>3, <1>10, <1>11, <3>3 DEF Structure, BlocksTile, Addr
    <3> QED
      BY Zenon, <1>10, <3>1, <3>2, <3>3
  <2>3. ASSUME NEW b \in Blocks', NEW c \in Blocks', b < c PROVE b + BlockSize(b)' <= c
    <3>0. \A d \in Blocks : p < d => p + xBlockSize[p] <= d
      BY Zenon, <1>1, <1>4 DEF Structure, BlocksTile
    <3>1. CASE b = p
      <4>1. CASE c = new
        BY <1>5, <1>5a, <1>11, <3>1, <4>1
      <4>2. CASE c \in Blocks
        <5>1. p + xBlockSize[p] <= c /\ c \in Nat
          BY Zenon, <2>0, <2>3, <3>0, <3>1, <4>2
        <5>2. p + w <= c
          BY <1>3, <1>4, <1>5, <1>5a, <5>1
        <5> QED
          BY Zenon, <1>11, <3>1, <5>2
      <4> QED
        BY Zenon, <1>10, <4>1, <4>2
    <3>2. CASE b = new
      <4>1. c \in Blocks /\ p < c
        BY <1>3, <1>5, <1>10, <2>0, <2>3, <3>2
      <4> QED
        <5>1. p + xBlockSize[p] <= c
          BY Zenon, <3>0, <4>1
        <5> QED
          BY Zenon, <1>5, <1>5a, <1>11, <3>2, <5>1
    <3>3. CASE b \in Blocks \ {p, new}
      <4>0. BlockSize(b)' = BlockSize(b)
        BY Zenon, <1>3, <1>11, <3>3 DEF Addr
      <4>1. CASE c = new
        <5>1. b < p
          <6>1. CASE p < b
            <7>1. p + xBlockSize[p] <= b /\ b \in Nat
              BY Zenon, <2>0, <3>0, <3>3, <6>1
            <7> QED
              BY <1>3, <1>4, <1>5, <1>5a, <2>3, <4>1, <7>1
          <6>2. b \in Nat /\ b # p
            BY Zenon, <2>0, <3>3
          <6> QED
            BY <1>3, <6>1, <6>2
        <5>2. b + BlockSize(b) <= p
          BY Zenon, <1>1, <3>3, <5>1 DEF Structure, BlocksTile
        <5> QED
          BY <1>3, <1>5, <2>0, <3>3, <4>0, <4>1, <5>2
      <4>2. CASE c \in Blocks
        BY Zenon, <1>1, <2>3, <3>3, <4>0, <4>2 DEF Structure, BlocksTile
      <4> QED
        BY Zenon, <1>10, <4>1, <4>2
    <3> QED
      BY Zenon, <1>10, <3>1, <3>2, <3>3
  <2> QED
    BY Zenon, <2>1, <2>2, <2>3 DEF BlocksTile
<1>17. FreeListOrdered'
  <2>1. \A x \in (FreeBlocks \ {p}) \cup {xStart} :
            LET n == IF x = prev THEN pxNextFreeBlock[p] ELSE pxNextFreeBlock[x] IN
            /\ n \in (FreeBlocks \ {p}) \cup {EndAddress}
            /\ x # xStart => x < n
            /\ \A f \in FreeBlocks \ {p} : (x = xStart \/ x < f) => n <= f
    BY <1>1, Unlink DEF Structure
  <2> QED
    BY Zenon, <1>3, <1>8, <1>13, <2>1 DEF FreeListOrdered, Addr
<1>18. Coalesced'
  <2>1. \A f \in FreeBlocks \ {p} : BlockSize(f)' = BlockSize(f)
    <3>1. new \notin FreeBlocks
      BY Zenon, <1>6 DEF FreeBlocks
    <3> QED
      BY Zenon, <1>3, <1>11, <3>1 DEF Addr
  <2> QED
    BY Zenon, <1>1, <1>13, <2>1 DEF Structure, Coalesced
<1>19. Taken(t)' /\ pxBlockToInsert'[t] = pxBlock'[t] + xBlockSize'[pxBlock'[t]]
  <2>1. xBlockSize'[p] = w /\ request'[t] + 8 <= w
    BY Zenon, <1>1, <1>2, <1>3, <1>7
  <2> QED
    BY Zenon, <1>1, <1>2, <1>5a, <1>10, <1>11, <1>a, <2>1 DEF Taken, TypeOK, xHeapStructSize
<1>20. Inserting(t)'
  BY Zenon, <1>1, <1>2, <1>10, <1>11 DEF Inserting, TypeOK
<1>21. LocalsOK(t)'
  BY Zenon, <1>1, <1>2, <1>19, <1>20 DEF LocalsOK, TypeOK, Ready
<1>22. LowWaterMark'
  BY Zenon, <1>0, <1>2 DEF LowWaterMark, stats
<1> QED
  BY Zenon, <1>1, <1>2, <1>9, <1>14, <1>15, <1>16, <1>17, <1>18, <1>21, <1>22, IInvFromParts
     DEF Structure, Ready

\* Marking or unmarking the block p, which is in nobody's list, changes no size and
\* no link: what is left to show is LiveOK.
LEMMA MarkKeeps ==
    ASSUME OneTask, NEW t \in Tasks, TypeOK, Ready, Structure, pxEnd' = pxEnd,
           NEW p \in Blocks, p \notin FreeBlocks,
           NEW word \in Nat, word # 0, xBlockSize' = [xBlockSize EXCEPT ![p] = word],
           pxNextFreeBlock' = pxNextFreeBlock \/ pxNextFreeBlock' = [pxNextFreeBlock EXCEPT ![p] = NULL],
           BlockSize(p)' = BlockSize(p),
           FreeBlocks' = FreeBlocks
    PROVE  /\ Blocks' = Blocks
           /\ \A b \in Blocks : BlockSize(b)' = BlockSize(b)
           /\ SizesOK' /\ BlocksTile' /\ FreeListOrdered' /\ Coalesced'
<1>1. /\ Blocks \subseteq Cells /\ FreeBlocks \subseteq Blocks /\ p \in Addr /\ p # xStart
      /\ xStart \notin Cells /\ EndAddress \in Addr
  BY Zenon, Geometry DEF Blocks, FreeBlocks, Addr
<1>2. \A a \in Addr : a # p => xBlockSize'[a] = xBlockSize[a] /\ pxNextFreeBlock'[a] = pxNextFreeBlock[a]
  BY Zenon DEF TypeOK
<1>3. xBlockSize'[p] = word
  BY Zenon, <1>1 DEF TypeOK
<1>4. Blocks' = Blocks
  BY Zenon, <1>1, <1>2, <1>3 DEF Blocks, Addr
<1>5. \A b \in Blocks : BlockSize(b)' = BlockSize(b)
  BY <1>1, <1>2 DEF BlockSize, IsAllocated, Addr
<1>6. p # EndAddress
  BY Zenon DEF Structure, SizesOK, Blocks
<1>7. SizesOK'
  BY Zenon, <1>1, <1>2, <1>4, <1>5, <1>6 DEF Structure, SizesOK, Addr
<1>8. BlocksTile'
  BY Zenon, <1>4, <1>5 DEF Structure, BlocksTile, Ready
<1>9. FreeListOrdered'
  BY Zenon, <1>1, <1>2 DEF Structure, FreeListOrdered, Ready, Addr
<1>10. Coalesced'
  BY Zenon, <1>1, <1>5 DEF Structure, Coalesced, Ready
<1> QED
  BY Zenon, <1>4, <1>5, <1>7, <1>8, <1>9, <1>10

\* The block is marked as allocated and becomes a chunk of the application.
LEMMA AllocDoneKeeps ==
    ASSUME OneTask, IInv, NEW t \in Tasks, AllocDone(t)
    PROVE  IInv'
<1>a. SUFFICES ASSUME NEW p, p = pxBlock[t], NEW n, n = request[t],
                     NEW word, word = xBlockSize[p] + xBlockAllocatedBit
              PROVE  IInv'
  BY Zenon
<1>0. TypeOK /\ LocalsOK(t) /\ LowWaterMark /\ (Ready => Structure)
  BY Zenon, IInvParts
<1>1. /\ Ready /\ Structure /\ Taken(t) /\ p \in Blocks /\ ~IsAllocated(p) /\ pc[t] = "alloc_done"
      /\ pvReturn[t] = p + 8 /\ n + 8 <= xBlockSize[p] /\ n \in Nat
  BY <1>0, <1>a, HeapAssumption DEF AllocDone, LocalsOK, Taken, xHeapStructSize
<1>2. /\ p \in Addr /\ p \in Cells /\ p \in Nat /\ xBlockAllocatedBit \in Nat /\ Blocks \subseteq Cells
      /\ Blocks \subseteq Nat
  BY Zenon, <1>1, Geometry DEF Blocks, Addr
<1>3. /\ xBlockSize[p] \in Nat /\ xBlockSize[p] < xBlockAllocatedBit /\ xBlockSize[p] # 0
      /\ word \in Nat /\ word >= xBlockAllocatedBit /\ word # 0
  BY <1>0, <1>1, <1>2, <1>a DEF TypeOK, IsAllocated, Blocks
<1>4. /\ xBlockSize' = [xBlockSize EXCEPT ![p] = word]
      /\ pxNextFreeBlock' = [pxNextFreeBlock EXCEPT ![p] = NULL]
      /\ live' = live \cup {[ptr |-> p + 8, len |-> n]}
      /\ pxEnd' = pxEnd /\ pc' = [pc EXCEPT ![t] = "idle"]
  BY Zenon, <1>1, <1>a DEF AllocDone, Return
<1>5. TypeOK'
  <2>1. xBlockSize' \in [Addr -> Nat] /\ pxNextFreeBlock' \in [Addr -> Cells \cup {NULL}]
    BY Zenon, <1>0, <1>3, <1>4 DEF TypeOK
  <2>2. live' \subseteq Chunks
    BY <1>0, <1>1, <1>2, <1>4 DEF TypeOK, Chunks
  <2>3. xFreeBytesRemaining' \in Int /\ xMinimumEverFreeBytesRemaining' \in Int
    BY SMTT(60), <1>0, <1>3, <1>a DEF TypeOK, AllocDone
  <2>4. /\ xNumberOfSuccessfulAllocations' \in Nat /\ xNumberOfSuccessfulFrees' \in Nat
        /\ pxEnd' \in {NULL, EndAddress}
    BY <1>0, <1>4 DEF TypeOK, AllocDone
  <2> QED
    BY Zenon, <1>0, <2>1, <2>2, <2>3, <2>4 DEF TypeOK, AllocDone, Return, NULL
<1>6. xBlockSize'[p] = word /\ pxNextFreeBlock'[p] = NULL
      /\ \A a \in Addr \ {p} : xBlockSize'[a] = xBlockSize[a] /\ pxNextFreeBlock'[a] = pxNextFreeBlock[a]
  BY Zenon, <1>0, <1>2, <1>4 DEF TypeOK
<1>7. /\ IsAllocated(p)' /\ BlockSize(p)' = BlockSize(p) /\ BlockSize(p) = xBlockSize[p]
      /\ \A a \in Addr \ {p} : IsAllocated(a)' <=> IsAllocated(a)
  <2>1. word - xBlockAllocatedBit = xBlockSize[p]
    BY <1>2, <1>3, <1>a
  <2>2. IsAllocated(p)' /\ BlockSize(p)' = word - xBlockAllocatedBit
    BY Zenon, <1>3, <1>6 DEF IsAllocated, BlockSize
  <2>3. BlockSize(p) = xBlockSize[p]
    BY Zenon, <1>1 DEF BlockSize
  <2> QED
    BY Zenon, <1>6, <2>1, <2>2, <2>3 DEF IsAllocated
<1>8. Held(t) = {p} /\ Held(t)' = {}
  BY Zenon, <1>0, <1>1, <1>4, <1>a DEF Held, TypeOK
<1>9. Blocks' = Blocks
  BY Zenon, <1>2, <1>3, <1>6 DEF Blocks, Addr
<1>10. FreeBlocks' = FreeBlocks /\ p \notin FreeBlocks
  <2>1. FreeBlocks = {b \in Blocks : ~IsAllocated(b)} \ {p}
    BY Zenon, <1>8, FreeBlocksOneTask
  <2>2. FreeBlocks' = {b \in Blocks : ~IsAllocated(b)'}
    BY Zenon, <1>8, <1>9, FreeBlocksOneTask
  <2> QED
    BY Zenon, <1>1, <1>2, <1>7, <2>1, <2>2 DEF Addr
<1>11. /\ \A b \in Blocks : BlockSize(b)' = BlockSize(b)
       /\ SizesOK' /\ BlocksTile' /\ FreeListOrdered' /\ Coalesced'
  BY Zenon, <1>0, <1>1, <1>2, <1>3, <1>4, <1>7, <1>10, MarkKeeps
<1>12. LiveOK'
  <2>1. ASSUME NEW c \in live'
        PROVE  /\ c.ptr - 8 \in Blocks' /\ IsAllocated(c.ptr - 8)'
               /\ pxNextFreeBlock'[c.ptr - 8] = NULL /\ c.len + 8 <= BlockSize(c.ptr - 8)'
    <3>1. CASE c = [ptr |-> p + 8, len |-> n]
      <4>1. c.ptr - 8 = p /\ c.len = n
        BY SMTT(60), <1>2, <3>1
      <4> QED
        BY Zenon, <1>1, <1>6, <1>7, <1>9, <4>1
    <3>2. CASE c \in live
      <4>1. /\ c.ptr - 8 \in Blocks /\ IsAllocated(c.ptr - 8) /\ pxNextFreeBlock[c.ptr - 8] = NULL
            /\ c.len + 8 <= BlockSize(c.ptr - 8)
        BY Zenon, <1>1, <3>2 DEF Structure, LiveOK, xHeapStructSize
      <4>2. c.ptr - 8 # p /\ c.ptr - 8 \in Addr
        BY Zenon, <1>1, <1>2, <4>1 DEF Addr
      <4> QED
        BY Zenon, <1>6, <1>7, <1>9, <1>11, <4>1, <4>2
    <3> QED
      BY Zenon, <1>4, <3>1, <3>2
  <2>2. ASSUME NEW c \in live', NEW d \in live', c.ptr = d.ptr PROVE c = d
    <3>1. \A e \in live : e.ptr # p + 8
      <4> SUFFICES ASSUME NEW e \in live, e.ptr = p + 8 PROVE FALSE
        BY Zenon
      <4>1. e.ptr - 8 = p
        BY <1>2
      <4> QED
        BY Zenon, <1>1, <4>1 DEF Structure, LiveOK, xHeapStructSize
    <3> QED
      BY <1>1, <1>4, <2>2, <3>1 DEF Structure, LiveOK
  <2>3. ASSUME NEW b \in Blocks', IsAllocated(b)' PROVE \E c \in live' : c.ptr = b + 8
    <3>1. CASE b = p
      <4>1. [ptr |-> p + 8, len |-> n] \in live'
        BY Zenon, <1>4
      <4>2. [ptr |-> p + 8, len |-> n].ptr = b + 8
        BY Zenon, <3>1
      <4> QED
        BY Zenon, <4>1, <4>2
    <3>2. CASE b # p
      BY Zenon, <1>1, <1>2, <1>4, <1>7, <1>9, <2>3, <3>2 DEF Structure, LiveOK, Addr, xHeapStructSize
    <3> QED
      BY Zenon, <3>1, <3>2
  <2> QED
    BY Zenon, <2>1, <2>2, <2>3 DEF LiveOK, xHeapStructSize
<1>13. LocalsOK(t)'
  BY Zenon, <1>0, <1>4 DEF LocalsOK, TypeOK
<1>14. LowWaterMark'
  BY <1>0, <1>3, <1>a DEF LowWaterMark, AllocDone, TypeOK
<1> QED
  BY Zenon, <1>1, <1>4, <1>5, <1>11, <1>12, <1>13, <1>14, IInvFromParts DEF Structure, Ready

\* The chunk is given up: its block is unmarked and held until it is inserted.
LEMMA PortFreeKeeps ==
    ASSUME OneTask, IInv, NEW t \in Tasks, NEW c \in live, PortFree(t, c)
    PROVE  IInv'
<1>a. SUFFICES ASSUME NEW p, p = c.ptr - 8, NEW word, word = xBlockSize[p] - xBlockAllocatedBit
              PROVE  IInv'
  BY Zenon
<1>0. TypeOK /\ LocalsOK(t) /\ LowWaterMark /\ (Ready => Structure) /\ (pxEnd = NULL => live = {})
  BY Zenon, IInvParts
<1>1. Ready /\ Structure /\ pc[t] = "idle" /\ p \in Blocks /\ IsAllocated(p)
  BY Zenon, <1>0, <1>a DEF Ready, PortFree, Structure, LiveOK, xHeapStructSize
<1>2. /\ p \in Addr /\ p \in Cells /\ p \in Nat /\ xBlockAllocatedBit \in Nat /\ Blocks \subseteq Cells
      /\ Blocks \subseteq Nat /\ EndAddress < xBlockAllocatedBit /\ EndAddress \in Nat
  BY <1>1, Geometry DEF Blocks, Addr
<1>3. /\ xBlockSize[p] \in Nat /\ BlockSize(p) = word /\ word \in Nat /\ word # 0
      /\ word < xBlockAllocatedBit
  <2>1. xBlockSize[p] \in Nat /\ BlockSize(p) = word /\ word \in Nat
    BY <1>0, <1>1, <1>2, <1>a DEF TypeOK, IsAllocated, BlockSize
  <2>2. word > 0 /\ p + word <= EndAddress
    BY Zenon, <1>1, <2>1 DEF Structure, SizesOK
  <2> QED
    BY <1>2, <2>1, <2>2
<1>4. /\ xBlockSize' = [xBlockSize EXCEPT ![p] = word] /\ pxNextFreeBlock' = pxNextFreeBlock
      /\ live' = live \ {c} /\ pxEnd' = pxEnd
      /\ pc' = [pc EXCEPT ![t] = "free_insert"]
      /\ pxBlockToInsert' = [pxBlockToInsert EXCEPT ![t] = p]
      /\ pxIterator' = [pxIterator EXCEPT ![t] = xStart]
      /\ xFreeBytesRemaining' = xFreeBytesRemaining + word
      /\ xMinimumEverFreeBytesRemaining' = xMinimumEverFreeBytesRemaining
  BY Zenon, <1>3, <1>a DEF PortFree, CallInsert, xHeapStructSize
<1>5. TypeOK'
  <2>1. xBlockSize' \in [Addr -> Nat] /\ xStart \in Addr
    BY ZenonT(60), <1>0, <1>3, <1>4 DEF TypeOK, Addr
  <2>2. xFreeBytesRemaining' \in Int
    BY <1>0, <1>3, <1>4 DEF TypeOK
  <2> QED
    BY Zenon, <1>0, <1>2, <1>4, <2>1, <2>2 DEF TypeOK, PortFree
<1>6. xBlockSize'[p] = word /\ \A a \in Addr \ {p} : xBlockSize'[a] = xBlockSize[a]
  BY Zenon, <1>0, <1>2, <1>4 DEF TypeOK
<1>7. /\ ~IsAllocated(p)' /\ BlockSize(p)' = BlockSize(p)
      /\ \A a \in Addr \ {p} : IsAllocated(a)' <=> IsAllocated(a)
  BY <1>2, <1>3, <1>6 DEF IsAllocated, BlockSize
<1>8. Held(t) = {} /\ Held(t)' = {p}
  BY Zenon, <1>0, <1>1, <1>4 DEF Held, TypeOK
<1>9. Blocks' = Blocks
  BY Zenon, <1>1, <1>2, <1>3, <1>6 DEF Blocks, Addr
<1>10. FreeBlocks' = FreeBlocks /\ p \notin FreeBlocks
  <2>1. FreeBlocks = {b \in Blocks : ~IsAllocated(b)}
    BY Zenon, <1>8, FreeBlocksOneTask
  <2>2. FreeBlocks' = {b \in Blocks : ~IsAllocated(b)'} \ {p}
    BY Zenon, <1>8, <1>9, FreeBlocksOneTask
  <2> QED
    BY Zenon, <1>1, <1>2, <1>7, <2>1, <2>2 DEF Addr
<1>11. /\ \A b \in Blocks : BlockSize(b)' = BlockSize(b)
       /\ SizesOK' /\ BlocksTile' /\ FreeListOrdered' /\ Coalesced'
  BY Zenon, <1>0, <1>1, <1>3, <1>4, <1>7, <1>10, MarkKeeps
<1>12. LiveOK'
  <2>0. c.ptr \in Nat /\ \A d \in live : d.ptr \in Nat
    BY Zenon, <1>0 DEF TypeOK, Chunks
  <2>1. ASSUME NEW d \in live'
        PROVE  /\ d.ptr - 8 \in Blocks' /\ IsAllocated(d.ptr - 8)'
               /\ pxNextFreeBlock'[d.ptr - 8] = NULL /\ d.len + 8 <= BlockSize(d.ptr - 8)'
    <3>1. /\ d.ptr - 8 \in Blocks /\ IsAllocated(d.ptr - 8) /\ pxNextFreeBlock[d.ptr - 8] = NULL
          /\ d.len + 8 <= BlockSize(d.ptr - 8)
      BY Zenon, <1>1, <1>4 DEF Structure, LiveOK, xHeapStructSize
    <3>2. d.ptr # c.ptr
      BY Zenon, <1>1, <1>4 DEF Structure, LiveOK
    <3>3. d.ptr - 8 # p /\ d.ptr - 8 \in Addr
      BY <1>2, <1>4, <1>a, <2>0, <3>1, <3>2 DEF Addr
    <3> QED
      BY Zenon, <1>4, <1>7, <1>9, <1>11, <3>1, <3>3
  <2>2. ASSUME NEW b \in Blocks', IsAllocated(b)' PROVE \E d \in live' : d.ptr = b + 8
    <3>1. b # p /\ b \in Addr /\ b \in Blocks /\ b \in Nat
      BY Zenon, <1>2, <1>7, <1>9, <2>2 DEF Addr
    <3>2. PICK d \in live : d.ptr = b + 8
      BY Zenon, <1>1, <1>7, <2>2, <3>1 DEF Structure, LiveOK, xHeapStructSize
    <3>3. d # c
      BY SMTT(60), <1>a, <2>0, <3>1, <3>2
    <3> QED
      BY Zenon, <1>4, <3>2, <3>3
  <2> QED
    BY Zenon, <1>1, <1>4, <2>1, <2>2 DEF Structure, LiveOK, xHeapStructSize
<1>13. Inserting(t)'
  BY ZenonT(60), <1>0, <1>1, <1>4, <1>7, <1>9 DEF Inserting, TypeOK
<1>14. LocalsOK(t)'
  BY Zenon, <1>0, <1>1, <1>4, <1>13 DEF LocalsOK, TypeOK, Ready
<1>15. LowWaterMark'
  BY SMTT(60), <1>0, <1>3, <1>4 DEF LowWaterMark, TypeOK
<1> QED
  BY Zenon, <1>1, <1>4, <1>5, <1>11, <1>12, <1>14, <1>15, IInvFromParts DEF Structure, Ready

(***************************************************************************)
(* prvInsertBlockIntoFreeList: the block inserted, merged with the         *)
(* neighbours it touches, is back on an ordered list.                      *)
(***************************************************************************)
\* prvInsertBlockIntoFreeList, once the position is found: with the block merged into
\* its neighbours the heap is well formed again, and the new block is on the list.
LEMMA LinkKeeps ==
    ASSUME OneTask, NEW t \in Tasks, TypeOK, Ready, Structure, Inserting(t), Link(t),
           NEW new, new = pxBlockToInsert[t], new \in Held(t), Held(t)' = Held(t) \ {new},
           pxEnd' = pxEnd, live' = live
    PROVE  /\ Structure'
           /\ xBlockSize' \in [Addr -> Nat] /\ pxNextFreeBlock' \in [Addr -> Cells \cup {NULL}]
           /\ \A a \in Blocks : (a # new /\ a \notin FreeBlocks) =>
                  a \in Blocks' /\ xBlockSize'[a] = xBlockSize[a]
<1> DEFINE Goal == /\ Structure'
                   /\ xBlockSize' \in [Addr -> Nat]
                   /\ pxNextFreeBlock' \in [Addr -> Cells \cup {NULL}]
                   /\ \A a \in Blocks : (a # new /\ a \notin FreeBlocks) =>
                          a \in Blocks' /\ xBlockSize'[a] = xBlockSize[a]
<1>a. SUFFICES ASSUME NEW it, it = pxIterator[t], NEW nx, nx = pxNextFreeBlock[it] PROVE Goal
  BY Zenon
<1> DEFINE mb == it + xBlockSize[it] = new
<1>b. SUFFICES ASSUME NEW b, b = IF mb THEN it ELSE new,
                     NEW sz, sz = IF mb THEN xBlockSize[it] + xBlockSize[new] ELSE xBlockSize[new]
              PROVE  Goal
  BY Zenon
<1> DEFINE ma == b + sz = nx /\ nx # pxEnd
<1>c. SUFFICES ASSUME NEW gone, gone = (IF mb THEN {new} ELSE {}) \cup (IF ma THEN {nx} ELSE {}),
                     NEW e, e = IF ma THEN nx + xBlockSize[nx] ELSE new + xBlockSize[new]
              PROVE  Goal
  BY Zenon
<1> HIDE DEF Goal, mb, ma
\* Where the insertion point is.
<1>1. /\ FreeBlocks \subseteq Blocks /\ Blocks \subseteq Cells /\ Cells \subseteq Addr
      /\ Blocks \subseteq Nat /\ EndAddress \in Nat /\ EndAddress \in Cells /\ EndAddress \notin Blocks
      /\ xStart \notin Cells /\ xStart \in Nat /\ xStart \in Addr /\ xBlockAllocatedBit \in Nat
      /\ EndAddress < xBlockAllocatedBit /\ pxEnd = EndAddress
      /\ xBlockSize[xStart] = 0 /\ \A f \in FreeBlocks : ~IsAllocated(f)
  <2>1. /\ FreeBlocks \subseteq Blocks /\ Blocks \subseteq Cells /\ Cells \subseteq Addr
        /\ xStart \in Addr /\ \A f \in FreeBlocks : ~IsAllocated(f)
    BY Zenon DEF FreeBlocks, Blocks, Addr
  <2>2. pxEnd = EndAddress
    BY Zenon DEF TypeOK, Ready
  <2>3. xBlockSize[xStart] = 0 /\ EndAddress \notin Blocks
    BY Zenon DEF Structure, SizesOK, Blocks
  <2>4. /\ Cells \subseteq Nat /\ EndAddress \in Nat /\ EndAddress \in Cells /\ xStart \notin Cells
        /\ xStart \in Nat /\ xBlockAllocatedBit \in Nat /\ EndAddress < xBlockAllocatedBit
    BY Geometry
  <2> QED
    BY Zenon, <2>1, <2>2, <2>3, <2>4
<1>2. /\ new \in Blocks /\ ~IsAllocated(new) /\ new \notin FreeBlocks /\ new \in Nat
      /\ it \in FreeBlocks \cup {xStart} /\ (it # xStart => it < new)
  BY Zenon, <1>1, <1>a, FreeBlocksOneTask DEF Inserting
<1>3. /\ nx \in FreeBlocks \cup {EndAddress} /\ nx \in Nat /\ new <= nx /\ new # nx /\ new < nx
  <2>1. nx \in FreeBlocks \cup {EndAddress}
    BY Zenon, <1>2, <1>a DEF Structure, FreeListOrdered
  <2>2. new <= nx
    BY Zenon, <1>a DEF Link
  <2>3. nx \in Nat /\ new # nx
    BY Zenon, <1>1, <1>2, <2>1
  <2> QED
    BY <1>2, <2>1, <2>2, <2>3
<1>4. \A f \in FreeBlocks : (f < new => it # xStart /\ f <= it) /\ (new < f => nx <= f)
  <2> SUFFICES ASSUME NEW f \in FreeBlocks
               PROVE  (f < new => it # xStart /\ f <= it) /\ (new < f => nx <= f)
    BY Zenon
  <2>1. f \in Nat /\ ((it = xStart \/ it < f) => nx <= f)
    BY Zenon, <1>1, <1>2, <1>a DEF Structure, FreeListOrdered
  <2>2. it \in Nat
    BY Zenon, <1>1, <1>2
  <2> QED
    BY <1>2, <1>3, <2>1, <2>2
<1>5. \A a \in Blocks : a \in Nat /\ xBlockSize[a] \in Nat /\ BlockSize(a) \in Nat /\ BlockSize(a) > 0
                        /\ a + BlockSize(a) <= EndAddress /\ BlockSize(a) % 4 = 0
                        /\ (~IsAllocated(a) => BlockSize(a) = xBlockSize[a])
  <2>1. \A a \in Blocks : a \in Nat /\ xBlockSize[a] \in Nat /\ (~IsAllocated(a) => BlockSize(a) = xBlockSize[a])
    BY Zenon, <1>1 DEF TypeOK, BlockSize
  <2>2. \A a \in Blocks : BlockSize(a) \in Nat
    BY <1>1, <2>1 DEF BlockSize, IsAllocated
  <2> QED
    BY Zenon, <2>1, <2>2 DEF Structure, SizesOK
\* What is merged.
<1>d. /\ mb => b = it /\ sz = xBlockSize[it] + xBlockSize[new] /\ it + xBlockSize[it] = new
      /\ ~mb => b = new /\ sz = xBlockSize[new] /\ it + xBlockSize[it] # new
  BY Zenon, <1>b DEF mb
<1>f. /\ ma => b + sz = nx /\ nx # pxEnd /\ nx \in gone /\ e = nx + xBlockSize[nx]
      /\ ~ma => (b + sz # nx \/ nx = pxEnd) /\ e = new + xBlockSize[new]
      /\ mb => new \in gone
      /\ \A a \in gone : (a = new /\ mb) \/ (a = nx /\ ma)
  BY Zenon, <1>c DEF ma
<1>6. mb => it \in FreeBlocks /\ it + xBlockSize[it] = new /\ b = it /\ it < new
            /\ sz = xBlockSize[it] + xBlockSize[new] /\ it + sz = new + xBlockSize[new]
  <2>1. it = xStart => ~mb
    <3>1. it = xStart => it + xBlockSize[it] = xStart /\ xStart # new
      BY <1>1, <1>2
    <3> QED
      BY Zenon, <1>d, <3>1
  <2>2. mb => it \in FreeBlocks /\ it + xBlockSize[it] = new /\ b = it /\ it < new
    BY Zenon, <1>2, <1>d, <2>1
  <2>3. mb => it \in Nat /\ xBlockSize[it] \in Nat /\ xBlockSize[new] \in Nat
    BY Zenon, <1>1, <1>2, <1>5, <2>2
  <2> QED
    BY <1>2, <1>d, <2>2, <2>3
<1>7. b \in Blocks /\ b \in Nat /\ ~IsAllocated(b) /\ sz \in Nat /\ b + sz = new + xBlockSize[new]
      /\ b <= new /\ (~mb => b = new)
  <2>1. CASE mb
    <3>1. it \in Blocks /\ ~IsAllocated(it) /\ it \in Nat /\ xBlockSize[it] \in Nat
      BY Zenon, <1>1, <1>5, <1>6, <2>1
    <3> QED
      BY <1>2, <1>5, <1>6, <2>1, <3>1
  <2>2. CASE ~mb
    BY <1>2, <1>5, <1>d, <2>2
  <2> QED
    BY Zenon, <2>1, <2>2
<1>8. ma => nx \in FreeBlocks /\ new + xBlockSize[new] = nx
  BY Zenon, <1>1, <1>3, <1>7, <1>f
<1>9. /\ e \in Nat /\ e <= EndAddress /\ new < e /\ e \in Blocks \cup {EndAddress}
      /\ e >= new + xBlockSize[new]
  <2>0. \A a \in Blocks : a + BlockSize(a) \in Blocks \cup {EndAddress}
    BY Zenon DEF Structure, BlocksTile
  <2>1. CASE ma
    <3>1. nx \in Blocks /\ BlockSize(nx) = xBlockSize[nx] /\ xBlockSize[new] \in Nat
      BY Zenon, <1>1, <1>2, <1>5, <1>8, <2>1
    <3>2. e = nx + BlockSize(nx)
      BY Zenon, <1>f, <2>1, <3>1
    <3> QED
      BY <1>2, <1>3, <1>5, <1>8, <2>0, <2>1, <3>1, <3>2
  <2>2. CASE ~ma
    <3>1. BlockSize(new) = xBlockSize[new] /\ e = new + BlockSize(new)
      BY Zenon, <1>2, <1>5, <1>f, <2>2
    <3> QED
      BY <1>2, <1>5, <2>0, <3>1
  <2> QED
    BY Zenon, <2>1, <2>2
<1>10. b \notin gone /\ gone \subseteq FreeBlocks \cup {new} /\ gone \subseteq Blocks
  <2>1. b \notin gone
    BY <1>2, <1>3, <1>7, <1>d, <1>f, <1>6
  <2> QED
    BY ZenonT(60), <1>1, <1>2, <1>8, <1>f, <2>1
\* The headers after the step.
<1>10a. xBlockSize' = [a \in Addr |->
             CASE a = b -> IF ma THEN sz + xBlockSize[nx] ELSE sz
               [] a # b /\ (a = new \/ (ma /\ a = nx)) -> 0
               [] OTHER -> xBlockSize[a]]
  BY ZenonT(60), <1>a, <1>b DEF Link, mb, ma
<1>10b. pxNextFreeBlock' = [a \in Addr |->
             CASE a = b -> IF ma THEN pxNextFreeBlock[nx] ELSE nx
               [] a # b /\ (a = new \/ (ma /\ a = nx)) -> NULL
               [] a = it /\ a # b -> b
               [] OTHER -> pxNextFreeBlock[a]]
  BY <1>a, <1>b DEF Link, mb, ma
<1>11. /\ xBlockSize'[b] = IF ma THEN sz + xBlockSize[nx] ELSE sz
       /\ pxNextFreeBlock'[b] = IF ma THEN pxNextFreeBlock[nx] ELSE nx
       /\ \A a \in gone : xBlockSize'[a] = 0
       /\ \A a \in Addr \ ({b} \cup gone) : xBlockSize'[a] = xBlockSize[a]
       /\ it # b => pxNextFreeBlock'[it] = b
       /\ \A a \in Addr \ ({b, it} \cup gone) : pxNextFreeBlock'[a] = pxNextFreeBlock[a]
  <2>3. \A a : a \in gone <=> (a # b /\ (a = new \/ (ma /\ a = nx)))
    <3>1. new \in gone <=> b # new
      <4>1. CASE mb
        BY Zenon, <1>2, <1>6, <1>f, <4>1
      <4>2. CASE ~mb
        BY Zenon, <1>10, <1>d, <4>2
      <4> QED
        BY Zenon, <4>1, <4>2
    <3>2. nx \in gone <=> ma
      BY Zenon, <1>3, <1>f
    <3>3. nx # b
      BY <1>2, <1>3, <1>7
    <3>4. \A a \in gone : a = new \/ a = nx
      BY Zenon, <1>f
    <3> QED
      BY Zenon, <1>3, <3>1, <3>2, <3>3, <3>4
  <2>4. b \in Addr /\ it \in Addr /\ it \notin gone /\ gone \subseteq Addr
    <3>1. it # new /\ it # nx
      <4>1. CASE it = xStart
        <5>1. new \in Cells /\ nx \in Cells
          BY Zenon, <1>1, <1>2, <1>3
        <5> QED
          BY Zenon, <1>1, <4>1, <5>1
      <4>2. CASE it # xStart
        <5>1. it \in Nat /\ it < new
          BY Zenon, <1>1, <1>2, <4>2
        <5> QED
          BY <1>2, <1>3, <5>1
      <4> QED
        BY Zenon, <4>1, <4>2
    <3>2. gone \subseteq {new, nx}
      BY Zenon, <1>f
    <3> QED
      BY Zenon, <1>1, <1>2, <1>7, <1>10, <3>1, <3>2
  <2>5. /\ xBlockSize'[b] = IF ma THEN sz + xBlockSize[nx] ELSE sz
        /\ pxNextFreeBlock'[b] = IF ma THEN pxNextFreeBlock[nx] ELSE nx
    BY Zenon, <1>10a, <1>10b, <2>4
  <2>6. /\ \A a \in gone : xBlockSize'[a] = 0
        /\ \A a \in Addr \ ({b} \cup gone) : xBlockSize'[a] = xBlockSize[a]
    BY Zenon, <1>10a, <2>3, <2>4
  <2>7. it # b => pxNextFreeBlock'[it] = b
    BY Zenon, <1>10b, <2>3, <2>4
  <2>8. \A a \in Addr \ ({b, it} \cup gone) : pxNextFreeBlock'[a] = pxNextFreeBlock[a]
    BY Zenon, <1>10b, <2>3, <2>4
  <2> QED
    BY Zenon, <2>5, <2>6, <2>7, <2>8
<1>12. b + xBlockSize'[b] = e /\ xBlockSize'[b] \in Nat /\ xBlockSize'[b] > 0
       /\ xBlockSize'[b] < xBlockAllocatedBit
  <2>1. b + xBlockSize'[b] = e /\ xBlockSize'[b] \in Nat
    BY <1>1, <1>2, <1>3, <1>5, <1>7, <1>8, <1>11, <1>f
  <2> QED
    BY SMTT(60), <1>1, <1>2, <1>7, <1>9, <2>1
<1>13. /\ ~IsAllocated(b)' /\ BlockSize(b)' = xBlockSize'[b]
       /\ \A a \in Addr \ ({b} \cup gone) :
              BlockSize(a)' = BlockSize(a) /\ (IsAllocated(a)' <=> IsAllocated(a))
  <2>1. ~IsAllocated(b)' /\ BlockSize(b)' = xBlockSize'[b]
    BY <1>1, <1>12 DEF BlockSize, IsAllocated
  <2>2. ASSUME NEW a \in Addr \ ({b} \cup gone)
        PROVE  BlockSize(a)' = BlockSize(a) /\ (IsAllocated(a)' <=> IsAllocated(a))
    <3>1. xBlockSize'[a] = xBlockSize[a]
      BY Zenon, <1>11
    <3> QED
      BY Zenon, <3>1 DEF BlockSize, IsAllocated
  <2> QED
    BY Zenon, <2>1, <2>2
<1>14. Blocks' = Blocks \ gone
  <2>1. ASSUME NEW a \in Cells PROVE xBlockSize'[a] # 0 <=> (xBlockSize[a] # 0 /\ a \notin gone)
    <3>1. CASE a = b
      BY SMTT(60), <1>7, <1>10, <1>12, <3>1 DEF Blocks
    <3>2. CASE a \in gone
      BY Zenon, <1>11, <3>2
    <3>3. CASE a # b /\ a \notin gone
      BY Zenon, <1>1, <1>11, <3>3
    <3> QED
      BY Zenon, <3>1, <3>2, <3>3
  <2> QED
    BY Zenon, <2>1 DEF Blocks
<1>15. FreeBlocks' = (FreeBlocks \ gone) \cup {b}
  <2>1. FreeBlocks = {a \in Blocks : ~IsAllocated(a)} \ Held(t)
    BY Zenon, FreeBlocksOneTask
  <2>2. FreeBlocks' = {a \in Blocks \ gone : ~IsAllocated(a)'} \ (Held(t) \ {new})
    BY Zenon, <1>14, FreeBlocksOneTask
  <2>3. b \in FreeBlocks'
    <3>1. b \notin Held(t) \ {new}
      BY Zenon, <1>6, <1>7, <2>1
    <3> QED
      BY Zenon, <1>7, <1>10, <1>13, <2>2, <3>1
  <2>4. ASSUME NEW a, a # b PROVE a \in FreeBlocks' <=> a \in FreeBlocks \ gone
    <3>1. CASE a \in Blocks \ gone
      <4>1. a # new
        BY Zenon, <1>d, <1>f, <2>4, <3>1
      <4>2. IsAllocated(a)' <=> IsAllocated(a)
        BY Zenon, <1>1, <1>13, <2>4, <3>1
      <4> QED
        BY Zenon, <2>1, <2>2, <3>1, <4>1, <4>2
    <3>2. CASE a \notin Blocks \ gone
      BY Zenon, <2>1, <2>2, <3>2
    <3> QED
      BY Zenon, <3>1, <3>2
  <2> QED
    BY Zenon, <2>3, <2>4
<1>16. xBlockSize' \in [Addr -> Nat]
  <2>1. \A a \in Addr : xBlockSize'[a] \in Nat
    BY <1>11, <1>12 DEF TypeOK
  <2> QED
    BY Zenon, <1>10a, <2>1
<1>17. pxNextFreeBlock' \in [Addr -> Cells \cup {NULL}]
  <2>1. b \in Cells /\ pxNextFreeBlock[it] \in Cells /\ \A a \in Addr : pxNextFreeBlock[a] \in Cells \cup {NULL}
    BY Zenon, <1>1, <1>3, <1>7, <1>a DEF TypeOK
  <2>2. ma => nx \in Addr
    BY ZenonT(60), <1>1, <1>8
  <2> QED
    BY Zenon, <1>10b, <2>1, <2>2, <1>3, <1>a
<1>18. \A a \in Blocks : (a # new /\ a \notin FreeBlocks) =>
              a \in Blocks' /\ a \in Addr \ ({b, it} \cup gone) /\ xBlockSize'[a] = xBlockSize[a]
  <2> SUFFICES ASSUME NEW a \in Blocks, a # new, a \notin FreeBlocks
               PROVE  a \in Blocks' /\ a \in Addr \ ({b, it} \cup gone) /\ xBlockSize'[a] = xBlockSize[a]
    BY Zenon
  <2>1. a \in Addr /\ a # it /\ a \notin gone
    BY Zenon, <1>1, <1>2, <1>10
  <2>2. a # b
    BY Zenon, <1>d, <2>1
  <2> QED
    BY Zenon, <1>11, <1>14, <2>1, <2>2
<1>19. ~mb => it + xBlockSize[it] # new
  BY Zenon, <1>d
<1>20. ~ma => nx = EndAddress \/ new + xBlockSize[new] # nx
  BY Zenon, <1>1, <1>7, <1>f
<1>21. \A a, c \in Blocks : a < c => a + BlockSize(a) <= c
  BY Zenon DEF Structure, BlocksTile
<1>22. \A a \in Blocks : a + BlockSize(a) \in Blocks \cup {EndAddress}
  BY Zenon DEF Structure, BlocksTile
<1>23. \A a, c \in Blocks : a + BlockSize(a) = c + BlockSize(c) => a = c
  BY <1>5, <1>21
<1>24. BlockSize(new) = xBlockSize[new] /\ (mb => BlockSize(it) = xBlockSize[it])
       /\ (ma => BlockSize(nx) = xBlockSize[nx])
  BY Zenon, <1>1, <1>2, <1>5, <1>6, <1>8
<1>25. \A a \in gone : (a = new /\ mb) \/ (a = nx /\ ma)
  BY Zenon, <1>f
<1>30. SizesOK'
  <2>1. xBlockSize'[xStart] = 0 /\ xBlockSize'[EndAddress] = 0 /\ pxNextFreeBlock'[EndAddress] = NULL
    <3>1. xStart \in Addr \ ({b} \cup gone) /\ EndAddress \in Addr \ ({b, it} \cup gone)
      BY Zenon, <1>1, <1>2, <1>7, <1>10
    <3> QED
      BY Zenon, <1>1, <1>11, <3>1 DEF Structure, SizesOK
  <2>2. ASSUME NEW a \in Blocks'
        PROVE  BlockSize(a)' > 0 /\ BlockSize(a)' % 4 = 0 /\ a + BlockSize(a)' <= EndAddress
    <3>1. CASE a = b
      <4>1. (e - b) % 4 = 0
        <5>1. e \in Cells /\ b \in Cells
          BY Zenon, <1>1, <1>7, <1>9
        <5>2. e % 4 = 0 /\ b % 4 = 0
          BY Zenon, <5>1, Geometry
        <5> QED
          BY <1>7, <1>9, <5>2
      <4>2. xBlockSize'[b] = e - b
        BY <1>7, <1>9, <1>12
      <4> QED
        BY Zenon, <1>9, <1>12, <1>13, <3>1, <4>1, <4>2
    <3>2. CASE a # b
      BY Zenon, <1>1, <1>5, <1>13, <1>14, <2>2, <3>2
    <3> QED
      BY Zenon, <3>1, <3>2
  <2> QED
    BY Zenon, <2>1, <2>2 DEF SizesOK
<1>31. LiveOK'
  <2>1. \A a \in Blocks : IsAllocated(a) => a # new /\ a \notin FreeBlocks
    BY Zenon, <1>1, <1>2
  <2>2. ASSUME NEW c \in live
        PROVE  /\ c.ptr - 8 \in Blocks' /\ IsAllocated(c.ptr - 8)'
               /\ pxNextFreeBlock'[c.ptr - 8] = NULL /\ c.len + 8 <= BlockSize(c.ptr - 8)'
    <3>1. /\ c.ptr - 8 \in Blocks /\ IsAllocated(c.ptr - 8) /\ pxNextFreeBlock[c.ptr - 8] = NULL
          /\ c.len + 8 <= BlockSize(c.ptr - 8)
      BY Zenon DEF Structure, LiveOK, xHeapStructSize
    <3>2. c.ptr - 8 \in Addr \ ({b, it} \cup gone) /\ c.ptr - 8 \in Blocks'
      BY Zenon, <1>18, <2>1, <3>1
    <3> QED
      BY Zenon, <1>11, <1>13, <3>1, <3>2
  <2>3. ASSUME NEW a \in Blocks', IsAllocated(a)' PROVE \E c \in live : c.ptr = a + 8
    <3>1. a # b /\ a \in Addr \ ({b} \cup gone) /\ a \in Blocks
      BY Zenon, <1>1, <1>13, <1>14, <2>3
    <3> QED
      BY Zenon, <1>13, <2>3, <3>1 DEF Structure, LiveOK, xHeapStructSize
  <2> QED
    BY Zenon, <2>2, <2>3 DEF Structure, LiveOK, xHeapStructSize
<1>32. BlocksTile'
  <2>1. pucAlignedHeap \in Blocks'
    <3>1. pucAlignedHeap \in Blocks /\ \A a \in Blocks : pucAlignedHeap <= a
      BY Zenon, <1>1, Geometry DEF Structure, BlocksTile
    <3>2. pucAlignedHeap \notin gone
      <4>1. ASSUME mb PROVE pucAlignedHeap # new
        <5>1. pucAlignedHeap <= it /\ it < new /\ it \in Nat
          BY Zenon, <1>1, <1>6, <3>1, <4>1
        <5> QED
          BY <1>2, <5>1, Geometry
      <4>2. pucAlignedHeap # nx
        BY <1>2, <1>3, <3>1, Geometry
      <4> QED
        BY Zenon, <1>25, <4>1, <4>2
    <3> QED
      BY Zenon, <1>14, <3>1, <3>2
  <2>2. ASSUME NEW a \in Blocks' PROVE a + BlockSize(a)' \in Blocks' \cup {EndAddress}
    <3>1. CASE a = b
      <4>1. e \notin gone
        <5>1. e # new
          BY <1>2, <1>9
        <5>2. ma => e # nx
          <6>1. ma => nx \in Blocks /\ BlockSize(nx) > 0 /\ e = nx + BlockSize(nx)
            BY Zenon, <1>1, <1>5, <1>8, <1>24, <1>f
          <6> QED
            BY SMTT(60), <1>3, <1>5, <6>1
        <5> QED
          BY Zenon, <1>25, <5>1, <5>2
      <4> QED
        BY Zenon, <1>9, <1>12, <1>13, <1>14, <3>1, <4>1
    <3>2. CASE a # b
      <4>1. a \in Blocks /\ a \notin gone /\ BlockSize(a)' = BlockSize(a)
        BY Zenon, <1>1, <1>13, <1>14, <2>2, <3>2
      <4>2. a + BlockSize(a) \notin gone
        <5>1. ASSUME mb, a + BlockSize(a) = new PROVE FALSE
          <6>1. a + BlockSize(a) = it + BlockSize(it) /\ it \in Blocks
            BY Zenon, <1>1, <1>6, <1>24, <5>1
          <6> QED
            BY Zenon, <1>6, <1>23, <3>2, <4>1, <5>1, <6>1
        <5>2. ASSUME ma, a + BlockSize(a) = nx PROVE FALSE
          <6>1. a = new
            BY Zenon, <1>2, <1>8, <1>23, <1>24, <4>1, <5>2
          <6>2. mb
            BY Zenon, <1>7, <3>2, <6>1
          <6> QED
            BY Zenon, <1>f, <4>1, <6>1, <6>2
        <5> QED
          BY Zenon, <1>25, <5>1, <5>2
      <4> QED
        BY Zenon, <1>14, <1>22, <4>1, <4>2
    <3> QED
      BY Zenon, <3>1, <3>2
  <2>3. ASSUME NEW a \in Blocks', NEW c \in Blocks', a < c PROVE a + BlockSize(a)' <= c
    <3>0. a \in Blocks /\ c \in Blocks /\ a \in Nat /\ c \in Nat /\ c \notin gone
      BY Zenon, <1>1, <1>14
    <3>1. CASE a = b
      <4>1. new < c
        <5>1. CASE mb
          <6>1. new <= c
            BY Zenon, <1>1, <1>6, <1>21, <1>24, <2>3, <3>0, <3>1, <5>1
          <6>2. c # new
            BY Zenon, <1>f, <3>0, <5>1
          <6> QED
            BY <1>2, <3>0, <6>1, <6>2
        <5>2. CASE ~mb
          BY Zenon, <1>7, <2>3, <3>1, <5>2
        <5> QED
          BY Zenon, <5>1, <5>2
      <4>2. new + xBlockSize[new] <= c
        BY Zenon, <1>2, <1>21, <1>24, <3>0, <4>1
      <4>3. ma => nx < c
        BY <1>3, <1>8, <1>f, <3>0, <4>2
      <4>4. ma => nx + xBlockSize[nx] <= c
        BY Zenon, <1>1, <1>8, <1>21, <1>24, <3>0, <4>3
      <4>5. e <= c
        BY Zenon, <1>f, <4>2, <4>4
      <4> QED
        BY Zenon, <1>12, <1>13, <3>1, <4>5
    <3>2. CASE a # b
      BY Zenon, <1>1, <1>13, <1>14, <1>21, <2>3, <3>0, <3>2
    <3> QED
      BY Zenon, <3>1, <3>2
  <2> QED
    BY Zenon, <2>1, <2>2, <2>3 DEF BlocksTile
<1>33. FreeListOrdered'
  <2>0. /\ \A x \in FreeBlocks : x \in Nat /\ pxNextFreeBlock[x] \in FreeBlocks \cup {EndAddress}
                                 /\ x < pxNextFreeBlock[x] /\ pxNextFreeBlock[x] \in Nat
                                 /\ \A f \in FreeBlocks : x < f => pxNextFreeBlock[x] <= f
        /\ pxNextFreeBlock[xStart] \in FreeBlocks \cup {EndAddress} /\ pxNextFreeBlock[xStart] \in Nat
        /\ \A f \in FreeBlocks : pxNextFreeBlock[xStart] <= f
    BY Zenon, <1>1 DEF Structure, FreeListOrdered
  <2>1. /\ FreeBlocks \subseteq Nat /\ EndAddress \notin gone /\ b <= new /\ (it # xStart => it <= b)
        /\ it \in Nat
    <3>1. FreeBlocks \subseteq Nat /\ EndAddress \notin gone /\ it \in Nat
      BY Zenon, <1>1, <1>2, <1>10
    <3>2. CASE mb
      BY <1>6, <1>7, <3>1, <3>2
    <3>3. CASE ~mb
      BY <1>2, <1>7, <3>1, <3>3
    <3> QED
      BY Zenon, <3>1, <3>2, <3>3
  <2>2. \A f \in FreeBlocks' : b < f => f \in FreeBlocks /\ nx <= f /\ (ma => nx < f)
    <3> SUFFICES ASSUME NEW f \in FreeBlocks', b < f
                 PROVE  f \in FreeBlocks /\ nx <= f /\ (ma => nx < f)
      BY Zenon
    <3>1. f \in FreeBlocks /\ f \notin gone /\ f \in Nat
      BY <1>7, <1>15, <2>1
    <3>2. f # new
      BY Zenon, <1>2, <3>1
    <3>3. nx <= f
      <4>1. CASE f < new
        BY <1>2, <1>4, <1>6, <1>7, <3>1, <2>1, <4>1
      <4>2. CASE new < f
        BY Zenon, <1>4, <3>1, <4>2
      <4> QED
        BY SMTT(60), <1>2, <3>1, <3>2, <4>1, <4>2
    <3>4. ma => f # nx
      BY Zenon, <1>f, <3>1
    <3> QED
      BY <1>3, <3>1, <3>3, <3>4
  <2> SUFFICES ASSUME NEW x \in FreeBlocks' \cup {xStart}, NEW n, n = pxNextFreeBlock'[x]
               PROVE  /\ n \in FreeBlocks' \cup {EndAddress}
                      /\ x # xStart => x < n
                      /\ \A f \in FreeBlocks' : (x = xStart \/ x < f) => n <= f
    BY Zenon DEF FreeListOrdered
  <2>3. CASE x = b
    <3>0. x # xStart /\ b \in Nat
      BY Zenon, <1>1, <1>7, <2>3
    <3>1. CASE ma
      <4>1. n = pxNextFreeBlock[nx] /\ nx \in FreeBlocks /\ nx < n /\ n \in FreeBlocks \cup {EndAddress}
            /\ n \in Nat
        BY Zenon, <1>8, <1>11, <2>0, <2>3, <3>1
      <4>2. n \notin gone
        BY <1>2, <1>3, <1>25, <4>1
      <4>3. \A f \in FreeBlocks' : b < f => n <= f
        BY Zenon, <2>0, <2>2, <3>1, <4>1
      <4> QED
        BY SMTT(60), <1>2, <1>3, <1>15, <2>1, <2>3, <3>0, <4>1, <4>2, <4>3
    <3>2. CASE ~ma
      <4>1. n = nx
        BY Zenon, <1>11, <2>3, <3>2
      <4>2. nx \notin gone
        BY Zenon, <1>3, <1>25, <3>2
      <4> QED
        BY <1>2, <1>3, <1>15, <2>1, <2>2, <2>3, <3>0, <4>1, <4>2
    <3> QED
      BY Zenon, <3>1, <3>2
  <2>4. CASE x = it /\ it # b
    <3>1. n = b /\ b = new
      BY Zenon, <1>6, <1>7, <1>11, <2>4
    <3>2. \A f \in FreeBlocks' : (x = xStart \/ x < f) => new <= f
      <4> SUFFICES ASSUME NEW f \in FreeBlocks', x = xStart \/ x < f, f # b PROVE new <= f
        BY <1>2, <3>1
      <4>1. f \in FreeBlocks /\ f \in Nat
        BY Zenon, <1>15, <2>1
      <4>2. CASE f < new
        <5>1. it # xStart /\ f <= it
          BY Zenon, <1>4, <4>1, <4>2
        <5> QED
          BY <2>1, <2>4, <4>1, <5>1
      <4> QED
        BY <1>2, <4>1, <4>2
    <3> QED
      BY Zenon, <1>2, <1>15, <2>4, <3>1, <3>2
  <2>5. CASE x # b /\ x # it
    <3>1. x \in FreeBlocks \ gone \/ x = xStart
      BY Zenon, <1>15, <2>5
    <3>2. n = pxNextFreeBlock[x]
      BY Zenon, <1>1, <1>10, <1>11, <2>5, <3>1
    <3>3. CASE x = xStart \/ (it # xStart /\ x < it)
      <4>1. it \in FreeBlocks /\ it < new /\ it <= b
        BY Zenon, <1>2, <2>1, <2>5, <3>3
      <4>2. n <= it /\ n \in Nat /\ n \in FreeBlocks \cup {EndAddress} /\ (x # xStart => x < n)
        BY ZenonT(60), <2>0, <3>1, <3>2, <3>3, <4>1
      <4>3. n \notin gone
        BY <1>2, <1>3, <1>25, <2>1, <4>1, <4>2
      <4>4. \A f \in FreeBlocks' : (x = xStart \/ x < f) => n <= f
        <5>1. n <= b
          BY <1>7, <2>1, <4>1, <4>2
        <5>2. \A f \in FreeBlocks : (x = xStart \/ x < f) => n <= f
          BY Zenon, <2>0, <3>1, <3>2
        <5> QED
          BY Zenon, <1>15, <5>1, <5>2
      <4> QED
        BY Zenon, <1>15, <4>2, <4>3, <4>4
    <3>4. CASE x # xStart /\ (it = xStart \/ it < x)
      <4>0. x \in FreeBlocks /\ x \in Nat
        BY Zenon, <2>1, <3>1, <3>4
      <4>1. x \in FreeBlocks /\ x \in Nat /\ nx <= x
        BY Zenon, <1>2, <1>a, <2>0, <3>4, <4>0
      <4>2. n \in Nat /\ x < n /\ n \in FreeBlocks \cup {EndAddress}
        BY Zenon, <2>0, <3>2, <4>1
      <4>3. n \notin gone
        BY <1>2, <1>3, <1>25, <4>1, <4>2
      <4>4. \A f \in FreeBlocks' : x < f => n <= f
        <5>1. ~(x < b)
          BY <1>2, <1>3, <1>7, <4>1
        <5>2. \A f \in FreeBlocks : x < f => n <= f
          BY Zenon, <2>0, <3>2, <4>1
        <5> QED
          BY Zenon, <1>15, <5>1, <5>2
      <4> QED
        BY Zenon, <1>15, <3>4, <4>2, <4>3, <4>4
    <3>5. x # xStart => x \in Nat /\ (x < it \/ it < x)
      <4> SUFFICES ASSUME x # xStart PROVE x \in Nat /\ (x < it \/ it < x)
        BY Zenon
      <4>1. x \in Nat /\ it \in Nat /\ x # it
        BY Zenon, <2>1, <2>5, <3>1
      <4> QED
        BY <4>1
    <3> QED
      BY Zenon, <3>3, <3>4, <3>5
  <2> QED
    BY Zenon, <2>3, <2>4, <2>5
<1>34. Coalesced'
  <2>0. \A f \in FreeBlocks : f \in Blocks /\ f + BlockSize(f) \notin FreeBlocks
    BY Zenon, <1>1 DEF Structure, Coalesced
  <2> SUFFICES ASSUME NEW f \in FreeBlocks' PROVE f + BlockSize(f)' \notin FreeBlocks'
    BY Zenon DEF Coalesced
  <2>1. CASE f = b
    <3>1. f + BlockSize(f)' = e /\ e # b
      BY <1>2, <1>7, <1>9, <1>12, <1>13, <2>1
    <3>2. e \notin FreeBlocks
      <4>1. CASE ma
        <5>1. e = nx + BlockSize(nx)
          BY Zenon, <1>24, <1>f, <4>1
        <5> QED
          BY Zenon, <1>8, <2>0, <4>1, <5>1
      <4>2. CASE ~ma
        <5> SUFFICES ASSUME e \in FreeBlocks PROVE FALSE
          BY Zenon
        <5>1. e = new + BlockSize(new) /\ nx <= e /\ e < EndAddress
          BY SMTT(60), <1>1, <1>4, <1>9, <1>24, <1>f, <4>2
        <5>2. nx \in FreeBlocks /\ nx # e
          BY SMTT(60), <1>3, <1>20, <1>24, <4>2, <5>1
        <5>3. e <= nx
          BY Zenon, <1>1, <1>2, <1>3, <1>21, <5>1, <5>2
        <5> QED
          BY <1>3, <1>9, <5>1, <5>2, <5>3
      <4> QED
        BY Zenon, <4>1, <4>2
    <3> QED
      BY Zenon, <1>15, <3>1, <3>2
  <2>2. CASE f # b
    <3>1. f \in FreeBlocks /\ f \notin gone /\ f \in Blocks /\ f \in Nat /\ BlockSize(f)' = BlockSize(f)
      BY Zenon, <1>1, <1>13, <1>15, <2>2
    <3>2. f + BlockSize(f) # b
      <4>1. CASE mb
        BY Zenon, <1>6, <2>0, <3>1, <4>1
      <4>2. CASE ~mb
        <5> SUFFICES ASSUME f + BlockSize(f) = new PROVE FALSE
          BY Zenon, <1>7, <4>2
        <5>1. f < new
          BY SMTT(60), <1>2, <1>5, <3>1
        <5>2. it \in FreeBlocks /\ it \in Blocks /\ it < new /\ it \in Nat /\ f <= it
          BY Zenon, <1>1, <1>2, <1>4, <3>1, <5>1
        <5>3. f # it
          BY Zenon, <1>1, <1>5, <1>19, <3>1, <4>2, <5>2
        <5>4. new <= it
          BY SMTT(60), <1>21, <3>1, <5>2, <5>3
        <5> QED
          BY <1>2, <5>2, <5>4
      <4> QED
        BY Zenon, <4>1, <4>2
    <3> QED
      BY Zenon, <1>15, <2>0, <3>1, <3>2
  <2> QED
    BY Zenon, <2>1, <2>2
<1> QED
  BY Zenon, <1>16, <1>17, <1>18, <1>30, <1>31, <1>32, <1>33, <1>34 DEF Goal, Structure

\* The remainder of a split block goes on the list; the task keeps the front.
LEMMA SplitLinkKeeps ==
    ASSUME OneTask, IInv, NEW t \in Tasks, SplitLink(t)
    PROVE  IInv'
<1>0. TypeOK /\ LocalsOK(t) /\ LowWaterMark /\ (Ready => Structure)
  BY Zenon, IInvParts
<1>1. /\ Ready /\ Structure /\ Taken(t) /\ Inserting(t) /\ pc[t] = "split_insert" /\ Link(t)
      /\ request[t] \in Requests
      /\ pxBlockToInsert[t] = pxBlock[t] + xBlockSize[pxBlock[t]]
  BY ZenonT(60), <1>0 DEF SplitLink, LocalsOK
<1>2. pxBlockToInsert[t] # pxBlock[t]
  <2>1. /\ pxBlock[t] \in Cells /\ pxBlock[t] \in Nat /\ pxBlock[t] \in Addr
        /\ xBlockSize[pxBlock[t]] # 0
    BY Zenon, <1>1, Geometry DEF Taken, Blocks, Addr
  <2>2. xBlockSize[pxBlock[t]] \in Nat
    BY Zenon, <1>0, <2>1 DEF TypeOK
  <2> QED
    BY SMTT(60), <1>1, <2>1, <2>2
<1>3. Held(t) = {pxBlock[t], pxBlockToInsert[t]} /\ Held(t)' = {pxBlock[t]}
  BY Zenon, <1>0, <1>1 DEF SplitLink, Held, TypeOK
<1>4. Held(t)' = Held(t) \ {pxBlockToInsert[t]} /\ pxBlockToInsert[t] \in Held(t)
  BY <1>2, <1>3
<1>5. pxEnd' = pxEnd /\ live' = live /\ UNCHANGED stats
  BY Zenon DEF SplitLink
<1>6. /\ Structure'
      /\ xBlockSize' \in [Addr -> Nat] /\ pxNextFreeBlock' \in [Addr -> Cells \cup {NULL}]
      /\ \A a \in Blocks : (a # pxBlockToInsert[t] /\ a \notin FreeBlocks) =>
             a \in Blocks' /\ xBlockSize'[a] = xBlockSize[a]
  BY ZenonT(60), <1>0, <1>1, <1>4, <1>5, LinkKeeps
<1>7. TypeOK'
  BY Zenon, <1>0, <1>5, <1>6 DEF TypeOK, SplitLink, stats, NULL
<1>8. pxBlock[t] \in Blocks' /\ xBlockSize'[pxBlock[t]] = xBlockSize[pxBlock[t]]
  <2>1. pxBlock[t] \notin FreeBlocks /\ pxBlock[t] \in Blocks
    BY ZenonT(60), <1>1, <1>3, FreeBlocksOneTask DEF Taken
  <2> QED
    BY Zenon, <1>2, <1>6, <2>1
<1>9. Taken(t)'
  BY ZenonT(60), <1>1, <1>8 DEF Taken, SplitLink, IsAllocated
<1>10. LocalsOK(t)'
  BY Zenon, <1>0, <1>1, <1>5, <1>9 DEF LocalsOK, SplitLink, TypeOK, Ready
<1>11. LowWaterMark'
  BY Zenon, <1>0, <1>5 DEF LowWaterMark, stats
<1> QED
  BY ZenonT(60), <1>1, <1>5, <1>6, <1>7, <1>10, <1>11, IInvFromParts DEF Ready

\* The block given up by PortFree goes on the list.
LEMMA FreeLinkKeeps ==
    ASSUME OneTask, IInv, NEW t \in Tasks, FreeLink(t)
    PROVE  IInv'
<1>0. TypeOK /\ LocalsOK(t) /\ LowWaterMark /\ (Ready => Structure)
  BY Zenon, IInvParts
<1>1. Ready /\ Structure /\ Inserting(t) /\ pc[t] = "free_insert" /\ Link(t)
  BY Zenon, <1>0 DEF FreeLink, LocalsOK
<1>2. Held(t) = {pxBlockToInsert[t]} /\ Held(t)' = {}
  BY Zenon, <1>0, <1>1 DEF FreeLink, Return, Held, TypeOK
<1>3. Held(t)' = Held(t) \ {pxBlockToInsert[t]} /\ pxBlockToInsert[t] \in Held(t)
  BY Zenon, <1>2
<1>4. pxEnd' = pxEnd /\ live' = live
  BY Zenon DEF FreeLink
<1>5. /\ Structure'
      /\ xBlockSize' \in [Addr -> Nat] /\ pxNextFreeBlock' \in [Addr -> Cells \cup {NULL}]
  BY ZenonT(60), <1>0, <1>1, <1>3, <1>4, LinkKeeps
<1>6. TypeOK'
  BY SMTT(60), <1>0, <1>5 DEF TypeOK, FreeLink, Return, NULL
<1>7. LocalsOK(t)'
  BY Zenon, <1>0 DEF LocalsOK, FreeLink, Return, TypeOK
<1>8. LowWaterMark'
  BY Zenon, <1>0 DEF LowWaterMark, FreeLink
<1> QED
  BY Zenon, <1>1, <1>4, <1>5, <1>6, <1>7, <1>8, IInvFromParts DEF Ready

(***************************************************************************)
(* The theorems.                                                           *)
(***************************************************************************)
\* The heap of heap_cfg, not initialised yet, satisfies the invariant.
LEMMA InitEstablishes == Init => IInv
<1> SUFFICES ASSUME Init PROVE IInv
  BY Zenon
<1>1. TypeOK
  BY Geometry DEF Init, TypeOK, NULL
<1>2. \A t \in Tasks : LocalsOK(t)
  BY Zenon DEF Init, LocalsOK
<1> QED
  BY <1>1, <1>2 DEF Init, IInv, Ready, LowWaterMark

\* Every step of the task keeps the invariant.
LEMMA StepKeeps == ASSUME OneTask PROVE IInv /\ [Next]_vars => IInv'
<1> SUFFICES ASSUME IInv, [Next]_vars PROVE IInv'
  BY Zenon
<1>1. ASSUME NEW t \in Tasks, Running(t) PROVE IInv'
  <2>1. CASE HeapInit(t)
    BY Zenon, <2>1, HeapInitKeeps
  <2>2. CASE MallocRefused(t)
    BY Zenon, <2>2, ReturnKeeps DEF MallocRefused
  <2>3. CASE MallocSearch(t)
    BY Zenon, <2>3, MallocSearchKeeps
  <2>4. CASE SearchNext(t)
    BY Zenon, <2>4, SearchNextKeeps
  <2>5. CASE SearchFail(t)
    BY Zenon, <2>5, ReturnKeeps DEF SearchFail
  <2>6. CASE TakeWhole(t)
    BY Zenon, <2>6, TakeWholeKeeps
  <2>7. CASE TakeAndSplit(t)
    BY Zenon, <2>7, TakeAndSplitKeeps
  <2>8. CASE AllocDone(t)
    BY Zenon, <2>8, AllocDoneKeeps
  <2>9. CASE InsertScan(t)
    BY Zenon, <2>9, InsertScanKeeps
  <2>10. CASE SplitLink(t)
    BY Zenon, <2>10, SplitLinkKeeps
  <2>11. CASE FreeLink(t)
    BY Zenon, <2>11, FreeLinkKeeps
  <2> QED
    BY Zenon, <1>1, <2>1, <2>2, <2>3, <2>4, <2>5, <2>6, <2>7, <2>8, <2>9, <2>10, <2>11 DEF Running
<1>2. ASSUME NEW t \in Tasks, MallocOrFree(t) PROVE IInv'
  BY Zenon, <1>2, MallocCallKeeps, PortFreeKeeps DEF MallocOrFree
<1>3. ASSUME NEW t \in Tasks, Reinit(t) PROVE IInv'
  BY Zenon, <1>3, ReinitKeeps
<1>4. CASE UNCHANGED vars
  <2>1. UNCHANGED <<pxNextFreeBlock, xBlockSize, pxEnd, live, pc, request, xWantedSize, pxPreviousBlock,
                    pxBlock, pvReturn, pxBlockToInsert, pxIterator>> /\ UNCHANGED stats
    BY Zenon, <1>4 DEF vars, memory, locals
  <2>2. TypeOK' = TypeOK /\ LowWaterMark' = LowWaterMark
    BY Zenon, <2>1 DEF TypeOK, LowWaterMark, stats
  <2>3. /\ \A b : BlockSize(b)' = BlockSize(b) /\ IsAllocated(b)' = IsAllocated(b)
        /\ Blocks' = Blocks /\ FreeBlocks' = FreeBlocks
    BY Zenon, <2>1 DEF BlockSize, IsAllocated, Blocks, FreeBlocks, Held
  <2>4. \A t \in Tasks : LocalsOK(t)' = LocalsOK(t)
    BY ZenonT(60), <2>1, <2>3 DEF LocalsOK, AtSearch, Taken, Inserting, Ready
  <2>5. /\ SizesOK' = SizesOK /\ LiveOK' = LiveOK /\ BlocksTile' = BlocksTile
        /\ FreeListOrdered' = FreeListOrdered /\ Coalesced' = Coalesced
    BY Zenon, <2>1, <2>3 DEF SizesOK, LiveOK, BlocksTile, FreeListOrdered, Coalesced, Ready
  <2> QED
    BY Zenon, <2>1, <2>2, <2>4, <2>5 DEF IInv, Ready
<1> QED
  BY Zenon, <1>1, <1>2, <1>3, <1>4 DEF Next

\* The inductive invariant holds in every reachable state, whatever the size and the
\* position of the array, when one task uses the heap.
THEOREM HeapIsWellFormed == ASSUME OneTask PROVE Spec => []IInv
BY InitEstablishes, StepKeeps, PTL DEF Spec

-----------------------------------------------------------------------------
\* Consequences of the invariant.

\* The invariant keeps the chunks apart from each other and from the list.
LEMMA Disjointness == ASSUME IInv PROVE ChunksDisjoint /\ ChunksOffTheList /\ FreeAssertsHold
<1>0. CASE ~Ready
  BY Zenon, <1>0 DEF IInv, Ready, ChunksDisjoint, ChunksOffTheList, FreeAssertsHold
<1>1. CASE Ready
  <2>1. TypeOK /\ SizesOK /\ LiveOK /\ BlocksTile
    BY Zenon, <1>1 DEF IInv
  <2>2. \A c \in live : /\ c.ptr \in Nat /\ c.len \in Nat
                        /\ c.ptr - 8 \in Blocks /\ c.ptr - 8 \in Nat /\ (c.ptr - 8) % 4 = 0
                        /\ pucAlignedHeap <= c.ptr - 8
                        /\ c.ptr + c.len <= (c.ptr - 8) + BlockSize(c.ptr - 8)
                        /\ BlockSize(c.ptr - 8) \in Nat
    <3> SUFFICES ASSUME NEW c \in live
                 PROVE  /\ c.ptr \in Nat /\ c.len \in Nat
                        /\ c.ptr - 8 \in Blocks /\ c.ptr - 8 \in Nat /\ (c.ptr - 8) % 4 = 0
                        /\ pucAlignedHeap <= c.ptr - 8
                        /\ c.ptr + c.len <= (c.ptr - 8) + BlockSize(c.ptr - 8)
                        /\ BlockSize(c.ptr - 8) \in Nat
      BY Zenon
    <3>1. c.ptr \in Nat /\ c.len \in Nat
      BY Zenon, <2>1 DEF TypeOK, Chunks
    <3>2. c.ptr - 8 \in Blocks /\ c.len + 8 <= BlockSize(c.ptr - 8) /\ IsAllocated(c.ptr - 8)
      BY Zenon, <2>1 DEF LiveOK, xHeapStructSize
    <3>3. c.ptr - 8 \in Nat /\ (c.ptr - 8) % 4 = 0 /\ pucAlignedHeap <= c.ptr - 8 /\ c.ptr - 8 \in Addr
      BY Zenon, <3>2, Geometry DEF Blocks, Addr
    <3>4. BlockSize(c.ptr - 8) \in Nat
      BY <2>1, <3>2, <3>3, Geometry DEF TypeOK, BlockSize, IsAllocated
    <3> QED
      BY <3>1, <3>2, <3>3, <3>4
  <2>3. \A c \in live : \A b \in Blocks :
            b # c.ptr - 8 => c.ptr + c.len <= b \/ b + BlockSize(b) <= c.ptr - 8
    <3> SUFFICES ASSUME NEW c \in live, NEW b \in Blocks, b # c.ptr - 8
                 PROVE  c.ptr + c.len <= b \/ b + BlockSize(b) <= c.ptr - 8
      BY Zenon
    <3>1. b \in Nat
      BY Zenon, Geometry DEF Blocks
    <3>2. CASE b < c.ptr - 8
      BY Zenon, <1>1, <2>1, <2>2, <3>2 DEF BlocksTile
    <3>3. CASE c.ptr - 8 < b
      <4>1. (c.ptr - 8) + BlockSize(c.ptr - 8) <= b
        BY Zenon, <1>1, <2>1, <2>2, <3>3 DEF BlocksTile
      <4> QED
        BY <2>2, <3>1, <4>1
    <3> QED
      BY <2>2, <3>1, <3>2, <3>3
  <2>4. \A b \in Blocks : b \in Nat /\ BlockSize(b) \in Nat
    BY <2>1, Geometry DEF TypeOK, BlockSize, IsAllocated, Blocks, Addr
  <2>5. ChunksOffTheList
    BY <2>2, <2>3, <2>4 DEF ChunksOffTheList, xHeapStructSize
  <2>6. FreeAssertsHold
    BY Zenon, <2>1 DEF FreeAssertsHold, LiveOK
  <2>7. ChunksDisjoint
    <3> SUFFICES ASSUME NEW c \in live
                 PROVE  /\ c.ptr % 4 = 0 /\ c.ptr >= pucAlignedHeap + 8 /\ c.ptr + c.len <= EndAddress
                        /\ \A d \in live \ {c} : c.ptr + c.len <= d.ptr \/ d.ptr + d.len <= c.ptr
      BY Zenon DEF ChunksDisjoint, portBYTE_ALIGNMENT, xHeapStructSize
    <3>1. c.ptr % 4 = 0 /\ c.ptr >= pucAlignedHeap + 8
      BY <2>2, Geometry
    <3>2. c.ptr + c.len <= EndAddress
      <4>1. (c.ptr - 8) + BlockSize(c.ptr - 8) <= EndAddress
        BY Zenon, <2>1, <2>2 DEF SizesOK
      <4> QED
        BY <2>2, <4>1, Geometry
    <3>3. ASSUME NEW d \in live \ {c} PROVE c.ptr + c.len <= d.ptr \/ d.ptr + d.len <= c.ptr
      <4>1. d.ptr - 8 # c.ptr - 8
        <5>1. d.ptr # c.ptr
          BY Zenon, <2>1 DEF LiveOK
        <5> QED
          BY <2>2, <5>1
      <4>2. c.ptr + c.len <= d.ptr - 8 \/ (d.ptr - 8) + BlockSize(d.ptr - 8) <= c.ptr - 8
        BY Zenon, <2>2, <2>3, <4>1
      <4> QED
        BY <2>2, <4>2
    <3> QED
      BY Zenon, <3>1, <3>2, <3>3
  <2> QED
    BY Zenon, <2>5, <2>6, <2>7
<1> QED
  BY Zenon, <1>0, <1>1

\* The invariant leaves one block when every chunk has been freed.
LEMMA OneBlock == ASSUME IInv PROVE AllFreedIsOneBlock
<1> SUFFICES ASSUME Ready, Idle, live = {}
             PROVE  /\ FreeBlocks = {pucAlignedHeap}
                    /\ xBlockSize[pucAlignedHeap] = EndAddress - pucAlignedHeap
  BY Zenon DEF AllFreedIsOneBlock
<1>1. TypeOK /\ SizesOK /\ LiveOK /\ BlocksTile /\ Coalesced
  BY Zenon DEF IInv
<1>2. FreeBlocks = Blocks
  <2>1. \A b \in Blocks : ~IsAllocated(b)
    BY Zenon, <1>1 DEF LiveOK
  <2>2. \A t \in Tasks : Held(t) = {}
    BY Zenon DEF Idle, Held
  <2> QED
    BY Zenon, <2>1, <2>2 DEF FreeBlocks
<1>3. pucAlignedHeap \in Blocks /\ \A b \in Blocks : pucAlignedHeap <= b /\ b \in Nat
  BY Zenon, <1>1, Geometry DEF BlocksTile, Blocks
<1>4. BlockSize(pucAlignedHeap) = xBlockSize[pucAlignedHeap] /\ xBlockSize[pucAlignedHeap] \in Nat
  BY Zenon, <1>1, <1>2, <1>3, Geometry DEF FreeBlocks, BlockSize, TypeOK, Addr
<1>5. pucAlignedHeap + xBlockSize[pucAlignedHeap] = EndAddress
  BY Zenon, <1>1, <1>2, <1>3, <1>4 DEF BlocksTile, Coalesced
<1>6. ASSUME NEW b \in Blocks, b # pucAlignedHeap PROVE FALSE
  <2>1. EndAddress <= b
    BY SMTT(60), <1>1, <1>3, <1>4, <1>5, <1>6, Geometry DEF BlocksTile
  <2>2. BlockSize(b) > 0 /\ b + BlockSize(b) <= EndAddress /\ BlockSize(b) \in Nat
    <3>1. xBlockSize[b] \in Nat /\ ~IsAllocated(b)
      BY Zenon, <1>1, <1>2 DEF TypeOK, FreeBlocks, Blocks, Addr
    <3> QED
      BY Zenon, <1>1, <3>1 DEF SizesOK, BlockSize
  <2> QED
    BY <1>3, <2>1, <2>2, Geometry
<1>7. Blocks = {pucAlignedHeap}
  BY Zenon, <1>3, <1>6
<1>8. xBlockSize[pucAlignedHeap] = EndAddress - pucAlignedHeap
  BY <1>4, <1>5, Geometry
<1> QED
  BY Zenon, <1>2, <1>7, <1>8

\* PortMalloc never hands out the same byte twice, nor a byte of the free list, and
\* the assertions of PortFree hold for every chunk: for one task, any array and any
\* request sizes.
THEOREM ChunksAreSafe ==
    ASSUME OneTask PROVE Spec => []ChunksSafe
<1>1. IInv => ChunksSafe
  BY Zenon, Disjointness DEF ChunksSafe
<1> QED
  BY <1>1, HeapIsWellFormed, PTL

\* No byte is lost, the list is ordered and complete, and free neighbours are merged.
THEOREM FreeListIsSound ==
    ASSUME OneTask PROVE Spec => [](TypeOK /\ FreeListSound)
<1>1. IInv => TypeOK /\ FreeListSound
  BY Zenon DEF IInv, FreeListSound, BlocksTile, FreeListOrdered, Coalesced
<1> QED
  BY <1>1, HeapIsWellFormed, PTL

\* When the application holds nothing, the heap is one block again: the allocator
\* leaves no fragmentation behind.
THEOREM FreedHeapIsWhole == ASSUME OneTask PROVE Spec => []AllFreedIsOneBlock
BY HeapIsWellFormed, OneBlock, PTL

\* The search takes the lowest block that is large enough.
THEOREM FirstFit == ASSUME OneTask PROVE Spec => TakesFirstFit
<1> DEFINE A == \A t \in Tasks :
         (pc[t] = "search" /\ pc'[t] \in {"split_insert", "alloc_done"})
             => \A b \in FreeBlocks : b < pxBlock[t] => xBlockSize[b] < xWantedSize[t]
<1>1. IInv => A
  BY Zenon DEF IInv, LocalsOK, AtSearch
<1>2. Spec => [][A]_vars
  BY <1>1, HeapIsWellFormed, PTL
<1> QED
  BY Zenon, <1>2 DEF TakesFirstFit
=============================================================================

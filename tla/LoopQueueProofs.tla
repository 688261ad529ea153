-------------------------- MODULE LoopQueueProofs --------------------------
(***************************************************************************)
(* The ring buffer implements the bounded first-in first-out queue, with   *)
(* one thread or with two and no lock, for an array of any length.         *)
(***************************************************************************)
EXTENDS LoopQueue, TLAPS

\* How far index b is ahead of index a.
Dist(a, b) == IF b >= a THEN b - a ELSE (max - a) + b

\* Which thread is inside which call, and where in it.
Adder(t) ==
    /\ t = producer
    /\ \/ pc[t] \in {"compare", "subtract", "write", "advance"} /\ op[t] = "add"
       \/ pc[t] \in {"write", "advance", "bump"} /\ op[t] = "force" /\ producer = Consumer

Remover(t) ==
    /\ t = Consumer
    /\ \/ pc[t] \in {"compare", "subtract"} /\ op[t] \in {"get", "inspect", "delete"}
       \/ pc[t] = "copy" /\ op[t] \in {"get", "inspect"}
       \/ pc[t] = "drop" /\ op[t] \in {"get", "delete"}
       \/ pc[t] = "delete_all" /\ op[t] = "none"

Role(t) == (pc[t] = "idle" /\ op[t] = "none") \/ Adder(t) \/ Remover(t)

\* What a loop still has to do fits into the queue, and what a thread has measured
\* stays true enough for it, whatever the other thread does.
Fit(t) ==
    /\ pc[t] \in {"write", "advance"} /\ op[t] = "add" =>
          left[t] <= max - 1 - Dist(head, end)
    /\ pc[t] \in {"copy", "drop"} => left[t] <= Dist(head, end)
    /\ pc[t] \in {"write", "advance", "bump", "copy", "drop"} => left[t] >= 1
    /\ pc[t] = "subtract" /\ op[t] = "add" /\ ahead[t] => end >= head
    /\ pc[t] = "subtract" /\ op[t] # "add" /\ ~ahead[t] => end < head
    /\ pc[t] = "delete_all" =>
          ask[t] \in Slots /\ Dist(ask[t], end) <= Dist(head, end)

\* What is being added is a value, and is in its slot before end moves over it.
Holds(t) ==
    /\ op[t] \in {"add", "force"} => data \in Values
    /\ pc[t] = "advance" => queue[end] = data

\* What the last inspection saw is still there.
StillThere ==
    /\ inspected <= IF pc[producer] = "bump" /\ head = end THEN max - 1 ELSE Dist(head, end)
    /\ op[Consumer] \in {"get", "delete"} \/ pc[Consumer] = "delete_all" => inspected <= 0

QueueInv ==
    /\ TypeOK
    /\ \A t \in Threads : Role(t) /\ Fit(t) /\ Holds(t)
    /\ StillThere

-----------------------------------------------------------------------------
(* Indices. *)

\* The next index, without the remainder.
LEMMA NextIs ==
    ASSUME QueueAssumption, NEW i \in Slots
    PROVE  NextIndex(i) = IF i = max - 1 THEN 0 ELSE i + 1
<1>1. max \in Nat /\ max >= 2 /\ i \in 0 .. max - 1
  BY Zenon DEF QueueAssumption, Slots
<1>2. CASE i = max - 1
  BY <1>1, <1>2 DEF NextIndex
<1>3. CASE i # max - 1
  <2>1. i + 1 \in 0 .. max - 1
    BY <1>1, <1>3
  <2>. QED  BY <1>1, <1>3, <2>1 DEF NextIndex
<1>. QED  BY Zenon, <1>2, <1>3

\* The next index is an index.
LEMMA NextInSlots ==
    ASSUME QueueAssumption, NEW i \in Slots
    PROVE  NextIndex(i) \in Slots
BY NextIs DEF QueueAssumption, Slots

\* The ring is empty at distance 0 and full at distance max - 1.
LEMMA DistRange ==
    ASSUME QueueAssumption, NEW a \in Slots, NEW b \in Slots
    PROVE  /\ Dist(a, b) \in Int /\ 0 <= Dist(a, b) /\ Dist(a, b) <= max - 1
           /\ Dist(a, b) = 0 <=> a = b
           /\ Dist(a, b) = max - 1 <=> NextIndex(b) = a
BY NextIs DEF QueueAssumption, Slots, Dist

\* Moving end on adds one to the distance, and does not let end pass head.
LEMMA DistAdd ==
    ASSUME QueueAssumption, NEW a \in Slots, NEW b \in Slots, Dist(a, b) < max - 1
    PROVE  Dist(a, NextIndex(b)) = Dist(a, b) + 1 /\ (b < a => NextIndex(b) < a)
BY NextIs DEF QueueAssumption, Slots, Dist

\* Moving head on takes one from the distance, and does not let head pass end.
LEMMA DistDrop ==
    ASSUME QueueAssumption, NEW a \in Slots, NEW b \in Slots, a # b
    PROVE  Dist(NextIndex(a), b) = Dist(a, b) - 1 /\ (b >= a => b >= NextIndex(a))
BY NextIs DEF QueueAssumption, Slots, Dist
-----------------------------------------------------------------------------
(* The loop of a call. *)

LoopTypeOK ==
    /\ pc \in [Threads -> {"idle", "compare", "subtract", "write", "advance", "bump",
                           "copy", "drop", "delete_all"}]
    /\ op \in [Threads -> {"none", "add", "force", "get", "inspect", "delete"}]
    /\ left \in [Threads -> Nat]

\* Entering a loop keeps the types.
LEMMA EnterType ==
    ASSUME TypeOK, NEW t \in Threads, NEW o \in {"add", "force", "get", "inspect", "delete"},
           NEW n \in Int, Enter(t, o, n)
    PROVE  LoopTypeOK'
<1>1. LoopStart(o) \in {"write", "copy", "drop"}
  BY Zenon DEF LoopStart
<1>2. pc' \in [Threads -> {"idle", "compare", "subtract", "write", "advance", "bump",
                           "copy", "drop", "delete_all"}]
  BY Zenon, <1>1 DEF TypeOK, Enter
<1>3. op' \in [Threads -> {"none", "add", "force", "get", "inspect", "delete"}]
  BY Zenon DEF TypeOK, Enter
<1>4. left' \in [Threads -> Nat]
  BY DEF TypeOK, Enter
<1>. QED  BY Zenon, <1>2, <1>3, <1>4 DEF LoopTypeOK, Threads

\* Ending a turn keeps the types.
LEMMA EndTurnType ==
    ASSUME TypeOK, NEW t \in Threads, left[t] >= 1,
           LoopStart(op[t]) \in {"write", "copy", "drop"}, EndTurn(t)
    PROVE  LoopTypeOK'
<1>1. pc' \in [Threads -> {"idle", "compare", "subtract", "write", "advance", "bump",
                           "copy", "drop", "delete_all"}]
  BY Zenon DEF TypeOK, EndTurn
<1>2. op' \in [Threads -> {"none", "add", "force", "get", "inspect", "delete"}]
  BY Zenon DEF TypeOK, EndTurn
<1>3. left' \in [Threads -> Nat]
  BY DEF TypeOK, EndTurn
<1>. QED  BY Zenon, <1>1, <1>2, <1>3 DEF LoopTypeOK, Threads

\* AddOne keeps the invariant.
LEMMA AddOneKeeps ==
    ASSUME QueueAssumption, QueueInv, UNCHANGED producer,
           NEW v \in Values, AddOne(v)
    PROVE  QueueInv'
<1> USE DEF Slots, lq
<1>1. /\ TypeOK /\ producer \in Threads /\ producer \in Threads /\ Consumer \in Threads
      /\ Role(producer) /\ Fit(producer) /\ Holds(producer) /\ StillThere
      /\ Role(producer) /\ Role(Consumer) /\ head \in Slots /\ end \in Slots
      /\ max \in Nat /\ max >= 2 /\ MaxMulti \in Nat
  BY Zenon DEF QueueAssumption, QueueInv, Threads, TypeOK
<1>2. /\ Dist(head, end) \in Int /\ 0 <= Dist(head, end) /\ Dist(head, end) <= max - 1
      /\ Dist(head, end) = 0 <=> head = end
      /\ Dist(head, end) = max - 1 <=> NextIndex(end) = head
  BY Zenon, <1>1, DistRange
<1>3. pc[producer] = "idle"
  BY Zenon, <1>1 DEF TypeOK, Role, Adder, Remover, Fit, StillThere, AddOne, IsFull, Enter, LoopStart
<1>4. LoopTypeOK'
  BY <1>1, <1>2, <1>3, EnterType DEF AddOne, IsFull
<1>5. TypeOK'
  BY Zenon, <1>1, <1>2, <1>3, <1>4
     DEF TypeOK, AddOne, IsFull, LoopTypeOK
<1>6. ASSUME NEW u \in Threads PROVE Role(u)' /\ Fit(u)' /\ Holds(u)'
  <2>1. Role(u) /\ Fit(u) /\ Holds(u)
    BY Zenon DEF QueueInv
  <2>2. Role(u)'
    BY Zenon, <1>1, <1>2, <1>3, <2>1
       DEF TypeOK, Role, Adder, Remover, AddOne, IsFull, Enter, LoopStart
  <2>3. Fit(u)'
    <3>1. CASE u = producer
      BY SMTT(60), <1>1, <1>2, <1>3, <3>1
         DEF TypeOK, Role, Adder, Remover, Fit, AddOne, IsFull, Enter, LoopStart
    <3>2. CASE u # producer
      BY <1>1, <1>2, <1>3, <2>1, <3>2
         DEF TypeOK, Role, Adder, Remover, Fit, AddOne, IsFull, Enter, LoopStart
    <3>. QED  BY Zenon, <3>1, <3>2
  <2>4. Holds(u)'
    BY Zenon, <1>1, <1>2, <1>3, <2>1
       DEF TypeOK, Role, Adder, Remover, Holds, AddOne, IsFull, Enter, LoopStart
  <2>. QED  BY Zenon, <2>2, <2>3, <2>4
<1>7. StillThere'
  BY Zenon, <1>1, <1>2, <1>3
     DEF TypeOK, Role, Adder, Remover, StillThere, AddOne, IsFull, Enter, LoopStart
<1>. QED  BY Zenon, <1>5, <1>6, <1>7 DEF QueueInv, Threads

\* ForceAdd keeps the invariant.
LEMMA ForceAddKeeps ==
    ASSUME QueueAssumption, QueueInv, UNCHANGED producer,
           NEW v \in Values, NEW n \in 0 .. MaxMulti, ForceAdd(v, n)
    PROVE  QueueInv'
<1> USE DEF Slots, lq
<1>1. /\ TypeOK /\ producer \in Threads /\ producer \in Threads /\ Consumer \in Threads
      /\ Role(producer) /\ Fit(producer) /\ Holds(producer) /\ StillThere
      /\ Role(producer) /\ Role(Consumer) /\ head \in Slots /\ end \in Slots
      /\ max \in Nat /\ max >= 2 /\ MaxMulti \in Nat
  BY Zenon DEF QueueAssumption, QueueInv, Threads, TypeOK
<1>2. /\ Dist(head, end) \in Int /\ 0 <= Dist(head, end) /\ Dist(head, end) <= max - 1
      /\ Dist(head, end) = 0 <=> head = end
      /\ Dist(head, end) = max - 1 <=> NextIndex(end) = head
  BY Zenon, <1>1, DistRange
<1>3. pc[producer] = "idle"
  BY Zenon, <1>1 DEF TypeOK, Role, Adder, Remover, Fit, StillThere, ForceAdd, Enter, LoopStart
<1>4. LoopTypeOK'
  BY <1>1, <1>2, <1>3, EnterType DEF ForceAdd
<1>5. TypeOK'
  BY Zenon, <1>1, <1>2, <1>3, <1>4
     DEF TypeOK, ForceAdd, LoopTypeOK
<1>6. ASSUME NEW u \in Threads PROVE Role(u)' /\ Fit(u)' /\ Holds(u)'
  <2>1. Role(u) /\ Fit(u) /\ Holds(u)
    BY Zenon DEF QueueInv
  <2>2. Role(u)'
    BY Zenon, <1>1, <1>2, <1>3, <2>1
       DEF TypeOK, Role, Adder, Remover, ForceAdd, Enter, LoopStart
  <2>3. Fit(u)'
    <3>1. CASE u = producer
      BY <1>1, <1>2, <1>3, <3>1
         DEF TypeOK, Role, Adder, Remover, Fit, ForceAdd, Enter, LoopStart
    <3>2. CASE u # producer
      BY Zenon, <1>1, <1>2, <1>3, <2>1, <3>2
         DEF TypeOK, Role, Adder, Remover, Fit, ForceAdd, Enter, LoopStart
    <3>. QED  BY Zenon, <3>1, <3>2
  <2>4. Holds(u)'
    BY Zenon, <1>1, <1>2, <1>3, <2>1
       DEF TypeOK, Role, Adder, Remover, Holds, ForceAdd, Enter, LoopStart
  <2>. QED  BY Zenon, <2>2, <2>3, <2>4
<1>7. StillThere'
  BY Zenon, <1>1, <1>2, <1>3
     DEF TypeOK, Role, Adder, Remover, StillThere, ForceAdd, Enter, LoopStart
<1>. QED  BY Zenon, <1>5, <1>6, <1>7 DEF QueueInv, Threads

\* AddMulti keeps the invariant.
LEMMA AddMultiKeeps ==
    ASSUME QueueAssumption, QueueInv, UNCHANGED producer,
           NEW v \in Values, NEW n \in 0 .. MaxMulti, AddMulti(v, n)
    PROVE  QueueInv'
<1> USE DEF Slots, lq
<1>1. /\ TypeOK /\ producer \in Threads /\ producer \in Threads /\ Consumer \in Threads
      /\ Role(producer) /\ Fit(producer) /\ Holds(producer) /\ StillThere
      /\ Role(producer) /\ Role(Consumer) /\ head \in Slots /\ end \in Slots
      /\ max \in Nat /\ max >= 2 /\ MaxMulti \in Nat
  BY Zenon DEF QueueAssumption, QueueInv, Threads, TypeOK
<1>2. /\ Dist(head, end) \in Int /\ 0 <= Dist(head, end) /\ Dist(head, end) <= max - 1
      /\ Dist(head, end) = 0 <=> head = end
      /\ Dist(head, end) = max - 1 <=> NextIndex(end) = head
  BY Zenon, <1>1, DistRange
<1>3. pc[producer] = "idle"
  BY Zenon, <1>1 DEF TypeOK, Role, Adder, Remover, Fit, StillThere, AddMulti, Measured
<1>4. TypeOK'
  BY <1>1, <1>2, <1>3
     DEF TypeOK, AddMulti, Measured
<1>5. ASSUME NEW u \in Threads PROVE Role(u)' /\ Fit(u)' /\ Holds(u)'
  <2>1. Role(u) /\ Fit(u) /\ Holds(u)
    BY Zenon DEF QueueInv
  <2>2. Role(u)'
    BY Zenon, <1>1, <1>2, <1>3, <2>1
       DEF TypeOK, Role, Adder, Remover, AddMulti, Measured
  <2>3. Fit(u)'
    <3>1. CASE u = producer
      BY Zenon, <1>1, <1>2, <1>3, <3>1
         DEF TypeOK, Role, Adder, Remover, Fit, AddMulti, Measured
    <3>2. CASE u # producer
      BY ZenonT(60), <1>1, <1>2, <1>3, <2>1, <3>2
         DEF TypeOK, Role, Adder, Remover, Fit, AddMulti, Measured
    <3>. QED  BY Zenon, <3>1, <3>2
  <2>4. Holds(u)'
    BY Zenon, <1>1, <1>2, <1>3, <2>1
       DEF TypeOK, Role, Adder, Remover, Holds, AddMulti, Measured
  <2>. QED  BY Zenon, <2>2, <2>3, <2>4
<1>6. StillThere'
  BY Zenon, <1>1, <1>2, <1>3
     DEF TypeOK, Role, Adder, Remover, StillThere, AddMulti, Measured
<1>. QED  BY Zenon, <1>4, <1>5, <1>6 DEF QueueInv, Threads

\* GetOne keeps the invariant.
LEMMA GetOneKeeps ==
    ASSUME QueueAssumption, QueueInv, UNCHANGED producer,
           GetOne
    PROVE  QueueInv'
<1> USE DEF Slots, lq
<1>1. /\ TypeOK /\ Consumer \in Threads /\ producer \in Threads /\ Consumer \in Threads
      /\ Role(Consumer) /\ Fit(Consumer) /\ Holds(Consumer) /\ StillThere
      /\ Role(producer) /\ Role(Consumer) /\ head \in Slots /\ end \in Slots
      /\ max \in Nat /\ max >= 2 /\ MaxMulti \in Nat
  BY Zenon DEF QueueAssumption, QueueInv, Threads, TypeOK
<1>2. /\ Dist(head, end) \in Int /\ 0 <= Dist(head, end) /\ Dist(head, end) <= max - 1
      /\ Dist(head, end) = 0 <=> head = end
      /\ Dist(head, end) = max - 1 <=> NextIndex(end) = head
  BY Zenon, <1>1, DistRange
<1>3. pc[Consumer] = "idle"
  BY Zenon, <1>1 DEF TypeOK, Role, Adder, Remover, Fit, StillThere, GetOne, IsEmpty, Enter, LoopStart
<1>4. LoopTypeOK'
  BY <1>1, <1>2, <1>3, EnterType DEF GetOne, IsEmpty
<1>5. TypeOK'
  BY SMTT(60), <1>1, <1>2, <1>3, <1>4
     DEF TypeOK, GetOne, IsEmpty, LoopTypeOK
<1>6. ASSUME NEW u \in Threads PROVE Role(u)' /\ Fit(u)' /\ Holds(u)'
  <2>1. Role(u) /\ Fit(u) /\ Holds(u)
    BY Zenon DEF QueueInv
  <2>2. Role(u)'
    BY Zenon, <1>1, <1>2, <1>3, <2>1
       DEF TypeOK, Role, Adder, Remover, GetOne, IsEmpty, Enter, LoopStart
  <2>3. Fit(u)'
    <3>1. CASE u = Consumer
      BY <1>1, <1>2, <1>3, <3>1
         DEF TypeOK, Role, Adder, Remover, Fit, GetOne, IsEmpty, Enter, LoopStart
    <3>2. CASE u # Consumer
      BY Zenon, <1>1, <1>2, <1>3, <2>1, <3>2
         DEF TypeOK, Role, Adder, Remover, Fit, GetOne, IsEmpty, Enter, LoopStart
    <3>. QED  BY Zenon, <3>1, <3>2
  <2>4. Holds(u)'
    BY Zenon, <1>1, <1>2, <1>3, <2>1
       DEF TypeOK, Role, Adder, Remover, Holds, GetOne, IsEmpty, Enter, LoopStart
  <2>. QED  BY Zenon, <2>2, <2>3, <2>4
<1>7. StillThere'
  BY <1>1, <1>2, <1>3
     DEF TypeOK, Role, Adder, Remover, StillThere, GetOne, IsEmpty, Enter, LoopStart
<1>. QED  BY Zenon, <1>5, <1>6, <1>7 DEF QueueInv, Threads

\* A call that measures the queue before removing keeps the invariant.
LEMMA MeasureKeeps ==
    ASSUME QueueAssumption, QueueInv, UNCHANGED producer,
           NEW o \in {"get", "inspect", "delete"}, NEW n \in 0 .. MaxMulti,
           Measured(Consumer, o, n), inspected' = 0, UNCHANGED data
    PROVE  QueueInv'
<1> USE DEF Slots, lq
<1>1. /\ TypeOK /\ Consumer \in Threads /\ producer \in Threads /\ Consumer \in Threads
      /\ Role(Consumer) /\ Fit(Consumer) /\ Holds(Consumer) /\ StillThere
      /\ Role(producer) /\ Role(Consumer) /\ head \in Slots /\ end \in Slots
      /\ max \in Nat /\ max >= 2 /\ MaxMulti \in Nat
  BY Zenon DEF QueueAssumption, QueueInv, Threads, TypeOK
<1>2. /\ Dist(head, end) \in Int /\ 0 <= Dist(head, end) /\ Dist(head, end) <= max - 1
      /\ Dist(head, end) = 0 <=> head = end
      /\ Dist(head, end) = max - 1 <=> NextIndex(end) = head
  BY Zenon, <1>1, DistRange
<1>3. pc[Consumer] = "idle"
  BY Zenon, <1>1 DEF TypeOK, Role, Adder, Remover, Fit, StillThere, Measured
<1>4. TypeOK'
  BY <1>1, <1>2, <1>3
     DEF TypeOK, Measured
<1>5. ASSUME NEW u \in Threads PROVE Role(u)' /\ Fit(u)' /\ Holds(u)'
  <2>1. Role(u) /\ Fit(u) /\ Holds(u)
    BY Zenon DEF QueueInv
  <2>2. Role(u)'
    BY Zenon, <1>1, <1>2, <1>3, <2>1
       DEF TypeOK, Role, Adder, Remover, Measured
  <2>3. Fit(u)'
    <3>1. CASE u = Consumer
      BY Zenon, <1>1, <1>2, <1>3, <3>1
         DEF TypeOK, Role, Adder, Remover, Fit, Measured
    <3>2. CASE u # Consumer
      BY Zenon, <1>1, <1>2, <1>3, <2>1, <3>2
         DEF TypeOK, Role, Adder, Remover, Fit, Measured
    <3>. QED  BY Zenon, <3>1, <3>2
  <2>4. Holds(u)'
    BY Zenon, <1>1, <1>2, <1>3, <2>1
       DEF TypeOK, Role, Adder, Remover, Holds, Measured
  <2>. QED  BY Zenon, <2>2, <2>3, <2>4
<1>6. StillThere'
  BY <1>1, <1>2, <1>3
     DEF TypeOK, Role, Adder, Remover, StillThere, Measured
<1>. QED  BY Zenon, <1>4, <1>5, <1>6 DEF QueueInv, Threads

\* InspectDelete keeps the invariant.
LEMMA InspectDeleteKeeps ==
    ASSUME QueueAssumption, QueueInv, UNCHANGED producer,
           NEW n \in 0 .. MaxMulti, InspectDelete(n)
    PROVE  QueueInv'
<1> USE DEF Slots, lq
<1>1. /\ TypeOK /\ Consumer \in Threads /\ producer \in Threads /\ Consumer \in Threads
      /\ Role(Consumer) /\ Fit(Consumer) /\ Holds(Consumer) /\ StillThere
      /\ Role(producer) /\ Role(Consumer) /\ head \in Slots /\ end \in Slots
      /\ max \in Nat /\ max >= 2 /\ MaxMulti \in Nat
  BY Zenon DEF QueueAssumption, QueueInv, Threads, TypeOK
<1>2. /\ Dist(head, end) \in Int /\ 0 <= Dist(head, end) /\ Dist(head, end) <= max - 1
      /\ Dist(head, end) = 0 <=> head = end
      /\ Dist(head, end) = max - 1 <=> NextIndex(end) = head
  BY Zenon, <1>1, DistRange
<1>3. pc[Consumer] = "idle" /\ inspected <= Dist(head, end)
  BY Zenon, <1>1 DEF TypeOK, Role, Adder, Remover, Fit, StillThere, InspectDelete, Enter, LoopStart
<1>4. LoopTypeOK'
  BY <1>1, <1>2, <1>3, EnterType DEF InspectDelete
<1>5. TypeOK'
  BY SMTT(60), <1>1, <1>2, <1>3, <1>4
     DEF TypeOK, InspectDelete, LoopTypeOK
<1>6. ASSUME NEW u \in Threads PROVE Role(u)' /\ Fit(u)' /\ Holds(u)'
  <2>1. Role(u) /\ Fit(u) /\ Holds(u)
    BY Zenon DEF QueueInv
  <2>2. Role(u)'
    BY Zenon, <1>1, <1>2, <1>3, <2>1
       DEF TypeOK, Role, Adder, Remover, InspectDelete, Enter, LoopStart
  <2>3. Fit(u)'
    <3>1. CASE u = Consumer
      BY SMTT(60), <1>1, <1>2, <1>3, <3>1
         DEF TypeOK, Role, Adder, Remover, Fit, InspectDelete, Enter, LoopStart
    <3>2. CASE u # Consumer
      BY Zenon, <1>1, <1>2, <1>3, <2>1, <3>2
         DEF TypeOK, Role, Adder, Remover, Fit, InspectDelete, Enter, LoopStart
    <3>. QED  BY Zenon, <3>1, <3>2
  <2>4. Holds(u)'
    BY Zenon, <1>1, <1>2, <1>3, <2>1
       DEF TypeOK, Role, Adder, Remover, Holds, InspectDelete, Enter, LoopStart
  <2>. QED  BY Zenon, <2>2, <2>3, <2>4
<1>7. StillThere'
  BY <1>1, <1>2, <1>3
     DEF TypeOK, Role, Adder, Remover, StillThere, InspectDelete, Enter, LoopStart
<1>. QED  BY Zenon, <1>5, <1>6, <1>7 DEF QueueInv, Threads

\* DeleteAll keeps the invariant.
LEMMA DeleteAllKeeps ==
    ASSUME QueueAssumption, QueueInv, UNCHANGED producer,
           DeleteAll
    PROVE  QueueInv'
<1> USE DEF Slots, lq
<1>1. /\ TypeOK /\ Consumer \in Threads /\ producer \in Threads /\ Consumer \in Threads
      /\ Role(Consumer) /\ Fit(Consumer) /\ Holds(Consumer) /\ StillThere
      /\ Role(producer) /\ Role(Consumer) /\ head \in Slots /\ end \in Slots
      /\ max \in Nat /\ max >= 2 /\ MaxMulti \in Nat
  BY Zenon DEF QueueAssumption, QueueInv, Threads, TypeOK
<1>2. /\ Dist(head, end) \in Int /\ 0 <= Dist(head, end) /\ Dist(head, end) <= max - 1
      /\ Dist(head, end) = 0 <=> head = end
      /\ Dist(head, end) = max - 1 <=> NextIndex(end) = head
  BY Zenon, <1>1, DistRange
<1>3. pc[Consumer] = "idle"
  BY Zenon, <1>1 DEF TypeOK, Role, Adder, Remover, Fit, StillThere, DeleteAll
<1>4. Dist(end, end) = 0
  BY Zenon, <1>1, DistRange
<1>5. TypeOK'
  BY <1>1, <1>2, <1>3, <1>4
     DEF TypeOK, DeleteAll
<1>6. ASSUME NEW u \in Threads PROVE Role(u)' /\ Fit(u)' /\ Holds(u)'
  <2>1. Role(u) /\ Fit(u) /\ Holds(u)
    BY Zenon DEF QueueInv
  <2>2. Role(u)'
    BY Zenon, <1>1, <1>2, <1>3, <1>4, <2>1
       DEF TypeOK, Role, Adder, Remover, DeleteAll
  <2>3. Fit(u)'
    <3>1. CASE u = Consumer
      BY Zenon, <1>1, <1>2, <1>3, <1>4, <3>1
         DEF TypeOK, Role, Adder, Remover, Fit, DeleteAll
    <3>2. CASE u # Consumer
      BY Zenon, <1>1, <1>2, <1>3, <1>4, <2>1, <3>2
         DEF TypeOK, Role, Adder, Remover, Fit, DeleteAll
    <3>. QED  BY Zenon, <3>1, <3>2
  <2>4. Holds(u)'
    BY Zenon, <1>1, <1>2, <1>3, <1>4, <2>1
       DEF TypeOK, Role, Adder, Remover, Holds, DeleteAll
  <2>. QED  BY Zenon, <2>2, <2>3, <2>4
<1>7. StillThere'
  BY <1>1, <1>2, <1>3, <1>4
     DEF TypeOK, Role, Adder, Remover, StillThere, DeleteAll
<1>. QED  BY Zenon, <1>5, <1>6, <1>7 DEF QueueInv, Threads

\* Compare keeps the invariant.
LEMMA CompareKeeps ==
    ASSUME QueueAssumption, QueueInv, UNCHANGED producer,
           NEW t \in Threads, Compare(t)
    PROVE  QueueInv'
<1> USE DEF Slots, lq
<1>1. /\ TypeOK /\ t \in Threads /\ producer \in Threads /\ Consumer \in Threads
      /\ Role(t) /\ Fit(t) /\ Holds(t) /\ StillThere
      /\ Role(producer) /\ Role(Consumer) /\ head \in Slots /\ end \in Slots
      /\ max \in Nat /\ max >= 2 /\ MaxMulti \in Nat
  BY Zenon DEF QueueAssumption, QueueInv, Threads, TypeOK
<1>2. /\ Dist(head, end) \in Int /\ 0 <= Dist(head, end) /\ Dist(head, end) <= max - 1
      /\ Dist(head, end) = 0 <=> head = end
      /\ Dist(head, end) = max - 1 <=> NextIndex(end) = head
  BY Zenon, <1>1, DistRange
<1>3. pc[t] = "compare"
  BY Zenon, <1>1 DEF TypeOK, Role, Adder, Remover, Fit, StillThere, Compare
<1>4. ahead'[t] <=> end >= head
  BY <1>1, Zenon DEF TypeOK, Compare
<1>5. TypeOK'
  BY SMTT(60), <1>1, <1>2, <1>3, <1>4
     DEF TypeOK, Compare
<1>6. ASSUME NEW u \in Threads PROVE Role(u)' /\ Fit(u)' /\ Holds(u)'
  <2>1. Role(u) /\ Fit(u) /\ Holds(u)
    BY Zenon DEF QueueInv
  <2>2. Role(u)'
    BY Zenon, <1>1, <1>2, <1>3, <1>4, <2>1
       DEF TypeOK, Role, Adder, Remover, Compare
  <2>3. Fit(u)'
    <3>1. CASE u = t
      BY SMTT(60), <1>1, <1>2, <1>3, <1>4, <3>1
         DEF TypeOK, Role, Adder, Remover, Fit, Compare
    <3>2. CASE u # t
      BY ZenonT(60), <1>1, <1>2, <1>3, <1>4, <2>1, <3>2
         DEF TypeOK, Role, Adder, Remover, Fit, Compare
    <3>. QED  BY Zenon, <3>1, <3>2
  <2>4. Holds(u)'
    BY Zenon, <1>1, <1>2, <1>3, <1>4, <2>1
       DEF TypeOK, Role, Adder, Remover, Holds, Compare
  <2>. QED  BY Zenon, <2>2, <2>3, <2>4
<1>7. StillThere'
  BY Zenon, <1>1, <1>2, <1>3, <1>4
     DEF TypeOK, Role, Adder, Remover, StillThere, Compare
<1>. QED  BY Zenon, <1>5, <1>6, <1>7 DEF QueueInv, Threads

\* Subtract keeps the invariant.
LEMMA SubtractKeeps ==
    ASSUME QueueAssumption, QueueInv, UNCHANGED producer,
           NEW t \in Threads, Subtract(t)
    PROVE  QueueInv'
<1> USE DEF Slots, lq
<1>1. /\ TypeOK /\ t \in Threads /\ producer \in Threads /\ Consumer \in Threads
      /\ Role(t) /\ Fit(t) /\ Holds(t) /\ StillThere
      /\ Role(producer) /\ Role(Consumer) /\ head \in Slots /\ end \in Slots
      /\ max \in Nat /\ max >= 2 /\ MaxMulti \in Nat
  BY Zenon DEF QueueAssumption, QueueInv, Threads, TypeOK
<1>2. /\ Dist(head, end) \in Int /\ 0 <= Dist(head, end) /\ Dist(head, end) <= max - 1
      /\ Dist(head, end) = 0 <=> head = end
      /\ Dist(head, end) = max - 1 <=> NextIndex(end) = head
  BY Zenon, <1>1, DistRange
<1>3. pc[t] = "subtract" /\ ask[t] \in Nat /\ op[t] \in {"add", "get", "inspect", "delete"}
  BY Zenon, <1>1 DEF TypeOK, Role, Adder, Remover, Fit, StillThere, Subtract, Enter, LoopStart, NoLocals
<1>4. Smaller(ask[t], Room(t)) \in Int
  BY <1>1, <1>2, <1>3 DEF TypeOK, Room, UseLength, Smaller
<1>5. op[t] = "add" => Smaller(ask[t], Room(t)) <= max - 1 - Dist(head, end)
  BY <1>1, <1>2, <1>3, <1>4 DEF TypeOK, Fit, Room, UseLength, Smaller, Dist
<1>6. op[t] # "add" => Smaller(ask[t], Room(t)) <= Dist(head, end)
  BY SMTT(60), <1>1, <1>2, <1>3, <1>4, <1>5 DEF TypeOK, Fit, Room, UseLength, Smaller, Dist
<1>7. LoopTypeOK'
  BY Zenon, <1>1, <1>2, <1>3, <1>4, <1>5, <1>6, EnterType DEF Subtract, NoLocals
<1>8. TypeOK'
  BY Zenon, <1>1, <1>2, <1>3, <1>4, <1>5, <1>6, <1>7
     DEF TypeOK, Subtract, NoLocals, LoopTypeOK
<1>9. ASSUME NEW u \in Threads PROVE Role(u)' /\ Fit(u)' /\ Holds(u)'
  <2>1. Role(u) /\ Fit(u) /\ Holds(u)
    BY Zenon DEF QueueInv
  <2>2. Role(u)'
    BY ZenonT(60), <1>1, <1>2, <1>3, <1>4, <1>5, <1>6, <2>1
       DEF TypeOK, Role, Adder, Remover, Subtract, Enter, LoopStart, NoLocals
  <2>3. Fit(u)'
    <3>1. CASE u = t
      BY SMTT(60), <1>1, <1>2, <1>3, <1>4, <1>5, <1>6, <3>1
         DEF TypeOK, Role, Adder, Remover, Fit, Subtract, Enter, LoopStart, NoLocals
    <3>2. CASE u # t
      BY <1>1, <1>2, <1>3, <1>4, <1>5, <1>6, <2>1, <3>2
         DEF TypeOK, Role, Adder, Remover, Fit, Subtract, Enter, LoopStart, NoLocals
    <3>. QED  BY Zenon, <3>1, <3>2
  <2>4. Holds(u)'
    BY Zenon, <1>1, <1>2, <1>3, <1>4, <1>5, <1>6, <2>1
       DEF TypeOK, Role, Adder, Remover, Holds, Subtract, Enter, LoopStart, NoLocals
  <2>. QED  BY Zenon, <2>2, <2>3, <2>4
<1>10. StillThere'
  BY Zenon, <1>1, <1>2, <1>3, <1>4, <1>5, <1>6
     DEF TypeOK, Role, Adder, Remover, StillThere, Subtract, Enter, LoopStart, NoLocals
<1>. QED  BY Zenon, <1>8, <1>9, <1>10 DEF QueueInv, Threads

\* Write keeps the invariant.
LEMMA WriteKeeps ==
    ASSUME QueueAssumption, QueueInv, UNCHANGED producer,
           NEW t \in Threads, Write(t)
    PROVE  QueueInv'
<1> USE DEF Slots, lq
<1>1. /\ TypeOK /\ t \in Threads /\ producer \in Threads /\ Consumer \in Threads
      /\ Role(t) /\ Fit(t) /\ Holds(t) /\ StillThere
      /\ Role(producer) /\ Role(Consumer) /\ head \in Slots /\ end \in Slots
      /\ max \in Nat /\ max >= 2 /\ MaxMulti \in Nat
  BY Zenon DEF QueueAssumption, QueueInv, Threads, TypeOK
<1>2. /\ Dist(head, end) \in Int /\ 0 <= Dist(head, end) /\ Dist(head, end) <= max - 1
      /\ Dist(head, end) = 0 <=> head = end
      /\ Dist(head, end) = max - 1 <=> NextIndex(end) = head
  BY Zenon, <1>1, DistRange
<1>3. pc[t] = "write"
  BY Zenon, <1>1 DEF TypeOK, Role, Adder, Remover, Fit, StillThere, Write
<1>4. TypeOK'
  BY Zenon, <1>1, <1>2, <1>3
     DEF TypeOK, Write
<1>5. ASSUME NEW u \in Threads PROVE Role(u)' /\ Fit(u)' /\ Holds(u)'
  <2>1. Role(u) /\ Fit(u) /\ Holds(u)
    BY Zenon DEF QueueInv
  <2>2. Role(u)'
    BY ZenonT(60), <1>1, <1>2, <1>3, <2>1
       DEF TypeOK, Role, Adder, Remover, Write
  <2>3. Fit(u)'
    <3>1. CASE u = t
      BY Zenon, <1>1, <1>2, <1>3, <3>1
         DEF TypeOK, Role, Adder, Remover, Fit, Write
    <3>2. CASE u # t
      BY <1>1, <1>2, <1>3, <2>1, <3>2
         DEF TypeOK, Role, Adder, Remover, Fit, Write
    <3>. QED  BY Zenon, <3>1, <3>2
  <2>4. Holds(u)'
    BY Zenon, <1>1, <1>2, <1>3, <2>1
       DEF TypeOK, Role, Adder, Remover, Holds, Write
  <2>. QED  BY Zenon, <2>2, <2>3, <2>4
<1>6. StillThere'
  BY Zenon, <1>1, <1>2, <1>3
     DEF TypeOK, Role, Adder, Remover, StillThere, Write
<1>. QED  BY Zenon, <1>4, <1>5, <1>6 DEF QueueInv, Threads

\* Advance keeps the invariant.
LEMMA AdvanceKeeps ==
    ASSUME QueueAssumption, QueueInv, UNCHANGED producer,
           NEW t \in Threads, Advance(t)
    PROVE  QueueInv'
<1> USE DEF Slots, lq
<1>1. /\ TypeOK /\ t \in Threads /\ producer \in Threads /\ Consumer \in Threads
      /\ Role(t) /\ Fit(t) /\ Holds(t) /\ StillThere
      /\ Role(producer) /\ Role(Consumer) /\ head \in Slots /\ end \in Slots
      /\ max \in Nat /\ max >= 2 /\ MaxMulti \in Nat
  BY Zenon DEF QueueAssumption, QueueInv, Threads, TypeOK
<1>2. /\ Dist(head, end) \in Int /\ 0 <= Dist(head, end) /\ Dist(head, end) <= max - 1
      /\ Dist(head, end) = 0 <=> head = end
      /\ Dist(head, end) = max - 1 <=> NextIndex(end) = head
  BY Zenon, <1>1, DistRange
<1>3. t = producer /\ pc[t] = "advance" /\ left[t] \in Nat /\ left[t] >= 1
      /\ \/ op[t] = "add" /\ left[t] <= max - 1 - Dist(head, end)
         \/ op[t] = "force" /\ producer = Consumer
  BY Zenon, <1>1 DEF TypeOK, Role, Adder, Remover, Fit, StillThere, Advance, EndTurn
<1>4. end' = NextIndex(end) /\ head' = head
  BY Zenon DEF Advance
<1>5. Dist(head, end) < max - 1 => /\ Dist(head, end') = Dist(head, end) + 1
                                   /\ end < head => end' < head
  BY Zenon, <1>1, <1>4, DistAdd
<1>6. op[t] = "add" => \A a \in Slots : Dist(a, end) <= Dist(head, end) =>
          Dist(a, end') = Dist(a, end) + 1
  <2> SUFFICES ASSUME op[t] = "add", NEW a \in Slots, Dist(a, end) <= Dist(head, end)
               PROVE  Dist(a, end') = Dist(a, end) + 1
    BY Zenon
  <2>1. Dist(a, end) \in Int
    BY Zenon, <1>1, DistRange
  <2>2. Dist(a, end) < max - 1
    BY <1>1, <1>2, <1>3, <2>1
  <2>. QED  BY Zenon, <1>1, <1>4, <2>2, DistAdd
<1>7. NextIndex(end) \in Slots
  BY Zenon, <1>1, NextInSlots
<1>8. LoopStart(op[t]) = "write"
  BY Zenon, <1>3 DEF LoopStart
<1>9. LoopTypeOK'
  <2>1. CASE op[t] = "force"
    BY Zenon, <1>1, <1>2, <1>3, <1>4, <1>5, <1>6, <1>7, <1>8, <2>1 DEF TypeOK, LoopTypeOK, Advance
  <2>2. CASE ~(op[t] = "force")
    BY Zenon, <1>1, <1>2, <1>3, <1>4, <1>5, <1>6, <1>7, <1>8, EndTurnType, <2>2 DEF Advance
  <2>. QED  BY Zenon, <2>1, <2>2
<1>10. TypeOK'
  BY Zenon, <1>1, <1>2, <1>3, <1>4, <1>5, <1>6, <1>7, <1>8, <1>9
     DEF TypeOK, Advance, LoopTypeOK
<1>11. ASSUME NEW u \in Threads PROVE Role(u)' /\ Fit(u)' /\ Holds(u)'
  <2>1. Role(u) /\ Fit(u) /\ Holds(u)
    BY Zenon DEF QueueInv
  <2>2. Role(u)'
    <3>1. CASE op[t] = "add"
      BY ZenonT(60), <1>1, <1>2, <1>3, <1>4, <1>5, <1>6, <1>7, <1>8, <2>1, <3>1
         DEF TypeOK, Role, Adder, Remover, Advance, EndTurn
    <3>2. CASE ~(op[t] = "add")
      BY Zenon, <1>1, <1>2, <1>3, <1>4, <1>5, <1>6, <1>7, <1>8, <2>1, <3>2
         DEF TypeOK, Role, Adder, Remover, Advance, EndTurn
    <3>. QED  BY Zenon, <3>1, <3>2
  <2>3. Fit(u)'
    <3>1. CASE u = t
      <4>1. CASE op[t] = "add"
        BY SMTT(60), <1>1, <1>2, <1>3, <1>4, <1>5, <1>6, <1>7, <1>8, <3>1, <4>1
           DEF TypeOK, Role, Adder, Remover, Fit, Advance, EndTurn
      <4>2. CASE ~(op[t] = "add")
        BY Zenon, <1>1, <1>2, <1>3, <1>4, <1>5, <1>6, <1>7, <1>8, <3>1, <4>2
           DEF TypeOK, Role, Adder, Remover, Fit, Advance, EndTurn
      <4>. QED  BY Zenon, <4>1, <4>2
    <3>2. CASE u # t
      <4>1. CASE op[t] = "add"
        <5>1. CASE pc[u] = "delete_all"
          <6>1. ask[u] \in Slots /\ Dist(ask[u], end) <= Dist(head, end)
            BY Zenon, <2>1, <5>1 DEF Fit
          <6>2. Dist(ask[u], end) \in Int /\ Dist(ask[u], end') = Dist(ask[u], end) + 1
            BY Zenon, <1>1, <1>6, <4>1, <6>1, DistRange
          <6>3. pc'[u] = "delete_all" /\ ask'[u] = ask[u]
            BY ZenonT(60), <1>1, <3>2, <4>1, <5>1 DEF TypeOK, Advance, EndTurn
          <6>. QED  BY SMTT(60), <1>1, <1>2, <1>3, <1>4, <1>5, <4>1, <6>1, <6>2, <6>3 DEF Fit
        <5>2. CASE pc[u] # "delete_all"
          BY SMTT(60), <1>1, <1>2, <1>3, <1>4, <1>5, <2>1, <3>2, <4>1, <5>2
             DEF TypeOK, Role, Adder, Remover, Fit, Advance, EndTurn
        <5>. QED  BY Zenon, <5>1, <5>2
      <4>2. CASE ~(op[t] = "add")
        BY Zenon, <1>1, <1>2, <1>3, <1>4, <1>5, <1>6, <1>7, <1>8, <2>1, <3>2, <4>2
           DEF TypeOK, Role, Adder, Remover, Fit, Advance, EndTurn
      <4>. QED  BY Zenon, <4>1, <4>2
    <3>. QED  BY Zenon, <3>1, <3>2
  <2>4. Holds(u)'
    <3>1. CASE op[t] = "add"
      BY Zenon, <1>1, <1>2, <1>3, <1>4, <1>5, <1>6, <1>7, <1>8, <2>1, <3>1
         DEF TypeOK, Role, Adder, Remover, Holds, Advance, EndTurn
    <3>2. CASE ~(op[t] = "add")
      BY Zenon, <1>1, <1>2, <1>3, <1>4, <1>5, <1>6, <1>7, <1>8, <2>1, <3>2
         DEF TypeOK, Role, Adder, Remover, Holds, Advance, EndTurn
    <3>. QED  BY Zenon, <3>1, <3>2
  <2>. QED  BY Zenon, <2>2, <2>3, <2>4
<1>12. StillThere'
  <2>1. CASE op[t] = "add"
    BY SMTT(60), <1>1, <1>2, <1>3, <1>4, <1>5, <1>6, <1>7, <1>8, <2>1
       DEF TypeOK, Role, Adder, Remover, StillThere, Advance, EndTurn
  <2>2. CASE ~(op[t] = "add")
    BY SMTT(60), <1>1, <1>2, <1>3, <1>4, <1>5, <1>6, <1>7, <1>8, <2>2
       DEF TypeOK, Role, Adder, Remover, StillThere, Advance, EndTurn
  <2>. QED  BY Zenon, <2>1, <2>2
<1>. QED  BY Zenon, <1>10, <1>11, <1>12 DEF QueueInv, Threads

\* Bump keeps the invariant.
LEMMA BumpKeeps ==
    ASSUME QueueAssumption, QueueInv, UNCHANGED producer,
           NEW t \in Threads, Bump(t)
    PROVE  QueueInv'
<1> USE DEF Slots, lq
<1>1. /\ TypeOK /\ t \in Threads /\ producer \in Threads /\ Consumer \in Threads
      /\ Role(t) /\ Fit(t) /\ Holds(t) /\ StillThere
      /\ Role(producer) /\ Role(Consumer) /\ head \in Slots /\ end \in Slots
      /\ max \in Nat /\ max >= 2 /\ MaxMulti \in Nat
  BY Zenon DEF QueueAssumption, QueueInv, Threads, TypeOK
<1>2. /\ Dist(head, end) \in Int /\ 0 <= Dist(head, end) /\ Dist(head, end) <= max - 1
      /\ Dist(head, end) = 0 <=> head = end
      /\ Dist(head, end) = max - 1 <=> NextIndex(end) = head
  BY Zenon, <1>1, DistRange
<1>3. t = producer /\ producer = Consumer /\ pc[t] = "bump" /\ op[t] = "force"
      /\ left[t] \in Nat /\ left[t] >= 1
  BY Zenon, <1>1 DEF TypeOK, Role, Adder, Remover, Fit, StillThere, Bump, EndTurn
<1>4. NextIndex(head) \in Slots
  BY Zenon, <1>1, NextInSlots
<1>5. end = head => Dist(NextIndex(head), end) = max - 1
  BY <1>1, NextIs DEF Dist
<1>6. LoopStart(op[t]) = "write"
  BY Zenon, <1>3 DEF LoopStart
<1>7. LoopTypeOK'
  BY Zenon, <1>1, <1>2, <1>3, <1>4, <1>5, <1>6, EndTurnType DEF Bump
<1>8. TypeOK'
  BY Zenon, <1>1, <1>2, <1>3, <1>4, <1>5, <1>6, <1>7
     DEF TypeOK, Bump, LoopTypeOK
<1>9. ASSUME NEW u \in Threads PROVE Role(u)' /\ Fit(u)' /\ Holds(u)'
  <2>1. Role(u) /\ Fit(u) /\ Holds(u)
    BY Zenon DEF QueueInv
  <2>2. Role(u)'
    BY Zenon, <1>1, <1>2, <1>3, <1>4, <1>5, <1>6, <2>1
       DEF TypeOK, Role, Adder, Remover, Bump, EndTurn
  <2>3. Fit(u)'
    <3>1. CASE u = t
      BY SMTT(60), <1>1, <1>2, <1>3, <1>4, <1>5, <1>6, <3>1
         DEF TypeOK, Role, Adder, Remover, Fit, Bump, EndTurn
    <3>2. CASE u # t
      BY Zenon, <1>1, <1>2, <1>3, <1>4, <1>5, <1>6, <2>1, <3>2
         DEF TypeOK, Role, Adder, Remover, Fit, Bump, EndTurn
    <3>. QED  BY Zenon, <3>1, <3>2
  <2>4. Holds(u)'
    BY Zenon, <1>1, <1>2, <1>3, <1>4, <1>5, <1>6, <2>1
       DEF TypeOK, Role, Adder, Remover, Holds, Bump, EndTurn
  <2>. QED  BY Zenon, <2>2, <2>3, <2>4
<1>10. StillThere'
  BY Zenon, <1>1, <1>2, <1>3, <1>4, <1>5, <1>6
     DEF TypeOK, Role, Adder, Remover, StillThere, Bump, EndTurn
<1>. QED  BY Zenon, <1>8, <1>9, <1>10 DEF QueueInv, Threads

\* Copy keeps the invariant.
LEMMA CopyKeeps ==
    ASSUME QueueAssumption, QueueInv, UNCHANGED producer,
           NEW t \in Threads, Copy(t)
    PROVE  QueueInv'
<1> USE DEF Slots, lq
<1>1. /\ TypeOK /\ t \in Threads /\ producer \in Threads /\ Consumer \in Threads
      /\ Role(t) /\ Fit(t) /\ Holds(t) /\ StillThere
      /\ Role(producer) /\ Role(Consumer) /\ head \in Slots /\ end \in Slots
      /\ max \in Nat /\ max >= 2 /\ MaxMulti \in Nat
  BY Zenon DEF QueueAssumption, QueueInv, Threads, TypeOK
<1>2. /\ Dist(head, end) \in Int /\ 0 <= Dist(head, end) /\ Dist(head, end) <= max - 1
      /\ Dist(head, end) = 0 <=> head = end
      /\ Dist(head, end) = max - 1 <=> NextIndex(end) = head
  BY Zenon, <1>1, DistRange
<1>3. t = Consumer /\ pc[t] = "copy" /\ left[t] \in Nat /\ left[t] >= 1
      /\ left[t] <= Dist(head, end) /\ op[t] \in {"get", "inspect"}
  BY Zenon, <1>1 DEF TypeOK, Role, Adder, Remover, Fit, StillThere, Copy, EndTurn
<1>4. LoopStart(op[t]) = "copy"
  BY Zenon, <1>3 DEF LoopStart
<1>5. LoopTypeOK'
  <2>1. CASE op[t] = "get"
    BY Zenon, <1>1, <1>2, <1>3, <1>4, <2>1 DEF TypeOK, LoopTypeOK, Copy
  <2>2. CASE ~(op[t] = "get")
    BY Zenon, <1>1, <1>2, <1>3, <1>4, EndTurnType, <2>2 DEF Copy
  <2>. QED  BY Zenon, <2>1, <2>2
<1>6. TypeOK'
  BY Zenon, <1>1, <1>2, <1>3, <1>4, <1>5
     DEF TypeOK, Copy, LoopTypeOK
<1>7. ASSUME NEW u \in Threads PROVE Role(u)' /\ Fit(u)' /\ Holds(u)'
  <2>1. Role(u) /\ Fit(u) /\ Holds(u)
    BY Zenon DEF QueueInv
  <2>2. Role(u)'
    BY ZenonT(60), <1>1, <1>2, <1>3, <1>4, <2>1
       DEF TypeOK, Role, Adder, Remover, Copy, EndTurn
  <2>3. Fit(u)'
    <3>1. CASE u = t
      BY SMTT(60), <1>1, <1>2, <1>3, <1>4, <3>1
         DEF TypeOK, Role, Adder, Remover, Fit, Copy, EndTurn
    <3>2. CASE u # t
      BY ZenonT(60), <1>1, <1>2, <1>3, <1>4, <2>1, <3>2
         DEF TypeOK, Role, Adder, Remover, Fit, Copy, EndTurn
    <3>. QED  BY Zenon, <3>1, <3>2
  <2>4. Holds(u)'
    BY ZenonT(60), <1>1, <1>2, <1>3, <1>4, <2>1
       DEF TypeOK, Role, Adder, Remover, Holds, Copy, EndTurn
  <2>. QED  BY Zenon, <2>2, <2>3, <2>4
<1>8. StillThere'
  BY Zenon, <1>1, <1>2, <1>3, <1>4
     DEF TypeOK, Role, Adder, Remover, StillThere, Copy, EndTurn
<1>. QED  BY Zenon, <1>6, <1>7, <1>8 DEF QueueInv, Threads

\* Drop keeps the invariant.
LEMMA DropKeeps ==
    ASSUME QueueAssumption, QueueInv, UNCHANGED producer,
           NEW t \in Threads, Drop(t)
    PROVE  QueueInv'
<1> USE DEF Slots, lq
<1>1. /\ TypeOK /\ t \in Threads /\ producer \in Threads /\ Consumer \in Threads
      /\ Role(t) /\ Fit(t) /\ Holds(t) /\ StillThere
      /\ Role(producer) /\ Role(Consumer) /\ head \in Slots /\ end \in Slots
      /\ max \in Nat /\ max >= 2 /\ MaxMulti \in Nat
  BY Zenon DEF QueueAssumption, QueueInv, Threads, TypeOK
<1>2. /\ Dist(head, end) \in Int /\ 0 <= Dist(head, end) /\ Dist(head, end) <= max - 1
      /\ Dist(head, end) = 0 <=> head = end
      /\ Dist(head, end) = max - 1 <=> NextIndex(end) = head
  BY Zenon, <1>1, DistRange
<1>3. t = Consumer /\ pc[t] = "drop" /\ left[t] \in Nat /\ left[t] >= 1
      /\ left[t] <= Dist(head, end) /\ op[t] \in {"get", "delete"} /\ inspected <= 0
  BY Zenon, <1>1 DEF TypeOK, Role, Adder, Remover, Fit, StillThere, Drop, EndTurn
<1>4. /\ Dist(NextIndex(head), end) = Dist(head, end) - 1
      /\ end >= head => end >= NextIndex(head)
  BY <1>1, <1>2, <1>3, DistDrop
<1>5. NextIndex(head) \in Slots
  BY Zenon, <1>1, NextInSlots
<1>6. LoopStart(op[t]) = IF op[t] = "get" THEN "copy" ELSE "drop"
  BY Zenon, <1>3 DEF LoopStart
<1>7. LoopTypeOK'
  BY Zenon, <1>1, <1>2, <1>3, <1>4, <1>5, <1>6, EndTurnType DEF Drop
<1>8. TypeOK'
  BY Zenon, <1>1, <1>2, <1>3, <1>4, <1>5, <1>6, <1>7
     DEF TypeOK, Drop, LoopTypeOK
<1>9. ASSUME NEW u \in Threads PROVE Role(u)' /\ Fit(u)' /\ Holds(u)'
  <2>1. Role(u) /\ Fit(u) /\ Holds(u)
    BY Zenon DEF QueueInv
  <2>2. Role(u)'
    BY Zenon, <1>1, <1>2, <1>3, <1>4, <1>5, <1>6, <2>1
       DEF TypeOK, Role, Adder, Remover, Drop, EndTurn
  <2>3. Fit(u)'
    <3>1. CASE u = t
      BY SMTT(60), <1>1, <1>2, <1>3, <1>4, <1>5, <1>6, <3>1
         DEF TypeOK, Role, Adder, Remover, Fit, Drop, EndTurn
    <3>2. CASE u # t
      BY SMTT(60), <1>1, <1>2, <1>3, <1>4, <1>5, <1>6, <2>1, <3>2
         DEF TypeOK, Role, Adder, Remover, Fit, Drop, EndTurn
    <3>. QED  BY Zenon, <3>1, <3>2
  <2>4. Holds(u)'
    BY Zenon, <1>1, <1>2, <1>3, <1>4, <1>5, <1>6, <2>1
       DEF TypeOK, Role, Adder, Remover, Holds, Drop, EndTurn
  <2>. QED  BY Zenon, <2>2, <2>3, <2>4
<1>10. StillThere'
  BY SMTT(60), <1>1, <1>2, <1>3, <1>4, <1>5, <1>6
     DEF TypeOK, Role, Adder, Remover, StillThere, Drop, EndTurn
<1>. QED  BY Zenon, <1>8, <1>9, <1>10 DEF QueueInv, Threads

\* StoreHead keeps the invariant.
LEMMA StoreHeadKeeps ==
    ASSUME QueueAssumption, QueueInv, UNCHANGED producer,
           NEW t \in Threads, StoreHead(t)
    PROVE  QueueInv'
<1> USE DEF Slots, lq
<1>1. /\ TypeOK /\ t \in Threads /\ producer \in Threads /\ Consumer \in Threads
      /\ Role(t) /\ Fit(t) /\ Holds(t) /\ StillThere
      /\ Role(producer) /\ Role(Consumer) /\ head \in Slots /\ end \in Slots
      /\ max \in Nat /\ max >= 2 /\ MaxMulti \in Nat
  BY Zenon DEF QueueAssumption, QueueInv, Threads, TypeOK
<1>2. /\ Dist(head, end) \in Int /\ 0 <= Dist(head, end) /\ Dist(head, end) <= max - 1
      /\ Dist(head, end) = 0 <=> head = end
      /\ Dist(head, end) = max - 1 <=> NextIndex(end) = head
  BY Zenon, <1>1, DistRange
<1>3. t = Consumer /\ pc[t] = "delete_all" /\ ask[t] \in Slots /\ inspected <= 0
      /\ Dist(ask[t], end) <= Dist(head, end)
  BY Zenon, <1>1 DEF TypeOK, Role, Adder, Remover, Fit, StillThere, StoreHead, NoLocals
<1>4. /\ Dist(ask[t], end) \in Int /\ Dist(ask[t], end) >= 0
      /\ end >= head => end >= ask[t]
  BY <1>1, <1>3 DEF Dist
<1>5. TypeOK'
  BY Zenon, <1>1, <1>2, <1>3, <1>4
     DEF TypeOK, StoreHead, NoLocals
<1>6. ASSUME NEW u \in Threads PROVE Role(u)' /\ Fit(u)' /\ Holds(u)'
  <2>1. Role(u) /\ Fit(u) /\ Holds(u)
    BY Zenon DEF QueueInv
  <2>2. Role(u)'
    BY Zenon, <1>1, <1>2, <1>3, <1>4, <2>1
       DEF TypeOK, Role, Adder, Remover, StoreHead, NoLocals
  <2>3. Fit(u)'
    <3>1. CASE u = t
      BY Zenon, <1>1, <1>2, <1>3, <1>4, <3>1
         DEF TypeOK, Role, Adder, Remover, Fit, StoreHead, NoLocals
    <3>2. CASE u # t
      BY SMTT(60), <1>1, <1>2, <1>3, <1>4, <2>1, <3>2
         DEF TypeOK, Role, Adder, Remover, Fit, StoreHead, NoLocals
    <3>. QED  BY Zenon, <3>1, <3>2
  <2>4. Holds(u)'
    BY Zenon, <1>1, <1>2, <1>3, <1>4, <2>1
       DEF TypeOK, Role, Adder, Remover, Holds, StoreHead, NoLocals
  <2>. QED  BY Zenon, <2>2, <2>3, <2>4
<1>7. StillThere'
  BY <1>1, <1>2, <1>3, <1>4
     DEF TypeOK, Role, Adder, Remover, StillThere, StoreHead, NoLocals
<1>. QED  BY Zenon, <1>5, <1>6, <1>7 DEF QueueInv, Threads

-----------------------------------------------------------------------------
(* The invariant. *)

\* The invariant holds initially.
LEMMA InitQueueInv == ASSUME QueueAssumption PROVE Init => QueueInv
BY DistRange DEF QueueAssumption, Init, QueueInv, TypeOK, Threads, Slots, Role, Fit, Holds, StillThere

\* Every step keeps the invariant.
LEMMA NextQueueInv ==
    ASSUME QueueAssumption, QueueInv, [Next]_vars
    PROVE  QueueInv'
<1>1. CASE UNCHANGED vars
  BY <1>1 DEF vars, lq, locals, QueueInv, TypeOK, Threads, Slots, Role, Adder, Remover, Fit,
              Holds, StillThere, Dist
<1>2. CASE Next
  <2>1. UNCHANGED producer
    BY Zenon, <1>2 DEF Next
  <2>2. CASE Adding
    BY Zenon, <2>1, <2>2, AddOneKeeps, AddMultiKeeps, ForceAddKeeps DEF Adding
  <2>3. CASE Removing
    BY Zenon, <2>1, <2>3, GetOneKeeps, MeasureKeeps, InspectDeleteKeeps, DeleteAllKeeps
       DEF Removing, GetMulti, InspectMulti, DeleteMulti
  <2>4. ASSUME NEW t \in Threads, Running(t) PROVE QueueInv'
    BY Zenon, <2>1, <2>4, CompareKeeps, SubtractKeeps, WriteKeeps, AdvanceKeeps, BumpKeeps, CopyKeeps,
       DropKeeps, StoreHeadKeeps DEF Running
  <2>. QED  BY Zenon, <1>2, <2>2, <2>3, <2>4 DEF Next
<1>. QED  BY Zenon, <1>1, <1>2

\* The invariant always holds.
LEMMA QueueInvariant == ASSUME QueueAssumption PROVE Spec => []QueueInv
<1>1. Init => QueueInv
  BY Zenon, InitQueueInv
<1>2. QueueInv /\ [Next]_vars => QueueInv'
  BY Zenon, NextQueueInv
<1>. QED  BY <1>1, <1>2, PTL DEF Spec

\* The premises of loopQueueNonFullFastAddOne and loopQueueNonEmptyFastGetOne hold at every
\* turn of every loop, although the queue was measured before the first turn only and the
\* other thread has gone on since.
THEOREM FastPathsAreSafe == ASSUME QueueAssumption PROVE Spec => []PremisesHold
<1>1. QueueInv => PremisesHold
  <2> SUFFICES ASSUME QueueInv, NEW t \in Threads
               PROVE  /\ pc[t] \in {"write", "advance"} /\ op[t] = "add" => ~IsFull
                      /\ pc[t] \in {"copy", "drop"} => ~IsEmpty
    BY Zenon DEF PremisesHold
  <2>1. head \in Slots /\ end \in Slots /\ Fit(t) /\ left[t] \in Nat
    BY Zenon DEF QueueInv, TypeOK
  <2>. QED  BY <2>1, DistRange DEF QueueAssumption, Fit, IsFull, IsEmpty
<1>. QED  BY <1>1, QueueInvariant, PTL

-----------------------------------------------------------------------------
(* Sequences. *)

\* Sequences with the same elements are equal.
LEMMA SameItems ==
    ASSUME NEW S, NEW r \in Seq(S), NEW s \in Seq(S), NEW n \in Nat,
           Len(r) = n, Len(s) = n, \A i \in 1 .. n : r[i] = s[i]
    PROVE  r = s
  OBVIOUS

\* What an appended sequence consists of.
LEMMA AppendedItems ==
    ASSUME NEW S, NEW s \in Seq(S), NEW x \in S
    PROVE  /\ Append(s, x) \in Seq(S) /\ Len(Append(s, x)) = Len(s) + 1
           /\ \A i \in 1 .. Len(s) : Append(s, x)[i] = s[i]
           /\ Append(s, x)[Len(s) + 1] = x
  OBVIOUS

\* What is left of a sequence without its first k elements.
LEMMA DroppedItems ==
    ASSUME NEW S, NEW s \in Seq(S), NEW k \in 0 .. Len(s)
    PROVE  /\ SubSeq(s, k + 1, Len(s)) \in Seq(S)
           /\ Len(SubSeq(s, k + 1, Len(s))) = Len(s) - k
           /\ \A i \in 1 .. Len(s) - k : SubSeq(s, k + 1, Len(s))[i] = s[k + i]
  OBVIOUS

\* Tail and SubSeq.
LEMMA TailDrops ==
    ASSUME NEW S, NEW s \in Seq(S)
    PROVE  SubSeq(s, 1, Len(s)) = s /\ (s # << >> => Tail(s) = SubSeq(s, 2, Len(s)))
  OBVIOUS

-----------------------------------------------------------------------------
(* The slots of the items, counted from the oldest. *)

Slot(h, i) == (h + i - 1) % max

\* The slot of an item, without the remainder.
LEMMA SlotIs ==
    ASSUME QueueAssumption, NEW h \in Slots, NEW i \in 1 .. max
    PROVE  Slot(h, i) = IF h + i - 1 < max THEN h + i - 1 ELSE h + i - 1 - max
<1>1. max \in Nat /\ max >= 2 /\ h \in 0 .. max - 1
  BY Zenon DEF QueueAssumption, Slots
<1>2. CASE h + i - 1 < max
  BY <1>1, <1>2 DEF Slot
<1>3. CASE h + i - 1 >= max
  <2>1. h + i - 1 = 1 * max + (h + i - 1 - max) /\ h + i - 1 - max \in 0 .. max - 1
    BY <1>1, <1>3
  <2>. QED  BY <1>1, <1>3, <2>1 DEF Slot
<1>. QED  BY <1>1, <1>2, <1>3

\* The number of items is the distance from the oldest to end.
LEMMA UsedIs ==
    ASSUME QueueAssumption, HeadNow \in Slots, end \in Slots
    PROVE  Used = Dist(HeadNow, end)
<1>1. max \in Nat /\ max >= 2 /\ HeadNow \in 0 .. max - 1 /\ end \in 0 .. max - 1
  BY Zenon DEF QueueAssumption, Slots
<1>2. CASE end >= HeadNow
  <2>1. end - HeadNow + max = 1 * max + (end - HeadNow) /\ end - HeadNow \in 0 .. max - 1
    BY <1>1, <1>2
  <2>. QED  BY <1>1, <1>2, <2>1 DEF Used, Dist
<1>3. CASE end < HeadNow
  <2>1. end - HeadNow + max \in 0 .. max - 1
    BY <1>1, <1>3
  <2>. QED  BY <1>1, <1>3, <2>1 DEF Used, Dist
<1>. QED  BY <1>1, <1>2, <1>3

\* The slots of the items: none is the one at end, the next free one is, and they shift
\* with head.
LEMMA SlotFacts ==
    ASSUME QueueAssumption, NEW h \in Slots, NEW e \in Slots
    PROVE  /\ \A i \in 1 .. Dist(h, e) : Slot(h, i) \in Slots /\ Slot(h, i) # e
           /\ Slot(h, Dist(h, e) + 1) = e
           /\ \A i \in 1 .. max - 1 : Slot(NextIndex(h), i) = Slot(h, i + 1)
           /\ \A a \in Slots : Dist(a, e) <= Dist(h, e) =>
                 \A i \in 1 .. Dist(a, e) : Slot(a, i) = Slot(h, i + (Dist(h, e) - Dist(a, e)))
<1>1. max \in Nat /\ max >= 2 /\ h \in 0 .. max - 1 /\ e \in 0 .. max - 1
  BY Zenon DEF QueueAssumption, Slots
<1>2. ASSUME NEW i \in 1 .. Dist(h, e) PROVE Slot(h, i) \in Slots /\ Slot(h, i) # e
  BY <1>1, SlotIs DEF Slots, Dist
<1>3. Slot(h, Dist(h, e) + 1) = e
  BY <1>1, SlotIs DEF Slots, Dist
<1>4. ASSUME NEW i \in 1 .. max - 1 PROVE Slot(NextIndex(h), i) = Slot(h, i + 1)
  <2>1. /\ NextIndex(h) \in Slots /\ NextIndex(h) = IF h = max - 1 THEN 0 ELSE h + 1
        /\ i \in 1 .. max /\ i + 1 \in 1 .. max
    BY <1>1, NextIs, NextInSlots
  <2>2. Slot(NextIndex(h), i) = IF NextIndex(h) + i - 1 < max THEN NextIndex(h) + i - 1
                                ELSE NextIndex(h) + i - 1 - max
    BY Zenon, <2>1, SlotIs
  <2>3. Slot(h, i + 1) = IF h + (i + 1) - 1 < max THEN h + (i + 1) - 1
                         ELSE h + (i + 1) - 1 - max
    BY Zenon, <2>1, SlotIs
  <2>. QED  BY <1>1, <2>1, <2>2, <2>3
<1>5. ASSUME NEW a \in Slots, Dist(a, e) <= Dist(h, e), NEW i \in 1 .. Dist(a, e)
      PROVE  Slot(a, i) = Slot(h, i + (Dist(h, e) - Dist(a, e)))
  <2> DEFINE j == i + (Dist(h, e) - Dist(a, e))
  <2>1. a \in 0 .. max - 1 /\ i \in 1 .. max /\ j \in 1 .. max
    BY <1>1, <1>5 DEF Slots, Dist
  <2>2. Slot(a, i) = IF a + i - 1 < max THEN a + i - 1 ELSE a + i - 1 - max
    BY Zenon, <2>1, SlotIs
  <2>3. Slot(h, j) = IF h + j - 1 < max THEN h + j - 1 ELSE h + j - 1 - max
    BY Zenon, <2>1, SlotIs
  <2>. QED  BY <1>1, <1>5, <2>1, <2>2, <2>3 DEF Dist
<1>. QED  BY Zenon, <1>2, <1>3, <1>4, <1>5

-----------------------------------------------------------------------------
(* The items as a sequence. *)

Item == Values \cup {Zero}
ItemsOf(h, e, q) == [i \in 1 .. Dist(h, e) |-> q[Slot(h, i)]]

\* What is in the ring, oldest first, is a sequence.
LEMMA ItemsFacts ==
    ASSUME QueueAssumption, NEW h \in Slots, NEW e \in Slots, NEW q \in [Slots -> Item]
    PROVE  /\ ItemsOf(h, e, q) \in Seq(Item)
           /\ Len(ItemsOf(h, e, q)) = Dist(h, e) /\ Dist(h, e) \in Nat
           /\ \A i \in 1 .. Dist(h, e) : ItemsOf(h, e, q)[i] = q[Slot(h, i)]
<1>1. Dist(h, e) \in Nat
  BY DistRange DEF QueueAssumption
<1>2. \A i \in 1 .. Dist(h, e) : q[Slot(h, i)] \in Item
  BY Zenon, <1>1, SlotFacts
<1>. QED  BY <1>1, <1>2 DEF ItemsOf

\* Moving end on appends the item in the slot at end.
LEMMA ItemsAppend ==
    ASSUME QueueAssumption, NEW h \in Slots, NEW e \in Slots, NEW q \in [Slots -> Item],
           Dist(h, e) < max - 1
    PROVE  ItemsOf(h, NextIndex(e), q) = Append(ItemsOf(h, e, q), q[e])
<1> DEFINE s == ItemsOf(h, e, q)
           r == ItemsOf(h, NextIndex(e), q)
           n == Dist(h, e)
<1>1. NextIndex(e) \in Slots /\ Dist(h, NextIndex(e)) = n + 1 /\ q[e] \in Item
  <2>1. NextIndex(e) \in Slots
    BY Zenon, NextInSlots
  <2>2. Dist(h, NextIndex(e)) = n + 1
    BY Zenon, DistAdd
  <2>. QED  BY Zenon, <2>1, <2>2
<1>2. /\ s \in Seq(Item) /\ Len(s) = n /\ n \in Nat /\ \A i \in 1 .. n : s[i] = q[Slot(h, i)]
      /\ r \in Seq(Item) /\ Len(r) = n + 1 /\ \A i \in 1 .. n + 1 : r[i] = q[Slot(h, i)]
  BY ZenonT(60), <1>1, ItemsFacts
<1>3. Slot(h, n + 1) = e
  BY Zenon, SlotFacts
<1> HIDE DEF s, r, n
<1>4. Append(s, q[e]) \in Seq(Item) /\ Len(Append(s, q[e])) = n + 1
  BY ZenonT(60), <1>1, <1>2, AppendedItems
<1>5. ASSUME NEW i \in 1 .. n + 1 PROVE r[i] = Append(s, q[e])[i]
  <2>1. CASE i = n + 1
    BY <1>1, <1>2, <1>3, <2>1, AppendedItems
  <2>2. CASE i \in 1 .. n
    BY <1>1, <1>2, <2>2, AppendedItems
  <2>. QED  BY <1>2, <2>1, <2>2
<1>6. r = Append(s, q[e])
  BY <1>2, <1>4, <1>5, SameItems
<1>. QED  BY Zenon, <1>6 DEF r, s

\* Moving head on drops items from the front.
LEMMA ItemsDrop ==
    ASSUME QueueAssumption, NEW h \in Slots, NEW e \in Slots, NEW q \in [Slots -> Item],
           NEW a \in Slots, Dist(a, e) <= Dist(h, e)
    PROVE  ItemsOf(a, e, q)
             = SubSeq(ItemsOf(h, e, q), (Dist(h, e) - Dist(a, e)) + 1, Len(ItemsOf(h, e, q)))
<1> DEFINE s == ItemsOf(h, e, q)
           r == ItemsOf(a, e, q)
           n == Dist(h, e)
           m == Dist(a, e)
<1>1. /\ s \in Seq(Item) /\ Len(s) = n /\ n \in Nat /\ \A i \in 1 .. n : s[i] = q[Slot(h, i)]
      /\ r \in Seq(Item) /\ Len(r) = m /\ m \in Nat /\ \A i \in 1 .. m : r[i] = q[Slot(a, i)]
  BY Zenon, ItemsFacts
<1>2. \A i \in 1 .. m : Slot(a, i) = Slot(h, i + (n - m))
  BY SlotFacts
<1>3. m <= n
  BY Zenon
<1> HIDE DEF s, r, n, m
<1>4. /\ SubSeq(s, (n - m) + 1, n) \in Seq(Item)
      /\ Len(SubSeq(s, (n - m) + 1, n)) = m
      /\ \A i \in 1 .. m : SubSeq(s, (n - m) + 1, n)[i] = s[(n - m) + i]
  <2>1. n - m \in 0 .. Len(s) /\ Len(s) - (n - m) = m /\ n = Len(s)
    BY <1>1, <1>3
  <2>. QED  BY SMTT(60), <1>1, <2>1, DroppedItems
<1>5. ASSUME NEW i \in 1 .. m PROVE r[i] = SubSeq(s, (n - m) + 1, n)[i]
  <2>1. (n - m) + i = i + (n - m) /\ (n - m) + i \in 1 .. n
    BY <1>1, <1>3
  <2>. QED  BY <1>1, <1>2, <1>4, <2>1
<1>6. r = SubSeq(s, (n - m) + 1, n)
  BY ZenonT(60), <1>1, <1>4, <1>5, SameItems
<1>. QED  BY Zenon, <1>1, <1>6 DEF r, s, n, m

\* Moving both on drops the oldest item and appends one.
LEMMA ItemsForce ==
    ASSUME QueueAssumption, NEW h \in Slots, NEW e \in Slots, NEW q \in [Slots -> Item],
           NextIndex(e) = h
    PROVE  ItemsOf(NextIndex(h), NextIndex(e), q) = Append(Tail(ItemsOf(h, e, q)), q[e])
<1>1. max \in Nat /\ max >= 2 /\ Dist(h, e) = max - 1 /\ h # e /\ NextIndex(h) \in Slots
  BY DistRange, NextInSlots DEF QueueAssumption
<1>2. Dist(NextIndex(h), e) = Dist(h, e) - 1
  BY Zenon, <1>1, DistDrop
<1>3. ItemsOf(NextIndex(h), e, q) = Tail(ItemsOf(h, e, q))
  <2>1. Dist(NextIndex(h), e) <= Dist(h, e) /\ (Dist(h, e) - Dist(NextIndex(h), e)) + 1 = 2
    BY <1>1, <1>2
  <2>2. ItemsOf(NextIndex(h), e, q) = SubSeq(ItemsOf(h, e, q), 2, Len(ItemsOf(h, e, q)))
    BY <1>1, <2>1, ItemsDrop
  <2>3. ItemsOf(h, e, q) \in Seq(Item) /\ ItemsOf(h, e, q) # << >>
    BY <1>1, ItemsFacts
  <2>. QED  BY Zenon, <2>2, <2>3, TailDrops
<1>4. Dist(NextIndex(h), e) < max - 1
  BY <1>1, <1>2
<1>5. ItemsOf(NextIndex(h), NextIndex(e), q) = Append(ItemsOf(NextIndex(h), e, q), q[e])
  BY Zenon, <1>1, <1>4, ItemsAppend
<1>. QED  BY Zenon, <1>3, <1>5

\* Writing the slot at end changes no item.
LEMMA ItemsWrite ==
    ASSUME QueueAssumption, NEW h \in Slots, NEW e \in Slots, NEW q, NEW r,
           \A k \in Slots \ {e} : r[k] = q[k]
    PROVE  ItemsOf(h, e, r) = ItemsOf(h, e, q)
<1>1. \A i \in 1 .. Dist(h, e) : Slot(h, i) \in Slots \ {e}
  BY Zenon, SlotFacts
<1>. QED  BY Zenon, <1>1 DEF ItemsOf

\* The oldest item is in the slot at head.
LEMMA ItemsHead ==
    ASSUME QueueAssumption, NEW h \in Slots, NEW e \in Slots, NEW q \in [Slots -> Item], h # e
    PROVE  ItemsOf(h, e, q) # << >> /\ Head(ItemsOf(h, e, q)) = q[h]
<1>1. Dist(h, e) # 0 /\ max \in Nat /\ max >= 2 /\ h \in 0 .. max - 1
  BY Zenon, DistRange DEF QueueAssumption, Slots
<1>2. Slot(h, 1) = h
  BY <1>1, SlotIs
<1>. QED  BY SMTT(60), <1>1, <1>2, ItemsFacts

\* The abstract queue, in terms of the ring.
Shape ==
    /\ HeadNow = IF end = head /\ pc[producer] = "bump" THEN NextIndex(head) ELSE head
    /\ HeadNow \in Slots /\ end \in Slots /\ queue \in [Slots -> Item]
    /\ Contents = ItemsOf(HeadNow, end, queue)

\* The abstract queue is what lies between the (corrected) head and end.
LEMMA ContentsShape == ASSUME QueueAssumption PROVE QueueInv => Shape
<1> SUFFICES ASSUME QueueInv PROVE Shape
  BY Zenon
<1>1. /\ TypeOK /\ head \in Slots /\ end \in Slots /\ queue \in [Slots -> Item]
      /\ producer \in Threads /\ \A t \in Threads : Role(t)
  BY Zenon DEF QueueInv, TypeOK, Threads, Item
<1>2. HeadNow = IF end = head /\ pc[producer] = "bump" THEN NextIndex(head) ELSE head
  BY Zenon, <1>1 DEF HeadNow, Role, Adder, Remover
<1>3. HeadNow \in Slots
  BY Zenon, <1>1, <1>2, NextInSlots
<1>4. Used = Dist(HeadNow, end)
  BY Zenon, <1>1, <1>3, UsedIs
<1>5. Contents = ItemsOf(HeadNow, end, queue)
  BY Zenon, <1>4 DEF Contents, ItemsOf, Slot
<1>. QED  BY Zenon, <1>1, <1>2, <1>3, <1>5 DEF Shape

\* The same after a step.
LEMMA ContentsShapeNext == ASSUME QueueAssumption PROVE QueueInv' => Shape'
BY ContentsShape, PTL

-----------------------------------------------------------------------------
(* Every step of the ring is a step of the abstract queue, or changes nothing of it. *)

\* A step that moves no index, writes no slot and copies nothing is no step of the queue.
LEMMA Stutters ==
    ASSUME Shape, Shape', HeadNow' = HeadNow, UNCHANGED <<end, queue, recv>>
    PROVE  UNCHANGED <<Contents, recv>>
BY Zenon DEF Shape

Calm == pc[producer] # "bump"

\* A call enters or leaves no forced addition half-way, and moves no index.
LEMMA CallIsCalm ==
    ASSUME QueueAssumption, QueueInv, UNCHANGED producer, Adding \/ Removing
    PROVE  Calm /\ Calm' /\ UNCHANGED <<lq, recv>>
<1>1. producer \in Threads /\ Consumer \in Threads /\ DOMAIN pc = Threads /\ Role(producer)
  BY Zenon DEF QueueInv, TypeOK, Threads
<1>2. CASE \E v \in Values : AddOne(v)
  BY Zenon, <1>1, <1>2 DEF AddOne, Enter, LoopStart, Calm
<1>3. CASE \E v \in Values, n \in 0 .. MaxMulti : AddMulti(v, n)
  BY Zenon, <1>1, <1>3 DEF AddMulti, Measured, Calm
<1>4. CASE \E v \in Values, n \in 0 .. MaxMulti : ForceAdd(v, n)
  BY Zenon, <1>1, <1>4 DEF ForceAdd, Enter, LoopStart, Calm
<1>5. CASE GetOne \/ DeleteAll
  BY Zenon, <1>1, <1>5 DEF GetOne, DeleteAll, Enter, LoopStart, Calm, Role, Adder, Remover
<1>6. CASE \E n \in 0 .. MaxMulti : GetMulti(n) \/ InspectMulti(n) \/ DeleteMulti(n)
  BY Zenon, <1>1, <1>6 DEF GetMulti, InspectMulti, DeleteMulti, Measured, Calm, Role, Adder, Remover
<1>7. CASE \E n \in 0 .. MaxMulti : InspectDelete(n)
  BY Zenon, <1>1, <1>7 DEF InspectDelete, Enter, LoopStart, Calm, Role, Adder, Remover
<1>. QED  BY Zenon, <1>2, <1>3, <1>4, <1>5, <1>6, <1>7 DEF Adding, Removing

\* Nor do these steps of a loop.
LEMMA StepIsCalm ==
    ASSUME QueueAssumption, QueueInv, UNCHANGED producer, NEW t \in Threads,
           \/ Compare(t) \/ Subtract(t) \/ Write(t) \/ (Advance(t) /\ op[t] = "add")
           \/ Copy(t) \/ Drop(t) \/ StoreHead(t)
    PROVE  Calm /\ Calm'
<1>1. producer \in Threads /\ Consumer \in Threads /\ DOMAIN pc = Threads /\ Role(producer) /\ Role(t)
  BY Zenon DEF QueueInv, TypeOK, Threads
<1> USE DEF Calm, Role, Adder, Remover
<1>2. CASE Compare(t) \/ Write(t) \/ StoreHead(t)
  BY Zenon, <1>1, <1>2 DEF Compare, Write, StoreHead
<1>3. CASE Subtract(t)
  BY Zenon, <1>1, <1>3 DEF Subtract, Enter, LoopStart
<1>4. CASE Advance(t) /\ op[t] = "add"
  BY Zenon, <1>1, <1>4 DEF Advance, EndTurn, LoopStart
<1>5. CASE Copy(t)
  BY Zenon, <1>1, <1>5 DEF Copy, EndTurn, LoopStart
<1>6. CASE Drop(t)
  BY Zenon, <1>1, <1>6 DEF Drop, EndTurn, LoopStart
<1>. QED  BY Zenon, <1>2, <1>3, <1>4, <1>5, <1>6

\* Moving end on in an addition puts an item.
LEMMA AddPuts ==
    ASSUME QueueAssumption, QueueInv, Shape, Shape', UNCHANGED producer, NEW t \in Threads,
           Advance(t), op[t] = "add"
    PROVE  \E v \in Values : Fifo!Put(v)
<1>1. Calm /\ Calm' /\ HeadNow = head /\ HeadNow' = head
  BY Zenon, StepIsCalm DEF Shape, Calm, Advance
<1>2. /\ head \in Slots /\ end \in Slots /\ queue \in [Slots -> Item]
      /\ Fit(t) /\ Holds(t) /\ left[t] \in Nat /\ pc[t] = "advance"
  BY Zenon, <1>1 DEF QueueInv, TypeOK, Item, Advance
<1>3. queue[end] \in Values /\ Dist(head, end) < max - 1
  <2>1. Dist(head, end) \in Int /\ max \in Nat
    BY Zenon, <1>2, DistRange DEF QueueAssumption
  <2>2. left[t] >= 1 /\ left[t] <= max - 1 - Dist(head, end)
    BY ZenonT(60), <1>2 DEF Fit
  <2>3. queue[end] \in Values
    BY Zenon, <1>2 DEF Holds
  <2>. QED  BY <1>2, <2>1, <2>2, <2>3, SMTT(30)
<1>4. /\ Contents = ItemsOf(head, end, queue) /\ Contents' = ItemsOf(head, NextIndex(end), queue)
      /\ recv' = recv
  BY Zenon, <1>1 DEF Shape, Advance
<1>5. Contents' = Append(Contents, queue[end]) /\ Len(Contents) < max - 1
  BY Zenon, <1>2, <1>3, <1>4, ItemsAppend, ItemsFacts
<1>. QED  BY Zenon, <1>3, <1>4, <1>5 DEF Fifo!Put

\* Moving end on in a forced addition puts an item, in place of the oldest if full.
LEMMA ForcePuts ==
    ASSUME QueueAssumption, QueueInv, Shape, Shape', UNCHANGED producer, NEW t \in Threads,
           Advance(t), op[t] # "add"
    PROVE  \E v \in Values : Fifo!ForcePut(v)
<1>1. /\ head \in Slots /\ end \in Slots /\ queue \in [Slots -> Item]
      /\ Role(t) /\ Holds(t) /\ pc[t] = "advance" /\ DOMAIN pc = Threads
  BY Zenon DEF QueueInv, TypeOK, Item, Advance
<1>2. t = producer /\ op[t] = "force"
  BY Zenon, <1>1 DEF Role, Adder, Remover
<1>3. /\ pc'[producer] = "bump" /\ head' = head /\ end' = NextIndex(end)
      /\ queue' = queue /\ recv' = recv
  BY Zenon, <1>1, <1>2 DEF Advance
<1>4. HeadNow = head /\ HeadNow' = IF NextIndex(end) = head THEN NextIndex(head) ELSE head
  BY ZenonT(60), <1>1, <1>2, <1>3 DEF Shape
<1>5. queue[end] \in Values
  BY Zenon, <1>1, <1>2 DEF Holds
<1>6. Len(Contents) = Dist(head, end) /\ Contents = ItemsOf(head, end, queue)
  <2>1. Contents = ItemsOf(head, end, queue)
    BY Zenon, <1>4 DEF Shape
  <2>2. Len(ItemsOf(head, end, queue)) = Dist(head, end)
    BY Zenon, <1>1, ItemsFacts
  <2>. QED  BY Zenon, <2>1, <2>2
<1>7. Dist(head, end) \in Int /\ Dist(head, end) <= max - 1 /\ max \in Nat
      /\ (Dist(head, end) = max - 1 <=> NextIndex(end) = head)
  BY Zenon, <1>1, DistRange DEF QueueAssumption
<1>8. CASE NextIndex(end) = head
  <2>1. Contents' = ItemsOf(NextIndex(head), NextIndex(end), queue)
    BY Zenon, <1>3, <1>4, <1>8 DEF Shape
  <2>2. Contents' = Append(Tail(Contents), queue[end])
    BY Zenon, <1>1, <1>6, <1>8, <2>1, ItemsForce
  <2>. QED  BY SMTT(60), <1>3, <1>5, <1>6, <1>7, <1>8, <2>2 DEF Fifo!ForcePut
<1>9. CASE NextIndex(end) # head
  <2>1. Contents' = ItemsOf(head, NextIndex(end), queue) /\ Dist(head, end) < max - 1
    BY SMTT(60), <1>3, <1>4, <1>7, <1>9 DEF Shape
  <2>2. Contents' = Append(Contents, queue[end])
    BY Zenon, <1>1, <1>6, <2>1, ItemsAppend
  <2>. QED  BY Zenon, <1>3, <1>5, <1>6, <2>1, <2>2 DEF Fifo!ForcePut
<1>. QED  BY Zenon, <1>8, <1>9

\* Correcting head after a forced addition is no step of the queue.
LEMMA BumpStutters ==
    ASSUME QueueAssumption, QueueInv, Shape, Shape', UNCHANGED producer, NEW t \in Threads, Bump(t)
    PROVE  UNCHANGED <<Contents, recv>>
<1>1. Role(t) /\ DOMAIN pc = Threads /\ pc[t] = "bump"
  BY Zenon DEF QueueInv, TypeOK, Bump
<1>2. t = producer /\ op[t] = "force"
  BY Zenon, <1>1 DEF Role, Adder, Remover
<1>3. pc'[producer] # "bump"
  BY Zenon, <1>1, <1>2 DEF Bump, EndTurn, LoopStart
<1>4. HeadNow' = HeadNow
  BY Zenon, <1>1, <1>2, <1>3 DEF Shape, Bump
<1>. QED  BY Zenon, <1>4, Stutters DEF Bump

\* Writing the slot at end is no step of the queue.
LEMMA WriteStutters ==
    ASSUME QueueAssumption, QueueInv, Shape, Shape', UNCHANGED producer, NEW t \in Threads, Write(t)
    PROVE  UNCHANGED <<Contents, recv>>
<1>0. Calm /\ Calm'
  BY Zenon, StepIsCalm
<1>1. HeadNow = head /\ HeadNow' = head /\ recv' = recv /\ end' = end
  BY Zenon, <1>0 DEF Shape, Calm, Write
<1>2. Contents' = ItemsOf(head, end, queue') /\ Contents = ItemsOf(head, end, queue)
  BY Zenon, <1>1 DEF Shape, Write
<1>3. head \in Slots /\ end \in Slots /\ queue \in [Slots -> Item]
  BY Zenon, <1>1 DEF Shape
<1>4. Contents' = Contents
  <2>1. \A k \in Slots \ {end} : queue'[k] = queue[k]
    BY Zenon, <1>3 DEF Write
  <2>2. ItemsOf(head, end, queue') = ItemsOf(head, end, queue)
    BY <1>3, <2>1, ItemsWrite
  <2>. QED  BY Zenon, <1>2, <2>2
<1>. QED  BY Zenon, <1>1, <1>4

\* Copying an item peeks at the oldest.
LEMMA CopyPeeks ==
    ASSUME QueueAssumption, QueueInv, Shape, Shape', UNCHANGED producer, NEW t \in Threads, Copy(t)
    PROVE  Fifo!Peek
<1>1. HeadNow = head /\ HeadNow' = head /\ UNCHANGED lq /\ recv' = queue[head]
  BY Zenon, StepIsCalm DEF Shape, Calm, Copy, lq
<1>2. Fit(t) /\ pc[t] = "copy" /\ left[t] \in Nat
  BY Zenon DEF QueueInv, TypeOK, Copy
<1>3. head \in Slots /\ end \in Slots /\ queue \in [Slots -> Item] /\ head # end
  <2>1. head \in Slots /\ end \in Slots /\ queue \in [Slots -> Item]
    BY Zenon, <1>1 DEF Shape
  <2>2. Dist(head, end) \in Int /\ (Dist(head, end) = 0 <=> head = end)
    BY Zenon, <2>1, DistRange
  <2>3. left[t] <= Dist(head, end) /\ left[t] >= 1
    BY Zenon, <1>2 DEF Fit
  <2>4. Dist(head, end) # 0
    BY <1>2, <2>2, <2>3
  <2>. QED  BY Zenon, <2>1, <2>2, <2>4
<1>4. Contents' = Contents /\ Contents = ItemsOf(head, end, queue)
  BY Zenon, <1>1 DEF Shape, lq
<1>. QED  BY Zenon, <1>1, <1>3, <1>4, ItemsHead DEF Fifo!Peek

\* Moving head on discards the oldest item.
LEMMA DropDiscards ==
    ASSUME QueueAssumption, QueueInv, Shape, Shape', UNCHANGED producer, NEW t \in Threads, Drop(t)
    PROVE  \E k \in 1 .. Len(Contents) : Fifo!Discard(k)
<1>1. HeadNow = head /\ HeadNow' = NextIndex(head) /\ UNCHANGED <<end, queue, recv>>
  BY Zenon, StepIsCalm DEF Shape, Calm, Drop
<1>2. Fit(t) /\ pc[t] = "drop" /\ left[t] \in Nat
  BY Zenon DEF QueueInv, TypeOK, Drop
<1>3. head \in Slots /\ end \in Slots /\ queue \in [Slots -> Item] /\ head # end
  <2>1. head \in Slots /\ end \in Slots /\ queue \in [Slots -> Item]
    BY Zenon, <1>1 DEF Shape
  <2>2. Dist(head, end) \in Int /\ (Dist(head, end) = 0 <=> head = end)
    BY Zenon, <2>1, DistRange
  <2>3. left[t] <= Dist(head, end) /\ left[t] >= 1
    BY Zenon, <1>2 DEF Fit
  <2>4. Dist(head, end) # 0
    BY <1>2, <2>2, <2>3
  <2>. QED  BY Zenon, <2>1, <2>2, <2>4
<1>4. /\ NextIndex(head) \in Slots /\ Dist(NextIndex(head), end) = Dist(head, end) - 1
      /\ Dist(head, end) \in Int /\ Dist(head, end) >= 1
  BY <1>3, NextInSlots, DistDrop, DistRange
<1>5. /\ Contents = ItemsOf(head, end, queue) /\ Len(Contents) = Dist(head, end)
      /\ Contents' = ItemsOf(NextIndex(head), end, queue)
  <2>1. Contents = ItemsOf(head, end, queue) /\ Contents' = ItemsOf(NextIndex(head), end, queue)
    BY Zenon, <1>1 DEF Shape
  <2>. QED  BY Zenon, <1>3, <2>1, ItemsFacts
<1>6. Dist(NextIndex(head), end) <= Dist(head, end) /\ Dist(head, end) - Dist(NextIndex(head), end) = 1
  BY <1>4
<1>7. Contents' = SubSeq(Contents, 1 + 1, Len(Contents))
  <2>1. Contents' = SubSeq(Contents, (Dist(head, end) - Dist(NextIndex(head), end)) + 1, Len(Contents))
    BY <1>3, <1>4, <1>5, <1>6, ItemsDrop
  <2>. QED  BY Zenon, <1>6, <2>1
<1>. QED  BY SMTT(60), <1>1, <1>4, <1>5, <1>7 DEF Fifo!Discard

\* Storing the end read before in head discards the items that were there then.
LEMMA StoreHeadDiscards ==
    ASSUME QueueAssumption, QueueInv, Shape, Shape', UNCHANGED producer, NEW t \in Threads, StoreHead(t)
    PROVE  (\E k \in 1 .. Len(Contents) : Fifo!Discard(k)) \/ UNCHANGED <<Contents, recv>>
<1>1. HeadNow = head /\ HeadNow' = ask[t] /\ UNCHANGED <<end, queue, recv>>
  BY Zenon, StepIsCalm DEF Shape, Calm, StoreHead
<1>2. Fit(t) /\ pc[t] = "delete_all"
  BY Zenon DEF QueueInv, StoreHead
<1>3. /\ head \in Slots /\ end \in Slots /\ queue \in [Slots -> Item]
      /\ ask[t] \in Slots /\ Dist(ask[t], end) <= Dist(head, end)
  BY Zenon, <1>1, <1>2 DEF Shape, Fit
<1> DEFINE k == Dist(head, end) - Dist(ask[t], end)
<1>4. k \in Nat /\ k <= Dist(head, end) /\ Dist(head, end) \in Int
  BY <1>3, DistRange
<1>5. /\ Contents = ItemsOf(head, end, queue) /\ Len(Contents) = Dist(head, end)
      /\ Contents' = ItemsOf(ask[t], end, queue) /\ Contents \in Seq(Item)
  <2>1. Contents = ItemsOf(head, end, queue) /\ Contents' = ItemsOf(ask[t], end, queue)
    BY Zenon, <1>1 DEF Shape
  <2>. QED  BY Zenon, <1>3, <2>1, ItemsFacts
<1>6. Contents' = SubSeq(Contents, k + 1, Len(Contents))
  BY <1>3, <1>5, ItemsDrop
<1>7. CASE k = 0
  <2>1. Contents' = SubSeq(Contents, 1, Len(Contents))
    BY <1>6, <1>7
  <2>. QED  BY Zenon, <1>1, <1>5, <2>1, TailDrops
<1>8. CASE k # 0
  <2>1. k \in 1 .. Len(Contents)
    BY <1>4, <1>5, <1>8
  <2>2. Fifo!Discard(k)
    BY Zenon, <1>1, <1>6 DEF Fifo!Discard
  <2>. QED  BY Zenon, <2>1, <2>2
<1>. QED  BY Zenon, <1>7, <1>8

\* Every step is one of the abstract queue or changes nothing of it.
LEMMA StepSimulated ==
    ASSUME QueueAssumption, QueueInv, Shape, Shape', [Next]_vars
    PROVE  [Fifo!Next]_<<Contents, recv>>
<1>1. CASE UNCHANGED vars
  BY Zenon, <1>1 DEF vars, lq, locals, Contents, Used, HeadNow, Threads
<1>2. CASE Next
  <2>1. UNCHANGED producer
    BY Zenon, <1>2 DEF Next
  <2>2. CASE Adding \/ Removing
    <3>1. HeadNow' = HeadNow /\ UNCHANGED <<end, queue, recv>>
      BY Zenon, <2>1, <2>2, CallIsCalm DEF Shape, Calm, lq
    <3>. QED  BY Zenon, <3>1, Stutters
  <2>3. ASSUME NEW t \in Threads, Running(t) PROVE [Fifo!Next]_<<Contents, recv>>
    <3>1. CASE Compare(t) \/ Subtract(t)
      <4>1. Calm /\ Calm'
        BY Zenon, <2>1, <3>1, StepIsCalm
      <4>2. HeadNow' = HeadNow /\ UNCHANGED <<end, queue, recv>>
        BY Zenon, <3>1, <4>1 DEF Shape, Calm, Compare, Subtract, lq
      <4>. QED  BY Zenon, <4>2, Stutters
    <3>2. CASE Advance(t)
      BY Zenon, <2>1, <3>2, AddPuts, ForcePuts DEF Fifo!Next
    <3>3. CASE Write(t) \/ Bump(t)
      BY Zenon, <2>1, <3>3, WriteStutters, BumpStutters
    <3>4. CASE Copy(t)
      BY Zenon, <2>1, <3>4, CopyPeeks DEF Fifo!Next
    <3>5. CASE Drop(t)
      BY Zenon, <2>1, <3>5, DropDiscards DEF Fifo!Next
    <3>6. CASE StoreHead(t)
      BY Zenon, <2>1, <3>6, StoreHeadDiscards DEF Fifo!Next
    <3>. QED  BY Zenon, <2>3, <3>1, <3>2, <3>3, <3>4, <3>5, <3>6 DEF Running
  <2>. QED  BY Zenon, <1>2, <2>2, <2>3 DEF Next
<1>. QED  BY Zenon, <1>1, <1>2

\* The ring buffer implements the bounded first-in first-out queue: with one thread, or with
\* one that adds and one that removes and no lock between them, for an array of any length.
THEOREM RingIsFifo == ASSUME QueueAssumption PROVE Spec => ImplementsFifo
<1>1. Init /\ QueueInv => Fifo!Init
  <2> SUFFICES ASSUME Init, QueueInv PROVE Contents = << >> /\ recv = Zero
    BY Zenon DEF Fifo!Init
  <2>1. Shape /\ HeadNow = end
    BY Zenon, ContentsShape DEF Init, Threads, Shape
  <2>2. Dist(HeadNow, end) = 0
    BY Zenon, <2>1, DistRange DEF Shape
  <2>3. Contents \in Seq(Item) /\ Len(Contents) = 0
    BY Zenon, <2>1, <2>2, ItemsFacts DEF Shape
  <2>. QED  BY <2>3 DEF Init
<1>2. QueueInv /\ QueueInv' /\ [Next]_vars => [Fifo!Next]_<<Contents, recv>>
  BY Zenon, ContentsShape, ContentsShapeNext, StepSimulated
<1>. QED  BY <1>1, <1>2, QueueInvariant, PTL DEF Spec, ImplementsFifo, Fifo!Spec
=============================================================================

----------------------------- MODULE LoopQueue ------------------------------
(***************************************************************************)
(* The ring buffer of loopQueue/loopQueue.c and loopQueue.h with its       *)
(* default callbacks.                                                      *)
(*                                                                         *)
(* The library takes no lock.  One thread adds (it writes end and the      *)
(* slots) and one removes (it writes head); producer = Consumer is the     *)
(* single-threaded use of loopQueue_example.c.  Every step reads the index *)
(* of the other thread at most once, so that the threads interleave        *)
(* between any two such reads: loopQueueGetUseLength compares the indices  *)
(* and then reads them again to subtract them.  A forced addition to a     *)
(* full queue moves head, which belongs to the other thread, and is only   *)
(* used with a single thread.                                              *)
(***************************************************************************)
EXTENDS Integers, Sequences

CONSTANTS Producers, Consumer,  \* the threads that may add, and the one that removes
          max,                  \* length of the array
          Values,               \* the items
          Zero,                 \* what a slot never written holds
          MaxMulti              \* bound on the counts asked for in one call

QueueAssumption ==
    /\ max \in Nat /\ max >= 2
    /\ MaxMulti \in Nat
    /\ Zero \notin Values

VARIABLES producer,             \* the thread that adds
          head, end, queue,     \* lq_t
          recv,                 \* recvData[0], all the default getter writes
          inspected,            \* what the last loopQueueInspectMulti returned to the consumer
          data,                 \* *newData of the last call that adds
          pc, op, ask, ahead, left   \* locals of each thread

lq == <<head, end, queue>>
locals == <<pc, op, ask, ahead, left>>
vars == <<producer, lq, recv, inspected, data, locals>>

Threads == Producers \cup {Consumer}
Slots == 0 .. max - 1

NextIndex(i) == (i + 1) % max
IsEmpty == head = end
IsFull == NextIndex(end) = head
Smaller(a, b) == IF a < b THEN a ELSE b

Init ==
    /\ producer \in Producers
    /\ head = 0 /\ end = 0
    /\ queue = [i \in Slots |-> Zero]
    /\ recv = Zero
    /\ inspected = 0
    /\ data = Zero
    /\ pc = [t \in Threads |-> "idle"]
    /\ op = [t \in Threads |-> "none"]
    /\ ask = [t \in Threads |-> 0]
    /\ ahead = [t \in Threads |-> FALSE]
    /\ left = [t \in Threads |-> 0]

-----------------------------------------------------------------------------
\* The loop of a call: where a turn starts, and what follows the end of one.

LoopStart(o) == CASE o \in {"add", "force"} -> "write"
                  [] o \in {"get", "inspect"} -> "copy"
                  [] o = "delete" -> "drop"

\* The loop of call o is entered with n turns to make, none if n is negative.
Enter(t, o, n) ==
    /\ pc' = [pc EXCEPT ![t] = IF n > 0 THEN LoopStart(o) ELSE "idle"]
    /\ op' = [op EXCEPT ![t] = IF n > 0 THEN o ELSE "none"]
    /\ left' = [left EXCEPT ![t] = IF n > 0 THEN n ELSE 0]

\* The turn under way was not, or was, the last one.
EndTurn(t) ==
    /\ left' = [left EXCEPT ![t] = @ - 1]
    /\ pc' = [pc EXCEPT ![t] = IF left[t] > 1 THEN LoopStart(op[t]) ELSE "idle"]
    /\ op' = [op EXCEPT ![t] = IF left[t] > 1 THEN @ ELSE "none"]

\* The locals other than those of the loop die with the call.
NoLocals(t) ==
    /\ ask' = [ask EXCEPT ![t] = 0]
    /\ ahead' = [ahead EXCEPT ![t] = FALSE]

-----------------------------------------------------------------------------
\* Adding.

\* loopQueueAddOne: refused when full.
AddOne(v) ==
    /\ pc[producer] = "idle"
    /\ Enter(producer, "add", IF IsFull THEN 0 ELSE 1)
    /\ data' = v
    /\ UNCHANGED <<lq, recv, inspected, ask, ahead>>

\* loopQueueForceAddOne (n = 1) and loopQueueForceAddMulti.
ForceAdd(v, n) ==
    /\ producer = Consumer
    /\ pc[producer] = "idle"
    /\ Enter(producer, "force", n)
    /\ data' = v
    /\ UNCHANGED <<lq, recv, inspected, ask, ahead>>

\* A call that first measures the queue: loopQueueAddMulti, loopQueueGetMulti,
\* loopQueueInspectMulti and loopQueueDeleteMulti.
Measured(t, o, n) ==
    /\ pc[t] = "idle"
    /\ pc' = [pc EXCEPT ![t] = "compare"]
    /\ op' = [op EXCEPT ![t] = o]
    /\ ask' = [ask EXCEPT ![t] = n]
    /\ UNCHANGED <<lq, recv, ahead, left>>

AddMulti(v, n) ==
    /\ Measured(producer, "add", n)
    /\ data' = v
    /\ UNCHANGED inspected

\* loopQueueGetUseLength: the comparison of end and head ...
Compare(t) ==
    /\ pc[t] = "compare"
    /\ ahead' = [ahead EXCEPT ![t] = end >= head]
    /\ pc' = [pc EXCEPT ![t] = "subtract"]
    /\ UNCHANGED <<lq, recv, inspected, op, ask, left, data>>

UseLength(isAhead) == IF isAhead THEN end - head ELSE (max - head) + end

\* Mutant of Room: the slot that is always left free is counted.
RoomOfMax(t) ==
    IF op[t] = "add" THEN max - UseLength(ahead[t]) ELSE UseLength(ahead[t])

\* What the call can add (loopQueueGetIdleLength), or remove.
Room(t) ==
    IF op[t] = "add" THEN max - 1 - UseLength(ahead[t]) ELSE UseLength(ahead[t])

\* ... and the subtraction, with the bound on the number of turns.
Subtract(t) ==
    /\ pc[t] = "subtract"
    /\ LET n == Smaller(ask[t], Room(t)) IN
           /\ Enter(t, op[t], n)
           /\ inspected' = IF op[t] = "inspect" THEN n ELSE inspected
    /\ NoLocals(t)
    /\ UNCHANGED <<lq, recv, data>>

\* The default addOneDataFunc.
Write(t) ==
    /\ pc[t] = "write"
    /\ queue' = [queue EXCEPT ![end] = data]
    /\ pc' = [pc EXCEPT ![t] = "advance"]
    /\ UNCHANGED <<head, end, recv, inspected, op, ask, ahead, left, data>>

\* loopQueueNonFullFastAddOne.
Advance(t) ==
    /\ pc[t] = "advance"
    /\ end' = NextIndex(end)
    /\ IF op[t] = "force"
       THEN pc' = [pc EXCEPT ![t] = "bump"] /\ UNCHANGED <<op, left>>
       ELSE EndTurn(t)
    /\ UNCHANGED <<head, queue, recv, inspected, ask, ahead, data>>

\* Mutant of Bump: the oldest item is not dropped.
BumpNothing(t) ==
    /\ pc[t] = "bump"
    /\ EndTurn(t)
    /\ UNCHANGED <<lq, recv, inspected, ask, ahead, data>>

\* The rest of loopQueueUnknownFullFastAddOne: the oldest item is dropped if the
\* queue was full.
Bump(t) ==
    /\ pc[t] = "bump"
    /\ head' = IF end = head THEN NextIndex(head) ELSE head
    /\ EndTurn(t)
    /\ UNCHANGED <<end, queue, recv, inspected, ask, ahead, data>>

-----------------------------------------------------------------------------
\* Removing.

\* loopQueueGetOne: refused when empty; it copies nothing to recvData.
GetOne ==
    /\ pc[Consumer] = "idle"
    /\ Enter(Consumer, "delete", IF IsEmpty THEN 0 ELSE 1)
    /\ inspected' = 0
    /\ UNCHANGED <<lq, recv, ask, ahead, data>>

GetMulti(n) == Measured(Consumer, "get", n) /\ inspected' = 0 /\ UNCHANGED data
InspectMulti(n) == Measured(Consumer, "inspect", n) /\ inspected' = 0 /\ UNCHANGED data
DeleteMulti(n) == Measured(Consumer, "delete", n) /\ inspected' = 0 /\ UNCHANGED data

\* loopQueueInspectDelete makes as many turns as it is told, without a test: the
\* consumer passes at most what its last inspection returned.
InspectDelete(n) ==
    /\ pc[Consumer] = "idle"
    /\ n <= inspected
    /\ Enter(Consumer, "delete", n)
    /\ inspected' = 0
    /\ UNCHANGED <<lq, recv, ask, ahead, data>>

\* loopQueueDeleteAll reads end ...
DeleteAll ==
    /\ pc[Consumer] = "idle"
    /\ pc' = [pc EXCEPT ![Consumer] = "delete_all"]
    /\ ask' = [ask EXCEPT ![Consumer] = end]
    /\ inspected' = 0
    /\ UNCHANGED <<lq, recv, op, ahead, left, data>>

\* ... and stores it in head.
StoreHead(t) ==
    /\ pc[t] = "delete_all"
    /\ head' = ask[t]
    /\ pc' = [pc EXCEPT ![t] = "idle"]
    /\ NoLocals(t)
    /\ UNCHANGED <<end, queue, recv, inspected, op, left, data>>

\* The default getOneDataFunc: the item at head goes to recvData[0], whatever recvIndex.
Copy(t) ==
    /\ pc[t] = "copy"
    /\ recv' = queue[head]
    /\ IF op[t] = "get"
       THEN pc' = [pc EXCEPT ![t] = "drop"] /\ UNCHANGED <<op, left>>
       ELSE EndTurn(t)
    /\ UNCHANGED <<lq, inspected, ask, ahead, data>>

\* loopQueueNonEmptyFastGetOne.
Drop(t) ==
    /\ pc[t] = "drop"
    /\ head' = NextIndex(head)
    /\ EndTurn(t)
    /\ UNCHANGED <<end, queue, recv, inspected, ask, ahead, data>>

-----------------------------------------------------------------------------
Running(t) ==
    \/ Compare(t) \/ Subtract(t)
    \/ Write(t) \/ Advance(t) \/ Bump(t)
    \/ Copy(t) \/ Drop(t) \/ StoreHead(t)

Adding == \E v \in Values : AddOne(v) \/ \E n \in 0 .. MaxMulti : AddMulti(v, n) \/ ForceAdd(v, n)

Removing ==
    \/ GetOne \/ DeleteAll
    \/ \E n \in 0 .. MaxMulti : GetMulti(n) \/ InspectMulti(n) \/ DeleteMulti(n) \/ InspectDelete(n)

Next ==
    /\ Adding \/ Removing \/ \E t \in Threads : Running(t)
    /\ UNCHANGED producer

Spec == Init /\ [][Next]_vars
-----------------------------------------------------------------------------
\* Every variable has its type; in particular both indices stay inside the array.
TypeOK ==
    /\ producer \in Producers
    /\ head \in Slots /\ end \in Slots
    /\ queue \in [Slots -> Values \cup {Zero}]
    /\ recv \in Values \cup {Zero}
    /\ inspected \in Int
    /\ data \in Values \cup {Zero}
    /\ pc \in [Threads -> {"idle", "compare", "subtract", "write", "advance", "bump",
                           "copy", "drop", "delete_all"}]
    /\ op \in [Threads -> {"none", "add", "force", "get", "inspect", "delete"}]
    /\ ask \in [Threads -> Nat]
    /\ ahead \in [Threads -> BOOLEAN]
    /\ left \in [Threads -> Nat]

\* The premises written on the two macros (loopQueue.h:65 "the queue is known not to be
\* full", loopQueue.h:74 "there is data in the queue") hold whenever they are used in a
\* loop that measured the queue once, before its first turn, while the other thread went on.
PremisesHold ==
    \A t \in Threads :
        /\ pc[t] \in {"write", "advance"} /\ op[t] = "add" => ~IsFull
        /\ pc[t] \in {"copy", "drop"} => ~IsEmpty

\* The queue as its user sees it.  Between the two assignments of a forced addition to
\* a full queue head is one behind.
HeadNow ==
    IF end = head /\ \E t \in Threads : pc[t] = "bump" THEN NextIndex(head) ELSE head
Used == (end - HeadNow + max) % max
Contents == [i \in 1 .. Used |-> queue[(HeadNow + i - 1) % max]]

Fifo == INSTANCE BoundedFifo WITH Capacity <- max - 1, items <- Contents, got <- recv

\* The ring buffer is a first-in first-out queue of max - 1 items: nothing is lost,
\* duplicated, reordered or overwritten, and a reader copies the oldest item.
ImplementsFifo == Fifo!Spec
=============================================================================

---------------------------- MODULE MCContainers ----------------------------
(***************************************************************************)
(* The two containers of the repository, the lists of List and the ring    *)
(* buffer of LoopQueue: a behaviour uses one of them, and the other stays  *)
(* as it was initialized.                                                  *)
(***************************************************************************)
EXTENDS List, TLC

CONSTANTS Producers, Consumer, max, Values, Zero, MaxMulti   \* of LoopQueue

VARIABLES part,
          producer, head, end, queue, recv, inspected, data, pc, op, ask, ahead, left

queueVars == <<producer, head, end, queue, recv, inspected, data, pc, op, ask, ahead, left>>

Queue == INSTANCE LoopQueue

ASSUME Queue!QueueAssumption

MCInit ==
    /\ Init /\ Queue!Init
    /\ part \in {"list", "queue"}
    /\ part = "list" => producer = Consumer

MCNext ==
    \/ part = "list" /\ Next /\ UNCHANGED <<part, queueVars>>
    \/ part = "queue" /\ Queue!Next /\ UNCHANGED <<part, vars>>

\* The premises written on the fast macros hold wherever they are used (loopQueue.h).
PremisesHold == Queue!PremisesHold

\* The ring buffer is a bounded first-in first-out queue (loopQueue.c).
ImplementsFifo == Queue!ImplementsFifo

\* What the items in the queue are makes no difference.
Symmetry == Permutations(Values)
=============================================================================

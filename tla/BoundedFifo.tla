---------------------------- MODULE BoundedFifo -----------------------------
(***************************************************************************)
(* What a loop queue promises: a first-in first-out queue of at most       *)
(* Capacity items.  A forced addition to a full queue drops the oldest     *)
(* item; a reader copies the oldest item and removes items from the front. *)
(***************************************************************************)
EXTENDS Naturals, Sequences

CONSTANTS Values, Capacity, Zero

VARIABLES items,    \* the items in the queue, oldest first
          got       \* the last item copied to a reader, Zero before that

Init == items = <<>> /\ got = Zero

Put(v) ==
    /\ Len(items) < Capacity
    /\ items' = Append(items, v)
    /\ UNCHANGED got

ForcePut(v) ==
    /\ items' = Append(IF Len(items) < Capacity THEN items ELSE Tail(items), v)
    /\ UNCHANGED got

Peek ==
    /\ items # <<>>
    /\ got' = Head(items)
    /\ UNCHANGED items

Discard(k) ==
    /\ items' = SubSeq(items, k + 1, Len(items))
    /\ UNCHANGED got

Next ==
    \/ \E v \in Values : Put(v) \/ ForcePut(v)
    \/ Peek
    \/ \E k \in 1 .. Len(items) : Discard(k)

Spec == Init /\ [][Next]_<<items, got>>
=============================================================================

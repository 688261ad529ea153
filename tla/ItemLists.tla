----------------------------- MODULE ItemLists ------------------------------
(***************************************************************************)
(* What list.h promises: every list is a sequence of items, an item is on  *)
(* at most one list, and a call inserts one item anywhere or removes one.  *)
(***************************************************************************)
EXTENDS Naturals, Sequences

CONSTANTS Lists, Items

VARIABLE lists      \* the sequence of items of each list

On(x, s) == \E i \in 1 .. Len(s) : s[i] = x

Init == lists = [l \in Lists |-> <<>>]

Insert(l, i, x) ==
    /\ \A k \in Lists : ~On(x, lists[k])
    /\ i \in 0 .. Len(lists[l])
    /\ lists' = [lists EXCEPT ![l] = SubSeq(@, 1, i) \o <<x>> \o SubSeq(@, i + 1, Len(@))]

Remove(l, i) ==
    /\ i \in 1 .. Len(lists[l])
    /\ lists' = [lists EXCEPT ![l] = SubSeq(@, 1, i - 1) \o SubSeq(@, i + 1, Len(@))]

Next == \E l \in Lists : \/ \E x \in Items, i \in 0 .. Len(lists[l]) : Insert(l, i, x)
                         \/ \E i \in 1 .. Len(lists[l]) : Remove(l, i)

Spec == Init /\ [][Next]_lists
=============================================================================

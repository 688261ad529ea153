-------------------------------- MODULE List --------------------------------
(***************************************************************************)
(* The intrusive circular doubly linked list of list/list.h.  A list is a  *)
(* node of its own, the sentinel; its items are the nodes reached from it. *)
(* The header takes no lock: one thread calls it, and a call is one step,  *)
(* with the order of its assignments kept where two of them meet in one    *)
(* node.  An iteration with list_for_every_safe is one step per turn; its  *)
(* body may delete the current node.                                       *)
(*                                                                         *)
(* Callers insert an item only while it is on no list (list_in_list), and  *)
(* delete it, or insert next to it, only while it is on one.               *)
(***************************************************************************)
EXTENDS Naturals, Sequences, FiniteSets

CONSTANTS Lists, Items, NULL

ASSUME ListAssumption ==
    /\ Lists \cap Items = {}
    /\ NULL \notin Lists \cup Items

Nodes == Lists \cup Items

VARIABLES prev, next,               \* the two words of every node
          list, node, temp_node,    \* the iteration under way; list is NULL if there is none
          due                       \* history: the items the iteration still has to visit

links == <<prev, next>>
iteration == <<list, node, temp_node, due>>
vars == <<links, iteration>>

\* list_initialize of every list, list_clear_node of every item.
Init ==
    /\ prev = [x \in Nodes |-> IF x \in Lists THEN x ELSE NULL]
    /\ next = [x \in Nodes |-> IF x \in Lists THEN x ELSE NULL]
    /\ list = NULL /\ node = NULL /\ temp_node = NULL
    /\ due = <<>>

list_in_list(x) == ~(prev[x] = NULL /\ next[x] = NULL)

-----------------------------------------------------------------------------
\* The items of list l in the order of the next pointers.
Walk(l) ==
    LET at[n \in 0 .. Cardinality(Items)] ==
            IF n = 0 THEN next[l] ELSE IF at[n - 1] \in Nodes THEN next[at[n - 1]] ELSE NULL
        onList == {n \in 0 .. Cardinality(Items) : \A k \in 0 .. n : at[k] \in Items}
    IN  [n \in 1 .. Cardinality(onList) |-> at[n - 1]]

-----------------------------------------------------------------------------
\* Mutant of list_add_head: the node after is not linked back.
list_add_headOneWay(e, x) ==
    /\ next' = [next EXCEPT ![x] = next[e], ![e] = x]
    /\ prev' = [prev EXCEPT ![x] = e]

list_add_head(e, x) ==
    /\ next' = [next EXCEPT ![x] = next[e], ![e] = x]
    /\ prev' = [prev EXCEPT ![x] = e, ![next[e]] = x]

list_add_tail(e, x) ==
    /\ prev' = [prev EXCEPT ![x] = prev[e], ![e] = x]
    /\ next' = [next EXCEPT ![x] = e, ![prev[e]] = x]

\* Mutants of list_delete: its list skips one more item; the item is made a
\* list of its own instead of being cleared.
list_deleteSkips(x) ==
    /\ prev' = [prev EXCEPT ![next[next[x]]] = prev[x], ![x] = NULL]
    /\ next' = [next EXCEPT ![prev[x]] = next[next[x]], ![x] = NULL]
list_deleteInitializes(x) ==
    /\ prev' = [prev EXCEPT ![next[x]] = prev[x], ![x] = x]
    /\ next' = [next EXCEPT ![prev[x]] = next[x], ![x] = x]

list_delete(x) ==
    /\ prev' = [prev EXCEPT ![next[x]] = prev[x], ![x] = NULL]
    /\ next' = [next EXCEPT ![prev[x]] = next[x], ![x] = NULL]

-----------------------------------------------------------------------------
\* The calls of the user.  The entry is a list or, as list_add_after and
\* list_add_before have it, an item on a list.

Add(e, x) ==
    /\ list = NULL
    /\ e \in Items => list_in_list(e)
    /\ ~list_in_list(x)
    /\ list_add_head(e, x) \/ list_add_tail(e, x)
    /\ UNCHANGED iteration

Delete(x) ==
    /\ list = NULL
    /\ list_in_list(x)
    /\ list_delete(x)
    /\ UNCHANGED iteration

list_remove_head(l) ==
    /\ list = NULL
    /\ next[l] # l
    /\ list_delete(next[l])
    /\ UNCHANGED iteration

list_remove_tail(l) ==
    /\ list = NULL
    /\ prev[l] # l
    /\ list_delete(prev[l])
    /\ UNCHANGED iteration

-----------------------------------------------------------------------------
\* list_for_every_safe and list_for_every_entry_safe.

IterateFirst(l) ==
    /\ list = NULL
    /\ list' = l
    /\ node' = next[l]
    /\ temp_node' = next[next[l]]
    /\ due' = Walk(l)
    /\ UNCHANGED links

\* Mutants of IterateNext: the successor is taken from the node the body may have deleted;
\* the node left behind is taken for the next one.
IterateNextUnsafe ==
    /\ node' = next'[node]
    /\ temp_node' = node'
    /\ due' = Tail(due)
    /\ UNCHANGED list
IterateNextBack ==
    /\ node' = temp_node
    /\ temp_node' = node
    /\ UNCHANGED <<list, due>>

\* node = temp_node, temp_node = node->next, after the body.
IterateNext ==
    /\ node' = temp_node
    /\ temp_node' = next'[temp_node]
    /\ due' = Tail(due)
    /\ UNCHANGED list

\* A turn whose body keeps the current node, or deletes it.
IterateKeep == list # NULL /\ node # list /\ UNCHANGED links /\ IterateNext
IterateDelete == list # NULL /\ node # list /\ list_delete(node) /\ IterateNext

IterateEnd ==
    /\ list # NULL
    /\ node = list
    /\ list' = NULL /\ node' = NULL /\ temp_node' = NULL
    /\ due' = <<>>
    /\ UNCHANGED links

-----------------------------------------------------------------------------
Calls ==
    \/ \E e \in Nodes, x \in Items : Add(e, x)
    \/ \E x \in Items : Delete(x)
    \/ \E l \in Lists : list_remove_head(l) \/ list_remove_tail(l) \/ IterateFirst(l)

Iterating == IterateKeep \/ IterateDelete \/ IterateEnd

Next == Calls \/ Iterating

Spec == Init /\ [][Next]_vars
FairSpec == Spec /\ WF_vars(Iterating)
-----------------------------------------------------------------------------
\* What the queries return.

list_peek_head(l) == IF next[l] # l THEN next[l] ELSE NULL
list_peek_tail(l) == IF prev[l] # l THEN prev[l] ELSE NULL
list_prev(l, x) == IF prev[x] # l THEN prev[x] ELSE NULL
list_next(l, x) == IF next[x] # l THEN next[x] ELSE NULL
list_is_empty(l) == next[l] = l
list_length(l) == Len(Walk(l))

\* Mutant of list_prev_wrap: the last alternative looks in the wrong direction.
list_prev_wrapForward(l, x) ==
    IF prev[x] # l THEN prev[x] ELSE IF next[prev[x]] # l THEN next[prev[x]] ELSE NULL

list_prev_wrap(l, x) ==
    IF prev[x] # l THEN prev[x] ELSE IF prev[prev[x]] # l THEN prev[prev[x]] ELSE NULL

list_next_wrap(l, x) ==
    IF next[x] # l THEN next[x] ELSE IF next[next[x]] # l THEN next[next[x]] ELSE NULL

-----------------------------------------------------------------------------
\* Every variable has its type, and the node of an iteration is never NULL, so that
\* node->next is defined.
TypeOK ==
    /\ prev \in [Nodes -> Nodes \cup {NULL}]
    /\ next \in [Nodes -> Nodes \cup {NULL}]
    /\ list \in Lists \cup {NULL}
    /\ list # NULL => node \in Nodes /\ temp_node \in Nodes

\* The two directions agree at every node on a list, however items were inserted,
\* removed and moved, and an item on no list has both pointers cleared, which is what
\* list_in_list tests.  The sentinels are always linked.
LinksAgree ==
    \A x \in Nodes :
        \/ x \in Items /\ prev[x] = NULL /\ next[x] = NULL
        \/ /\ prev[x] \in Nodes /\ next[x] \in Nodes
           /\ next[prev[x]] = x
           /\ prev[next[x]] = x

\* Sets of nodes that the next pointers of their items do not leave.
Closed(S) == \A x \in S \cap Items : next[x] \in S

\* The walk along next from a list comes back to that list and to no other, and no items
\* are linked among themselves only, so that list_for_every, which stops only at the
\* sentinel it was given, stops after the items of its list.
WalksReturn ==
    /\ \A l \in Lists, S \in SUBSET Nodes : next[l] \in S /\ Closed(S) => l \in S
    /\ \A S \in SUBSET Items : S # {} => ~Closed(S)

\* The node an iteration with the safe macro is at, and the one it holds for the next
\* turn, are still linked, whatever the body deleted before, and the walk from there
\* leads to the list it was started on.
IterationOnList ==
    list # NULL => /\ list_in_list(node)
                   /\ list_in_list(temp_node)
                   /\ temp_node = next[node]
                   /\ \A S \in SUBSET Nodes : node \in S /\ Closed(S) => list \in S

Abstract == INSTANCE ItemLists WITH lists <- [l \in Lists |-> Walk(l)]

\* The linked lists are sequences, and a call inserts or removes one item.
ImplementsLists == Abstract!Spec

\* The lists are linked both ways, every walk comes back, and an iteration under way
\* is on its list.
ListsSound == LinksAgree /\ WalksReturn /\ IterationOnList

\* The queries agree with the sequence: first and last, neighbours, and neighbours with
\* wrap-around, which lead from either end to the other.
QueriesAgree ==
    \A l \in Lists :
        LET s == Walk(l)
            n == Len(s)
        IN  /\ list_is_empty(l) <=> n = 0
            /\ list_peek_head(l) = IF n = 0 THEN NULL ELSE s[1]
            /\ list_peek_tail(l) = IF n = 0 THEN NULL ELSE s[n]
            /\ \A i \in 1 .. n :
                   /\ list_next(l, s[i]) = IF i = n THEN NULL ELSE s[i + 1]
                   /\ list_prev(l, s[i]) = IF i = 1 THEN NULL ELSE s[i - 1]
                   /\ list_next_wrap(l, s[i]) = IF i = n THEN s[1] ELSE s[i + 1]
                   /\ list_prev_wrap(l, s[i]) = IF i = 1 THEN s[n] ELSE s[i - 1]

\* An iteration with the safe macro visits every item that was on the list when it
\* began, once and in order, whichever of them its body deletes (list.h:228).
VisitsEach ==
    list # NULL => IF due = <<>> THEN node = list ELSE node = Head(due)

\* What a caller sees: the queries' answers, and the order of an iteration.
AnswersRight == QueriesAgree /\ VisitsEach

\* Every iteration ends.
IterationEnds == list # NULL ~> list = NULL
=============================================================================

----------------------------- MODULE ListProofs -----------------------------
(***************************************************************************)
(* For any lists and items: the links agree, walks return to their list,   *)
(* and an iteration whose body deletes the current node never follows a    *)
(* cleared pointer.                                                        *)
(*                                                                         *)
(* An insertion before an entry is one after its predecessor, so one       *)
(* argument serves both.  Reachability is stated with closed sets: a set   *)
(* closed after the call, with or without the item that was inserted or    *)
(* deleted, is closed before it.                                           *)
(***************************************************************************)
EXTENDS List, TLAPS

\* Both pointers of x are set.
Linked(x) == prev[x] \in Nodes /\ next[x] \in Nodes

\* The inductive invariant.
IInv == TypeOK /\ LinksAgree /\ WalksReturn /\ IterationOnList

\* A node list_in_list reports has two neighbours, which point back at it.
LEMMA LinkedNodes ==
    ASSUME TypeOK, LinksAgree, NEW x \in Nodes
    PROVE  /\ x \in Lists => Linked(x)
           /\ list_in_list(x) <=> Linked(x)
           /\ Linked(x) => /\ next[prev[x]] = x /\ prev[next[x]] = x
                           /\ Linked(prev[x]) /\ Linked(next[x])
BY ListAssumption DEF TypeOK, LinksAgree, list_in_list, Linked, Nodes

\* list_add_before an entry is list_add_after its predecessor.
LEMMA TailIsHead ==
    ASSUME TypeOK, LinksAgree, NEW e \in Nodes, Linked(e), NEW x \in Items,
           list_add_tail(e, x)
    PROVE  list_add_head(prev[e], x)
BY Zenon, LinkedNodes DEF list_add_tail, list_add_head, Linked

\* What an insertion after e does to the two functions.
LEMMA AddLinks ==
    ASSUME TypeOK, LinksAgree, NEW e \in Nodes, Linked(e), NEW x \in Items, ~Linked(x),
           list_add_head(e, x)
    PROVE  /\ prev' \in [Nodes -> Nodes \cup {NULL}] /\ next' \in [Nodes -> Nodes \cup {NULL}]
           /\ x # e
           /\ next'[x] = next[e] /\ next'[e] = x
           /\ \A y \in Nodes \ {x, e} : next'[y] = next[y]
           /\ prev'[x] = e /\ prev'[next[e]] = x
           /\ \A y \in Nodes \ {x, next[e]} : prev'[y] = prev[y]
BY LinkedNodes DEF list_add_head, TypeOK, Linked, Nodes

\* What list_delete does to the two functions.
LEMMA DeleteLinks ==
    ASSUME TypeOK, LinksAgree, NEW x \in Items, Linked(x), prev[x] # x, list_delete(x)
    PROVE  /\ prev' \in [Nodes -> Nodes \cup {NULL}] /\ next' \in [Nodes -> Nodes \cup {NULL}]
           /\ next[x] # x
           /\ next'[x] = NULL /\ next'[prev[x]] = next[x]
           /\ \A y \in Nodes \ {x, prev[x]} : next'[y] = next[y]
           /\ prev'[x] = NULL /\ prev'[next[x]] = prev[x]
           /\ \A y \in Nodes \ {x, next[x]} : prev'[y] = prev[y]
<1>1. next[x] # x
  BY LinkedNodes DEF Linked, Nodes
<1> QED
  BY <1>1 DEF list_delete, TypeOK, Linked, Nodes

\* No item is its own neighbour.
LEMMA NotOwnNeighbour ==
    ASSUME TypeOK, LinksAgree, WalksReturn, NEW x \in Items, Linked(x)
    PROVE  prev[x] # x
<1>1. ~Closed({x})
  BY DEF WalksReturn
<1>2. next[x] # x
  BY <1>1 DEF Closed
<1> QED
  BY <1>2, LinkedNodes DEF Nodes

-----------------------------------------------------------------------------
\* An insertion keeps the links in agreement and the walks.
LEMMA AddKeeps ==
    ASSUME TypeOK, LinksAgree, WalksReturn,
           NEW e \in Nodes, Linked(e), NEW x \in Items, ~Linked(x), list_add_head(e, x)
    PROVE  LinksAgree' /\ WalksReturn'
<1>a. x \in Nodes /\ x \notin Lists /\ next[x] = NULL /\ NULL \notin Nodes
  BY ListAssumption DEF Nodes, LinksAgree, Linked
<1>1. \A y \in Nodes : next[y] # x
  BY <1>a, LinkedNodes DEF TypeOK, LinksAgree, Linked
<1>2. LinksAgree'
  <2>a. /\ next[e] \in Nodes /\ next[e] # x /\ prev[next[e]] = e
        /\ x # e
        /\ next'[x] = next[e] /\ next'[e] = x
        /\ \A y \in Nodes \ {x, e} : next'[y] = next[y]
        /\ prev'[x] = e /\ prev'[next[e]] = x
        /\ \A y \in Nodes \ {x, next[e]} : prev'[y] = prev[y]
    BY <1>1, AddLinks, LinkedNodes DEF Linked
  <2>b. \A y \in Nodes : prev[y] # x
    BY <1>a, LinkedNodes DEF TypeOK, LinksAgree, Linked
  <2> SUFFICES ASSUME NEW y \in Nodes
               PROVE  \/ y \in Items /\ prev'[y] = NULL /\ next'[y] = NULL
                      \/ /\ prev'[y] \in Nodes /\ next'[y] \in Nodes
                         /\ next'[prev'[y]] = y
                         /\ prev'[next'[y]] = y
    BY DEF LinksAgree
  <2>1. CASE y = x
    BY <2>1, <2>a, <1>a
  <2>2. CASE y # x /\ y \in Items /\ prev[y] = NULL /\ next[y] = NULL
    <3>1. y # e /\ y # next[e]
      BY <2>2, <2>a, <1>a DEF Linked
    <3> QED BY <3>1, <2>2, <2>a
  <2>3. CASE y # x /\ Linked(y)
    <3>1. next[prev[y]] = y /\ prev[next[y]] = y /\ next[y] # x /\ prev[y] # x
      BY <2>3, <1>1, <2>b, LinkedNodes
    <3>2. next'[y] \in Nodes /\ prev'[next'[y]] = y
      BY <3>1, <2>3, <2>a, <1>a DEF Linked
    <3>3. prev'[y] \in Nodes /\ next'[prev'[y]] = y
      BY <3>1, <2>3, <2>a, <1>a DEF Linked
    <3> QED BY <3>2, <3>3
  <2> QED
    BY <2>1, <2>2, <2>3 DEF LinksAgree, Linked
\* A set closed afterwards is closed before without x.
<1>3. ASSUME NEW S \in SUBSET Nodes, Closed(S)'
      PROVE  /\ Closed(S \ {x})
             /\ x \notin S => e \notin S \cap Items
             /\ x \in S => next[e] \in S \ {x}
  <2>1. x \notin S => e \notin S \cap Items
    BY <1>3, AddLinks DEF Closed
  <2>2. x \in S => next[e] \in S \ {x}
    BY <1>3, <1>1, AddLinks DEF Closed
  <2>3. ASSUME NEW y \in (S \ {x}) \cap Items
        PROVE  next[y] \in S \ {x}
    <3>1. CASE y = e
      BY <3>1, <2>1, <2>2
    <3>2. CASE y # e
      BY <3>2, <1>3, <1>1, AddLinks DEF Closed, Nodes
    <3> QED BY <3>1, <3>2
  <2> QED
    BY <2>1, <2>2, <2>3 DEF Closed
<1>4. ASSUME NEW l \in Lists, NEW S \in SUBSET Nodes, next'[l] \in S, Closed(S)'
      PROVE  l \in S
  <2>1. next[l] \in S \ {x}
    <3>a. l \in Nodes /\ l # x
      BY <1>a DEF Nodes
    <3>1. CASE l = e
      <4>1. x \in S
        BY <3>1, <1>4, AddLinks
      <4> QED BY Zenon, <4>1, <3>1, <1>3, <1>4
    <3>2. CASE l # e
      BY <3>2, <3>a, <1>4, <1>1, AddLinks
    <3> QED BY <3>1, <3>2
  <2> QED
    BY Zenon, <2>1, <1>3, <1>4 DEF WalksReturn
<1>5. ASSUME NEW S \in SUBSET Items, S # {}, Closed(S)'
      PROVE  FALSE
  <2>1. S \in SUBSET Nodes
    BY DEF Nodes
  <2>2. S \ {x} # {}
    BY Zenon, <2>1, <1>3, <1>5
  <2> QED
    BY Zenon, <2>1, <2>2, <1>3, <1>5 DEF WalksReturn
<1> QED
  BY <1>2, <1>4, <1>5 DEF WalksReturn

\* A set closed after a deletion does not hold the deleted item; with the item, if its
\* successor is in the set, it is closed before.
LEMMA ClosedBefore ==
    ASSUME TypeOK, LinksAgree, WalksReturn,
           NEW x \in Items, Linked(x), list_delete(x),
           NEW S \in SUBSET Nodes, Closed(S)'
    PROVE  /\ x \notin S
           /\ next[x] \in S => Closed(S \cup {x})
           /\ next[x] \notin S => Closed(S) /\ prev[x] \notin S \cap Items
<1>a. x \in Nodes /\ x \notin Lists /\ NULL \notin Nodes /\ prev[x] # x
  BY ListAssumption, NotOwnNeighbour DEF Nodes
<1>1. x \notin S
  BY <1>a, DeleteLinks DEF Closed
<1>2. prev[x] \in S \cap Items => next[x] \in S
  BY <1>a, DeleteLinks DEF Closed
<1>3. \A y \in S \cap Items : y # prev[x] => next[y] \in S
  BY <1>a, <1>1, DeleteLinks DEF Closed
<1>4. next[prev[x]] = x
  BY <1>a, LinkedNodes
<1> QED
  BY <1>1, <1>2, <1>3, <1>4 DEF Closed

\* A deletion keeps the links in agreement and the walks.
LEMMA DeleteKeeps ==
    ASSUME TypeOK, LinksAgree, WalksReturn,
           NEW x \in Items, Linked(x), list_delete(x)
    PROVE  LinksAgree' /\ WalksReturn'
<1>a. x \in Nodes /\ x \notin Lists /\ NULL \notin Nodes /\ prev[x] # x
  BY ListAssumption, NotOwnNeighbour DEF Nodes
<1>1. LinksAgree'
  <2>a. /\ next[x] \in Nodes /\ prev[x] \in Nodes /\ next[x] # x
        /\ next[prev[x]] = x /\ prev[next[x]] = x
        /\ next'[x] = NULL /\ next'[prev[x]] = next[x]
        /\ \A y \in Nodes \ {x, prev[x]} : next'[y] = next[y]
        /\ prev'[x] = NULL /\ prev'[next[x]] = prev[x]
        /\ \A y \in Nodes \ {x, next[x]} : prev'[y] = prev[y]
    BY <1>a, DeleteLinks, LinkedNodes DEF Linked
  <2> SUFFICES ASSUME NEW y \in Nodes
               PROVE  \/ y \in Items /\ prev'[y] = NULL /\ next'[y] = NULL
                      \/ /\ prev'[y] \in Nodes /\ next'[y] \in Nodes
                         /\ next'[prev'[y]] = y
                         /\ prev'[next'[y]] = y
    BY DEF LinksAgree
  <2>1. CASE y = x
    BY <2>1, <2>a
  <2>2. CASE y # x /\ y \in Items /\ prev[y] = NULL /\ next[y] = NULL
    <3>1. y # next[x] /\ y # prev[x]
      BY <2>2, <2>a, <1>a
    <3> QED BY <3>1, <2>2, <2>a
  <2>3. CASE y # x /\ Linked(y)
    <3>1. next[prev[y]] = y /\ prev[next[y]] = y
      BY <2>3, LinkedNodes
    <3>2. next'[y] \in Nodes /\ prev'[next'[y]] = y
      BY <3>1, <2>3, <2>a, <1>a DEF Linked
    <3>3. prev'[y] \in Nodes /\ next'[prev'[y]] = y
      BY <3>1, <2>3, <2>a, <1>a DEF Linked
    <3> QED BY <3>2, <3>3
  <2> QED
    BY <2>1, <2>2, <2>3 DEF LinksAgree, Linked
<1>2. ASSUME NEW l \in Lists, NEW S \in SUBSET Nodes, next'[l] \in S, Closed(S)'
      PROVE  l \in S
  <2>1. CASE next[x] \in S
    <3>1. next[l] \in S \cup {x}
      BY <2>1, <1>2, <1>a, DeleteLinks, LinkedNodes DEF Nodes
    <3>2. Closed(S \cup {x})
      BY <2>1, <1>2, ClosedBefore
    <3> QED
      BY <3>1, <3>2, <1>a DEF WalksReturn
  <2>2. CASE next[x] \notin S
    <3>1. next[l] \in S
      BY <2>2, <1>2, <1>a, DeleteLinks DEF Nodes
    <3> QED
      BY Zenon, <3>1, <2>2, <1>2, ClosedBefore DEF WalksReturn
  <2> QED BY <2>1, <2>2
<1>3. ASSUME NEW S \in SUBSET Items, S # {}, Closed(S)'
      PROVE  FALSE
  <2>1. S \in SUBSET Nodes
    BY DEF Nodes
  <2>2. CASE next[x] \in S
    <3>1. Closed(S \cup {x})
      BY <2>1, <2>2, <1>3, ClosedBefore
    <3> QED
      BY <3>1 DEF WalksReturn
  <2>3. CASE next[x] \notin S
    <3>1. Closed(S)
      BY Zenon, <2>1, <2>3, <1>3, ClosedBefore
    <3> QED
      BY <3>1, <1>3 DEF WalksReturn
  <2> QED BY <2>2, <2>3
<1> QED
  BY <1>1, <1>2, <1>3 DEF WalksReturn

-----------------------------------------------------------------------------
\* The iteration.

\* While it is not at its end, an iteration is at an item of its list.
LEMMA AtAnItem ==
    ASSUME IInv, list # NULL, node # list
    PROVE  node \in Items /\ Linked(node)
<1>1. node \in Nodes /\ Linked(node)
  BY LinkedNodes DEF IInv, TypeOK, IterationOnList
<1>2. node \notin Lists
  <2> SUFFICES ASSUME node \in Lists PROVE FALSE
    OBVIOUS
  <2>1. Closed({node})
    BY ListAssumption DEF Closed
  <2> QED
    BY <2>1, <1>1 DEF IInv, IterationOnList
<1> QED
  BY <1>1, <1>2 DEF Nodes

\* A turn that keeps the node moves to its successor.
LEMMA KeepTurn ==
    ASSUME IInv, IterateKeep
    PROVE  IInv'
<1>a. node \in Items /\ Linked(node) /\ list # NULL /\ node # list
  BY AtAnItem DEF IterateKeep
<1>b. node \in Nodes /\ temp_node = next[node] /\ Linked(temp_node) /\ temp_node \in Nodes
  BY <1>a, LinkedNodes DEF IInv, IterationOnList, Nodes, Linked
<1>c. prev' = prev /\ next' = next /\ list' = list /\ node' = temp_node
      /\ temp_node' = next[temp_node]
  BY DEF IterateKeep, IterateNext, links
<1>1. TypeOK'
  BY <1>b, <1>c DEF IInv, TypeOK, Linked
<1>2. LinksAgree' /\ WalksReturn'
  BY <1>c DEF IInv, LinksAgree, WalksReturn, Closed
<1>3. IterationOnList'
  <2>1. list_in_list(temp_node) /\ list_in_list(next[temp_node])
    BY <1>b, LinkedNodes DEF IInv, Linked
  <2>2. ASSUME NEW S \in SUBSET Nodes, temp_node \in S, Closed(S)
        PROVE  list \in S
    <3>1. Closed(S \cup {node})
      BY <2>2, <1>b DEF Closed
    <3> QED
      BY <3>1, <1>a, <1>b DEF IInv, IterationOnList
  <2> QED
    BY <2>1, <2>2, <1>c DEF IterationOnList, list_in_list, Closed
<1> QED
  BY <1>1, <1>2, <1>3 DEF IInv

\* A turn that deletes the node moves to the successor it had.
LEMMA DeleteTurn ==
    ASSUME IInv, IterateDelete
    PROVE  IInv'
<1>a. node \in Items /\ Linked(node) /\ list # NULL /\ node # list /\ list_delete(node)
  BY AtAnItem DEF IterateDelete
<1>b. TypeOK /\ LinksAgree /\ WalksReturn
  BY DEF IInv
<1>c. node \in Nodes /\ temp_node = next[node] /\ Linked(temp_node) /\ temp_node \in Nodes
  BY <1>a, <1>b, LinkedNodes DEF IInv, IterationOnList, Nodes, Linked
<1>d. list' = list /\ node' = temp_node /\ temp_node' = next'[temp_node]
  BY DEF IterateDelete, IterateNext
<1>e. prev[node] # node
  BY <1>a, <1>b, NotOwnNeighbour
<1>1. LinksAgree' /\ WalksReturn'
  BY <1>a, <1>b, DeleteKeeps
<1>2. prev'[temp_node] = prev[node] /\ temp_node # node
  BY <1>a, <1>b, <1>c, <1>e, DeleteLinks
<1>3. TypeOK' /\ prev'[temp_node] \in Nodes /\ next'[temp_node] \in Nodes
  <2>1. prev' \in [Nodes -> Nodes \cup {NULL}] /\ next' \in [Nodes -> Nodes \cup {NULL}]
    BY <1>a, <1>b, <1>e, DeleteLinks
  <2>2. prev'[temp_node] \in Nodes
    BY <1>2, <1>a DEF Linked
  <2>3. next'[temp_node] \in Nodes
    BY <1>1, <1>c, <1>d, <2>2, ListAssumption DEF LinksAgree, Nodes
  <2> QED
    BY <2>1, <2>2, <2>3, <1>b, <1>c, <1>d DEF TypeOK, Linked
<1>4. IterationOnList'
  <2>1. prev'[next'[temp_node]] = temp_node
    BY <1>1, <1>3, <1>c, ListAssumption DEF LinksAgree, Nodes
  <2>2. list_in_list(node)' /\ list_in_list(temp_node)'
    BY <2>1, <1>3, <1>c, <1>d, ListAssumption DEF list_in_list, Nodes
  <2>3. ASSUME NEW S \in SUBSET Nodes, temp_node \in S, Closed(S)'
        PROVE  list \in S
    <3>1. Closed(S \cup {node})
      BY <2>3, <1>a, <1>b, <1>c, ClosedBefore
    <3> QED
      BY <3>1, <1>a, <1>c DEF IInv, IterationOnList
  <2> QED
    BY <2>2, <2>3, <1>d DEF IterationOnList
<1> QED
  BY <1>1, <1>3, <1>4 DEF IInv

-----------------------------------------------------------------------------
\* list_initialize and list_clear_node establish the invariant.
LEMMA InitIInv == Init => IInv
<1> SUFFICES ASSUME Init PROVE IInv
  OBVIOUS
<1>1. TypeOK /\ LinksAgree
  BY ListAssumption DEF Init, TypeOK, LinksAgree, Nodes
<1>2. \A l \in Lists : next[l] = l
  BY DEF Init, Nodes
<1>3. \A x \in Items : next[x] = NULL
  BY ListAssumption DEF Init, Nodes
<1>4. WalksReturn
  BY <1>2, <1>3, ListAssumption DEF WalksReturn, Closed, Nodes
<1> QED
  BY <1>1, <1>4 DEF IInv, IterationOnList, Init

\* A call made while no iteration runs leaves none running.
LEMMA CallKeeps ==
    ASSUME IInv, list = NULL, UNCHANGED iteration, LinksAgree', WalksReturn',
           prev' \in [Nodes -> Nodes \cup {NULL}], next' \in [Nodes -> Nodes \cup {NULL}]
    PROVE  IInv'
BY DEF IInv, iteration, TypeOK, IterationOnList

\* A deletion outside an iteration keeps the invariant.
LEMMA RemoveKeeps ==
    ASSUME IInv, list = NULL, UNCHANGED iteration, NEW x \in Items, Linked(x), list_delete(x)
    PROVE  IInv'
<1>1. TypeOK /\ LinksAgree /\ WalksReturn
  BY DEF IInv
<1>2. prev[x] # x
  BY <1>1, NotOwnNeighbour
<1> QED
  BY <1>1, <1>2, DeleteLinks, DeleteKeeps, CallKeeps

\* The neighbours of a list that is not empty are items: the walk from a list does not
\* pass another one.
LEMMA NeighboursAreItems ==
    ASSUME IInv, NEW l \in Lists
    PROVE  /\ Linked(l)
           /\ next[l] # l => next[l] \in Items /\ Linked(next[l])
           /\ prev[l] # l => prev[l] \in Items /\ Linked(prev[l])
<1>a. l \in Nodes /\ Linked(l) /\ Linked(next[l]) /\ Linked(prev[l])
      /\ next[l] \in Nodes /\ prev[l] \in Nodes /\ next[prev[l]] = l
  BY LinkedNodes DEF IInv, Nodes, Linked
<1>1. \A k \in Lists : next[k] \in Lists => next[k] = k
  <2> SUFFICES ASSUME NEW k \in Lists, next[k] \in Lists PROVE next[k] = k
    OBVIOUS
  <2>1. Closed({next[k]}) /\ {next[k]} \in SUBSET Nodes
    BY ListAssumption DEF Closed, Nodes
  <2> QED
    BY <2>1 DEF IInv, WalksReturn
<1>2. prev[l] \in Lists => prev[l] = l
  BY <1>1, <1>a
<1> QED
  BY <1>1, <1>2, <1>a DEF Nodes

\* Every call and every turn of an iteration keeps the invariant.
LEMMA NextIInv == IInv /\ [Next]_vars => IInv'
<1> SUFFICES ASSUME IInv, [Next]_vars PROVE IInv'
  OBVIOUS
<1>a. TypeOK /\ LinksAgree /\ WalksReturn
  BY DEF IInv
<1>1. ASSUME NEW e \in Nodes, NEW x \in Items, Add(e, x)
      PROVE  IInv'
  <2>1. Linked(e) /\ ~Linked(x)
    BY <1>1, <1>a, LinkedNodes DEF Add, Nodes
  <2>2. PICK p \in Nodes : Linked(p) /\ list_add_head(p, x)
    BY <1>1, <2>1, <1>a, TailIsHead, LinkedNodes DEF Add, Linked
  <2> QED
    BY <1>1, <2>1, <2>2, <1>a, AddLinks, AddKeeps, CallKeeps DEF Add
<1>2. ASSUME NEW x \in Items, Delete(x)
      PROVE  IInv'
  BY <1>2, <1>a, LinkedNodes, RemoveKeeps DEF Delete, Nodes
<1>3. ASSUME NEW l \in Lists, list_remove_head(l)
      PROVE  IInv'
  BY <1>3, NeighboursAreItems, RemoveKeeps DEF list_remove_head
<1>4. ASSUME NEW l \in Lists, list_remove_tail(l)
      PROVE  IInv'
  BY <1>4, NeighboursAreItems, RemoveKeeps DEF list_remove_tail
<1>5. ASSUME NEW l \in Lists, IterateFirst(l)
      PROVE  IInv'
  <2>a. l \in Nodes /\ next[l] \in Nodes /\ next[next[l]] \in Nodes
    BY <1>a, NeighboursAreItems, LinkedNodes DEF Linked, Nodes
  <2>b. list_in_list(next[l]) /\ list_in_list(next[next[l]])
    BY <1>a, <2>a, NeighboursAreItems, LinkedNodes DEF Linked
  <2>c. prev' = prev /\ next' = next /\ list' = l /\ node' = next[l] /\ temp_node' = next[next[l]]
    BY <1>5 DEF IterateFirst, links
  <2>1. TypeOK' /\ LinksAgree' /\ WalksReturn'
    BY <1>a, <2>a, <2>c DEF TypeOK, LinksAgree, WalksReturn, Closed
  <2>2. IterationOnList'
    BY <1>a, <2>b, <2>c DEF IterationOnList, list_in_list, WalksReturn, Closed
  <2> QED
    BY <2>1, <2>2 DEF IInv
<1>6. CASE IterateEnd
  BY <1>6 DEF IterateEnd, links, IInv, TypeOK, LinksAgree, WalksReturn, Closed, IterationOnList
<1>7. CASE UNCHANGED vars
  BY <1>7 DEF vars, links, iteration, IInv, TypeOK, LinksAgree, WalksReturn, Closed,
              IterationOnList, list_in_list
<1> QED
  BY <1>1, <1>2, <1>3, <1>4, <1>5, <1>6, <1>7, KeepTurn, DeleteTurn DEF Next, Calls, Iterating

\* The conjunction is an invariant.
THEOREM ListInvariant == Spec => []IInv
BY InitIInv, NextIInv, PTL DEF Spec

\* However many the lists and items, and whatever list_add_head, list_add_tail,
\* list_delete and the removals do to them: the two directions agree at every node; the
\* walk list_for_every makes from a list comes back to it, and no items are linked among
\* themselves; and an iteration with list_for_every_safe whose body deletes nodes as it
\* goes is at a linked node from which its list is reached.
THEOREM ListsAreSound == Spec => [](TypeOK /\ ListsSound)
<1>1. IInv => TypeOK /\ ListsSound
  BY DEF IInv, ListsSound
<1> QED
  BY <1>1, ListInvariant, PTL
=============================================================================

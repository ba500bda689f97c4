-------------------------------- MODULE Heaps --------------------------------
(* The binary heap of src/utils/heap.c.  A node is represented by its       *)
(* position: the bits of n after its first one spell the path to the n-th   *)
(* node, so the children of n are 2n (left) and 2n + 1 (right), and the last*)
(* node is the size.  Nodes keep their place, entries are swapped between   *)
(* them, and every entry that is in the heap knows its node.                *)
EXTENDS Integers, Sequences

CONSTANTS HeapEntries,
          Rank,           \* what entries are compared by, a number for each
          NoNode          \* the node of an entry that is in the pool

ASSUME HeapAssumption ==
    /\ Rank \in [HeapEntries -> Int]
    /\ NoNode \notin Nat \ {0}       \* a node is a position, from 1 on

VARIABLES tree,           \* the entry of every node, the root first
          nodeOf,         \* entry->node
          misplaced       \* whether a removal has put an entry below one it precedes (history)

heapVars == <<tree, nodeOf, misplaced>>

HeapInit ==
    /\ tree = <<>>
    /\ nodeOf = [e \in HeapEntries |-> NoNode]
    /\ misplaced = FALSE

-----------------------------------------------------------------------------
(* A heap under way is a record of tree and nodeOf. *)

\* Variant: the swapped entries keep the links to their old nodes.
SwapTree(h, m, n) ==
    [tree |-> [h.tree EXCEPT ![m] = h.tree[n], ![n] = h.tree[m]], nodeOf |-> h.nodeOf]

Swap(h, m, n) ==
    [tree |-> [h.tree EXCEPT ![m] = h.tree[n], ![n] = h.tree[m]],
     nodeOf |-> [h.nodeOf EXCEPT ![h.tree[m]] = n, ![h.tree[n]] = m]]

RankAt(h, n) == Rank[h.tree[n]]

\* The loops: a heap and the current node, which does not change any more once the
\* loop has ended.  No path is longer than the heap has nodes.
At(h, n) == [heap |-> h, node |-> n]

\* The entry rises past its parent if that is not less.
RiseOnce(c) ==
    LET parent == c.node \div 2 IN
    IF c.node = 1 \/ RankAt(c.heap, parent) < RankAt(c.heap, c.node)
    THEN c
    ELSE At(Swap(c.heap, c.node, parent), parent)

HeapifyUp(h, n) ==
    LET current[i \in 0 .. Len(h.tree)] == IF i = 0 THEN At(h, n) ELSE RiseOnce(current[i - 1])
    IN  current[Len(h.tree)].heap

\* The least of a node and its children, the first of equals.
Chosen(h, n) ==
    LET left == IF 2 * n <= Len(h.tree) /\ RankAt(h, 2 * n) < RankAt(h, n) THEN 2 * n ELSE n
    IN  IF 2 * n + 1 <= Len(h.tree) /\ RankAt(h, 2 * n + 1) < RankAt(h, left)
        THEN 2 * n + 1 ELSE left

\* The entry sinks below the least of its children if that is less.
SinkOnce(c) ==
    LET chosen == Chosen(c.heap, c.node) IN
    IF chosen = c.node THEN c ELSE At(Swap(c.heap, c.node, chosen), chosen)

HeapifyDown(h, n) ==
    LET current[i \in 0 .. Len(h.tree)] == IF i = 0 THEN At(h, n) ELSE SinkOnce(current[i - 1])
    IN  current[Len(h.tree)].heap

-----------------------------------------------------------------------------
HeapPush(e) ==
    /\ nodeOf[e] = NoNode
    /\ LET n == Len(tree) + 1
           h == HeapifyUp([tree |-> Append(tree, e), nodeOf |-> [nodeOf EXCEPT ![e] = n]], n)
       IN  tree' = h.tree /\ nodeOf' = h.nodeOf
    /\ UNCHANGED misplaced

\* The last entry takes the place of the removed one and sinks from there; it
\* never rises.
RemoveNode(n) ==
    LET last == Len(tree)
        s == Swap([tree |-> tree, nodeOf |-> nodeOf], n, last)
        cut == [tree |-> SubSeq(s.tree, 1, last - 1), nodeOf |-> [s.nodeOf EXCEPT ![tree[n]] = NoNode]]
        h == IF n = last THEN cut ELSE HeapifyDown(cut, n)
    IN  tree' = h.tree /\ nodeOf' = h.nodeOf

HeapPop ==
    /\ tree # <<>>
    /\ RemoveNode(1)
    /\ UNCHANGED misplaced

\* Removing a node puts the last entry below a parent that it precedes.
Misplaces(n) == n \notin {1, Len(tree)} /\ Rank[tree[Len(tree)]] < Rank[tree[n \div 2]]

HeapRemove(e) ==
    /\ nodeOf[e] # NoNode
    /\ RemoveNode(nodeOf[e])
    /\ misplaced' = (misplaced \/ Misplaces(nodeOf[e]))

HeapClear ==
    /\ tree' = <<>>
    /\ nodeOf' = [e \in HeapEntries |-> NoNode]
    /\ misplaced' = FALSE

HeapNext ==
    \/ \E e \in HeapEntries : HeapPush(e) \/ HeapRemove(e)
    \/ HeapPop
    \/ HeapClear

HeapSpec == HeapInit /\ [][HeapNext]_heapVars

-----------------------------------------------------------------------------
\* Every entry knows the node it is in, whatever has been swapped, pushed or
\* removed from the middle: receivers are removed by that link long after they
\* were pushed (heap.c:33, 478).
EntriesKnowNodes ==
    /\ \A n \in DOMAIN tree : nodeOf[tree[n]] = n
    /\ \A e \in HeapEntries : nodeOf[e] # NoNode => nodeOf[e] \in DOMAIN tree /\ tree[nodeOf[e]] = e

HeapOrder == \A n \in 2..Len(tree) : Rank[tree[n \div 2]] <= Rank[tree[n]]

\* No entry is before its parent, through pushes, pops and removals from the
\* middle, until one of these puts the last entry below a parent that it precedes:
\* it only sinks from there (heap.c:497), and the order is gone.
OrderedUntilMisplaced == misplaced \/ HeapOrder

\* What the receivers' heap keeps: whatever is pushed, popped and removed from the
\* middle, an entry is found by its link; and its order, as long as what takes the
\* place of a removed entry is not before its new parent (heap.c:406-500).
HeapKeepsItsOrder == EntriesKnowNodes /\ OrderedUntilMisplaced
=============================================================================

----------------------------- MODULE LinkedLists -----------------------------
(***************************************************************************)
(* The two doubly linked lists: List (ESBList.cpp), which allocates a node *)
(* for each element, may fail to free one and then puts it back, and       *)
(* EmbeddedList (ESBEmbeddedList.cpp), which links the elements themselves.*)
(* The connection queues, the socket lists of the event loop, the header   *)
(* lists and every free list are of the second kind.                       *)
(*                                                                         *)
(* order is the sequence the caller believes in, kept beside the pointers: *)
(* no list operation reads it.                                             *)
(***************************************************************************)
EXTENDS Integers, Sequences, FiniteSets, SequencesExt

CONSTANT ListNodes   \* the memory: nodes of a List, or elements of an EmbeddedList

ASSUME ListAssumption == IsFiniteSet(ListNodes) /\ ListNodes \subseteq Nat \ {0}

VARIABLES nodeList,   \* a List
          chain       \* an EmbeddedList

listVars == <<nodeList, chain>>

nil == 0

\* torn: a pop failed to put back the only node (see popFrontFails).
EmptyList ==
    [head |-> nil, tail |-> nil, size |-> 0, order |-> <<>>, it |-> nil, torn |-> FALSE,
     prev |-> [n \in ListNodes |-> nil], next |-> [n \in ListNodes |-> nil]]

FreeNodes(l) == ListNodes \ Range(l.order)

-----------------------------------------------------------------------------
(* Linking a node in, the same in both lists.                              *)

linkFirst(l, n) ==
    IF l.head = nil
    THEN [l EXCEPT !.head = n, !.tail = n, !.next[n] = nil, !.prev[n] = nil]
    ELSE [l EXCEPT !.next[n] = l.head, !.prev[n] = nil, !.prev[l.head] = n, !.head = n]

linkLast(l, n) ==
    IF l.tail = nil
    THEN [l EXCEPT !.head = n, !.tail = n, !.next[n] = nil, !.prev[n] = nil]
    ELSE [l EXCEPT !.next[n] = nil, !.prev[n] = l.tail, !.next[l.tail] = n, !.tail = n]

\* deleteNode() and remove() before the node is freed or its links cleared:
\* the node's own pointers still show where it was.
unlinkNode(l, n) ==
    [l EXCEPT !.head = IF l.prev[n] = nil THEN l.next[n] ELSE @,
              !.tail = IF l.next[n] = nil THEN l.prev[n] ELSE @,
              !.next = [m \in ListNodes |-> IF m = l.prev[n] THEN l.next[n] ELSE @[m]],
              !.prev = [m \in ListNodes |-> IF m = l.next[n] THEN l.prev[n] ELSE @[m]]]

relinkForgettingTail(l, n) ==
    [l EXCEPT !.head = IF l.prev[n] = nil THEN n ELSE @,
              !.next = [m \in ListNodes |-> IF m = l.prev[n] THEN n ELSE @[m]],
              !.prev = [m \in ListNodes |-> IF m = l.next[n] THEN n ELSE @[m]]]

\* The node is put back where its own pointers say.
relinkNode(l, n) ==
    [l EXCEPT !.head = IF l.prev[n] = nil THEN n ELSE @,
              !.tail = IF l.next[n] = nil THEN n ELSE @,
              !.next = [m \in ListNodes |-> IF m = l.prev[n] THEN n ELSE @[m]],
              !.prev = [m \in ListNodes |-> IF m = l.next[n] THEN n ELSE @[m]]]

\* A freed node holds nothing; an iterator at it is invalid and dropped.
freed(l, n) ==
    [l EXCEPT !.size = @ - 1, !.next[n] = nil, !.prev[n] = nil,
              !.order = RemoveFirst(@, n), !.it = IF @ = n THEN nil ELSE @]

-----------------------------------------------------------------------------
(* List.  A push that cannot allocate, or whose size is at its limit,      *)
(* changes nothing.                                                        *)

pushFront(n) ==
    /\ n \in FreeNodes(nodeList)
    /\ nodeList' = [linkFirst(nodeList, n) EXCEPT !.size = @ + 1, !.order = <<n>> \o @]

pushBack(n) ==
    /\ n \in FreeNodes(nodeList)
    /\ nodeList' = [linkLast(nodeList, n) EXCEPT !.size = @ + 1, !.order = Append(@, n)]

popFront ==
    /\ nodeList.head # nil
    /\ nodeList' = freed(unlinkNode(nodeList, nodeList.head), nodeList.head)

popBack ==
    /\ nodeList.tail # nil
    /\ nodeList' = freed(unlinkNode(nodeList, nodeList.tail), nodeList.tail)

\* The allocator refuses the node: it becomes the head again, with the next
\* node it had.  The tail is not restored, so that a list of one node has a
\* head and no tail.
popFrontFails ==
    /\ nodeList.head # nil
    /\ LET gone == unlinkNode(nodeList, nodeList.head)
       IN  nodeList' = [gone EXCEPT
                          !.head = nodeList.head,
                          !.prev = [m \in ListNodes |-> IF m = gone.head THEN nodeList.head ELSE @[m]],
                          !.torn = gone.tail = nil]

popBackFails ==
    /\ nodeList.tail # nil
    /\ LET gone == unlinkNode(nodeList, nodeList.tail)
       IN  nodeList' = [gone EXCEPT
                          !.tail = nodeList.tail,
                          !.next = [m \in ListNodes |-> IF m = gone.tail THEN nodeList.tail ELSE @[m]],
                          !.torn = gone.head = nil]

\* clear() frees from the head and stops at the node the allocator refuses,
\* which becomes the head; at the end both pointers are cleared.
freedFirst(l, k) ==
    LET gone == {l.order[i] : i \in 1 .. k}
        left == SubSeq(l.order, k + 1, Len(l.order))
    IN  [l EXCEPT !.size = @ - k, !.order = left,
                  !.head = IF left = <<>> THEN nil ELSE Head(left),
                  !.tail = IF left = <<>> THEN nil ELSE @,
                  !.next = [m \in ListNodes |-> IF m \in gone THEN nil ELSE @[m]],
                  !.prev = [m \in ListNodes |->
                              IF m \in gone \/ (left # <<>> /\ m = Head(left)) THEN nil ELSE @[m]],
                  !.it = IF @ \in gone THEN nil ELSE @]

listClear == \E k \in 0 .. Len(nodeList.order) : nodeList' = freedFirst(nodeList, k)

\* remove() through an iterator.
listRemove(n) == n \in Range(nodeList.order) /\ nodeList' = freed(unlinkNode(nodeList, n), n)

listRemoveFails(n) == n \in Range(nodeList.order) /\ nodeList' = relinkNode(unlinkNode(nodeList, n), n)

\* frontIterator(), backIterator(), next() and previous() of an iterator.
moveIterator ==
    \E n \in {nodeList.head, nodeList.tail}
           \cup (IF nodeList.it = nil THEN {nil} ELSE {nodeList.next[nodeList.it], nodeList.prev[nodeList.it]}) :
        nodeList' = [nodeList EXCEPT !.it = n]

-----------------------------------------------------------------------------
(* EmbeddedList.                                                           *)

addFirst(n) ==
    /\ n \in FreeNodes(chain)
    /\ chain' = [linkFirst(chain, n) EXCEPT !.order = <<n>> \o @]

addLast(n) ==
    /\ n \in FreeNodes(chain)
    /\ chain' = [linkLast(chain, n) EXCEPT !.order = Append(@, n)]

chainRemove(n) ==
    /\ n \in Range(chain.order)
    /\ chain' = [unlinkNode(chain, n) EXCEPT !.next[n] = nil, !.prev[n] = nil,
                                             !.order = RemoveFirst(@, n)]

removeFirst == chain.head # nil /\ chainRemove(chain.head)

removeLast == chain.tail # nil /\ chainRemove(chain.tail)

\* clear() removes the first element until there is none, and has each
\* destroyed; the nodes are all free again.
chainClear == chain' = EmptyList

-----------------------------------------------------------------------------
ListInit == nodeList = EmptyList /\ chain = EmptyList

\* A torn list fails an assertion at the next push or pop: the model stops.
ListStep ==
    /\ ~nodeList.torn
    /\ \/ \E n \in ListNodes : pushFront(n) \/ pushBack(n) \/ listRemove(n) \/ listRemoveFails(n)
       \/ popFront \/ popBack \/ popFrontFails \/ popBackFails
       \/ listClear \/ moveIterator

ChainStep ==
    \/ \E n \in ListNodes : addFirst(n) \/ addLast(n) \/ chainRemove(n)
    \/ removeFirst \/ removeLast \/ chainClear

ListNext == (ListStep /\ UNCHANGED chain) \/ (ChainStep /\ UNCHANGED nodeList)

ListSpec == ListInit /\ [][ListNext]_listVars

-----------------------------------------------------------------------------
(* What validate() checks, and that the elements are the caller's, in the  *)
(* caller's order: reading from the head and reading from the tail.        *)
Linked(l) ==
    LET s == l.order IN
    /\ l.head = IF s = <<>> THEN nil ELSE Head(s)
    /\ l.tail = IF s = <<>> THEN nil ELSE Last(s)
    /\ \A i \in DOMAIN s : /\ l.next[s[i]] = IF i = Len(s) THEN nil ELSE s[i + 1]
                           /\ l.prev[s[i]] = IF i = 1 THEN nil ELSE s[i - 1]

\* Whatever fails in between, walking a List forwards and backwards gives its
\* elements in order, its size is their number and an iterator stands at one
\* of them: a refused free is undone completely (ESBList.cpp:128, 173, 267),
\* except of the only node of a list (torn).
ListIsLinked ==
    ~nodeList.torn => /\ Linked(nodeList) /\ nodeList.size = Len(nodeList.order)
                      /\ nodeList.it \in Range(nodeList.order) \cup {nil}

\* An EmbeddedList is linked both ways, and an element outside it has no
\* links, as addFirst() and addLast() assert of the next one they are given.
ChainIsLinked ==
    /\ Linked(chain)
    /\ \A n \in FreeNodes(chain) : chain.next[n] = nil /\ chain.prev[n] = nil

\* Both lists can be walked in either direction and hold what the caller
\* believes, also after a node that could not be freed was put back.
\* (List::deleteNode, EmbeddedList::remove)
ListsAreLinked == ListIsLinked /\ ChainIsLinked
=============================================================================

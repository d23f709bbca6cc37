---------------------------- MODULE RedBlackMap ----------------------------
(***************************************************************************)
(* ESB::Map and ESB::MapIterator (base/source/ESBMap.cpp,                  *)
(* base/include/ESBMap.h): a red-black tree of nodes linked by parent,     *)
(* left and right pointers, with one sentinel that stands for every absent *)
(* child and for the parent of the root.  The sentinel is the only node    *)
(* with a NULL key; it is an ordinary node otherwise, and the code writes  *)
(* its links.                                                              *)
(*                                                                         *)
(* A node is named by the key it was allocated for (the address the        *)
(* allocator chose does not matter), and keeps the key and the value it    *)
(* holds as fields, so that what an iterator sees can be stated.           *)
(***************************************************************************)
EXTENDS Integers, FiniteSets

CONSTANTS MapKeys,      \* the keys, a set of positive integers
          MapValues     \* the values a caller may associate with each key

ASSUME MapAssumption == MapKeys \subseteq Nat \ {0} /\ DOMAIN MapValues = MapKeys

VARIABLES tree,      \* the Map: _root, _size and the memory of the nodes
          entries    \* what a reader of the interface believes the map holds

mapVars == <<tree, entries>>

Sentinel == 0
NoKey == 0

\* The content of memory that holds no node (never allocated, or deallocated).
Deallocated == [parent |-> Sentinel, left |-> Sentinel, right |-> Sentinel,
                black |-> TRUE, key |-> -1, value |-> NoKey]

MapNode(k, v) == [parent |-> Sentinel, left |-> Sentinel, right |-> Sentinel,
                  black |-> TRUE, key |-> k, value |-> v]

EmptyMap == [root |-> Sentinel, size |-> 0,
             node |-> [n \in MapKeys \cup {Sentinel} |->
                         IF n = Sentinel THEN MapNode(NoKey, NoKey) ELSE Deallocated]]

\* The test every loop of the code ends on: x->_key is not NULL.
HasKey(t, x) == t.node[x].key # NoKey

other(side) == IF side = "left" THEN "right" ELSE "left"

sideOf(t, x) == IF x = t.node[t.node[x].parent].left THEN "left" ELSE "right"

-----------------------------------------------------------------------------
(* Search and order.                                                       *)

RECURSIVE findNode(_, _, _)
findNode(t, x, k) ==
    IF ~HasKey(t, x) THEN Sentinel
    ELSE IF t.node[x].key = k THEN x
    ELSE findNode(t, t.node[x][IF k > t.node[x].key THEN "right" ELSE "left"], k)

\* findMinimum (side = "left") and findMaximum (side = "right").
RECURSIVE findExtreme(_, _, _)
findExtreme(t, x, side) ==
    IF HasKey(t, t.node[x][side]) THEN findExtreme(t, t.node[x][side], side) ELSE x

\* The climb of findSuccessor (side = "right") and findPredecessor.
RECURSIVE climb(_, _, _, _)
climb(t, x, y, side) ==
    IF HasKey(t, y) /\ x = t.node[y][side] THEN climb(t, y, t.node[y].parent, side) ELSE y

findSuccessor(t, x) ==
    IF HasKey(t, t.node[x].right) THEN findExtreme(t, t.node[x].right, "left")
    ELSE climb(t, x, t.node[x].parent, "right")

findPredecessor(t, x) ==
    IF HasKey(t, t.node[x].left) THEN findExtreme(t, t.node[x].left, "right")
    ELSE climb(t, x, t.node[x].parent, "left")

-----------------------------------------------------------------------------
(* Rotations: side = "left" is leftRotate, side = "right" is rightRotate.  *)

Relink(t, x, y, p, side) ==
    IF ~HasKey(t, p) THEN [t EXCEPT !.root = y]
    ELSE [t EXCEPT !.node[p][IF x = t.node[p][side] THEN side ELSE other(side)] = y]

rotate(t, x, side) ==
    LET y == t.node[x][other(side)]
        c == t.node[y][side]
        a == [t EXCEPT !.node[x][other(side)] = c,
                       !.node[c].parent = IF HasKey(t, c) THEN x ELSE @,
                       !.node[y].parent = t.node[x].parent]
        b == Relink(a, x, y, a.node[x].parent, side)
    IN [b EXCEPT !.node[y][side] = x, !.node[x].parent = y]

-----------------------------------------------------------------------------
(* insertNode: the search for the place, then the recolouring.             *)

RECURSIVE insertionPoint(_, _, _, _)
insertionPoint(t, x, y, k) ==
    IF ~HasKey(t, x) THEN y
    ELSE insertionPoint(t, t.node[x][IF k < t.node[x].key THEN "left" ELSE "right"], x, k)

RECURSIVE insertFixup(_, _)
insertFixup(t, x) ==
    LET p == t.node[x].parent
        g == t.node[p].parent
        s == sideOf(t, p)
        y == t.node[g][other(s)]
    IN IF x = t.root \/ t.node[p].black THEN [t EXCEPT !.node[t.root].black = TRUE]
       ELSE IF ~t.node[y].black
       THEN insertFixup([t EXCEPT !.node[p].black = TRUE, !.node[y].black = TRUE,
                                  !.node[g].black = FALSE], g)
       ELSE IF x = t.node[p][other(s)] THEN insertFixup(rotate(t, p, s), p)
       ELSE insertFixup(
              rotate([t EXCEPT !.node[p].black = TRUE, !.node[g].black = FALSE], g, other(s)), x)

\* Only called for a key the tree does not hold.
insertNode(t, z, v) ==
    LET y == insertionPoint(t, t.root, Sentinel, z)
        placed == [t EXCEPT !.node[z] = [MapNode(z, v) EXCEPT !.parent = y, !.black = FALSE],
                            !.size = @ + 1]
    IN insertFixup(IF y = Sentinel THEN [placed EXCEPT !.root = z]
                   ELSE [placed EXCEPT !.node[y][IF z < t.node[y].key THEN "left" ELSE "right"] = z],
                   z)

-----------------------------------------------------------------------------
(* deleteNode: unlink the node that has at most one child, put it in the   *)
(* place of the deleted one, and recolour from its only child.             *)

RECURSIVE deleteFixup(_, _)
deleteFixup(t, x) ==
    IF x = t.root \/ ~t.node[x].black THEN [t EXCEPT !.node[x].black = TRUE]
    ELSE LET p == t.node[x].parent
             s == sideOf(t, x)
             o == other(s)
             r == t.node[p][o]
             u == IF t.node[r].black THEN t
                  ELSE rotate([t EXCEPT !.node[r].black = TRUE, !.node[p].black = FALSE], p, s)
             w == u.node[p][o]
             near == u.node[w][s]
             far == u.node[w][o]
         IN IF u.node[near].black /\ u.node[far].black
            THEN deleteFixup([u EXCEPT !.node[w].black = FALSE], p)
            ELSE IF u.node[far].black
            THEN deleteFixup(rotate([u EXCEPT !.node[near].black = TRUE, !.node[w].black = FALSE],
                                    w, o), x)
            ELSE LET f == rotate([u EXCEPT !.node[w].black = u.node[p].black,
                                           !.node[p].black = TRUE, !.node[far].black = TRUE], p, s)
                 IN deleteFixup(f, f.root)

\* y leaves its place: its only child x takes it.
unlink(t, y, x) ==
    LET p == t.node[y].parent
        a == [t EXCEPT !.node[x].parent = p]
    IN IF ~HasKey(a, p) THEN [a EXCEPT !.root = x]
       ELSE [a EXCEPT !.node[p][IF y = a.node[p].left THEN "left" ELSE "right"] = x]

\* y takes the links and the colour of z.  When z was the root its parent is
\* the sentinel, and it is the sentinel's link that is written.
replace(t, z, y) ==
    LET a == [t EXCEPT !.node[y].parent = t.node[z].parent, !.node[y].left = t.node[z].left,
                       !.node[y].right = t.node[z].right, !.node[y].black = t.node[z].black]
        b == [a EXCEPT !.node[a.node[y].right].parent = y, !.node[a.node[y].left].parent = y]
        p == b.node[y].parent
    IN [b EXCEPT !.node[p][IF z = b.node[p].right THEN "right" ELSE "left"] = y,
                 !.root = IF @ = z THEN y ELSE @]

\* The textbook's shortcut, which the code's comment rules out: the fields of
\* y are copied into z, and y is the node that goes away.
copyInto(t, z, y) ==
    [t EXCEPT !.node[z].key = t.node[y].key, !.node[z].value = t.node[y].value]

deleteByCopying(t, z) ==
    LET two == HasKey(t, t.node[z].left) /\ HasKey(t, t.node[z].right)
        y == IF two THEN findSuccessor(t, z) ELSE z
        x == t.node[y][IF HasKey(t, t.node[y].left) THEN "left" ELSE "right"]
        a == unlink(t, y, x)
        b == IF y = z THEN a ELSE copyInto(a, z, y)
        c == [b EXCEPT !.node[y] = Deallocated, !.size = @ - 1]
    IN IF t.node[y].black THEN deleteFixup(c, x) ELSE c

deleteNode(t, z) ==
    LET two == HasKey(t, t.node[z].left) /\ HasKey(t, t.node[z].right)
        y == IF two THEN findSuccessor(t, z) ELSE z
        x == t.node[y][IF HasKey(t, t.node[y].left) THEN "left" ELSE "right"]
        a == unlink(t, y, x)
        b == IF y = z THEN a ELSE replace(a, z, y)
        c == [b EXCEPT !.node[z] = Deallocated, !.size = @ - 1]
    IN IF t.node[y].black THEN deleteFixup(c, x) ELSE c

-----------------------------------------------------------------------------
(* clear: leaves are freed one after the other, right subtrees first.      *)

RECURSIVE clearFrom(_, _)
clearFrom(t, x) ==
    LET p == t.node[x].parent
        s == IF x = t.node[p].right THEN "right" ELSE "left"
    IN IF ~HasKey(t, x) THEN t
       ELSE IF HasKey(t, t.node[x].right) THEN clearFrom(t, t.node[x].right)
       ELSE IF HasKey(t, t.node[x].left) THEN clearFrom(t, t.node[x].left)
       ELSE IF ~HasKey(t, p)
       THEN [t EXCEPT !.node[x] = Deallocated, !.root = Sentinel, !.size = 0]
       ELSE clearFrom([t EXCEPT !.node[x] = Deallocated, !.node[p][s] = Sentinel], p)

-----------------------------------------------------------------------------
(* The operations.  entries follows the interface's comments; tree follows *)
(* the code.                                                               *)

MapInit == tree = EmptyMap /\ entries = <<>>

\* Both forms of insert(); the one with an iterator leaves it at the new node.
\* An allocation that fails, and a key that is there already, change nothing.
MapInsert(k, v) ==
    /\ findNode(tree, tree.root, k) = Sentinel
    /\ tree' = insertNode(tree, k, v)
    /\ entries' = [e \in DOMAIN entries \cup {k} |-> IF e = k THEN v ELSE entries[e]]

\* remove(key), and erase(iterator) for an iterator at the key's node.
MapRemove(k) ==
    /\ findNode(tree, tree.root, k) # Sentinel
    /\ tree' = deleteNode(tree, findNode(tree, tree.root, k))
    /\ entries' = [e \in DOMAIN entries \ {k} |-> entries[e]]

\* update(key), and setValue() of an iterator at the key's node.
MapUpdate(k, v) ==
    LET n == findNode(tree, tree.root, k) IN
    /\ n # Sentinel
    /\ tree' = [tree EXCEPT !.node[n].value = v]
    /\ entries' = [entries EXCEPT ![k] = v]

MapClear ==
    /\ tree' = clearFrom(tree, tree.root)
    /\ entries' = <<>>

MapNext ==
    \/ \E k \in MapKeys : \E v \in MapValues[k] : MapInsert(k, v)
    \/ \E k \in MapKeys : MapRemove(k)
    \/ \E k \in MapKeys : \E v \in MapValues[k] : MapUpdate(k, v)
    \/ MapClear

-----------------------------------------------------------------------------
(* What holds of the tree.                                                 *)

find(t, k) == t.node[findNode(t, t.root, k)].value

RECURSIVE getHeight(_, _)
getHeight(t, x) ==
    IF ~HasKey(t, x) THEN 0
    ELSE LET l == getHeight(t, t.node[x].left)
             r == getHeight(t, t.node[x].right)
         IN (IF r > l THEN r ELSE l) + 1

\* The black height of a subtree, -1 where the code raises its flag.
RECURSIVE getBlackHeight(_, _)
getBlackHeight(t, x) ==
    IF ~HasKey(t, x) THEN 0
    ELSE LET l == getBlackHeight(t, t.node[x].left)
             r == getBlackHeight(t, t.node[x].right)
         IN IF l # r \/ l = -1 THEN -1 ELSE IF t.node[x].black THEN r + 1 ELSE r

\* getHeight(_root) <= 2 lg(size + 1), without the logarithms.
isBalanced(t) ==
    /\ 2 ^ getHeight(t, t.root) <= (t.size + 1) * (t.size + 1)
    /\ getBlackHeight(t, t.root) # -1

\* Every operation keeps the map equal to what its interface promises: a key
\* is found exactly if it was inserted and not removed since, with the value
\* last given to it, and size() counts them.
MapKeepsItsPromise ==
    /\ tree.size = Cardinality(DOMAIN entries)
    /\ \A k \in MapKeys :
         find(tree, k) = IF k \in DOMAIN entries THEN entries[k] ELSE NoKey

\* isBalanced(), which only the unit tests call, never fails, and no red node
\* has a red child: the lg n of every operation's comment.
MapStaysBalanced ==
    /\ isBalanced(tree)
    /\ \A k \in DOMAIN entries :
         tree.node[k].black \/ (tree.node[tree.node[k].left].black
                                /\ tree.node[tree.node[k].right].black)

\* The iterator invalidation rule the comment in deleteNode() is about: an
\* iterator stays at its key, whatever else is inserted or removed, until that
\* key is removed; from it ++ and -- visit the neighbours in the order of the
\* keys and end at a null iterator.
IteratorsSurvive ==
    \A k \in DOMAIN entries :
        LET above == {e \in DOMAIN entries : e > k}
            below == {e \in DOMAIN entries : e < k}
        IN /\ tree.node[k].key = k
           /\ findSuccessor(tree, k) =
                IF above = {} THEN Sentinel ELSE CHOOSE e \in above : \A f \in above : e <= f
           /\ findPredecessor(tree, k) =
                IF below = {} THEN Sentinel ELSE CHOOSE e \in below : \A f \in below : e >= f

\* After any sequence of operations the tree is a balanced search tree, it is
\* the map the caller believes in, and iterators on other nodes still stand on
\* their element.  (Map::insert, remove, erase, clear and their fixups)
MapIsSound == MapStaysBalanced /\ MapKeepsItsPromise /\ IteratorsSurvive
=============================================================================

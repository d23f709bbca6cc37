------------------------------- MODULE AstTree -------------------------------
(***************************************************************************)
(* A JSON document made into a tree: JsonParser (ESBJsonParser.cpp) hands  *)
(* the events of yajl to AST::Tree (ASTTree.cpp), which keeps the open     *)
(* containers and a waiting key on a stack, and can traverse the finished  *)
(* tree with the same events.                                              *)
(*                                                                         *)
(* yajl, which is external, delivers the events of a well formed document  *)
(* whose outermost value is a container, and stops anywhere when the input *)
(* ends early.  Every allocation may fail.  The four scalar types differ   *)
(* here only in name; JSON keys are strings.                               *)
(***************************************************************************)
EXTENDS Integers, Sequences, FiniteSets, SequencesExt

CONSTANTS KeyOrder,    \* the keys of documents, as compare() orders them
          ScalarTypes, \* types of the scalar values that occur
          MaxEvents    \* bound: events of a document

ASSUME TreeAssumption ==
    /\ IsInjective(KeyOrder) /\ MaxEvents \in Nat
    /\ ScalarTypes \subseteq {"STRING", "INTEGER", "DECIMAL", "BOOLEAN"}

VARIABLE ast    \* the Tree, with yajl's state and what was delivered

\* An element.  The items of a map are its keys and values in turn, by key.
Element(type, value) == [type |-> type, value |-> value, items |-> <<>>]
NoElement == Element("none", "")
IsScalar(e) == e.type \in {"STRING", "INTEGER", "DECIMAL", "BOOLEAN"}

\* memory: how many more allocations succeed.
Enough == 3

NewTree == [stack |-> <<>>, root |-> NoElement, broke |-> FALSE, alive |-> 0, stray |-> 0]

\* The stack, with an element at its end or with its last element replaced.
Pushed(t, e) == [t EXCEPT !.stack = Append(@, e)]
WithTop(t, e) == [t EXCEPT !.stack = Append(Front(@), e)]
Popped(t) == [t EXCEPT !.stack = Front(@)]
Top(t) == IF t.stack = <<>> THEN NoElement ELSE Last(t.stack)
Break(t) == [t EXCEPT !.broke = TRUE]

\* new: an element more, if there is memory; otherwise the parser is stopped.
Made(t) == [t EXCEPT !.alive = @ + 1]
Unmade(t) == [t EXCEPT !.alive = @ - 1]

-----------------------------------------------------------------------------
(* Tree: what one event does to it.                                        *)

addToList(t, e) == WithTop(t, [Top(t) EXCEPT !.items = Append(@, e)])

Rank(k) == CHOOSE i \in DOMAIN KeyOrder : KeyOrder[i] = k

\* AST::Map::insert: refused for a key that is there.
mapKeys(map) == {map.items[2 * i - 1].value : i \in 1 .. Len(map.items) \div 2}

mapInsert(map, key, e) ==
    LET before == 2 * Cardinality({k \in mapKeys(map) : Rank(k) < Rank(key.value)})
    IN  [map EXCEPT !.items = SubSeq(@, 1, before) \o <<key, e>> \o SubSeq(@, before + 1, Len(@))]

\* The waiting key leaves the stack before the map is asked; when the map
\* refuses it or has no memory, nobody has the key any more.
insertKeyPair(t, e, memory) ==
    LET key == Top(t)
        rest == Popped(t)
    IN  IF ~IsScalar(key) THEN Break(t)
        ELSE IF Top(rest).type # "MAP" \/ memory < 1 \/ key.value \in mapKeys(Top(rest))
             THEN Break([rest EXCEPT !.stray = @ + 1])
        ELSE WithTop(rest, mapInsert(Top(rest), key, e))

insertKeyOrValue(t, e, memory) ==
    IF Top(t).type = "LIST" THEN addToList(t, e)
    ELSE IF Top(t).type = "MAP" THEN Pushed(t, e)
    ELSE insertKeyPair(t, e, memory)

onMapStart(t, memory) == IF memory < 1 THEN Break(t) ELSE Pushed(Made(t), Element("MAP", ""))

onListStart(t, memory) == IF memory < 1 THEN Break(t) ELSE Pushed(Made(t), Element("LIST", ""))

\* At the end of a container: the finished container becomes the root, an element
\* of a list or the value of a key; if that fails it goes back on the stack.
onContainerEnd(t, type, memory) ==
    LET e == Top(t)
        rest == Popped(t)
        r == insertKeyPair(rest, e, memory)
    IN  IF e.type # type THEN Break(rest)
        ELSE IF rest.stack = <<>> THEN [rest EXCEPT !.root = e]
        ELSE IF Top(rest).type = "LIST" THEN addToList(rest, e)
        ELSE IF r.broke THEN Pushed(r, e) ELSE r

onMapEnd(t, memory) == onContainerEnd(t, "MAP", memory)

onListEnd(t, memory) == onContainerEnd(t, "LIST", memory)

onNullKeeping(t, memory) ==
    IF ~(Top(t).type = "LIST" \/ IsScalar(Top(t))) \/ memory < 1 THEN Break(t)
    ELSE IF Top(t).type = "LIST" THEN addToList(Made(t), Element("NIL", ""))
    ELSE insertKeyPair(Made(t), Element("NIL", ""), memory - 1)

onNull(t, memory) ==
    LET r == insertKeyPair(Made(t), Element("NIL", ""), memory - 1) IN
    IF ~(Top(t).type = "LIST" \/ IsScalar(Top(t))) \/ memory < 1 THEN Break(t)
    ELSE IF Top(t).type = "LIST" THEN addToList(Made(t), Element("NIL", ""))
    ELSE IF r.broke THEN Unmade(r) ELSE r

validateKeyType(t) == Top(t).type \in {"LIST", "MAP"} \/ IsScalar(Top(t))

\* onBoolean, onInteger and onDecimal.
onScalar(t, type, value, memory) ==
    LET r == insertKeyOrValue(Made(t), Element(type, value), memory - 1) IN
    IF ~validateKeyType(t) \/ memory < 1 THEN Break(t)
    ELSE IF r.broke THEN Unmade(r) ELSE r

\* A string is copied as well.
onString(t, value, memory) ==
    LET r == insertKeyOrValue(Made(t), Element("STRING", value), memory - 2) IN
    IF ~validateKeyType(t) \/ memory < 2 THEN Break(t)
    ELSE IF r.broke THEN Unmade(r) ELSE r

-----------------------------------------------------------------------------
(* Events, as yajl delivers them and as traverse() repeats them.           *)

Event(on, value) == [on |-> on, value |-> value]

deliver(t, ev, memory) ==
    CASE ev.on = "MapStart" -> onMapStart(t, memory)
      [] ev.on = "MapEnd" -> onMapEnd(t, memory)
      [] ev.on = "ListStart" -> onListStart(t, memory)
      [] ev.on = "ListEnd" -> onListEnd(t, memory)
      [] ev.on = "Null" -> onNull(t, memory)
      [] ev.on = "STRING" -> onString(t, ev.value, memory)
      [] OTHER -> onScalar(t, ev.on, ev.value, memory)

traverseMap(inside) == <<Event("MapStart", "")>> \o inside \o <<Event("MapEnd", "")>>

traverseList(inside) == <<Event("ListStart", "")>> \o inside \o <<Event("ListEnd", "")>>

RECURSIVE traverseElement(_)
traverseElement(e) ==
    LET inside == FlattenSeq([i \in DOMAIN e.items |-> traverseElement(e.items[i])])
    IN  CASE e.type = "MAP" -> traverseMap(inside)
          [] e.type = "LIST" -> traverseList(inside)
          [] e.type = "NIL" -> <<Event("Null", "")>>
          [] OTHER -> <<Event(e.type, e.value)>>

\* yajl's grammar: the open containers, each with whether a key comes next.
Wants(open) == IF open = <<>> THEN "start" ELSE Last(open)

ValueEvents == {Event("MapStart", ""), Event("ListStart", ""), Event("Null", "")}
               \cup {Event(s, KeyOrder[1]) : s \in ScalarTypes}

NextEvents(open) ==
    CASE Wants(open) = "start" -> {Event("MapStart", ""), Event("ListStart", "")}
      [] Wants(open) = "key" -> {Event("STRING", k) : k \in ToSet(KeyOrder)} \cup {Event("MapEnd", "")}
      [] Wants(open) = "value" -> ValueEvents
      [] OTHER -> ValueEvents \cup {Event("ListEnd", "")}

\* After a key comes its value, after the value the next key.
Turned(open) ==
    IF Wants(open) = "key" THEN Append(Front(open), "value")
    ELSE IF Wants(open) = "value" THEN Append(Front(open), "key") ELSE open

Opened(open, ev) ==
    CASE ev.on = "MapStart" -> Append(Turned(open), "key")
      [] ev.on = "ListStart" -> Append(Turned(open), "element")
      [] ev.on \in {"MapEnd", "ListEnd"} -> Front(open)
      [] OTHER -> Turned(open)

TreeInit ==
    ast = [t |-> NewTree, events |-> <<>>, open |-> <<>>, status |-> "parsing"]

\* JsonParser::parse: yajl stops when a callback answers BREAK.
TreeParse ==
    /\ ast.status = "parsing"
    /\ Len(ast.events) < MaxEvents
    /\ \E ev \in NextEvents(ast.open), memory \in 0 .. Enough :
         LET t == deliver(ast.t, ev, memory)
             open == Opened(ast.open, ev)
         IN  ast' = [t |-> t, events |-> Append(ast.events, ev), open |-> open,
                      status |-> IF t.broke THEN "broken"
                                 ELSE IF open = <<>> THEN "done" ELSE "parsing"]

\* JsonParser::end before the document is complete.
TreeEnd ==
    /\ ast.status = "parsing"
    /\ ast' = [ast EXCEPT !.status = "broken"]

RECURSIVE elements(_)
elements(e) ==
    IF e.type = "none" THEN 0
    ELSE 1 + FoldSeq(LAMBDA x, n : n + x, 0, [i \in DOMAIN e.items |-> elements(e.items[i])])

Owned(t) == elements(t.root) + FoldSeq(LAMBDA e, n : n + elements(e), 0, t.stack)

\* ~Tree destroys the root and what is left on the stack.
TreeDestroy ==
    /\ ast.status \in {"done", "broken"}
    /\ ast' = [ast EXCEPT !.status = "destroyed",
                            !.t = [NewTree EXCEPT !.alive = ast.t.alive - Owned(ast.t),
                                                  !.stray = ast.t.stray]]

TreeNext == TreeParse \/ TreeEnd \/ TreeDestroy

-----------------------------------------------------------------------------
(* The reference: the element that starts at event i, by descending into   *)
(* the document, with the position after it.                               *)
RECURSIVE Descend(_, _)
RECURSIVE Members(_, _, _)
Descend(es, i) ==
    CASE es[i].on = "MapStart" -> Members(es, i + 1, Element("MAP", ""))
      [] es[i].on = "ListStart" -> Members(es, i + 1, Element("LIST", ""))
      [] es[i].on = "Null" -> [e |-> Element("NIL", ""), next |-> i + 1]
      [] OTHER -> [e |-> Element(es[i].on, es[i].value), next |-> i + 1]
Members(es, i, c) ==
    IF es[i].on \in {"MapEnd", "ListEnd"} THEN [e |-> c, next |-> i + 1]
    ELSE IF c.type = "LIST"
         THEN LET d == Descend(es, i) IN Members(es, d.next, [c EXCEPT !.items = Append(@, d.e)])
    ELSE LET key == Descend(es, i)
             d == Descend(es, key.next)
         IN  Members(es, d.next, mapInsert(c, key.e, d.e))

\* The tree of a document is the document: each value where it belongs,
\* however deep, a key with its own value, and nothing left over.
TreeIsDocument ==
    ast.status = "done" =>
        /\ ast.t.root = Descend(ast.events, 1).e
        /\ ast.t.stack = <<>> /\ ast.t.stray = 0

\* Traversing a tree and building a tree from those events gives the same tree.
TraverseRebuilds ==
    ast.status = "done" =>
        FoldLeft(LAMBDA t, ev : deliver(t, ev, Enough), NewTree, traverseElement(ast.t.root)).root
            = ast.t.root

\* Every element that was made and not freed is the ast's, on its stack or
\* under its root, wherever a callback failed: the destructor frees them all.
\* (The exception the code makes, the key a map refused, is counted as stray.)
ElementsHaveAnOwner == ast.t.alive = Owned(ast.t) + ast.t.stray

\* The finished tree is the document, traversing it gives the document's
\* events back, and every element has one owner after every failure.
\* (Tree::on..., insertKeyPair, traverse)
TreeIsSound == TreeIsDocument /\ TraverseRebuilds /\ ElementsHaveAnOwner
=============================================================================

--------------------------- MODULE CompactStringMap ---------------------------
(***************************************************************************)
(* CompactStringMap (ESBCompactStringMap.cpp): a map from short strings to *)
(* pointers in one buffer, as records of a length, the key and the pointer *)
(* one after the other, ended by a zero length.  The buffer is allocated   *)
(* by the first insertion and grows by realloc.                            *)
(***************************************************************************)
EXTENDS Integers, Sequences, FiniteSets, SequencesExt

CONSTANTS InitialCapacity,  \* capacity the map is constructed with
          KeySizes,         \* the keys and their lengths
          CompactValues,    \* values
          SizeofPointer     \* octets of a pointer

ASSUME CompactAssumption ==
    /\ {InitialCapacity, SizeofPointer} \subseteq Nat \ {0}
    /\ \A k \in DOMAIN KeySizes : KeySizes[k] \in 1 .. 255

\* The records and where in the buffer each is, where the zero length is that
\* ends them, _capacity, whether _buffer is allocated; the promise.
VARIABLE compact

CompactInit ==
    compact = [records |-> <<>>, end |-> 0, capacity |-> InitialCapacity, buffer |-> FALSE,
               promise |-> [k \in {} |-> 0]]

recordSize(k) == 1 + KeySizes[k] + SizeofPointer

\* The scan from the start of the buffer: the first record of the key, or 0.
compactFind(key) == SelectInSeq(compact.records, LAMBDA r : r.key = key)

\* The capacity for a record more.  Room for exactly the record is taken for
\* room for the record and the ending zero.
grownTightly(key, end, capacity) ==
    IF end + recordSize(key) > capacity THEN capacity * 2 ELSE capacity

\* The test is stricter than the need; twice the capacity, or what is missing.
grown(key, end, capacity) ==
    LET free == capacity - end
        need == KeySizes[key] + SizeofPointer + 2
        missing == capacity + need - free
    IN  IF free > need THEN capacity
        ELSE IF capacity * 2 > missing THEN capacity * 2 ELSE missing

Promised(k, v) == [x \in DOMAIN compact.promise \cup {k} |-> IF x = k THEN v ELSE compact.promise[x]]

\* insert().  The first allocates the buffer, which stays when it then cannot
\* grow for the record.
compactInsert(key, value, updateIfExists, malloc, realloc) ==
    LET i == compactFind(key)
        c == [compact EXCEPT !.buffer = TRUE]
        capacity == grown(key, c.end, c.capacity)
    IN  /\ compact.buffer \/ malloc
        /\ compact' =
             IF i # 0
             THEN IF updateIfExists
                  THEN [c EXCEPT !.records[i].value = value, !.promise = Promised(key, value)] ELSE c
             ELSE IF capacity # c.capacity /\ ~realloc THEN c
             ELSE [c EXCEPT !.records = Append(@, [key |-> key, value |-> value, at |-> c.end]),
                            !.end = @ + recordSize(key),
                            !.capacity = capacity, !.promise = Promised(key, value)]

\* What is behind the i-th record is moved down over it.
memmove(records, i) ==
    [j \in 1 .. Len(records) - 1 |->
        IF j < i THEN records[j]
        ELSE [records[j + 1] EXCEPT !.at = @ - recordSize(records[i].key)]]

compactRemove(key) ==
    /\ compactFind(key) # 0
    /\ compact' = [compact EXCEPT !.records = memmove(@, compactFind(key)),
                                  !.end = @ - recordSize(key),
                                  !.promise = [k \in DOMAIN @ \ {key} |-> @[k]]]

compactUpdate(key, value) ==
    /\ compactFind(key) # 0
    /\ compact' = [compact EXCEPT !.records[compactFind(key)].value = value,
                                  !.promise = Promised(key, value)]

compactClear ==
    /\ compact.buffer
    /\ compact' = [compact EXCEPT !.records = <<>>, !.end = 0, !.promise = [k \in {} |-> 0]]

CompactNext ==
    \/ \E k \in DOMAIN KeySizes, v \in CompactValues, u, m, r \in BOOLEAN : compactInsert(k, v, u, m, r)
    \/ \E k \in DOMAIN KeySizes : compactRemove(k)
    \/ \E k \in DOMAIN KeySizes, v \in CompactValues : compactUpdate(k, v)
    \/ compactClear

CompactSpec == CompactInit /\ [][CompactNext]_compact

-----------------------------------------------------------------------------
\* Every record starts where the one before it ends, the zero is behind the
\* last, and inside the buffer, through every order of growing, removing and
\* clearing: a scan meets every record and ends before the buffer does.
RecordsFit ==
    LET n == Len(compact.records)
        startOf(i) == IF i = n + 1 THEN compact.end ELSE compact.records[i].at
    IN  /\ startOf(1) = 0
        /\ \A i \in 1 .. n : startOf(i + 1) = compact.records[i].at + recordSize(compact.records[i].key)
        /\ compact.buffer => compact.end + 1 =< compact.capacity

\* The scan finds for each key what the last insertion or update gave it, and
\* nothing for a key that was removed.
CompactKeepsItsPromise ==
    \A k \in DOMAIN KeySizes :
        IF compactFind(k) = 0 THEN k \notin DOMAIN compact.promise
        ELSE k \in DOMAIN compact.promise /\ compact.records[compactFind(k)].value = compact.promise[k]

\* The records and the zero behind them fit the buffer, and are the map the
\* caller believes in.  (CompactStringMap::insert, remove, update)
CompactIsSound == RecordsFit /\ CompactKeepsItsPromise
=============================================================================

---------------------------- MODULE WildcardIndex ----------------------------
(***************************************************************************)
(* The index a TLS handshake looks its certificate up in: the nodes that   *)
(* hold the patterns of one domain and the hash map of nodes               *)
(* (ESBWildcardIndex.cpp, ESBEmbeddedMapBase.cpp), and the indexes of TLS  *)
(* contexts built on it                                                    *)
(* (ESBTLSContextIndex.cpp, ESBServerTLSContextIndex.cpp,                  *)
(* ESBClientTLSContextIndex.cpp).                                          *)
(*                                                                         *)
(* A node keeps its patterns in a fixed buffer and, once that is full, in  *)
(* a second buffer that grows.  The octets of the buffers are entries      *)
(* here, with the room they take.  A hostname and a pattern are sequences  *)
(* of letters, a domain is a value.  Values are TLS contexts, which live   *)
(* as long as they are referenced.                                         *)
(***************************************************************************)
EXTENDS Integers, Sequences, FiniteSets, SequencesExt, WildcardMatch

CONSTANTS Domains,        \* domain names
          Bucket,         \* the hash: the bucket of each domain
          Patterns,       \* the names <<domain, pattern>> used as keys
          Hosts,          \* host names looked up
          Contexts,       \* TLS contexts
          CertNames,      \* the names <<domain, pattern>> on each context's certificate
          FixedCapacity,  \* octets for entries in a node's fixed buffer
          PointerSize,    \* sizeof(void *)
          PeerVerify      \* how each context verifies its peer

NoContext == "null"

ASSUME IndexAssumption ==
    /\ Bucket \in [Domains -> Nat] /\ FixedCapacity \in Nat /\ PointerSize \in Nat
    /\ NoContext \notin Contexts /\ DOMAIN PeerVerify = Contexts

VARIABLES index     \* the WildcardIndex, its contexts' references, the default context, and
                    \* as history what the caller has every reason to expect of it

-----------------------------------------------------------------------------
(* A node: the patterns of one domain.                                     *)

Node(domain) == [domain |-> domain, wildcards |-> <<>>, extra |-> <<>>, hasExtra |-> FALSE]

Entry(pattern, value) == [key |-> pattern, value |-> value]

EntrySize(pattern) == Len(pattern) + PointerSize + 1

Used(buffer) == FoldSeq(LAMBDA e, n : n + EntrySize(e.key), 0, buffer)

Position(buffer, pattern) == SelectInSeq(buffer, LAMBDA e : e.key = pattern)

empty(node) == node.wildcards = <<>> /\ node.extra = <<>>

Holds(node) == node.wildcards \o node.extra

RefsIn(node, context) == Cardinality({i \in DOMAIN Holds(node) : Holds(node)[i].value = context})

inc(w, context) == [w EXCEPT !.refs[context] = @ + 1]
dec(w, context) == [w EXCEPT !.refs[context] = @ - 1]

\* The node that find() has moved to the front of its bucket.
FrontNode(w, domain) == Head(w.buckets[Bucket[domain]])
SetFrontNode(w, domain, node) == [w EXCEPT !.buckets[Bucket[domain]] = <<node>> \o Tail(@)]

Result(w, ok) == [w |-> w, ok |-> ok]

\* insert() of a name that is in the second buffer, to update it: the code reads
\* the pointer it releases from behind the entries of the first buffer, writes
\* the new one over the key's last octet and reports success.  What it gave up
\* is undefined, and so is all that follows.
Broken(w) == [w EXCEPT !.broken = TRUE]

nodeInsert(w, domain, pattern, value, updateIfExists, memory) ==
    LET node == FrontNode(w, domain)
        p == Position(node.wildcards, pattern)
        q == Position(node.extra, pattern)
        fits == FixedCapacity - Used(node.wildcards) > EntrySize(pattern) + 1
        old == node.wildcards[p].value
    IN IF (p # 0 \/ q # 0) /\ ~updateIfExists THEN Result(w, FALSE)
       ELSE IF p # 0
       THEN Result(SetFrontNode(inc(dec(w, old), value), domain,
                            [node EXCEPT !.wildcards[p].value = value]), TRUE)
       ELSE IF q # 0 THEN Result(Broken(w), TRUE)
       ELSE IF fits
       THEN Result(SetFrontNode(inc(w, value), domain,
                            [node EXCEPT !.wildcards = Append(@, Entry(pattern, value))]), TRUE)
       ELSE IF ~memory THEN Result(w, FALSE)
       ELSE Result(SetFrontNode(inc(w, value), domain,
                            [node EXCEPT !.extra = Append(@, Entry(pattern, value)),
                                         !.hasExtra = TRUE]), TRUE)

\* The new reference is taken, the old one kept.
nodeUpdateLeaking(w, domain, pattern, value) ==
    LET node == FrontNode(w, domain)
        p == Position(node.wildcards, pattern)
        q == Position(node.extra, pattern)
    IN IF p # 0 THEN SetFrontNode(inc(w, value), domain, [node EXCEPT !.wildcards[p].value = value])
       ELSE IF q # 0 THEN SetFrontNode(inc(w, value), domain, [node EXCEPT !.extra[q].value = value])
       ELSE w

nodeUpdate(w, domain, pattern, value) ==
    LET node == FrontNode(w, domain)
        p == Position(node.wildcards, pattern)
        q == Position(node.extra, pattern)
    IN IF p # 0
       THEN SetFrontNode(inc(dec(w, node.wildcards[p].value), value), domain,
                     [node EXCEPT !.wildcards[p].value = value])
       ELSE IF q # 0
       THEN SetFrontNode(inc(dec(w, node.extra[q].value), value), domain,
                     [node EXCEPT !.extra[q].value = value])
       ELSE w

nodeRemove(w, domain, pattern) ==
    LET node == FrontNode(w, domain)
        p == Position(node.wildcards, pattern)
        q == Position(node.extra, pattern)
    IN IF p # 0
       THEN SetFrontNode(dec(w, node.wildcards[p].value), domain,
                     [node EXCEPT !.wildcards = RemoveAt(@, p)])
       ELSE IF q # 0
       THEN SetFrontNode(dec(w, node.extra[q].value), domain, [node EXCEPT !.extra = RemoveAt(@, q)])
       ELSE w

\* clear() of a node, from its destructor: every entry's reference is given up.
Released(w, node) == [w EXCEPT !.refs = [c \in Contexts |-> @[c] - RefsIn(node, c)]]

-----------------------------------------------------------------------------
(* The hash map of nodes.                                                  *)

NodePosition(w, domain) ==
    SelectInSeq(w.buckets[Bucket[domain]], LAMBDA n : n.domain = domain)

\* EmbeddedMapBase::find() moves what it finds to the front of its bucket.
mapFind(w, domain) ==
    LET list == w.buckets[Bucket[domain]]
        i == NodePosition(w, domain)
    IN IF i = 0 THEN Result(w, FALSE)
       ELSE Result([w EXCEPT !.buckets[Bucket[domain]] = <<list[i]>> \o RemoveAt(list, i)], TRUE)

\* removeElement and cleanup: the destructor, then the list of dead nodes.
mapCleanup(w, domain) ==
    LET node == FrontNode(w, domain) IN
    [Released(w, node) EXCEPT !.buckets[Bucket[domain]] = Tail(@), !.dead = @ + 1]

\* The node is inserted in its bucket at once here; a pattern it cannot take
\* sends it to the dead nodes.
insert(w, domain, pattern, value, updateIfExists, memory) ==
    LET found == mapFind(w, domain)
        created == [w EXCEPT !.dead = IF @ > 0 THEN @ - 1 ELSE 0,
                             !.buckets[Bucket[domain]] = <<Node(domain)>> \o @]
        r == nodeInsert(created, domain, pattern, value, updateIfExists, memory)
    IN IF found.ok THEN nodeInsert(found.w, domain, pattern, value, updateIfExists, memory)
       ELSE IF w.dead = 0 /\ ~memory THEN Result(w, FALSE)
       ELSE IF ~r.ok THEN Result(mapCleanup(created, domain), FALSE)
       ELSE r

remove(w, domain, pattern) ==
    LET found == mapFind(w, domain)
        r == nodeRemove(found.w, domain, pattern)
    IN IF ~found.ok THEN w
       ELSE IF r # found.w /\ empty(FrontNode(r, domain)) THEN mapCleanup(r, domain)
       ELSE r

update(w, domain, pattern, value) ==
    LET found == mapFind(w, domain) IN
    IF found.ok THEN nodeUpdate(found.w, domain, pattern, value) ELSE w

clearAll(w) ==
    LET all == FlattenSeq(SetToSeq({w.buckets[b] : b \in DOMAIN w.buckets}))
    IN [w EXCEPT !.buckets = [b \in DOMAIN w.buckets |-> <<>>],
                 !.dead = @ + Len(all),
                 !.refs = [c \in Contexts |->
                             @[c] - FoldSeq(LAMBDA n, s : s + RefsIn(n, c), 0, all)]]

-----------------------------------------------------------------------------
(* match: the iteration over a node, from first() on.  It ends at once when *)
(* the fixed buffer is empty, whatever the second buffer holds.             *)

Iterated(node) == IF node.wildcards = <<>> THEN <<>> ELSE Holds(node)

indexFind(w, domain, pattern) ==
    LET i == NodePosition(w, domain)
        node == w.buckets[Bucket[domain]][i]
        p == Position(node.wildcards, pattern)
        q == Position(node.extra, pattern)
    IN IF i = 0 THEN NoContext
       ELSE IF p # 0 THEN node.wildcards[p].value
       ELSE IF q # 0 THEN node.extra[q].value ELSE NoContext

\* The first match wins.
FirstOf(entries, host) ==
    LET i == SelectInSeq(entries, LAMBDA e : StringWildcardMatch(e.key, host) >= 0)
    IN IF i = 0 THEN NoContext ELSE entries[i].value

BestOf(entries, host) ==
    LET score == [i \in DOMAIN entries |-> StringWildcardMatch(entries[i].key, host)]
        exact == SelectInSeq(entries, LAMBDA e : StringWildcardMatch(e.key, host) = 0)
        good == {i \in DOMAIN entries : score[i] > 0}
        best == CHOOSE i \in good : \A j \in good :
                    score[i] < score[j] \/ (score[i] = score[j] /\ i <= j)
    IN IF exact # 0 THEN entries[exact].value
       ELSE IF good = {} THEN NoContext ELSE entries[best].value

match(w, domain, host) ==
    LET i == NodePosition(w, domain) IN
    IF i = 0 THEN NoContext ELSE BestOf(Iterated(w.buckets[Bucket[domain]][i]), host)

-----------------------------------------------------------------------------
(* The indexes of TLS contexts.                                            *)

\* What the caller expects once insert() has answered.
Expects(r, name, value) == IF r.ok THEN [r.w EXCEPT !.believed[name] = value] ELSE r.w

\* The names of a certificate are inserted in turn; the first failure ends it,
\* and leaves the names before it in the index.
RECURSIVE indexNames(_, _, _, _, _)
indexNames(w, names, context, maskSanConflicts, memory) ==
    IF names = <<>> \/ w.broken THEN Result(w, TRUE)
    ELSE LET r == insert(w, Head(names)[1], Head(names)[2], context, maskSanConflicts, memory)
         IN IF ~r.ok THEN r
            ELSE indexNames(Expects(r, Head(names), context), Tail(names), context,
                            maskSanConflicts, memory)

\* matchContext(): a name without a host part matches nothing.
matchContext(w, domain, host) == IF host = <<>> THEN NoContext ELSE match(w, domain, host)

\* A TLS session of the server begins with the default context and its way of
\* verifying the client (ServerTLSSocket::startHandshake).
session(context) == [context |-> context, verify |-> PeerVerify[context], alert |-> FALSE]

\* tlsext_servername_callback: the context of the best match replaces the
\* default one; without a match the handshake ends with an alert.
servername(w, domain, host) ==
    LET m == matchContext(w, domain, host) IN
    IF m = NoContext THEN [session(w.default) EXCEPT !.alert = TRUE]
    ELSE IF m = w.default THEN session(w.default)
    ELSE [session(w.default) EXCEPT !.context = m, !.verify = PeerVerify[m]]

\* The handshake of a client that asks for a name.  Without the callback the
\* session stays what it began as.
handshake(w, domain, host) == IF w.sni THEN servername(w, domain, host) ELSE session(w.default)

IndexInit ==
    index = [buckets |-> [b \in {Bucket[d] : d \in Domains} |-> <<>>], dead |-> 0,
             refs |-> [c \in Contexts |-> 0], default |-> NoContext, sni |-> FALSE,
             broken |-> FALSE, believed |-> [n \in Patterns |-> NoContext]]

Usable == ~index.broken

IndexInsert(name, c, updateIfExists, memory) ==
    /\ Usable
    /\ index' = Expects(insert(index, name[1], name[2], c, updateIfExists, memory), name, c)

IndexRemove(name) ==
    /\ Usable
    /\ index' = [remove(index, name[1], name[2]) EXCEPT !.believed[name] = NoContext]

IndexUpdate(name, c) ==
    /\ Usable
    /\ index' = [update(index, name[1], name[2], c) EXCEPT
                   !.believed[name] = IF @ = NoContext THEN NoContext ELSE c]

\* find() and match() change the order of a bucket.
IndexLookup(domain) == Usable /\ index' = mapFind(index, domain).w

\* clear() of an index of TLS contexts also drops the default context.
IndexClear ==
    /\ Usable
    /\ index' = [clearAll(IF index.default = NoContext THEN index ELSE dec(index, index.default))
                   EXCEPT !.default = NoContext, !.sni = FALSE,
                          !.believed = [n \in Patterns |-> NoContext]]

\* indexContext of a context that was just created.
IndexContext(c, mask, memory) ==
    /\ Usable
    /\ index.refs[c] = 0
    /\ index' = indexNames(index, CertNames[c], c, mask, memory).w

\* indexDefaultContext: the default is set before the names are indexed, and
\* stays set when that fails; the callback is installed when all of them are.
IndexDefaultContext(c, memory) ==
    LET r == indexNames([inc(index, c) EXCEPT !.default = c], CertNames[c], c, FALSE, memory) IN
    /\ Usable
    /\ index.default = NoContext
    /\ index.refs[c] = 0
    /\ index' = [r.w EXCEPT !.sni = r.ok]

IndexNext ==
    \/ \E n \in Patterns, c \in Contexts, u \in BOOLEAN, m \in BOOLEAN : IndexInsert(n, c, u, m)
    \/ \E n \in Patterns : IndexRemove(n)
    \/ \E n \in Patterns, c \in Contexts : IndexUpdate(n, c)
    \/ \E d \in Domains : IndexLookup(d)
    \/ IndexClear
    \/ \E c \in Contexts, u \in BOOLEAN, m \in BOOLEAN : IndexContext(c, u, m)
    \/ \E c \in Contexts, m \in BOOLEAN : IndexDefaultContext(c, m)

-----------------------------------------------------------------------------

AllNodes == UNION {{index.buckets[b][i] : i \in DOMAIN index.buckets[b]} : b \in DOMAIN index.buckets}

\* The index is a map: one node per domain, in the domain's bucket, never an
\* empty one, and no pattern twice in a node, neither in one buffer nor in both.
IndexIsAMap ==
    /\ \A b \in DOMAIN index.buckets : \A i, j \in DOMAIN index.buckets[b] :
         /\ Bucket[index.buckets[b][i].domain] = b
         /\ index.buckets[b][i].domain = index.buckets[b][j].domain => i = j
    /\ \A n \in AllNodes : ~empty(n) /\ IsInjective([i \in DOMAIN Holds(n) |-> Holds(n)[i].key])

\* find() answers as the answers to all earlier calls promise, and the index
\* holds no name that nobody put there or that was taken out.
HoldsWhatIsBelieved ==
    /\ \A n \in Patterns : indexFind(index, n[1], n[2]) = index.believed[n]
    /\ \A n \in AllNodes : \A e \in ToSet(Holds(n)) : index.believed[<<n.domain, e.key>>] = e.value

\* A context is referenced once for each name the caller has indexed it under
\* and once as the default: it is destroyed when the last of them goes, not
\* before and not later.
RefsCountNames ==
    \A c \in Contexts :
        index.refs[c] = Cardinality({n \in Patterns : index.believed[n] = c})
                        + (IF index.default = c THEN 1 ELSE 0)

\* Until a spilled entry is updated by insert(), which the code does not survive
\* (Broken): the index is the map the caller believes in, and counts the
\* references to what it holds, wherever entries spilled and whichever
\* insertion failed.
\* (WildcardIndexNode::insert, find, remove, update and clear; indexContext)
IndexIsSound == Usable => IndexIsAMap /\ HoldsWhatIsBelieved /\ RefsCountNames

\* One more than the characters that the "*" of a pattern stands for.
Distance(pattern, host) == IF Star \in ToSet(pattern) THEN Len(host) - Len(pattern) + 2 ELSE 0

\* A client that asks for a name gets a context that the caller indexed for a
\* pattern that takes the name, none closer, and is verified as that context
\* asks, whichever context the session began with.  It is refused only when no
\* pattern takes the name, or when the fixed buffer of the domain's node is
\* empty: then the second one is not read.  Until all names of the default
\* context are in the index, every client gets that context, whatever it asks.
\* (WildcardIndex::match, StringWildcardMatch and tlsext_servername_callback)
HandshakeIsRight ==
    (Usable /\ index.default # NoContext) =>
      \A d \in Domains, host \in Hosts :
        LET s == handshake(index, d, host)
            taken == {n \in Patterns : n[1] = d /\ index.believed[n] # NoContext /\ Accepts(n[2], host)}
            closest == {n \in taken : \A o \in taken : Distance(n[2], host) <= Distance(o[2], host)}
            unread == \E n \in AllNodes : n.domain = d /\ n.wildcards = <<>>
        IN /\ s.verify = PeerVerify[s.context]
           /\ IF ~index.sni THEN ~s.alert /\ s.context = index.default
              ELSE IF s.alert THEN taken = {} \/ unread
              ELSE \E n \in closest : index.believed[n] = s.context
=============================================================================

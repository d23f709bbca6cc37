----------------------- MODULE HttpRoutingProxyProofs -----------------------
(***************************************************************************)
(* The pointers of the proxy's context are accounted for, for any number   *)
(* of client sockets and of requests, whatever the two streams' calls      *)
(* nest, whoever fails and whatever is retried.                            *)
(*                                                                         *)
(* What the pointers need beyond themselves is two facts about control.  A *)
(* server stream in TRANSACTION_END whose context still points at it is    *)
(* the stream that is running, and about to end its transaction: removal   *)
(* skips endTransaction in that state, so without it (after a stop, that   *)
(* is) a removed stream is left in the context.  And the stream whose      *)
(* event is being handled is in the multiplexer until the event ends, so a *)
(* removal ends a transaction that was begun.                              *)
(***************************************************************************)
EXTENDS HttpRoutingProxy, TLAPS, SequenceTheorems

ServerRecords ==
    [phase : {"inactive", "begin", "end"} \cup ServerRecv \cup ServerSend,
     recvPaused : BOOLEAN, sendPaused : BOOLEAN, context : BOOLEAN,
     request : 0 .. MaxRequests, answer : 0 .. MaxRequests, refused : BOOLEAN]

ClientRecords ==
    [phase : Gone \cup {"connecting", "begin", "end"} \cup ClientRecv \cup ClientSend,
     recvPaused : BOOLEAN, sendPaused : BOOLEAN, context : BOOLEAN, request : 0 .. MaxRequests,
     first : BOOLEAN, spent : BOOLEAN]

ContextRecords == [server : BOOLEAN, client : Clients \cup {None}, received : BOOLEAN]

\* The streams and the context, as EndOfClient and EndOfServer take them
Worlds == [server : ServerRecords, client : [Clients -> ClientRecords], context : ContextRecords]

Starting == {"connecting", "begin"}
Begun == {"end"} \cup ClientRecv \cup ClientSend

\* The client streams c and a context that points at p: the streams that are
\* in the multiplexer hold a context, and p is accounted for
PointsAt(c, p) ==
    /\ \A k \in Clients : c[k].context <=> c[k].phase \notin Gone
    /\ \/ p = None
       \/ p \in Clients /\ c[p].context
       \/ p \in Clients /\ c[p].phase = "released"
       \/ \E j \in Clients : c[j].phase \in Starting

Points(w) == PointsAt(w.client, w.context.client)

\* The context's pointer to the server stream
Serves(w) == w.context.server => w.server.context /\ w.server.phase # "inactive"

\* A server stream at the end of its transaction is still paired
Unended(w) == w.server.phase = "end" /\ w.context.server

EndsAtOnce == Unended(World) => Active("server")

\* While it serves, a context that points at a socket which has not begun is
\* that of a refused request, or another one is about to take the place
Replaced(w) ==
    \A p \in Clients :
        w.context.server /\ w.context.client = p
          /\ w.client[p].phase \in Gone \cup {"connecting"} =>
            \/ w.server.refused
            \/ \E j \in Clients \ {p} : w.client[j].phase \in Starting /\ ~w.client[j].first

AnyFrames == [who : Clients \cup {"server", None}, mode : RecvModes \cup SendModes,
              got : BOOLEAN]

\* The stream whose event is being handled is in the multiplexer
Bottom ==
    /\ stack \in Seq(AnyFrames)
    /\ stack = <<>> => ret = None
    /\ \A k \in Clients : stack # <<>> /\ stack[1].who = k => client[k].phase \notin Gone

IInv ==
    /\ World \in Worlds
    /\ Points(World)
    /\ shutdown \/ (Serves(World) /\ EndsAtOnce /\ Replaced(World))
    /\ Bottom

(***************************************************************************)
(* A fresh server stream, a free client stream and a fresh context.        *)
(***************************************************************************)
LEMMA FreshRecords ==
    /\ FreeClient \in ClientRecords /\ FreeClient.phase = "free" /\ ~FreeClient.context
    /\ FreshContext \in ContextRecords
    /\ \A p \in {"inactive", "begin"}, r \in 0 .. MaxRequests :
         /\ FreshServer(p, r) \in ServerRecords
         /\ FreshServer(p, r).phase = p
<1>1. 0 \in 0 .. MaxRequests
  BY ProxyAssumption
<1>2. FreeClient \in ClientRecords /\ FreeClient.phase = "free" /\ ~FreeClient.context
  BY <1>1 DEF FreeClient, ClientRecords, Gone
<1>3. FreshContext \in ContextRecords
  BY DEF FreshContext, ContextRecords
<1>4. ASSUME NEW p \in {"inactive", "begin"}, NEW r \in 0 .. MaxRequests
      PROVE  FreshServer(p, r) \in ServerRecords /\ FreshServer(p, r).phase = p
  BY <1>1 DEF FreshServer, ServerRecords
<1> QED
  BY <1>2, <1>3, <1>4

(***************************************************************************)
(* The server side of a world is kept: its pointer, and that it is not at  *)
(* the end of a transaction that it has still to end.                      *)
(***************************************************************************)
Sound(w) == Serves(w) /\ ~Unended(w) /\ Replaced(w)

(***************************************************************************)
(* handleRemove of a client stream that is in the multiplexer.             *)
(***************************************************************************)
LEMMA ClientRemovedSound ==
    ASSUME NEW w \in Worlds, Points(w), NEW k \in Clients, w.client[k].phase \notin Gone,
           NEW v, v = ClientRemoved(w, k)
    PROVE  /\ v \in Worlds
           /\ Points(v)
           /\ Sound(w) => Sound(v)
           /\ v.context.client = None
<1> DEFINE x == [w.context EXCEPT !.client = None]
           c == [w.client EXCEPT ![k].context = FALSE]
           d == [w.client EXCEPT ![k] = FreeClient]
<1>0. /\ w.context \in ContextRecords /\ w.client \in [Clients -> ClientRecords]
      /\ w.server \in ServerRecords /\ w.server.request \in 0 .. MaxRequests
      /\ w.client[k].context
  BY DEF Worlds, ServerRecords, Points, PointsAt
<1>1. x \in ContextRecords /\ x.client = None /\ x.server = w.context.server
  BY <1>0 DEF ContextRecords
<1>2. d \in [Clients -> ClientRecords] /\ [c EXCEPT ![k] = FreeClient] = d
  BY <1>0, FreshRecords
<1>3. PointsAt(d, None)
  BY <1>0, FreshRecords DEF Points, PointsAt, Gone
<1>4. CASE w.client[k].phase # "end" /\ x.server
  <2> DEFINE s == FreshServer("inactive", w.server.request)
             y == [x EXCEPT !.server = FALSE]
  <2>1. s \in ServerRecords
    BY <1>0, FreshRecords
  <2>2. y \in ContextRecords /\ y.client = None /\ y.server = FALSE
    BY <1>1 DEF ContextRecords
  <2>3. EndOfClient(w, k) = [server |-> s, client |-> c, context |-> y]
    BY <1>0, <1>4 DEF EndOfClient
  <2>4. v = [server |-> s, client |-> d, context |-> y]
    <3> HIDE DEF s, y, c, x, d
    <3> QED
      BY <1>2, <2>3 DEF ClientRemoved
  <2> HIDE DEF s, y, d, x
  <2>5. v \in Worlds /\ v.context = y /\ v.server = s /\ v.client = d
    BY <1>2, <2>1, <2>2, <2>4 DEF Worlds
  <2> QED
    BY <1>3, <2>2, <2>5, ProxyAssumption DEF Points, Sound, Serves, Unended, Replaced
<1>5. CASE ~(w.client[k].phase # "end" /\ x.server)
  <2>1. EndOfClient(w, k) = [server |-> w.server, client |-> c, context |-> x]
    BY <1>0, <1>5 DEF EndOfClient
  <2>2. v = [server |-> w.server, client |-> d, context |-> x]
    <3> HIDE DEF c, x, d
    <3> QED
      BY <1>2, <2>1 DEF ClientRemoved
  <2> HIDE DEF d, x
  <2>3. v \in Worlds /\ v.context = x /\ v.server = w.server /\ v.client = d
    BY <1>0, <1>1, <1>2, <2>2 DEF Worlds
  <2> QED
    BY <1>1, <1>3, <2>3, ProxyAssumption DEF Points, Sound, Serves, Unended, Replaced
<1> QED
  BY <1>4, <1>5

\* what executing a transaction t on the socket j leaves of the world w
ExecutedOn(v, w, j, pooled, t) ==
    /\ v \in Worlds
    /\ v.server = w.server /\ v.context.server = w.context.server
    /\ v.context.received = w.context.received
    /\ v.context.client = IF pooled THEN j ELSE w.context.client
    /\ \A c \in Clients : c # j => v.client[c] = w.client[c]
    /\ v.client[j].phase = IF pooled THEN "begin" ELSE "connecting"
    /\ v.client[j].context = TRUE /\ v.client[j].request = t.request
    /\ v.client[j].recvPaused = FALSE /\ v.client[j].sendPaused = FALSE
    /\ v.client[j].first = pooled

(***************************************************************************)
(* A transaction executed on the socket j: it holds the context, and only  *)
(* a pooled socket is pointed at at once.                                  *)
(***************************************************************************)
LEMMA ExecutedSound ==
    ASSUME NEW w \in Worlds, NEW j \in Clients, NEW pooled \in BOOLEAN, NEW t,
           t.context = TRUE, t.request \in 0 .. MaxRequests, t.spent \in BOOLEAN,
           NEW v, v = Executed(w, j, pooled, t)
    PROVE  ExecutedOn(v, w, j, pooled, t)
<1> DEFINE r == [FreeClient EXCEPT !.phase = IF pooled THEN "begin" ELSE "connecting",
                                   !.context = t.context, !.request = t.request,
                                   !.first = pooled, !.spent = t.spent]
           c == [w.client EXCEPT ![j] = r]
           x == [w.context EXCEPT !.client = IF pooled THEN j ELSE @]
<1>1. /\ r \in ClientRecords
      /\ r.phase = IF pooled THEN "begin" ELSE "connecting"
      /\ r.context = TRUE /\ r.request = t.request
      /\ r.recvPaused = FALSE /\ r.sendPaused = FALSE /\ r.first = pooled
  BY DEF FreeClient, ClientRecords
<1>2. /\ w.context \in ContextRecords /\ w.client \in [Clients -> ClientRecords]
      /\ w.server \in ServerRecords
  BY DEF Worlds
<1>3. /\ x \in ContextRecords /\ x.server = w.context.server
      /\ x.received = w.context.received
      /\ x.client = IF pooled THEN j ELSE w.context.client
  BY <1>2 DEF ContextRecords
<1>4. v = [server |-> w.server, client |-> c, context |-> x]
  <2>1. w = [server |-> w.server, client |-> w.client, context |-> w.context]
    BY DEF Worlds
  <2>2. v = [[w EXCEPT !.client = c] EXCEPT !.context = x]
    BY <2>1 DEF Executed
  <2> HIDE DEF c, x
  <2> QED
    BY <2>1, <2>2
<1> HIDE DEF r, x
<1>5. c \in [Clients -> ClientRecords] /\ c[j] = r /\ \A d \in Clients : d # j => c[d] = w.client[d]
  BY <1>1, <1>2
<1> HIDE DEF c
<1>6. v \in Worlds /\ v.server = w.server /\ v.client = c /\ v.context = x
  BY <1>2, <1>3, <1>4, <1>5 DEF Worlds
<1> QED
  BY <1>1, <1>3, <1>5, <1>6 DEF ExecutedOn

(***************************************************************************)
(* A stale connection: the socket is freed, and the transaction starts     *)
(* again on another one.                                                   *)
(***************************************************************************)
LEMMA RetriesSound ==
    ASSUME NEW w \in Worlds, Points(w), NEW k \in Clients, w.client[k].phase \notin Gone,
           w.client[k].first, NEW v \in Retries(w, k)
    PROVE  /\ v \in Worlds
           /\ Points(v)
           /\ Sound(w) => Sound(v)
<1> DEFINE u == [w EXCEPT !.client[k] = FreeClient]
<1>1. PICK j \in Clients, pooled \in BOOLEAN :
        w.client[j].phase \in Gone /\ v = Executed(u, j, pooled, w.client[k])
  BY DEF Retries
<1>2. /\ u \in Worlds /\ u.server = w.server /\ u.context = w.context
      /\ u.client[k] = FreeClient /\ \A c \in Clients : c # k => u.client[c] = w.client[c]
  BY FreshRecords DEF Worlds
<1>3. /\ w.client[k].context = TRUE /\ w.client[k].request \in 0 .. MaxRequests
      /\ w.client[k].spent \in BOOLEAN
  BY DEF Worlds, ClientRecords, Points, PointsAt
<1> HIDE DEF u
<1>4. ExecutedOn(v, u, j, pooled, w.client[k])
  <2> DEFINE t == w.client[k]
  <2>1. t.context = TRUE /\ t.request \in 0 .. MaxRequests /\ t.spent \in BOOLEAN
    BY <1>3
  <2>2. v = Executed(u, j, pooled, t)
    BY <1>1
  <2>3. ExecutedOn(v, u, j, pooled, t)
    <3> HIDE DEF t
    <3> QED
      BY <1>2, <2>1, <2>2, ExecutedSound
  <2> QED
    BY <2>3
<1>5. Points(v)
  BY <1>2, <1>4, FreshRecords DEF ExecutedOn, Points, PointsAt, Gone, Starting
<1> QED
  <2>1. Serves(w) /\ ~Unended(w) => Serves(v) /\ ~Unended(v)
    BY <1>2, <1>4 DEF ExecutedOn, Serves, Unended
  <2>2. ASSUME Replaced(w) PROVE Replaced(v)
    <3> SUFFICES ASSUME NEW p \in Clients, v.context.server, v.context.client = p,
                        v.client[p].phase \in Gone \cup {"connecting"}
                 PROVE  \/ v.server.refused
                        \/ \E i \in Clients \ {p} : v.client[i].phase \in Starting /\ ~v.client[i].first
      BY DEF Replaced
    <3>1. ~pooled /\ w.context.client = p /\ w.context.server /\ k # j
      BY <1>1, <1>2, <1>4 DEF ExecutedOn, Gone
    <3>2. v.client[j].phase \in Starting /\ ~v.client[j].first
      BY <1>4, <3>1 DEF ExecutedOn, Starting
    <3>3. CASE p = k
      BY <3>1, <3>2, <3>3
    <3>4. CASE p # k
      <4>1. w.client[p].phase \in Gone \cup {"connecting"}
        BY <1>1, <1>2, <1>4, <3>4 DEF ExecutedOn
      <4>2. \/ w.server.refused
            \/ \E i \in Clients \ {p} : w.client[i].phase \in Starting /\ ~w.client[i].first
        BY <2>2, <3>1, <4>1 DEF Replaced
      <4>3. ASSUME NEW i \in Clients \ {p}, w.client[i].phase \in Starting, ~w.client[i].first
            PROVE  v.client[i].phase \in Starting /\ ~v.client[i].first
        <5>1. i # k /\ i # j
          BY <1>1, <4>3 DEF Gone, Starting
        <5> QED
          BY <1>2, <1>4, <4>3, <5>1 DEF ExecutedOn
      <4> QED
        BY <1>2, <1>4, <4>2, <4>3 DEF ExecutedOn
    <3> QED
      BY <3>3, <3>4
  <2> QED
    BY <1>4, <1>5, <2>1, <2>2 DEF ExecutedOn, Sound

(***************************************************************************)
(* Either way a client stream is removed.                                  *)
(***************************************************************************)
LEMMA ClientRemovalsSound ==
    ASSUME NEW w \in Worlds, Points(w), NEW k \in Clients, w.client[k].phase \notin Gone,
           NEW v \in ClientRemovals(w, k)
    PROVE  /\ v \in Worlds
           /\ Points(v)
           /\ Sound(w) => Sound(v)
<1>1. v = ClientRemoved(w, k) \/ (w.client[k].first /\ v \in Retries(w, k))
  BY DEF ClientRemovals
<1> QED
  BY <1>1, ClientRemovedSound, RetriesSound

(***************************************************************************)
(* endTransaction of a server stream: the context no longer points at it,  *)
(* and a client stream aborted with it is not pointed at either.           *)
(***************************************************************************)
LEMMA EndOfServerSound ==
    ASSUME NEW w \in Worlds, Points(w), NEW failed \in BOOLEAN,
           NEW v, v = EndOfServer(w, failed)
    PROVE  /\ v \in Worlds
           /\ Points(v)
           /\ Serves(w) => ~v.context.server
<1>1. CASE ~w.server.context
  BY <1>1 DEF EndOfServer, Serves, Worlds, ContextRecords
<1>2. CASE w.server.context
  <2> DEFINE x == [w.context EXCEPT !.server = FALSE]
             s == [w.server EXCEPT !.context = FALSE]
  <2>0. /\ w.context \in ContextRecords /\ w.client \in [Clients -> ClientRecords]
        /\ w.server \in ServerRecords
    BY DEF Worlds
  <2>1. x \in ContextRecords /\ x.client = w.context.client /\ ~x.server
    BY <2>0 DEF ContextRecords
  <2>2. s \in ServerRecords
    BY <2>0 DEF ServerRecords
  <2>3. CASE failed /\ x.client # None
    <3> DEFINE c == [w.client EXCEPT ![x.client] = FreeClient]
               y == [x EXCEPT !.client = None]
    <3>1. c \in [Clients -> ClientRecords]
      BY <2>0, FreshRecords
    <3>2. y \in ContextRecords /\ y.client = None /\ ~y.server
      BY <2>1 DEF ContextRecords
    <3>3. v = [server |-> s, client |-> c, context |-> y]
      BY <1>2, <2>3 DEF EndOfServer
    <3>4. PointsAt(c, None)
      BY <2>0, FreshRecords DEF Points, PointsAt, Gone
    <3> HIDE DEF s, y, c, x
    <3>5. v \in Worlds /\ v.context = y /\ v.client = c
      BY <2>2, <3>1, <3>2, <3>3 DEF Worlds
    <3> QED
      BY <3>2, <3>4, <3>5 DEF Points
  <2>4. CASE ~(failed /\ x.client # None)
    <3>1. v = [server |-> s, client |-> w.client, context |-> x]
      BY <1>2, <2>4 DEF EndOfServer
    <3> HIDE DEF s, x
    <3>2. v \in Worlds /\ v.context = x /\ v.client = w.client
      BY <2>0, <2>1, <2>2, <3>1 DEF Worlds
    <3> QED
      BY <2>1, <3>2 DEF Points
  <2> QED
    BY <2>3, <2>4
<1> QED
  BY <1>1, <1>2

-----------------------------------------------------------------------------
(* Steps.  Goal is what a step that does not end the server's transaction  *)
(* establishes; a client stream leaves the multiplexer only when no call   *)
(* is active any more.                                                     *)
Stays == stack' = <<>> \/ \A k \in Clients : client'[k].phase \in Gone => client[k].phase \in Gone

Goal == World' \in Worlds /\ Points(World') /\ (Sound(World) => Sound(World')) /\ Stays

(***************************************************************************)
(* The shape of the variables.                                             *)
(***************************************************************************)
LEMMA Shape ==
    ASSUME IInv
    PROVE  /\ server \in ServerRecords /\ client \in [Clients -> ClientRecords]
           /\ context \in ContextRecords
           /\ context.client \in Clients \cup {None}
           /\ server.request \in 0 .. MaxRequests
           /\ World \in Worlds /\ Points(World)
           /\ PointsAt(client, context.client)
           /\ World.server = server /\ World.client = client /\ World.context = context
           /\ ~shutdown => /\ context.server => server.context /\ server.phase # "inactive"
                           /\ Replaced(World)
BY DEF IInv, World, Worlds, Points, Serves, ContextRecords, ServerRecords

(***************************************************************************)
(* A world of the right shape, after a step.                               *)
(***************************************************************************)
LEMMA ShapeNext ==
    ASSUME server' \in ServerRecords, client' \in [Clients -> ClientRecords],
           context' \in ContextRecords
    PROVE  World' \in Worlds
BY DEF World, Worlds

(***************************************************************************)
(* Become(w) leaves exactly w.                                             *)
(***************************************************************************)
LEMMA Became ==
    ASSUME NEW w \in Worlds, Become(w)
    PROVE  World' = w
BY DEF Become, World, Worlds

(***************************************************************************)
(* While a paired server stream is in TRANSACTION_END it runs.             *)
(***************************************************************************)
LEMMA NotUnended ==
    ASSUME IInv, ~shutdown,
           stack = <<>> \/ ret # None \/ Top.who # "server" \/ server.phase # "end"
    PROVE  Sound(World) /\ ~Unended(World)
BY DEF IInv, EndsAtOnce, Active, Unended, World, Sound

(***************************************************************************)
(* Client streams that differ in where they are, but not in whether they   *)
(* are in the multiplexer and have begun.                                  *)
(***************************************************************************)
Alike(c, d) ==
    \A k \in Clients :
        /\ c[k].context = d[k].context /\ (c[k].first => d[k].first)
        /\ \/ c[k].phase = d[k].phase
           \/ c[k].phase \in Begun /\ d[k].phase \in Begun
           \/ c[k].phase = "begin" /\ d[k].phase = "connecting"

(***************************************************************************)
(* The pointers are accounted for just the same.                           *)
(***************************************************************************)
LEMMA AlikePoints ==
    ASSUME NEW c, NEW d, Alike(c, d), NEW p \in Clients \cup {None}, PointsAt(d, p)
    PROVE  /\ PointsAt(c, p)
           /\ \A k \in Clients :
                /\ c[k].phase \in Gone => d[k].phase \in Gone
                /\ c[k].phase \in Gone \cup {"connecting"} =>
                     d[k].phase \in Gone \cup {"connecting"}
                /\ d[k].phase \in Starting /\ ~d[k].first =>
                     c[k].phase \in Starting /\ ~c[k].first
<1>1. ASSUME NEW k \in Clients
      PROVE  /\ c[k].context = d[k].context
             /\ c[k].phase \in Gone <=> d[k].phase \in Gone
             /\ d[k].phase = "released" => c[k].phase = "released"
             /\ d[k].phase \in Starting => c[k].phase \in Starting
             /\ c[k].phase \in Gone \cup {"connecting"} => d[k].phase \in Gone \cup {"connecting"}
             /\ c[k].first => d[k].first
  BY DEF Alike, Begun, Starting, Gone, ClientRecv, ClientSend
<1> QED
  BY <1>1 DEF PointsAt

(***************************************************************************)
(* Steps that change no pointer and end no stream.                         *)
(***************************************************************************)
LEMMA SamePointers ==
    ASSUME IInv, context' \in ContextRecords,
           context'.client = context.client, context'.server = context.server,
           server' \in ServerRecords, client' \in [Clients -> ClientRecords],
           server'.context = server.context, server.refused => server'.refused,
           server'.phase # "inactive" \/ server'.phase = server.phase,
           server'.phase # "end" \/ server'.phase = server.phase,
           Alike(client', client)
    PROVE  Goal
<1>1. World' \in Worlds
  BY ShapeNext
<1>2. /\ PointsAt(client', context.client)
      /\ \A k \in Clients : client'[k].phase \in Gone => client[k].phase \in Gone
  BY Shape, AlikePoints
<1>3. Points(World') /\ Stays
  BY <1>2 DEF Points, Stays, World
<1>4. Replaced(World) => Replaced(World')
  <2>1. \A k \in Clients :
          /\ client'[k].phase \in Gone \cup {"connecting"} => client[k].phase \in Gone \cup {"connecting"}
          /\ client[k].phase \in Starting /\ ~client[k].first =>
               client'[k].phase \in Starting /\ ~client'[k].first
    BY Shape, AlikePoints
  <2> QED
    BY <2>1 DEF Replaced, World
<1>5. Sound(World) => Sound(World')
  BY <1>4 DEF Sound, Serves, Unended, World
<1> QED
  BY <1>1, <1>3, <1>5 DEF Goal

(***************************************************************************)
(* A step that leaves streams and context alone.                           *)
(***************************************************************************)
LEMMA QuietKeeps ==
    ASSUME IInv, Quiet
    PROVE  Goal
BY DEF IInv, Quiet, Goal, World, Stays

(***************************************************************************)
(* handleRemove of the server stream, when no call is left.                *)
(***************************************************************************)
LEMMA RemoveServerKeeps ==
    ASSUME IInv, RemoveServer, stack' = <<>>
    PROVE  Goal
<1> DEFINE w == IF server.phase = "end" THEN World ELSE EndOfServer(World, TRUE)
           v == [w EXCEPT !.server = FreshServer("inactive", server.request)]
<1>1. w \in Worlds /\ Points(w) /\ (Sound(World) => ~w.context.server)
  <2>1. CASE server.phase = "end"
    BY <2>1, Shape DEF Unended, World, Sound
  <2>2. CASE server.phase # "end"
    BY <2>2, Shape, EndOfServerSound DEF Sound
  <2> QED
    BY <2>1, <2>2
<1>2. Become(v)
  BY DEF RemoveServer
<1>3. FreshServer("inactive", server.request) \in ServerRecords
  BY Shape, FreshRecords
<1> HIDE DEF w
<1>4. v \in Worlds /\ v.context = w.context /\ v.client = w.client
  BY <1>1, <1>3 DEF Worlds
<1> HIDE DEF v
<1>5. World' = v
  BY <1>2, <1>4, Became
<1> QED
  BY <1>1, <1>4, <1>5 DEF Goal, Points, Unended, Sound, Serves, Replaced, Stays

(***************************************************************************)
(* A sequence without its last element, and with another one.              *)
(***************************************************************************)
LEMMA WithoutLast ==
    ASSUME NEW S, NEW s \in Seq(S), Len(s) # 0, NEW t, t = SubSeq(s, 1, Len(s) - 1)
    PROVE  /\ t \in Seq(S) /\ Len(t) = Len(s) - 1
           /\ \A i \in 1 .. Len(s) - 1 : t[i] = s[i]
<1> DEFINE n == Len(s) - 1
<1>1. Len(s) \in Nat /\ n \in Nat /\ 1 \in Int /\ n \in Int
  BY LenProperties
<1>2. \A i \in 1 .. n : i \in 1 .. Len(s)
  BY <1>1
<1>3. \A i \in 1 .. n : s[i] \in S
  BY <1>2, ElementOfSeq
<1>4. t = SubSeq(s, 1, n)
  OBVIOUS
<1> HIDE DEF n
<1>5. /\ t \in Seq(S)
      /\ Len(t) = IF 1 <= n THEN n - 1 + 1 ELSE 0
      /\ \A i \in 1 .. n - 1 + 1 : t[i] = s[1 + i - 1]
  BY <1>1, <1>3, <1>4, SubSeqProperties
<1>6. Len(t) = n
  BY <1>1, <1>5
<1>7. ASSUME NEW i \in 1 .. n PROVE t[i] = s[i]
  <2>1. i \in 1 .. n - 1 + 1 /\ 1 + i - 1 = i
    BY <1>1
  <2> QED
    BY <1>5, <2>1
<1> QED
  BY <1>5, <1>6, <1>7 DEF n

\* a sequence with its last element replaced
LEMMA WithAnotherLast ==
    ASSUME NEW S, NEW s \in Seq(S), Len(s) # 0, NEW e \in S, NEW t, t = [s EXCEPT ![Len(s)] = e]
    PROVE  /\ t \in Seq(S) /\ Len(t) = Len(s)
           /\ \A i \in 1 .. Len(s) : t[i] = IF i = Len(s) THEN e ELSE s[i]
<1>1. Len(s) \in 1 .. Len(s)
  BY LenProperties
<1> QED
  BY <1>1, ExceptSeq

(***************************************************************************)
(* The last call leaves no call.                                           *)
(***************************************************************************)
LEMMA LastLeaves ==
    ASSUME IInv, NEW rc, NEW n, Leave(rc, n), Len(stack) = 1
    PROVE  stack' = <<>> /\ ret' = None
<1>1. stack \in Seq(AnyFrames)
  BY DEF IInv, Bottom
<1>2. stack' = SubSeq(stack, 1, 0) /\ ret' = None
  BY DEF Leave
<1>3. stack' \in Seq(AnyFrames) /\ Len(stack') = 0
  BY <1>1, <1>2, WithoutLast
<1> QED
  BY <1>2, <1>3, EmptySeq

(***************************************************************************)
(* The server stream's state machine returns an error.                     *)
(***************************************************************************)
LEMMA ServerFailsKeeps ==
    ASSUME IInv, ServerFails
    PROVE  Goal
<1>1. CASE Len(stack) = 1
  BY <1>1, RemoveServerKeeps, LastLeaves DEF ServerFails
<1>2. CASE Len(stack) # 1
  BY <1>2, QuietKeeps DEF ServerFails, Quiet
<1> QED
  BY <1>1, <1>2

(***************************************************************************)
(* A client stream that has been called is at the top of the stack.  When  *)
(* its event ends, it is in the multiplexer.                               *)
(***************************************************************************)
LEMMA EventsAreAlive ==
    ASSUME IInv, NEW k \in Clients, Top.who = k, Len(stack) = 1
    PROVE  client[k].phase \notin Gone
<1>1. stack # <<>> /\ stack[1].who = k
  BY DEF IInv, Bottom, Top
<1> QED
  BY <1>1 DEF IInv, Bottom

(***************************************************************************)
(* A client stream is removed, or its state machine returns an error, in a *)
(* world that the step has already changed.                                *)
(***************************************************************************)
LEMMA ClientFailsInKeeps ==
    ASSUME IInv, NEW w \in Worlds, Points(w), Sound(World) => Sound(w), NEW k \in Clients,
           \A c \in Clients : w.client[c].phase \in Gone <=> client[c].phase \in Gone,
           Top.who = k,
           \/ ClientFailsIn(w, k)
           \/ /\ \E v \in ClientRemovals(w, k) : Become(v)
              /\ Len(stack) = 1 /\ \E rc, n : Leave(rc, n)
    PROVE  Goal
<1>1. CASE Len(stack) = 1
  <2>1. PICK v \in ClientRemovals(w, k) : Become(v)
    BY <1>1 DEF ClientFailsIn
  <2>2. v \in Worlds /\ Points(v) /\ (Sound(w) => Sound(v))
    BY <1>1, EventsAreAlive, ClientRemovalsSound
  <2>3. World' = v
    BY <2>1, <2>2, Became
  <2>4. stack' = <<>>
    BY <1>1, LastLeaves DEF ClientFailsIn
  <2> QED
    BY <2>2, <2>3, <2>4 DEF Goal, Stays
<1>2. CASE Len(stack) # 1
  <2>1. Become(w)
    BY <1>2 DEF ClientFailsIn
  <2>2. World' = w
    BY <2>1, Became
  <2>3. Stays
    BY <2>1 DEF Become, Stays
  <2> QED
    BY <2>2, <2>3 DEF Goal
<1> QED
  BY <1>1, <1>2

(***************************************************************************)
(* The same without a change before.                                       *)
(***************************************************************************)
LEMMA ClientFailsKeeps ==
    ASSUME IInv, NEW k \in Clients, Top.who = k,
           ClientFails(k) \/ (RemoveClient(k) /\ Len(stack) = 1 /\ \E rc, n : Leave(rc, n))
    PROVE  Goal
BY Shape, ClientFailsInKeeps DEF ClientFails, RemoveClient

(***************************************************************************)
(* The pairs of pauses and resumptions, also when the context has no       *)
(* client stream any more.                                                 *)
(***************************************************************************)
LEMMA BlockedKeeps ==
    ASSUME IInv, NEW k \in Clients \cup {None},
           \/ OnClientRecvBlocked(k) \/ OnServerRecvBlocked(k)
           \/ OnClientSendBlocked(k) \/ OnServerSendBlocked(k)
    PROVE  Goal
<1>1. /\ server' \in ServerRecords
      /\ server'.context = server.context /\ server'.phase = server.phase
      /\ server'.refused = server.refused
  BY Shape DEF OnClientRecvBlocked, OnServerRecvBlocked, OnClientSendBlocked, OnServerSendBlocked,
               ServerRecords
<1>2. /\ client' \in [Clients -> ClientRecords]
      /\ \A c \in Clients : client'[c].context = client[c].context
                            /\ client'[c].phase = client[c].phase
                            /\ client'[c].first = client[c].first
  <2>1. PICK b \in BOOLEAN : \/ client' = [client EXCEPT ![k].recvPaused = b]
                              \/ client' = [client EXCEPT ![k].sendPaused = b]
    BY Zenon DEF OnClientRecvBlocked, OnServerRecvBlocked, OnClientSendBlocked, OnServerSendBlocked
  <2> DEFINE r == [client[k] EXCEPT !.recvPaused = b]
             t == [client[k] EXCEPT !.sendPaused = b]
  <2>2. client \in [Clients -> ClientRecords]
    BY Shape
  <2>3. k \in Clients => /\ r \in ClientRecords /\ t \in ClientRecords
                         /\ r.context = client[k].context /\ r.phase = client[k].phase
                         /\ r.first = client[k].first /\ t.first = client[k].first
                         /\ t.context = client[k].context /\ t.phase = client[k].phase
    BY <2>2 DEF ClientRecords
  <2>4. client' = [client EXCEPT ![k] = r] \/ client' = [client EXCEPT ![k] = t]
    BY <2>1
  <2> HIDE DEF r, t
  <2> QED
    BY <2>2, <2>3, <2>4
<1>3. UNCHANGED context
  BY DEF OnClientRecvBlocked, OnServerRecvBlocked, OnClientSendBlocked, OnServerSendBlocked
<1>4. Alike(client', client)
  BY <1>2 DEF Alike
<1> QED
  BY <1>1, <1>2, <1>3, <1>4, Shape, SamePointers

(***************************************************************************)
(* A server stream changes its phase, not to TRANSACTION_END.              *)
(***************************************************************************)
LEMMA SPhaseKeeps ==
    ASSUME IInv, NEW from,
           NEW to \in {"begin"} \cup ServerRecv \cup ServerSend, SPhase(from, to)
    PROVE  Goal
<1>1. /\ server' \in ServerRecords /\ server'.context = server.context
      /\ server'.phase \notin {"inactive", "end"} /\ server'.refused = server.refused
  BY Shape DEF SPhase, ServerRecords, ServerRecv, ServerSend
<1>2. UNCHANGED <<client, context>> /\ Alike(client', client)
  BY DEF SPhase, Alike
<1> QED
  BY <1>1, <1>2, Shape, SamePointers

(***************************************************************************)
(* Something about a client stream that has begun changes: where it is, or *)
(* what has been sent on its connection.                                   *)
(***************************************************************************)
LEMMA BegunKeeps ==
    ASSUME IInv, NEW k \in Clients, client[k].phase \in Begun, NEW to \in Begun,
           NEW first \in BOOLEAN, first => client[k].first, NEW spent \in BOOLEAN,
           client' = [client EXCEPT ![k].phase = to, ![k].first = first, ![k].spent = spent],
           UNCHANGED <<server, context>>
    PROVE  Goal
<1>1. client' \in [Clients -> ClientRecords] /\ Alike(client', client)
  <2> DEFINE r == [client[k] EXCEPT !.phase = to, !.first = first, !.spent = spent]
  <2>1. client \in [Clients -> ClientRecords]
    BY Shape
  <2>2. r \in ClientRecords /\ r.context = client[k].context /\ r.phase = to /\ r.first = first
    BY <2>1 DEF ClientRecords, Begun
  <2>3. client' = [client EXCEPT ![k] = r]
    BY <2>1
  <2> HIDE DEF r
  <2>4. r.first => client[k].first
    BY <2>2, Zenon
  <2>5. \A c \in Clients : client'[c] = IF c = k THEN r ELSE client[c]
    BY <2>1, <2>3
  <2>6. Alike(client', client)
    BY <2>2, <2>4, <2>5, Zenon DEF Alike
  <2> QED
    BY <2>1, <2>2, <2>3, <2>6
<1> QED
  BY <1>1, Shape, SamePointers

(***************************************************************************)
(* A client stream changes its phase.                                      *)
(***************************************************************************)
LEMMA CPhaseKeeps ==
    ASSUME IInv, NEW k \in Clients, NEW from \in Begun, NEW to \in Begun, CPhase(k, from, to)
    PROVE  Goal
<1> DEFINE a == client[k].first
           b == client[k].spent
<1>1. a \in BOOLEAN /\ b \in BOOLEAN
  BY Shape DEF ClientRecords
<1>2. client' = [client EXCEPT ![k].phase = to, ![k].first = a, ![k].spent = b] /\ (a => client[k].first)
  BY Shape DEF CPhase, ClientRecords
<1> HIDE DEF a, b
<1> QED
  BY <1>1, <1>2, BegunKeeps DEF CPhase

-----------------------------------------------------------------------------
(* The stack.                                                              *)
Moves ==
    /\ stack # <<>>
    /\ \/ Continue
       \/ \E who \in Clients \cup {"server", None}, mode \in RecvModes \cup SendModes : Call(who, mode)
       \/ \E rc, n : Leave(rc, n)
       \/ stack' = [stack EXCEPT ![Len(stack)].got = TRUE] /\ ret' = None

(***************************************************************************)
(* What a step does to the stack keeps the event's stream in its place.    *)
(***************************************************************************)
LEMMA BottomKept ==
    ASSUME Bottom, Moves, Stays
    PROVE  Bottom'
<1>0. stack \in Seq(AnyFrames) /\ Len(stack) \in Nat \ {0}
  BY EmptySeq, LenProperties DEF Bottom, Moves
<1>1. ASSUME stack' \in Seq(AnyFrames), stack' # <<>>, stack'[1].who = stack[1].who
      PROVE  Bottom'
  BY <1>1 DEF Bottom, Moves, Stays
<1>2. ASSUME stack' = <<>>, ret' = None PROVE Bottom'
  BY <1>2 DEF Bottom
<1>3. CASE Continue
  BY <1>3, <1>1 DEF Continue, Bottom, Moves
<1>4. ASSUME NEW who \in Clients \cup {"server", None}, NEW mode \in RecvModes \cup SendModes,
             Call(who, mode)
      PROVE  Bottom'
  <2> DEFINE f == [who |-> who, mode |-> mode, got |-> FALSE]
  <2>1. f \in AnyFrames
    BY DEF AnyFrames
  <2>2. stack' = Append(stack, f)
    BY <1>4 DEF Call
  <2> HIDE DEF f
  <2> QED
    BY <1>0, <1>1, <2>1, <2>2
<1>5. ASSUME NEW rc, NEW n, Leave(rc, n) PROVE Bottom'
  <2>1. stack' = SubSeq(stack, 1, Len(stack) - 1)
    BY <1>5 DEF Leave
  <2>2. CASE Len(stack) = 1
    <3>1. stack' = <<>>
      BY <1>0, <2>1, <2>2, WithoutLast, EmptySeq
    <3> QED
      BY <1>2, <1>5, <2>2, <3>1 DEF Leave
  <2>3. CASE Len(stack) # 1
    <3>1. /\ stack' \in Seq(AnyFrames) /\ Len(stack') = Len(stack) - 1
          /\ \A i \in 1 .. Len(stack) - 1 : stack'[i] = stack[i]
      <4>1. /\ SubSeq(stack, 1, Len(stack) - 1) \in Seq(AnyFrames)
            /\ Len(SubSeq(stack, 1, Len(stack) - 1)) = Len(stack) - 1
            /\ \A i \in 1 .. Len(stack) - 1 : SubSeq(stack, 1, Len(stack) - 1)[i] = stack[i]
        BY <1>0, WithoutLast, Zenon
      <4> QED
        BY <2>1, <4>1, Zenon
    <3>2. 1 \in 1 .. Len(stack) - 1
      <4>1. \A m \in Nat \ {0} : m # 1 => 1 \in 1 .. m - 1
        OBVIOUS
      <4> QED
        BY <1>0, <2>3, <4>1
    <3> QED
      BY <1>0, <1>1, <2>3, <3>1, <3>2
  <2> QED
    BY <2>2, <2>3
<1>6. ASSUME stack' = [stack EXCEPT ![Len(stack)].got = TRUE] PROVE Bottom'
  <2> DEFINE f == [stack[Len(stack)] EXCEPT !.got = TRUE]
  <2>1. stack[Len(stack)] \in AnyFrames
    BY <1>0, ElementOfSeq
  <2>2. f \in AnyFrames /\ f.who = stack[Len(stack)].who
    BY <2>1 DEF AnyFrames
  <2>3. stack' = [stack EXCEPT ![Len(stack)] = f]
    BY <1>6
  <2> HIDE DEF f
  <2>4. stack' \in Seq(AnyFrames) /\ Len(stack') = Len(stack)
    BY <1>0, <2>2, <2>3, WithAnotherLast
  <2>5. stack'[1].who = stack[1].who
    BY <1>0, <2>2, <2>3, WithAnotherLast
  <2> QED
    BY <1>0, <1>1, <2>4, <2>5
<1> QED
  BY <1>3, <1>4, <1>5, <1>6 DEF Moves

(***************************************************************************)
(* The invariant after a step, while the loop runs and when it stops.      *)
(***************************************************************************)
LEMMA GoalSuffices ==
    ASSUME IInv, Goal, Moves, UNCHANGED shutdown, ~shutdown => Sound(World)
    PROVE  IInv'
<1>1. Bottom'
  BY BottomKept DEF IInv, Goal
<1>2. (shutdown \/ (Serves(World) /\ EndsAtOnce /\ Replaced(World)))'
  BY DEF Goal, Sound, EndsAtOnce
<1> QED
  BY <1>1, <1>2 DEF IInv, Goal

(***************************************************************************)
(* beginTransaction of a server stream: the new context points at it, and  *)
(* at no client stream.                                                    *)
(***************************************************************************)
LEMMA ServerBeginKeeps ==
    ASSUME IInv, ServerBegin
    PROVE  Goal
<1>1. CASE ServerFails
  BY <1>1, ServerFailsKeeps
<1>2. ASSUME server.request < MaxRequests,
             server' = [server EXCEPT !.phase = "headers", !.context = TRUE, !.request = @ + 1],
             context' = [FreshContext EXCEPT !.server = TRUE],
             UNCHANGED client
      PROVE  Goal
  <2>1. server.request + 1 \in 0 .. MaxRequests
    BY <1>2, Shape, ProxyAssumption
  <2>2. server' \in ServerRecords
    BY <1>2, <2>1, Shape DEF ServerRecords, ServerRecv
  <2>3. server'.phase = "headers" /\ server'.context = TRUE
    BY <1>2, Shape DEF ServerRecords
  <2>4. context' \in ContextRecords /\ context'.client = None
    BY <1>2 DEF FreshContext, ContextRecords
  <2>5. World' \in Worlds
    BY <1>2, <2>2, <2>4, Shape, ShapeNext
  <2>6. Points(World')
    BY <1>2, <2>4, Shape DEF Points, PointsAt, World
  <2> QED
    BY <1>2, <2>3, <2>4, <2>5, <2>6, ProxyAssumption DEF Goal, Stays, Sound, Serves, Unended, Replaced, World
<1> QED
  BY <1>1, <1>2 DEF ServerBegin

(***************************************************************************)
(* receiveRequestHeaders, routed: a socket outside the multiplexer gets    *)
(* the transaction.                                                        *)
(***************************************************************************)
LEMMA ServerRoutesKeeps ==
    ASSUME IInv, ServerRoutes
    PROVE  Goal
<1> DEFINE t == [context |-> TRUE, request |-> server.request, spent |-> FALSE]
<1>1. PICK j \in Clients, pooled \in BOOLEAN :
        /\ client[j].phase \in Gone
        /\ client' = Executed(World, j, pooled, t).client
        /\ context' = Executed(World, j, pooled, t).context
  BY DEF ServerRoutes
<1>2. server' = [server EXCEPT !.phase = "body", !.recvPaused = TRUE, !.sendPaused = TRUE]
  BY DEF ServerRoutes
<1>3. t.context = TRUE /\ t.request \in 0 .. MaxRequests /\ t.spent \in BOOLEAN
  BY Shape
<1> DEFINE v == Executed(World, j, pooled, t)
<1> HIDE DEF t
<1>4. ExecutedOn(v, World, j, pooled, t)
  BY <1>3, Shape, ExecutedSound
<1> HIDE DEF v
<1>5. server' \in ServerRecords /\ server'.phase = "body" /\ server'.context = server.context
  BY <1>2, Shape DEF ServerRecords, ServerRecv
<1>6. /\ client' = v.client /\ context' = v.context
      /\ client' \in [Clients -> ClientRecords] /\ context' \in ContextRecords
  BY <1>1, <1>4 DEF ExecutedOn, Worlds, v
<1>7. World' \in Worlds
  BY <1>5, <1>6, ShapeNext
<1>8. PointsAt(v.client, v.context.client) /\ v.client[j].phase \notin Gone
  BY <1>4, Shape DEF ExecutedOn, PointsAt, Gone, Starting
<1>9. Points(World')
  BY <1>6, <1>8 DEF Points, World
<1>10. context'.server = context.server
  BY <1>4, <1>6, Shape DEF ExecutedOn
<1>11. Stays
  BY <1>1, <1>4, <1>6, <1>8, Shape DEF ExecutedOn, Stays
<1>12. ASSUME Replaced(World) PROVE Replaced(World')
  <2> SUFFICES ASSUME NEW p \in Clients, context'.server, context'.client = p,
                      client'[p].phase \in Gone \cup {"connecting"}
               PROVE  \/ server'.refused
                      \/ \E i \in Clients \ {p} : client'[i].phase \in Starting /\ ~client'[i].first
    BY DEF Replaced, World
  <2>1. ~pooled /\ context.client = p /\ context.server
    BY <1>4, <1>6, <1>10, Shape DEF ExecutedOn, Gone
  <2>2. client[p].phase \in Gone \cup {"connecting"}
    BY <1>1, <1>4, <1>6, Shape DEF ExecutedOn
  <2>3. \/ server.refused
        \/ \E i \in Clients \ {p} : client[i].phase \in Starting /\ ~client[i].first
    BY <1>12, <2>1, <2>2 DEF Replaced, World
  <2>4. ASSUME NEW i \in Clients, client[i].phase \in Starting, ~client[i].first
        PROVE  client'[i].phase \in Starting /\ ~client'[i].first
    <3>1. i # j
      BY <1>1, <2>4 DEF Starting, Gone
    <3> QED
      BY <1>4, <1>6, <2>4, <3>1, Shape DEF ExecutedOn
  <2>5. server'.refused = server.refused
    BY <1>2, Shape DEF ServerRecords
  <2> QED
    BY <2>3, <2>4, <2>5
<1> QED
  BY <1>5, <1>7, <1>9, <1>10, <1>11, <1>12, Shape DEF Goal, Sound, Serves, Unended, World

(***************************************************************************)
(* stateEndTransaction of the server stream.                               *)
(***************************************************************************)
LEMMA ServerEndsKeeps ==
    ASSUME IInv, ServerEnds
    PROVE  World' \in Worlds /\ Points(World') /\ (Serves(World) => Sound(World')) /\ Stays
<1> DEFINE w == EndOfServer(World, FALSE)
           fresh == [FreshServer("begin", server.request)
                       EXCEPT !.recvPaused = server.recvPaused, !.sendPaused = server.sendPaused]
           gone == FreshServer("inactive", server.request)
<1>1. w \in Worlds /\ Points(w) /\ (Serves(World) => ~w.context.server)
  BY Shape, EndOfServerSound
<1>2. fresh \in ServerRecords /\ gone \in ServerRecords
  <2>1. 0 \in 0 .. MaxRequests
    BY ProxyAssumption
  <2>2. fresh \in ServerRecords
    BY <2>1, Shape DEF FreshServer, ServerRecords
  <2> QED
    BY <2>2, Shape, FreshRecords
<1>3. \/ Become([w EXCEPT !.server = fresh])
      \/ Become([w EXCEPT !.server = gone])
      \/ Become(w)
  BY DEF ServerEnds
<1>4. w.client = client
  BY DEF EndOfServer, World
<1> HIDE DEF w, fresh, gone
<1>5. ASSUME NEW s \in ServerRecords, Become([w EXCEPT !.server = s])
      PROVE  World' \in Worlds /\ World'.context = w.context /\ World'.client = w.client
  <2> DEFINE v == [w EXCEPT !.server = s]
  <2>1. v \in Worlds /\ v.context = w.context /\ v.client = w.client
    BY <1>1 DEF Worlds
  <2> HIDE DEF v
  <2>2. World' = v
    BY <1>5, <2>1, Became DEF v
  <2> QED
    BY <2>1, <2>2
<1>6. ASSUME Become(w)
      PROVE  World' \in Worlds /\ World'.context = w.context /\ World'.client = w.client
  BY <1>1, <1>6, Became
<1>7. World' \in Worlds /\ World'.context = w.context /\ World'.client = w.client
  BY <1>2, <1>3, <1>5, <1>6
<1>8. Stays
  BY <1>4, <1>7 DEF Stays, World
<1> QED
  BY <1>1, <1>7, <1>8 DEF Points, Sound, Serves, Unended, Replaced

(***************************************************************************)
(* consumeRequestBody.                                                     *)
(***************************************************************************)
LEMMA ServerConsumesKeeps ==
    ASSUME IInv, ServerConsumes
    PROVE  Goal
<1>1. server.phase = "body"
  BY DEF ServerConsumes, ServerMay
<1>2. PICK last \in BOOLEAN :
        \/ ServerFails
        \/ /\ context.client # None
           /\ \/ /\ client' = [client EXCEPT ![context.client].sendPaused = FALSE]
                 /\ server' = [[server EXCEPT !.phase = IF last THEN "trailer" ELSE @]
                                 EXCEPT !.recvPaused = TRUE]
              \/ /\ server' = [server EXCEPT !.phase = IF last THEN "trailer" ELSE @]
                 /\ UNCHANGED client
           /\ UNCHANGED context
  BY DEF ServerConsumes
<1> DEFINE s == [server EXCEPT !.phase = IF last THEN "trailer" ELSE @]
<1>3. /\ s \in ServerRecords /\ s.context = server.context /\ s.phase \in {"body", "trailer"}
      /\ s.refused = server.refused
  BY <1>1, Shape DEF ServerRecords, ServerRecv
<1> HIDE DEF s
<1>4. CASE ServerFails
  BY <1>4, ServerFailsKeeps
<1>5. ASSUME context.client # None, client' = [client EXCEPT ![context.client].sendPaused = FALSE],
             server' = [s EXCEPT !.recvPaused = TRUE], UNCHANGED context
      PROVE  Goal
  <2>1. /\ server' \in ServerRecords /\ server'.context = server.context
        /\ server'.phase \in {"body", "trailer"} /\ server'.refused = server.refused
    BY <1>3, <1>5 DEF ServerRecords
  <2>2. /\ client' \in [Clients -> ClientRecords]
        /\ \A c \in Clients : client'[c].context = client[c].context
                              /\ client'[c].phase = client[c].phase
                              /\ client'[c].first = client[c].first
    <3> DEFINE k == context.client
               r == [client[k] EXCEPT !.sendPaused = FALSE]
    <3>1. k \in Clients /\ client \in [Clients -> ClientRecords]
      BY <1>5, Shape
    <3>2. client' = [client EXCEPT ![k] = r]
      BY <1>5
    <3> HIDE DEF k
    <3>3. /\ r \in ClientRecords /\ r.context = client[k].context /\ r.phase = client[k].phase
          /\ r.first = client[k].first
      BY <3>1 DEF ClientRecords
    <3> HIDE DEF r
    <3> QED
      BY <3>1, <3>2, <3>3
  <2>3. Alike(client', client)
    BY <2>2 DEF Alike
  <2> QED
    BY <1>5, <2>1, <2>2, <2>3, Shape, SamePointers
<1>6. ASSUME server' = s, UNCHANGED <<client, context>> PROVE Goal
  <2>1. Alike(client', client)
    BY <1>6 DEF Alike
  <2> QED
    BY <1>3, <1>6, <2>1, Shape, SamePointers
<1> QED
  BY <1>2, <1>4, <1>5, <1>6 DEF s

(***************************************************************************)
(* A server stream refused by the proxy or answered 400; a socket that     *)
(* could not be added may stay pointed at.                                 *)
(***************************************************************************)
LEMMA ServerRefusesKeeps ==
    ASSUME IInv, ServerRefuses \/ ServerBadHeaders
    PROVE  Goal
<1>1. server.phase = "headers"
  BY DEF ServerRefuses, ServerBadHeaders, ServerMay
<1>2. /\ server' \in ServerRecords /\ server'.context = server.context
      /\ server'.phase \in {"body", "sendHeaders"} /\ server'.refused = TRUE
  <2>1. CASE ServerRefuses
    BY <2>1, Shape DEF ServerRefuses, Refused, ServerRecords, ServerRecv
  <2>2. CASE ServerBadHeaders
    BY <2>2, Shape DEF ServerBadHeaders, Refused, ServerRecords, ServerSend
  <2> QED
    BY <2>1, <2>2
<1>3. CASE UNCHANGED <<client, context>>
  <2>1. Alike(client', client)
    BY <1>3 DEF Alike
  <2> QED
    BY <1>2, <1>3, <2>1, Shape, SamePointers
<1>4. CASE ~UNCHANGED <<client, context>>
  <2> DEFINE r == [FreeClient EXCEPT !.phase = "released"]
  <2>1. PICK k \in Clients :
          /\ client[k].phase \in Gone
          /\ client' = [client EXCEPT ![k] = r]
          /\ context' = [context EXCEPT !.client = k]
    BY <1>4 DEF ServerRefuses, ServerBadHeaders
  <2>2. r \in ClientRecords /\ r.phase = "released" /\ ~r.context
    BY FreshRecords DEF FreeClient, ClientRecords, Gone
  <2> HIDE DEF r
  <2>3. /\ client' \in [Clients -> ClientRecords] /\ client'[k] = r
        /\ \A d \in Clients : d # k => client'[d] = client[d]
    BY <2>1, <2>2, Shape
  <2>4. context' \in ContextRecords /\ context'.client = k /\ context'.server = context.server
    BY <2>1, Shape DEF ContextRecords
  <2>5. World' \in Worlds
    BY <1>2, <2>3, <2>4, ShapeNext
  <2>6. Points(World')
    BY <2>2, <2>3, <2>4, Shape DEF Points, PointsAt, World, Gone
  <2>7. Stays
    BY <2>1, <2>3 DEF Stays
  <2> QED
    BY <1>1, <1>2, <2>4, <2>5, <2>6, <2>7 DEF Goal, Sound, Serves, Unended, Replaced, World
<1> QED
  BY <1>3, <1>4

(***************************************************************************)
(* Every step of the server stream moves the stack.                        *)
(***************************************************************************)
LEMMA ServerStepMovesStack ==
    ASSUME IInv, ServerStep
    PROVE  Moves
<1> USE DEF Moves, Active, Runs, ServerMay, Return, ServerFails, SPhase, RecvModes, SendModes
<1>0. context.client \in Clients \cup {"server", None} /\ (stack = <<>> => ret = None)
  BY Shape DEF IInv, Bottom
<1>1. CASE ServerGate \/ ServerBlocks
  BY <1>1 DEF ServerGate, ServerBlocks
<1>2. CASE ServerBegin \/ ServerBadHeaders \/ ServerRefuses \/ ServerRoutes \/ ServerEnds
  BY <1>2 DEF ServerBegin, ServerBadHeaders, ServerRefuses, ServerRoutes, ServerEnds
<1>3. CASE ServerConsumes
  BY <1>0, <1>3 DEF ServerConsumes
<1>4. CASE ServerConsumed \/ ServerOffered \/ ServerProduced
  BY <1>0, <1>4 DEF ServerConsumed, ServerOffered, ServerProduced, Back
<1>5. CASE ServerIsRead \/ ServerSkipsTrailer \/ ServerFormatsHeaders \/ ServerIsSent \/ ServerFlushes
  BY <1>5 DEF ServerIsRead, ServerSkipsTrailer, ServerFormatsHeaders, ServerIsSent, ServerFlushes
<1>6. CASE ServerOffers \/ ServerStops
  BY <1>0, <1>6 DEF ServerOffers, ServerStops
<1> QED
  BY <1>1, <1>2, <1>3, <1>4, <1>5, <1>6 DEF ServerStep

(***************************************************************************)
(* Every step of the server stream.                                        *)
(***************************************************************************)
LEMMA ServerStepKeeps ==
    ASSUME IInv, ServerStep, UNCHANGED shutdown
    PROVE  IInv'
<1>0. context.client \in Clients \cup {None}
  BY Shape
<1>1. Moves
  BY ServerStepMovesStack
<1>2. ASSUME Goal, ~shutdown => server.phase # "end" \/ ret # None PROVE IInv'
  <2>1. ~shutdown => Sound(World)
    BY <1>2, NotUnended
  <2> QED
    BY <1>1, <1>2, <2>1, GoalSuffices
<1>3. CASE ServerGate
  BY <1>2, <1>3, QuietKeeps DEF ServerGate, ServerRecv, ServerSend
<1>4. CASE ServerBlocks
  <2>1. server.phase # "end"
    BY <1>4 DEF ServerBlocks, ServerMay, ServerRecv, ServerSend
  <2> QED
    BY <1>2, <1>4, <2>1, QuietKeeps, ServerFailsKeeps DEF ServerBlocks
<1>5. CASE ServerBegin
  BY <1>2, <1>5, ServerBeginKeeps DEF ServerBegin, ServerMay
<1>6. CASE ServerBadHeaders \/ ServerRefuses
  <2>1. server.phase # "end"
    BY <1>6 DEF ServerBadHeaders, ServerRefuses, ServerMay
  <2> QED
    BY <1>2, <1>6, <2>1, ServerRefusesKeeps
<1>7. CASE ServerRoutes
  <2>1. server.phase # "end"
    BY <1>7 DEF ServerRoutes, ServerMay
  <2> QED
    BY <1>2, <1>7, <2>1, ServerRoutesKeeps
<1>8. CASE ServerConsumes
  <2>1. server.phase # "end"
    BY <1>8 DEF ServerConsumes, ServerMay
  <2> QED
    BY <1>2, <1>8, <2>1, ServerConsumesKeeps
<1>9. CASE ServerConsumed
  BY <1>0, <1>2, <1>9, QuietKeeps, BlockedKeeps, ServerFailsKeeps DEF ServerConsumed
<1>10. CASE ServerIsRead
  <2>1. server.phase # "end"
    BY <1>10 DEF ServerIsRead, ServerMay
  <2>2. Quiet \/ SPhase("body", "trailer")
    BY <1>10 DEF ServerIsRead
  <2> QED
    BY <1>2, <2>1, <2>2, QuietKeeps, SPhaseKeeps DEF ServerRecv
<1>11. CASE ServerSkipsTrailer \/ ServerFormatsHeaders
  <2>1. server.phase # "end"
    BY <1>11 DEF ServerSkipsTrailer, ServerFormatsHeaders, ServerMay
  <2> QED
    BY <1>2, <1>11, <2>1, SPhaseKeeps DEF ServerSkipsTrailer, ServerFormatsHeaders, ServerSend
<1>12. CASE ServerOffers
  <2>1. server.phase # "end"
    BY <1>12 DEF ServerOffers, ServerMay
  <2> QED
    BY <1>2, <1>12, <2>1, QuietKeeps, ServerFailsKeeps DEF ServerOffers
<1>13. CASE ServerOffered
  <2>1. ret # None
    BY <1>13 DEF ServerOffered, Back
  <2>2. \/ Quiet \/ ServerFails \/ SPhase("sendBody", "flush")
        \/ OnServerSendBlocked(context.client) \/ OnClientRecvBlocked(context.client)
    BY <1>13 DEF ServerOffered
  <2> QED
    BY <1>0, <1>2, <2>1, <2>2, QuietKeeps, BlockedKeeps, SPhaseKeeps, ServerFailsKeeps
       DEF ServerSend
<1>14. CASE ServerProduced
  BY <1>0, <1>2, <1>14, QuietKeeps, BlockedKeeps, ServerFailsKeeps DEF ServerProduced, Back
<1>15. CASE ServerIsSent
  <2>1. server.phase # "end"
    BY <1>15 DEF ServerIsSent, ServerMay
  <2> QED
    BY <1>2, <1>15, <2>1, QuietKeeps, SPhaseKeeps DEF ServerIsSent, ServerSend
<1>16. CASE ServerFlushes
  <2>1. server' = [server EXCEPT !.phase = "end"] /\ UNCHANGED <<client, context, stack>> /\ ret' = None
        /\ Runs("server") /\ server.phase = "flush"
    BY <1>16 DEF ServerFlushes, ServerMay, SPhase, Continue
  <2>2. server' \in ServerRecords /\ server'.phase = "end" /\ server'.context = server.context
    BY <2>1, Shape DEF ServerRecords
  <2>3. World' \in Worlds
    BY <2>1, <2>2, Shape, ShapeNext
  <2>4. Points(World') /\ Serves(World') /\ Replaced(World')
    BY <2>1, <2>2, Shape DEF Points, Serves, Replaced, World, Runs, ServerRecords
  <2>5. Active("server")'
    BY <2>1 DEF Runs, Active, Top
  <2>6. Bottom'
    BY <1>1, <2>1, BottomKept DEF Stays, IInv
  <2> QED
    BY <2>3, <2>4, <2>5, <2>6 DEF IInv, EndsAtOnce
<1>17. CASE ServerEnds
  <2>1. World' \in Worlds /\ Points(World') /\ (Serves(World) => Sound(World')) /\ Stays
    BY <1>17, ServerEndsKeeps
  <2>2. Bottom'
    BY <1>1, <2>1, BottomKept DEF IInv
  <2>3. ~shutdown => Sound(World')
    BY <2>1 DEF IInv
  <2> QED
    BY <2>1, <2>2, <2>3 DEF IInv, EndsAtOnce, Sound
<1>18. CASE ServerStops
  BY <1>2, <1>18, ServerFailsKeeps DEF ServerStops
<1> QED
  BY <1>3, <1>4, <1>5, <1>6, <1>7, <1>8, <1>9, <1>10, <1>11, <1>12, <1>13, <1>14, <1>15,
     <1>16, <1>17, <1>18 DEF ServerStep

-----------------------------------------------------------------------------
(***************************************************************************)
(* A world in which one client stream, or the server stream's flags, have  *)
(* been changed, but no pointer.                                           *)
(***************************************************************************)
LEMMA ChangedWorld ==
    ASSUME IInv, NEW c \in [Clients -> ClientRecords], NEW s \in ServerRecords,
           NEW w, w = [server |-> s, client |-> c, context |-> context],
           s.phase = server.phase, s.context = server.context, s.refused = server.refused,
           Alike(c, client)
    PROVE  /\ w \in Worlds /\ Points(w) /\ (Sound(World) => Sound(w))
           /\ \A d \in Clients : w.client[d].phase \in Gone <=> client[d].phase \in Gone
<1>1. w \in Worlds /\ w.server = s /\ w.client = c /\ w.context = context
  BY Shape DEF Worlds
<1>2. Points(w)
  BY <1>1, Shape, AlikePoints DEF Points
<1>3. Sound(World) => Sound(w)
  <2>1. \A k \in Clients :
          /\ c[k].phase \in Gone \cup {"connecting"} => client[k].phase \in Gone \cup {"connecting"}
          /\ client[k].phase \in Starting /\ ~client[k].first => c[k].phase \in Starting /\ ~c[k].first
    BY Shape, AlikePoints
  <2>2. Replaced(World) => Replaced(w)
    BY <1>1, <2>1 DEF Replaced, World
  <2> QED
    BY <1>1, <2>2 DEF Sound, Serves, Unended, World
<1>4. \A d \in Clients : c[d].phase \in Gone <=> client[d].phase \in Gone
  BY DEF Alike, Gone, Begun, Starting, ClientRecv, ClientSend
<1> QED
  BY <1>1, <1>2, <1>3, <1>4

(***************************************************************************)
(* beginTransaction of a client stream: the context that still has its     *)
(* server stream now points at the client stream that holds it.            *)
(***************************************************************************)
LEMMA ClientBeginKeeps ==
    ASSUME IInv, NEW k \in Clients, ClientBegin(k)
    PROVE  Goal
<1>1. Top.who = k
  BY DEF ClientBegin, ClientMay, Runs, Active
<1>2. CASE ClientFails(k)
  BY <1>1, <1>2, ClientFailsKeeps
<1>3. ASSUME client[k].context, client' = [client EXCEPT ![k].phase = "sendHeaders"],
             context' = [context EXCEPT !.client = k], UNCHANGED server
      PROVE  Goal
  <2>1. /\ client' \in [Clients -> ClientRecords]
        /\ client'[k].phase = "sendHeaders" /\ client'[k].context = client[k].context
        /\ \A d \in Clients : d # k => client'[d] = client[d]
    BY <1>3, Shape DEF ClientRecords, ClientSend
  <2>2. context' \in ContextRecords /\ context'.client = k /\ context'.server = context.server
    BY <1>3, Shape DEF ContextRecords
  <2>3. World' \in Worlds
    BY <1>3, <2>1, <2>2, Shape, ShapeNext
  <2>4. Points(World')
    BY <1>3, <2>1, <2>2, Shape DEF Points, PointsAt, World, Gone
  <2>5. Sound(World) => Sound(World')
    BY <1>3, <2>1, <2>2 DEF Sound, Serves, Unended, Replaced, World, Gone
  <2>6. Stays
    BY <2>1 DEF Stays, Gone
  <2> QED
    BY <2>3, <2>4, <2>5, <2>6 DEF Goal
<1> QED
  BY <1>2, <1>3 DEF ClientBegin

(***************************************************************************)
(* A client stream in which the phase has been changed.                    *)
(***************************************************************************)
LEMMA ChangedClient ==
    ASSUME IInv, NEW k \in Clients, client[k].phase \in Begun, NEW to \in Begun,
           NEW c, c = [client EXCEPT ![k].phase = to]
    PROVE  c \in [Clients -> ClientRecords] /\ Alike(c, client)
<1> DEFINE r == [client[k] EXCEPT !.phase = to]
<1>1. client \in [Clients -> ClientRecords]
  BY Shape
<1>2. r \in ClientRecords /\ r.context = client[k].context /\ r.phase = to /\ r.first = client[k].first
  BY <1>1 DEF ClientRecords, Begun
<1>3. c = [client EXCEPT ![k] = r]
  BY <1>1
<1> HIDE DEF r
<1> QED
  BY <1>1, <1>2, <1>3 DEF Alike

(***************************************************************************)
(* receiveResponseHeaders: with a paired server stream, or failing.        *)
(***************************************************************************)
LEMMA ClientHeadersKeeps ==
    ASSUME IInv, NEW k \in Clients, ClientHeaders(k)
    PROVE  Goal
<1>1. Top.who = k /\ client[k].phase \in Begun
  BY DEF ClientHeaders, ClientMay, Runs, Active, Begun, ClientRecv
<1> DEFINE c == [client EXCEPT ![k].phase = "body"]
<1>2. c \in [Clients -> ClientRecords] /\ Alike(c, client)
  BY <1>1, ChangedClient DEF Begun, ClientRecv
<1>3. ASSUME client' = c, context' = [context EXCEPT !.received = TRUE],
             server' = [server EXCEPT !.recvPaused = FALSE, !.answer = client[k].request]
      PROVE  Goal
  <2>1. client[k].request \in 0 .. MaxRequests
    BY Shape DEF ClientRecords
  <2>2. /\ server' \in ServerRecords /\ server'.phase = server.phase
        /\ server'.context = server.context /\ server'.refused = server.refused
    BY <1>3, <2>1, Shape DEF ServerRecords
  <2>3. /\ context' \in ContextRecords /\ context'.client = context.client
        /\ context'.server = context.server
    BY <1>3, Shape DEF ContextRecords
  <2> HIDE DEF c
  <2> QED
    BY <1>2, <1>3, <2>2, <2>3, SamePointers
<1>4. CASE ClientFailsIn([World EXCEPT !.client[k].phase = "body"], k)
  <2> DEFINE w == [World EXCEPT !.client[k].phase = "body"]
  <2>1. w = [server |-> server, client |-> c, context |-> context]
    BY DEF World
  <2> HIDE DEF c, w
  <2>2. /\ w \in Worlds /\ Points(w) /\ (Sound(World) => Sound(w))
        /\ \A d \in Clients : w.client[d].phase \in Gone <=> client[d].phase \in Gone
    BY <1>2, <2>1, Shape, ChangedWorld
  <2> QED
    BY <1>1, <1>4, <2>2, ClientFailsInKeeps DEF w
<1> QED
  BY <1>3, <1>4 DEF ClientHeaders

(***************************************************************************)
(* consumeResponseBody.                                                    *)
(***************************************************************************)
LEMMA ClientConsumesKeeps ==
    ASSUME IInv, NEW k \in Clients, ClientConsumes(k)
    PROVE  Goal
<1>1. Top.who = k /\ client[k].phase = "body"
  BY DEF ClientConsumes, ClientMay, Runs, Active
<1>2. PICK last \in BOOLEAN :
        LET c == [client EXCEPT ![k].phase = IF last THEN "end" ELSE @]
        IN  \/ client' = c /\ UNCHANGED <<server, context>>
            \/ ClientFailsIn([World EXCEPT !.client = c], k)
  BY DEF ClientConsumes
<1> DEFINE to == IF last THEN "end" ELSE "body"
           c == [client EXCEPT ![k].phase = IF last THEN "end" ELSE @]
           w == [World EXCEPT !.client = c]
<1>3. c \in [Clients -> ClientRecords] /\ Alike(c, client)
  <2>1. c = [client EXCEPT ![k].phase = to] /\ to \in Begun /\ client[k].phase \in Begun
    BY <1>1 DEF Begun, ClientRecv
  <2> HIDE DEF c, to
  <2> QED
    BY <2>1, ChangedClient
<1>4. w = [server |-> server, client |-> c, context |-> context]
  BY DEF World
<1>5. (client' = c /\ UNCHANGED <<server, context>>) \/ ClientFailsIn(w, k)
  BY <1>2
<1> HIDE DEF c, w
<1>6. /\ w \in Worlds /\ Points(w) /\ (Sound(World) => Sound(w))
      /\ \A d \in Clients : w.client[d].phase \in Gone <=> client[d].phase \in Gone
  BY <1>3, <1>4, Shape, ChangedWorld
<1>7. CASE client' = c /\ UNCHANGED <<server, context>>
  BY <1>3, <1>7, Shape, SamePointers
<1>8. CASE ClientFailsIn(w, k)
  BY <1>1, <1>6, <1>8, ClientFailsInKeeps
<1> QED
  BY <1>5, <1>7, <1>8

(***************************************************************************)
(* The response, or its last part, has been sent: the server stream is     *)
(* made ready for the next request, or the client stream fails.            *)
(***************************************************************************)
LEMMA ClientRespondedKeeps ==
    ASSUME IInv, NEW k \in Clients, ClientResponded(k) \/ ClientConsumed(k)
    PROVE  Goal
<1>1. Top.who = k
  BY DEF ClientResponded, ClientConsumed, Back
<1> DEFINE s == [server EXCEPT !.recvPaused = FALSE, !.sendPaused = TRUE]
           w == [World EXCEPT !.server.recvPaused = FALSE, !.server.sendPaused = TRUE]
<1>2. s \in ServerRecords /\ s.phase = server.phase /\ s.context = server.context /\ s.refused = server.refused
  BY Shape DEF ServerRecords
<1>3. w = [server |-> s, client |-> client, context |-> context]
  <2>1. w = [World EXCEPT !.server = [@ EXCEPT !.recvPaused = FALSE, !.sendPaused = TRUE]]
    BY DEF World
  <2>2. [World EXCEPT !.server = [@ EXCEPT !.recvPaused = FALSE, !.sendPaused = TRUE]] =
          [server |-> s, client |-> client, context |-> context]
    BY DEF World
  <2> QED
    BY <2>1, <2>2
<1>4. \/ server' = s /\ UNCHANGED <<client, context>>
      \/ ClientFailsIn(w, k) \/ ClientFails(k) \/ Quiet
      \/ OnClientRecvBlocked(k) \/ OnServerSendBlocked(k)
  BY DEF ClientResponded, ClientConsumed
<1> HIDE DEF s, w
<1>5. /\ w \in Worlds /\ Points(w) /\ (Sound(World) => Sound(w))
      /\ \A d \in Clients : w.client[d].phase \in Gone <=> client[d].phase \in Gone
  <2>1. Alike(client, client)
    BY DEF Alike
  <2> QED
    BY <1>2, <1>3, <2>1, Shape, ChangedWorld
<1>6. CASE server' = s /\ UNCHANGED <<client, context>>
  <2>1. Alike(client', client)
    BY <1>6 DEF Alike
  <2> QED
    BY <1>2, <1>6, <2>1, Shape, SamePointers
<1>7. CASE ClientFailsIn(w, k)
  BY <1>1, <1>5, <1>7, ClientFailsInKeeps
<1> QED
  BY <1>1, <1>4, <1>6, <1>7, ClientFailsKeeps, QuietKeeps, BlockedKeeps

(***************************************************************************)
(* Every step of a client stream moves the stack.                          *)
(***************************************************************************)
LEMMA ClientStepMovesStack ==
    ASSUME IInv, NEW k \in Clients, ClientStep(k)
    PROVE  Moves
<1> USE DEF Moves, Active, Runs, ClientMay, Return, ClientFails, ClientFailsIn, CPhase,
            RecvModes, SendModes
<1>0. stack = <<>> => ret = None
  BY DEF IInv, Bottom
<1>1. CASE ClientGate(k) \/ ClientBlocks(k)
  BY <1>1 DEF ClientGate, ClientBlocks
<1>2. CASE ClientBegin(k) \/ ClientFormatsHeaders(k) \/ ClientFlushes(k) \/ ClientHeaders(k)
  BY <1>2 DEF ClientBegin, ClientFormatsHeaders, ClientFlushes, ClientHeaders
<1>3. CASE ClientConsumes(k)
  BY <1>3 DEF ClientConsumes
<1>4. CASE ClientOffered(k) \/ ClientProduced(k)
  BY <1>0, <1>4 DEF ClientOffered, ClientProduced, Back
<1>5. CASE ClientResponded(k) \/ ClientConsumed(k)
  BY <1>0, <1>5 DEF ClientResponded, ClientConsumed, Back
<1>6. CASE ClientIsRead(k) \/ ClientIsSent(k)
  BY <1>6 DEF ClientIsRead, ClientIsSent
<1>7. CASE ClientOffers(k) \/ ClientStops(k)
  BY <1>7 DEF ClientOffers, ClientStops
<1> QED
  BY <1>1, <1>2, <1>3, <1>4, <1>5, <1>6, <1>7 DEF ClientStep

(***************************************************************************)
(* Headers are formatted, or room is made for them by sending.             *)
(***************************************************************************)
LEMMA ClientFormatsHeadersKeeps ==
    ASSUME IInv, NEW k \in Clients, ClientFormatsHeaders(k) \/ ClientFlushes(k) \/ ClientOffered(k)
    PROVE  Goal
<1>0. Top.who = k
  BY DEF ClientFormatsHeaders, ClientFlushes, ClientOffered, ClientMay, Runs, Active, Back
<1> DEFINE p == client[k].phase
           a == client[k].first
           b == client[k].spent
<1>1. /\ client \in [Clients -> ClientRecords]
      /\ a \in BOOLEAN /\ b \in BOOLEAN
      /\ \A c \in {"sendHeaders", "sendBody", "flush", "headers"} : c \in Begun
  BY Shape DEF ClientRecords, Begun, ClientSend, ClientRecv
<1>2. ASSUME NEW to, NEW first \in BOOLEAN, NEW spent \in BOOLEAN, p \in Begun, to \in Begun,
             first => a,
             client' = [client EXCEPT ![k].phase = to, ![k].first = first, ![k].spent = spent],
             UNCHANGED <<server, context>>
      PROVE  Goal
  BY <1>2, BegunKeeps
<1>3. CASE ClientFormatsHeaders(k)
  <2>1. p \in Begun
    BY <1>1, <1>3 DEF ClientFormatsHeaders, ClientMay
  <2>2. CASE client' = [client EXCEPT ![k].phase = "sendBody", ![k].spent = TRUE] /\ UNCHANGED <<server, context>>
    <3>1. client' = [client EXCEPT ![k].phase = "sendBody", ![k].first = a, ![k].spent = TRUE]
      BY <1>1, <2>2 DEF ClientRecords
    <3> HIDE DEF a, b, p
    <3> QED
      BY <1>1, <1>2, <2>1, <2>2, <3>1
  <2>3. CASE client' = Sent(k) /\ UNCHANGED <<server, context>>
    <3>1. client' = [client EXCEPT ![k].phase = p, ![k].first = FALSE, ![k].spent = b]
      BY <1>1, <2>3 DEF ClientRecords, Sent
    <3> HIDE DEF a, b, p
    <3> QED
      BY <1>1, <1>2, <2>1, <2>3, <3>1
  <2>4. CASE ClientFails(k)
    BY <1>0, <2>4, ClientFailsKeeps
  <2> QED
    BY <1>3, <2>2, <2>3, <2>4 DEF ClientFormatsHeaders
<1>4. CASE ClientFlushes(k)
  <2>1. p \in Begun /\ UNCHANGED <<server, context>>
    BY <1>1, <1>4 DEF ClientFlushes, ClientMay
  <2>2. client' = [client EXCEPT ![k].phase = "headers", ![k].first = FALSE, ![k].spent = b]
    BY <1>1, <1>4 DEF ClientFlushes, ClientRecords, Sent
  <2> HIDE DEF a, b, p
  <2> QED
    BY <1>1, <1>2, <2>1, <2>2
<1>5. CASE ClientOffered(k)
  <2>1. CASE CPhase(k, "sendBody", "flush")
    BY <1>1, <2>1, CPhaseKeeps
  <2>2. CASE client' = Sent(k) /\ UNCHANGED <<server, context>>
    <3>1. client' = [client EXCEPT ![k].recvPaused = @, ![k].first = FALSE]
      BY <1>1, <2>2 DEF ClientRecords, Sent
    <3>2. client' \in [Clients -> ClientRecords] /\ Alike(client', client)
      <4> DEFINE r == [client[k] EXCEPT !.first = FALSE]
      <4>1. /\ r \in ClientRecords /\ r.context = client[k].context /\ r.phase = client[k].phase
             /\ r.first = FALSE
        BY <1>1 DEF ClientRecords
      <4>2. client' = [client EXCEPT ![k] = r]
        BY <1>1, <2>2 DEF Sent
      <4> HIDE DEF r
      <4> QED
        BY <1>1, <4>1, <4>2 DEF Alike
    <3> QED
      BY <2>2, <3>2, Shape, SamePointers
  <2>3. CASE Quiet \/ ClientFails(k) \/ OnClientSendBlocked(k) \/ OnServerRecvBlocked(k)
    BY <1>0, <2>3, QuietKeeps, ClientFailsKeeps, BlockedKeeps
  <2> QED
    BY <1>5, <2>1, <2>2, <2>3 DEF ClientOffered
<1> QED
  BY <1>3, <1>4, <1>5

(***************************************************************************)
(* Every step of a client stream.                                          *)
(***************************************************************************)
LEMMA ClientStepKeeps ==
    ASSUME IInv, NEW k \in Clients, ClientStep(k)
    PROVE  Goal
<1>0. Top.who = k
  BY DEF ClientStep, ClientGate, ClientBlocks, ClientBegin, ClientFormatsHeaders, ClientOffers,
         ClientOffered, ClientProduced, ClientFlushes, ClientHeaders, ClientResponded,
         ClientConsumes, ClientConsumed, ClientIsRead, ClientIsSent, ClientStops, ClientMay,
         Runs, Active, Back
<1>1. CASE ClientGate(k)
  BY <1>0, <1>1, QuietKeeps, ClientFailsKeeps DEF ClientGate
<1>2. CASE ClientBlocks(k)
  BY <1>0, <1>2, QuietKeeps, ClientFailsKeeps DEF ClientBlocks
<1>3. CASE ClientBegin(k)
  BY <1>3, ClientBeginKeeps
<1>4. CASE ClientFormatsHeaders(k) \/ ClientFlushes(k) \/ ClientOffered(k)
  BY <1>4, ClientFormatsHeadersKeeps
<1>5. CASE ClientOffers(k)
  BY <1>0, <1>5, QuietKeeps, ClientFailsKeeps DEF ClientOffers
<1>6. CASE ClientProduced(k)
  BY <1>0, <1>6, QuietKeeps, ClientFailsKeeps, BlockedKeeps DEF ClientProduced
<1>7. CASE ClientHeaders(k)
  BY <1>7, ClientHeadersKeeps
<1>8. CASE ClientResponded(k) \/ ClientConsumed(k)
  BY <1>8, ClientRespondedKeeps
<1>9. CASE ClientConsumes(k)
  BY <1>9, ClientConsumesKeeps
<1>10. CASE ClientIsRead(k) \/ ClientIsSent(k)
  <2>1. Quiet \/ CPhase(k, "body", "end") \/ CPhase(k, "sendBody", "flush")
    BY <1>10 DEF ClientIsRead, ClientIsSent
  <2> QED
    BY <2>1, QuietKeeps, CPhaseKeeps DEF Begun, ClientSend, ClientRecv
<1>11. CASE ClientStops(k)
  BY <1>0, <1>11, ClientFailsKeeps DEF ClientStops
<1> QED
  BY <1>1, <1>2, <1>3, <1>4, <1>5, <1>6, <1>7, <1>8, <1>9, <1>10, <1>11 DEF ClientStep

(***************************************************************************)
(* The event loop's own steps: no call is active.                          *)
(***************************************************************************)
LEMMA LoopKeeps ==
    ASSUME IInv, UNCHANGED shutdown,
           \/ Accept \/ ServerEvent \/ ServerLost
           \/ \E k \in Clients : ClientEvent(k) \/ ClientConnected(k) \/ ClientLost(k)
    PROVE  IInv'
<1>0. stack = <<>> /\ ret = None /\ (~shutdown => Sound(World))
  <2>1. stack = <<>>
    BY DEF Accept, ServerEvent, ServerLost, ClientEvent, ClientConnected, ClientLost
  <2> QED
    BY <2>1, NotUnended DEF IInv, Bottom
<1>1. ASSUME Goal, Bottom' PROVE IInv'
  BY <1>0, <1>1 DEF IInv, Goal, Sound, EndsAtOnce
<1>2. ASSUME UNCHANGED <<stack, ret>> PROVE Bottom'
  BY <1>0, <1>2 DEF IInv, Bottom
<1>3. ASSUME NEW who \in Clients \cup {"server"}, Call(who, "event"),
             who \in Clients => client'[who].phase \notin Gone
      PROVE  Bottom'
  <2> DEFINE f == [who |-> who, mode |-> "event", got |-> FALSE]
  <2>1. f \in AnyFrames /\ f.who = who
    BY DEF AnyFrames, RecvModes
  <2>2. stack' = Append(stack, f)
    BY <1>3 DEF Call
  <2> HIDE DEF f
  <2>3. stack' \in Seq(AnyFrames) /\ stack' # <<>> /\ stack'[1] = f
    BY <1>0, <2>1, <2>2
  <2> QED
    BY <1>3, <2>1, <2>3 DEF Bottom
<1>4. CASE Accept
  <2>1. server' \in ServerRecords /\ server'.phase = "begin"
    BY <1>4, Shape, FreshRecords DEF Accept
  <2>2. UNCHANGED <<client, context, stack, ret>> /\ ~shutdown /\ ~context.server
    BY <1>4, Shape DEF Accept
  <2>3. World' \in Worlds
    BY <2>1, <2>2, Shape, ShapeNext
  <2>4. Points(World')
    BY <2>2, Shape DEF Points, World
  <2>5. Goal
    BY <2>1, <2>2, <2>3, <2>4, Shape DEF Goal, Sound, Serves, Unended, Replaced, World, Stays
  <2> QED
    BY <1>1, <1>2, <2>2, <2>5
<1>5. CASE ServerEvent
  BY <1>1, <1>3, <1>5, QuietKeeps, ProxyAssumption DEF ServerEvent
<1>6. CASE ServerLost
  BY <1>0, <1>1, <1>2, <1>6, RemoveServerKeeps DEF ServerLost
<1>7. ASSUME NEW k \in Clients, ClientEvent(k) PROVE IInv'
  <2>1. client'[k].phase \notin Gone
    BY <1>7 DEF ClientEvent, Quiet, ClientWantsRead, ClientWantsWrite, ClientRecv, ClientSend, Gone
  <2> QED
    BY <1>1, <1>3, <1>7, <2>1, QuietKeeps DEF ClientEvent
<1>8. ASSUME NEW k \in Clients, ClientConnected(k) PROVE IInv'
  <2>1. UNCHANGED <<server, context>> /\ client[k].phase = "connecting"
        /\ client' = [client EXCEPT ![k].phase = "begin"] /\ Call(k, "event")
    BY <1>8 DEF ClientConnected
  <2>2. client' \in [Clients -> ClientRecords] /\ client'[k].phase = "begin"
    BY <2>1, Shape DEF ClientRecords
  <2>3. Alike(client', client)
    BY <2>1, Shape DEF Alike, ClientRecords
  <2>4. Goal
    BY <2>1, <2>2, <2>3, Shape, SamePointers
  <2> QED
    BY <1>1, <1>3, <2>1, <2>2, <2>4 DEF Gone
<1>9. ASSUME NEW k \in Clients, ClientLost(k) PROVE IInv'
  <2>1. PICK v \in ClientRemovals(World, k) : Become(v)
    BY <1>9 DEF ClientLost, RemoveClient
  <2>2. v \in Worlds /\ Points(v) /\ (Sound(World) => Sound(v))
    BY <1>9, Shape, ClientRemovalsSound DEF ClientLost
  <2>3. World' = v
    BY <2>1, <2>2, Became
  <2>4. Goal
    BY <1>0, <1>9, <2>2, <2>3 DEF Goal, Stays, ClientLost
  <2> QED
    BY <1>1, <1>2, <1>9, <2>4 DEF ClientLost
<1> QED
  BY <1>4, <1>5, <1>6, <1>7, <1>8, <1>9

(***************************************************************************)
(* The invariant holds initially.                                          *)
(***************************************************************************)
LEMMA InitInv == Init => IInv
<1> SUFFICES ASSUME Init PROVE IInv
  OBVIOUS
<1>1. server \in ServerRecords /\ server.phase = "inactive"
  BY FreshRecords, ProxyAssumption DEF Init
<1>2. client \in [Clients -> ClientRecords] /\ context \in ContextRecords
  BY FreshRecords DEF Init
<1>3. context.client = None /\ ~context.server
  BY DEF Init, FreshContext
<1>4. World \in Worlds
  BY <1>1, <1>2 DEF World, Worlds
<1>5. PointsAt(client, None)
  BY FreshRecords DEF Init, PointsAt, Gone
<1>6. Bottom
  BY DEF Init, Bottom
<1> QED
  BY <1>1, <1>3, <1>4, <1>5, <1>6 DEF IInv, Points, Serves, EndsAtOnce, Replaced, Unended, World

(***************************************************************************)
(* The inductive invariant of the proxy's pointers.                        *)
(***************************************************************************)
THEOREM Invariance == Spec => []IInv
<1>1. IInv /\ [Next]_vars => IInv'
  <2> SUFFICES ASSUME IInv, [Next]_vars PROVE IInv'
    OBVIOUS
  <2>1. CASE UNCHANGED vars
    BY <2>1 DEF vars, IInv, World, EndsAtOnce, Active, Top, Bottom
  <2>2. CASE Shutdown
    BY <2>2 DEF Shutdown, IInv, World, Bottom
  <2>3. CASE ServerStep /\ UNCHANGED shutdown
    BY <2>3, ServerStepKeeps
  <2>4. ASSUME NEW k \in Clients, ClientStep(k), UNCHANGED shutdown PROVE IInv'
    <3>1. Goal /\ Moves
      BY <2>4, ClientStepKeeps, ClientStepMovesStack
    <3>2. Top.who # "server"
      BY <2>4, ProxyAssumption DEF ClientStep, ClientGate, ClientBlocks, ClientBegin,
         ClientFormatsHeaders, ClientOffers, ClientOffered, ClientProduced, ClientFlushes,
         ClientHeaders, ClientResponded, ClientConsumes, ClientConsumed, ClientIsRead,
         ClientIsSent, ClientStops, ClientMay, Runs, Active, Back
    <3> QED
      BY <2>4, <3>1, <3>2, NotUnended, GoalSuffices
  <2>5. CASE /\ \/ Accept \/ ServerEvent \/ ServerLost
                \/ \E k \in Clients : ClientEvent(k) \/ ClientConnected(k) \/ ClientLost(k)
             /\ UNCHANGED shutdown
    BY <2>5, LoopKeeps
  <2> QED
    BY <2>1, <2>2, <2>3, <2>4, <2>5 DEF Next, Work
<1> QED
  BY <1>1, InitInv, PTL DEF Spec

(***************************************************************************)
(* The pointers of the context are accounted for: with the exceptions that *)
(* PointersAccountedFor names, no handler of HttpRoutingProxyHandler       *)
(* follows one to a stream that has ended its transaction, for any number  *)
(* of client sockets and requests, with retries, failed additions and a    *)
(* stop at any moment.                                                     *)
(***************************************************************************)
THEOREM PointersAreAccountedFor == Spec => []PointersAccountedFor
<1>1. IInv => PointersAccountedFor
  <2> SUFFICES ASSUME IInv PROVE PointersAccountedFor
    OBVIOUS
  <2>1. PointsAt(client, context.client)
    BY Shape
  <2>2. ~context.server \/ (server.context /\ server.phase # "inactive") \/ shutdown
    BY Shape
  <2> QED
    BY <2>1, <2>2 DEF PointersAccountedFor, PointsAt, Starting, Gone
<1> QED
  BY <1>1, Invariance, PTL
=============================================================================

---------------------------- MODULE ConnectionPool ----------------------------
(***************************************************************************)
(* Where connections come from and go to: the sockets                      *)
(* (ESBConnectedSocket.cpp, ESBClearSocket.cpp, ESBTLSSocket.cpp,          *)
(* ESBClientTLSSocket.cpp, ESBServerTLSSocket.cpp), the pool of idle       *)
(* client connections (ESBConnectionPool.cpp over ESBSharedEmbeddedMap.cpp)*)
(* and the factories that construct sockets in recycled memory             *)
(* (ESHttpClientSocketFactory.cpp, ESHttpServerSocketFactory.cpp).         *)
(*                                                                         *)
(* A slot is the memory of one socket object.  It is allocated for a clear *)
(* or for a TLS socket, which is larger, and never given back before the   *)
(* pool ends; between two uses it is on a list of deconstructed objects.   *)
(* What the user of a connection does is HttpClientSocket's: it closes a   *)
(* connection that failed, and gives one back open only after a complete   *)
(* exchange.  The TLS context of a host name is the answer of the context  *)
(* index, here any context.                                                *)
(***************************************************************************)
EXTENDS Integers, Sequences, FiniteSets, SequencesExt, WildcardMatch

CONSTANTS Slots,       \* memory for sockets
          Peers,       \* addresses of origin servers
          Fqdns,       \* host names
          Certs,       \* certificates: [sans : set of patterns, cn : host name]
          TLSContexts, \* client TLS contexts
          Verifies     \* whether each of them verifies the peer certificate

NoCert == [sans |-> {}, cn |-> <<>>]

\* A pattern has at most one "*" (ESBString.h:24).
ASSUME PoolAssumption ==
    /\ IsFiniteSet(Slots) /\ NoCert \notin Certs
    /\ Verifies \in [TLSContexts -> BOOLEAN]
    /\ Fqdns \subseteq Seq(STRING)
    /\ \A c \in Certs : \A san \in c.sans : san \in Seq(STRING) /\ AtMostOneStar(san)

VARIABLES conn,       \* the socket in each slot
          poolLists   \* the pool's and the factories' lists of slots

poolVars == <<conn, poolLists>>

-----------------------------------------------------------------------------
(* A socket.  sock: NEW, CONNECTING or CONNECTED of _flags; link: the TCP  *)
(* connection as the kernel has it; tls: ESTABLISHED and DEAD of _flags;   *)
(* sslCert: what SSL_get_peer_certificate returns; cert: _peerCertificate, *)
(* kept once it was asked for; asked: the user completed an exchange;      *)
(* failed: an operation failed; wanted: what the last user asked for.      *)
(* WANT_READ and WANT_WRITE, which only steer the event loop, are left out.*)

NoSocket == [kind |-> "none"]

Socket(kind, side, peer, fqdn, context) ==
    [kind |-> kind, side |-> side, peer |-> peer, fqdn |-> fqdn, context |-> context,
     fd |-> FALSE, sock |-> "NEW", link |-> "none", ssl |-> FALSE, tls |-> {},
     sslCert |-> NoCert, cert |-> NoCert, asked |-> FALSE, failed |-> FALSE,
     wanted |-> [peer |-> peer, fqdn |-> fqdn, context |-> context], reused |-> FALSE]

\* accept() gives a connected descriptor.
Accepted(kind) ==
    [Socket(kind, "server", "client", <<>>, "default") EXCEPT
        !.fd = TRUE, !.sock = "CONNECTED", !.link = "up"]

\* Outcomes of connect(): refused at once or no descriptor, in progress,
\* connected at once.
Connects(s) ==
    {[s EXCEPT !.fd = TRUE, !.sock = "CONNECTING", !.link = "pending"],
     [s EXCEPT !.fd = TRUE, !.sock = "CONNECTED", !.link = "up"],
     [s EXCEPT !.failed = TRUE]}

\* A certificate that was asked for stays.
close(s) ==
    [s EXCEPT !.ssl = FALSE, !.sslCert = NoCert, !.tls = {},
              !.fd = FALSE, !.sock = "NEW", !.link = "none"]

\* connected() asks the kernel and remembers a connection that has come up.
Asked(s) == IF s.fd /\ s.link = "up" THEN [s EXCEPT !.sock = "CONNECTED"] ELSE s
connected(s) == s.fd /\ Asked(s).sock = "CONNECTED"

\* peerCertificate() keeps what it finds.
WithCertificate(s) == IF s.cert = NoCert THEN [s EXCEPT !.cert = s.sslCert] ELSE s
HasCertificate(s) == WithCertificate(s).cert # NoCert

-----------------------------------------------------------------------------
(* TLS sessions.                                                           *)

Covers(cert, fqdn) ==
    IF cert.sans = {} THEN cert.cn = fqdn
    ELSE \E san \in cert.sans : StringWildcardMatch(san, fqdn) >= 0

\* startHandshake(): what it may leave behind.  The session is set up on the
\* first call and dropped again when that fails; the handshake then waits,
\* fails or completes.  The certificate is there before the handshake ends.
Waits(s) ==
    {[s EXCEPT !.ssl = TRUE, !.sslCert = c] :
        c \in IF s.sslCert # NoCert \/ s.side = "server" THEN {s.sslCert} ELSE Certs \cup {NoCert}}

Completes(s) ==
    {[s EXCEPT !.ssl = TRUE, !.tls = @ \cup {"ESTABLISHED"}, !.sslCert = c] :
        c \in IF s.side = "server" THEN {NoCert}
              ELSE {d \in Certs : /\ s.sslCert \in {NoCert, d}
                                  /\ Verifies[s.context] => Covers(d, s.fqdn)}}

startHandshake(s) ==
    Waits(s) \cup Completes(s)
    \cup {[s EXCEPT !.failed = TRUE, !.ssl = FALSE, !.sslCert = NoCert],
          [s EXCEPT !.failed = TRUE, !.ssl = TRUE]}

Established(s) == "ESTABLISHED" \in s.tls

\* receive() and send() of a TLS socket: the handshake first; then octets
\* (the last ones of an exchange, perhaps), nothing yet, the end of the session, or an error, which ends it.
Dead(s) == [s EXCEPT !.tls = {"DEAD"}, !.failed = TRUE]

Transfers(s) ==
    {s, [s EXCEPT !.asked = TRUE]}
    \cup {IF s.kind = "tls" THEN Dead(s) ELSE [s EXCEPT !.failed = TRUE], [s EXCEPT !.failed = TRUE]}

receive(s) ==
    IF s.kind = "clear" \/ Established(s) THEN Transfers(s)
    ELSE LET after == startHandshake(s)
             established == {t \in after : Established(t)}
         IN (after \ established) \cup UNION {Transfers(t) : t \in established}

-----------------------------------------------------------------------------
(* The pool.  active is a bucket, most recently used first; the lists of   *)
(* deconstructed sockets are used from their ends.                         *)

PoolInit ==
    /\ conn = [c \in Slots |-> NoSocket]
    /\ poolLists = [active |-> <<>>, clear |-> <<>>, tls |-> <<>>,
                    serverClear |-> <<>>, serverTLS |-> <<>>,
                    allocated |-> [c \in Slots |-> "none"]]

InUse(c) == conn[c].kind # "none" /\ c \notin ToSet(poolLists.active)
ClientUse(c) == InUse(c) /\ conn[c].side = "client"

\* The key of a request against a pooled socket, when any context will do.
compareIgnoringContext(s, kind, peer, fqdn, context) ==
    /\ s.kind = kind
    /\ s.peer = peer
    /\ kind = "tls" => HasCertificate(s) /\ Covers(WithCertificate(s).cert, fqdn)

compare(s, kind, peer, fqdn, context) ==
    /\ s.kind = kind
    /\ s.peer = peer
    /\ kind = "tls" => /\ s.context = context
                       /\ HasCertificate(s)
                       /\ Covers(WithCertificate(s).cert, fqdn)

\* Position of the first pooled socket the key matches, 0 if none.
Find(kind, peer, fqdn, context) ==
    SelectInSeq(poolLists.active, LAMBDA c : compare(conn[c], kind, peer, fqdn, context))

\* The last deconstructed object of a list, or fresh memory; none if neither.
Memory(list) ==
    IF poolLists[list] # <<>> THEN {Last(poolLists[list])}
    ELSE {c \in Slots : poolLists.allocated[c] = "none"}

Recycled(lists, list, c, size) ==
    [lists EXCEPT ![list] = IF lists[list] # <<>> THEN Front(@) ELSE @,
                  !.allocated[c] = IF @ = "none" THEN size ELSE @]

ListOf(kind, side) ==
    IF side = "client" THEN IF kind = "clear" THEN "clear" ELSE "tls"
    ELSE IF kind = "clear" THEN "serverClear" ELSE "serverTLS"

\* The socket is destroyed and its memory put on the list of its kind.
Discard(cs, lists, c) ==
    /\ conn' = [cs EXCEPT ![c] = NoSocket]
    /\ poolLists' = [lists EXCEPT ![ListOf(cs[c].kind, cs[c].side)] = Append(@, c)]

Reuse(kind, peer, fqdn, context) ==
    LET i == Find(kind, peer, fqdn, context)
        c == poolLists.active[i]
    IN /\ i # 0
       /\ poolLists' = [poolLists EXCEPT !.active = RemoveAt(@, i)]
       /\ conn' = [conn EXCEPT ![c] = [@ EXCEPT !.asked = FALSE, !.reused = TRUE,
                                         !.wanted = [peer |-> peer, fqdn |-> fqdn, context |-> context]]]

\* A miss: no memory, connect() fails and the object goes back, or a new one.
Create(kind, peer, fqdn, context) ==
    LET list == ListOf(kind, "client") IN
    /\ Find(kind, peer, fqdn, context) = 0
    /\ \E c \in Memory(list) : \E s \in Connects(Socket(kind, "client", peer, fqdn, context)) :
         LET lists == Recycled(poolLists, list, c, kind) IN
         IF s.failed THEN Discard([conn EXCEPT ![c] = close(s)], lists, c)
         ELSE conn' = [conn EXCEPT ![c] = s] /\ poolLists' = lists

AcquireClearSocket(peer) == Reuse("clear", peer, <<>>, "none") \/ Create("clear", peer, <<>>, "none")

AcquireTLSSocket(fqdn, peer, context) ==
    Reuse("tls", peer, fqdn, context) \/ Create("tls", peer, fqdn, context)

\* ConnectionPool::release(): connected sockets are pooled, TLS ones only with
\* a certificate; the others are destroyed.
release(c, s) ==
    IF connected(s) /\ (s.kind = "tls" => HasCertificate(s))
    THEN /\ conn' = [conn EXCEPT ![c] = WithCertificate(Asked(s))]
         /\ poolLists' = [poolLists EXCEPT !.active = <<c>> \o @]
    ELSE Discard([conn EXCEPT ![c] = s], poolLists, c)

\* HttpClientSocketFactory::release(), after HttpClientSocket's handleRemove:
\* closed unless the exchange was completed.  A connection that the loop never
\* took is closed as well.
ReleaseConnection(c) ==
    /\ ClientUse(c)
    /\ \E keep \in BOOLEAN :
         /\ keep => conn[c].asked /\ ~conn[c].failed
         /\ LET s == IF keep THEN conn[c] ELSE close(conn[c])
            IN release(c, IF connected(s) THEN s ELSE close(s))

\* Traffic on a connection that is in use and has not failed.  The user sees a
\* connection come up before it sends.
Transfer(c) ==
    /\ InUse(c) /\ ~conn[c].failed
    /\ connected(conn[c])
    /\ \E s \in receive(Asked(conn[c])) : conn' = [conn EXCEPT ![c] = s]
    /\ UNCHANGED poolLists

\* The kernel: a connection comes up, or is lost, wherever the socket is.
LinkUp(c) ==
    /\ conn[c].kind # "none" /\ conn[c].link = "pending"
    /\ conn' = [conn EXCEPT ![c].link = "up"]
    /\ UNCHANGED poolLists

LinkDown(c) ==
    /\ conn[c].kind # "none" /\ conn[c].link \in {"pending", "up"}
    /\ conn' = [conn EXCEPT ![c].link = "down"]
    /\ UNCHANGED poolLists

\* clear(): deconstructed memory is deallocated, pooled sockets closed,
\* destroyed and deallocated.
PoolClear ==
    LET gone == ToSet(poolLists.active) \cup ToSet(poolLists.clear) \cup ToSet(poolLists.tls) IN
    /\ gone # {}
    /\ conn' = [c \in Slots |-> IF c \in gone THEN NoSocket ELSE conn[c]]
    /\ poolLists' = [poolLists EXCEPT !.active = <<>>, !.clear = <<>>, !.tls = <<>>,
                       !.allocated = [c \in Slots |-> IF c \in gone THEN "none" ELSE @[c]]]

\* HttpServerSocketFactory: create() for an accepted descriptor and release().
ServerCreate(kind) ==
    LET list == ListOf(kind, "server") IN
    \E c \in Memory(list) :
      /\ conn' = [conn EXCEPT ![c] = Accepted(kind)]
      /\ poolLists' = Recycled(poolLists, list, c, kind)

ServerRelease(c) ==
    /\ InUse(c) /\ conn[c].side = "server"
    /\ Discard(conn, poolLists, c)

PoolNext ==
    \/ \E p \in Peers : AcquireClearSocket(p)
    \/ \E f \in Fqdns, p \in Peers, x \in TLSContexts : AcquireTLSSocket(f, p, x)
    \/ \E c \in Slots : ReleaseConnection(c)
    \/ \E c \in Slots : Transfer(c)
    \/ \E c \in Slots : LinkUp(c)
    \/ \E c \in Slots : LinkDown(c)
    \/ PoolClear
    \/ \E k \in {"clear", "tls"} : ServerCreate(k)
    \/ \E c \in Slots : ServerRelease(c)

PoolSpec == PoolInit /\ [][PoolNext]_poolVars

-----------------------------------------------------------------------------

\* A reused connection is the one that was asked for: same address, same kind,
\* same TLS context, and a certificate for the host name of this request, not
\* only for the one of the request the connection was made for, as far as the
\* matcher can tell (Accepts says exactly which names it takes).
ReusedConnectionFits ==
    \A c \in Slots : (ClientUse(c) /\ conn[c].reused) =>
        LET s == conn[c] IN
        /\ s.peer = s.wanted.peer
        /\ s.kind = "tls" =>
             /\ s.context = s.wanted.context
             /\ IF s.cert.sans = {} THEN s.cert.cn = s.wanted.fqdn
                ELSE \E san \in s.cert.sans : Accepts(san, s.wanted.fqdn)

\* What waits in the pool can carry a request: an open descriptor that was
\* connected, and for TLS a session that is established and not dead.
PooledIsReady ==
    \A c \in ToSet(poolLists.active) :
        LET s == conn[c] IN
        /\ s.fd /\ s.sock = "CONNECTED" /\ s.side = "client"
        /\ s.kind = "tls" => Established(s) /\ s.cert # NoCert

\* A slot is in one place, and only ever holds objects of the size it was
\* allocated for: a TLS socket constructed in a clear socket's memory would
\* overrun it.
MemoryFits ==
    LET all == poolLists.active \o poolLists.clear \o poolLists.tls
               \o poolLists.serverClear \o poolLists.serverTLS
    IN /\ IsInjective(all)
       /\ \A c \in Slots : conn[c].kind # "none" => poolLists.allocated[c] = conn[c].kind
       /\ \A c \in ToSet(poolLists.clear \o poolLists.serverClear) : poolLists.allocated[c] = "clear"
       /\ \A c \in ToSet(poolLists.tls \o poolLists.serverTLS) : poolLists.allocated[c] = "tls"

\* A connection is only used for requests that it fits, from the pool or new,
\* in memory of its own size.  (ConnectionPool::acquire..., release, and the
\* factories' lists of deconstructed sockets)
PoolIsSafe == ReusedConnectionFits /\ PooledIsReady /\ MemoryFits
=============================================================================

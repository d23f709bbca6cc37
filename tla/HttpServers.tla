----------------------------- MODULE HttpServers -----------------------------
(***************************************************************************)
(* The life of a server: HttpServer, HttpProxy and HttpClient, which share *)
(* it (ESHttpServer.cpp, ESHttpProxy.cpp, ESHttpClient.cpp), the           *)
(* multiplexers it runs on its threads (ESHttpProxyMultiplexer.cpp) and    *)
(* the listening sockets each of them opens for itself                     *)
(* (ESHttpListeningSocket.cpp, ESBListeningSocket.cpp).                    *)
(*                                                                         *)
(* One thread calls initialize() to destroy() in the order of the main     *)
(* programs (ESHttpProxyMain.cpp, ESHttpOrigin.cpp); the pool's threads    *)
(* run the multiplexers meanwhile.  When a call fails main returns, and    *)
(* the server's destructor runs.  The event loop, the queue of the command *)
(* socket and the thread pool have modules of their own; here they run a   *)
(* multiplexer, a command and an accepted connection.  Built with          *)
(* SO_REUSEPORT, and with NDEBUG: a debug build stops at the assertion     *)
(* that destroy() begins with when it is called in any state but JOINED.   *)
(***************************************************************************)
EXTENDS Integers, Sequences, FiniteSets, SequencesExt

CONSTANTS ServerThreads,  \* _threads
          Listeners,      \* listening sockets of the application
          MaxOpen,        \* bound: connections open, and stray, on one multiplexer
          MaxListens      \* bound: addListener calls

ASSUME ServersAssumption == ServerThreads \in Nat \ {0} /\ {MaxOpen, MaxListens} \subseteq Nat

Muxes == 1..ServerThreads

VARIABLES server,     \* _state, main's place (between calls, in start(), returning, gone),
                      \* _multiplexers, _threadPool
          mux,        \* the multiplexers
          listener,   \* state of the application's listening sockets
          opened      \* descriptors the process holds open, by the multiplexer that opened them

serverVars == <<server, mux, listener, opened>>

\* object: the memory; thread: a pool thread is in run(); loop: sockets can be
\* registered; queue: commands pushed; listening: listening sockets registered
\* for each listener; open: connections registered.
NoMux == [object |-> "none", thread |-> FALSE, loop |-> FALSE, dead |-> FALSE,
          queue |-> <<>>, listening |-> [l \in Listeners |-> 0], open |-> 0]

ServerInit ==
    /\ server = [state |-> "DESTROYED", at |-> "idle", made |-> 0, listed |-> <<>>,
                 pool |-> "none", listens |-> 0, over |-> FALSE]
    /\ mux = [i \in Muxes |-> NoMux]
    /\ listener = [l \in Listeners |-> "CLOSED"]
    /\ opened = [i \in Muxes |-> [accepted |-> 0, stray |-> 0, listening |-> NoMux.listening]]

Idle == server.at = "idle"

-----------------------------------------------------------------------------
(* The application's thread.                                               *)

Initialize ==
    /\ Idle /\ server.state = "DESTROYED" /\ ~server.over
    /\ server' = [server EXCEPT !.state = "INITIALIZED"]
    /\ UNCHANGED <<mux, listener, opened>>

\* main returns on the first error: of the TLS contexts, which are indexed
\* between initialize() and start(), of the pool, which joins the threads it has
\* begun, or of join().
Fails ==
    /\ Idle
    /\ (server.state = "INITIALIZED" /\ server.pool = "none") \/ server.state = "STOPPED"
    /\ server' = [server EXCEPT !.at = "leaving"]
    /\ UNCHANGED <<mux, listener, opened>>

StartPool ==
    /\ Idle /\ server.state = "INITIALIZED" /\ server.pool = "none"
    /\ server' = [server EXCEPT !.at = "start", !.pool = "running"]
    /\ UNCHANGED <<mux, listener, opened>>

\* start() returns on the first error, and main with it.  The pool and the
\* multiplexers made before are left running.
StartFails(k, object) ==
    /\ server' = [server EXCEPT !.at = "leaving", !.made = k]
    /\ mux' = [mux EXCEPT ![k].object = object]
    /\ UNCHANGED <<listener, opened>>

\* One turn of the loop in start(): create, execute, remember.
StartMultiplexer ==
    LET k == server.made + 1 IN
    /\ server.at = "start" /\ k <= ServerThreads
    /\ \/ \E object \in {"none", "lost", "queued"} : StartFails(k, object)
       \/ /\ server' = [server EXCEPT !.made = k, !.listed = Append(@, k)]
          /\ mux' = [mux EXCEPT ![k].object = "queued"]
          /\ UNCHANGED <<listener, opened>>

Started ==
    /\ server.at = "start" /\ server.made = ServerThreads
    /\ server' = [server EXCEPT !.at = "idle", !.state = "STARTED"]
    /\ UNCHANGED <<mux, listener, opened>>

\* push(): refused unless the server is started and the command socket alive.
CanPush(i) == server.state = "STARTED" /\ ~mux[i].dead

\* addListener(): a command for each multiplexer in turn, up to the first that
\* cannot be allocated or is refused.  The ones before it stay, and main returns.
AddListener(l) ==
    /\ Idle /\ server.state = "STARTED"
    /\ listener[l] = "BOUND"
    /\ server.listens < MaxListens
    /\ \E n \in 0..ServerThreads :
         /\ \A i \in 1..n : CanPush(i)
         /\ mux' = [i \in Muxes |-> IF i <= n THEN [mux[i] EXCEPT !.queue = Append(@, l)] ELSE mux[i]]
         /\ server' = [server EXCEPT !.listens = @ + 1, !.at = IF n < ServerThreads THEN "leaving" ELSE @]
    /\ UNCHANGED <<listener, opened>>

\* ListeningSocket::bind() of the application's socket, and its failures.
Bind(l) ==
    /\ listener[l] = "CLOSED"
    /\ listener' = [listener EXCEPT ![l] = "BOUND"]
    /\ UNCHANGED <<server, mux, opened>>

Stop ==
    /\ Idle /\ server.state = "STARTED"
    /\ server' = [server EXCEPT !.pool = "stopping", !.state = "STOPPED"]
    /\ UNCHANGED <<mux, listener, opened>>

\* The threads are told to stop and not waited for.
JoinNobody ==
    /\ Idle /\ server.state = "STOPPED"
    /\ server' = [server EXCEPT !.state = "JOINED", !.pool = "joined"]
    /\ UNCHANGED <<mux, listener, opened>>

Join ==
    /\ Idle /\ server.state = "STOPPED"
    /\ \A i \in Muxes : ~mux[i].thread
    /\ server' = [server EXCEPT !.state = "JOINED", !.pool = "joined"]
    /\ UNCHANGED <<mux, listener, opened>>

\* destroy(): the multiplexers of the list are destroyed, and with them what
\* they hold.
destroy(at) ==
    /\ server' = [server EXCEPT !.state = "DESTROYED", !.listed = <<>>, !.over = TRUE, !.at = at]
    /\ mux' = [i \in Muxes |-> IF i \in ToSet(server.listed)
                               THEN [mux[i] EXCEPT !.object = "destroyed", !.queue = <<>>] ELSE mux[i]]
    /\ UNCHANGED <<listener, opened>>

\* main calls it once join() has succeeded, and ~HttpServer() then does nothing.
Destroy == Idle /\ server.state = "JOINED" /\ destroy("idle")

\* ~HttpServer() when main has returned early: destroy(), whatever the state.
Destructor == server.at = "leaving" /\ destroy("gone")

-----------------------------------------------------------------------------
(* A pool thread in the multiplexer's run().                               *)

\* Both command sockets are registered and the loop entered; when one cannot
\* be, run() returns and the multiplexer never runs a command.
Run(i) ==
    /\ mux[i].object = "queued" /\ server.pool = "running"
    /\ \E registered \in BOOLEAN :
         mux' = [mux EXCEPT ![i].object = "live", ![i].thread = registered, ![i].loop = registered]
    /\ UNCHANGED <<server, listener, opened>>

\* What a loop does whose multiplexer is destroyed is undefined, and left out.
Looping(i) == mux[i].loop /\ mux[i].object = "live"

\* addListeningSocket(): a socket of its own, bound to the same port, and
\* registered; any step may fail, and the descriptor is then closed.
RunCommand(i) ==
    /\ Looping(i) /\ mux[i].queue # <<>>
    /\ LET l == Head(mux[i].queue) IN
       \E added \in BOOLEAN :
         /\ mux' = [mux EXCEPT ![i].queue = Tail(@),
                               ![i].listening[l] = IF added THEN @ + 1 ELSE @]
         /\ opened' = [opened EXCEPT ![i].listening[l] = IF added THEN @ + 1 ELSE @]
    /\ UNCHANGED <<server, listener>>

Listens(i) == Looping(i) /\ \E l \in Listeners : mux[i].listening[l] > 0

\* What becomes of an accepted descriptor.  Registered; closed, because the handler rejects the connection, its options
\* cannot be set, or the multiplexer refuses the socket; or, when no socket can
\* be constructed for it, left open with no owner.
accepted(i) ==
    {<<mux[i].open + 1, opened[i].accepted + 1, opened[i].stray>>,
     <<mux[i].open, opened[i].accepted, opened[i].stray>>,
     <<mux[i].open, opened[i].accepted + 1, opened[i].stray + 1>>}

HandleAccept(i) ==
    /\ Listens(i)
    /\ mux[i].open < MaxOpen /\ opened[i].stray < MaxOpen
    /\ \E o \in accepted(i) :
         /\ mux' = [mux EXCEPT ![i].open = o[1]]
         /\ opened' = [opened EXCEPT ![i].accepted = o[2], ![i].stray = o[3]]
    /\ UNCHANGED <<server, listener>>

\* An error of accept() other than EAGAIN, or of the socket, removes the
\* listening socket.
AcceptFails(i) ==
    /\ Listens(i)
    /\ \E l \in Listeners :
         /\ mux[i].listening[l] > 0
         /\ mux' = [mux EXCEPT ![i].listening[l] = @ - 1]
         /\ opened' = [opened EXCEPT ![i].listening[l] = @ - 1]
    /\ UNCHANGED <<server, listener>>

ConnectionEnds(i) ==
    /\ Looping(i) /\ mux[i].open > 0
    /\ mux' = [mux EXCEPT ![i].open = @ - 1]
    /\ opened' = [opened EXCEPT ![i].accepted = @ - 1]
    /\ UNCHANGED <<server, listener>>

\* The loop sees that it must stop and removes its sockets: the command sockets
\* drop what is queued and refuse more.
LoopEnds(i) ==
    /\ Looping(i) /\ server.pool = "stopping"
    /\ mux' = [mux EXCEPT ![i] = [@ EXCEPT !.thread = FALSE, !.loop = FALSE, !.dead = TRUE,
                                    !.queue = <<>>, !.listening = NoMux.listening, !.open = 0]]
    /\ opened' = [opened EXCEPT ![i].accepted = @ - mux[i].open,
                                ![i].listening = [l \in Listeners |-> @[l] - mux[i].listening[l]]]
    /\ UNCHANGED <<server, listener>>

ServerNext ==
    \/ Initialize \/ StartPool \/ StartMultiplexer \/ Started
    \/ Fails \/ Stop \/ Join \/ Destroy \/ Destructor
    \/ \E l \in Listeners : Bind(l)
    \/ \E l \in Listeners : AddListener(l)
    \/ \E i \in Muxes : Run(i)
    \/ \E i \in Muxes : RunCommand(i)
    \/ \E i \in Muxes : HandleAccept(i)
    \/ \E i \in Muxes : AcceptFails(i)
    \/ \E i \in Muxes : ConnectionEnds(i)
    \/ \E i \in Muxes : LoopEnds(i)

ServerSpec == ServerInit /\ [][ServerNext]_serverVars

-----------------------------------------------------------------------------

\* No multiplexer is destroyed under a thread that is still in its run(): what
\* the assertion in destroy() is there for.  (HttpServer::destroy, ~HttpServer)
MultiplexerOutlivesItsThread ==
    \A i \in Muxes : mux[i].thread => mux[i].object # "destroyed"

\* A server that was not abandoned half way shuts down in order: what main's
\* own destroy() takes is no longer run by any thread, and is all there is.
OrderlyShutdown ==
    server.at # "gone" =>
        /\ MultiplexerOutlivesItsThread
        /\ server.over => \A i \in Muxes : mux[i].object = "destroyed"

\* A started server has a multiplexer for every index push() may draw, in the
\* order of its threads: the unchecked _multiplexers.index(idx) finds one.
StartedHasEveryMultiplexer ==
    server.state = "STARTED" => server.listed = [i \in Muxes |-> i]

\* Every descriptor the process holds is that of a registered connection or
\* listening socket, or one of those that addServerSocket() could construct no
\* socket for: those are left open with no owner.
DescriptorsAreOwned ==
    \A i \in Muxes :
        /\ opened[i].accepted = mux[i].open + opened[i].stray
        /\ opened[i].listening = mux[i].listening

\* From initialize() to destroy(), with any step failing: as long as main does
\* not return early the server shuts down in order, a started one has all of its
\* multiplexers, and the descriptors are accounted for.
\* (HttpServer::start to destroy, addServerSocket)
ServerIsSound == OrderlyShutdown /\ StartedHasEveryMultiplexer /\ DescriptorsAreOwned
=============================================================================

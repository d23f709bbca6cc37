-------------------------- MODULE HttpRoutingProxy --------------------------
(***************************************************************************)
(* The reverse proxy: proxy/source/ESHttpRoutingProxyHandler.cpp, its      *)
(* per-transaction context, and the routers.                               *)
(*                                                                         *)
(* One server connection is paired, through a context object, with the     *)
(* client transactions made for its requests.  Everything runs on the one  *)
(* thread of an event loop, but the two streams call each other: a client  *)
(* event that receives a response calls the server stream, which pulls     *)
(* body data from the client stream, and so on.  The variable stack holds  *)
(* these nested calls of advanceStateMachine, innermost last, and ret the  *)
(* result of the call that has just returned.  While stack is empty the    *)
(* loop may dispatch an event to either stream.                            *)
(*                                                                         *)
(* The streams themselves (HttpServerSocket, HttpClientSocket) are here    *)
(* reduced to their phase, their two pause flags and their context         *)
(* pointer; how much data a buffer or the network holds is left open.      *)
(*                                                                         *)
(* The context is allocated first of all from the allocator of the server  *)
(* transaction, and that transaction is reset and reused (for the next     *)
(* request of the connection, and, from the top of a free list, for the    *)
(* next connection), so all contexts have one and the same address: the    *)
(* variable context is the memory there.  A stream that keeps the pointer  *)
(* too long sees the context of a later transaction.  A client socket is   *)
(* the memory of a slot, too: the pointer to it may outlive it.            *)
(***************************************************************************)
EXTENDS Integers, Sequences, FiniteSets

CONSTANTS Clients,      \* client sockets
          None,         \* NULL
          MaxRequests   \* bound: requests the server connections receive

ASSUME ProxyAssumption == {None, "server"} \cap Clients = {} /\ MaxRequests \in Nat

VARIABLES server,    \* the server stream
          client,    \* the client streams
          context,   \* the memory of the context
          stack,     \* the active calls of advanceStateMachine
          ret,       \* the result of the call that just ended, or None
          shutdown   \* the multiplexer has been told to stop

vars == <<server, client, context, stack, ret, shutdown>>

ServerRecv == {"headers", "body", "trailer"}       \* SERVER_RECV_STATE_MASK
ServerSend == {"sendHeaders", "sendBody", "flush"} \* SERVER_SEND_STATE_MASK
ClientSend == {"sendHeaders", "sendBody", "flush"} \* SEND_STATE_MASK
ClientRecv == {"headers", "body"}                  \* RECV_STATE_MASK

\* a client socket that is not in the multiplexer: removed, and so INACTIVE,
\* or released by the factory before it was added, and still as it was
Gone == {"free", "released"}

(***************************************************************************)
(* event: handleReadable, handleWritable, handleConnect; respond:          *)
(* sendResponse; send, sendEnd: sendResponseBody with data and with none;  *)
(* offer, read: requestBodyAvailable and responseBodyAvailable,            *)
(* readRequestBody and readResponseBody.                                   *)
(***************************************************************************)
RecvModes == {"event", "offer", "read"}            \* ADVANCE_RECV
SendModes == {"event", "respond", "send", "sendEnd"} \* ADVANCE_SEND

Results == {"SUCCESS", "AGAIN", "PAUSE", "ERROR"}

TypeOK ==
    /\ server \in [phase : {"inactive", "begin", "end"} \cup ServerRecv \cup ServerSend,
                   recvPaused : BOOLEAN, sendPaused : BOOLEAN, context : BOOLEAN,
                   request : 0 .. MaxRequests, answer : 0 .. MaxRequests, refused : BOOLEAN]
    /\ client \in [Clients -> [phase : Gone \cup {"connecting", "begin", "end"}
                                        \cup ClientRecv \cup ClientSend,
                               recvPaused : BOOLEAN, sendPaused : BOOLEAN,
                               context : BOOLEAN, request : 0 .. MaxRequests,
                               first : BOOLEAN, spent : BOOLEAN]]
    /\ context \in [server : BOOLEAN, client : Clients \cup {None}, received : BOOLEAN]
    /\ stack \in Seq([who : Clients \cup {"server"}, mode : RecvModes \cup SendModes,
                      got : BOOLEAN])
    /\ shutdown \in BOOLEAN

\* first: FIRST_USE_AFTER_REUSE; spent: the formatter of its transaction has
\* formatted the headers, and refuses to do it again
FreeClient == [phase |-> "free", recvPaused |-> FALSE, sendPaused |-> FALSE,
               context |-> FALSE, request |-> 0, first |-> FALSE, spent |-> FALSE]

\* request: its number; answer: the request whose response it was given (0:
\* none yet); refused: the response is one that the proxy made itself
FreshServer(phase, request) ==
    [phase |-> phase, recvPaused |-> FALSE, sendPaused |-> FALSE, context |-> FALSE,
     request |-> request, answer |-> 0, refused |-> FALSE]

\* HttpRoutingProxyContext(): what the constructor leaves
FreshContext == [server |-> FALSE, client |-> None, received |-> FALSE]

Init ==
    /\ server = FreshServer("inactive", 0)
    /\ client = [k \in Clients |-> FreeClient]
    /\ context = FreshContext
    /\ stack = <<>>
    /\ ret = None
    /\ shutdown = FALSE

----------------------------------------------------------------------------
(* Calls and returns.                                                      *)
Top == stack[Len(stack)]
Active(who) == stack # <<>> /\ ret = None /\ Top.who = who
Runs(who) == Active(who) /\ ~shutdown
Back(who, mode) == ret # None /\ ret.mode = mode /\ Top.who = who

Call(who, mode) ==
    /\ stack' = Append(stack, [who |-> who, mode |-> mode, got |-> FALSE])
    /\ ret' = None

Continue == UNCHANGED stack /\ ret' = None

\* a nested call returns to its caller, an event to the event loop; n tells
\* whether bytes were offered or moved
Leave(rc, n) ==
    /\ stack' = SubSeq(stack, 1, Len(stack) - 1)
    /\ ret' = IF Len(stack) = 1 THEN None ELSE [mode |-> Top.mode, rc |-> rc, n |-> n]

\* PAUSE and AGAIN keep the socket in the multiplexer
Return(rc) == Leave(rc, Top.got) /\ (Len(stack) > 1 \/ rc \in {"AGAIN", "PAUSE"})

(***************************************************************************)
(* endTransaction for either stream.  Each clears the two pointers to its  *)
(* own stream first, aborts the other stream unless it ended well (abort() *)
(* removes it at once, and so ends its transaction, nested), and destroys  *)
(* the context when the other stream no longer refers to it.  Destruction  *)
(* leaves the memory with both stream pointers NULL.                       *)
(***************************************************************************)
\* plausible bugs: the pointer to the stream is kept; the server stream is
\* not aborted
EndOfClient_KeepsPointer(w, k) ==
    LET abort == w.client[k].phase # "end" /\ w.context.server
    IN  IF ~w.client[k].context THEN w
        ELSE [server  |-> IF abort THEN FreshServer("inactive", w.server.request) ELSE w.server,
              client  |-> [w.client EXCEPT ![k].context = FALSE],
              context |-> IF abort THEN [w.context EXCEPT !.server = FALSE] ELSE w.context]

EndOfClient(w, k) ==
    LET failed == w.client[k].phase # "end"
        x == [w.context EXCEPT !.client = None]
        abort == failed /\ x.server
    IN  IF ~w.client[k].context THEN w
        ELSE [server  |-> IF abort THEN FreshServer("inactive", w.server.request) ELSE w.server,
              client  |-> [w.client EXCEPT ![k].context = FALSE],
              context |-> IF abort THEN [x EXCEPT !.server = FALSE] ELSE x]

EndOfServer(w, failed) ==
    LET x == [w.context EXCEPT !.server = FALSE]
        abort == failed /\ x.client # None
    IN  IF ~w.server.context THEN w
        ELSE [server  |-> [w.server EXCEPT !.context = FALSE],
              client  |-> IF abort THEN [w.client EXCEPT ![x.client] = FreeClient] ELSE w.client,
              context |-> IF abort THEN [x EXCEPT !.client = None] ELSE x]

World == [server |-> server, client |-> client, context |-> context]

Become(w) == server' = w.server /\ client' = w.client /\ context' = w.context

(***************************************************************************)
(* handleRemove of the two streams; a server stream in TRANSACTION_END has *)
(* ended its transaction before.                                           *)
(***************************************************************************)
RemoveServer ==
    LET w == IF server.phase = "end" THEN World ELSE EndOfServer(World, TRUE)
    IN  Become([w EXCEPT !.server = FreshServer("inactive", server.request)])

ClientRemoved(w, k) == [EndOfClient(w, k) EXCEPT !.client[k] = FreeClient]

(***************************************************************************)
(* A reused connection on which nothing has been sent is taken for stale:  *)
(* its transaction is executed again on another socket j, and the context  *)
(* learns of it by beginTransaction only, that is at once if j is pooled,  *)
(* and when it has connected if it is not.                                 *)
(***************************************************************************)
Executed(w, j, pooled, transaction) ==
    [w EXCEPT !.client[j] = [FreeClient EXCEPT
                               !.phase = IF pooled THEN "begin" ELSE "connecting",
                               !.context = transaction.context,
                               !.request = transaction.request,
                               !.first = pooled, !.spent = transaction.spent],
              !.context.client = IF pooled THEN j ELSE @]

Retries(w, k) ==
    {Executed([w EXCEPT !.client[k] = FreeClient], j, pooled, w.client[k]) :
        j \in {c \in Clients : w.client[c].phase \in Gone},
        pooled \in {p \in BOOLEAN : p => w.client[k].context /\ w.context.server}}

ClientRemovals(w, k) ==
    {ClientRemoved(w, k)} \cup (IF w.client[k].first THEN Retries(w, k) ELSE {})

RemoveClient(k) == \E w \in ClientRemovals(World, k) : Become(w)

\* the state machine of the stream returns an error; at the end of an event
\* that removes the stream
ServerFails ==
    /\ Leave("ERROR", Top.got)
    /\ IF Len(stack) = 1 THEN RemoveServer ELSE UNCHANGED <<server, client, context>>

ClientFailsIn(w, k) ==
    /\ Leave("ERROR", Top.got)
    /\ IF Len(stack) = 1 THEN \E v \in ClientRemovals(w, k) : Become(v) ELSE Become(w)

ClientFails(k) == ClientFailsIn(World, k)

----------------------------------------------------------------------------
(* The four pairs of onClientRecvBlocked, onServerRecvBlocked,             *)
(* onClientSendBlocked and onServerSendBlocked.                            *)
\* a plausible bug: the side that has to deliver is not resumed
OnClientRecvBlocked_NoResume(k) ==
    /\ server' = [server EXCEPT !.sendPaused = TRUE]
    /\ UNCHANGED <<client, context>>

OnClientRecvBlocked(k) ==
    /\ client' = [client EXCEPT ![k].recvPaused = FALSE]
    /\ server' = [server EXCEPT !.sendPaused = TRUE]
    /\ UNCHANGED context

OnServerRecvBlocked(k) ==
    /\ server' = [server EXCEPT !.recvPaused = FALSE]
    /\ client' = [client EXCEPT ![k].sendPaused = TRUE]
    /\ UNCHANGED context

OnClientSendBlocked(k) ==
    /\ client' = [client EXCEPT ![k].sendPaused = FALSE]
    /\ server' = [server EXCEPT !.recvPaused = TRUE]
    /\ UNCHANGED context

OnServerSendBlocked(k) ==
    /\ server' = [server EXCEPT !.sendPaused = FALSE]
    /\ client' = [client EXCEPT ![k].recvPaused = TRUE]
    /\ UNCHANGED context

Quiet == UNCHANGED <<server, client, context>>

----------------------------------------------------------------------------
(* The server stream.                                                      *)
SPhase(from, to) ==
    /\ server.phase = from
    /\ server' = [server EXCEPT !.phase = to]
    /\ UNCHANGED <<client, context>>
    /\ Continue

\* advanceStateMachine: this call may not advance a state of that side
ServerGate ==
    /\ Runs("server")
    /\ \/ server.phase \in ServerRecv /\ Top.mode \notin RecvModes
       \/ server.phase \in ServerSend /\ Top.mode \notin SendModes
    /\ Return("SUCCESS")
    /\ Quiet

ServerMay(phase) ==
    /\ Runs("server") /\ server.phase = phase
    /\ phase \in ServerRecv => Top.mode \in RecvModes
    /\ phase \in ServerSend => Top.mode \in SendModes

\* the peer sent nothing more, or accepts nothing more, or failed
ServerBlocks ==
    /\ \E p \in ServerRecv \cup ServerSend : ServerMay(p)
    /\ server.phase = "sendBody" => Top.mode \in {"send", "sendEnd"}
    /\ Top.mode = "read" => Top.got
    /\ \/ Return("AGAIN") /\ Quiet
       \/ ServerFails

(***************************************************************************)
(* beginTransaction for a server stream: a context, or out of memory.      *)
(***************************************************************************)
ServerBegin ==
    /\ ServerMay("begin")
    /\ \/ /\ server.request < MaxRequests
          /\ server' = [server EXCEPT !.phase = "headers", !.context = TRUE,
                                      !.request = @ + 1]
          /\ context' = [FreshContext EXCEPT !.server = TRUE]
          /\ UNCHANGED client
          /\ Continue
       \/ ServerFails

\* sendEmptyResponse from a receiving state stores the response; the state
\* machine may not advance to sending it in that call
Refused(s) == [s EXCEPT !.refused = TRUE]

\* parseHeaders fails: the server socket answers 400 or 500
ServerBadHeaders ==
    /\ ServerMay("headers")
    /\ server' = [Refused(server) EXCEPT !.phase = "sendHeaders"]
    /\ UNCHANGED <<client, context>>
    /\ Continue

(***************************************************************************)
(* receiveRequestHeaders: no client transaction, a request that cannot be  *)
(* copied, no route, and a transaction that cannot be executed are         *)
(* answered by the proxy; in the last case the stream stays paused, and if *)
(* a pooled socket could not be added to the multiplexer, the context      *)
(* keeps the pointer to it that beginTransaction has stored.               *)
(***************************************************************************)
ServerRefuses ==
    /\ ServerMay("headers")
    /\ \E paused \in BOOLEAN :
         /\ server' = [Refused(server) EXCEPT !.phase = "body",
                                              !.recvPaused = @ \/ paused,
                                              !.sendPaused = @ \/ paused]
         /\ \/ UNCHANGED <<client, context>>
            \/ /\ paused
               /\ \E k \in Clients :
                    /\ client[k].phase \in Gone
                    /\ client' = [client EXCEPT ![k] = [FreeClient EXCEPT !.phase = "released"]]
                    /\ context' = [context EXCEPT !.client = k]
    /\ Continue

(***************************************************************************)
(* receiveRequestHeaders, routed: the server stream is paused both ways    *)
(* and a client transaction that holds the context is executed, on a new   *)
(* connection or on a pooled one, where beginTransaction is called first.  *)
(***************************************************************************)
ServerRoutes ==
    /\ ServerMay("headers")
    /\ \E k \in Clients, pooled \in BOOLEAN :
        /\ client[k].phase \in Gone
        /\ LET w == Executed(World, k, pooled,
                            [context |-> TRUE, request |-> server.request, spent |-> FALSE])
           IN  client' = w.client /\ context' = w.context
    /\ server' = [server EXCEPT !.phase = "body", !.recvPaused = TRUE, !.sendPaused = TRUE]
    /\ Return("PAUSE")

(***************************************************************************)
(* consumeRequestBody, with data and, after the state has advanced, with   *)
(* none.  Until the response has come the body is pulled by the client     *)
(* stream instead.                                                         *)
(***************************************************************************)
ServerConsumes ==
    /\ ServerMay("body") /\ Top.mode = "event"
    /\ \E last \in BOOLEAN :
        LET s == [server EXCEPT !.phase = IF last THEN "trailer" ELSE @]
            k == context.client
        IN  IF k = None \/ client[k].phase = "free" THEN ServerFails
            ELSE \/ /\ ~context.received
                    /\ client' = [client EXCEPT ![k].sendPaused = FALSE]
                    /\ server' = [s EXCEPT !.recvPaused = TRUE]
                    /\ UNCHANGED context
                    /\ Return("PAUSE")
                 \/ /\ context.received /\ client[k].phase = "sendBody"
                    /\ Call(k, IF last THEN "sendEnd" ELSE "send")
                    /\ server' = s
                    /\ UNCHANGED <<client, context>>
                 \/ /\ context.received /\ client[k].phase # "sendBody"
                    /\ ServerFails

ServerConsumed ==
    /\ ret # None /\ ret.mode \in {"send", "sendEnd"} /\ Top.who = "server"
    /\ \/ ret.rc = "SUCCESS" /\ Continue /\ Quiet
       \/ ret.rc = "AGAIN" /\ OnClientSendBlocked(context.client) /\ Return("PAUSE")
       \/ ret.rc = "ERROR" /\ ServerFails

(***************************************************************************)
(* HttpRequestBodyConsumer: requestBodyAvailable stops at the first data,  *)
(* readRequestBody when it has its bytes; both go on past the last chunk.  *)
(***************************************************************************)
ServerIsRead ==
    /\ ServerMay("body") /\ Top.mode \in {"offer", "read"}
    /\ \/ /\ Top.mode = "read" /\ ~Top.got
          /\ stack' = [stack EXCEPT ![Len(stack)].got = TRUE]
          /\ ret' = None
          /\ Quiet
       \/ /\ Top.mode = "offer" \/ Top.got
          /\ Leave("SUCCESS", TRUE)
          /\ Quiet
       \/ /\ Top.mode = "offer" \/ Top.got
          /\ SPhase("body", "trailer")

ServerSkipsTrailer == ServerMay("trailer") /\ SPhase("trailer", "sendHeaders")

ServerFormatsHeaders == ServerMay("sendHeaders") /\ SPhase("sendHeaders", "sendBody")

(***************************************************************************)
(* offerResponseBody asks the client stream; without one it fails, also    *)
(* for a response of the proxy itself.                                     *)
(***************************************************************************)
ServerOffers ==
    /\ ServerMay("sendBody") /\ Top.mode \in {"event", "respond"}
    /\ IF context.client = None \/ client[context.client].phase \in Gone \cup {"connecting"}
       THEN ServerFails
       ELSE Call(context.client, "offer") /\ Quiet

ServerOffered ==
    /\ Back("server", "offer")
    /\ \/ /\ ret.rc = "SUCCESS" /\ ~ret.n
          /\ SPhase("sendBody", "flush")
       \/ /\ ret.rc = "SUCCESS" /\ ret.n
          /\ Call(context.client, "read")
          /\ Quiet
       \/ /\ ret.rc = "SUCCESS"               \* no room, and none is made
          /\ Return("AGAIN")
          /\ Quiet
       \/ /\ ret.rc = "PAUSE"
          /\ OnServerSendBlocked(context.client)
          /\ Return("PAUSE")
       \/ /\ ret.rc = "AGAIN"
          /\ OnClientRecvBlocked(context.client)
          /\ Return("PAUSE")
       \/ ret.rc = "ERROR" /\ ServerFails

\* produceResponseBody: a blocked client stream still delivered its bytes
ServerProduced ==
    /\ Back("server", "read")
    /\ \/ ret.rc = "SUCCESS" /\ Continue /\ Quiet
       \/ ret.rc = "AGAIN" /\ Continue /\ OnClientRecvBlocked(context.client)
       \/ ret.rc = "ERROR" /\ ServerFails

(***************************************************************************)
(* HttpResponseBodyProducer: sendResponseBody with data ends when all of   *)
(* it is in the send buffer, without data it ends the body.                *)
(***************************************************************************)
ServerIsSent ==
    /\ ServerMay("sendBody") /\ Top.mode \in {"send", "sendEnd"}
    /\ \/ Top.mode = "send" /\ Leave("SUCCESS", TRUE) /\ Quiet
       \/ Top.mode = "sendEnd" /\ SPhase("sendBody", "flush")

ServerFlushes == ServerMay("flush") /\ SPhase("flush", "end")

(***************************************************************************)
(* stateEndTransaction: endTransaction, then the connection is closed (by  *)
(* an ESB_CLEANUP that, in a nested call, only the caller sees) or the     *)
(* transaction is reset for the next request; the pause flags stay.        *)
(***************************************************************************)
ServerEnds ==
    /\ ServerMay("end")
    /\ LET w == EndOfServer(World, FALSE)
       IN  \/ /\ Become([w EXCEPT !.server = [FreshServer("begin", server.request)
                                EXCEPT !.recvPaused = server.recvPaused,
                                       !.sendPaused = server.sendPaused]])
              /\ Continue
           \/ /\ Leave("ERROR", Top.got)
              /\ Become(IF Len(stack) = 1
                        THEN [w EXCEPT !.server = FreshServer("inactive", server.request)] ELSE w)

\* the loop of advanceStateMachine is left when the multiplexer stops
ServerStops == Active("server") /\ shutdown /\ ServerFails

ServerStep ==
    \/ ServerGate \/ ServerBlocks \/ ServerBegin \/ ServerBadHeaders \/ ServerRefuses
    \/ ServerRoutes \/ ServerConsumes \/ ServerConsumed \/ ServerIsRead \/ ServerSkipsTrailer
    \/ ServerFormatsHeaders \/ ServerOffers \/ ServerOffered \/ ServerProduced
    \/ ServerIsSent \/ ServerFlushes \/ ServerEnds \/ ServerStops

----------------------------------------------------------------------------
(* The client streams.                                                     *)
CPhase(k, from, to) ==
    /\ client[k].phase = from
    /\ client' = [client EXCEPT ![k].phase = to]
    /\ UNCHANGED <<server, context>>
    /\ Continue

ClientMay(k, phase) ==
    /\ Runs(k) /\ client[k].phase = phase
    /\ phase \in ClientRecv => Top.mode \in RecvModes
    /\ phase \in ClientSend => Top.mode \in SendModes

\* advanceStateMachine; in TRANSACTION_END an event removes the socket
ClientGate(k) ==
    /\ Runs(k)
    /\ \/ client[k].phase \in ClientSend /\ Top.mode \notin SendModes
       \/ client[k].phase \in ClientRecv /\ Top.mode \notin RecvModes
       \/ client[k].phase = "end"
    /\ Leave("SUCCESS", Top.got)
    /\ IF Len(stack) = 1 THEN RemoveClient(k) ELSE Quiet

ClientBlocks(k) ==
    /\ \E p \in ClientRecv \cup ClientSend : ClientMay(k, p)
    /\ client[k].phase = "sendBody" => Top.mode \in {"send", "sendEnd"}
    /\ Top.mode = "read" => Top.got
    /\ \/ Return("AGAIN") /\ Quiet
       \/ ClientFails(k)

(***************************************************************************)
(* beginTransaction for a client stream pairs it with the server stream,   *)
(* unless the context says that there is none any more.                    *)
(***************************************************************************)
ClientBegin(k) ==
    /\ ClientMay(k, "begin")
    /\ IF client[k].context /\ context.server
       THEN /\ client' = [client EXCEPT ![k].phase = "sendHeaders"]
            /\ context' = [context EXCEPT !.client = k]
            /\ UNCHANGED server
            /\ Continue
       ELSE ClientFails(k)

\* bytes are sent on the connection
Sent(k) == [client EXCEPT ![k].first = FALSE]

ClientFormatsHeaders(k) ==
    /\ ClientMay(k, "sendHeaders")
    /\ \/ /\ ~client[k].spent
          /\ client' = [client EXCEPT ![k].phase = "sendBody", ![k].spent = TRUE]
          /\ UNCHANGED <<server, context>>
          /\ Continue
       \/ /\ ~client[k].spent                \* no room, and some is made
          /\ client' = Sent(k)
          /\ UNCHANGED <<server, context>>
          /\ Continue
       \/ client[k].spent /\ ClientFails(k)

(***************************************************************************)
(* offerRequestBody and produceRequestBody pull from the server stream.    *)
(***************************************************************************)
ClientOffers(k) ==
    /\ ClientMay(k, "sendBody") /\ Top.mode = "event"
    /\ IF context.server THEN Call("server", "offer") /\ Quiet ELSE ClientFails(k)

ClientOffered(k) ==
    /\ Back(k, "offer")
    /\ \/ /\ ret.rc = "SUCCESS" /\ ~ret.n
          /\ CPhase(k, "sendBody", "flush")
       \/ /\ ret.rc = "SUCCESS" /\ ret.n
          /\ Call("server", "read")
          /\ Quiet
       \/ /\ ret.rc = "SUCCESS"
          /\ Return("AGAIN")
          /\ Quiet
       \/ /\ ret.rc = "SUCCESS"               \* no room, and some is made
          /\ client' = Sent(k)
          /\ UNCHANGED <<server, context>>
          /\ Continue
       \/ /\ ret.rc = "PAUSE"
          /\ OnClientSendBlocked(k)
          /\ Return("PAUSE")
       \/ /\ ret.rc = "AGAIN"
          /\ OnServerRecvBlocked(k)
          /\ Return("PAUSE")
       \/ ret.rc = "ERROR" /\ ClientFails(k)

ClientProduced(k) ==
    /\ Back(k, "read")
    /\ \/ ret.rc = "SUCCESS" /\ Continue /\ Quiet
       \/ ret.rc = "AGAIN" /\ Continue /\ OnServerRecvBlocked(k)
       \/ ret.rc = "ERROR" /\ ClientFails(k)

\* HttpRequestBodyProducer, as ServerIsSent
ClientIsSent(k) ==
    /\ ClientMay(k, "sendBody") /\ Top.mode \in {"send", "sendEnd"}
    /\ \/ Top.mode = "send" /\ Leave("SUCCESS", TRUE) /\ Quiet
       \/ Top.mode = "sendEnd" /\ CPhase(k, "sendBody", "flush")

ClientFlushes(k) ==
    /\ ClientMay(k, "flush")
    /\ client' = [Sent(k) EXCEPT ![k].phase = "headers"]
    /\ UNCHANGED <<server, context>>
    /\ Continue

(***************************************************************************)
(* receiveResponseHeaders: resume the server stream's receive side, give   *)
(* it the response, and let it send (sendResponse).                        *)
(***************************************************************************)
ClientHeaders(k) ==
    /\ ClientMay(k, "headers")
    /\ IF context.server /\ context.client # None
       THEN /\ client' = [client EXCEPT ![k].phase = "body"]
            /\ context' = [context EXCEPT !.received = TRUE]
            /\ server' = [server EXCEPT !.recvPaused = FALSE, !.answer = client[k].request]
            /\ Call("server", "respond")
       ELSE ClientFailsIn([World EXCEPT !.client[k].phase = "body"], k)

\* after the response has been sent in full the server stream is made ready
\* for the next request; a status of 300 or more closes the client connection
ClientResponded(k) ==
    /\ Back(k, "respond")
    /\ \/ /\ ret.rc = "SUCCESS"
          /\ server' = [server EXCEPT !.recvPaused = FALSE, !.sendPaused = TRUE]
          /\ UNCHANGED <<client, context>>
          /\ Continue
       \/ /\ ret.rc = "SUCCESS"
          /\ ClientFailsIn([World EXCEPT !.server.recvPaused = FALSE,
                                         !.server.sendPaused = TRUE], k)
       \/ ret.rc = "PAUSE" /\ OnClientRecvBlocked(k) /\ Return("PAUSE")
       \/ ret.rc = "AGAIN" /\ OnServerSendBlocked(k) /\ Return("AGAIN")
       \/ ret.rc = "ERROR" /\ ClientFails(k)

(***************************************************************************)
(* consumeResponseBody, with data and, after the state has advanced to     *)
(* TRANSACTION_END, with none: sendResponseBody needs a server stream that *)
(* is formatting its body.                                                 *)
(***************************************************************************)
ClientConsumes(k) ==
    /\ ClientMay(k, "body") /\ Top.mode = "event"
    /\ \E last \in BOOLEAN :
        LET c == [client EXCEPT ![k].phase = IF last THEN "end" ELSE @]
        IN  IF context.server /\ server.phase = "sendBody"
            THEN /\ Call("server", IF last THEN "sendEnd" ELSE "send")
                 /\ client' = c
                 /\ UNCHANGED <<server, context>>
            ELSE ClientFailsIn([World EXCEPT !.client = c], k)

ClientConsumed(k) ==
    /\ ret # None /\ ret.mode \in {"send", "sendEnd"} /\ Top.who = k
    /\ \/ /\ ret.rc = "SUCCESS" /\ ret.mode = "send"
          /\ Continue /\ Quiet
       \/ /\ ret.rc = "SUCCESS" /\ ret.mode = "sendEnd"
          /\ server' = [server EXCEPT !.recvPaused = FALSE, !.sendPaused = TRUE]
          /\ UNCHANGED <<client, context>>
          /\ Continue
       \/ ret.rc = "AGAIN" /\ OnServerSendBlocked(k) /\ Return("PAUSE")
       \/ ret.rc = "ERROR" /\ ClientFails(k)

\* HttpResponseBodyConsumer, as ServerIsRead
ClientIsRead(k) ==
    /\ ClientMay(k, "body") /\ Top.mode \in {"offer", "read"}
    /\ \/ /\ Top.mode = "read" /\ ~Top.got
          /\ stack' = [stack EXCEPT ![Len(stack)].got = TRUE]
          /\ ret' = None
          /\ Quiet
       \/ /\ Top.mode = "offer" \/ Top.got
          /\ Leave("SUCCESS", TRUE)
          /\ Quiet
       \/ /\ Top.mode = "offer" \/ Top.got
          /\ CPhase(k, "body", "end")

ClientStops(k) == Active(k) /\ shutdown /\ ClientFails(k)

ClientStep(k) ==
    \/ ClientGate(k) \/ ClientBlocks(k) \/ ClientBegin(k) \/ ClientFormatsHeaders(k)
    \/ ClientOffers(k) \/ ClientOffered(k) \/ ClientProduced(k) \/ ClientFlushes(k)
    \/ ClientHeaders(k) \/ ClientResponded(k) \/ ClientConsumes(k) \/ ClientConsumed(k)
    \/ ClientIsRead(k) \/ ClientIsSent(k) \/ ClientStops(k)

----------------------------------------------------------------------------
(* The event loop: it dispatches one event to one stream at a time.        *)
ServerWantsRead  == server.phase \in ServerRecv \cup {"begin"} /\ ~server.recvPaused
ServerWantsWrite == server.phase \in ServerSend /\ ~server.sendPaused
ClientWantsRead(k)  == client[k].phase \in ClientRecv /\ ~client[k].recvPaused
ClientWantsWrite(k) == client[k].phase \in ClientSend \cup {"begin"} /\ ~client[k].sendPaused

Accept ==
    /\ stack = <<>> /\ ~shutdown /\ server.phase = "inactive"
    /\ server.request < MaxRequests
    /\ server' = FreshServer("begin", server.request)
    /\ UNCHANGED <<client, context, stack, ret>>

ServerEvent ==
    /\ stack = <<>> /\ ~shutdown
    /\ ServerWantsRead \/ ServerWantsWrite
    /\ Call("server", "event")
    /\ Quiet

ClientEvent(k) ==
    /\ stack = <<>> /\ ~shutdown
    /\ ClientWantsRead(k) \/ ClientWantsWrite(k)
    /\ Call(k, "event")
    /\ Quiet

ClientConnected(k) ==
    /\ stack = <<>> /\ ~shutdown /\ client[k].phase = "connecting"
    /\ client' = [client EXCEPT ![k].phase = "begin"]
    /\ Call(k, "event")
    /\ UNCHANGED <<server, context>>

\* an error, a close by the peer, the idle timeout or destroy()
ServerLost ==
    /\ stack = <<>> /\ server.phase # "inactive"
    /\ RemoveServer
    /\ UNCHANGED <<stack, ret>>

ClientLost(k) ==
    /\ stack = <<>> /\ client[k].phase \notin Gone
    /\ RemoveClient(k)
    /\ UNCHANGED <<stack, ret>>

\* another thread sets the flag while anything is going on
Shutdown ==
    /\ ~shutdown
    /\ shutdown' = TRUE
    /\ UNCHANGED <<server, client, context, stack, ret>>

Work ==
    \/ Accept \/ ServerEvent \/ ServerLost \/ ServerStep
    \/ \E k \in Clients : ClientEvent(k) \/ ClientConnected(k) \/ ClientLost(k) \/ ClientStep(k)

Next == Shutdown \/ (Work /\ UNCHANGED shutdown)

Spec == Init /\ [][Next]_vars

----------------------------------------------------------------------------
(* Properties.                                                             *)

\* no client stream is left over from an earlier request, and k serves this one
Paired(k) ==
    /\ \A c \in Clients : client[c].context => client[c].request = server.request
    /\ context.server /\ context.client = k /\ client[k].request = server.request

\* The server stream formats no response before it has been given the one to
\* its own request, or one of the proxy.  (receiveRequestHeaders: "Pause the
\* server transaction until we get the response from the client transaction")
AnswersInOrder ==
    server.phase \in {"sendBody", "flush"} => server.answer = server.request \/ server.refused

\* A pointer outlives its stream in three cases only: a pooled socket that the
\* factory released because it could not be added; a stale connection whose
\* transaction is connecting again, until it has begun there; and a server
\* stream that a stop removes after its response was sent.  In all others
\* endTransaction has cleared it, however the two streams end.
\* (endTransaction of both streams, abort(), handleRemove, executeClientTransaction)
PointersAccountedFor ==
    /\ \/ context.client = None
       \/ client[context.client].context
       \/ client[context.client].phase = "released"
       \/ \E j \in Clients : client[j].context /\ client[j].phase \in {"connecting", "begin"}
    /\ \/ ~context.server
       \/ server.context /\ server.phase # "inactive"
       \/ shutdown

\* While the two streams of a request are being worked on, the request body
\* is never stopped at both ends, and neither is the response body: whoever
\* pauses one side resumes the other.  (on{Client,Server}{Recv,Send}Blocked)
OneSideMoves ==
    \A k \in Clients : Paired(k) =>
        /\ ~(server.recvPaused /\ client[k].sendPaused)
        /\ ~(server.sendPaused /\ client[k].recvPaused)

\* The server stream is not ahead of its response, or has only parsed the end of
\* the request, paused both ways; the run ProxyAnswers shows how it may get ahead.
Unhurried ==
    server.phase \in ServerSend =>
        \/ server.answer = server.request \/ server.refused
        \/ server.phase = "sendHeaders" /\ server.recvPaused /\ server.sendPaused

\* Between events, one of the two paired streams still waits for an event of
\* its own socket: otherwise neither would ever move again.  (the pauses and
\* resumptions of HttpRoutingProxyHandler)
NobodyWaitsForNobody ==
    \A k \in Clients :
    stack = <<>> /\ ~shutdown /\ Paired(k) /\ Unhurried /\ client[k].phase # "end" =>
        ServerWantsRead \/ ServerWantsWrite \/ ClientWantsRead(k) \/ ClientWantsWrite(k)

\* A server stream that is paused both ways for a response is not left behind:
\* some client transaction still holds the context and will resume or abort
\* it.  (receiveRequestHeaders: "Pause the server transaction until we get the
\* response from the client transaction")
PausedForSomeone ==
    stack = <<>> /\ server.phase \in ServerRecv \cup {"sendHeaders"}
       /\ server.recvPaused /\ server.sendPaused =>
        \E k \in Clients : client[k].context /\ client[k].phase # "end"

\* The only one that is left behind is one whose client transaction could not
\* be executed: no end of a client stream, retry or abort strands it.
\* (executeClientTransaction and endTransaction of both streams)
WaitsForSomeone == server.refused \/ PausedForSomeone

\* Backpressure never stops a request for good: a body is not held at both
\* ends, and a stream that is paused has someone who will resume or abort it.
\* (on{Client,Server}{Recv,Send}Blocked and endTransaction of both streams)
SomebodyMoves == TypeOK /\ OneSideMoves /\ NobodyWaitsForNobody /\ WaitsForSomeone
=============================================================================

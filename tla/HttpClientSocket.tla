-------------------------- MODULE HttpClientSocket --------------------------
(***************************************************************************)
(* One client connection of data-plane/http1/source/ESHttpClientSocket.cpp *)
(* with the factory that creates it for a transaction, takes it back and   *)
(* pools its socket (ESHttpClientSocketFactory.cpp).  Everything runs in   *)
(* the event loop's thread; only shutdown() is set by another one.         *)
(*                                                                         *)
(* The application (HttpClientHandler, and callers in the callbacks of     *)
(* other sockets) and the origin are the environment.  Transactions follow *)
(* one another, for one clear text peer address.  Bytes are counted in     *)
(* units: the request headers take HeaderUnits of the send buffer, each    *)
(* body unit and the last chunk one; a response arrives as tokens: one for *)
(* the headers (without body, with a Content-Length of one piece, or       *)
(* chunked), one per piece, one for the last chunk and one for the end of  *)
(* the trailer.                                                            *)
(***************************************************************************)
EXTENDS Integers, Sequences

CONSTANTS RecvSize,         \* capacity of _recvBuffer in tokens
          SendSize,         \* capacity of _sendBuffer in units
          HeaderUnits,      \* units of the request headers
          MaxBody,          \* bound: units of a request body
          MaxInput,         \* bound: tokens received in all
          MaxTransactions,  \* bound: transactions executed
          MaxPooled         \* bound: connections in the pool at the start

ASSUME ClientBoundsAssumption ==
    /\ RecvSize \in Nat \ {0} /\ SendSize \in Nat \ {0} /\ HeaderUnits \in Nat \ {0}
    /\ {MaxBody, MaxInput, MaxTransactions, MaxPooled} \subseteq Nat

VARIABLES
    state,       \* _state & STATE_MASK
    flags,       \* _state & FLAG_MASK
    recvBuf,     \* the unread part of _recvBuffer
    sendBuf,     \* units of _sendBuffer not yet sent
    avail,       \* _bytesAvailable
    request,     \* the transaction's request and its formatter
    response,    \* the transaction's response and its parser
    frame,       \* the running call of advanceStateMachine
    interest,    \* the readiness the event loop watches for
    shutdown,    \* HttpMultiplexer::shutdown()
    pool,        \* the idle connections: what is still to be read on each
    limbo,       \* connections of removed sockets before cleanup
    peer,        \* what the origin is in the middle of sending
    told,        \* history: the last callback the handler got in this transaction
    outcome,     \* how the last transaction ended
    attempt,     \* connections tried for this transaction
    sentOn,      \* those of them that bytes were sent on
    executed,    \* transactions executed so far
    received     \* tokens received so far

sockVars == <<state, flags, told, outcome>>
dataVars == <<recvBuf, sendBuf, avail, request, response, attempt, sentOn>>
poolVars == <<pool, limbo, executed>>
envVars  == <<peer, received, shutdown>>
vars == <<sockVars, dataVars, poolVars, envVars, frame, interest>>

RecvStates == {"PARSING_HEADERS", "PARSING_BODY"}
SendStates == {"FORMATTING_HEADERS", "FORMATTING_BODY", "FLUSHING_BODY"}
States == RecvStates \cup SendStates \cup
          {"CONNECTING", "TRANSACTION_BEGIN", "TRANSACTION_END", "INACTIVE"}
Pauses == {"RECV_PAUSED", "SEND_PAUSED"}
Flags  == Pauses \cup {"FIRST_USE_AFTER_REUSE", "ABORTED", "LAST_CHUNK_RECEIVED"}

Heads  == {"empty", "len", "chunked"}
Tokens == Heads \cup {"piece", "last", "end", "bad"}

(***************************************************************************)
(* left: body units the producer still has.  formatted: units of the       *)
(* headers the formatter has written; done: endBody was called.  The       *)
(* formatter belongs to the transaction and survives its connection.       *)
(***************************************************************************)
Requests == [chunked : BOOLEAN, left : 0..MaxBody, formatted : 0..HeaderUnits, done : BOOLEAN]
NoRequest == [chunked |-> FALSE, left |-> 0, formatted |-> 0, done |-> FALSE]

(***************************************************************************)
(* left: body pieces of a Content-Length not yet consumed; close: the      *)
(* response says "Connection: close".                                      *)
(***************************************************************************)
Responses == [kind : Heads \cup {"none"}, left : 0..1, close : BOOLEAN]
NoResponse == [kind |-> "none", left |-> 0, close |-> FALSE]

(***************************************************************************)
(* handler: the application's, or the adaptor HttpRequestBodyProducer or   *)
(* HttpResponseBodyConsumer that stands for a buffer of the caller with    *)
(* `left' units of it and `last' for an empty one.                         *)
(***************************************************************************)
Frames == [by : {"none", "io", "call", "remove"}, handler : {"handler", "producer", "consumer"},
           left : 0..MaxBody \cup {1}, last : BOOLEAN, advance : SUBSET {"recv", "send"},
           fill : BOOLEAN, drain : BOOLEAN]
Idle == [by |-> "none", handler |-> "handler", left |-> 0, last |-> FALSE, advance |-> {},
         fill |-> FALSE, drain |-> FALSE]
Removing == [Idle EXCEPT !.by = "remove"]
Running  == frame.by \in {"io", "call"}
IoFrame(fill) == [Idle EXCEPT !.by = "io", !.advance = {"recv", "send"}, !.fill = fill]
CallFrame(handler, n, last, advance) ==
    [Idle EXCEPT !.by = "call", !.handler = handler, !.left = n, !.last = last,
                 !.advance = advance]

WantRead(s, f) ==
    /\ f \cap {"RECV_PAUSED", "ABORTED"} = {}
    /\ s \in RecvStates

WantWrite(s, f) ==
    /\ f \cap {"SEND_PAUSED", "ABORTED"} = {}
    /\ s \in SendStates \cup {"TRANSACTION_BEGIN"}

Wants(s, f) ==
    IF s = "CONNECTING" THEN {"IN", "OUT"}
    ELSE {i \in {"IN", "OUT"} : \/ i = "IN" /\ WantRead(s, f)
                                \/ i = "OUT" /\ WantWrite(s, f)}

(***************************************************************************)
(* The callbacks `told' distinguishes.  "read": the last chunk went to the *)
(* adaptor of a caller's buffer, the handler was not offered it; "over":   *)
(* endTransaction.  offer and consume callbacks of body bytes leave it.    *)
(***************************************************************************)
Callbacks == {"none", "begun", "sent", "headers", "last", "read", "over"}

Init ==
    /\ state = "INACTIVE" /\ flags = {} /\ told = "none" /\ outcome = "REFUSED"
    /\ recvBuf = <<>> /\ sendBuf = 0 /\ avail = 0 /\ attempt = 0 /\ sentOn = {}
    /\ request = NoRequest /\ response = NoResponse
    /\ frame = Idle /\ interest = {} /\ shutdown = FALSE
    /\ \E n \in 0..MaxPooled : pool = [i \in 1..n |-> "quiet"]
    /\ limbo = <<>> /\ executed = 0
    /\ peer = "quiet" /\ received = 0

-----------------------------------------------------------------------------
(***************************************************************************)
(* The origin answers every request once ("due"); what one call of receive *)
(* may return, and what the origin does next.  "late" is a trailer that    *)
(* the transaction before left unread.                                     *)
(***************************************************************************)
NextTokens(p) ==
    CASE p = "due"     -> {<<"empty", "quiet">>, <<"len", "len">>, <<"chunked", "chunked">>, <<"bad", "done">>}
      [] p = "len"     -> {<<"piece", "quiet">>}
      [] p = "chunked" -> {<<"piece", "chunked">>, <<"last", "trailer">>, <<"bad", "done">>}
      [] p = "trailer" -> {<<"end", "quiet">>}
      [] p = "late"    -> {<<"end", "due">>}
      [] OTHER         -> {}

Bursts(p) ==
    {<< <<a[1]>>, a[2]>> : a \in NextTokens(p)} \cup
    UNION {{<< <<a[1], b[1]>>, b[2]>> : b \in NextTokens(a[2])} : a \in NextTokens(p)}

-----------------------------------------------------------------------------
(***************************************************************************)
(* advanceStateMachine                                                     *)
(***************************************************************************)

(***************************************************************************)
(* The tests at the top of the loop allow a step.                          *)
(***************************************************************************)
MayAdvance ==
    /\ Running /\ ~frame.drain /\ ~shutdown
    /\ state \in RecvStates => "recv" \in frame.advance
    /\ state \in SendStates => "send" \in frame.advance

Step(s) == MayAdvance /\ state = s /\ ~frame.fill

Continue == frame' = frame /\ interest' = interest
Again == /\ frame' = [frame EXCEPT !.fill = state \in RecvStates, !.drain = state \in SendStates]
         /\ interest' = interest

(***************************************************************************)
(* advanceStateMachine returns r.  The event loop keeps a socket whose     *)
(* callback returns ESB_AGAIN or ESB_PAUSE, with the interests of its new  *)
(* state, and removes it otherwise; a caller just gets the result.         *)
(***************************************************************************)
Leave(r) ==
    IF frame.by = "call" THEN frame' = Idle /\ interest' = interest
    ELSE IF r \in {"AGAIN", "PAUSE"} THEN frame' = Idle /\ interest' = Wants(state', flags')
    ELSE frame' = Removing /\ interest' = interest

(***************************************************************************)
(* ESB_SHUTDOWN; ESB_SUCCESS because the flags do not allow the state or   *)
(* because the transaction is over; and the error of a call that finds the *)
(* socket still connecting.                                                *)
(***************************************************************************)
StopAdvancing ==
    /\ Running /\ ~frame.drain
    /\ ~MayAdvance \/ (~frame.fill /\ state \in {"TRANSACTION_END", "CONNECTING"})
    /\ UNCHANGED <<sockVars, dataVars, poolVars, envVars>>
    /\ Leave(IF shutdown THEN "SHUTDOWN" ELSE "SUCCESS")

(***************************************************************************)
(* The room for n tokens after the unread ones, once compacted.            *)
(***************************************************************************)
Fits(n) == Len(recvBuf) + n <= RecvSize

(***************************************************************************)
(* fillReceiveBuffer reads from the socket into the free part of the       *)
(* buffer (compacted if necessary).                                        *)
(***************************************************************************)
FillReceiveBuffer ==
    /\ MayAdvance /\ frame.fill
    /\ \E burst \in Bursts(peer) :
          /\ Fits(Len(burst[1]))
          /\ received + Len(burst[1]) <= MaxInput
          /\ recvBuf' = recvBuf \o burst[1]
          /\ peer' = burst[2]
          /\ received' = received + Len(burst[1])
    /\ frame' = [frame EXCEPT !.fill = FALSE]
    /\ UNCHANGED <<sockVars, sendBuf, avail, request, response, attempt, sentOn, poolVars, shutdown, interest>>

(***************************************************************************)
(* Nothing to read, the origin closed the connection, an error, no memory  *)
(* or a full buffer (the parser is jammed).                                *)
(***************************************************************************)
FillFails(r) ==
    /\ MayAdvance /\ frame.fill
    /\ r = "AGAIN" => Fits(1)
    /\ UNCHANGED <<sockVars, dataVars, poolVars, envVars>>
    /\ Leave(r)

(***************************************************************************)
(* flushSendBuffer: nothing sent, a part sent before the socket's buffer   *)
(* was full, everything sent, an error after any of these, or shutdown()   *)
(* seen on the way.                                                        *)
(***************************************************************************)
FlushOutcomes ==
    IF sendBuf = 0 THEN {[result |-> "OVERFLOW", left |-> 0]}
    ELSE IF shutdown THEN {[result |-> "SHUTDOWN", left |-> n] : n \in 0..sendBuf}
    ELSE {[result |-> "AGAIN", left |-> sendBuf]} \cup
         {[result |-> "ERROR", left |-> n] : n \in 1..sendBuf} \cup
         {[result |-> "SUCCESS", left |-> n] : n \in 0..(sendBuf - 1)}

\* a plausible bug: FIRST_USE_AFTER_REUSE is only cleared where the request ends
FlushSendBuffer_ClearsAtEnd(out) ==
    /\ sendBuf' = out.left
    /\ flags' = IF out.left < sendBuf /\ state = "FLUSHING_BODY"
                THEN flags \ {"FIRST_USE_AFTER_REUSE"} ELSE flags
    /\ sentOn' = IF out.left < sendBuf THEN sentOn \cup {attempt} ELSE sentOn

(***************************************************************************)
(* The effect of flushSendBuffer: the first bytes sent on a pooled         *)
(* connection show that it is not stale.                                   *)
(***************************************************************************)
FlushSendBuffer(out) ==
    /\ sendBuf' = out.left
    /\ flags' = IF out.left < sendBuf THEN flags \ {"FIRST_USE_AFTER_REUSE"} ELSE flags
    /\ sentOn' = IF out.left < sendBuf THEN sentOn \cup {attempt} ELSE sentOn

(***************************************************************************)
(* The flush after a state function returned ESB_AGAIN for lack of room.   *)
(***************************************************************************)
DrainSendBuffer ==
    /\ Running /\ frame.drain
    /\ \E out \in FlushOutcomes :
          /\ FlushSendBuffer(out)
          /\ UNCHANGED <<state, told, outcome, recvBuf, avail, request, response, attempt, poolVars, envVars>>
          /\ IF out.result = "SUCCESS"
             THEN frame' = [frame EXCEPT !.drain = FALSE] /\ interest' = interest
             ELSE Leave(out.result)

(***************************************************************************)
(* The handler's beginTransaction returns r.                               *)
(***************************************************************************)
StateBeginTransaction(r) ==
    /\ Step("TRANSACTION_BEGIN")
    /\ told' = "begun"
    /\ state' = IF r = "SUCCESS" THEN "FORMATTING_HEADERS" ELSE state
    /\ UNCHANGED <<flags, outcome, dataVars, poolVars, envVars>>
    /\ IF r = "SUCCESS" THEN Continue ELSE Leave(r)

(***************************************************************************)
(* stateSendRequestHeaders: as much of the headers as there is room for.   *)
(* A formatter that has finished the headers refuses to format them again. *)
(***************************************************************************)
StateSendRequestHeaders ==
    /\ Step("FORMATTING_HEADERS")
    /\ UNCHANGED <<flags, told, outcome, recvBuf, avail, response, attempt, sentOn, poolVars, envVars>>
    /\ IF request.formatted = HeaderUnits
       THEN UNCHANGED <<state, sendBuf, request>> /\ Leave("INVALID_STATE")
       ELSE LET room == SendSize - sendBuf
                rest == HeaderUnits - request.formatted
                n    == IF rest <= room THEN rest ELSE room
            IN /\ sendBuf' = sendBuf + n
               /\ request' = [request EXCEPT !.formatted = @ + n]
               /\ IF n = rest
                  THEN state' = "FORMATTING_BODY" /\ Continue
                  ELSE state' = state /\ Again

(***************************************************************************)
(* A handler that returns ESB_PAUSE may have paused either direction.      *)
(***************************************************************************)
MayPause(r, paused) == paused # {} => r = "PAUSE"

(***************************************************************************)
(* offerRequestBody of the handler, or of HttpRequestBodyProducer with the *)
(* caller's buffer, offers n units.                                        *)
(***************************************************************************)
Offers(n) ==
    IF frame.handler = "producer" THEN n = frame.left /\ (frame.last <=> n = 0)
    ELSE n = request.left

(***************************************************************************)
(* stateSendRequestBody formats as much of the offer as there is room for  *)
(* (formatStartChunk, produceRequestBody, formatEndChunk).                 *)
(***************************************************************************)
FormatChunk(n) ==
    /\ Step("FORMATTING_BODY") /\ Offers(n) /\ n > 0
    /\ UNCHANGED <<sockVars, recvBuf, avail, response, attempt, sentOn, poolVars, envVars>>
    /\ IF sendBuf = SendSize
       THEN UNCHANGED <<sendBuf, request>> /\ Again
       ELSE \E k \in {IF n <= SendSize - sendBuf THEN n ELSE SendSize - sendBuf} :
               /\ sendBuf' = sendBuf + k
               /\ request' = [request EXCEPT !.left = @ - k]
               /\ frame' = IF frame.handler = "producer"
                           THEN [frame EXCEPT !.left = @ - k] ELSE frame
               /\ interest' = interest

(***************************************************************************)
(* stateSendRequestBody at the end of the body: a chunked body ends with a *)
(* last chunk.                                                             *)
(***************************************************************************)
EndBody ==
    /\ Step("FORMATTING_BODY") /\ Offers(0)
    /\ UNCHANGED <<flags, told, outcome, recvBuf, avail, response, attempt, sentOn, poolVars, envVars>>
    /\ IF request.chunked /\ sendBuf = SendSize
       THEN UNCHANGED <<state, sendBuf, request>> /\ Again
       ELSE /\ sendBuf' = IF request.chunked THEN sendBuf + 1 ELSE sendBuf
            /\ request' = [request EXCEPT !.done = TRUE]
            /\ state' = "FLUSHING_BODY"
            /\ Continue

(***************************************************************************)
(* offerRequestBody offers nothing: ESB_BREAK once the caller's buffer is  *)
(* used up, ESB_PAUSE or an error of the handler.                          *)
(***************************************************************************)
NoOffer(r, paused) ==
    /\ Step("FORMATTING_BODY")
    /\ IF frame.handler = "producer" THEN r = "SUCCESS" /\ frame.left = 0 /\ ~frame.last
       ELSE r \in {"PAUSE", "ERROR"}
    /\ MayPause(r, paused)
    /\ flags' = flags \cup paused
    /\ UNCHANGED <<state, told, outcome, dataVars, poolVars, envVars>>
    /\ Leave(r)

(***************************************************************************)
(* stateFlushRequestBody: a partial flush counts as success; endRequest    *)
(* returns r.  After success the loop goes on with reading the response.   *)
(***************************************************************************)
StateFlushRequestBody(r) ==
    /\ Step("FLUSHING_BODY")
    /\ \E out \in FlushOutcomes :
          /\ FlushSendBuffer(out)
          /\ state' = IF out.result = "SUCCESS" THEN "PARSING_HEADERS" ELSE state
          /\ told' = IF out.result = "SUCCESS" THEN "sent" ELSE told
          /\ UNCHANGED <<outcome, recvBuf, avail, request, response, attempt, poolVars, envVars>>
          /\ CASE out.result # "SUCCESS" -> Leave(out.result)
               [] r = "SUCCESS" -> frame' = [frame EXCEPT !.fill = TRUE] /\ interest' = interest
               [] OTHER -> Leave(r)

-----------------------------------------------------------------------------
(***************************************************************************)
(* stateReceiveResponseHeaders: more bytes are needed, the response cannot *)
(* be parsed, or it is parsed and receiveResponseHeaders returns r.        *)
(***************************************************************************)
NoHeaders ==
    /\ Step("PARSING_HEADERS")
    /\ recvBuf # <<>> => Head(recvBuf) \notin Heads
    /\ UNCHANGED <<sockVars, dataVars, poolVars, envVars>>
    /\ IF recvBuf = <<>> THEN Again ELSE Leave("ERROR")

StateReceiveResponseHeaders(r, paused, close) ==
    /\ Step("PARSING_HEADERS") /\ recvBuf # <<>>
    /\ Head(recvBuf) \in Heads
    /\ MayPause(r, paused)
    /\ response' = [kind |-> Head(recvBuf), left |-> IF Head(recvBuf) = "len" THEN 1 ELSE 0,
                    close |-> close]
    /\ recvBuf' = Tail(recvBuf)
    /\ state' = "PARSING_BODY" /\ told' = "headers"
    /\ flags' = flags \cup paused
    /\ UNCHANGED <<outcome, sendBuf, avail, request, attempt, sentOn, poolVars, envVars>>
    /\ IF r = "SUCCESS" THEN Continue ELSE Leave(r)

(***************************************************************************)
(* currentChunkBytesAvailable: what can be offered to the handler.         *)
(***************************************************************************)
CurrentChunk ==
    IF avail > 0 THEN "piece"
    ELSE IF "LAST_CHUNK_RECEIVED" \in flags \/ response.kind = "empty" THEN "last"
    ELSE IF response.kind = "len" /\ response.left = 0 THEN "last"
    ELSE IF recvBuf = <<>> THEN "AGAIN"
    ELSE IF response.kind = "len" THEN "piece"
    ELSE IF Head(recvBuf) \in {"piece", "last"} THEN Head(recvBuf) ELSE "ERROR"

NeedMoreBody ==
    /\ Step("PARSING_BODY") /\ CurrentChunk \in {"AGAIN", "ERROR"}
    /\ UNCHANGED <<sockVars, dataVars, poolVars, envVars>>
    /\ IF CurrentChunk = "AGAIN" THEN Again ELSE Leave("ERROR")

(***************************************************************************)
(* The last chunk was parsed now, not in an earlier call.                  *)
(***************************************************************************)
ParsesLastChunk == "LAST_CHUNK_RECEIVED" \notin flags /\ response.kind # "empty"

(***************************************************************************)
(* stateReceiveResponseBody at the end of the body: the state changes      *)
(* before the handler, or the adaptor of the caller's buffer, is offered a *)
(* chunk of size 0.  The trailer of a chunked response stays unread.       *)
(***************************************************************************)
OfferLastChunk(r, paused) ==
    /\ Step("PARSING_BODY") /\ CurrentChunk = "last"
    /\ MayPause(r, paused)
    /\ frame.handler = "consumer" => r = "SUCCESS"
    /\ recvBuf' = IF ParsesLastChunk /\ response.kind = "chunked" THEN Tail(recvBuf) ELSE recvBuf
    /\ flags' = (IF ParsesLastChunk THEN flags \cup {"LAST_CHUNK_RECEIVED"} ELSE flags) \cup paused
    /\ state' = "TRANSACTION_END"
    /\ told' = IF frame.handler = "consumer" THEN "read" ELSE "last"
    /\ UNCHANGED <<outcome, sendBuf, avail, request, response, attempt, sentOn, poolVars, envVars>>
    /\ IF r = "SUCCESS" THEN Continue ELSE Leave(r)

\* a plausible bug: _bytesAvailable is not reduced by what was consumed
ConsumePiece_KeepsAvailable(taken) ==
    /\ avail' = 1
    /\ recvBuf' = IF taken THEN Tail(recvBuf) ELSE recvBuf
    /\ response' = [response EXCEPT !.left = IF taken /\ @ > 0 THEN @ - 1 ELSE @]

(***************************************************************************)
(* _bytesAvailable is set when the piece is parsed and reduced when the    *)
(* handler has consumed it.                                                *)
(***************************************************************************)
ConsumePiece(taken) ==
    /\ avail' = IF taken THEN 0 ELSE 1
    /\ recvBuf' = IF taken THEN Tail(recvBuf) ELSE recvBuf
    /\ response' = [response EXCEPT !.left = IF taken /\ @ > 0 THEN @ - 1 ELSE @]

(***************************************************************************)
(* stateReceiveResponseBody offers a piece to the handler, which returns r *)
(* and may have taken it; HttpResponseBodyConsumer fills the caller's      *)
(* buffer, then breaks.                                                    *)
(***************************************************************************)
OfferPieceToHandler(r, taken, paused) ==
    /\ Step("PARSING_BODY") /\ CurrentChunk = "piece" /\ frame.handler # "consumer"
    /\ MayPause(r, paused)
    /\ r = "SUCCESS" => taken
    /\ ConsumePiece(taken)
    /\ flags' = flags \cup paused
    /\ UNCHANGED <<state, told, outcome, sendBuf, request, attempt, sentOn, poolVars, envVars>>
    /\ IF r = "SUCCESS" THEN Continue ELSE Leave(r)

OfferPieceToConsumer ==
    /\ Step("PARSING_BODY") /\ CurrentChunk = "piece" /\ frame.handler = "consumer"
    /\ ConsumePiece(frame.left > 0)
    /\ UNCHANGED <<sockVars, sendBuf, request, attempt, sentOn, poolVars, envVars>>
    /\ IF frame.left > 0
       THEN frame' = [frame EXCEPT !.left = @ - 1] /\ interest' = interest
       ELSE Leave("SUCCESS")

Advance ==
    \/ StopAdvancing \/ FillReceiveBuffer \/ DrainSendBuffer
    \/ \E r \in {"AGAIN", "ERROR"} : FillFails(r)
    \/ \E r \in {"SUCCESS", "PAUSE", "ERROR"} : StateBeginTransaction(r) \/ StateFlushRequestBody(r)
    \/ StateSendRequestHeaders
    \/ \E n \in 1..MaxBody : FormatChunk(n)
    \/ EndBody
    \/ NoHeaders \/ NeedMoreBody
    \/ \E r \in {"SUCCESS", "PAUSE", "ERROR"}, paused \in SUBSET Pauses :
          \/ NoOffer(r, paused)
          \/ \E close \in BOOLEAN : StateReceiveResponseHeaders(r, paused, close)
          \/ OfferLastChunk(r, paused)
          \/ \E taken \in BOOLEAN : OfferPieceToHandler(r, taken, paused)
    \/ OfferPieceToConsumer

-----------------------------------------------------------------------------
(***************************************************************************)
(* The factory: HttpClientSocketFactory::executeClientTransaction.         *)
(***************************************************************************)

(***************************************************************************)
(* create() takes a pooled connection, and the handler's beginTransaction  *)
(* is called at once, or makes a new one that starts to connect; the       *)
(* socket joins the event loop.  before: the last callback so far.         *)
(***************************************************************************)
NewSocket(before) ==
    LET reused == pool # <<>>
        s == IF reused THEN "TRANSACTION_BEGIN" ELSE "CONNECTING"
        f == IF reused THEN {"FIRST_USE_AFTER_REUSE"} ELSE {}
    IN /\ state' = s /\ flags' = f
       /\ interest' = Wants(s, f)
       /\ told' = IF reused THEN "begun" ELSE before
       /\ peer' = IF reused /\ Head(pool) = "trailer" THEN "late" ELSE "due"
       /\ pool' = IF reused THEN Tail(pool) ELSE pool

(***************************************************************************)
(* What a new socket starts with, whatever its predecessor left.           *)
(***************************************************************************)
EmptyBuffers == recvBuf' = <<>> /\ sendBuf' = 0 /\ avail' = 0

Execute ==
    /\ frame = Idle /\ state = "INACTIVE" /\ executed < MaxTransactions
    /\ NewSocket("none")
    /\ executed' = executed + 1
    /\ \E chunked \in BOOLEAN, n \in 0..MaxBody :
          request' = [NoRequest EXCEPT !.chunked = chunked, !.left = n]
    /\ response' = NoResponse /\ outcome' = "running"
    /\ attempt' = 1 /\ sentOn' = {}
    /\ EmptyBuffers
    /\ UNCHANGED <<frame, limbo, shutdown, received>>

(***************************************************************************)
(* executeClientTransaction fails: no memory, no connection, the handler   *)
(* refuses or the event loop does not take the socket.  A connection taken *)
(* from the pool is lost; when it failed after beginTransaction, which a   *)
(* pooled connection gets before it joins the loop, no endTransaction      *)
(* follows.                                                                *)
(***************************************************************************)
ExecuteFails ==
    /\ frame = Idle /\ state = "INACTIVE" /\ executed < MaxTransactions
    /\ executed' = executed + 1
    /\ \/ told' = "none" /\ pool' \in {pool, IF pool = <<>> THEN pool ELSE Tail(pool)}
       \/ told' = "begun" /\ pool # <<>> /\ pool' = Tail(pool)
    /\ outcome' = "REFUSED"
    /\ UNCHANGED <<state, flags, dataVars, limbo, envVars, frame, interest>>

-----------------------------------------------------------------------------
(***************************************************************************)
(* The event loop.                                                         *)
(***************************************************************************)
AtRest == frame = Idle /\ state # "INACTIVE"

(***************************************************************************)
(* handleConnect, then handleWritable.                                     *)
(***************************************************************************)
HandleConnect ==
    /\ AtRest /\ state = "CONNECTING"
    /\ state' = "TRANSACTION_BEGIN"
    /\ frame' = IF WantWrite("TRANSACTION_BEGIN", flags) THEN IoFrame(FALSE) ELSE Removing
    /\ UNCHANGED <<flags, told, outcome, dataVars, poolVars, envVars, interest>>

(***************************************************************************)
(* An event the socket does not want (any more) only renews its interests. *)
(***************************************************************************)
HandleEvent(event, wanted, next) ==
    /\ AtRest /\ state # "CONNECTING" /\ event \in interest
    /\ frame' = IF wanted THEN next ELSE Idle
    /\ interest' = IF wanted THEN interest ELSE Wants(state, flags)
    /\ UNCHANGED <<sockVars, dataVars, poolVars, envVars>>

HandleReadable == HandleEvent("IN", WantRead(state, flags), IoFrame(TRUE))
HandleWritable == HandleEvent("OUT", WantWrite(state, flags), IoFrame(FALSE))

(***************************************************************************)
(* The event loop removes the socket: an error, the origin closed the      *)
(* connection (handleError, handleRemoteClose, handleIdle), or it ends.    *)
(***************************************************************************)
RemoveSocket ==
    /\ AtRest
    /\ frame' = Removing
    /\ UNCHANGED <<sockVars, dataVars, poolVars, envVars, interest>>

(***************************************************************************)
(* abort() by the callback of another socket removes the socket at once.   *)
(***************************************************************************)
Abort ==
    /\ AtRest
    /\ flags' = flags \cup {"ABORTED"}
    /\ frame' = Removing
    /\ UNCHANGED <<state, told, outcome, dataVars, poolVars, envVars, interest>>

(***************************************************************************)
(* handleRemove on a pooled connection that nothing was sent on: it is     *)
(* closed and the transaction executed again as it stands.                 *)
(***************************************************************************)
Retries == "FIRST_USE_AFTER_REUSE" \in flags /\ "ABORTED" \notin flags

Retry ==
    /\ frame.by = "remove" /\ Retries
    /\ NewSocket(told)
    /\ attempt' = attempt + 1
    /\ EmptyBuffers
    /\ frame' = Idle
    /\ UNCHANGED <<outcome, request, response, sentOn, limbo, executed, received, shutdown>>

(***************************************************************************)
(* endTransaction was called; the socket is INACTIVE and its transaction   *)
(* destroyed.                                                              *)
(***************************************************************************)
Inactive ==
    /\ state' = "INACTIVE" /\ frame' = Idle /\ interest' = {}
    /\ request' = NoRequest /\ response' = NoResponse
    /\ EmptyBuffers
    /\ told' = "over"
    /\ UNCHANGED <<flags, attempt, sentOn, executed, received, shutdown>>

RetryFails ==
    /\ frame.by = "remove" /\ Retries
    /\ outcome' = "FAILED"
    /\ Inactive
    /\ pool' \in {pool, IF pool = <<>> THEN pool ELSE Tail(pool)}
    /\ UNCHANGED <<limbo, peer>>

(***************************************************************************)
(* The connection can carry another transaction.                           *)
(***************************************************************************)
Reusable == state = "TRANSACTION_END" /\ "ABORTED" \notin flags /\ ~response.close

\* a plausible bug: the case of PARSING_BODY falls through
EndState_FallsThrough == IF state \in {"PARSING_BODY", "TRANSACTION_END"} THEN "END" ELSE "FAILED"

(***************************************************************************)
(* The state endTransaction is called with: success or a kind of failure.  *)
(***************************************************************************)
EndState == IF state = "TRANSACTION_END" THEN "END" ELSE "FAILED"

(***************************************************************************)
(* handleRemove otherwise: endTransaction with the state the transaction   *)
(* ended in.  Unread bytes of the receive buffer are gone, those the       *)
(* socket holds stay with the connection.                                  *)
(***************************************************************************)
HandleRemove ==
    /\ frame.by = "remove" /\ ~Retries
    /\ outcome' = EndState
    /\ Inactive
    /\ limbo' = IF Reusable THEN Append(limbo, peer) ELSE limbo
    /\ peer' = "quiet"
    /\ UNCHANGED pool

(***************************************************************************)
(* The cleanup handler after the events of a round: release() of the       *)
(* factory and of the pool, which looks at a bucket's first element first. *)
(***************************************************************************)
Release ==
    /\ frame = Idle /\ limbo # <<>>
    /\ pool' = <<Head(limbo)>> \o pool
    /\ limbo' = Tail(limbo)
    /\ UNCHANGED <<sockVars, dataVars, executed, envVars, frame, interest>>

-----------------------------------------------------------------------------
(***************************************************************************)
(* The callbacks of other sockets.                                         *)
(***************************************************************************)

(***************************************************************************)
(* sendRequestBody with the next n units, or with none after the last.     *)
(***************************************************************************)
SendRequestBody(n) ==
    /\ AtRest /\ state = "FORMATTING_BODY"
    /\ n <= request.left /\ (n = 0 => request.left = 0)
    /\ frame' = CallFrame("producer", n, n = 0, {"send"})
    /\ UNCHANGED <<sockVars, dataVars, poolVars, envVars, interest>>

(***************************************************************************)
(* responseBodyAvailable (n = 0) and readResponseBody.                     *)
(***************************************************************************)
ReadResponseBody(n) ==
    /\ AtRest /\ told # "none"
    /\ frame' = CallFrame("consumer", n, FALSE, {"recv"})
    /\ UNCHANGED <<sockVars, dataVars, poolVars, envVars, interest>>

(***************************************************************************)
(* pauseRecv, resumeRecv, pauseSend and resumeSend; they return early when *)
(* nothing changes.                                                        *)
(***************************************************************************)
PauseOrResume(newFlags, update) ==
    /\ AtRest /\ told # "none"
    /\ flags' = newFlags /\ flags' # flags
    /\ interest' = IF update THEN Wants(state, newFlags) ELSE interest
    /\ UNCHANGED <<state, told, outcome, dataVars, poolVars, envVars, frame>>

(***************************************************************************)
(* Another thread stops the multiplexer.                                   *)
(***************************************************************************)
Shutdown ==
    /\ ~shutdown
    /\ shutdown' = TRUE
    /\ UNCHANGED <<sockVars, dataVars, poolVars, peer, received, frame, interest>>

Call ==
    \/ \E n \in 0..MaxBody : SendRequestBody(n)
    \/ \E n \in 0..1 : ReadResponseBody(n)
    \/ \E p \in Pauses, update \in BOOLEAN :
          PauseOrResume(flags \cup {p}, update) \/ PauseOrResume(flags \ {p}, update)
    \/ Abort

Next ==
    \/ Advance
    \/ HandleConnect \/ HandleReadable \/ HandleWritable \/ RemoveSocket
    \/ HandleRemove \/ RetryFails \/ ExecuteFails \/ Release
    \/ Execute \/ Retry
    \/ Call \/ Shutdown

Spec == Init /\ [][Next]_vars

-----------------------------------------------------------------------------
(***************************************************************************)
(* Properties                                                              *)
(***************************************************************************)

(***************************************************************************)
(* Types of the variables; in particular neither buffer ever holds more    *)
(* than its capacity, whatever fill, format and flush leave in it.         *)
(***************************************************************************)
TypeOK ==
    /\ state \in States /\ flags \subseteq Flags
    /\ recvBuf \in Seq(Tokens) /\ Len(recvBuf) <= RecvSize
    /\ sendBuf \in 0..SendSize /\ avail \in 0..1
    /\ request \in Requests /\ response \in Responses
    /\ frame \in Frames /\ interest \subseteq {"IN", "OUT"}
    /\ shutdown \in BOOLEAN /\ told \in Callbacks
    /\ attempt \in Nat /\ sentOn \subseteq 1..attempt
    /\ executed \in 0..MaxTransactions /\ received \in 0..MaxInput
    /\ peer \in {"due", "late", "quiet", "len", "chunked", "trailer", "done"}

(***************************************************************************)
(* A request is sent at most once: however many stale connections of the   *)
(* pool a transaction goes through (the retry in handleRemove), bytes of   *)
(* it leave on one connection only, so a request that is not idempotent is *)
(* never repeated.                                                         *)
(***************************************************************************)
SentAtMostOnce == \A i, j \in sentOn : i = j

(***************************************************************************)
(* A connection goes to the pool only between two messages: what it still  *)
(* has to deliver is at most the end of the trailer that the client does   *)
(* not read, never the rest of a body.                                     *)
(***************************************************************************)
PooledBetweenMessages ==
    \A c \in {pool[i] : i \in DOMAIN pool} \cup {limbo[i] : i \in DOMAIN limbo} :
        c \in {"quiet", "trailer"}

(***************************************************************************)
(* _bytesAvailable never promises more than the receive buffer holds at    *)
(* its read position, whatever mixture of callbacks and calls consumed the *)
(* body; stateReceiveResponseBody hands out that many bytes unchecked.     *)
(***************************************************************************)
AvailableIsBuffered ==
    avail > 0 /\ state = "PARSING_BODY" => recvBuf # <<>> /\ Head(recvBuf) = "piece"

(***************************************************************************)
(* The callbacks the handler got in every transaction come in the order,   *)
(* and as often, as HttpClientContract says: also when the transaction is  *)
(* moved from one stale connection to the next, when a caller reads the    *)
(* body instead of the handler, when the factory gives up half way and     *)
(* when the multiplexer shuts down.                                        *)
(***************************************************************************)
Contract == INSTANCE HttpClientContract WITH phase <- told, outcome <- outcome

KeepsContract == Contract!Spec

\* The connection's own books agree, and what it gives back to the pool is
\* between two messages.  (stateReceiveResponseBody, readResponseBody,
\* handleRemove and HttpClientSocketFactory::release)
BooksAgree == TypeOK /\ AvailableIsBuffered /\ PooledBetweenMessages
=============================================================================

-------------------------- MODULE HttpServerSocket --------------------------
(***************************************************************************)
(* One server connection of data-plane/http1/source/ESHttpServerSocket.cpp:*)
(* a state machine that is advanced by the I/O callbacks of the event loop *)
(* and by calls that the callbacks of other sockets make (a proxy's client *)
(* connection reads the request body and sends the response).  Everything  *)
(* runs in the event loop's thread; only shutdown() is set by another one. *)
(*                                                                         *)
(* The handler (HttpServerHandler) and the callers are the environment.    *)
(* Bytes are counted in units: a request arrives as tokens, one for the    *)
(* header, one per body piece, one for the last chunk and one for the end  *)
(* of the trailer; the response headers, each unit of its body and the     *)
(* last chunk take one unit of the send buffer each.  Connections are      *)
(* clear text, so ConnectedSocket::wantRead and wantWrite are FALSE.       *)
(***************************************************************************)
EXTENDS Integers, Sequences

CONSTANTS RecvSize,   \* capacity of _recvBuffer in tokens
          SendSize,   \* capacity of _sendBuffer in units
          MaxBody,    \* bound: units of a response body
          MaxInput    \* bound: tokens the client sends

ASSUME BoundsAssumption ==
    /\ RecvSize \in Nat \ {0} /\ SendSize \in Nat \ {0}
    /\ MaxBody \in Nat /\ MaxInput \in Nat

VARIABLES
    state,       \* _state & SERVER_STATE_MASK
    flags,       \* _state & SERVER_FLAG_MASK
    recvBuf,     \* the unread part of _recvBuffer
    sendBuf,     \* units of _sendBuffer not yet sent
    avail,       \* _bytesAvailable
    request,     \* the parsed request
    response,    \* the response of the transaction
    frame,       \* the running call of advanceStateMachine
    interest,    \* the readiness the event loop watches for
    shutdown,    \* HttpMultiplexer::shutdown()
    open,        \* beginTransaction was called, endTransaction was not
    lastOffers,  \* last chunks offered in this transaction
    peer,        \* what the client is in the middle of sending
    received     \* tokens received so far

connVars == <<state, flags, open, lastOffers>>
dataVars == <<recvBuf, sendBuf, avail, request, response>>
envVars  == <<peer, received, shutdown>>
vars == <<connVars, dataVars, envVars, frame, interest>>

RecvStates == {"PARSING_HEADERS", "PARSING_BODY", "SKIPPING_TRAILER"}
SendStates == {"FORMATTING_HEADERS", "FORMATTING_BODY", "FLUSHING_BODY"}
States == RecvStates \cup SendStates \cup {"TRANSACTION_BEGIN", "TRANSACTION_END", "INACTIVE"}
Pauses == {"RECV_PAUSED", "SEND_PAUSED"}
Flags  == Pauses \cup {"CANNOT_REUSE", "ABORTED", "LAST_CHUNK"}

Tokens   == {"get", "put", "post", "piece", "last", "end", "bad"}
Requests == [kind : {"none", "get", "put", "post"}, left : 0..1, reuse : BOOLEAN]
NoRequest == [kind |-> "none", left |-> 0, reuse |-> FALSE]

(***************************************************************************)
(* error: 300 <= statusCode().  left: body units the producer still has.   *)
(***************************************************************************)
Responses  == [set : {TRUE}, error : BOOLEAN, chunked : BOOLEAN, left : 0..MaxBody]
NoResponse == [set |-> FALSE, error |-> FALSE, chunked |-> FALSE, left |-> 0]

(***************************************************************************)
(* setResponse(400, ...) after a request that cannot be parsed.            *)
(***************************************************************************)
SetResponse == [set |-> TRUE, error |-> TRUE, chunked |-> FALSE, left |-> 0]

(***************************************************************************)
(* by: "io", "call", "remove" (the event loop removes the socket next) or  *)
(* "none".  handler: the application's, or the adaptor that stands for a   *)
(* buffer of the caller, with `left' units of it and `last' for an empty   *)
(* one.  The flags of advanceStateMachine.                                 *)
(***************************************************************************)
Frames == [by : {"none", "io", "call", "remove"}, handler : {"handler", "producer", "consumer"},
           left : 0..MaxBody \cup {1}, last : BOOLEAN, advance : SUBSET {"recv", "send"},
           fill : BOOLEAN, drain : BOOLEAN]
Idle == [by |-> "none", handler |-> "handler", left |-> 0, last |-> FALSE, advance |-> {},
         fill |-> FALSE, drain |-> FALSE]
Removing == [Idle EXCEPT !.by = "remove"]
Running  == frame.by \in {"io", "call"}

WantRead(s, f) ==
    /\ f \cap {"RECV_PAUSED", "ABORTED"} = {}
    /\ s \in RecvStates \cup {"TRANSACTION_BEGIN"}

WantWrite(s, f) ==
    /\ f \cap {"SEND_PAUSED", "ABORTED"} = {}
    /\ s \in SendStates

Wants(s, f) == {i \in {"IN", "OUT"} : \/ i = "IN" /\ WantRead(s, f)
                                      \/ i = "OUT" /\ WantWrite(s, f)}

Init ==
    /\ state = "TRANSACTION_BEGIN" /\ flags = {} /\ open = FALSE /\ lastOffers = 0
    /\ recvBuf = <<>> /\ sendBuf = 0 /\ avail = 0
    /\ request = NoRequest /\ response = NoResponse
    /\ frame = Idle /\ interest = {"IN"} /\ shutdown = FALSE
    /\ peer = "idle" /\ received = 0

-----------------------------------------------------------------------------
(***************************************************************************)
(* The client: requests without a body, with a Content-Length of one piece *)
(* or chunked, sent one after the other without waiting for responses;     *)
(* "bad" is anything the parser refuses, nothing sensible follows it.      *)
(***************************************************************************)
NextTokens(p) ==
    CASE p = "idle"    -> {<<"get", "idle">>, <<"put", "put">>, <<"post", "post">>, <<"bad", "done">>}
      [] p = "put"     -> {<<"piece", "idle">>}
      [] p = "post"    -> {<<"piece", "post">>, <<"last", "trailer">>, <<"bad", "done">>}
      [] p = "trailer" -> {<<"end", "idle">>}
      [] OTHER         -> {}

(***************************************************************************)
(* What one call of receive may return, and what the client does next.     *)
(***************************************************************************)
Bursts(p) ==
    {<< <<a[1]>>, a[2]>> : a \in NextTokens(p)} \cup
    UNION {{<< <<a[1], b[1]>>, b[2]>> : b \in NextTokens(a[2])} : a \in NextTokens(p)}

-----------------------------------------------------------------------------
(***************************************************************************)
(* advanceStateMachine                                                     *)
(***************************************************************************)

(***************************************************************************)
(* The tests at the top of the loop allow a step in state s.               *)
(***************************************************************************)
MayAdvance ==
    /\ Running /\ ~frame.drain /\ ~shutdown
    /\ state \in RecvStates => "recv" \in frame.advance
    /\ state \in SendStates => "send" \in frame.advance

Step(s) == MayAdvance /\ state = s /\ ~frame.fill

(***************************************************************************)
(* ESB_SUCCESS and ESB_AGAIN of a state function: the loop goes on.        *)
(***************************************************************************)
Continue == frame' = frame /\ interest' = interest
Again == /\ frame' = [frame EXCEPT !.fill = state \in RecvStates, !.drain = state \in SendStates]
         /\ interest' = interest

(***************************************************************************)
(* advanceStateMachine returns r.  The event loop keeps a socket whose     *)
(* callback returns ESB_AGAIN or ESB_PAUSE, with the interests of its new  *)
(* state, and removes it otherwise; a caller just gets the result.         *)
(***************************************************************************)
Leave(r) ==
    IF frame.by = "call" THEN frame' = Idle /\ interest' = interest
    ELSE IF r \in {"AGAIN", "PAUSE"} THEN frame' = Idle /\ interest' = Wants(state', flags')
    ELSE frame' = Removing /\ interest' = interest

(***************************************************************************)
(* ESB_SHUTDOWN, or ESB_SUCCESS because the flags do not allow the state.  *)
(***************************************************************************)
StopAdvancing ==
    /\ Running /\ ~frame.drain /\ ~MayAdvance
    /\ UNCHANGED <<connVars, dataVars, envVars>>
    /\ Leave(IF shutdown THEN "SHUTDOWN" ELSE "SUCCESS")

(***************************************************************************)
(* fillReceiveBuffer reads from the socket into the free part of the       *)
(* buffer (compacted if necessary).                                        *)
(***************************************************************************)
FillReceiveBuffer ==
    /\ MayAdvance /\ frame.fill
    /\ \E burst \in Bursts(peer) :
          /\ Len(recvBuf) + Len(burst[1]) <= RecvSize
          /\ received + Len(burst[1]) <= MaxInput
          /\ recvBuf' = recvBuf \o burst[1]
          /\ peer' = burst[2]
          /\ received' = received + Len(burst[1])
    /\ frame' = [frame EXCEPT !.fill = FALSE]
    /\ UNCHANGED <<connVars, sendBuf, avail, request, response, interest, shutdown>>

(***************************************************************************)
(* Nothing to read, the client closed the connection, an error, no memory  *)
(* or a full buffer (the parser is jammed).                                *)
(***************************************************************************)
FillFails(r) ==
    /\ MayAdvance /\ frame.fill
    /\ r = "AGAIN" => Len(recvBuf) < RecvSize
    /\ UNCHANGED <<connVars, dataVars, envVars>>
    /\ Leave(r)

(***************************************************************************)
(* flushSendBuffer: nothing sent, a part sent before the socket's buffer   *)
(* was full, everything sent, an error, or shutdown() seen on the way.     *)
(***************************************************************************)
FlushSendBuffer ==
    IF sendBuf = 0 THEN {[result |-> "OVERFLOW", left |-> 0]}
    ELSE IF shutdown THEN {[result |-> "SHUTDOWN", left |-> n] : n \in 0..sendBuf}
    ELSE {[result |-> r, left |-> sendBuf] : r \in {"AGAIN", "ERROR"}} \cup
         {[result |-> "SUCCESS", left |-> n] : n \in 0..(sendBuf - 1)}

\* a plausible bug: drainSendBuffer is not reset
DrainSendBuffer_KeepsDraining ==
    /\ Running /\ frame.drain
    /\ \E out \in FlushSendBuffer :
          /\ sendBuf' = out.left
          /\ UNCHANGED <<connVars, recvBuf, avail, request, response, envVars>>
          /\ IF out.result = "SUCCESS" THEN Continue ELSE Leave(out.result)

(***************************************************************************)
(* The flush after a state function returned ESB_AGAIN for lack of room.   *)
(***************************************************************************)
DrainSendBuffer ==
    /\ Running /\ frame.drain
    /\ \E out \in FlushSendBuffer :
          /\ sendBuf' = out.left
          /\ UNCHANGED <<connVars, recvBuf, avail, request, response, envVars>>
          /\ IF out.result = "SUCCESS"
             THEN frame' = [frame EXCEPT !.drain = FALSE] /\ interest' = interest
             ELSE Leave(out.result)

(***************************************************************************)
(* The handler's beginTransaction returns r.                               *)
(***************************************************************************)
StateBeginTransaction(r) ==
    /\ Step("TRANSACTION_BEGIN")
    /\ open' = TRUE
    /\ flags' = flags \cup {"CANNOT_REUSE"}
    /\ UNCHANGED <<lastOffers, dataVars, envVars>>
    /\ CASE r = "SUCCESS"       -> state' = "PARSING_HEADERS" /\ Continue
         [] r = "SEND_RESPONSE" -> state' = "FORMATTING_HEADERS" /\ Continue
         [] OTHER               -> state' = state /\ Leave(r)

(***************************************************************************)
(* A handler that returns ESB_PAUSE may have paused either direction.      *)
(***************************************************************************)
MayPause(r, paused) == paused # {} => r = "PAUSE"

(***************************************************************************)
(* stateReceiveRequestHeaders: more bytes are needed, the request is bad   *)
(* (answered with 400), or it is parsed and the handler returns r.         *)
(***************************************************************************)
NeedMoreHeaders ==
    /\ Step("PARSING_HEADERS") /\ recvBuf = <<>>
    /\ UNCHANGED <<connVars, dataVars, envVars>>
    /\ Again

BadRequest ==
    /\ Step("PARSING_HEADERS") /\ recvBuf # <<>>
    /\ Head(recvBuf) \notin {"get", "put", "post"}
    /\ response' = SetResponse
    /\ state' = "FORMATTING_HEADERS"
    /\ UNCHANGED <<flags, open, lastOffers, recvBuf, sendBuf, avail, request, envVars>>
    /\ Continue

StateReceiveRequestHeaders(r, paused, reuse) ==
    /\ Step("PARSING_HEADERS") /\ recvBuf # <<>>
    /\ Head(recvBuf) \in {"get", "put", "post"}
    /\ MayPause(r, paused)
    /\ request' = [kind |-> Head(recvBuf), left |-> IF Head(recvBuf) = "put" THEN 1 ELSE 0,
                   reuse |-> reuse]
    /\ recvBuf' = Tail(recvBuf)
    /\ state' = IF r = "SEND_RESPONSE" THEN "FORMATTING_HEADERS" ELSE "PARSING_BODY"
    /\ flags' = flags \cup paused
    /\ UNCHANGED <<open, lastOffers, sendBuf, avail, response, envVars>>
    /\ IF r \in {"SUCCESS", "SEND_RESPONSE"} THEN Continue ELSE Leave(r)

-----------------------------------------------------------------------------
(***************************************************************************)
(* currentChunkBytesAvailable: what can be offered to the handler.         *)
(***************************************************************************)
CurrentChunk ==
    IF avail > 0 THEN "piece"
    ELSE IF "LAST_CHUNK" \in flags \/ request.kind = "get" THEN "last"
    ELSE IF request.kind = "put" /\ request.left = 0 THEN "last"
    ELSE IF recvBuf = <<>> THEN "AGAIN"
    ELSE IF request.kind = "put" THEN "piece"
    ELSE IF Head(recvBuf) \in {"piece", "last"} THEN Head(recvBuf) ELSE "ERROR"

NeedMoreBody ==
    /\ Step("PARSING_BODY") /\ CurrentChunk \in {"AGAIN", "ERROR"}
    /\ UNCHANGED <<connVars, dataVars, envVars>>
    /\ IF CurrentChunk = "AGAIN" THEN Again ELSE Leave("ERROR")

(***************************************************************************)
(* The last chunk was parsed now, not in an earlier call.                  *)
(***************************************************************************)
ParsesLastChunk == "LAST_CHUNK" \notin flags /\ request.kind # "get"

(***************************************************************************)
(* stateReceiveRequestBody at the end of the body: the handler, or the     *)
(* adaptor of the caller's buffer, is offered a chunk of size 0 once.      *)
(***************************************************************************)
OfferLastChunk(r, paused) ==
    /\ Step("PARSING_BODY") /\ CurrentChunk = "last"
    /\ MayPause(r, paused)
    /\ frame.handler = "consumer" => r = "SUCCESS"
    /\ recvBuf' = IF ParsesLastChunk /\ request.kind = "post" THEN Tail(recvBuf) ELSE recvBuf
    /\ flags' = (IF ParsesLastChunk THEN flags \cup {"LAST_CHUNK"} ELSE flags) \cup paused
    /\ state' = "SKIPPING_TRAILER"
    /\ lastOffers' = lastOffers + 1
    /\ UNCHANGED <<open, sendBuf, avail, request, response, envVars>>
    /\ IF r = "SUCCESS" THEN Continue ELSE Leave(r)

(***************************************************************************)
(* _bytesAvailable is set when the piece is parsed and reduced when the    *)
(* handler has consumed it.                                                *)
(***************************************************************************)
ConsumePiece(taken) ==
    /\ avail' = IF taken THEN 0 ELSE 1
    /\ recvBuf' = IF taken THEN Tail(recvBuf) ELSE recvBuf
    /\ request' = [request EXCEPT !.left = IF taken /\ @ > 0 THEN @ - 1 ELSE @]

(***************************************************************************)
(* stateReceiveRequestBody offers a piece to the handler, which returns r  *)
(* and may have taken it.                                                  *)
(***************************************************************************)
OfferPieceToHandler(r, taken, paused) ==
    /\ Step("PARSING_BODY") /\ CurrentChunk = "piece" /\ frame.handler = "handler"
    /\ MayPause(r, paused)
    /\ r = "SUCCESS" => taken
    /\ ConsumePiece(taken)
    /\ state' = IF r = "SEND_RESPONSE" THEN "FORMATTING_HEADERS" ELSE state
    /\ flags' = flags \cup paused
    /\ UNCHANGED <<open, lastOffers, sendBuf, response, envVars>>
    /\ IF r \in {"SUCCESS", "SEND_RESPONSE"} THEN Continue ELSE Leave(r)

(***************************************************************************)
(* HttpRequestBodyConsumer fills the caller's buffer, then breaks.         *)
(***************************************************************************)
OfferPieceToConsumer ==
    /\ Step("PARSING_BODY") /\ CurrentChunk = "piece" /\ frame.handler = "consumer"
    /\ ConsumePiece(frame.left > 0)
    /\ UNCHANGED <<connVars, sendBuf, response, envVars>>
    /\ IF frame.left > 0
       THEN frame' = [frame EXCEPT !.left = @ - 1] /\ interest' = interest
       ELSE Leave("SUCCESS")

(***************************************************************************)
(* stateSkipTrailer: the parser waits for the end of a chunked request.    *)
(***************************************************************************)
StateSkipTrailer ==
    /\ Step("SKIPPING_TRAILER")
    /\ UNCHANGED <<open, lastOffers, sendBuf, avail, request, response, envVars>>
    /\ IF request.kind = "post" /\ recvBuf = <<>>
       THEN UNCHANGED <<state, flags, recvBuf>> /\ Again
       ELSE /\ recvBuf' = IF request.kind = "post" THEN Tail(recvBuf) ELSE recvBuf
            /\ flags' = flags \ {"CANNOT_REUSE"}
            /\ state' = "FORMATTING_HEADERS"
            /\ Continue

-----------------------------------------------------------------------------
(***************************************************************************)
(* stateSendResponseHeaders: the headers are formatted when there is room. *)
(* The response is the one that was set before, or the handler's.          *)
(***************************************************************************)
StateSendResponseHeaders ==
    /\ Step("FORMATTING_HEADERS")
    /\ UNCHANGED <<flags, open, lastOffers, recvBuf, avail, request, envVars>>
    /\ IF sendBuf < SendSize
       THEN /\ sendBuf' = sendBuf + 1
            /\ response' \in IF response.set THEN {response} ELSE Responses
            /\ state' = "FORMATTING_BODY"
            /\ Continue
       ELSE UNCHANGED <<state, sendBuf, response>> /\ Again

(***************************************************************************)
(* offerResponseBody of the handler, or of the adaptor with the caller's   *)
(* buffer, offers `n' units.                                               *)
(***************************************************************************)
Offers(n) ==
    IF frame.handler = "producer" THEN n = frame.left /\ (frame.last <=> n = 0)
    ELSE n = response.left

(***************************************************************************)
(* stateSendResponseBody formats as much of the offer as there is room for.*)
(***************************************************************************)
FormatChunk(n) ==
    /\ Step("FORMATTING_BODY") /\ Offers(n) /\ n > 0
    /\ UNCHANGED <<connVars, recvBuf, avail, request, envVars>>
    /\ IF sendBuf = SendSize
       THEN UNCHANGED <<sendBuf, response>> /\ Again
       ELSE \E k \in {IF n <= SendSize - sendBuf THEN n ELSE SendSize - sendBuf} :
               /\ sendBuf' = sendBuf + k
               /\ response' = [response EXCEPT !.left = @ - k]
               /\ frame' = IF frame.handler = "producer"
                           THEN [frame EXCEPT !.left = @ - k] ELSE frame
               /\ interest' = interest

(***************************************************************************)
(* endBody: a chunked body ends with a last chunk.                         *)
(***************************************************************************)
EndBody ==
    /\ Step("FORMATTING_BODY") /\ Offers(0)
    /\ UNCHANGED <<flags, open, lastOffers, recvBuf, avail, request, response, envVars>>
    /\ IF response.chunked /\ sendBuf = SendSize
       THEN UNCHANGED <<state, sendBuf>> /\ Again
       ELSE /\ sendBuf' = IF response.chunked THEN sendBuf + 1 ELSE sendBuf
            /\ state' = "FLUSHING_BODY"
            /\ Continue

(***************************************************************************)
(* offerResponseBody returns no offer: ESB_BREAK once the caller's buffer  *)
(* is used up, ESB_PAUSE or an error of the handler.                       *)
(***************************************************************************)
NoOffer(r, paused) ==
    /\ Step("FORMATTING_BODY")
    /\ IF frame.handler = "producer" THEN r = "SUCCESS" /\ frame.left = 0 /\ ~frame.last
       ELSE r \in {"PAUSE", "ERROR"}
    /\ MayPause(r, paused)
    /\ flags' = flags \cup paused
    /\ UNCHANGED <<state, open, lastOffers, dataVars, envVars>>
    /\ Leave(r)

(***************************************************************************)
(* stateFlushResponseBody: a partial flush counts as success.              *)
(***************************************************************************)
StateFlushResponseBody ==
    /\ Step("FLUSHING_BODY")
    /\ \E out \in FlushSendBuffer :
          /\ sendBuf' = out.left
          /\ state' = IF out.result = "SUCCESS" THEN "TRANSACTION_END" ELSE state
          /\ UNCHANGED <<flags, open, lastOffers, recvBuf, avail, request, response, envVars>>
          /\ IF out.result = "SUCCESS" THEN Continue ELSE Leave(out.result)

\* a plausible bug: SERVER_CANNOT_REUSE_CONNECTION is not looked at
StateEndTransaction_IgnoresFlag ==
    /\ Step("TRANSACTION_END")
    /\ open' = FALSE
    /\ IF response.error \/ ~request.reuse
       THEN /\ UNCHANGED <<state, flags, lastOffers, dataVars, envVars>>
            /\ Leave("CLEANUP")
       ELSE /\ state' = "TRANSACTION_BEGIN" /\ flags' = {}
            /\ lastOffers' = 0
            /\ request' = NoRequest /\ response' = NoResponse
            /\ UNCHANGED <<recvBuf, sendBuf, avail, envVars>>
            /\ Continue

(***************************************************************************)
(* stateEndTransaction: the connection is reused only after the whole      *)
(* request was read, a response that is no error, and if the client agrees.*)
(***************************************************************************)
StateEndTransaction ==
    /\ Step("TRANSACTION_END")
    /\ open' = FALSE
    /\ IF "CANNOT_REUSE" \in flags \/ response.error \/ ~request.reuse
       THEN /\ UNCHANGED <<state, flags, lastOffers, dataVars, envVars>>
            /\ Leave("CLEANUP")
       ELSE /\ state' = "TRANSACTION_BEGIN" /\ flags' = {}
            /\ lastOffers' = 0
            /\ request' = NoRequest /\ response' = NoResponse
            /\ UNCHANGED <<recvBuf, sendBuf, avail, envVars>>
            /\ Continue

Advance ==
    \/ StopAdvancing
    \/ FillReceiveBuffer
    \/ \E r \in {"AGAIN", "ERROR"} : FillFails(r)
    \/ DrainSendBuffer
    \/ \E r \in {"SUCCESS", "SEND_RESPONSE", "PAUSE", "ERROR"} : StateBeginTransaction(r)
    \/ NeedMoreHeaders \/ BadRequest \/ NeedMoreBody
    \/ \E r \in {"SUCCESS", "SEND_RESPONSE", "PAUSE", "ERROR"}, paused \in SUBSET Pauses :
          \/ \E reuse \in BOOLEAN : StateReceiveRequestHeaders(r, paused, reuse)
          \/ \E taken \in BOOLEAN : OfferPieceToHandler(r, taken, paused)
    \/ \E r \in {"SUCCESS", "PAUSE", "ERROR"}, paused \in SUBSET Pauses :
          OfferLastChunk(r, paused) \/ NoOffer(r, paused)
    \/ OfferPieceToConsumer
    \/ StateSkipTrailer
    \/ StateSendResponseHeaders
    \/ \E n \in 1..MaxBody : FormatChunk(n)
    \/ EndBody
    \/ StateFlushResponseBody
    \/ StateEndTransaction

-----------------------------------------------------------------------------
(***************************************************************************)
(* The event loop and the callers.                                         *)
(***************************************************************************)

AtRest == frame = Idle /\ state # "INACTIVE"

IoFrame(fill) == [Idle EXCEPT !.by = "io", !.advance = {"recv", "send"}, !.fill = fill]

(***************************************************************************)
(* An event the socket does not want (any more) only renews its interests. *)
(***************************************************************************)
HandleEvent(event, wanted, next) ==
    /\ AtRest /\ event \in interest
    /\ frame' = IF wanted THEN next ELSE Idle
    /\ interest' = IF wanted THEN interest ELSE Wants(state, flags)
    /\ UNCHANGED <<connVars, dataVars, envVars>>

HandleReadable == HandleEvent("IN", WantRead(state, flags), IoFrame(TRUE))
HandleWritable == HandleEvent("OUT", WantWrite(state, flags), IoFrame(FALSE))

(***************************************************************************)
(* The event loop removes the socket: an error, the client closed the      *)
(* connection, the connection is idle, or the loop ends.                   *)
(***************************************************************************)
RemoveSocket ==
    /\ AtRest
    /\ frame' = Removing
    /\ UNCHANGED <<connVars, dataVars, envVars, interest>>

(***************************************************************************)
(* abort() by the callback of another socket removes the socket at once.   *)
(***************************************************************************)
Abort ==
    /\ AtRest /\ open
    /\ flags' = flags \cup {"ABORTED"}
    /\ frame' = Removing
    /\ UNCHANGED <<state, open, lastOffers, dataVars, envVars, interest>>

\* a plausible bug: SERVER_FLUSHING_BODY has no case
HandleRemove_ForgetsFlush ==
    /\ frame.by = "remove"
    /\ open' = (open /\ state \in {"TRANSACTION_END", "FLUSHING_BODY"})
    /\ state' = "INACTIVE"
    /\ frame' = Idle /\ interest' = {}
    /\ recvBuf' = <<>> /\ sendBuf' = 0
    /\ request' = NoRequest /\ response' = NoResponse
    /\ UNCHANGED <<flags, lastOffers, avail, envVars>>

(***************************************************************************)
(* handleRemove calls endTransaction in every state but the last one,      *)
(* which stateEndTransaction is responsible for.                           *)
(***************************************************************************)
HandleRemove ==
    /\ frame.by = "remove"
    /\ open' = (open /\ state = "TRANSACTION_END")
    /\ state' = "INACTIVE"
    /\ frame' = Idle /\ interest' = {}
    /\ recvBuf' = <<>> /\ sendBuf' = 0
    /\ request' = NoRequest /\ response' = NoResponse
    /\ UNCHANGED <<flags, lastOffers, avail, envVars>>

CallFrame(handler, n, last, advance) ==
    [Idle EXCEPT !.by = "call", !.handler = handler, !.left = n, !.last = last,
                 !.advance = advance]

(***************************************************************************)
(* sendResponse and sendEmptyResponse.                                     *)
(***************************************************************************)
SendResponse ==
    /\ AtRest /\ open /\ ~response.set
    /\ response' \in Responses
    /\ frame' = CallFrame("handler", 0, FALSE, {"send"})
    /\ UNCHANGED <<connVars, recvBuf, sendBuf, avail, request, envVars, interest>>

(***************************************************************************)
(* sendResponseBody with the next n units, or with none after the last.    *)
(***************************************************************************)
SendResponseBody(n) ==
    /\ AtRest /\ open /\ state = "FORMATTING_BODY"
    /\ n <= response.left /\ (n = 0 => response.left = 0)
    /\ frame' = CallFrame("producer", n, n = 0, {"send"})
    /\ UNCHANGED <<connVars, dataVars, envVars, interest>>

(***************************************************************************)
(* requestBodyAvailable (n = 0) and readRequestBody.                       *)
(***************************************************************************)
ReadRequestBody(n) ==
    /\ AtRest /\ open
    /\ frame' = CallFrame("consumer", n, FALSE, {"recv"})
    /\ UNCHANGED <<connVars, dataVars, envVars, interest>>

(***************************************************************************)
(* pauseRecv, resumeRecv, pauseSend and resumeSend of another socket's     *)
(* callback; they return early when nothing changes.                       *)
(***************************************************************************)
PauseOrResume(newFlags, update) ==
    /\ AtRest /\ open
    /\ flags' = newFlags /\ flags' # flags
    /\ interest' = IF update THEN Wants(state, newFlags) ELSE interest
    /\ UNCHANGED <<state, open, lastOffers, dataVars, envVars, frame>>

(***************************************************************************)
(* Another thread stops the multiplexer.                                   *)
(***************************************************************************)
Shutdown ==
    /\ ~shutdown
    /\ shutdown' = TRUE
    /\ UNCHANGED <<connVars, dataVars, peer, received, frame, interest>>

Call ==
    \/ SendResponse
    \/ \E n \in 0..MaxBody : SendResponseBody(n)
    \/ \E n \in 0..1 : ReadRequestBody(n)
    \/ \E p \in Pauses, update \in BOOLEAN :
          PauseOrResume(flags \cup {p}, update) \/ PauseOrResume(flags \ {p}, update)
    \/ Abort

Next == Advance \/ HandleReadable \/ HandleWritable \/ RemoveSocket \/ HandleRemove
        \/ Call \/ Shutdown

Spec == Init /\ [][Next]_vars

-----------------------------------------------------------------------------
(***************************************************************************)
(* Properties                                                              *)
(***************************************************************************)

(***************************************************************************)
(* Types of the variables; in particular neither buffer ever holds more    *)
(* than its capacity, whatever fill, format and flush leave in it.         *)
(***************************************************************************)
TypeOK ==
    /\ state \in States /\ flags \subseteq Flags
    /\ recvBuf \in Seq(Tokens) /\ Len(recvBuf) <= RecvSize
    /\ sendBuf \in 0..SendSize /\ avail \in 0..1
    /\ request \in Requests /\ response \in Responses \cup {NoResponse}
    /\ frame \in Frames /\ interest \subseteq {"IN", "OUT"}
    /\ shutdown \in BOOLEAN /\ open \in BOOLEAN /\ lastOffers \in Nat
    /\ peer \in {"idle", "put", "post", "trailer", "done"} /\ received \in 0..MaxInput

(***************************************************************************)
(* Requests on a reused connection stay in step with the client: where the *)
(* code starts to parse a request, the next bytes are the beginning of a   *)
(* request and never the rest of an earlier one, although the response may *)
(* have been sent before the request was read.  The flag                   *)
(* SERVER_CANNOT_REUSE_CONNECTION is there for this.                       *)
(***************************************************************************)
RequestsInStep ==
    state \in {"TRANSACTION_BEGIN", "PARSING_HEADERS"} =>
        /\ avail = 0
        /\ recvBuf # <<>> => Head(recvBuf) \in {"get", "put", "post", "bad"}
        /\ recvBuf = <<>> => peer \in {"idle", "done"}

(***************************************************************************)
(* The end of the body is announced once (HttpServerHandler.h on           *)
(* consumeRequestBody: "called once with a chunk_size of 0"), also when    *)
(* the handler pauses there or a caller reads the body; and a connection   *)
(* can only be reused when it was.                                         *)
(***************************************************************************)
LastChunkOnce ==
    /\ lastOffers <= 1
    /\ state \in SendStates /\ "CANNOT_REUSE" \notin flags => lastOffers = 1

(***************************************************************************)
(* _bytesAvailable never promises more than the receive buffer holds at    *)
(* its read position, whatever mixture of callbacks and calls consumed the *)
(* body; stateReceiveRequestBody hands out that many bytes unchecked.      *)
(***************************************************************************)
AvailableIsBuffered ==
    avail > 0 /\ state = "PARSING_BODY" => recvBuf # <<>> /\ Head(recvBuf) = "piece"

(***************************************************************************)
(* flushSendBuffer is never called with nothing to send, which it would    *)
(* take for a jammed formatter and close a connection whose response is    *)
(* complete.                                                               *)
(***************************************************************************)
NeverJammed ==
    Running /\ ~shutdown /\ (state = "FLUSHING_BODY" \/ frame.drain) => sendBuf > 0

(***************************************************************************)
(* However the connection ends, the handler is told the end of every       *)
(* transaction it was told the beginning of, unless the multiplexer is     *)
(* shutting down.                                                          *)
(***************************************************************************)
TransactionsEnd == state = "INACTIVE" /\ open => shutdown

-----------------------------------------------------------------------------
(***************************************************************************)
(* Statements of the repository that the code does not keep.               *)
(***************************************************************************)

(***************************************************************************)
(* ESHttpServerHandler.h: ES_HTTP_SERVER_HANDLER_END means "Response sent  *)
(* / transaction completed".  TRANSACTION_END is only entered to report it.*)
(***************************************************************************)
EndMeansSent == state = "TRANSACTION_END" => sendBuf = 0

\* The connection's own books agree: _bytesAvailable with the receive buffer, the
\* state machine with the send buffer it flushes, the announced end of the body
\* with the body, whatever mixture of events and calls of other sockets came
\* before.  (stateReceiveRequestBody, readRequestBody, flushSendBuffer)
BooksAgree == TypeOK /\ AvailableIsBuffered /\ NeverJammed /\ LastChunkOnce
=============================================================================

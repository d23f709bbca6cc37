----------------------- MODULE HttpServerSocketProofs -----------------------
(***************************************************************************)
(* The properties of a server connection, for all sizes of its buffers and *)
(* of the bodies.                                                          *)
(*                                                                         *)
(* The heart of the invariant is Stream: as long as the connection may     *)
(* still be reused, the bytes in the receive buffer lead the client from   *)
(* where the parser is to where the client is.  Path says so for a buffer  *)
(* of any length with the client's places between the tokens as witness.   *)
(* RequestsInStep is the special case of a parser at the beginning of a    *)
(* request.  Offered ties the flags to the state, FrameAgrees and Buffered *)
(* tie the running call, the response and the send buffer together, and    *)
(* EndTold says where a transaction may rest with its end not told.        *)
(***************************************************************************)
EXTENDS HttpServerSocket, SequenceTheorems, TLAPS

Peers == {"idle", "put", "post", "trailer", "done"}

(***************************************************************************)
(* The tokens s take the client from p to q.                               *)
(***************************************************************************)
Path(p, s, q) ==
    \E h \in [1 .. Len(s) + 1 -> Peers] :
        /\ h[1] = p /\ h[Len(s) + 1] = q
        /\ \A k \in 1 .. Len(s) : <<s[k], h[k + 1]>> \in NextTokens(h[k])

(***************************************************************************)
(* Where the parser is in what the client sends.                           *)
(***************************************************************************)
Position ==
    IF state = "PARSING_BODY" /\ request.kind = "put" /\ request.left = 1 THEN "put"
    ELSE IF state = "PARSING_BODY" /\ request.kind = "post" THEN "post"
    ELSE IF state = "SKIPPING_TRAILER" /\ request.kind = "post" THEN "trailer"
    ELSE "idle"

(***************************************************************************)
(* The request is being read, or it was read to its end.                   *)
(***************************************************************************)
InStep ==
    \/ state \in RecvStates \cup {"TRANSACTION_BEGIN"}
    \/ state \in SendStates \cup {"TRANSACTION_END"} /\ "CANNOT_REUSE" \notin flags

Stream ==
    InStep => /\ Path(Position, recvBuf, peer)
              /\ avail > 0 => Position \in {"put", "post"} /\ recvBuf # <<>> /\ Head(recvBuf) = "piece"

Offered ==
    /\ state \in {"TRANSACTION_BEGIN", "PARSING_HEADERS", "PARSING_BODY"} =>
         lastOffers = 0 /\ "LAST_CHUNK" \notin flags
    /\ state = "SKIPPING_TRAILER" => lastOffers = 1
    /\ state \in RecvStates => "CANNOT_REUSE" \in flags
    /\ state \in SendStates \cup {"TRANSACTION_END"} /\ "CANNOT_REUSE" \notin flags => lastOffers = 1
    /\ lastOffers <= 1

FrameAgrees ==
    /\ frame.fill => state \in RecvStates \cup {"TRANSACTION_BEGIN"}
    /\ frame.drain => state \in {"FORMATTING_HEADERS", "FORMATTING_BODY"} /\ sendBuf > 0
    /\ frame.last => frame.handler = "producer" /\ frame.left = 0
    /\ frame.handler = "producer" =>
         /\ frame.left <= response.left
         /\ state # "FORMATTING_BODY" => frame.left = 0

(***************************************************************************)
(* A body that may end now, without a last chunk, has something to flush.  *)
(***************************************************************************)
Buffered ==
    /\ state = "FORMATTING_BODY" => response.set
    /\ state = "FORMATTING_BODY" /\ ~response.chunked /\ (response.left = 0 \/ frame.last) =>
         sendBuf > 0 /\ ~frame.drain
    /\ state = "FLUSHING_BODY" /\ ~shutdown => sendBuf > 0

EndTold == state = "TRANSACTION_END" /\ ~Running /\ open => shutdown

IInv == TypeOK /\ Stream /\ Offered /\ FrameAgrees /\ Buffered /\ EndTold /\ TransactionsEnd

-----------------------------------------------------------------------------
(* The running call.                                                       *)

(***************************************************************************)
(* When advanceStateMachine returns, no call is running; the event loop's  *)
(* interests are as they were or those of the new state.                   *)
(***************************************************************************)
LEMMA LeaveShape ==
    ASSUME NEW r, Leave(r)
    PROVE  /\ frame' \in {Idle, Removing}
           /\ interest' \in {interest, Wants(state', flags')}
BY DEF Leave

(***************************************************************************)
(* An idle connection and one about to be removed run nothing.             *)
(***************************************************************************)
LEMMA RestFrames ==
    ASSUME NEW f \in {Idle, Removing}
    PROVE  /\ f \in Frames
           /\ ~f.fill /\ ~f.drain /\ ~f.last /\ f.handler = "handler"
           /\ f.by \notin {"io", "call"}
<1>1. Idle \in Frames
  BY BoundsAssumption DEF Idle, Frames
<1>2. Removing \in Frames
  BY <1>1 DEF Removing, Frames
<1>3. /\ Idle.fill = FALSE /\ Idle.drain = FALSE /\ Idle.last = FALSE
      /\ Idle.handler = "handler" /\ Idle.by = "none"
  BY DEF Idle
<1>4. /\ Removing.fill = FALSE /\ Removing.drain = FALSE /\ Removing.last = FALSE
      /\ Removing.handler = "handler" /\ Removing.by = "remove"
  BY <1>1, <1>3 DEF Removing, Frames
<1> QED
  BY <1>1, <1>2, <1>3, <1>4

(***************************************************************************)
(* Frames of the state functions that go on.                               *)
(***************************************************************************)
LEMMA FrameUpdates ==
    ASSUME frame \in Frames
    PROVE  /\ \A b \in BOOLEAN : [frame EXCEPT !.fill = b] \in Frames
           /\ \A b \in BOOLEAN : [frame EXCEPT !.drain = b] \in Frames
           /\ \A b, c \in BOOLEAN : [frame EXCEPT !.fill = b, !.drain = c] \in Frames
           /\ \A n \in 0 .. MaxBody : [frame EXCEPT !.left = n] \in Frames
BY DEF Frames

(***************************************************************************)
(* Frames of the event loop and of the callers.                            *)
(***************************************************************************)
LEMMA NewFrames ==
    /\ \A b \in BOOLEAN : IoFrame(b) \in Frames
    /\ \A h \in {"handler", "producer", "consumer"}, n \in 0 .. MaxBody \cup {1}, b \in BOOLEAN,
          a \in SUBSET {"recv", "send"} : CallFrame(h, n, b, a) \in Frames
<1>1. Idle \in Frames
  BY RestFrames
<1>2. {"recv", "send"} \in SUBSET {"recv", "send"}
  OBVIOUS
<1>3. \A b \in BOOLEAN : IoFrame(b) \in Frames
  BY <1>1, <1>2 DEF IoFrame, Frames
<1>4. \A h \in {"handler", "producer", "consumer"}, n \in 0 .. MaxBody \cup {1}, b \in BOOLEAN,
          a \in SUBSET {"recv", "send"} : CallFrame(h, n, b, a) \in Frames
  BY <1>1 DEF CallFrame, Frames
<1> QED
  BY <1>3, <1>4

(***************************************************************************)
(* Interests are interests.                                                *)
(***************************************************************************)
LEMMA WantsType == \A s, f : Wants(s, f) \subseteq {"IN", "OUT"}
BY DEF Wants

(***************************************************************************)
(* A call that returns leaves the frame and the interests well formed.     *)
(***************************************************************************)
LEMMA LeaveType ==
    ASSUME TypeOK, NEW r, Leave(r)
    PROVE  frame' \in Frames /\ interest' \subseteq {"IN", "OUT"}
<1>1. frame' \in {Idle, Removing} /\ interest' \in {interest, Wants(state', flags')}
  BY LeaveShape
<1>2. frame' \in Frames
  BY <1>1, RestFrames
<1> QED
  BY <1>1, <1>2, WantsType DEF TypeOK

(***************************************************************************)
(* So does a state function that waits for room or for bytes, or goes on.  *)
(***************************************************************************)
LEMMA GoOnType ==
    ASSUME TypeOK, Again \/ Continue
    PROVE  frame' \in Frames /\ interest' \subseteq {"IN", "OUT"}
<1>1. frame \in Frames /\ interest \subseteq {"IN", "OUT"}
  BY DEF TypeOK
<1>2. (state \in RecvStates) \in BOOLEAN /\ (state \in SendStates) \in BOOLEAN
  OBVIOUS
<1> QED
  BY <1>1, <1>2, FrameUpdates DEF Again, Continue

(***************************************************************************)
(* Whatever step is taken, the running call is one of Frames and the       *)
(* interests are interests.                                                *)
(***************************************************************************)
LEMMA FrameStep ==
    ASSUME TypeOK, FrameAgrees, Next
    PROVE  frame' \in Frames /\ interest' \subseteq {"IN", "OUT"}
<1> DEFINE Goal == frame' \in Frames /\ interest' \subseteq {"IN", "OUT"}
<1>0. frame \in Frames /\ interest \subseteq {"IN", "OUT"}
  BY DEF TypeOK
<1>1. ASSUME NEW r, StateBeginTransaction(r) PROVE Goal
  BY <1>1, LeaveType, GoOnType DEF StateBeginTransaction
<1>2. CASE FillReceiveBuffer \/ DrainSendBuffer
  BY <1>0, <1>2, LeaveType, FrameUpdates DEF FillReceiveBuffer, DrainSendBuffer
<1>3. ASSUME NEW r, NEW paused, NEW reuse, StateReceiveRequestHeaders(r, paused, reuse) PROVE Goal
  BY <1>3, LeaveType, GoOnType DEF StateReceiveRequestHeaders
<1>4. ASSUME NEW r, NEW paused, NEW taken, OfferPieceToHandler(r, taken, paused) PROVE Goal
  BY <1>4, LeaveType, GoOnType DEF OfferPieceToHandler
<1>5. ASSUME NEW r, NEW paused, OfferLastChunk(r, paused) \/ NoOffer(r, paused) PROVE Goal
  BY <1>5, LeaveType, GoOnType DEF OfferLastChunk, NoOffer
<1>6. CASE OfferPieceToConsumer
  <2>1. CASE frame.left > 0
    <3>1. frame.left - 1 \in 0 .. MaxBody \/ frame.left = 1
      BY <1>0, <2>1, BoundsAssumption DEF Frames
    <3>2. frame.left - 1 \in 0 .. MaxBody
      BY <3>1, BoundsAssumption
    <3> QED
      BY <1>0, <1>6, <2>1, <3>2, FrameUpdates DEF OfferPieceToConsumer
  <2>2. CASE ~(frame.left > 0)
    BY <1>6, <2>2, LeaveType DEF OfferPieceToConsumer
  <2> QED
    BY <2>1, <2>2
<1>7. CASE StopAdvancing \/ \E r \in {"AGAIN", "ERROR"} : FillFails(r)
  BY <1>7, LeaveType DEF StopAdvancing, FillFails
<1>8. CASE NeedMoreHeaders \/ BadRequest \/ NeedMoreBody
  BY <1>8, LeaveType, GoOnType DEF NeedMoreHeaders, BadRequest, NeedMoreBody
<1>9. CASE StateSkipTrailer \/ StateSendResponseHeaders \/ EndBody
  BY <1>9, GoOnType DEF StateSkipTrailer, StateSendResponseHeaders, EndBody
<1>10. ASSUME NEW n \in 1 .. MaxBody, FormatChunk(n) PROVE Goal
  <2>1. CASE sendBuf = SendSize
    BY <1>10, <2>1, GoOnType DEF FormatChunk
  <2>2. CASE sendBuf # SendSize
    <3>1. PICK k \in {IF n <= SendSize - sendBuf THEN n ELSE SendSize - sendBuf} :
               /\ frame' = IF frame.handler = "producer"
                           THEN [frame EXCEPT !.left = @ - k] ELSE frame
               /\ interest' = interest
      BY <1>10, <2>2 DEF FormatChunk
    <3>2. CASE frame.handler = "producer"
      <4>1. frame.left = n /\ k \in 0 .. n
        BY <1>10, <2>2, <3>2, BoundsAssumption DEF FormatChunk, Offers, TypeOK
      <4>2. frame.left - k \in 0 .. MaxBody
        BY <4>1, BoundsAssumption
      <4> QED
        BY <1>0, <3>1, <3>2, <4>2, FrameUpdates
    <3> QED
      BY <1>0, <3>1, <3>2
  <2> QED
    BY <2>1, <2>2
<1>11. CASE StateFlushResponseBody \/ StateEndTransaction
  BY <1>11, LeaveType, GoOnType DEF StateFlushResponseBody, StateEndTransaction
<1>12. CASE HandleReadable \/ HandleWritable
  BY <1>0, <1>12, NewFrames, RestFrames, WantsType DEF HandleReadable, HandleWritable, HandleEvent
<1>13. CASE RemoveSocket \/ HandleRemove \/ Abort
  BY <1>0, <1>13, RestFrames DEF RemoveSocket, HandleRemove, Abort
<1>14. CASE SendResponse
  <2>1. 0 \in 0 .. MaxBody \cup {1} /\ {"send"} \in SUBSET {"recv", "send"}
    BY BoundsAssumption
  <2>2. CallFrame("handler", 0, FALSE, {"send"}) \in Frames
    BY <2>1, NewFrames
  <2> QED
    BY <1>0, <1>14, <2>2 DEF SendResponse
<1>15. ASSUME NEW n \in 0 .. MaxBody, SendResponseBody(n) PROVE Goal
  <2>1. CallFrame("producer", n, n = 0, {"send"}) \in Frames
    BY NewFrames
  <2> QED
    BY <1>0, <1>15, <2>1 DEF SendResponseBody
<1>16. ASSUME NEW n \in 0 .. 1, ReadRequestBody(n) PROVE Goal
  <2>1. n \in 0 .. MaxBody \cup {1}
    BY BoundsAssumption
  <2>2. CallFrame("consumer", n, FALSE, {"recv"}) \in Frames
    BY <2>1, NewFrames
  <2> QED
    BY <1>0, <1>16, <2>2 DEF ReadRequestBody
<1>17. ASSUME NEW f, NEW update, PauseOrResume(f, update) PROVE Goal
  BY <1>0, <1>17, WantsType DEF PauseOrResume
<1>18. CASE Shutdown
  BY <1>0, <1>18 DEF Shutdown
<1>19. CASE Advance
  BY <1>19, <1>1, <1>2, <1>3, <1>4, <1>5, <1>6, <1>7, <1>8, <1>9, <1>10, <1>11 DEF Advance
<1>20. CASE Call
  BY <1>20, <1>13, <1>14, <1>15, <1>16, <1>17 DEF Call
<1> QED
  BY <1>12, <1>13, <1>18, <1>19, <1>20 DEF Next

(***************************************************************************)
(* The fields of the running call after a state function that goes on.     *)
(***************************************************************************)
LEMMA AgainShape ==
    ASSUME TypeOK, Again
    PROVE  /\ frame'.fill = (state \in RecvStates) /\ frame'.drain = (state \in SendStates)
           /\ frame'.last = frame.last /\ frame'.handler = frame.handler
           /\ frame'.left = frame.left /\ frame'.by = frame.by
BY DEF TypeOK, Frames, Again

(***************************************************************************)
(* No state function goes on and returns at once.                          *)
(***************************************************************************)
LEMMA RestShape ==
    ASSUME NEW r, Leave(r)
    PROVE  /\ ~frame'.fill /\ ~frame'.drain /\ ~frame'.last /\ frame'.handler = "handler"
           /\ ~Running'
BY LeaveShape, RestFrames DEF Running

-----------------------------------------------------------------------------
(* Types.                                                                  *)

(***************************************************************************)
(* State, flags and the counters of a connection.                          *)
(***************************************************************************)
LEMMA ConnStep ==
    ASSUME TypeOK, Next
    PROVE  /\ state' \in States /\ flags' \subseteq Flags
           /\ open' \in BOOLEAN /\ lastOffers' \in Nat /\ shutdown' \in BOOLEAN
<1> DEFINE Goal == /\ state' \in States /\ flags' \subseteq Flags
                   /\ open' \in BOOLEAN /\ lastOffers' \in Nat /\ shutdown' \in BOOLEAN
<1> USE DEF TypeOK, connVars, envVars
<1>0. States = RecvStates \cup SendStates \cup {"TRANSACTION_BEGIN", "TRANSACTION_END", "INACTIVE"}
  BY DEF States
<1>1. ASSUME UNCHANGED <<connVars, shutdown>> PROVE Goal
  BY <1>1
<1>2. CASE StopAdvancing \/ FillReceiveBuffer \/ DrainSendBuffer
           \/ \E r \in {"AGAIN", "ERROR"} : FillFails(r)
  BY <1>1, <1>2 DEF StopAdvancing, FillReceiveBuffer, DrainSendBuffer, FillFails
<1>3. CASE NeedMoreHeaders \/ NeedMoreBody \/ OfferPieceToConsumer
  BY <1>1, <1>3 DEF NeedMoreHeaders, NeedMoreBody, OfferPieceToConsumer
<1>4. ASSUME NEW r, StateBeginTransaction(r) PROVE Goal
  BY <1>0, <1>4 DEF StateBeginTransaction, RecvStates, SendStates, Flags
<1>5. CASE BadRequest
  BY <1>0, <1>5 DEF BadRequest, SendStates
<1>6. ASSUME NEW r, NEW paused \in SUBSET Pauses, NEW reuse,
             StateReceiveRequestHeaders(r, paused, reuse) PROVE Goal
  BY <1>0, <1>6 DEF StateReceiveRequestHeaders, RecvStates, SendStates, Flags
<1>7. ASSUME NEW r, NEW paused \in SUBSET Pauses, NEW taken,
             OfferPieceToHandler(r, taken, paused) PROVE Goal
  BY <1>0, <1>7 DEF OfferPieceToHandler, SendStates, Flags
<1>8. ASSUME NEW r, NEW paused \in SUBSET Pauses, OfferLastChunk(r, paused) PROVE Goal
  BY <1>0, <1>8 DEF OfferLastChunk, RecvStates, Flags
<1>9. ASSUME NEW r, NEW paused \in SUBSET Pauses, NoOffer(r, paused) PROVE Goal
  BY <1>9 DEF NoOffer, Flags
<1>10. CASE StateSkipTrailer
  BY <1>0, <1>10 DEF StateSkipTrailer, SendStates
<1>11. CASE StateSendResponseHeaders \/ EndBody
  BY <1>0, <1>11 DEF StateSendResponseHeaders, EndBody, SendStates
<1>12. ASSUME NEW n, FormatChunk(n) PROVE Goal
  BY <1>1, <1>12 DEF FormatChunk
<1>13. CASE StateFlushResponseBody
  BY <1>0, <1>13 DEF StateFlushResponseBody
<1>14. CASE StateEndTransaction
  <2>1. state' \in States /\ flags' \subseteq Flags /\ lastOffers' \in Nat /\ shutdown' = shutdown
    BY <1>0, <1>14 DEF StateEndTransaction
  <2>2. open' \in BOOLEAN
    BY <1>14 DEF StateEndTransaction
  <2> QED
    BY <2>1, <2>2
<1>15. CASE Advance
  BY <1>2, <1>3, <1>4, <1>5, <1>6, <1>7, <1>8, <1>9, <1>10, <1>11, <1>12, <1>13, <1>14, <1>15
     DEF Advance
<1>16. CASE HandleReadable \/ HandleWritable \/ RemoveSocket
  BY <1>1, <1>16 DEF HandleReadable, HandleWritable, HandleEvent, RemoveSocket
<1>17. CASE Abort \/ HandleRemove
  BY <1>0, <1>17 DEF Abort, HandleRemove, Flags
<1>18. CASE SendResponse
  BY <1>1, <1>18 DEF SendResponse
<1>19. ASSUME NEW n, SendResponseBody(n) \/ ReadRequestBody(n) PROVE Goal
  BY <1>1, <1>19 DEF SendResponseBody, ReadRequestBody
<1>20. ASSUME NEW p \in Pauses, NEW update,
              PauseOrResume(flags \cup {p}, update) \/ PauseOrResume(flags \ {p}, update)
       PROVE  Goal
  BY <1>20 DEF PauseOrResume, Flags
<1>21. CASE Call
  BY <1>17, <1>18, <1>19, <1>20, <1>21 DEF Call
<1>22. CASE Shutdown
  BY <1>22 DEF Shutdown
<1> QED
  BY <1>15, <1>16, <1>17, <1>21, <1>22 DEF Next

-----------------------------------------------------------------------------
(* The transaction: what was announced, and how it ends.                   *)

(***************************************************************************)
(* The flags that say how far the request was read follow the state.       *)
(***************************************************************************)
LEMMA OfferedStep ==
    ASSUME TypeOK, Offered, Next
    PROVE  Offered'
<1> USE DEF connVars, envVars
<1>0. \A f \in Pauses : f # "CANNOT_REUSE" /\ f # "LAST_CHUNK"
  BY DEF Pauses
<1>1. ASSUME UNCHANGED <<state, lastOffers>>,
             "CANNOT_REUSE" \in flags' <=> "CANNOT_REUSE" \in flags,
             "LAST_CHUNK" \in flags' <=> "LAST_CHUNK" \in flags
      PROVE  Offered'
  BY <1>1 DEF Offered
<1>2. CASE StopAdvancing \/ FillReceiveBuffer \/ DrainSendBuffer
           \/ \E r \in {"AGAIN", "ERROR"} : FillFails(r)
  BY <1>1, <1>2 DEF StopAdvancing, FillReceiveBuffer, DrainSendBuffer, FillFails
<1>3. CASE NeedMoreHeaders \/ NeedMoreBody \/ OfferPieceToConsumer
  BY <1>1, <1>3 DEF NeedMoreHeaders, NeedMoreBody, OfferPieceToConsumer
<1>4. ASSUME NEW r, StateBeginTransaction(r) PROVE Offered'
  BY <1>4 DEF StateBeginTransaction, Offered, RecvStates, SendStates, Step
<1>5. CASE BadRequest
  BY <1>5 DEF BadRequest, Offered, RecvStates, SendStates, Step
<1>6. ASSUME NEW r, NEW paused \in SUBSET Pauses, NEW reuse,
             StateReceiveRequestHeaders(r, paused, reuse) PROVE Offered'
  BY <1>0, <1>6 DEF StateReceiveRequestHeaders, Offered, RecvStates, SendStates, Step
<1>7. ASSUME NEW r, NEW paused \in SUBSET Pauses, NEW taken,
             OfferPieceToHandler(r, taken, paused) PROVE Offered'
  BY <1>0, <1>7 DEF OfferPieceToHandler, Offered, RecvStates, SendStates, Step
<1>8. ASSUME NEW r, NEW paused \in SUBSET Pauses, OfferLastChunk(r, paused) PROVE Offered'
  BY <1>0, <1>8 DEF OfferLastChunk, Offered, RecvStates, SendStates, Step, TypeOK
<1>9. ASSUME NEW r, NEW paused \in SUBSET Pauses, NoOffer(r, paused) PROVE Offered'
  BY <1>0, <1>1, <1>9 DEF NoOffer
<1>10. CASE StateSkipTrailer
  BY <1>10 DEF StateSkipTrailer, Offered, RecvStates, SendStates, Step
<1>11. CASE StateSendResponseHeaders \/ EndBody
  BY <1>11 DEF StateSendResponseHeaders, EndBody, Offered, RecvStates, SendStates, Step
<1>12. ASSUME NEW n, FormatChunk(n) PROVE Offered'
  BY <1>1, <1>12 DEF FormatChunk
<1>13. CASE StateFlushResponseBody
  BY <1>13 DEF StateFlushResponseBody, Offered, RecvStates, SendStates, Step
<1>14. CASE StateEndTransaction
  BY <1>14 DEF StateEndTransaction, Offered, RecvStates, SendStates, Step
<1>15. CASE Advance
  BY <1>2, <1>3, <1>4, <1>5, <1>6, <1>7, <1>8, <1>9, <1>10, <1>11, <1>12, <1>13, <1>14, <1>15
     DEF Advance
<1>16. CASE HandleReadable \/ HandleWritable \/ RemoveSocket
  BY <1>1, <1>16 DEF HandleReadable, HandleWritable, HandleEvent, RemoveSocket
<1>23. CASE Abort
  <2>1. UNCHANGED <<state, lastOffers>> /\ flags' = flags \cup {"ABORTED"}
    BY <1>23 DEF Abort
  <2> QED
    BY <1>1, <2>1
<1>17. CASE HandleRemove
  BY <1>17 DEF HandleRemove, Offered, RecvStates, SendStates
<1>18. CASE SendResponse
  BY <1>1, <1>18 DEF SendResponse
<1>19. ASSUME NEW n, SendResponseBody(n) \/ ReadRequestBody(n) PROVE Offered'
  BY <1>1, <1>19 DEF SendResponseBody, ReadRequestBody
<1>20. ASSUME NEW p \in Pauses, NEW update,
              PauseOrResume(flags \cup {p}, update) \/ PauseOrResume(flags \ {p}, update)
       PROVE  Offered'
  BY <1>0, <1>1, <1>20 DEF PauseOrResume
<1>21. CASE Call
  BY <1>18, <1>19, <1>20, <1>21, <1>23 DEF Call
<1>22. CASE Shutdown
  BY <1>1, <1>22 DEF Shutdown
<1> QED
  BY <1>15, <1>16, <1>17, <1>21, <1>22 DEF Next

-----------------------------------------------------------------------------
(* The send buffer and the response.                                       *)

(***************************************************************************)
(* flushSendBuffer takes from the buffer only when it succeeds or sees     *)
(* shutdown(), and reports a jam only for an empty buffer.                 *)
(***************************************************************************)
LEMMA FlushFacts ==
    ASSUME TypeOK, NEW out \in FlushSendBuffer
    PROVE  /\ out.left \in 0 .. sendBuf
           /\ sendBuf > 0 /\ ~shutdown => out.left = sendBuf \/ out.result = "SUCCESS"
<1>1. sendBuf \in Nat /\ sendBuf \in 0 .. SendSize
  BY BoundsAssumption DEF TypeOK
<1>2. CASE sendBuf = 0
  BY <1>1, <1>2 DEF FlushSendBuffer
<1>3. CASE sendBuf # 0 /\ shutdown
  BY <1>1, <1>3 DEF FlushSendBuffer
<1>4. CASE sendBuf # 0 /\ ~shutdown
  <2>1. \/ out \in {[result |-> r, left |-> sendBuf] : r \in {"AGAIN", "ERROR"}}
        \/ out \in {[result |-> "SUCCESS", left |-> n] : n \in 0..(sendBuf - 1)}
    BY <1>4 DEF FlushSendBuffer
  <2> QED
    BY <1>1, <2>1
<1> QED
  BY <1>2, <1>3, <1>4

(***************************************************************************)
(* Formatting a chunk: either there is no room, or at least one unit of    *)
(* the offer goes from the response into the send buffer.                  *)
(***************************************************************************)
LEMMA FormatFacts ==
    ASSUME TypeOK, FrameAgrees, Buffered, NEW n \in 1 .. MaxBody, FormatChunk(n)
    PROVE  /\ state = "FORMATTING_BODY" /\ response.set /\ response.left \in 1 .. MaxBody
           /\ response \in Responses /\ ~frame.last /\ ~frame.drain /\ ~frame.fill
           /\ \/ UNCHANGED <<sendBuf, response>> /\ Again /\ sendBuf = SendSize
              \/ \E k \in 1 .. response.left :
                   /\ sendBuf' = sendBuf + k /\ sendBuf + k \in 0 .. SendSize
                   /\ response' = [response EXCEPT !.left = response.left - k]
                   /\ frame' = IF frame.handler = "producer"
                               THEN [frame EXCEPT !.left = frame.left - k] ELSE frame
                   /\ frame.handler = "producer" => k <= frame.left
<1>1. state = "FORMATTING_BODY" /\ ~frame.drain /\ ~frame.fill /\ Offers(n) /\ n > 0
  BY DEF FormatChunk, Step, MayAdvance
<1>2. response.set /\ response \in Responses
  <2>1. response.set
    BY <1>1 DEF Buffered
  <2> QED
    BY <2>1 DEF TypeOK, NoResponse
<1>3. response.left \in 0 .. MaxBody
  BY <1>2 DEF Responses
<1>4. n <= response.left /\ ~frame.last /\ (frame.handler = "producer" => n = frame.left)
  <2>1. CASE frame.handler = "producer"
    BY <1>1, <2>1 DEF Offers, FrameAgrees
  <2>2. CASE frame.handler # "producer"
    BY <1>1, <1>3, <2>2 DEF Offers, FrameAgrees
  <2> QED
    BY <2>1, <2>2
<1>5. CASE sendBuf = SendSize
  BY <1>1, <1>2, <1>3, <1>4, <1>5 DEF FormatChunk
<1>6. CASE sendBuf # SendSize
  <2>1. PICK k \in {IF n <= SendSize - sendBuf THEN n ELSE SendSize - sendBuf} :
               /\ sendBuf' = sendBuf + k
               /\ response' = [response EXCEPT !.left = @ - k]
               /\ frame' = IF frame.handler = "producer"
                           THEN [frame EXCEPT !.left = @ - k] ELSE frame
    BY <1>6 DEF FormatChunk
  <2>2. k \in 1 .. n /\ sendBuf + k \in 0 .. SendSize
    BY <1>1, <1>6, <2>1, BoundsAssumption DEF TypeOK
  <2>3. k \in 1 .. response.left /\ (frame.handler = "producer" => k <= frame.left)
    BY <1>3, <1>4, <2>2
  <2> QED
    BY <1>1, <1>2, <1>3, <1>4, <2>1, <2>2, <2>3
<1> QED
  BY <1>5, <1>6

(***************************************************************************)
(* Neither the send buffer nor a response leaves its bounds.               *)
(***************************************************************************)
LEMMA SendStep ==
    ASSUME TypeOK, FrameAgrees, Buffered, Next
    PROVE  sendBuf' \in 0 .. SendSize /\ response' \in Responses \cup {NoResponse}
<1> DEFINE Goal == sendBuf' \in 0 .. SendSize /\ response' \in Responses \cup {NoResponse}
<1> USE DEF dataVars
<1>0. sendBuf \in 0 .. SendSize /\ response \in Responses \cup {NoResponse}
      /\ SendSize \in Nat /\ sendBuf \in Nat
  BY BoundsAssumption DEF TypeOK
<1>1. ASSUME UNCHANGED <<sendBuf, response>> PROVE Goal
  BY <1>0, <1>1
<1>2. CASE StopAdvancing \/ FillReceiveBuffer \/ \E r \in {"AGAIN", "ERROR"} : FillFails(r)
  BY <1>1, <1>2 DEF StopAdvancing, FillReceiveBuffer, FillFails
<1>3. CASE DrainSendBuffer \/ StateFlushResponseBody
  <2>1. PICK out \in FlushSendBuffer : sendBuf' = out.left /\ UNCHANGED response
    BY <1>3 DEF DrainSendBuffer, StateFlushResponseBody
  <2>2. out.left \in 0 .. sendBuf
    BY FlushFacts
  <2> QED
    BY <1>0, <2>1, <2>2
<1>4. CASE NeedMoreHeaders \/ NeedMoreBody \/ OfferPieceToConsumer \/ StateSkipTrailer
  BY <1>1, <1>4 DEF NeedMoreHeaders, NeedMoreBody, OfferPieceToConsumer, StateSkipTrailer
<1>5. ASSUME NEW r, StateBeginTransaction(r) PROVE Goal
  BY <1>1, <1>5 DEF StateBeginTransaction
<1>6. CASE BadRequest
  <2>1. SetResponse \in Responses
    BY BoundsAssumption DEF SetResponse, Responses
  <2> QED
    BY <1>0, <1>6, <2>1 DEF BadRequest
<1>7. ASSUME NEW r, NEW paused, NEW b, \/ StateReceiveRequestHeaders(r, paused, b)
                                       \/ OfferPieceToHandler(r, b, paused) PROVE Goal
  BY <1>1, <1>7 DEF StateReceiveRequestHeaders, OfferPieceToHandler
<1>8. ASSUME NEW r, NEW paused, OfferLastChunk(r, paused) \/ NoOffer(r, paused) PROVE Goal
  BY <1>1, <1>8 DEF OfferLastChunk, NoOffer
<1>9. CASE StateSendResponseHeaders
  BY <1>0, <1>9 DEF StateSendResponseHeaders
<1>10. CASE EndBody
  BY <1>0, <1>10 DEF EndBody
<1>11. ASSUME NEW n \in 1 .. MaxBody, FormatChunk(n) PROVE Goal
  <2>1. CASE UNCHANGED <<sendBuf, response>>
    BY <1>1, <2>1
  <2>2. CASE \E k \in 1 .. response.left :
                   /\ sendBuf' = sendBuf + k /\ sendBuf + k \in 0 .. SendSize
                   /\ response' = [response EXCEPT !.left = response.left - k]
    <3>1. PICK k \in 1 .. response.left :
                   /\ sendBuf' = sendBuf + k /\ sendBuf + k \in 0 .. SendSize
                   /\ response' = [response EXCEPT !.left = response.left - k]
      BY <2>2
    <3>2. response \in Responses /\ response.left - k \in 0 .. MaxBody
      BY <1>11, <3>1, FormatFacts, BoundsAssumption
    <3>3. response' \in Responses
      BY <3>1, <3>2 DEF Responses
    <3> QED
      BY <3>1, <3>3
  <2> QED
    BY <1>11, <2>1, <2>2, FormatFacts
<1>12. CASE StateEndTransaction
  BY <1>0, <1>12 DEF StateEndTransaction
<1>13. CASE Advance
  BY <1>2, <1>3, <1>4, <1>5, <1>6, <1>7, <1>8, <1>9, <1>10, <1>11, <1>12, <1>13 DEF Advance
<1>14. CASE HandleReadable \/ HandleWritable \/ RemoveSocket \/ Abort
  BY <1>1, <1>14 DEF HandleReadable, HandleWritable, HandleEvent, RemoveSocket, Abort
<1>15. CASE HandleRemove
  BY <1>0, <1>15 DEF HandleRemove
<1>16. CASE SendResponse
  BY <1>0, <1>16 DEF SendResponse
<1>17. ASSUME NEW n, SendResponseBody(n) \/ ReadRequestBody(n) PROVE Goal
  BY <1>1, <1>17 DEF SendResponseBody, ReadRequestBody
<1>18. ASSUME NEW f, NEW update, PauseOrResume(f, update) PROVE Goal
  BY <1>1, <1>18 DEF PauseOrResume
<1>19. CASE Call
  BY <1>14, <1>16, <1>17, <1>18, <1>19 DEF Call
<1>20. CASE Shutdown
  BY <1>1, <1>20 DEF Shutdown
<1> QED
  BY <1>13, <1>14, <1>15, <1>19, <1>20 DEF Next

(***************************************************************************)
(* A connection that runs no call and has its state and buffers unchanged, *)
(* or is told of shutdown(), keeps its books.                              *)
(***************************************************************************)
LEMMA RestBooks ==
    ASSUME FrameAgrees, Buffered, UNCHANGED <<state, sendBuf, response>>, shutdown => shutdown',
           ~frame'.fill, ~frame'.drain, ~frame'.last, frame'.handler # "producer"
    PROVE  FrameAgrees' /\ Buffered'
BY DEF FrameAgrees, Buffered

(***************************************************************************)
(* The running call, the send buffer and the response agree: a call drains *)
(* or flushes only what is there, and a producer's buffer is part of the   *)
(* response.                                                               *)
(***************************************************************************)
LEMMA BooksStep ==
    ASSUME TypeOK, FrameAgrees, Buffered, Next
    PROVE  FrameAgrees' /\ Buffered'
<1> USE DEF connVars, dataVars, envVars
<1>0. frame \in Frames /\ sendBuf \in Nat /\ SendSize \in Nat \ {0} /\ response \in Responses \cup {NoResponse}
  BY BoundsAssumption DEF TypeOK
<1>1. ASSUME NEW r, Leave(r), UNCHANGED <<state, sendBuf, response, shutdown>>
      PROVE  FrameAgrees' /\ Buffered'
  BY <1>1, RestShape, RestBooks
<1>2. CASE StopAdvancing \/ \E r \in {"AGAIN", "ERROR"} : FillFails(r)
  BY <1>1, <1>2 DEF StopAdvancing, FillFails
<1>3. CASE FillReceiveBuffer
  <2>1. UNCHANGED <<state, sendBuf, response, shutdown>> /\ frame' = [frame EXCEPT !.fill = FALSE]
    BY <1>3 DEF FillReceiveBuffer
  <2> QED
    BY <1>0, <2>1 DEF FrameAgrees, Buffered, Frames
<1>4. CASE DrainSendBuffer
  <2>1. PICK out \in FlushSendBuffer :
          /\ sendBuf' = out.left /\ UNCHANGED <<state, response, shutdown>>
          /\ IF out.result = "SUCCESS" THEN frame' = [frame EXCEPT !.drain = FALSE]
             ELSE Leave(out.result)
    BY <1>4 DEF DrainSendBuffer
  <2>2. frame.drain
    BY <1>4 DEF DrainSendBuffer
  <2>3. state \in {"FORMATTING_HEADERS", "FORMATTING_BODY"}
    BY <2>2 DEF FrameAgrees
  <2>4. ~(state = "FORMATTING_BODY" /\ ~response.chunked /\ (response.left = 0 \/ frame.last))
    BY <2>2 DEF Buffered
  <2>5. CASE out.result = "SUCCESS"
    <3>1. /\ frame'.fill = frame.fill /\ frame'.drain = FALSE /\ frame'.last = frame.last
          /\ frame'.handler = frame.handler /\ frame'.left = frame.left
      BY <1>0, <2>1, <2>5 DEF Frames
    <3> QED
      BY <2>1, <2>3, <2>4, <3>1 DEF FrameAgrees, Buffered
  <2>6. CASE out.result # "SUCCESS"
    <3>1. ~frame'.fill /\ ~frame'.drain /\ ~frame'.last /\ frame'.handler = "handler"
      BY <2>1, <2>6, RestShape
    <3> QED
      BY <2>1, <2>3, <2>4, <3>1 DEF FrameAgrees, Buffered
  <2> QED
    BY <2>5, <2>6
<1>5. ASSUME NEW r, StateBeginTransaction(r) PROVE FrameAgrees' /\ Buffered'
  <2>1. state = "TRANSACTION_BEGIN" /\ ~frame.fill /\ ~frame.drain /\ UNCHANGED <<sendBuf, response, shutdown>>
    BY <1>5 DEF StateBeginTransaction, Step, MayAdvance
  <2>2. \/ state' \in {"PARSING_HEADERS", "FORMATTING_HEADERS"} /\ frame' = frame
        \/ state' = state /\ Leave(r)
    BY <1>5 DEF StateBeginTransaction, Continue
  <2>3. CASE state' \in {"PARSING_HEADERS", "FORMATTING_HEADERS"} /\ frame' = frame
    BY <2>1, <2>3 DEF FrameAgrees, Buffered
  <2> QED
    BY <1>1, <2>1, <2>2, <2>3
<1>6. CASE NeedMoreHeaders \/ NeedMoreBody
  <2>1. state \in {"PARSING_HEADERS", "PARSING_BODY"} /\ UNCHANGED <<state, sendBuf, response, shutdown>>
    BY <1>6 DEF NeedMoreHeaders, NeedMoreBody, Step
  <2>2. CASE Again
    <3>1. /\ frame'.fill /\ ~frame'.drain /\ frame'.last = frame.last
          /\ frame'.handler = frame.handler /\ frame'.left = frame.left
      BY <2>1, <2>2, AgainShape DEF RecvStates, SendStates
    <3> QED
      BY <2>1, <3>1 DEF FrameAgrees, Buffered, RecvStates
  <2> QED
    BY <1>1, <1>6, <2>1, <2>2 DEF NeedMoreHeaders, NeedMoreBody
<1>7. CASE BadRequest
  <2>1. /\ state = "PARSING_HEADERS" /\ state' = "FORMATTING_HEADERS" /\ ~frame.fill /\ ~frame.drain
        /\ UNCHANGED <<sendBuf, shutdown, frame>> /\ response' = SetResponse
    BY <1>7 DEF BadRequest, Step, MayAdvance, Continue
  <2>2. SetResponse.left = 0
    BY DEF SetResponse
  <2> QED
    BY <2>1, <2>2 DEF FrameAgrees, Buffered
<1>8. ASSUME NEW r, NEW paused, NEW reuse, StateReceiveRequestHeaders(r, paused, reuse)
      PROVE  FrameAgrees' /\ Buffered'
  <2>1. /\ state = "PARSING_HEADERS" /\ ~frame.fill /\ ~frame.drain /\ UNCHANGED <<sendBuf, response, shutdown>>
        /\ state' \in {"FORMATTING_HEADERS", "PARSING_BODY"}
        /\ frame' = frame \/ Leave(r)
    BY <1>8 DEF StateReceiveRequestHeaders, Step, MayAdvance, Continue
  <2>2. CASE frame' = frame
    BY <2>1, <2>2 DEF FrameAgrees, Buffered
  <2>3. CASE Leave(r)
    <3>1. ~frame'.fill /\ ~frame'.drain /\ ~frame'.last /\ frame'.handler = "handler"
      BY <2>3, RestShape
    <3> QED
      BY <2>1, <3>1 DEF FrameAgrees, Buffered
  <2> QED
    BY <2>1, <2>2, <2>3
<1>9. ASSUME NEW r, NEW paused, NEW taken, OfferPieceToHandler(r, taken, paused)
      PROVE  FrameAgrees' /\ Buffered'
  <2>1. /\ state = "PARSING_BODY" /\ ~frame.fill /\ ~frame.drain /\ UNCHANGED <<sendBuf, response, shutdown>>
        /\ state' \in {"FORMATTING_HEADERS", "PARSING_BODY"}
        /\ frame' = frame \/ Leave(r)
    BY <1>9 DEF OfferPieceToHandler, Step, MayAdvance, Continue
  <2>2. CASE frame' = frame
    BY <2>1, <2>2 DEF FrameAgrees, Buffered
  <2>3. CASE Leave(r)
    <3>1. ~frame'.fill /\ ~frame'.drain /\ ~frame'.last /\ frame'.handler = "handler"
      BY <2>3, RestShape
    <3> QED
      BY <2>1, <3>1 DEF FrameAgrees, Buffered
  <2> QED
    BY <2>1, <2>2, <2>3
<1>10. ASSUME NEW r, NEW paused, OfferLastChunk(r, paused) PROVE FrameAgrees' /\ Buffered'
  <2>1. /\ state = "PARSING_BODY" /\ ~frame.fill /\ ~frame.drain /\ UNCHANGED <<sendBuf, response, shutdown>>
        /\ state' = "SKIPPING_TRAILER"
        /\ frame' = frame \/ Leave(r)
    BY <1>10 DEF OfferLastChunk, Step, MayAdvance, Continue
  <2>2. CASE frame' = frame
    BY <2>1, <2>2 DEF FrameAgrees, Buffered
  <2>3. CASE Leave(r)
    <3>1. ~frame'.fill /\ ~frame'.drain /\ ~frame'.last /\ frame'.handler = "handler"
      BY <2>3, RestShape
    <3> QED
      BY <2>1, <3>1 DEF FrameAgrees, Buffered
  <2> QED
    BY <2>1, <2>2, <2>3
<1>11. ASSUME NEW r, NEW paused, NoOffer(r, paused) PROVE FrameAgrees' /\ Buffered'
  BY <1>1, <1>11 DEF NoOffer
<1>12. CASE OfferPieceToConsumer
  <2>1. UNCHANGED <<state, sendBuf, response, shutdown>> /\ frame.handler = "consumer" /\ state = "PARSING_BODY"
    BY <1>12 DEF OfferPieceToConsumer, Step
  <2>2. CASE frame.left > 0
    <3>1. frame' = [frame EXCEPT !.left = @ - 1]
      BY <1>12, <2>2 DEF OfferPieceToConsumer
    <3> QED
      BY <1>0, <2>1, <3>1 DEF FrameAgrees, Buffered, Frames
  <2>3. CASE ~(frame.left > 0)
    BY <1>1, <1>12, <2>1, <2>3 DEF OfferPieceToConsumer
  <2> QED
    BY <2>2, <2>3
<1>13. CASE StateSkipTrailer
  <2>1. /\ state = "SKIPPING_TRAILER" /\ UNCHANGED <<sendBuf, response, shutdown>> /\ ~frame.fill /\ ~frame.drain
        /\ \/ state' = state /\ Again
           \/ state' = "FORMATTING_HEADERS" /\ frame' = frame
    BY <1>13 DEF StateSkipTrailer, Step, MayAdvance, Continue
  <2>2. CASE state' = state /\ Again
    <3>1. /\ frame'.fill /\ ~frame'.drain /\ frame'.last = frame.last
          /\ frame'.handler = frame.handler /\ frame'.left = frame.left
      BY <2>1, <2>2, AgainShape DEF RecvStates, SendStates
    <3> QED
      BY <2>1, <2>2, <3>1 DEF FrameAgrees, Buffered, RecvStates
  <2>3. CASE state' = "FORMATTING_HEADERS" /\ frame' = frame
    BY <2>1, <2>3 DEF FrameAgrees, Buffered
  <2> QED
    BY <2>1, <2>2, <2>3
<1>14. CASE StateSendResponseHeaders
  <2>1. state = "FORMATTING_HEADERS" /\ ~frame.fill /\ ~frame.drain /\ UNCHANGED shutdown
    BY <1>14 DEF StateSendResponseHeaders, Step, MayAdvance
  <2>2. CASE sendBuf < SendSize
    <3>1. /\ sendBuf' = sendBuf + 1 /\ state' = "FORMATTING_BODY" /\ frame' = frame
          /\ response' \in IF response.set THEN {response} ELSE Responses
      BY <1>14, <2>2 DEF StateSendResponseHeaders, Continue
    <3>2. response' \in Responses
      BY <1>0, <3>1 DEF NoResponse
    <3>3. response'.set /\ response'.left >= 0
      <4>1. response'.set = TRUE
        BY <3>2 DEF Responses
      <4>2. response'.left \in 0 .. MaxBody
        BY <3>2 DEF Responses
      <4> QED
        BY <4>1, <4>2, BoundsAssumption
    <3>4. frame.handler = "producer" => frame.left = 0
      BY <2>1 DEF FrameAgrees
    <3> QED
      BY <1>0, <2>1, <3>1, <3>3, <3>4 DEF FrameAgrees, Buffered
  <2>3. CASE ~(sendBuf < SendSize)
    <3>1. UNCHANGED <<state, sendBuf, response>> /\ Again
      BY <1>14, <2>3 DEF StateSendResponseHeaders
    <3>2. /\ ~frame'.fill /\ frame'.drain /\ frame'.last = frame.last
          /\ frame'.handler = frame.handler /\ frame'.left = frame.left
      BY <2>1, <3>1, AgainShape DEF RecvStates, SendStates
    <3> QED
      BY <1>0, <2>1, <2>3, <3>1, <3>2 DEF FrameAgrees, Buffered
  <2> QED
    BY <2>2, <2>3
<1>15. ASSUME NEW n \in 1 .. MaxBody, FormatChunk(n) PROVE FrameAgrees' /\ Buffered'
  <2>1. /\ state = "FORMATTING_BODY" /\ response.set /\ response.left \in 1 .. MaxBody
        /\ response \in Responses /\ ~frame.last /\ ~frame.drain /\ ~frame.fill
    BY <1>15, FormatFacts
  <2>2. UNCHANGED <<state, shutdown>>
    BY <1>15 DEF FormatChunk
  <2>3. CASE UNCHANGED <<sendBuf, response>> /\ Again /\ sendBuf = SendSize
    <3>1. /\ ~frame'.fill /\ frame'.drain /\ frame'.last = frame.last
          /\ frame'.handler = frame.handler /\ frame'.left = frame.left
      BY <2>1, <2>3, AgainShape DEF RecvStates, SendStates
    <3> QED
      BY <1>0, <2>1, <2>2, <2>3, <3>1 DEF FrameAgrees, Buffered
  <2>4. CASE \E k \in 1 .. response.left :
                   /\ sendBuf' = sendBuf + k /\ sendBuf + k \in 0 .. SendSize
                   /\ response' = [response EXCEPT !.left = response.left - k]
                   /\ frame' = IF frame.handler = "producer"
                               THEN [frame EXCEPT !.left = frame.left - k] ELSE frame
                   /\ frame.handler = "producer" => k <= frame.left
    <3>1. PICK k \in 1 .. response.left :
                   /\ sendBuf' = sendBuf + k /\ sendBuf + k \in 0 .. SendSize
                   /\ response' = [response EXCEPT !.left = response.left - k]
                   /\ frame' = IF frame.handler = "producer"
                               THEN [frame EXCEPT !.left = frame.left - k] ELSE frame
                   /\ frame.handler = "producer" => k <= frame.left
      BY <2>4
    <3>2. response'.set /\ response'.left = response.left - k /\ sendBuf' > 0
      <4>1. response'.set = response.set
        BY <2>1, <3>1 DEF Responses
      <4>2. response'.left = response.left - k
        BY <2>1, <3>1 DEF Responses
      <4>3. sendBuf' > 0
        BY <1>0, <2>1, <3>1, BoundsAssumption
      <4> QED
        BY <2>1, <4>1, <4>2, <4>3
    <3>3. /\ frame'.fill = frame.fill /\ frame'.drain = frame.drain /\ frame'.last = frame.last
          /\ frame'.handler = frame.handler
          /\ frame.handler = "producer" => frame'.left = frame.left - k
      BY <1>0, <3>1 DEF Frames
    <3>4. frame'.handler = "producer" => frame'.left <= response'.left
      <4>1. frame.handler = "producer" => frame.left <= response.left
        BY DEF FrameAgrees
      <4>2. frame.left \in Int
        BY <1>0, BoundsAssumption DEF Frames
      <4> QED
        BY <2>1, <3>2, <3>3, <4>1, <4>2, BoundsAssumption
    <3> QED
      BY <2>1, <2>2, <3>2, <3>3, <3>4 DEF FrameAgrees, Buffered
  <2> QED
    BY <1>15, <2>3, <2>4, FormatFacts
<1>16. CASE EndBody
  <2>1. state = "FORMATTING_BODY" /\ ~frame.fill /\ ~frame.drain /\ UNCHANGED <<shutdown, response>> /\ Offers(0)
    BY <1>16 DEF EndBody, Step, MayAdvance
  <2>2. CASE response.chunked /\ sendBuf = SendSize
    <3>1. UNCHANGED <<state, sendBuf>> /\ Again
      BY <1>16, <2>2 DEF EndBody
    <3>2. /\ ~frame'.fill /\ frame'.drain /\ frame'.last = frame.last
          /\ frame'.handler = frame.handler /\ frame'.left = frame.left
      BY <2>1, <3>1, AgainShape DEF RecvStates, SendStates
    <3> QED
      BY <1>0, <2>1, <2>2, <3>1, <3>2 DEF FrameAgrees, Buffered
  <2>3. CASE ~(response.chunked /\ sendBuf = SendSize)
    <3>1. /\ sendBuf' = IF response.chunked THEN sendBuf + 1 ELSE sendBuf
          /\ state' = "FLUSHING_BODY" /\ frame' = frame
      BY <1>16, <2>3 DEF EndBody, Continue
    <3>2. response.left = 0 \/ frame.last
      BY <2>1 DEF Offers
    <3>3. frame.handler = "producer" => frame.left = 0
      BY <2>1 DEF Offers
    <3>4. sendBuf' > 0
      BY <1>0, <2>1, <3>1, <3>2 DEF Buffered
    <3> QED
      BY <2>1, <3>1, <3>3, <3>4 DEF FrameAgrees, Buffered
  <2> QED
    BY <2>2, <2>3
<1>17. CASE StateFlushResponseBody
  <2>1. state = "FLUSHING_BODY" /\ ~frame.fill /\ ~frame.drain
    BY <1>17 DEF StateFlushResponseBody, Step, MayAdvance
  <2>2. PICK out \in FlushSendBuffer :
          /\ sendBuf' = out.left
          /\ state' = IF out.result = "SUCCESS" THEN "TRANSACTION_END" ELSE state
          /\ UNCHANGED <<response, shutdown>>
          /\ IF out.result = "SUCCESS" THEN frame' = frame ELSE Leave(out.result)
    BY <1>17 DEF StateFlushResponseBody, Continue
  <2>3. CASE out.result = "SUCCESS"
    BY <2>1, <2>2, <2>3 DEF FrameAgrees, Buffered
  <2>4. CASE out.result # "SUCCESS"
    <3>1. ~frame'.fill /\ ~frame'.drain /\ ~frame'.last /\ frame'.handler = "handler"
      BY <2>2, <2>4, RestShape
    <3>2. ~shutdown => sendBuf' > 0
      BY <2>1, <2>2, <2>4, FlushFacts DEF Buffered
    <3> QED
      BY <2>1, <2>2, <2>4, <3>1, <3>2 DEF FrameAgrees, Buffered
  <2> QED
    BY <2>3, <2>4
<1>18. CASE StateEndTransaction
  <2>1. state = "TRANSACTION_END" /\ ~frame.fill /\ ~frame.drain /\ UNCHANGED <<sendBuf, shutdown>>
    BY <1>18 DEF StateEndTransaction, Step, MayAdvance
  <2>2. \/ UNCHANGED <<state, response>> /\ Leave("CLEANUP")
        \/ state' = "TRANSACTION_BEGIN" /\ response' = NoResponse /\ frame' = frame
    BY <1>18 DEF StateEndTransaction, Continue
  <2>3. CASE state' = "TRANSACTION_BEGIN" /\ response' = NoResponse /\ frame' = frame
    <3>1. NoResponse.left = 0
      BY DEF NoResponse
    <3> QED
      BY <2>1, <2>3, <3>1 DEF FrameAgrees, Buffered
  <2> QED
    BY <1>1, <2>1, <2>2, <2>3
<1>19. CASE Advance
  BY <1>2, <1>3, <1>4, <1>5, <1>6, <1>7, <1>8, <1>9, <1>10, <1>11, <1>12, <1>13, <1>14, <1>15,
     <1>16, <1>17, <1>18, <1>19 DEF Advance
<1>20. CASE HandleReadable \/ HandleWritable
  <2>1. UNCHANGED <<state, sendBuf, response, shutdown>>
    BY <1>20 DEF HandleReadable, HandleWritable, HandleEvent
  <2>2. \/ frame' = Idle
        \/ frame' = IoFrame(TRUE) /\ WantRead(state, flags)
        \/ frame' = IoFrame(FALSE)
    BY <1>20 DEF HandleReadable, HandleWritable, HandleEvent
  <2>3. \A b \in BOOLEAN : /\ IoFrame(b).fill = b /\ IoFrame(b).drain = FALSE
                           /\ IoFrame(b).last = FALSE /\ IoFrame(b).handler = "handler"
    BY DEF IoFrame, Idle
  <2>4. CASE frame' = IoFrame(TRUE) /\ WantRead(state, flags)
    BY <2>1, <2>3, <2>4 DEF FrameAgrees, Buffered, WantRead
  <2> QED
    BY <2>1, <2>2, <2>3, <2>4, RestFrames, RestBooks
<1>21. CASE RemoveSocket \/ Abort
  BY <1>21, RestFrames, RestBooks DEF RemoveSocket, Abort
<1>22. CASE HandleRemove
  <2>1. ~frame'.fill /\ ~frame'.drain /\ ~frame'.last /\ frame'.handler = "handler"
    BY <1>22, RestFrames DEF HandleRemove
  <2>2. state' = "INACTIVE"
    BY <1>22 DEF HandleRemove
  <2> QED
    BY <2>1, <2>2 DEF FrameAgrees, Buffered
<1>23. CASE SendResponse
  <2>1. UNCHANGED <<state, sendBuf, shutdown>> /\ ~response.set /\ frame' = CallFrame("handler", 0, FALSE, {"send"})
    BY <1>23 DEF SendResponse
  <2>2. ~frame'.fill /\ ~frame'.drain /\ ~frame'.last /\ frame'.handler = "handler"
    BY <2>1 DEF CallFrame, Idle
  <2>3. state # "FORMATTING_BODY"
    BY <2>1 DEF Buffered
  <2> QED
    BY <2>1, <2>2, <2>3 DEF FrameAgrees, Buffered
<1>24. ASSUME NEW n \in 0 .. MaxBody, SendResponseBody(n) PROVE FrameAgrees' /\ Buffered'
  <2>1. /\ UNCHANGED <<state, sendBuf, response, shutdown>> /\ state = "FORMATTING_BODY"
        /\ n <= response.left /\ (n = 0 => response.left = 0)
        /\ frame' = CallFrame("producer", n, n = 0, {"send"})
    BY <1>24 DEF SendResponseBody
  <2>2. /\ ~frame'.fill /\ ~frame'.drain /\ frame'.last = (n = 0) /\ frame'.handler = "producer"
        /\ frame'.left = n
    BY <2>1 DEF CallFrame, Idle
  <2> QED
    BY <2>1, <2>2 DEF FrameAgrees, Buffered
<1>25. ASSUME NEW n, ReadRequestBody(n) PROVE FrameAgrees' /\ Buffered'
  <2>1. UNCHANGED <<state, sendBuf, response, shutdown>> /\ frame' = CallFrame("consumer", n, FALSE, {"recv"})
    BY <1>25 DEF ReadRequestBody
  <2>2. ~frame'.fill /\ ~frame'.drain /\ ~frame'.last /\ frame'.handler = "consumer"
    BY <2>1 DEF CallFrame, Idle
  <2> QED
    BY <2>1, <2>2, RestBooks
<1>26. ASSUME NEW f, NEW update, PauseOrResume(f, update) PROVE FrameAgrees' /\ Buffered'
  BY <1>26 DEF PauseOrResume, FrameAgrees, Buffered
<1>27. CASE Call
  BY <1>21, <1>23, <1>24, <1>25, <1>26, <1>27 DEF Call
<1>28. CASE Shutdown
  BY <1>28 DEF Shutdown, FrameAgrees, Buffered
<1> QED
  BY <1>19, <1>20, <1>21, <1>22, <1>27, <1>28 DEF Next

-----------------------------------------------------------------------------
(* The stream of tokens.                                                   *)

(***************************************************************************)
(* What the client sends next, and where that leaves it.                   *)
(***************************************************************************)
LEMMA TokenFacts ==
    ASSUME NEW p \in Peers, NEW a \in NextTokens(p)
    PROVE  /\ a = <<a[1], a[2]>> /\ a[1] \in Tokens /\ a[2] \in Peers
           /\ p = "idle" => /\ a[1] \in {"get", "put", "post", "bad"}
                            /\ a[1] = "get" => a[2] = "idle"
                            /\ a[1] = "put" => a[2] = "put"
                            /\ a[1] = "post" => a[2] = "post"
           /\ p = "put" => a[1] = "piece" /\ a[2] = "idle"
           /\ p = "post" => /\ a[1] \in {"piece", "last", "bad"}
                            /\ a[1] = "piece" => a[2] = "post"
                            /\ a[1] = "last" => a[2] = "trailer"
           /\ p = "trailer" => a[1] = "end" /\ a[2] = "idle"
           /\ p # "done"
<1>1. CASE p = "idle"
  BY <1>1 DEF NextTokens, Tokens, Peers
<1>2. CASE p = "put"
  BY <1>2 DEF NextTokens, Tokens, Peers
<1>3. CASE p = "post"
  BY <1>3 DEF NextTokens, Tokens, Peers
<1>4. CASE p = "trailer"
  BY <1>4 DEF NextTokens, Tokens, Peers
<1>5. CASE p = "done"
  BY <1>5 DEF NextTokens
<1> QED
  BY <1>1, <1>2, <1>3, <1>4, <1>5 DEF Peers

(***************************************************************************)
(* With nothing buffered, the parser is where the client is.               *)
(***************************************************************************)
LEMMA PathEmpty ==
    ASSUME NEW p \in Peers, NEW q \in Peers
    PROVE  Path(p, <<>>, q) <=> p = q
<1>1. ASSUME Path(p, <<>>, q) PROVE p = q
  BY <1>1 DEF Path
<1>2. ASSUME p = q PROVE Path(p, <<>>, q)
  <2> DEFINE h == [k \in 1 .. 1 |-> p]
  <2>1. h \in [1 .. Len(<<>>) + 1 -> Peers] /\ h[1] = p /\ h[Len(<<>>) + 1] = q
    BY <1>2
  <2>2. \A k \in 1 .. Len(<<>>) : <<(<<>>)[k], h[k + 1]>> \in NextTokens(h[k])
    OBVIOUS
  <2> HIDE DEF h
  <2> QED
    BY <2>1, <2>2 DEF Path
<1> QED
  BY <1>1, <1>2

(***************************************************************************)
(* The first buffered token is one the client may have sent from where the *)
(* parser is, and reading it moves the parser along.                       *)
(***************************************************************************)
LEMMA PathHead ==
    ASSUME NEW p, NEW q, NEW s \in Seq(Tokens), s # <<>>, Path(p, s, q)
    PROVE  /\ p \in Peers
           /\ \E a \in NextTokens(p) : a[1] = Head(s) /\ Path(a[2], Tail(s), q)
<1>1. PICK h \in [1 .. Len(s) + 1 -> Peers] :
        /\ h[1] = p /\ h[Len(s) + 1] = q
        /\ \A k \in 1 .. Len(s) : <<s[k], h[k + 1]>> \in NextTokens(h[k])
  BY DEF Path
<1>2. /\ Len(s) \in Nat /\ Len(s) # 0 /\ Head(s) = s[1] /\ Len(Tail(s)) = Len(s) - 1
      /\ \A k \in 1 .. Len(Tail(s)) : Tail(s)[k] = s[k + 1]
  OBVIOUS
<1> DEFINE g == [k \in 1 .. Len(Tail(s)) + 1 |-> h[k + 1]]
<1>3. g \in [1 .. Len(Tail(s)) + 1 -> Peers]
  BY <1>1, <1>2
<1>4. g[1] = h[2] /\ g[Len(Tail(s)) + 1] = q
  BY <1>1, <1>2
<1>5. ASSUME NEW k \in 1 .. Len(Tail(s)) PROVE <<Tail(s)[k], g[k + 1]>> \in NextTokens(g[k])
  <2>1. k + 1 \in 1 .. Len(s) /\ g[k + 1] = h[k + 1 + 1] /\ g[k] = h[k + 1] /\ Tail(s)[k] = s[k + 1]
    BY <1>2
  <2> QED
    BY <1>1, <2>1
<1>6. Path(h[2], Tail(s), q)
  <2> HIDE DEF g
  <2> QED
    BY <1>3, <1>4, <1>5 DEF Path
<1>7. <<s[1], h[2]>> \in NextTokens(p) /\ p \in Peers
  <2>1. 1 \in 1 .. Len(s) /\ 1 + 1 = 2 /\ 1 \in 1 .. Len(s) + 1
    BY <1>2
  <2> QED
    BY <1>1, <2>1
<1>8. <<s[1], h[2]>>[1] = Head(s) /\ <<s[1], h[2]>>[2] = h[2]
  BY <1>2
<1> QED
  BY <1>6, <1>7, <1>8

(***************************************************************************)
(* One more token arrives.                                                 *)
(***************************************************************************)
LEMMA PathAppend ==
    ASSUME NEW p, NEW q, NEW s \in Seq(Tokens), Path(p, s, q), NEW a \in NextTokens(q)
    PROVE  Path(p, Append(s, a[1]), a[2]) /\ q \in Peers
<1>1. PICK h \in [1 .. Len(s) + 1 -> Peers] :
        /\ h[1] = p /\ h[Len(s) + 1] = q
        /\ \A k \in 1 .. Len(s) : <<s[k], h[k + 1]>> \in NextTokens(h[k])
  BY DEF Path
<1>2. Len(s) \in Nat /\ q \in Peers
  BY <1>1
<1>3. a = <<a[1], a[2]>> /\ a[1] \in Tokens /\ a[2] \in Peers
  BY <1>2, TokenFacts
<1> DEFINE t == Append(s, a[1])
           g == [k \in 1 .. Len(t) + 1 |-> IF k = Len(s) + 2 THEN a[2] ELSE h[k]]
<1>4. /\ Len(t) = Len(s) + 1 /\ t[Len(s) + 1] = a[1]
      /\ \A k \in 1 .. Len(s) : t[k] = s[k]
  BY <1>2, <1>3
<1> HIDE DEF t
<1>5. g \in [1 .. Len(t) + 1 -> Peers]
  BY <1>1, <1>2, <1>3, <1>4
<1>6. g[1] = p /\ g[Len(t) + 1] = a[2] /\ g[Len(s) + 1] = q
  BY <1>1, <1>2, <1>4
<1>7. ASSUME NEW k \in 1 .. Len(t) PROVE <<t[k], g[k + 1]>> \in NextTokens(g[k])
  <2>1. CASE k = Len(s) + 1
    <3>1. t[k] = a[1] /\ g[k + 1] = a[2] /\ g[k] = q
      BY <1>2, <1>4, <1>6, <2>1
    <3> QED
      BY <1>3, <3>1
  <2>2. CASE k # Len(s) + 1
    <3>1. k \in 1 .. Len(s) /\ t[k] = s[k] /\ g[k + 1] = h[k + 1] /\ g[k] = h[k]
      BY <1>2, <1>4, <2>2
    <3> QED
      BY <1>1, <3>1
  <2> QED
    BY <2>1, <2>2
<1>8. Path(p, t, a[2])
  <2> HIDE DEF g
  <2> QED
    BY <1>5, <1>6, <1>7 DEF Path
<1> QED
  BY <1>2, <1>8 DEF t

(***************************************************************************)
(* A receive appends one or two tokens.                                    *)
(***************************************************************************)
LEMMA PathBurst ==
    ASSUME NEW p, NEW q, NEW s \in Seq(Tokens), Path(p, s, q), NEW burst \in Bursts(q)
    PROVE  /\ Path(p, s \o burst[1], burst[2])
           /\ burst[1] \in Seq(Tokens) /\ burst[2] \in Peers /\ Len(burst[1]) > 0
<1>0. q \in Peers
  <2>1. PICK h \in [1 .. Len(s) + 1 -> Peers] : h[Len(s) + 1] = q
    BY DEF Path
  <2> QED
    BY <2>1
<1>1. CASE \E a \in NextTokens(q) : burst = << <<a[1]>>, a[2]>>
  <2>1. PICK a \in NextTokens(q) : burst = << <<a[1]>>, a[2]>>
    BY <1>1
  <2>2. a[1] \in Tokens /\ a[2] \in Peers
    BY <1>0, TokenFacts
  <2>3. burst[1] = <<a[1]>> /\ burst[2] = a[2]
    BY <2>1
  <2>4. s \o <<a[1]>> = Append(s, a[1])
    BY <2>2
  <2>5. <<a[1]>> \in Seq(Tokens) /\ Len(<<a[1]>>) = 1
    BY <2>2
  <2>6. Path(p, Append(s, a[1]), a[2])
    BY PathAppend
  <2>7. Path(p, s \o burst[1], burst[2])
    BY <2>3, <2>4, <2>6, Zenon
  <2>8. Len(burst[1]) = 1 /\ burst[1] \in Seq(Tokens)
    BY <2>3, <2>5, Zenon
  <2>9. burst[2] \in Peers
    BY <2>2, <2>3
  <2> QED
    BY <2>7, <2>8, <2>9
<1>2. CASE \E a \in NextTokens(q) : \E b \in NextTokens(a[2]) : burst = << <<a[1], b[1]>>, b[2]>>
  <2>1. PICK a \in NextTokens(q) : \E b \in NextTokens(a[2]) : burst = << <<a[1], b[1]>>, b[2]>>
    BY <1>2
  <2>2. PICK b \in NextTokens(a[2]) : burst = << <<a[1], b[1]>>, b[2]>>
    BY <2>1
  <2>3. a[1] \in Tokens /\ a[2] \in Peers
    BY <1>0, TokenFacts
  <2>4. b[1] \in Tokens /\ b[2] \in Peers
    BY <2>3, TokenFacts
  <2>5. burst[1] = <<a[1], b[1]>> /\ burst[2] = b[2]
    BY <2>2
  <2>6. s \o <<a[1], b[1]>> = Append(Append(s, a[1]), b[1])
    BY <2>3, <2>4
  <2>7. Path(p, Append(s, a[1]), a[2]) /\ Append(s, a[1]) \in Seq(Tokens)
    BY <2>3, PathAppend
  <2>8. Path(p, Append(Append(s, a[1]), b[1]), b[2])
    BY <2>7, PathAppend
  <2>9. <<a[1], b[1]>> \in Seq(Tokens) /\ Len(<<a[1], b[1]>>) = 2
    BY <2>3, <2>4
  <2>10. Path(p, s \o burst[1], burst[2])
    BY <2>5, <2>6, <2>8, Zenon
  <2>11. Len(burst[1]) = 2 /\ burst[1] \in Seq(Tokens)
    BY <2>5, <2>9, Zenon
  <2>12. burst[2] \in Peers
    BY <2>4, <2>5
  <2> QED
    BY <2>10, <2>11, <2>12
<1> QED
  BY <1>1, <1>2 DEF Bursts

(***************************************************************************)
(* A step that leaves the received tokens alone keeps the parser in step   *)
(* unless it claims a new position.                                        *)
(***************************************************************************)
LEMMA StreamSame ==
    ASSUME Stream, UNCHANGED <<recvBuf, peer, avail>>, InStep' => InStep /\ Position' = Position
    PROVE  Stream'
BY DEF Stream

(***************************************************************************)
(* What currentChunkBytesAvailable finds is what the client sent.          *)
(***************************************************************************)
LEMMA ChunkFacts ==
    ASSUME TypeOK, Stream, Offered, state = "PARSING_BODY"
    PROVE  /\ CurrentChunk = "piece" =>
                /\ recvBuf # <<>> /\ Head(recvBuf) = "piece"
                /\ Position \in {"put", "post"}
           /\ CurrentChunk = "last" =>
                /\ avail = 0
                /\ request.kind = "post" => recvBuf # <<>> /\ Head(recvBuf) = "last"
                /\ request.kind # "post" => Position = "idle"
<1>1. Path(Position, recvBuf, peer) /\ "LAST_CHUNK" \notin flags
  BY DEF Stream, InStep, RecvStates, Offered
<1>2. recvBuf \in Seq(Tokens) /\ avail \in 0 .. 1 /\ request \in Requests
  BY DEF TypeOK
<1>3. request.kind \in {"none", "get", "put", "post"} /\ request.left \in 0 .. 1
  BY <1>2 DEF Requests
<1>4. CASE avail > 0
  <2>1. CurrentChunk = "piece"
    BY <1>4 DEF CurrentChunk
  <2>2. recvBuf # <<>> /\ Head(recvBuf) = "piece" /\ Position \in {"put", "post"}
    BY <1>4 DEF Stream, InStep, RecvStates
  <2> QED
    BY <2>1, <2>2
<1>5. CASE ~(avail > 0)
  <2>1. avail = 0
    BY <1>2, <1>5
  <2>2. ASSUME CurrentChunk = "piece"
        PROVE  recvBuf # <<>> /\ Head(recvBuf) = "piece" /\ Position \in {"put", "post"}
    <3>1. \/ request.kind = "put" /\ request.left = 1 /\ recvBuf # <<>>
          \/ request.kind \in {"none", "post"} /\ recvBuf # <<>> /\ Head(recvBuf) = "piece"
      BY <1>1, <1>3, <1>5, <2>2 DEF CurrentChunk
    <3>2. PICK a \in NextTokens(Position) : a[1] = Head(recvBuf)
      BY <1>1, <1>2, <3>1, PathHead
    <3>3. Position \in Peers
      BY <1>1, <1>2, <3>1, PathHead
    <3>4. CASE request.kind = "put" /\ request.left = 1
      <4>1. Position = "put"
        BY <3>4 DEF Position
      <4> QED
        BY <3>1, <3>2, <3>3, <4>1, TokenFacts
    <3>5. CASE request.kind = "post"
      <4>1. Position = "post"
        BY <3>5 DEF Position
      <4> QED
        BY <3>1, <3>5, <4>1
    <3>6. CASE request.kind = "none"
      <4>1. Position = "idle"
        BY <3>6 DEF Position
      <4> QED
        BY <3>1, <3>2, <3>3, <3>6, <4>1, TokenFacts
    <3> QED
      BY <3>1, <3>4, <3>5, <3>6
  <2>3. ASSUME CurrentChunk = "last"
        PROVE  /\ request.kind = "post" => recvBuf # <<>> /\ Head(recvBuf) = "last"
               /\ request.kind # "post" => Position = "idle"
    <3>1. \/ request.kind = "get"
          \/ request.kind = "put" /\ request.left = 0
          \/ request.kind \in {"none", "post"} /\ recvBuf # <<>> /\ Head(recvBuf) = "last"
      BY <1>1, <1>3, <1>5, <2>3 DEF CurrentChunk
    <3> QED
      BY <3>1 DEF Position
  <2> QED
    BY <2>1, <2>2, <2>3
<1> QED
  BY <1>4, <1>5

(***************************************************************************)
(* A piece that is taken moves the parser past it.                         *)
(***************************************************************************)
LEMMA PieceKeeps ==
    ASSUME TypeOK, Stream, Offered, state = "PARSING_BODY", CurrentChunk = "piece",
           NEW taken \in BOOLEAN, ConsumePiece(taken), UNCHANGED peer,
           \/ state' = state
           \/ state' = "FORMATTING_HEADERS" /\ "CANNOT_REUSE" \in flags'
    PROVE  Stream'
<1>1. /\ recvBuf # <<>> /\ Head(recvBuf) = "piece" /\ Position \in {"put", "post"}
  BY ChunkFacts
<1>2. CASE state' # state
  BY <1>2 DEF Stream, InStep, RecvStates, SendStates
<1>3. CASE state' = state
  <2>1. Path(Position, recvBuf, peer)
    BY DEF Stream, InStep, RecvStates
  <2>2. request \in Requests /\ recvBuf \in Seq(Tokens)
    BY DEF TypeOK
  <2>3. CASE taken
    <3>1. /\ avail' = 0 /\ recvBuf' = Tail(recvBuf)
          /\ request' = [request EXCEPT !.left = IF @ > 0 THEN @ - 1 ELSE @]
      BY <2>3 DEF ConsumePiece
    <3>2. PICK a \in NextTokens(Position) : a[1] = "piece" /\ Path(a[2], Tail(recvBuf), peer)
      BY <1>1, <2>1, <2>2, PathHead
    <3>3. Position \in Peers
      BY <1>1 DEF Peers
    <3>4. request'.kind = request.kind /\ request'.left = IF request.left > 0 THEN request.left - 1 ELSE request.left
      BY <2>2, <3>1 DEF Requests
    <3>5. CASE Position = "put"
      <4>1. request.kind = "put" /\ request.left = 1
        BY <3>5 DEF Position
      <4>2. Position' = "idle"
        BY <1>3, <3>4, <4>1 DEF Position
      <4>3. a[2] = "idle"
        BY <3>2, <3>3, <3>5, TokenFacts
      <4> QED
        BY <3>1, <3>2, <4>2, <4>3 DEF Stream
    <3>6. CASE Position = "post"
      <4>1. request.kind = "post"
        BY <3>6 DEF Position
      <4>2. Position' = "post"
        BY <1>3, <3>4, <4>1 DEF Position
      <4>3. a[2] = "post"
        BY <3>2, <3>3, <3>6, TokenFacts
      <4> QED
        BY <3>1, <3>2, <4>2, <4>3 DEF Stream
    <3> QED
      BY <1>1, <3>5, <3>6
  <2>4. CASE ~taken
    <3>1. recvBuf' = recvBuf /\ request' = [request EXCEPT !.left = @]
      BY <2>4 DEF ConsumePiece
    <3>2. request'.kind = request.kind /\ request'.left = request.left
      BY <2>2, <3>1 DEF Requests
    <3>3. Position' = Position
      BY <1>3, <3>2 DEF Position
    <3> QED
      BY <1>1, <2>1, <3>1, <3>3 DEF Stream
  <2> QED
    BY <2>3, <2>4
<1> QED
  BY <1>2, <1>3

(***************************************************************************)
(* The parser stays in step with the client as long as the connection can  *)
(* be reused.                                                              *)
(***************************************************************************)
LEMMA StreamStep ==
    ASSUME TypeOK, Stream, Offered, Next
    PROVE  Stream'
<1> USE DEF connVars, dataVars, envVars
<1>0. recvBuf \in Seq(Tokens) /\ request \in Requests /\ avail \in 0 .. 1 /\ peer \in Peers
  BY DEF TypeOK, Peers
<1>1. ASSUME UNCHANGED <<state, recvBuf, peer, avail, request>>,
             "CANNOT_REUSE" \in flags' <=> "CANNOT_REUSE" \in flags
      PROVE  Stream'
  BY <1>1, StreamSame DEF InStep, Position
<1>2. CASE StopAdvancing \/ DrainSendBuffer \/ \E r \in {"AGAIN", "ERROR"} : FillFails(r)
  BY <1>1, <1>2 DEF StopAdvancing, DrainSendBuffer, FillFails
<1>3. CASE NeedMoreHeaders \/ NeedMoreBody
  BY <1>1, <1>3 DEF NeedMoreHeaders, NeedMoreBody
<1>4. CASE FillReceiveBuffer
  <2>1. PICK burst \in Bursts(peer) : recvBuf' = recvBuf \o burst[1] /\ peer' = burst[2]
    BY <1>4 DEF FillReceiveBuffer
  <2>2. UNCHANGED <<state, flags, avail, request>>
    BY <1>4 DEF FillReceiveBuffer
  <2>3. (InStep' <=> InStep) /\ Position' = Position
    BY <2>2 DEF InStep, Position
  <2>4. CASE InStep
    <3>1. Path(Position, recvBuf, peer)
      BY <2>4 DEF Stream
    <3>2. Path(Position, recvBuf', peer') /\ burst[1] \in Seq(Tokens)
      BY <1>0, <2>1, <3>1, PathBurst
    <3>3. recvBuf # <<>> => recvBuf' # <<>> /\ Head(recvBuf') = Head(recvBuf)
      BY <1>0, <2>1, <3>2
    <3> QED
      BY <2>2, <2>3, <2>4, <3>2, <3>3 DEF Stream
  <2> QED
    BY <2>3, <2>4 DEF Stream
<1>5. ASSUME NEW r, StateBeginTransaction(r) PROVE Stream'
  <2>1. /\ state = "TRANSACTION_BEGIN" /\ UNCHANGED <<recvBuf, peer, avail, request>>
        /\ flags' = flags \cup {"CANNOT_REUSE"}
        /\ state' \in {"PARSING_HEADERS", "FORMATTING_HEADERS", "TRANSACTION_BEGIN"}
    BY <1>5 DEF StateBeginTransaction, Step
  <2>2. InStep /\ Position = "idle" /\ Position' = "idle"
    BY <2>1 DEF InStep, Position
  <2> QED
    BY <2>1, <2>2, StreamSame
<1>6. CASE BadRequest
  <2>1. state = "PARSING_HEADERS" /\ state' = "FORMATTING_HEADERS" /\ UNCHANGED <<flags, recvBuf, peer, avail>>
    BY <1>6 DEF BadRequest, Step
  <2>2. "CANNOT_REUSE" \in flags
    BY <2>1 DEF Offered, RecvStates
  <2> QED
    BY <2>1, <2>2 DEF Stream, InStep, RecvStates
<1>7. ASSUME NEW r, NEW paused \in SUBSET Pauses, NEW reuse,
             StateReceiveRequestHeaders(r, paused, reuse) PROVE Stream'
  <2>1. /\ state = "PARSING_HEADERS" /\ recvBuf # <<>> /\ Head(recvBuf) \in {"get", "put", "post"}
        /\ recvBuf' = Tail(recvBuf) /\ UNCHANGED <<peer, avail>> /\ flags' = flags \cup paused
        /\ request' = [kind |-> Head(recvBuf), left |-> IF Head(recvBuf) = "put" THEN 1 ELSE 0,
                       reuse |-> reuse]
        /\ state' = IF r = "SEND_RESPONSE" THEN "FORMATTING_HEADERS" ELSE "PARSING_BODY"
    BY <1>7 DEF StateReceiveRequestHeaders, Step
  <2>2. "CANNOT_REUSE" \in flags'
    BY <2>1 DEF Offered, RecvStates
  <2>3. CASE r = "SEND_RESPONSE"
    BY <2>1, <2>2, <2>3 DEF Stream, InStep, RecvStates
  <2>4. CASE r # "SEND_RESPONSE"
    <3>1. InStep /\ Position = "idle" /\ state' = "PARSING_BODY"
      BY <2>1, <2>4 DEF InStep, Position, RecvStates
    <3>2. Path("idle", recvBuf, peer) /\ ~(avail > 0)
      BY <3>1 DEF Stream
    <3>3. PICK a \in NextTokens("idle") : a[1] = Head(recvBuf) /\ Path(a[2], Tail(recvBuf), peer)
      BY <1>0, <2>1, <3>2, PathHead
    <3>4. "idle" \in Peers
      BY DEF Peers
    <3>5. /\ a[1] = "get" => a[2] = "idle"
          /\ a[1] = "put" => a[2] = "put"
          /\ a[1] = "post" => a[2] = "post"
      BY <3>4, TokenFacts
    <3>6. request'.kind = Head(recvBuf) /\ request'.left = IF Head(recvBuf) = "put" THEN 1 ELSE 0
      BY <2>1
    <3>7. Position' = a[2]
      BY <2>1, <3>1, <3>3, <3>5, <3>6 DEF Position
    <3> QED
      BY <2>1, <3>2, <3>3, <3>7 DEF Stream
  <2> QED
    BY <2>3, <2>4
<1>8. ASSUME NEW r, NEW paused \in SUBSET Pauses, NEW taken \in BOOLEAN,
             OfferPieceToHandler(r, taken, paused) PROVE Stream'
  <2>1. /\ state = "PARSING_BODY" /\ CurrentChunk = "piece" /\ ConsumePiece(taken)
        /\ state' = IF r = "SEND_RESPONSE" THEN "FORMATTING_HEADERS" ELSE state
        /\ flags' = flags \cup paused /\ UNCHANGED peer
    BY <1>8 DEF OfferPieceToHandler, Step
  <2>2. "CANNOT_REUSE" \in flags'
    BY <2>1 DEF Offered, RecvStates
  <2> QED
    BY <2>1, <2>2, PieceKeeps
<1>9. CASE OfferPieceToConsumer
  <2>1. /\ state = "PARSING_BODY" /\ CurrentChunk = "piece" /\ ConsumePiece(frame.left > 0)
        /\ state' = state /\ UNCHANGED peer /\ (frame.left > 0) \in BOOLEAN
    BY <1>9 DEF OfferPieceToConsumer, Step
  <2> QED
    BY <2>1, PieceKeeps
<1>10. ASSUME NEW r, NEW paused \in SUBSET Pauses, OfferLastChunk(r, paused) PROVE Stream'
  <2>1. /\ state = "PARSING_BODY" /\ CurrentChunk = "last" /\ state' = "SKIPPING_TRAILER"
        /\ recvBuf' = IF ParsesLastChunk /\ request.kind = "post" THEN Tail(recvBuf) ELSE recvBuf
        /\ UNCHANGED <<avail, peer, request>>
    BY <1>10 DEF OfferLastChunk, Step
  <2>2. /\ avail = 0
        /\ request.kind = "post" => recvBuf # <<>> /\ Head(recvBuf) = "last"
        /\ request.kind # "post" => Position = "idle"
    BY <2>1, ChunkFacts
  <2>3. Path(Position, recvBuf, peer) /\ "LAST_CHUNK" \notin flags
    BY <2>1 DEF Stream, InStep, RecvStates, Offered
  <2>4. CASE request.kind = "post"
    <3>1. Position = "post" /\ recvBuf' = Tail(recvBuf) /\ Position' = "trailer"
      BY <2>1, <2>3, <2>4 DEF Position, ParsesLastChunk
    <3>2. PICK a \in NextTokens("post") : a[1] = "last" /\ Path(a[2], Tail(recvBuf), peer)
      BY <1>0, <2>2, <2>3, <2>4, <3>1, PathHead
    <3>3. "post" \in Peers
      BY DEF Peers
    <3>4. a[2] = "trailer"
      BY <3>2, <3>3, TokenFacts
    <3> QED
      BY <2>1, <2>2, <3>1, <3>2, <3>4 DEF Stream
  <2>5. CASE request.kind # "post"
    <3>1. recvBuf' = recvBuf /\ Position' = "idle"
      BY <2>1, <2>5 DEF Position
    <3> QED
      BY <2>1, <2>2, <2>3, <2>5, <3>1 DEF Stream
  <2> QED
    BY <2>4, <2>5
<1>11. ASSUME NEW r, NEW paused \in SUBSET Pauses, NoOffer(r, paused) PROVE Stream'
  <2>1. UNCHANGED <<state, recvBuf, peer, avail, request>> /\ flags' = flags \cup paused
    BY <1>11 DEF NoOffer
  <2> QED
    BY <1>1, <2>1 DEF Pauses
<1>12. CASE StateSkipTrailer
  <2>1. state = "SKIPPING_TRAILER" /\ UNCHANGED <<avail, request, peer>>
    BY <1>12 DEF StateSkipTrailer, Step
  <2>2. InStep /\ Path(Position, recvBuf, peer)
    BY <2>1 DEF Stream, InStep, RecvStates
  <2>3. ~(avail > 0)
    BY <2>1, <2>2 DEF Stream, Position
  <2>4. CASE request.kind = "post" /\ recvBuf = <<>>
    BY <1>1, <1>12, <2>1, <2>4 DEF StateSkipTrailer
  <2>5. CASE ~(request.kind = "post" /\ recvBuf = <<>>)
    <3>1. /\ recvBuf' = IF request.kind = "post" THEN Tail(recvBuf) ELSE recvBuf
          /\ state' = "FORMATTING_HEADERS"
      BY <1>12, <2>5 DEF StateSkipTrailer
    <3>2. Position' = "idle"
      BY <3>1 DEF Position
    <3>3. CASE request.kind = "post"
      <4>1. Position = "trailer" /\ recvBuf # <<>>
        BY <2>1, <2>5, <3>3 DEF Position
      <4>2. PICK a \in NextTokens("trailer") : Path(a[2], Tail(recvBuf), peer)
        BY <1>0, <2>2, <4>1, PathHead
      <4>3. "trailer" \in Peers
        BY DEF Peers
      <4>4. a[2] = "idle"
        BY <4>3, TokenFacts
      <4> QED
        BY <2>1, <2>3, <3>1, <3>2, <3>3, <4>2, <4>4 DEF Stream
    <3>4. CASE request.kind # "post"
      <4>1. Position = "idle"
        BY <2>1, <3>4 DEF Position
      <4> QED
        BY <2>1, <2>2, <2>3, <3>1, <3>2, <3>4, <4>1 DEF Stream
    <3> QED
      BY <3>3, <3>4
  <2> QED
    BY <2>4, <2>5
<1>13. CASE StateSendResponseHeaders \/ EndBody \/ StateFlushResponseBody
  <2>1. /\ state \in SendStates /\ state' \in SendStates \cup {"TRANSACTION_END"}
        /\ UNCHANGED <<flags, recvBuf, avail, request, peer>>
    BY <1>13 DEF StateSendResponseHeaders, EndBody, StateFlushResponseBody, Step, SendStates
  <2>2. Position = "idle" /\ Position' = "idle" /\ (InStep' => InStep)
    BY <2>1 DEF Position, InStep, SendStates, RecvStates
  <2> QED
    BY <2>1, <2>2, StreamSame
<1>14. ASSUME NEW n, FormatChunk(n) PROVE Stream'
  BY <1>1, <1>14 DEF FormatChunk
<1>15. CASE StateEndTransaction
  <2>1. state = "TRANSACTION_END" /\ UNCHANGED <<recvBuf, avail, peer>>
    BY <1>15 DEF StateEndTransaction, Step
  <2>2. CASE "CANNOT_REUSE" \in flags \/ response.error \/ ~request.reuse
    BY <1>1, <1>15, <2>2 DEF StateEndTransaction
  <2>3. CASE ~("CANNOT_REUSE" \in flags \/ response.error \/ ~request.reuse)
    <3>1. state' = "TRANSACTION_BEGIN" /\ "CANNOT_REUSE" \notin flags
      BY <1>15, <2>3 DEF StateEndTransaction
    <3>2. InStep /\ Position = "idle" /\ Position' = "idle"
      BY <2>1, <3>1 DEF InStep, Position
    <3> QED
      BY <2>1, <3>2, StreamSame
  <2> QED
    BY <2>2, <2>3
<1>16. CASE Advance
  BY <1>2, <1>3, <1>4, <1>5, <1>6, <1>7, <1>8, <1>9, <1>10, <1>11, <1>12, <1>13, <1>14, <1>15, <1>16
     DEF Advance
<1>17. CASE HandleReadable \/ HandleWritable \/ RemoveSocket
  BY <1>1, <1>17 DEF HandleReadable, HandleWritable, HandleEvent, RemoveSocket
<1>18. CASE Abort
  <2>1. UNCHANGED <<state, recvBuf, peer, avail, request>> /\ flags' = flags \cup {"ABORTED"}
    BY <1>18 DEF Abort
  <2> QED
    BY <1>1, <2>1
<1>19. CASE HandleRemove
  BY <1>19 DEF HandleRemove, Stream, InStep, RecvStates, SendStates
<1>20. CASE SendResponse
  BY <1>1, <1>20 DEF SendResponse
<1>21. ASSUME NEW n, SendResponseBody(n) \/ ReadRequestBody(n) PROVE Stream'
  BY <1>1, <1>21 DEF SendResponseBody, ReadRequestBody
<1>22. ASSUME NEW p \in Pauses, NEW update,
              PauseOrResume(flags \cup {p}, update) \/ PauseOrResume(flags \ {p}, update)
       PROVE  Stream'
  <2>1. /\ UNCHANGED <<state, recvBuf, peer, avail, request>>
        /\ flags' = flags \cup {p} \/ flags' = flags \ {p}
    BY <1>22 DEF PauseOrResume
  <2> QED
    BY <1>1, <2>1 DEF Pauses
<1>23. CASE Call
  BY <1>18, <1>20, <1>21, <1>22, <1>23 DEF Call
<1>24. CASE Shutdown
  BY <1>1, <1>24 DEF Shutdown
<1> QED
  BY <1>16, <1>17, <1>19, <1>23, <1>24 DEF Next

(***************************************************************************)
(* A token that is read makes the buffer shorter.                          *)
(***************************************************************************)
LEMMA TailType ==
    ASSUME NEW s \in Seq(Tokens), s # <<>>, Len(s) <= RecvSize
    PROVE  Tail(s) \in Seq(Tokens) /\ Len(Tail(s)) <= RecvSize /\ Head(s) \in Tokens
<1>1. Tail(s) \in Seq(Tokens) /\ Len(Tail(s)) = Len(s) - 1 /\ Len(s) \in Nat /\ Head(s) \in Tokens
  OBVIOUS
<1> QED
  BY <1>1, BoundsAssumption

(***************************************************************************)
(* The receive buffer, the request and the client stay within their types: *)
(* nothing is read from an empty buffer and none is filled beyond its size.*)
(***************************************************************************)
LEMMA RecvStep ==
    ASSUME TypeOK, Stream, Offered, Next
    PROVE  /\ recvBuf' \in Seq(Tokens) /\ Len(recvBuf') <= RecvSize /\ avail' \in 0 .. 1
           /\ request' \in Requests /\ peer' \in Peers /\ received' \in 0 .. MaxInput
<1> DEFINE Buffer == recvBuf' \in Seq(Tokens) /\ Len(recvBuf') <= RecvSize
           Client == peer' \in Peers /\ received' \in 0 .. MaxInput
           Goal == Buffer /\ avail' \in 0 .. 1 /\ request' \in Requests /\ Client
<1> USE DEF dataVars, envVars
<1>0. /\ recvBuf \in Seq(Tokens) /\ Len(recvBuf) <= RecvSize /\ avail \in 0 .. 1
      /\ request \in Requests /\ peer \in Peers /\ received \in 0 .. MaxInput
  BY DEF TypeOK, Peers
<1>1. ASSUME UNCHANGED <<recvBuf, avail, request, peer, received>> PROVE Goal
  BY <1>0, <1>1
<1>2. CASE StopAdvancing \/ DrainSendBuffer \/ \E r \in {"AGAIN", "ERROR"} : FillFails(r)
  BY <1>1, <1>2 DEF StopAdvancing, DrainSendBuffer, FillFails
<1>3. CASE NeedMoreHeaders \/ NeedMoreBody \/ BadRequest
  BY <1>1, <1>3 DEF NeedMoreHeaders, NeedMoreBody, BadRequest
<1>4. CASE FillReceiveBuffer
  <2>1. PICK burst \in Bursts(peer) :
          /\ Len(recvBuf) + Len(burst[1]) <= RecvSize
          /\ received + Len(burst[1]) <= MaxInput
          /\ recvBuf' = recvBuf \o burst[1]
          /\ peer' = burst[2]
          /\ received' = received + Len(burst[1])
    BY <1>4 DEF FillReceiveBuffer
  <2>2. UNCHANGED <<avail, request>>
    BY <1>4 DEF FillReceiveBuffer
  <2>3. Path(peer, <<>>, peer) /\ <<>> \in Seq(Tokens)
    BY <1>0, PathEmpty
  <2>4. burst[1] \in Seq(Tokens) /\ burst[2] \in Peers
    BY <2>3, PathBurst
  <2>5. Len(burst[1]) \in Nat
    BY <2>4
  <2>6. recvBuf' \in Seq(Tokens) /\ Len(recvBuf') = Len(recvBuf) + Len(burst[1])
    BY <1>0, <2>1, <2>4
  <2>7. received' \in 0 .. MaxInput
    BY <1>0, <2>1, <2>5, BoundsAssumption
  <2> QED
    BY <1>0, <2>1, <2>2, <2>4, <2>6, <2>7
<1>5. ASSUME NEW r, StateBeginTransaction(r) PROVE Goal
  BY <1>1, <1>5 DEF StateBeginTransaction
<1>6. ASSUME NEW r, NEW paused, NEW reuse \in BOOLEAN,
             StateReceiveRequestHeaders(r, paused, reuse) PROVE Goal
  <2>1. /\ recvBuf # <<>> /\ Head(recvBuf) \in {"get", "put", "post"}
        /\ recvBuf' = Tail(recvBuf) /\ UNCHANGED <<avail, peer, received>>
        /\ request' = [kind |-> Head(recvBuf), left |-> IF Head(recvBuf) = "put" THEN 1 ELSE 0,
                       reuse |-> reuse]
    BY <1>6 DEF StateReceiveRequestHeaders
  <2>2. request' \in Requests
    <3>1. (IF Head(recvBuf) = "put" THEN 1 ELSE 0) \in 0 .. 1
      OBVIOUS
    <3> QED
      BY <2>1, <3>1 DEF Requests
  <2>3. Buffer
    BY <1>0, <2>1, TailType
  <2> QED
    BY <1>0, <2>1, <2>2, <2>3
<1>7. ASSUME NEW taken \in BOOLEAN, state = "PARSING_BODY", CurrentChunk = "piece", ConsumePiece(taken),
             UNCHANGED <<peer, received>> PROVE Goal
  <2>1. recvBuf # <<>>
    BY <1>7, ChunkFacts
  <2>2. Buffer
    BY <1>0, <1>7, <2>1, TailType DEF ConsumePiece
  <2>3. request' \in Requests
    <3>1. request.left \in 0 .. 1
      BY <1>0 DEF Requests
    <3>2. (IF taken /\ request.left > 0 THEN request.left - 1 ELSE request.left) \in 0 .. 1
      BY <3>1
    <3> QED
      BY <1>0, <1>7, <3>2 DEF ConsumePiece, Requests
  <2>4. avail' \in 0 .. 1
    BY <1>7 DEF ConsumePiece
  <2> QED
    BY <1>0, <1>7, <2>2, <2>3, <2>4
<1>8. ASSUME NEW r, NEW paused, NEW taken \in BOOLEAN, OfferPieceToHandler(r, taken, paused) PROVE Goal
  BY <1>7, <1>8 DEF OfferPieceToHandler, Step
<1>9. CASE OfferPieceToConsumer
  <2>1. /\ state = "PARSING_BODY" /\ CurrentChunk = "piece" /\ ConsumePiece(frame.left > 0)
        /\ UNCHANGED <<peer, received>> /\ (frame.left > 0) \in BOOLEAN
    BY <1>9 DEF OfferPieceToConsumer, Step
  <2> QED
    BY <1>7, <2>1
<1>10. ASSUME NEW r, NEW paused, OfferLastChunk(r, paused) PROVE Goal
  <2>1. /\ state = "PARSING_BODY" /\ CurrentChunk = "last"
        /\ recvBuf' = IF ParsesLastChunk /\ request.kind = "post" THEN Tail(recvBuf) ELSE recvBuf
        /\ UNCHANGED <<avail, peer, received, request>>
    BY <1>10 DEF OfferLastChunk, Step
  <2>2. request.kind = "post" => recvBuf # <<>>
    BY <2>1, ChunkFacts
  <2>3. Buffer
    BY <1>0, <2>1, <2>2, TailType
  <2> QED
    BY <1>0, <2>1, <2>3
<1>11. ASSUME NEW r, NEW paused, NoOffer(r, paused) PROVE Goal
  BY <1>1, <1>11 DEF NoOffer
<1>12. CASE StateSkipTrailer
  <2>1. /\ UNCHANGED <<avail, request, peer, received>>
        /\ recvBuf' = recvBuf \/ (recvBuf # <<>> /\ recvBuf' = Tail(recvBuf))
    BY <1>12 DEF StateSkipTrailer
  <2>2. Buffer
    BY <1>0, <2>1, TailType
  <2> QED
    BY <1>0, <2>1, <2>2
<1>13. CASE StateSendResponseHeaders \/ EndBody \/ StateFlushResponseBody
  BY <1>1, <1>13 DEF StateSendResponseHeaders, EndBody, StateFlushResponseBody
<1>14. ASSUME NEW n, FormatChunk(n) PROVE Goal
  BY <1>1, <1>14 DEF FormatChunk
<1>15. CASE StateEndTransaction
  <2>1. NoRequest \in Requests
    BY DEF NoRequest, Requests
  <2>2. UNCHANGED <<recvBuf, avail, peer, received>> /\ request' \in {request, NoRequest}
    BY <1>15 DEF StateEndTransaction
  <2> QED
    BY <1>0, <2>1, <2>2
<1>16. CASE Advance
  BY <1>2, <1>3, <1>4, <1>5, <1>6, <1>8, <1>9, <1>10, <1>11, <1>12, <1>13, <1>14, <1>15, <1>16
     DEF Advance
<1>17. CASE HandleReadable \/ HandleWritable \/ RemoveSocket \/ Abort
  BY <1>1, <1>17 DEF HandleReadable, HandleWritable, HandleEvent, RemoveSocket, Abort
<1>18. CASE HandleRemove
  <2>1. NoRequest \in Requests
    BY DEF NoRequest, Requests
  <2>2. recvBuf' = <<>> /\ request' = NoRequest /\ UNCHANGED <<avail, peer, received>>
    BY <1>18 DEF HandleRemove
  <2>3. <<>> \in Seq(Tokens) /\ Len(<<>>) <= RecvSize
    BY BoundsAssumption
  <2> QED
    BY <1>0, <2>1, <2>2, <2>3
<1>19. CASE SendResponse
  BY <1>1, <1>19 DEF SendResponse
<1>20. ASSUME NEW n, SendResponseBody(n) \/ ReadRequestBody(n) PROVE Goal
  BY <1>1, <1>20 DEF SendResponseBody, ReadRequestBody
<1>21. ASSUME NEW f, NEW update, PauseOrResume(f, update) PROVE Goal
  BY <1>1, <1>21 DEF PauseOrResume
<1>22. CASE Call
  BY <1>17, <1>19, <1>20, <1>21, <1>22 DEF Call
<1>23. CASE Shutdown
  BY <1>1, <1>23 DEF Shutdown
<1> QED
  BY <1>16, <1>17, <1>18, <1>22, <1>23 DEF Next

-----------------------------------------------------------------------------
(* The end of a transaction.                                               *)

(***************************************************************************)
(* The last state is left, or rests, only after endTransaction.            *)
(***************************************************************************)
LEMMA EndStep ==
    ASSUME TypeOK, FrameAgrees, EndTold, TransactionsEnd, Next
    PROVE  EndTold' /\ TransactionsEnd'
<1> DEFINE Goal == EndTold' /\ TransactionsEnd'
<1> USE DEF connVars, dataVars, envVars
<1>0. ASSUME UNCHANGED shutdown, state' \notin {"TRANSACTION_END", "INACTIVE"} PROVE Goal
  BY <1>0 DEF EndTold, TransactionsEnd
<1>1. ASSUME UNCHANGED <<state, open, shutdown>>, state \notin {"TRANSACTION_END", "INACTIVE"} PROVE Goal
  BY <1>0, <1>1
<1>2. ASSUME UNCHANGED <<state, open, shutdown>>, Running' \/ ~Running PROVE Goal
  BY <1>2 DEF EndTold, TransactionsEnd
<1>3. CASE StopAdvancing
  <2>1. Running /\ ~frame.drain /\ ~MayAdvance /\ UNCHANGED <<state, open, shutdown>>
    BY <1>3 DEF StopAdvancing
  <2>2. CASE state = "TRANSACTION_END"
    <3>1. shutdown
      BY <2>1, <2>2 DEF MayAdvance, RecvStates, SendStates
    <3> QED
      BY <2>1, <3>1 DEF EndTold, TransactionsEnd
  <2>3. CASE state # "TRANSACTION_END"
    BY <2>1, <2>3 DEF EndTold, TransactionsEnd
  <2> QED
    BY <2>2, <2>3
<1>4. CASE FillReceiveBuffer \/ \E r \in {"AGAIN", "ERROR"} : FillFails(r)
  <2>1. frame.fill /\ UNCHANGED <<state, open, shutdown>>
    BY <1>4 DEF FillReceiveBuffer, FillFails
  <2>2. state \notin {"TRANSACTION_END", "INACTIVE"}
    BY <2>1 DEF FrameAgrees, RecvStates
  <2> QED
    BY <1>1, <2>1, <2>2
<1>5. CASE DrainSendBuffer
  <2>1. frame.drain /\ UNCHANGED <<state, open, shutdown>>
    BY <1>5 DEF DrainSendBuffer
  <2> QED
    BY <1>1, <2>1 DEF FrameAgrees
<1>6. ASSUME NEW r, StateBeginTransaction(r) PROVE Goal
  BY <1>0, <1>6 DEF StateBeginTransaction, Step
<1>7. CASE NeedMoreHeaders \/ NeedMoreBody \/ BadRequest
  BY <1>0, <1>7 DEF NeedMoreHeaders, NeedMoreBody, BadRequest, Step
<1>8. ASSUME NEW r, NEW paused, NEW b, \/ StateReceiveRequestHeaders(r, paused, b)
                                       \/ OfferPieceToHandler(r, b, paused) PROVE Goal
  BY <1>0, <1>8 DEF StateReceiveRequestHeaders, OfferPieceToHandler, Step
<1>9. ASSUME NEW r, NEW paused, OfferLastChunk(r, paused) \/ NoOffer(r, paused) PROVE Goal
  BY <1>0, <1>9 DEF OfferLastChunk, NoOffer, Step
<1>10. CASE OfferPieceToConsumer \/ StateSkipTrailer \/ StateSendResponseHeaders \/ EndBody
  BY <1>0, <1>10 DEF OfferPieceToConsumer, StateSkipTrailer, StateSendResponseHeaders, EndBody, Step
<1>11. ASSUME NEW n, FormatChunk(n) PROVE Goal
  BY <1>0, <1>11 DEF FormatChunk, Step
<1>12. CASE StateFlushResponseBody
  <2>1. /\ state = "FLUSHING_BODY" /\ UNCHANGED shutdown /\ Running
        /\ \/ state' = state
           \/ state' = "TRANSACTION_END" /\ frame' = frame
    BY <1>12 DEF StateFlushResponseBody, Step, MayAdvance, Continue
  <2>2. CASE state' = "TRANSACTION_END" /\ frame' = frame
    BY <2>1, <2>2 DEF EndTold, TransactionsEnd, Running
  <2> QED
    BY <1>0, <2>1, <2>2
<1>13. CASE StateEndTransaction
  BY <1>13 DEF StateEndTransaction, EndTold, TransactionsEnd
<1>14. CASE Advance
  BY <1>3, <1>4, <1>5, <1>6, <1>7, <1>8, <1>9, <1>10, <1>11, <1>12, <1>13, <1>14 DEF Advance
<1>15. ASSUME AtRest PROVE ~Running
  BY <1>15 DEF AtRest, Running, Idle
<1>16. CASE HandleReadable \/ HandleWritable \/ RemoveSocket
  BY <1>2, <1>15, <1>16 DEF HandleReadable, HandleWritable, HandleEvent, RemoveSocket
<1>17. CASE HandleRemove
  <2>1. ~Running
    BY <1>17 DEF HandleRemove, Running
  <2> QED
    BY <1>17, <2>1 DEF HandleRemove, EndTold, TransactionsEnd
<1>18. CASE Abort \/ SendResponse
  BY <1>2, <1>15, <1>18 DEF Abort, SendResponse
<1>19. ASSUME NEW n, SendResponseBody(n) \/ ReadRequestBody(n) PROVE Goal
  BY <1>2, <1>15, <1>19 DEF SendResponseBody, ReadRequestBody
<1>20. ASSUME NEW f, NEW update, PauseOrResume(f, update) PROVE Goal
  BY <1>2, <1>15, <1>20 DEF PauseOrResume
<1>21. CASE Call
  BY <1>18, <1>19, <1>20, <1>21 DEF Call
<1>22. CASE Shutdown
  BY <1>22 DEF Shutdown, EndTold, TransactionsEnd
<1> QED
  BY <1>14, <1>16, <1>17, <1>21, <1>22 DEF Next

-----------------------------------------------------------------------------
(***************************************************************************)
(* A new connection satisfies the invariant.                               *)
(***************************************************************************)
LEMMA InitInv == Init => IInv
<1> SUFFICES ASSUME Init PROVE IInv
  OBVIOUS
<1>1. TypeOK
  <2>1. state \in States /\ flags \subseteq Flags /\ lastOffers \in Nat
    BY DEF Init, States
  <2>2. recvBuf \in Seq(Tokens) /\ Len(recvBuf) <= RecvSize
    BY BoundsAssumption DEF Init
  <2>3. sendBuf \in 0 .. SendSize /\ avail \in 0 .. 1 /\ received \in 0 .. MaxInput
    BY BoundsAssumption DEF Init
  <2>4. request \in Requests
    BY DEF Init, NoRequest, Requests
  <2>5. response \in Responses \cup {NoResponse} /\ peer \in {"idle", "put", "post", "trailer", "done"}
    BY DEF Init
  <2>6. frame \in Frames /\ interest \subseteq {"IN", "OUT"}
    BY RestFrames DEF Init
  <2>7. shutdown \in BOOLEAN
    BY DEF Init
  <2>8. open \in BOOLEAN
    BY DEF Init
  <2> QED
    BY <2>1, <2>2, <2>3, <2>4, <2>5, <2>6, <2>7, <2>8 DEF TypeOK
<1>2. Stream
  <2>1. Position = "idle" /\ recvBuf = <<>> /\ peer = "idle" /\ avail = 0
    BY DEF Init, Position
  <2>2. "idle" \in Peers
    BY DEF Peers
  <2>3. Path(Position, recvBuf, peer)
    BY <2>1, <2>2, PathEmpty
  <2> QED
    BY <2>1, <2>3 DEF Stream
<1>3. Offered
  BY DEF Init, Offered, RecvStates, SendStates
<1>4. ~frame.fill /\ ~frame.drain /\ ~frame.last /\ frame.handler = "handler"
  BY RestFrames DEF Init
<1>5. FrameAgrees /\ Buffered
  BY <1>4 DEF Init, FrameAgrees, Buffered
<1>6. EndTold /\ TransactionsEnd
  BY DEF Init, EndTold, TransactionsEnd
<1> QED
  BY <1>1, <1>2, <1>3, <1>5, <1>6 DEF IInv

(***************************************************************************)
(* The inductive invariant of a server connection.                         *)
(***************************************************************************)
THEOREM Invariance == Spec => []IInv
<1>1. IInv /\ UNCHANGED vars => IInv'
  BY DEF vars, connVars, dataVars, envVars, IInv, TypeOK, Stream, InStep, Position, Offered,
         FrameAgrees, Buffered, EndTold, Running, TransactionsEnd
<1>2. ASSUME IInv, Next PROVE IInv'
  <2>1. TypeOK'
    BY <1>2, ConnStep, SendStep, RecvStep, FrameStep DEF IInv, TypeOK, Peers
  <2>2. Stream' /\ Offered' /\ FrameAgrees' /\ Buffered' /\ EndTold' /\ TransactionsEnd'
    BY <1>2, StreamStep, OfferedStep, BooksStep, EndStep DEF IInv
  <2> QED
    BY <2>1, <2>2 DEF IInv
<1> QED
  BY <1>1, <1>2, InitInv, PTL DEF Spec

(***************************************************************************)
(* Requests on a reused connection stay in step with the client, however   *)
(* early the response was sent: where a request is parsed, the next bytes  *)
(* are the beginning of one (SERVER_CANNOT_REUSE_CONNECTION).              *)
(***************************************************************************)
THEOREM InStepWithClient == Spec => []RequestsInStep
<1>1. ASSUME IInv, state \in {"TRANSACTION_BEGIN", "PARSING_HEADERS"}
      PROVE  /\ avail = 0
             /\ recvBuf # <<>> => Head(recvBuf) \in {"get", "put", "post", "bad"}
             /\ recvBuf = <<>> => peer \in {"idle", "done"}
  <2>1. InStep /\ Position = "idle"
    BY <1>1 DEF InStep, RecvStates, Position
  <2>2. Path("idle", recvBuf, peer) /\ ~(avail > 0)
    BY <1>1, <2>1 DEF IInv, Stream
  <2>3. recvBuf \in Seq(Tokens) /\ avail \in 0 .. 1 /\ peer \in Peers /\ "idle" \in Peers
    BY <1>1 DEF IInv, TypeOK, Peers
  <2>4. ASSUME recvBuf # <<>> PROVE Head(recvBuf) \in {"get", "put", "post", "bad"}
    <3>1. PICK a \in NextTokens("idle") : a[1] = Head(recvBuf)
      BY <2>2, <2>3, <2>4, PathHead
    <3> QED
      BY <2>3, <3>1, TokenFacts
  <2>5. ASSUME recvBuf = <<>> PROVE peer = "idle"
    BY <2>2, <2>3, <2>5, PathEmpty
  <2> QED
    BY <2>2, <2>3, <2>4, <2>5
<1>2. IInv => RequestsInStep
  BY <1>1 DEF RequestsInStep
<1> QED
  BY <1>2, Invariance, PTL

(***************************************************************************)
(* The connection's books agree: _bytesAvailable with the receive buffer,  *)
(* every flush with something to send, the end of the body announced once, *)
(* and neither buffer beyond its size, for all sizes of buffers and bodies *)
(* (stateReceiveRequestBody, readRequestBody, flushSendBuffer).            *)
(***************************************************************************)
THEOREM BooksAlwaysAgree == Spec => []BooksAgree
<1>1. IInv => AvailableIsBuffered
  BY DEF IInv, Stream, InStep, RecvStates, AvailableIsBuffered
<1>2. IInv => NeverJammed
  BY DEF IInv, FrameAgrees, Buffered, NeverJammed
<1>3. IInv => LastChunkOnce
  BY DEF IInv, Offered, LastChunkOnce
<1>4. IInv => BooksAgree
  BY <1>1, <1>2, <1>3 DEF IInv, BooksAgree
<1> QED
  BY <1>4, Invariance, PTL

(***************************************************************************)
(* However a connection ends, the handler is told the end of every         *)
(* transaction it was told the beginning of, unless the multiplexer shuts  *)
(* down (stateEndTransaction, handleRemove).                               *)
(***************************************************************************)
THEOREM EveryTransactionEnds == Spec => []TransactionsEnd
<1>1. IInv => TransactionsEnd
  BY DEF IInv
<1> QED
  BY <1>1, Invariance, PTL
=============================================================================

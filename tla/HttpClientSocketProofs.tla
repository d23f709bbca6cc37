----------------------- MODULE HttpClientSocketProofs -----------------------
(***************************************************************************)
(* The properties of a client connection, for all sizes of its buffers, of *)
(* the bodies and of the pool, and for any number of retries.              *)
(*                                                                         *)
(* Attempted carries SentAtMostOnce: bytes leave on the last connection    *)
(* only, and on none as long as it may be a stale one.  Flagged says which *)
(* states the flags allow, so a retry never starts over after the request  *)
(* was handed over.  Stream carries BooksAgree: the received tokens lead   *)
(* the origin from where the parser is to where the origin is, hence what  *)
(* a connection has left to deliver when it goes back to the pool is       *)
(* between two messages (Pooled).  Told carries KeepsContract: the state   *)
(* and what the handler was told never drift apart.                        *)
(***************************************************************************)
EXTENDS HttpClientSocket, SequenceTheorems, TLAPS

Peers == {"due", "late", "quiet", "len", "chunked", "trailer", "done"}

(***************************************************************************)
(* The tokens s take the origin from p to q.                               *)
(***************************************************************************)
Path(p, s, q) ==
    \E h \in [1 .. Len(s) + 1 -> Peers] :
        /\ h[1] = p /\ h[Len(s) + 1] = q
        /\ \A k \in 1 .. Len(s) : <<s[k], h[k + 1]>> \in NextTokens(h[k])

(***************************************************************************)
(* Where the parser is in what the origin sends.                           *)
(***************************************************************************)
Position ==
    IF state = "PARSING_BODY" /\ response.kind = "len" /\ response.left = 1 THEN {"len"}
    ELSE IF state = "PARSING_BODY" /\ response.kind = "chunked" THEN {"chunked"}
    ELSE IF state = "TRANSACTION_END" /\ response.kind = "chunked" THEN {"trailer"}
    ELSE IF state \in {"PARSING_BODY", "TRANSACTION_END"} THEN {"quiet"}
    ELSE {"due", "late"}

Stream ==
    /\ state # "INACTIVE" => \E p \in Position : Path(p, recvBuf, peer)
    /\ avail > 0 => /\ state = "PARSING_BODY" /\ Position \subseteq {"len", "chunked"}
                    /\ recvBuf # <<>> /\ Head(recvBuf) = "piece"

Attempted ==
    /\ sentOn \subseteq {attempt}
    /\ "FIRST_USE_AFTER_REUSE" \in flags => sentOn = {}
    /\ state # "INACTIVE" => attempt # 0

Flagged ==
    /\ "LAST_CHUNK_RECEIVED" \in flags => state \in {"TRANSACTION_END", "INACTIVE"}
    /\ "FIRST_USE_AFTER_REUSE" \in flags => state \in SendStates \cup {"TRANSACTION_BEGIN", "INACTIVE"}

(***************************************************************************)
(* What the handler was told, by the state of the connection.              *)
(***************************************************************************)
Told ==
    /\ state \in {"CONNECTING", "TRANSACTION_BEGIN"} => told \in {"none", "begun"}
    /\ state \in SendStates => told = "begun"
    /\ state = "PARSING_HEADERS" => told = "sent"
    /\ state = "PARSING_BODY" => told = "headers"
    /\ state = "TRANSACTION_END" => told \in {"last", "read"}
    /\ state = "INACTIVE" <=> outcome # "running"

FrameAgrees ==
    /\ frame.by # "none" => state # "INACTIVE"
    /\ frame.handler = "producer" => frame.left <= request.left

Pooled == pool \in Seq({"quiet", "trailer"}) /\ limbo \in Seq({"quiet", "trailer"})

IInv == TypeOK /\ Stream /\ Attempted /\ Flagged /\ Told /\ FrameAgrees /\ Pooled

-----------------------------------------------------------------------------
(* The running call.                                                       *)

(***************************************************************************)
(* When advanceStateMachine returns, no call is running; the event loop's  *)
(* interests are as they were or those of the new state.                   *)
(***************************************************************************)
LEMMA LeaveShape ==
    ASSUME NEW r, Leave(r)
    PROVE  /\ frame' \in {Idle, Removing}
           /\ interest' \in {interest, Wants(state', flags')}
BY DEF Leave

(***************************************************************************)
(* An idle connection and one about to be removed run nothing.             *)
(***************************************************************************)
LEMMA RestFrames ==
    ASSUME NEW f \in {Idle, Removing}
    PROVE  f \in Frames /\ f.handler = "handler" /\ f.by \in {"none", "remove"} /\ Idle.by = "none"
<1>1. Idle \in Frames
  BY ClientBoundsAssumption DEF Idle, Frames
<1>2. Removing \in Frames
  BY <1>1 DEF Removing, Frames
<1>3. Idle.handler = "handler" /\ Idle.by = "none"
  BY DEF Idle
<1>4. Removing.handler = "handler" /\ Removing.by = "remove"
  BY <1>1, <1>3 DEF Removing, Frames
<1> QED
  BY <1>1, <1>2, <1>3, <1>4

(***************************************************************************)
(* Frames of the state functions that go on.                               *)
(***************************************************************************)
LEMMA FrameUpdates ==
    ASSUME frame \in Frames
    PROVE  /\ \A b \in BOOLEAN : [frame EXCEPT !.fill = b] \in Frames
           /\ \A b \in BOOLEAN : [frame EXCEPT !.drain = b] \in Frames
           /\ \A b, c \in BOOLEAN : [frame EXCEPT !.fill = b, !.drain = c] \in Frames
           /\ \A n \in 0 .. MaxBody : [frame EXCEPT !.left = n] \in Frames
BY DEF Frames

(***************************************************************************)
(* Frames of the event loop and of the callers.                            *)
(***************************************************************************)
LEMMA NewFrames ==
    /\ \A b \in BOOLEAN : IoFrame(b) \in Frames /\ IoFrame(b).handler = "handler"
    /\ \A h \in {"handler", "producer", "consumer"}, n \in 0 .. MaxBody \cup {1}, b \in BOOLEAN,
          a \in SUBSET {"recv", "send"} : CallFrame(h, n, b, a) \in Frames
<1>1. Idle \in Frames
  BY RestFrames
<1>2. {"recv", "send"} \in SUBSET {"recv", "send"}
  OBVIOUS
<1>3. \A b \in BOOLEAN : IoFrame(b) \in Frames
  BY <1>1, <1>2 DEF IoFrame, Frames
<1>4. \A b : IoFrame(b).handler = "handler"
  BY DEF IoFrame, Idle
<1>5. \A h \in {"handler", "producer", "consumer"}, n \in 0 .. MaxBody \cup {1}, b \in BOOLEAN,
          a \in SUBSET {"recv", "send"} : CallFrame(h, n, b, a) \in Frames
  BY <1>1 DEF CallFrame, Frames
<1> QED
  BY <1>3, <1>4, <1>5

(***************************************************************************)
(* Interests are interests.                                                *)
(***************************************************************************)
LEMMA WantsType == \A s, f : Wants(s, f) \subseteq {"IN", "OUT"}
BY DEF Wants

(***************************************************************************)
(* What a step may do to the running call: its type, and, for a step that  *)
(* leaves the request alone, its share of the request.                     *)
(***************************************************************************)
Framed == frame' \in Frames /\ interest' \subseteq {"IN", "OUT"}
Shares == frame'.handler = "producer" => frame.handler = "producer" /\ frame'.left = frame.left

(***************************************************************************)
(* A call that returns leaves the frame and the interests well formed.     *)
(***************************************************************************)
LEMMA LeaveType ==
    ASSUME TypeOK, NEW r, Leave(r)
    PROVE  Framed /\ Shares /\ frame'.handler = "handler"
<1>1. frame' \in {Idle, Removing} /\ interest' \in {interest, Wants(state', flags')}
  BY LeaveShape
<1>2. frame' \in Frames /\ frame'.handler = "handler"
  BY <1>1, RestFrames
<1> QED
  BY <1>1, <1>2, WantsType DEF TypeOK, Framed, Shares

(***************************************************************************)
(* So does a state function that waits for room or for bytes, or goes on.  *)
(***************************************************************************)
LEMMA GoOnType ==
    ASSUME TypeOK, Again \/ Continue
    PROVE  Framed /\ Shares
<1>1. frame \in Frames /\ interest \subseteq {"IN", "OUT"}
  BY DEF TypeOK
<1>2. (state \in RecvStates) \in BOOLEAN /\ (state \in SendStates) \in BOOLEAN
  OBVIOUS
<1>3. Framed
  BY <1>1, <1>2, FrameUpdates DEF Again, Continue, Framed
<1>4. frame'.handler = frame.handler /\ frame'.left = frame.left
  BY <1>1 DEF Again, Continue, Frames
<1> QED
  BY <1>3, <1>4 DEF Shares

(***************************************************************************)
(* A flush or a receive that is over lets the call go on.                  *)
(***************************************************************************)
LEMMA GoneOnType ==
    ASSUME TypeOK, interest' = interest, NEW b \in BOOLEAN,
           frame' = [frame EXCEPT !.fill = b] \/ frame' = [frame EXCEPT !.drain = b]
    PROVE  Framed /\ Shares
<1>1. frame \in Frames /\ interest \subseteq {"IN", "OUT"}
  BY DEF TypeOK
<1>2. Framed
  BY <1>1, FrameUpdates DEF Framed
<1>3. frame'.handler = frame.handler /\ frame'.left = frame.left
  BY <1>1 DEF Frames
<1> QED
  BY <1>2, <1>3 DEF Shares

(***************************************************************************)
(* A step that keeps the request keeps the producer's share of it.         *)
(***************************************************************************)
LEMMA SameShare ==
    ASSUME FrameAgrees, Shares, request'.left = request.left
    PROVE  frame'.handler = "producer" => frame'.left <= request'.left
BY DEF FrameAgrees, Shares

(***************************************************************************)
(* flushSendBuffer never leaves more than there was, and succeeds only     *)
(* when it has sent something.                                             *)
(***************************************************************************)
LEMMA FlushFacts ==
    ASSUME TypeOK, NEW out \in FlushOutcomes
    PROVE  /\ out.left \in 0 .. sendBuf
           /\ out.result = "SUCCESS" => out.left < sendBuf
<1>1. sendBuf \in Nat /\ sendBuf \in 0 .. SendSize
  BY ClientBoundsAssumption DEF TypeOK
<1>2. CASE sendBuf = 0
  BY <1>1, <1>2 DEF FlushOutcomes
<1>3. CASE sendBuf # 0 /\ shutdown
  BY <1>1, <1>3 DEF FlushOutcomes
<1>4. CASE sendBuf # 0 /\ ~shutdown
  <2>1. \/ out \in {[result |-> "AGAIN", left |-> sendBuf]}
        \/ out \in {[result |-> "ERROR", left |-> n] : n \in 1..sendBuf}
        \/ out \in {[result |-> "SUCCESS", left |-> n] : n \in 0..(sendBuf - 1)}
    BY <1>4 DEF FlushOutcomes
  <2> QED
    BY <1>1, <2>1
<1> QED
  BY <1>2, <1>3, <1>4

(***************************************************************************)
(* Formatting a chunk: either there is no room, or at least one unit of    *)
(* the offer goes from the request into the send buffer.                   *)
(***************************************************************************)
LEMMA FormatFacts ==
    ASSUME TypeOK, FrameAgrees, NEW n \in 1 .. MaxBody, FormatChunk(n)
    PROVE  \/ UNCHANGED <<sendBuf, request>> /\ Again
           \/ \E k \in 1 .. request.left :
                 /\ sendBuf' = sendBuf + k /\ sendBuf + k \in 0 .. SendSize
                 /\ request' = [request EXCEPT !.left = request.left - k]
                 /\ frame' = IF frame.handler = "producer"
                             THEN [frame EXCEPT !.left = frame.left - k] ELSE frame
                 /\ frame.handler = "producer" => k <= frame.left /\ frame.left = n
                 /\ interest' = interest
<1>1. Offers(n) /\ n > 0
  BY DEF FormatChunk
<1>2. request.left \in 0 .. MaxBody
  BY DEF TypeOK, Requests
<1>3. n <= request.left /\ (frame.handler = "producer" => n = frame.left)
  BY <1>1, <1>2 DEF Offers, FrameAgrees
<1>4. CASE sendBuf = SendSize
  BY <1>4 DEF FormatChunk
<1>5. CASE sendBuf # SendSize
  <2>1. PICK k \in {IF n <= SendSize - sendBuf THEN n ELSE SendSize - sendBuf} :
               /\ sendBuf' = sendBuf + k
               /\ request' = [request EXCEPT !.left = @ - k]
               /\ frame' = IF frame.handler = "producer"
                           THEN [frame EXCEPT !.left = @ - k] ELSE frame
               /\ interest' = interest
    BY <1>5 DEF FormatChunk
  <2>2. k \in 1 .. n /\ sendBuf + k \in 0 .. SendSize
    BY <1>1, <1>5, <2>1, ClientBoundsAssumption DEF TypeOK
  <2>3. k \in 1 .. request.left /\ (frame.handler = "producer" => k <= frame.left)
    BY <1>2, <1>3, <2>2
  <2> QED
    BY <1>3, <2>1, <2>2, <2>3
<1> QED
  BY <1>4, <1>5

(***************************************************************************)
(* The running call, the request and the send buffer stay within their     *)
(* types, and what a caller's buffer still holds is part of the request.   *)
(***************************************************************************)
LEMMA SendStep ==
    ASSUME TypeOK, FrameAgrees, Next
    PROVE  /\ Framed /\ request' \in Requests /\ sendBuf' \in 0 .. SendSize
           /\ frame'.handler = "producer" => frame'.left <= request'.left
<1> DEFINE Share == frame'.handler = "producer" => frame'.left <= request'.left
           Goal  == Framed /\ request' \in Requests /\ sendBuf' \in 0 .. SendSize /\ Share
<1> USE DEF dataVars
<1>0. /\ frame \in Frames /\ interest \subseteq {"IN", "OUT"} /\ request \in Requests
      /\ sendBuf \in 0 .. SendSize /\ SendSize \in Nat /\ sendBuf \in Nat
  BY ClientBoundsAssumption DEF TypeOK
<1>1. ASSUME Framed, Shares, UNCHANGED <<request, sendBuf>> PROVE Goal
  BY <1>0, <1>1, SameShare
<1>2. ASSUME NEW r, Leave(r), UNCHANGED <<request, sendBuf>> PROVE Goal
  BY <1>1, <1>2, LeaveType
<1>3. ASSUME Again \/ Continue, UNCHANGED <<request, sendBuf>> PROVE Goal
  BY <1>1, <1>3, GoOnType
<1>4. ASSUME NEW r, StateBeginTransaction(r) PROVE Goal
  BY <1>2, <1>3, <1>4 DEF StateBeginTransaction
<1>5. CASE StopAdvancing \/ \E r \in {"AGAIN", "ERROR"} : FillFails(r)
  BY <1>2, <1>5 DEF StopAdvancing, FillFails
<1>6. CASE FillReceiveBuffer
  BY <1>1, <1>6, GoneOnType DEF FillReceiveBuffer
<1>7. ASSUME NEW out \in FlushOutcomes, FlushSendBuffer(out), UNCHANGED request, Framed, Shares PROVE Goal
  <2>1. out.left \in 0 .. sendBuf /\ sendBuf' = out.left
    BY <1>7, FlushFacts DEF FlushSendBuffer
  <2> QED
    BY <1>0, <1>7, <2>1, SameShare
<1>8. CASE DrainSendBuffer
  <2>1. PICK out \in FlushOutcomes :
          /\ FlushSendBuffer(out) /\ UNCHANGED request
          /\ IF out.result = "SUCCESS"
             THEN frame' = [frame EXCEPT !.drain = FALSE] /\ interest' = interest
             ELSE Leave(out.result)
    BY <1>8 DEF DrainSendBuffer
  <2>2. Framed /\ Shares
    BY <2>1, LeaveType, GoneOnType
  <2> QED
    BY <1>7, <2>1, <2>2
<1>9. ASSUME NEW r, StateFlushRequestBody(r) PROVE Goal
  <2>1. PICK out \in FlushOutcomes :
          /\ FlushSendBuffer(out) /\ UNCHANGED request
          /\ CASE out.result # "SUCCESS" -> Leave(out.result)
               [] r = "SUCCESS" -> frame' = [frame EXCEPT !.fill = TRUE] /\ interest' = interest
               [] OTHER -> Leave(r)
    BY <1>9 DEF StateFlushRequestBody
  <2>2. \/ Leave(out.result) \/ Leave(r)
        \/ frame' = [frame EXCEPT !.fill = TRUE] /\ interest' = interest
    BY <2>1
  <2>3. Framed /\ Shares
    BY <2>2, LeaveType, GoneOnType
  <2> QED
    BY <1>7, <2>1, <2>3
<1>10. CASE StateSendRequestHeaders
  <2>1. CASE request.formatted = HeaderUnits
    BY <1>2, <1>10, <2>1 DEF StateSendRequestHeaders
  <2>2. CASE request.formatted # HeaderUnits
    <3> DEFINE room == SendSize - sendBuf
               rest == HeaderUnits - request.formatted
               n    == IF rest <= room THEN rest ELSE room
    <3>1. /\ sendBuf' = sendBuf + n /\ request' = [request EXCEPT !.formatted = @ + n]
          /\ Again \/ Continue
      BY <1>10, <2>2 DEF StateSendRequestHeaders
    <3>2. request.formatted \in 0 .. HeaderUnits
      BY <1>0 DEF Requests
    <3>3. n \in Nat /\ sendBuf + n \in 0 .. SendSize /\ request.formatted + n \in 0 .. HeaderUnits
      BY <1>0, <3>2, ClientBoundsAssumption
    <3> HIDE DEF n
    <3>4. request' \in Requests /\ request'.left = request.left
      BY <1>0, <3>1, <3>3 DEF Requests
    <3>5. Framed /\ Shares
      BY <3>1, GoOnType
    <3> QED
      BY <3>1, <3>3, <3>4, <3>5, SameShare
  <2> QED
    BY <2>1, <2>2
<1>11. ASSUME NEW n \in 1 .. MaxBody, FormatChunk(n) PROVE Goal
  <2>1. CASE UNCHANGED <<sendBuf, request>> /\ Again
    BY <1>3, <2>1
  <2>2. CASE \E k \in 1 .. request.left :
                 /\ sendBuf' = sendBuf + k /\ sendBuf + k \in 0 .. SendSize
                 /\ request' = [request EXCEPT !.left = request.left - k]
                 /\ frame' = IF frame.handler = "producer"
                             THEN [frame EXCEPT !.left = frame.left - k] ELSE frame
                 /\ frame.handler = "producer" => k <= frame.left /\ frame.left = n
                 /\ interest' = interest
    <3>1. PICK k \in 1 .. request.left :
                 /\ sendBuf' = sendBuf + k /\ sendBuf + k \in 0 .. SendSize
                 /\ request' = [request EXCEPT !.left = request.left - k]
                 /\ frame' = IF frame.handler = "producer"
                             THEN [frame EXCEPT !.left = frame.left - k] ELSE frame
                 /\ frame.handler = "producer" => k <= frame.left /\ frame.left = n
                 /\ interest' = interest
      BY <2>2
    <3>2. request.left \in 0 .. MaxBody
      BY <1>0 DEF Requests
    <3>3. request.left - k \in 0 .. MaxBody
      BY <3>1, <3>2, ClientBoundsAssumption
    <3>4. request' \in Requests /\ request'.left = request.left - k
      BY <1>0, <3>1, <3>3 DEF Requests
    <3>5. CASE frame.handler = "producer"
      <4>1. frame.left - k \in 0 .. MaxBody /\ frame.left <= request.left /\ frame.left \in Nat
        BY <3>1, <3>2, <3>5, ClientBoundsAssumption DEF FrameAgrees
      <4>2. frame' \in Frames
        BY <1>0, <3>1, <3>5, <4>1, FrameUpdates
      <4>3. frame'.left = frame.left - k
        BY <1>0, <3>1, <3>5 DEF Frames
      <4> QED
        BY <1>0, <3>1, <3>2, <3>4, <4>1, <4>2, <4>3 DEF Framed
    <3>6. CASE frame.handler # "producer"
      BY <1>0, <3>1, <3>4, <3>6 DEF Framed
    <3> QED
      BY <3>5, <3>6
  <2> QED
    BY <1>11, <2>1, <2>2, FormatFacts
<1>12. CASE EndBody
  <2>1. CASE request.chunked /\ sendBuf = SendSize
    BY <1>3, <1>12, <2>1 DEF EndBody
  <2>2. CASE ~(request.chunked /\ sendBuf = SendSize)
    <3>1. /\ sendBuf' = IF request.chunked THEN sendBuf + 1 ELSE sendBuf
          /\ request' = [request EXCEPT !.done = TRUE] /\ Continue
      BY <1>12, <2>2 DEF EndBody
    <3>2. sendBuf' \in 0 .. SendSize
      BY <1>0, <2>2, <3>1
    <3>3. request' \in Requests /\ request'.left = request.left
      BY <1>0, <3>1 DEF Requests
    <3>4. Framed /\ Shares
      BY <3>1, GoOnType
    <3> QED
      BY <3>2, <3>3, <3>4, SameShare
  <2> QED
    BY <2>1, <2>2
<1>13. CASE NoHeaders \/ NeedMoreBody
  BY <1>2, <1>3, <1>13 DEF NoHeaders, NeedMoreBody
<1>14. ASSUME NEW r, NEW paused, NEW b, \/ StateReceiveResponseHeaders(r, paused, b)
                                        \/ OfferPieceToHandler(r, b, paused) PROVE Goal
  BY <1>2, <1>3, <1>14 DEF StateReceiveResponseHeaders, OfferPieceToHandler
<1>15. ASSUME NEW r, NEW paused, OfferLastChunk(r, paused) \/ NoOffer(r, paused) PROVE Goal
  BY <1>2, <1>3, <1>15 DEF OfferLastChunk, NoOffer
<1>16. CASE OfferPieceToConsumer
  <2>1. frame.handler = "consumer" /\ UNCHANGED <<request, sendBuf>>
    BY <1>16 DEF OfferPieceToConsumer
  <2>2. CASE frame.left > 0
    <3>1. frame' = [frame EXCEPT !.left = @ - 1] /\ interest' = interest
      BY <1>16, <2>2 DEF OfferPieceToConsumer
    <3>2. frame.left - 1 \in 0 .. MaxBody \/ frame.left = 1
      BY <1>0, <2>2, ClientBoundsAssumption DEF Frames
    <3>3. frame.left - 1 \in 0 .. MaxBody
      BY <3>2, ClientBoundsAssumption
    <3>4. frame' \in Frames /\ frame'.handler = "consumer"
      BY <1>0, <2>1, <3>1, <3>3 DEF Frames
    <3> QED
      BY <1>0, <2>1, <3>1, <3>4 DEF Framed
  <2>3. CASE ~(frame.left > 0)
    BY <1>2, <1>16, <2>1, <2>3 DEF OfferPieceToConsumer
  <2> QED
    BY <2>2, <2>3
<1>17. CASE Advance
  BY <1>4, <1>5, <1>6, <1>8, <1>9, <1>10, <1>11, <1>12, <1>13, <1>14, <1>15, <1>16, <1>17 DEF Advance
<1>18. ASSUME frame' \in {Idle, Removing}, interest' \in {interest, Wants(state, flags)},
              UNCHANGED <<request, sendBuf>> PROVE Goal
  BY <1>0, <1>18, RestFrames, WantsType DEF Framed
<1>19. ASSUME NEW b \in BOOLEAN, frame' = IoFrame(b), interest' = interest,
              UNCHANGED <<request, sendBuf>> PROVE Goal
  BY <1>0, <1>19, NewFrames DEF Framed
<1>20. CASE HandleConnect \/ RemoveSocket \/ Abort
  BY <1>18, <1>19, <1>20 DEF HandleConnect, RemoveSocket, Abort
<1>21. CASE HandleReadable \/ HandleWritable
  BY <1>18, <1>19, <1>21 DEF HandleReadable, HandleWritable, HandleEvent
<1>22. NoRequest \in Requests /\ 0 \in 0 .. SendSize /\ 0 \in 0 .. MaxBody
  BY ClientBoundsAssumption DEF NoRequest, Requests
<1>23. CASE HandleRemove \/ RetryFails
  <2>1. frame' = Idle /\ interest' = {} /\ request' = NoRequest /\ sendBuf' = 0
    BY <1>23 DEF HandleRemove, RetryFails, Inactive, EmptyBuffers
  <2> QED
    BY <1>22, <2>1, RestFrames DEF Framed
<1>24. CASE ExecuteFails \/ Release
  BY <1>0, <1>24 DEF ExecuteFails, Release, FrameAgrees, Framed
<1>25. ASSUME Execute PROVE Goal
  <2>1. frame = Idle /\ frame' = Idle /\ sendBuf' = 0 /\ interest' \subseteq {"IN", "OUT"}
    BY <1>25, WantsType DEF Execute, NewSocket, EmptyBuffers
  <2>2. PICK chunked \in BOOLEAN, n \in 0..MaxBody :
          request' = [NoRequest EXCEPT !.chunked = chunked, !.left = n]
    BY <1>25 DEF Execute
  <2>3. request' \in Requests
    BY <1>22, <2>2 DEF Requests
  <2> QED
    BY <1>22, <2>1, <2>3, RestFrames DEF Framed
<1>26. ASSUME Retry PROVE Goal
  <2>1. frame' = Idle /\ sendBuf' = 0 /\ interest' \subseteq {"IN", "OUT"} /\ request' = request
    BY <1>26, WantsType DEF Retry, NewSocket, EmptyBuffers
  <2> QED
    BY <1>0, <1>22, <2>1, RestFrames DEF Framed
<1>27. ASSUME NEW n \in 0 .. MaxBody, SendRequestBody(n) PROVE Goal
  <2>1. /\ frame' = CallFrame("producer", n, n = 0, {"send"}) /\ n <= request.left
        /\ UNCHANGED <<request, sendBuf, interest>>
    BY <1>27 DEF SendRequestBody
  <2>2. CallFrame("producer", n, n = 0, {"send"}) \in Frames
    BY NewFrames
  <2>3. frame'.left = n
    BY <2>1 DEF CallFrame, Idle
  <2> QED
    BY <1>0, <2>1, <2>2, <2>3 DEF Framed
<1>28. ASSUME NEW n \in 0 .. 1, ReadResponseBody(n) PROVE Goal
  <2>1. frame' = CallFrame("consumer", n, FALSE, {"recv"}) /\ UNCHANGED <<request, sendBuf, interest>>
    BY <1>28 DEF ReadResponseBody
  <2>2. n \in 0 .. MaxBody \cup {1}
    BY ClientBoundsAssumption
  <2>3. CallFrame("consumer", n, FALSE, {"recv"}) \in Frames
    BY <2>2, NewFrames
  <2>4. frame'.handler = "consumer"
    BY <2>1 DEF CallFrame, Idle
  <2> QED
    BY <1>0, <2>1, <2>3, <2>4 DEF Framed
<1>29. ASSUME NEW f, NEW update, PauseOrResume(f, update) PROVE Goal
  BY <1>0, <1>29, WantsType DEF PauseOrResume, FrameAgrees, Framed
<1>30. CASE Call
  BY <1>20, <1>27, <1>28, <1>29, <1>30 DEF Call
<1>31. CASE Shutdown
  BY <1>0, <1>31 DEF Shutdown, FrameAgrees, Framed
<1> QED
  BY <1>17, <1>20, <1>21, <1>23, <1>24, <1>25, <1>26, <1>30, <1>31 DEF Next

-----------------------------------------------------------------------------
(* The state, its flags and the attempts.                                  *)

(***************************************************************************)
(* The state and the flags stay within their types and agree, and bytes    *)
(* are sent on the last connection only, on none while it may be stale.    *)
(***************************************************************************)
LEMMA ControlStep ==
    ASSUME TypeOK, FrameAgrees, Attempted, Flagged, Next
    PROVE  /\ state' \in States /\ flags' \subseteq Flags
           /\ attempt' \in Nat /\ sentOn' \subseteq 1 .. attempt'
           /\ Attempted' /\ Flagged'
<1> DEFINE Typed == /\ state' \in States /\ flags' \subseteq Flags
                    /\ attempt' \in Nat /\ sentOn' \subseteq 1 .. attempt'
           Goal == Typed /\ Attempted' /\ Flagged'
<1> USE DEF sockVars, dataVars
<1>0. state \in States /\ flags \subseteq Flags /\ attempt \in Nat /\ sentOn \subseteq 1 .. attempt
  BY DEF TypeOK
<1>1. /\ States = {"PARSING_HEADERS", "PARSING_BODY", "FORMATTING_HEADERS", "FORMATTING_BODY",
                   "FLUSHING_BODY", "CONNECTING", "TRANSACTION_BEGIN", "TRANSACTION_END", "INACTIVE"}
      /\ SendStates = {"FORMATTING_HEADERS", "FORMATTING_BODY", "FLUSHING_BODY"}
      /\ \A p \in SUBSET Pauses : /\ p \subseteq Flags /\ "FIRST_USE_AFTER_REUSE" \notin p
                                  /\ "LAST_CHUNK_RECEIVED" \notin p
      /\ {"ABORTED", "LAST_CHUNK_RECEIVED", "FIRST_USE_AFTER_REUSE"} \subseteq Flags
  BY DEF States, RecvStates, SendStates, Pauses, Flags
<1>2. ASSUME UNCHANGED <<state, attempt, sentOn>>, flags' \subseteq Flags,
             "FIRST_USE_AFTER_REUSE" \in flags' => "FIRST_USE_AFTER_REUSE" \in flags,
             "LAST_CHUNK_RECEIVED" \in flags' => "LAST_CHUNK_RECEIVED" \in flags
      PROVE  Goal
  <2>1. Typed
    BY <1>0, <1>2
  <2>2. Attempted'
    BY <1>2 DEF Attempted
  <2>3. Flagged'
    BY <1>2 DEF Flagged
  <2> QED
    BY <2>1, <2>2, <2>3
<1>3. ASSUME UNCHANGED <<sockVars, attempt, sentOn>> PROVE Goal
  BY <1>0, <1>2, <1>3
<1>4. ASSUME NEW paused \in SUBSET Pauses, flags' = flags \cup paused,
             UNCHANGED <<state, attempt, sentOn>> PROVE Goal
  BY <1>0, <1>1, <1>2, <1>4
<1>5. ASSUME NEW out \in FlushOutcomes, FlushSendBuffer(out), UNCHANGED attempt, state # "INACTIVE",
             \/ state' = state
             \/ state = "FLUSHING_BODY" /\ state' = "PARSING_HEADERS" /\ out.result = "SUCCESS"
      PROVE  Goal
  <2>1. attempt \in 1 .. attempt
    BY <1>0, <1>5 DEF Attempted
  <2>2. /\ flags' \subseteq flags
        /\ out.left < sendBuf => flags' = flags \ {"FIRST_USE_AFTER_REUSE"} /\ sentOn' = sentOn \cup {attempt}
        /\ ~(out.left < sendBuf) => flags' = flags /\ sentOn' = sentOn
    BY <1>5 DEF FlushSendBuffer
  <2>3. Typed
    BY <1>0, <1>1, <1>5, <2>1, <2>2
  <2>4. Attempted'
    <3>1. CASE out.left < sendBuf
      BY <1>5, <2>2, <3>1 DEF Attempted
    <3>2. CASE ~(out.left < sendBuf)
      BY <1>5, <2>2, <3>2 DEF Attempted
    <3> QED
      BY <3>1, <3>2
  <2>5. Flagged'
    <3>1. CASE state' = state
      BY <1>5, <2>2, <3>1 DEF Flagged
    <3>2. CASE state' = "PARSING_HEADERS" /\ state = "FLUSHING_BODY" /\ out.result = "SUCCESS"
      <4>1. "FIRST_USE_AFTER_REUSE" \notin flags'
        BY <2>2, <3>2, FlushFacts
      <4>2. "LAST_CHUNK_RECEIVED" \notin flags
        BY <3>2 DEF Flagged
      <4> QED
        BY <1>1, <2>2, <3>2, <4>1, <4>2 DEF Flagged
    <3> QED
      BY <1>5, <3>1, <3>2
  <2> QED
    BY <2>3, <2>4, <2>5
<1>6. ASSUME state' \in States, state' # "INACTIVE", flags' \subseteq Flags, UNCHANGED <<attempt, sentOn>>,
             "FIRST_USE_AFTER_REUSE" \in flags' => "FIRST_USE_AFTER_REUSE" \in flags,
             state # "INACTIVE", Flagged'
      PROVE  Goal
  BY <1>0, <1>6 DEF Attempted
<1>7. CASE StopAdvancing \/ FillReceiveBuffer \/ \E r \in {"AGAIN", "ERROR"} : FillFails(r)
  BY <1>3, <1>7 DEF StopAdvancing, FillReceiveBuffer, FillFails
<1>8. CASE DrainSendBuffer
  <2>1. state # "INACTIVE"
    BY <1>8 DEF DrainSendBuffer, Running, FrameAgrees
  <2> QED
    BY <1>5, <1>8, <2>1 DEF DrainSendBuffer
<1>9. ASSUME NEW r, StateFlushRequestBody(r) PROVE Goal
  <2>1. PICK out \in FlushOutcomes :
          /\ FlushSendBuffer(out)
          /\ state' = IF out.result = "SUCCESS" THEN "PARSING_HEADERS" ELSE state
          /\ UNCHANGED attempt
    BY <1>9 DEF StateFlushRequestBody
  <2>2. state = "FLUSHING_BODY"
    BY <1>9 DEF StateFlushRequestBody, Step
  <2> QED
    BY <1>5, <2>1, <2>2
<1>10. ASSUME NEW r, StateBeginTransaction(r) PROVE Goal
  <2>1. /\ state = "TRANSACTION_BEGIN" /\ state' \in {"FORMATTING_HEADERS", "TRANSACTION_BEGIN"}
        /\ UNCHANGED <<flags, attempt, sentOn>>
    BY <1>10 DEF StateBeginTransaction, Step
  <2>2. Flagged'
    BY <1>1, <2>1 DEF Flagged
  <2> QED
    BY <1>0, <1>1, <1>6, <2>1, <2>2
<1>11. CASE StateSendRequestHeaders \/ EndBody
  <2>1. /\ state \in {"FORMATTING_HEADERS", "FORMATTING_BODY"} /\ state' \in SendStates
        /\ UNCHANGED <<flags, attempt, sentOn>>
    BY <1>1, <1>11 DEF StateSendRequestHeaders, EndBody, Step
  <2>2. Flagged'
    BY <1>1, <2>1 DEF Flagged
  <2> QED
    BY <1>0, <1>1, <1>6, <2>1, <2>2
<1>12. ASSUME NEW n, FormatChunk(n) PROVE Goal
  BY <1>3, <1>12 DEF FormatChunk
<1>13. CASE NoHeaders \/ NeedMoreBody \/ OfferPieceToConsumer
  BY <1>3, <1>13 DEF NoHeaders, NeedMoreBody, OfferPieceToConsumer
<1>14. ASSUME NEW r, NEW paused \in SUBSET Pauses, NEW close,
              StateReceiveResponseHeaders(r, paused, close) PROVE Goal
  <2>1. /\ state = "PARSING_HEADERS" /\ state' = "PARSING_BODY" /\ flags' = flags \cup paused
        /\ UNCHANGED <<attempt, sentOn>>
    BY <1>14 DEF StateReceiveResponseHeaders, Step
  <2>2. Flagged'
    BY <1>1, <2>1 DEF Flagged
  <2> QED
    BY <1>0, <1>1, <1>6, <2>1, <2>2
<1>15. ASSUME NEW r, NEW paused \in SUBSET Pauses, OfferLastChunk(r, paused) PROVE Goal
  <2>1. /\ state = "PARSING_BODY" /\ state' = "TRANSACTION_END"
        /\ flags' \subseteq flags \cup {"LAST_CHUNK_RECEIVED"} \cup paused
        /\ UNCHANGED <<attempt, sentOn>>
    BY <1>15 DEF OfferLastChunk, Step
  <2>2. "FIRST_USE_AFTER_REUSE" \notin flags'
    BY <1>1, <2>1 DEF Flagged
  <2>3. Flagged'
    BY <1>1, <2>1, <2>2 DEF Flagged
  <2> QED
    BY <1>0, <1>1, <1>6, <2>1, <2>2, <2>3
<1>16. ASSUME NEW r, NEW paused \in SUBSET Pauses, NEW taken,
              OfferPieceToHandler(r, taken, paused) \/ NoOffer(r, paused) PROVE Goal
  BY <1>4, <1>16 DEF OfferPieceToHandler, NoOffer
<1>17. CASE Advance
  BY <1>7, <1>8, <1>9, <1>10, <1>11, <1>12, <1>13, <1>14, <1>15, <1>16, <1>17 DEF Advance
<1>18. CASE HandleConnect
  <2>1. state = "CONNECTING" /\ state' = "TRANSACTION_BEGIN" /\ UNCHANGED <<flags, attempt, sentOn>>
    BY <1>18 DEF HandleConnect
  <2>2. Flagged'
    BY <1>1, <2>1 DEF Flagged
  <2> QED
    BY <1>0, <1>1, <1>6, <2>1, <2>2
<1>19. CASE HandleReadable \/ HandleWritable \/ RemoveSocket
  BY <1>3, <1>19 DEF HandleReadable, HandleWritable, HandleEvent, RemoveSocket
<1>20. CASE Abort
  <2>1. flags' = flags \cup {"ABORTED"} /\ UNCHANGED <<state, attempt, sentOn>>
    BY <1>20 DEF Abort
  <2> QED
    BY <1>0, <1>1, <1>2, <2>1
<1>21. CASE HandleRemove \/ RetryFails
  <2>1. state' = "INACTIVE" /\ UNCHANGED <<flags, attempt, sentOn>>
    BY <1>21 DEF HandleRemove, RetryFails, Inactive
  <2>2. Attempted' /\ Flagged'
    BY <1>1, <2>1 DEF Attempted, Flagged
  <2> QED
    BY <1>0, <1>1, <2>1, <2>2
<1>22. CASE ExecuteFails \/ Release
  BY <1>3, <1>22, <1>2, <1>0 DEF ExecuteFails, Release
<1>23. ASSUME NEW before, NewSocket(before)
       PROVE  /\ state' \in States /\ flags' \subseteq Flags /\ Flagged'
  <2>1. \/ state' = "TRANSACTION_BEGIN" /\ flags' = {"FIRST_USE_AFTER_REUSE"}
        \/ state' = "CONNECTING" /\ flags' = {}
    BY <1>23 DEF NewSocket
  <2> QED
    BY <1>1, <2>1 DEF Flagged
<1>24. ASSUME Execute PROVE Goal
  <2>1. NewSocket("none") /\ attempt' = 1 /\ sentOn' = {}
    BY <1>24 DEF Execute
  <2> QED
    BY <1>23, <2>1 DEF Attempted
<1>25. ASSUME Retry PROVE Goal
  <2>1. NewSocket(told) /\ attempt' = attempt + 1 /\ sentOn' = sentOn /\ Retries
    BY <1>25 DEF Retry
  <2>2. sentOn = {}
    BY <2>1 DEF Retries, Attempted
  <2> QED
    BY <1>0, <1>23, <2>1, <2>2 DEF Attempted
<1>26. ASSUME NEW n, SendRequestBody(n) \/ ReadResponseBody(n) PROVE Goal
  BY <1>3, <1>26 DEF SendRequestBody, ReadResponseBody
<1>27. ASSUME NEW p \in Pauses, NEW update,
              PauseOrResume(flags \cup {p}, update) \/ PauseOrResume(flags \ {p}, update)
       PROVE  Goal
  <2>1. /\ flags' = flags \cup {p} \/ flags' = flags \ {p}
        /\ UNCHANGED <<state, attempt, sentOn>>
    BY <1>27 DEF PauseOrResume
  <2>2. p \in Flags /\ p # "FIRST_USE_AFTER_REUSE" /\ p # "LAST_CHUNK_RECEIVED"
    BY DEF Pauses, Flags
  <2> QED
    BY <1>0, <1>2, <2>1, <2>2
<1>28. CASE Call
  BY <1>20, <1>26, <1>27, <1>28 DEF Call
<1>29. CASE Shutdown
  BY <1>3, <1>29 DEF Shutdown
<1> QED
  BY <1>17, <1>18, <1>19, <1>21, <1>22, <1>24, <1>25, <1>28, <1>29 DEF Next

(***************************************************************************)
(* Only an active connection runs a call or waits to be removed.           *)
(***************************************************************************)
LEMMA AliveStep ==
    ASSUME TypeOK, FrameAgrees, Next
    PROVE  frame'.by # "none" => state' # "INACTIVE"
<1> DEFINE Goal == frame'.by # "none" => state' # "INACTIVE"
<1> USE DEF sockVars, dataVars
<1>1. ASSUME state' # "INACTIVE" PROVE Goal
  BY <1>1
<1>2. ASSUME state # "INACTIVE", state' = state PROVE Goal
  BY <1>2
<1>3. ASSUME frame' = Idle PROVE Goal
  BY <1>3, RestFrames
<1>4. ASSUME Running PROVE state # "INACTIVE"
  BY <1>4 DEF Running, FrameAgrees
<1>5. ASSUME NEW s, Step(s) PROVE Running
  BY <1>5 DEF Step, MayAdvance
<1>6. CASE StopAdvancing \/ FillReceiveBuffer \/ DrainSendBuffer
           \/ \E r \in {"AGAIN", "ERROR"} : FillFails(r)
  <2>1. Running /\ state' = state
    BY <1>6 DEF StopAdvancing, FillReceiveBuffer, DrainSendBuffer, FillFails, MayAdvance
  <2> QED
    BY <1>2, <1>4, <2>1
<1>7. ASSUME NEW r, StateBeginTransaction(r) \/ StateFlushRequestBody(r) PROVE Goal
  BY <1>1, <1>7 DEF StateBeginTransaction, StateFlushRequestBody, Step
<1>8. CASE StateSendRequestHeaders \/ EndBody \/ NoHeaders \/ NeedMoreBody \/ OfferPieceToConsumer
  BY <1>1, <1>8 DEF StateSendRequestHeaders, EndBody, NoHeaders, NeedMoreBody, OfferPieceToConsumer, Step
<1>9. ASSUME NEW n, FormatChunk(n) PROVE Goal
  BY <1>1, <1>9 DEF FormatChunk, Step
<1>10. ASSUME NEW r, NEW paused, NEW b,
              \/ StateReceiveResponseHeaders(r, paused, b) \/ OfferPieceToHandler(r, b, paused)
              \/ OfferLastChunk(r, paused) \/ NoOffer(r, paused) PROVE Goal
  BY <1>1, <1>10 DEF StateReceiveResponseHeaders, OfferPieceToHandler, OfferLastChunk, NoOffer, Step
<1>11. CASE Advance
  BY <1>6, <1>7, <1>8, <1>9, <1>10, <1>11 DEF Advance
<1>12. CASE HandleConnect \/ HandleReadable \/ HandleWritable \/ RemoveSocket \/ Abort
  BY <1>1, <1>2, <1>12 DEF HandleConnect, HandleReadable, HandleWritable, HandleEvent, RemoveSocket,
     Abort, AtRest
<1>13. CASE HandleRemove \/ RetryFails \/ ExecuteFails \/ Release
  BY <1>3, <1>13 DEF HandleRemove, RetryFails, Inactive, ExecuteFails, Release
<1>14. ASSUME Execute \/ Retry PROVE Goal
  BY <1>3, <1>14 DEF Execute, Retry
<1>15. ASSUME NEW n, SendRequestBody(n) \/ ReadResponseBody(n) PROVE Goal
  BY <1>2, <1>15 DEF SendRequestBody, ReadResponseBody, AtRest
<1>16. ASSUME NEW f, NEW update, PauseOrResume(f, update) PROVE Goal
  BY <1>2, <1>16 DEF PauseOrResume, AtRest
<1>17. CASE Call
  BY <1>12, <1>15, <1>16, <1>17 DEF Call
<1>18. CASE Shutdown
  BY <1>18 DEF Shutdown, FrameAgrees
<1> QED
  BY <1>11, <1>12, <1>13, <1>14, <1>17, <1>18 DEF Next

-----------------------------------------------------------------------------
(* The stream of tokens.                                                   *)

(***************************************************************************)
(* What the origin sends next, and where that leaves it.                   *)
(***************************************************************************)
LEMMA TokenFacts ==
    ASSUME NEW p \in Peers, NEW a \in NextTokens(p)
    PROVE  /\ a = <<a[1], a[2]>> /\ a[1] \in Tokens /\ a[2] \in Peers
           /\ p = "due" => /\ a[1] = "empty" => a[2] = "quiet"
                           /\ a[1] = "len" => a[2] = "len"
                           /\ a[1] = "chunked" => a[2] = "chunked"
           /\ p = "late" => a[1] = "end"
           /\ p = "len" => a[1] = "piece" /\ a[2] = "quiet"
           /\ p = "chunked" => /\ a[1] \in {"piece", "last", "bad"}
                               /\ a[1] = "piece" => a[2] = "chunked"
                               /\ a[1] = "last" => a[2] = "trailer"
           /\ p = "trailer" => a[1] = "end" /\ a[2] = "quiet"
           /\ p # "done" /\ p # "quiet"
<1>1. CASE p = "due"
  BY <1>1 DEF NextTokens, Tokens, Heads, Peers
<1>2. CASE p = "late"
  BY <1>2 DEF NextTokens, Tokens, Heads, Peers
<1>3. CASE p = "len"
  BY <1>3 DEF NextTokens, Tokens, Heads, Peers
<1>4. CASE p = "chunked"
  BY <1>4 DEF NextTokens, Tokens, Heads, Peers
<1>5. CASE p = "trailer"
  BY <1>5 DEF NextTokens, Tokens, Heads, Peers
<1>6. CASE p \in {"done", "quiet"}
  BY <1>6 DEF NextTokens
<1> QED
  BY <1>1, <1>2, <1>3, <1>4, <1>5, <1>6 DEF Peers

(***************************************************************************)
(* With nothing buffered, the parser is where the origin is.               *)
(***************************************************************************)
LEMMA PathEmpty ==
    ASSUME NEW p \in Peers, NEW q \in Peers
    PROVE  Path(p, <<>>, q) <=> p = q
<1>1. ASSUME Path(p, <<>>, q) PROVE p = q
  BY <1>1 DEF Path
<1>2. ASSUME p = q PROVE Path(p, <<>>, q)
  <2> DEFINE h == [k \in 1 .. 1 |-> p]
  <2>1. h \in [1 .. Len(<<>>) + 1 -> Peers] /\ h[1] = p /\ h[Len(<<>>) + 1] = q
    BY <1>2
  <2>2. \A k \in 1 .. Len(<<>>) : <<(<<>>)[k], h[k + 1]>> \in NextTokens(h[k])
    OBVIOUS
  <2> HIDE DEF h
  <2> QED
    BY <2>1, <2>2 DEF Path
<1> QED
  BY <1>1, <1>2

(***************************************************************************)
(* The first buffered token is one the origin may have sent from where the *)
(* parser is, and reading it moves the parser along.                       *)
(***************************************************************************)
LEMMA PathHead ==
    ASSUME NEW p, NEW q, NEW s \in Seq(Tokens), s # <<>>, Path(p, s, q)
    PROVE  /\ p \in Peers
           /\ \E a \in NextTokens(p) : a[1] = Head(s) /\ Path(a[2], Tail(s), q)
<1>1. PICK h \in [1 .. Len(s) + 1 -> Peers] :
        /\ h[1] = p /\ h[Len(s) + 1] = q
        /\ \A k \in 1 .. Len(s) : <<s[k], h[k + 1]>> \in NextTokens(h[k])
  BY DEF Path
<1>2. /\ Len(s) \in Nat /\ Len(s) # 0 /\ Head(s) = s[1] /\ Len(Tail(s)) = Len(s) - 1
      /\ \A k \in 1 .. Len(Tail(s)) : Tail(s)[k] = s[k + 1]
  OBVIOUS
<1> DEFINE g == [k \in 1 .. Len(Tail(s)) + 1 |-> h[k + 1]]
<1>3. g \in [1 .. Len(Tail(s)) + 1 -> Peers]
  BY <1>1, <1>2
<1>4. g[1] = h[2] /\ g[Len(Tail(s)) + 1] = q
  BY <1>1, <1>2
<1>5. ASSUME NEW k \in 1 .. Len(Tail(s)) PROVE <<Tail(s)[k], g[k + 1]>> \in NextTokens(g[k])
  <2>1. k + 1 \in 1 .. Len(s) /\ g[k + 1] = h[k + 1 + 1] /\ g[k] = h[k + 1] /\ Tail(s)[k] = s[k + 1]
    BY <1>2
  <2> QED
    BY <1>1, <2>1
<1>6. Path(h[2], Tail(s), q)
  <2> HIDE DEF g
  <2> QED
    BY <1>3, <1>4, <1>5 DEF Path
<1>7. <<s[1], h[2]>> \in NextTokens(p) /\ p \in Peers
  <2>1. 1 \in 1 .. Len(s) /\ 1 + 1 = 2 /\ 1 \in 1 .. Len(s) + 1
    BY <1>2
  <2> QED
    BY <1>1, <2>1
<1>8. <<s[1], h[2]>>[1] = Head(s) /\ <<s[1], h[2]>>[2] = h[2]
  BY <1>2
<1> QED
  BY <1>6, <1>7, <1>8

(***************************************************************************)
(* One more token arrives.                                                 *)
(***************************************************************************)
LEMMA PathAppend ==
    ASSUME NEW p, NEW q, NEW s \in Seq(Tokens), Path(p, s, q), NEW a \in NextTokens(q)
    PROVE  Path(p, Append(s, a[1]), a[2]) /\ q \in Peers
<1>1. PICK h \in [1 .. Len(s) + 1 -> Peers] :
        /\ h[1] = p /\ h[Len(s) + 1] = q
        /\ \A k \in 1 .. Len(s) : <<s[k], h[k + 1]>> \in NextTokens(h[k])
  BY DEF Path
<1>2. Len(s) \in Nat /\ q \in Peers
  BY <1>1
<1>3. a = <<a[1], a[2]>> /\ a[1] \in Tokens /\ a[2] \in Peers
  BY <1>2, TokenFacts
<1> DEFINE t == Append(s, a[1])
           g == [k \in 1 .. Len(t) + 1 |-> IF k = Len(s) + 2 THEN a[2] ELSE h[k]]
<1>4. /\ Len(t) = Len(s) + 1 /\ t[Len(s) + 1] = a[1]
      /\ \A k \in 1 .. Len(s) : t[k] = s[k]
  BY <1>2, <1>3
<1> HIDE DEF t
<1>5. g \in [1 .. Len(t) + 1 -> Peers]
  BY <1>1, <1>2, <1>3, <1>4
<1>6. g[1] = p /\ g[Len(t) + 1] = a[2] /\ g[Len(s) + 1] = q
  BY <1>1, <1>2, <1>4
<1>7. ASSUME NEW k \in 1 .. Len(t) PROVE <<t[k], g[k + 1]>> \in NextTokens(g[k])
  <2>1. CASE k = Len(s) + 1
    <3>1. t[k] = a[1] /\ g[k + 1] = a[2] /\ g[k] = q
      BY <1>2, <1>4, <1>6, <2>1
    <3> QED
      BY <1>3, <3>1
  <2>2. CASE k # Len(s) + 1
    <3>1. k \in 1 .. Len(s) /\ t[k] = s[k] /\ g[k + 1] = h[k + 1] /\ g[k] = h[k]
      BY <1>2, <1>4, <2>2
    <3> QED
      BY <1>1, <3>1
  <2> QED
    BY <2>1, <2>2
<1>8. Path(p, t, a[2])
  <2> HIDE DEF g
  <2> QED
    BY <1>5, <1>6, <1>7 DEF Path
<1> QED
  BY <1>2, <1>8 DEF t

(***************************************************************************)
(* A receive appends one or two tokens.                                    *)
(***************************************************************************)
LEMMA PathBurst ==
    ASSUME NEW p, NEW q, NEW s \in Seq(Tokens), Path(p, s, q), NEW burst \in Bursts(q)
    PROVE  /\ Path(p, s \o burst[1], burst[2])
           /\ burst[1] \in Seq(Tokens) /\ burst[2] \in Peers /\ Len(burst[1]) > 0
<1>0. q \in Peers
  <2>1. PICK h \in [1 .. Len(s) + 1 -> Peers] : h[Len(s) + 1] = q
    BY DEF Path
  <2> QED
    BY <2>1
<1>1. CASE \E a \in NextTokens(q) : burst = << <<a[1]>>, a[2]>>
  <2>1. PICK a \in NextTokens(q) : burst = << <<a[1]>>, a[2]>>
    BY <1>1
  <2>2. a[1] \in Tokens /\ a[2] \in Peers
    BY <1>0, TokenFacts
  <2>3. burst[1] = <<a[1]>> /\ burst[2] = a[2]
    BY <2>1
  <2>4. s \o <<a[1]>> = Append(s, a[1])
    BY <2>2
  <2>5. <<a[1]>> \in Seq(Tokens) /\ Len(<<a[1]>>) = 1
    BY <2>2
  <2>6. Path(p, Append(s, a[1]), a[2])
    BY PathAppend
  <2>7. Path(p, s \o burst[1], burst[2])
    BY <2>3, <2>4, <2>6, Zenon
  <2>8. Len(burst[1]) = 1 /\ burst[1] \in Seq(Tokens)
    BY <2>3, <2>5, Zenon
  <2>9. burst[2] \in Peers
    BY <2>2, <2>3
  <2> QED
    BY <2>7, <2>8, <2>9
<1>2. CASE \E a \in NextTokens(q) : \E b \in NextTokens(a[2]) : burst = << <<a[1], b[1]>>, b[2]>>
  <2>1. PICK a \in NextTokens(q) : \E b \in NextTokens(a[2]) : burst = << <<a[1], b[1]>>, b[2]>>
    BY <1>2
  <2>2. PICK b \in NextTokens(a[2]) : burst = << <<a[1], b[1]>>, b[2]>>
    BY <2>1
  <2>3. a[1] \in Tokens /\ a[2] \in Peers
    BY <1>0, TokenFacts
  <2>4. b[1] \in Tokens /\ b[2] \in Peers
    BY <2>3, TokenFacts
  <2>5. burst[1] = <<a[1], b[1]>> /\ burst[2] = b[2]
    BY <2>2
  <2>6. s \o <<a[1], b[1]>> = Append(Append(s, a[1]), b[1])
    BY <2>3, <2>4
  <2>7. Path(p, Append(s, a[1]), a[2]) /\ Append(s, a[1]) \in Seq(Tokens)
    BY <2>3, PathAppend
  <2>8. Path(p, Append(Append(s, a[1]), b[1]), b[2])
    BY <2>7, PathAppend
  <2>9. <<a[1], b[1]>> \in Seq(Tokens) /\ Len(<<a[1], b[1]>>) = 2
    BY <2>3, <2>4
  <2>10. Path(p, s \o burst[1], burst[2])
    BY <2>5, <2>6, <2>8, Zenon
  <2>11. Len(burst[1]) = 2 /\ burst[1] \in Seq(Tokens)
    BY <2>5, <2>9, Zenon
  <2>12. burst[2] \in Peers
    BY <2>4, <2>5
  <2> QED
    BY <2>10, <2>11, <2>12
<1> QED
  BY <1>1, <1>2 DEF Bursts

(***************************************************************************)
(* Between two messages nothing is buffered.                               *)
(***************************************************************************)
LEMMA PathQuiet ==
    ASSUME NEW q, NEW s \in Seq(Tokens), Path("quiet", s, q)
    PROVE  s = <<>> /\ q = "quiet"
<1>1. "quiet" \in Peers
  BY DEF Peers
<1>2. s = <<>>
  <2>1. SUFFICES ASSUME s # <<>> PROVE FALSE
    OBVIOUS
  <2>2. PICK a \in NextTokens("quiet") : a[1] = Head(s)
    BY <2>1, PathHead
  <2> QED
    BY <1>1, <2>2, TokenFacts
<1>3. PICK h \in [1 .. Len(s) + 1 -> Peers] : h[1] = "quiet" /\ h[Len(s) + 1] = q
  BY DEF Path
<1>4. Len(s) + 1 = 1
  BY <1>2
<1> QED
  BY <1>2, <1>3, <1>4

(***************************************************************************)
(* After the last chunk there is at most the end of the trailer.           *)
(***************************************************************************)
LEMMA PathTrailer ==
    ASSUME NEW q \in Peers, NEW s \in Seq(Tokens), Path("trailer", s, q)
    PROVE  q \in {"quiet", "trailer"}
<1>1. "trailer" \in Peers
  BY DEF Peers
<1>2. CASE s = <<>>
  <2>1. Path("trailer", <<>>, q)
    BY <1>2, Zenon
  <2> QED
    BY <1>1, <2>1, PathEmpty
<1>3. CASE s # <<>>
  <2>1. PICK a \in NextTokens("trailer") : Path(a[2], Tail(s), q)
    BY <1>3, PathHead
  <2>2. a[2] = "quiet" /\ Tail(s) \in Seq(Tokens)
    BY <1>1, <1>3, TokenFacts
  <2> QED
    BY <2>1, <2>2, PathQuiet
<1> QED
  BY <1>2, <1>3

(***************************************************************************)
(* What currentChunkBytesAvailable finds is what the origin sent.          *)
(***************************************************************************)
LEMMA ChunkFacts ==
    ASSUME TypeOK, Stream, Flagged, state = "PARSING_BODY"
    PROVE  /\ CurrentChunk = "piece" =>
                /\ recvBuf # <<>> /\ Head(recvBuf) = "piece"
                /\ Position = {"len"} \/ Position = {"chunked"}
           /\ CurrentChunk = "last" =>
                /\ avail = 0
                /\ response.kind = "chunked" => recvBuf # <<>> /\ Head(recvBuf) = "last"
                /\ response.kind # "chunked" => Position = {"quiet"}
<1>1. PICK p \in Position : Path(p, recvBuf, peer)
  BY DEF Stream
<1>2. "LAST_CHUNK_RECEIVED" \notin flags
  BY DEF Flagged
<1>3. recvBuf \in Seq(Tokens) /\ avail \in 0 .. 1 /\ response \in Responses
  BY DEF TypeOK
<1>4. response.kind \in {"none", "empty", "len", "chunked"} /\ response.left \in 0 .. 1
  BY <1>3 DEF Responses, Heads
<1>5. /\ response.kind = "len" /\ response.left = 1 => Position = {"len"}
      /\ response.kind = "chunked" => Position = {"chunked"}
      /\ response.kind = "len" /\ response.left = 0 => Position = {"quiet"}
      /\ response.kind \in {"none", "empty"} => Position = {"quiet"}
  BY <1>4 DEF Position
<1>6. CASE avail > 0
  <2>1. CurrentChunk = "piece"
    BY <1>6 DEF CurrentChunk
  <2>2. recvBuf # <<>> /\ Head(recvBuf) = "piece" /\ Position \subseteq {"len", "chunked"}
    BY <1>6 DEF Stream
  <2> QED
    BY <1>4, <1>5, <2>1, <2>2
<1>7. CASE ~(avail > 0)
  <2>1. avail = 0
    BY <1>3, <1>7
  <2>2. ASSUME CurrentChunk = "piece"
        PROVE  recvBuf # <<>> /\ Head(recvBuf) = "piece" /\ (Position = {"len"} \/ Position = {"chunked"})
    <3>1. \/ response.kind = "len" /\ response.left = 1 /\ recvBuf # <<>>
          \/ response.kind \in {"none", "chunked"} /\ recvBuf # <<>> /\ Head(recvBuf) = "piece"
      BY <1>2, <1>4, <1>7, <2>2 DEF CurrentChunk
    <3>2. PICK a \in NextTokens(p) : a[1] = Head(recvBuf)
      BY <1>1, <1>3, <3>1, PathHead
    <3>3. p \in Peers
      BY <1>1, <1>3, <3>1, PathHead
    <3>4. p # "quiet" /\ (p = "len" => a[1] = "piece")
      BY <3>2, <3>3, TokenFacts
    <3> QED
      BY <1>1, <1>5, <3>1, <3>2, <3>4
  <2>3. ASSUME CurrentChunk = "last"
        PROVE  /\ response.kind = "chunked" => recvBuf # <<>> /\ Head(recvBuf) = "last"
               /\ response.kind # "chunked" => Position = {"quiet"}
    <3>1. \/ response.kind = "empty"
          \/ response.kind = "len" /\ response.left = 0
          \/ response.kind \in {"none", "chunked"} /\ recvBuf # <<>> /\ Head(recvBuf) = "last"
      BY <1>2, <1>4, <1>7, <2>3 DEF CurrentChunk
    <3> QED
      BY <1>5, <3>1
  <2> QED
    BY <2>1, <2>2, <2>3
<1> QED
  BY <1>6, <1>7

(***************************************************************************)
(* A piece that is taken moves the parser past it.                         *)
(***************************************************************************)
LEMMA PieceKeeps ==
    ASSUME TypeOK, Stream, Flagged, state = "PARSING_BODY", CurrentChunk = "piece",
           NEW taken \in BOOLEAN, ConsumePiece(taken), UNCHANGED <<peer, state>>
    PROVE  Stream'
<1>1. /\ recvBuf # <<>> /\ Head(recvBuf) = "piece" /\ (Position = {"len"} \/ Position = {"chunked"})
  BY ChunkFacts
<1>2. PICK p \in Position : Path(p, recvBuf, peer)
  BY DEF Stream
<1>3. response \in Responses /\ recvBuf \in Seq(Tokens)
  BY DEF TypeOK
<1>4. CASE taken
  <2>1. /\ avail' = 0 /\ recvBuf' = Tail(recvBuf)
        /\ response' = [response EXCEPT !.left = IF @ > 0 THEN @ - 1 ELSE @]
    BY <1>4 DEF ConsumePiece
  <2>2. PICK a \in NextTokens(p) : a[1] = "piece" /\ Path(a[2], Tail(recvBuf), peer)
    BY <1>1, <1>2, <1>3, PathHead
  <2>3. p \in Peers
    BY <1>1, <1>2 DEF Peers
  <2>4. /\ response'.kind = response.kind
        /\ response'.left = IF response.left > 0 THEN response.left - 1 ELSE response.left
    BY <1>3, <2>1 DEF Responses
  <2>5. Path(a[2], recvBuf', peer') /\ ~(avail' > 0)
    BY <2>1, <2>2
  <2>6. CASE Position = {"len"}
    <3>1. response.kind = "len" /\ response.left = 1
      BY <2>6 DEF Position
    <3>2. Position' = {"quiet"}
      BY <2>4, <3>1 DEF Position
    <3>3. a[2] = "quiet"
      BY <1>2, <2>2, <2>3, <2>6, TokenFacts
    <3> QED
      BY <2>5, <3>2, <3>3 DEF Stream
  <2>7. CASE Position = {"chunked"}
    <3>1. response.kind = "chunked"
      BY <2>7 DEF Position
    <3>2. Position' = {"chunked"}
      BY <2>4, <3>1 DEF Position
    <3>3. a[2] = "chunked"
      BY <1>2, <2>2, <2>3, <2>7, TokenFacts
    <3> QED
      BY <2>5, <3>2, <3>3 DEF Stream
  <2> QED
    BY <1>1, <2>6, <2>7
<1>5. CASE ~taken
  <2>1. recvBuf' = recvBuf /\ response' = [response EXCEPT !.left = @]
    BY <1>5 DEF ConsumePiece
  <2>2. response'.kind = response.kind /\ response'.left = response.left
    BY <1>3, <2>1 DEF Responses
  <2>3. Position' = Position
    BY <2>2 DEF Position
  <2> QED
    BY <1>1, <1>2, <2>1, <2>3 DEF Stream
<1> QED
  BY <1>4, <1>5

(***************************************************************************)
(* A new connection begins where the one before it left the origin: at the *)
(* next response, or at a trailer that nobody has read.                    *)
(***************************************************************************)
LEMMA NewStream ==
    ASSUME NEW before, NewSocket(before), EmptyBuffers
    PROVE  Stream'
<1>1. state' \in {"TRANSACTION_BEGIN", "CONNECTING"} /\ peer' \in {"due", "late"}
  BY DEF NewSocket
<1>2. Position' = {"due", "late"}
  BY <1>1 DEF Position
<1>3. recvBuf' = <<>> /\ ~(avail' > 0)
  BY DEF EmptyBuffers
<1>4. Path(peer', <<>>, peer')
  BY <1>1, PathEmpty DEF Peers
<1>5. \E p \in Position' : Path(p, recvBuf', peer')
  BY <1>1, <1>2, <1>3, <1>4
<1> QED
  BY <1>3, <1>5 DEF Stream

(***************************************************************************)
(* The parser stays in step with the origin.                               *)
(***************************************************************************)
LEMMA StreamStep ==
    ASSUME TypeOK, Stream, Flagged, Next
    PROVE  Stream'
<1> USE DEF sockVars, dataVars, envVars
<1>0. recvBuf \in Seq(Tokens) /\ response \in Responses /\ avail \in 0 .. 1 /\ peer \in Peers
  BY DEF TypeOK, Peers
<1>1. ASSUME UNCHANGED <<state, recvBuf, peer, avail, response>> PROVE Stream'
  BY <1>1 DEF Stream, Position
<1>2. ASSUME UNCHANGED <<recvBuf, peer, avail>>, state # "INACTIVE",
             {state, state'} \cap {"PARSING_BODY", "TRANSACTION_END"} = {} PROVE Stream'
  <2>1. Position = {"due", "late"} /\ Position' = {"due", "late"}
    BY <1>2 DEF Position
  <2> QED
    BY <1>2, <2>1 DEF Stream
<1>3. CASE StopAdvancing \/ DrainSendBuffer \/ \E r \in {"AGAIN", "ERROR"} : FillFails(r)
  BY <1>1, <1>3 DEF StopAdvancing, DrainSendBuffer, FillFails
<1>4. CASE FillReceiveBuffer
  <2>1. PICK burst \in Bursts(peer) : recvBuf' = recvBuf \o burst[1] /\ peer' = burst[2]
    BY <1>4 DEF FillReceiveBuffer
  <2>2. UNCHANGED <<state, avail, response>>
    BY <1>4 DEF FillReceiveBuffer
  <2>3. Position' = Position
    BY <2>2 DEF Position
  <2>4. CASE state # "INACTIVE"
    <3>1. PICK p \in Position : Path(p, recvBuf, peer)
      BY <2>4 DEF Stream
    <3>2. Path(p, recvBuf', peer') /\ burst[1] \in Seq(Tokens)
      BY <1>0, <2>1, <3>1, PathBurst
    <3>3. recvBuf # <<>> => recvBuf' # <<>> /\ Head(recvBuf') = Head(recvBuf)
      BY <1>0, <2>1, <3>2
    <3> QED
      BY <2>2, <2>3, <2>4, <3>2, <3>3 DEF Stream
  <2> QED
    BY <2>2, <2>3, <2>4 DEF Stream
<1>5. ASSUME NEW r, StateBeginTransaction(r) \/ StateFlushRequestBody(r) PROVE Stream'
  BY <1>2, <1>5 DEF StateBeginTransaction, StateFlushRequestBody, Step
<1>6. CASE StateSendRequestHeaders \/ EndBody
  BY <1>2, <1>6 DEF StateSendRequestHeaders, EndBody, Step
<1>7. ASSUME NEW n, FormatChunk(n) PROVE Stream'
  BY <1>1, <1>7 DEF FormatChunk
<1>8. CASE NoHeaders \/ NeedMoreBody
  BY <1>1, <1>8 DEF NoHeaders, NeedMoreBody
<1>9. ASSUME NEW r, NEW paused, NEW close, StateReceiveResponseHeaders(r, paused, close) PROVE Stream'
  <2>1. /\ state = "PARSING_HEADERS" /\ recvBuf # <<>> /\ Head(recvBuf) \in Heads
        /\ recvBuf' = Tail(recvBuf) /\ UNCHANGED <<peer, avail>> /\ state' = "PARSING_BODY"
        /\ response' = [kind |-> Head(recvBuf), left |-> IF Head(recvBuf) = "len" THEN 1 ELSE 0,
                        close |-> close]
    BY <1>9 DEF StateReceiveResponseHeaders, Step
  <2>2. Position = {"due", "late"} /\ ~(avail > 0)
    BY <2>1 DEF Position, Stream
  <2>3. PICK p \in {"due", "late"} : Path(p, recvBuf, peer)
    BY <2>1, <2>2 DEF Stream
  <2>4. PICK a \in NextTokens(p) : a[1] = Head(recvBuf) /\ Path(a[2], Tail(recvBuf), peer)
    BY <1>0, <2>1, <2>3, PathHead
  <2>5. p \in Peers
    BY <2>3 DEF Peers
  <2>6. p = "due"
    BY <2>1, <2>3, <2>4, <2>5, TokenFacts DEF Heads
  <2>7. /\ a[1] = "empty" => a[2] = "quiet"
        /\ a[1] = "len" => a[2] = "len"
        /\ a[1] = "chunked" => a[2] = "chunked"
    BY <2>5, <2>6, TokenFacts
  <2>8. response'.kind = Head(recvBuf) /\ response'.left = IF Head(recvBuf) = "len" THEN 1 ELSE 0
    BY <2>1
  <2>9. Position' = {a[2]}
    BY <2>1, <2>4, <2>7, <2>8 DEF Position, Heads
  <2>10. Path(a[2], recvBuf', peer')
    BY <2>1, <2>4
  <2> QED
    BY <2>1, <2>2, <2>9, <2>10 DEF Stream
<1>10. ASSUME NEW r, NEW paused, NEW taken \in BOOLEAN, OfferPieceToHandler(r, taken, paused) PROVE Stream'
  BY <1>10, PieceKeeps DEF OfferPieceToHandler, Step
<1>11. CASE OfferPieceToConsumer
  <2>1. /\ state = "PARSING_BODY" /\ CurrentChunk = "piece" /\ ConsumePiece(frame.left > 0)
        /\ state' = state /\ UNCHANGED peer /\ (frame.left > 0) \in BOOLEAN
    BY <1>11 DEF OfferPieceToConsumer, Step
  <2> QED
    BY <2>1, PieceKeeps
<1>12. ASSUME NEW r, NEW paused, OfferLastChunk(r, paused) PROVE Stream'
  <2>1. /\ state = "PARSING_BODY" /\ CurrentChunk = "last" /\ state' = "TRANSACTION_END"
        /\ recvBuf' = IF ParsesLastChunk /\ response.kind = "chunked" THEN Tail(recvBuf) ELSE recvBuf
        /\ UNCHANGED <<avail, peer, response>>
    BY <1>12 DEF OfferLastChunk, Step
  <2>2. /\ avail = 0
        /\ response.kind = "chunked" => recvBuf # <<>> /\ Head(recvBuf) = "last"
        /\ response.kind # "chunked" => Position = {"quiet"}
    BY <2>1, ChunkFacts
  <2>3. "LAST_CHUNK_RECEIVED" \notin flags
    BY <2>1 DEF Flagged
  <2>4. PICK p \in Position : Path(p, recvBuf, peer)
    BY <2>1 DEF Stream
  <2>5. CASE response.kind = "chunked"
    <3>1. Position = {"chunked"} /\ recvBuf' = Tail(recvBuf) /\ Position' = {"trailer"}
      BY <2>1, <2>3, <2>5 DEF Position, ParsesLastChunk
    <3>2. p = "chunked"
      BY <2>4, <3>1
    <3>3. PICK a \in NextTokens("chunked") : a[1] = "last" /\ Path(a[2], Tail(recvBuf), peer)
      BY <1>0, <2>2, <2>4, <2>5, <3>2, PathHead
    <3>4. "chunked" \in Peers
      BY DEF Peers
    <3>5. a[2] = "trailer"
      BY <3>3, <3>4, TokenFacts
    <3> QED
      BY <2>1, <2>2, <3>1, <3>3, <3>5 DEF Stream
  <2>6. CASE response.kind # "chunked"
    <3>1. recvBuf' = recvBuf /\ Position' = {"quiet"} /\ p = "quiet"
      BY <2>1, <2>2, <2>4, <2>6 DEF Position
    <3> QED
      BY <2>1, <2>2, <2>4, <3>1 DEF Stream
  <2> QED
    BY <2>5, <2>6
<1>13. ASSUME NEW r, NEW paused, NoOffer(r, paused) PROVE Stream'
  BY <1>1, <1>13 DEF NoOffer
<1>14. CASE Advance
  BY <1>3, <1>4, <1>5, <1>6, <1>7, <1>8, <1>9, <1>10, <1>11, <1>12, <1>13, <1>14 DEF Advance
<1>15. CASE HandleConnect
  BY <1>2, <1>15 DEF HandleConnect
<1>16. CASE HandleReadable \/ HandleWritable \/ RemoveSocket \/ Abort
  BY <1>1, <1>16 DEF HandleReadable, HandleWritable, HandleEvent, RemoveSocket, Abort
<1>17. CASE HandleRemove \/ RetryFails
  BY <1>17 DEF HandleRemove, RetryFails, Inactive, EmptyBuffers, Stream
<1>18. CASE ExecuteFails \/ Release
  BY <1>1, <1>18 DEF ExecuteFails, Release
<1>19. ASSUME Execute \/ Retry PROVE Stream'
  BY <1>19, NewStream DEF Execute, Retry
<1>20. ASSUME NEW n, SendRequestBody(n) \/ ReadResponseBody(n) PROVE Stream'
  BY <1>1, <1>20 DEF SendRequestBody, ReadResponseBody
<1>21. ASSUME NEW f, NEW update, PauseOrResume(f, update) PROVE Stream'
  BY <1>1, <1>21 DEF PauseOrResume
<1>22. CASE Call
  BY <1>16, <1>20, <1>21, <1>22 DEF Call
<1>23. CASE Shutdown
  BY <1>1, <1>23 DEF Shutdown
<1> QED
  BY <1>14, <1>15, <1>16, <1>17, <1>18, <1>19, <1>22, <1>23 DEF Next

(***************************************************************************)
(* A token that is read makes the buffer shorter.                          *)
(***************************************************************************)
LEMMA TailType ==
    ASSUME NEW s \in Seq(Tokens), s # <<>>, Len(s) <= RecvSize
    PROVE  Tail(s) \in Seq(Tokens) /\ Len(Tail(s)) <= RecvSize
<1>1. Tail(s) \in Seq(Tokens) /\ Len(Tail(s)) = Len(s) - 1 /\ Len(s) \in Nat
  OBVIOUS
<1> QED
  BY <1>1, ClientBoundsAssumption

(***************************************************************************)
(* The receive buffer, the response and the origin stay within their       *)
(* types: nothing is read from an empty buffer and none is filled beyond   *)
(* its size.                                                               *)
(***************************************************************************)
LEMMA RecvStep ==
    ASSUME TypeOK, Stream, Flagged, Next
    PROVE  /\ recvBuf' \in Seq(Tokens) /\ Len(recvBuf') <= RecvSize /\ avail' \in 0 .. 1
           /\ response' \in Responses /\ peer' \in Peers /\ received' \in 0 .. MaxInput
<1> DEFINE Buffer == recvBuf' \in Seq(Tokens) /\ Len(recvBuf') <= RecvSize
           Origin == peer' \in Peers /\ received' \in 0 .. MaxInput
           Goal == Buffer /\ avail' \in 0 .. 1 /\ response' \in Responses /\ Origin
<1> USE DEF dataVars, envVars
<1>0. /\ recvBuf \in Seq(Tokens) /\ Len(recvBuf) <= RecvSize /\ avail \in 0 .. 1
      /\ response \in Responses /\ peer \in Peers /\ received \in 0 .. MaxInput
  BY DEF TypeOK, Peers
<1>1. ASSUME UNCHANGED <<recvBuf, avail, response, peer, received>> PROVE Goal
  BY <1>0, <1>1
<1>2. CASE StopAdvancing \/ DrainSendBuffer \/ \E r \in {"AGAIN", "ERROR"} : FillFails(r)
  BY <1>1, <1>2 DEF StopAdvancing, DrainSendBuffer, FillFails
<1>3. CASE NoHeaders \/ NeedMoreBody \/ StateSendRequestHeaders \/ EndBody
  BY <1>1, <1>3 DEF NoHeaders, NeedMoreBody, StateSendRequestHeaders, EndBody
<1>4. CASE FillReceiveBuffer
  <2>1. PICK burst \in Bursts(peer) :
          /\ Len(recvBuf) + Len(burst[1]) <= RecvSize
          /\ received + Len(burst[1]) <= MaxInput
          /\ recvBuf' = recvBuf \o burst[1]
          /\ peer' = burst[2]
          /\ received' = received + Len(burst[1])
    BY <1>4 DEF FillReceiveBuffer, Fits
  <2>2. UNCHANGED <<avail, response>>
    BY <1>4 DEF FillReceiveBuffer
  <2>3. Path(peer, <<>>, peer) /\ <<>> \in Seq(Tokens)
    BY <1>0, PathEmpty
  <2>4. burst[1] \in Seq(Tokens) /\ burst[2] \in Peers
    BY <2>3, PathBurst
  <2>5. Len(burst[1]) \in Nat
    BY <2>4
  <2>6. recvBuf' \in Seq(Tokens) /\ Len(recvBuf') = Len(recvBuf) + Len(burst[1])
    BY <1>0, <2>1, <2>4
  <2>7. received' \in 0 .. MaxInput
    BY <1>0, <2>1, <2>5, ClientBoundsAssumption
  <2> QED
    BY <1>0, <2>1, <2>2, <2>4, <2>6, <2>7
<1>5. ASSUME NEW r, StateBeginTransaction(r) \/ StateFlushRequestBody(r) PROVE Goal
  BY <1>1, <1>5 DEF StateBeginTransaction, StateFlushRequestBody
<1>6. ASSUME NEW r, NEW paused, NEW close \in BOOLEAN,
             StateReceiveResponseHeaders(r, paused, close) PROVE Goal
  <2>1. /\ recvBuf # <<>> /\ Head(recvBuf) \in Heads
        /\ recvBuf' = Tail(recvBuf) /\ UNCHANGED <<avail, peer, received>>
        /\ response' = [kind |-> Head(recvBuf), left |-> IF Head(recvBuf) = "len" THEN 1 ELSE 0,
                        close |-> close]
    BY <1>6 DEF StateReceiveResponseHeaders
  <2>2. response' \in Responses
    <3>1. (IF Head(recvBuf) = "len" THEN 1 ELSE 0) \in 0 .. 1
      OBVIOUS
    <3> QED
      BY <2>1, <3>1 DEF Responses
  <2>3. Buffer
    BY <1>0, <2>1, TailType
  <2> QED
    BY <1>0, <2>1, <2>2, <2>3
<1>7. ASSUME NEW taken \in BOOLEAN, state = "PARSING_BODY", CurrentChunk = "piece", ConsumePiece(taken),
             UNCHANGED <<peer, received>> PROVE Goal
  <2>1. recvBuf # <<>>
    BY <1>7, ChunkFacts
  <2>2. Buffer
    BY <1>0, <1>7, <2>1, TailType DEF ConsumePiece
  <2>3. response' \in Responses
    <3>1. response.left \in 0 .. 1
      BY <1>0 DEF Responses
    <3>2. (IF taken /\ response.left > 0 THEN response.left - 1 ELSE response.left) \in 0 .. 1
      BY <3>1
    <3> QED
      BY <1>0, <1>7, <3>2 DEF ConsumePiece, Responses
  <2>4. avail' \in 0 .. 1
    BY <1>7 DEF ConsumePiece
  <2> QED
    BY <1>0, <1>7, <2>2, <2>3, <2>4
<1>8. ASSUME NEW r, NEW paused, NEW taken \in BOOLEAN, OfferPieceToHandler(r, taken, paused) PROVE Goal
  BY <1>7, <1>8 DEF OfferPieceToHandler, Step
<1>9. CASE OfferPieceToConsumer
  <2>1. /\ state = "PARSING_BODY" /\ CurrentChunk = "piece" /\ ConsumePiece(frame.left > 0)
        /\ UNCHANGED <<peer, received>> /\ (frame.left > 0) \in BOOLEAN
    BY <1>9 DEF OfferPieceToConsumer, Step
  <2> QED
    BY <1>7, <2>1
<1>10. ASSUME NEW r, NEW paused, OfferLastChunk(r, paused) PROVE Goal
  <2>1. /\ state = "PARSING_BODY" /\ CurrentChunk = "last"
        /\ recvBuf' = IF ParsesLastChunk /\ response.kind = "chunked" THEN Tail(recvBuf) ELSE recvBuf
        /\ UNCHANGED <<avail, peer, received, response>>
    BY <1>10 DEF OfferLastChunk, Step
  <2>2. response.kind = "chunked" => recvBuf # <<>>
    BY <2>1, ChunkFacts
  <2>3. Buffer
    BY <1>0, <2>1, <2>2, TailType
  <2> QED
    BY <1>0, <2>1, <2>3
<1>11. ASSUME NEW r, NEW paused, NoOffer(r, paused) PROVE Goal
  BY <1>1, <1>11 DEF NoOffer
<1>12. ASSUME NEW n, FormatChunk(n) PROVE Goal
  BY <1>1, <1>12 DEF FormatChunk
<1>13. CASE Advance
  BY <1>2, <1>3, <1>4, <1>5, <1>6, <1>8, <1>9, <1>10, <1>11, <1>12, <1>13 DEF Advance
<1>14. CASE HandleConnect \/ HandleReadable \/ HandleWritable \/ RemoveSocket \/ Abort
  BY <1>1, <1>14 DEF HandleConnect, HandleReadable, HandleWritable, HandleEvent, RemoveSocket, Abort
<1>15. NoResponse \in Responses
  BY DEF NoResponse, Responses
<1>16. ASSUME EmptyBuffers PROVE Buffer /\ avail' \in 0 .. 1
  <2>1. recvBuf' = <<>> /\ avail' = 0
    BY <1>16 DEF EmptyBuffers
  <2>2. <<>> \in Seq(Tokens) /\ Len(<<>>) <= RecvSize
    BY ClientBoundsAssumption
  <2> QED
    BY <2>1, <2>2
<1>17. CASE HandleRemove \/ RetryFails
  <2>1. /\ EmptyBuffers /\ response' = NoResponse /\ UNCHANGED received
        /\ peer' \in {peer, "quiet"}
    BY <1>17 DEF HandleRemove, RetryFails, Inactive
  <2> QED
    BY <1>0, <1>15, <1>16, <2>1 DEF Peers
<1>18. CASE ExecuteFails \/ Release
  BY <1>1, <1>18 DEF ExecuteFails, Release
<1>19. ASSUME Execute \/ Retry PROVE Goal
  <2>1. /\ EmptyBuffers /\ response' \in {response, NoResponse} /\ UNCHANGED received
        /\ peer' \in {"late", "due"}
    BY <1>19 DEF Execute, Retry, NewSocket
  <2> QED
    BY <1>0, <1>15, <1>16, <2>1 DEF Peers
<1>20. ASSUME NEW n, SendRequestBody(n) \/ ReadResponseBody(n) PROVE Goal
  BY <1>1, <1>20 DEF SendRequestBody, ReadResponseBody
<1>21. ASSUME NEW f, NEW update, PauseOrResume(f, update) PROVE Goal
  BY <1>1, <1>21 DEF PauseOrResume
<1>22. CASE Call
  BY <1>14, <1>20, <1>21, <1>22 DEF Call
<1>23. CASE Shutdown
  BY <1>1, <1>23 DEF Shutdown
<1> QED
  BY <1>13, <1>14, <1>17, <1>18, <1>19, <1>22, <1>23 DEF Next

-----------------------------------------------------------------------------
(* The factory and its pool.                                               *)

(***************************************************************************)
(* No step of the state machine or of a caller touches the pool.           *)
(***************************************************************************)
LEMMA FactoryFrame ==
    ASSUME Next
    PROVE  \/ UNCHANGED poolVars
           \/ HandleRemove \/ RetryFails \/ ExecuteFails \/ Release
           \/ Execute \/ Retry
<1> DEFINE Goal == UNCHANGED poolVars
<1>1. CASE StopAdvancing \/ FillReceiveBuffer \/ DrainSendBuffer
           \/ \E r \in {"AGAIN", "ERROR"} : FillFails(r)
  BY <1>1 DEF StopAdvancing, FillReceiveBuffer, DrainSendBuffer, FillFails
<1>2. ASSUME NEW r, StateBeginTransaction(r) \/ StateFlushRequestBody(r) PROVE Goal
  BY <1>2 DEF StateBeginTransaction, StateFlushRequestBody
<1>3. CASE StateSendRequestHeaders \/ EndBody \/ NoHeaders \/ NeedMoreBody \/ OfferPieceToConsumer
  BY <1>3 DEF StateSendRequestHeaders, EndBody, NoHeaders, NeedMoreBody, OfferPieceToConsumer
<1>4. ASSUME NEW n, FormatChunk(n) \/ SendRequestBody(n) \/ ReadResponseBody(n) PROVE Goal
  BY <1>4 DEF FormatChunk, SendRequestBody, ReadResponseBody
<1>5. ASSUME NEW r, NEW paused, NEW b,
             \/ StateReceiveResponseHeaders(r, paused, b) \/ OfferPieceToHandler(r, b, paused)
             \/ OfferLastChunk(r, paused) \/ NoOffer(r, paused) PROVE Goal
  BY <1>5 DEF StateReceiveResponseHeaders, OfferPieceToHandler, OfferLastChunk, NoOffer
<1>6. CASE Advance
  BY <1>1, <1>2, <1>3, <1>4, <1>5, <1>6 DEF Advance
<1>7. CASE HandleConnect \/ HandleReadable \/ HandleWritable \/ RemoveSocket \/ Abort \/ Shutdown
  BY <1>7 DEF HandleConnect, HandleReadable, HandleWritable, HandleEvent, RemoveSocket, Abort, Shutdown
<1>8. ASSUME NEW f, NEW update, PauseOrResume(f, update) PROVE Goal
  BY <1>8 DEF PauseOrResume
<1>9. CASE Call
  BY <1>4, <1>7, <1>8, <1>9 DEF Call
<1> QED
  BY <1>6, <1>7, <1>9 DEF Next

(***************************************************************************)
(* What a finished connection still has to deliver is at most the end of a *)
(* trailer.                                                                *)
(***************************************************************************)
LEMMA ReusableIsBetween ==
    ASSUME TypeOK, Stream, Reusable
    PROVE  peer \in {"quiet", "trailer"}
<1>1. state = "TRANSACTION_END" /\ recvBuf \in Seq(Tokens) /\ peer \in Peers
  BY DEF Reusable, TypeOK, Peers
<1>2. Position \in {{"trailer"}, {"quiet"}}
  BY <1>1 DEF Position
<1>3. PICK p \in Position : Path(p, recvBuf, peer)
  BY <1>1 DEF Stream
<1>4. Path("trailer", recvBuf, peer) \/ Path("quiet", recvBuf, peer)
  BY <1>2, <1>3
<1> QED
  BY <1>1, <1>4, PathTrailer, PathQuiet

(***************************************************************************)
(* Connections enter the pool only between two messages, and transactions  *)
(* are counted.                                                            *)
(***************************************************************************)
LEMMA PoolStep ==
    ASSUME TypeOK, Stream, Pooled, Next
    PROVE  Pooled' /\ executed' \in 0 .. MaxTransactions
<1> DEFINE Between == {"quiet", "trailer"}
<1>0. /\ pool \in Seq(Between) /\ limbo \in Seq(Between) /\ executed \in 0 .. MaxTransactions
  BY DEF Pooled, TypeOK
<1>1. ASSUME NEW s \in Seq(Between), s # <<>> PROVE Tail(s) \in Seq(Between) /\ Head(s) \in Between
  <2>1. ASSUME NEW S, NEW t \in Seq(S), t # <<>> PROVE Tail(t) \in Seq(S) /\ Head(t) \in S
    BY <2>1
  <2> HIDE DEF Between
  <2> QED
    BY <1>1, <2>1
<1>2. CASE UNCHANGED poolVars
  BY <1>0, <1>2 DEF Pooled, poolVars
<1>3. CASE HandleRemove
  <2>1. /\ limbo' = IF Reusable THEN Append(limbo, peer) ELSE limbo
        /\ UNCHANGED <<pool, executed>>
    BY <1>3 DEF HandleRemove, Inactive
  <2>2. limbo' \in Seq(Between)
    BY <1>0, <2>1, ReusableIsBetween
  <2> QED
    BY <1>0, <2>1, <2>2 DEF Pooled
<1>4. ASSUME pool' \in {pool, IF pool = <<>> THEN pool ELSE Tail(pool)} PROVE pool' \in Seq(Between)
  BY <1>0, <1>1, <1>4
<1>5. CASE RetryFails
  BY <1>0, <1>4, <1>5 DEF RetryFails, Inactive, Pooled
<1>6. executed < MaxTransactions => executed + 1 \in 0 .. MaxTransactions
  BY <1>0, ClientBoundsAssumption
<1>7. CASE ExecuteFails
  BY <1>0, <1>4, <1>6, <1>7 DEF ExecuteFails, Pooled
<1>8. CASE Release
  <2>1. pool' = <<Head(limbo)>> \o pool /\ limbo' = Tail(limbo) /\ limbo # <<>> /\ UNCHANGED executed
    BY <1>8 DEF Release
  <2>2. Head(limbo) \in Between /\ Tail(limbo) \in Seq(Between)
    BY <1>0, <1>1, <2>1
  <2>3. <<Head(limbo)>> \o pool \in Seq(Between)
    BY <1>0, <2>2
  <2> QED
    BY <1>0, <2>1, <2>2, <2>3 DEF Pooled
<1>9. ASSUME NEW before, NewSocket(before) PROVE pool' \in Seq(Between)
  BY <1>0, <1>1, <1>9 DEF NewSocket
<1>10. ASSUME Execute PROVE Pooled' /\ executed' \in 0 .. MaxTransactions
  BY <1>0, <1>6, <1>9, <1>10 DEF Execute, Pooled
<1>11. ASSUME Retry PROVE Pooled' /\ executed' \in 0 .. MaxTransactions
  BY <1>0, <1>9, <1>11 DEF Retry, Pooled
<1> QED
  BY <1>2, <1>3, <1>5, <1>7, <1>8, <1>10, <1>11, FactoryFrame

(***************************************************************************)
(* The flag of the multiplexer stays Boolean.                              *)
(***************************************************************************)
LEMMA BooleanStep ==
    ASSUME TypeOK, Next
    PROVE  shutdown' \in BOOLEAN
<1> DEFINE Goal == shutdown' \in BOOLEAN
<1> USE DEF sockVars, envVars
<1>0. shutdown \in BOOLEAN
  BY DEF TypeOK
<1>1. ASSUME UNCHANGED shutdown PROVE Goal
  BY <1>0, <1>1
<1>2. CASE StopAdvancing \/ FillReceiveBuffer \/ DrainSendBuffer
           \/ \E r \in {"AGAIN", "ERROR"} : FillFails(r)
  BY <1>1, <1>2 DEF StopAdvancing, FillReceiveBuffer, DrainSendBuffer, FillFails
<1>3. ASSUME NEW r, StateBeginTransaction(r) PROVE Goal
  BY <1>1, <1>3 DEF StateBeginTransaction
<1>4. ASSUME NEW r, StateFlushRequestBody(r) PROVE Goal
  BY <1>1, <1>4 DEF StateFlushRequestBody
<1>5. CASE StateSendRequestHeaders \/ EndBody \/ NoHeaders \/ NeedMoreBody \/ OfferPieceToConsumer
  BY <1>1, <1>5 DEF StateSendRequestHeaders, EndBody, NoHeaders, NeedMoreBody, OfferPieceToConsumer
<1>6. ASSUME NEW n, FormatChunk(n) \/ SendRequestBody(n) \/ ReadResponseBody(n) PROVE Goal
  BY <1>1, <1>6 DEF FormatChunk, SendRequestBody, ReadResponseBody
<1>7. ASSUME NEW r, NEW paused, NEW b,
             \/ StateReceiveResponseHeaders(r, paused, b) \/ OfferPieceToHandler(r, b, paused)
             \/ OfferLastChunk(r, paused) \/ NoOffer(r, paused) PROVE Goal
  BY <1>1, <1>7 DEF StateReceiveResponseHeaders, OfferPieceToHandler, OfferLastChunk, NoOffer
<1>8. CASE Advance
  BY <1>2, <1>3, <1>4, <1>5, <1>6, <1>7, <1>8 DEF Advance
<1>9. CASE HandleConnect \/ HandleReadable \/ HandleWritable \/ RemoveSocket \/ Abort
  BY <1>1, <1>9 DEF HandleConnect, HandleReadable, HandleWritable, HandleEvent, RemoveSocket, Abort
<1>10. CASE HandleRemove \/ RetryFails \/ ExecuteFails \/ Release
  BY <1>1, <1>10 DEF HandleRemove, RetryFails, Inactive, ExecuteFails, Release
<1>12. ASSUME Execute \/ Retry PROVE Goal
  BY <1>1, <1>12 DEF Execute, Retry
<1>13. ASSUME NEW f, NEW update, PauseOrResume(f, update) PROVE Goal
  BY <1>1, <1>13 DEF PauseOrResume
<1>14. CASE Call
  BY <1>6, <1>9, <1>13, <1>14 DEF Call
<1>15. CASE Shutdown
  BY <1>0, <1>15 DEF Shutdown
<1> QED
  BY <1>8, <1>9, <1>10, <1>12, <1>14, <1>15 DEF Next

(***************************************************************************)
(* Every step keeps the state and what the handler was told together, and  *)
(* is a step that the contract allows or one the handler does not notice.  *)
(***************************************************************************)
LEMMA TellStep ==
    ASSUME TypeOK, FrameAgrees, Flagged, Told, Next
    PROVE  /\ told' \in Callbacks /\ Told'
           /\ Contract!Next \/ UNCHANGED <<told, outcome>>
<1> DEFINE Kept == told' \in Callbacks /\ Told'
           Goal == Kept /\ (Contract!Next \/ UNCHANGED <<told, outcome>>)
<1> USE DEF sockVars, dataVars
<1>0. /\ SendStates = {"FORMATTING_HEADERS", "FORMATTING_BODY", "FLUSHING_BODY"}
      /\ States = {"PARSING_HEADERS", "PARSING_BODY", "FORMATTING_HEADERS", "FORMATTING_BODY",
                   "FLUSHING_BODY", "CONNECTING", "TRANSACTION_BEGIN", "TRANSACTION_END", "INACTIVE"}
      /\ Callbacks = {"none", "begun", "sent", "headers", "last", "read", "over"}
      /\ told \in Callbacks /\ state \in States
  BY DEF SendStates, States, RecvStates, Callbacks, TypeOK
<1>1. ASSUME UNCHANGED <<state, told, outcome>> PROVE Goal
  BY <1>0, <1>1 DEF Told
<1>2. ASSUME UNCHANGED <<told, outcome>>, state \in {"CONNECTING", "TRANSACTION_BEGIN"} \cup SendStates,
             \/ state \in SendStates /\ state' \in SendStates
             \/ state' \in {"CONNECTING", "TRANSACTION_BEGIN"}
      PROVE  Goal
  BY <1>0, <1>2 DEF Told
<1>3. CASE StopAdvancing \/ FillReceiveBuffer \/ DrainSendBuffer
           \/ \E r \in {"AGAIN", "ERROR"} : FillFails(r)
  BY <1>1, <1>3 DEF StopAdvancing, FillReceiveBuffer, DrainSendBuffer, FillFails
<1>4. ASSUME NEW r, StateBeginTransaction(r) PROVE Goal
  <2>1. /\ state = "TRANSACTION_BEGIN" /\ state' \in {"FORMATTING_HEADERS", "TRANSACTION_BEGIN"}
        /\ told' = "begun" /\ UNCHANGED outcome
    BY <1>4 DEF StateBeginTransaction, Step
  <2>2. Kept
    BY <1>0, <2>1 DEF Told
  <2>3. Contract!BeginTransaction
    BY <2>1 DEF Told, Contract!BeginTransaction
  <2> QED
    BY <2>2, <2>3 DEF Contract!Next
<1>5. ASSUME NEW r, StateFlushRequestBody(r) PROVE Goal
  <2>1. /\ state = "FLUSHING_BODY" /\ UNCHANGED outcome
        /\ \/ state' = state /\ told' = told
           \/ state' = "PARSING_HEADERS" /\ told' = "sent"
    BY <1>5 DEF StateFlushRequestBody, Step
  <2>2. CASE state' = "PARSING_HEADERS" /\ told' = "sent"
    <3>1. Kept
      BY <1>0, <2>1, <2>2 DEF Told
    <3>2. Contract!EndRequest
      BY <1>0, <2>1, <2>2 DEF Told, Contract!EndRequest
    <3> QED
      BY <3>1, <3>2 DEF Contract!Next
  <2> QED
    BY <1>1, <2>1, <2>2
<1>6. CASE StateSendRequestHeaders \/ EndBody
  BY <1>0, <1>2, <1>6 DEF StateSendRequestHeaders, EndBody, Step
<1>7. CASE NoHeaders \/ NeedMoreBody \/ OfferPieceToConsumer
  BY <1>1, <1>7 DEF NoHeaders, NeedMoreBody, OfferPieceToConsumer
<1>8. ASSUME NEW n, FormatChunk(n) \/ SendRequestBody(n) \/ ReadResponseBody(n) PROVE Goal
  BY <1>1, <1>8 DEF FormatChunk, SendRequestBody, ReadResponseBody
<1>9. ASSUME NEW r, NEW paused, NEW b, NoOffer(r, paused) \/ OfferPieceToHandler(r, b, paused) PROVE Goal
  BY <1>1, <1>9 DEF NoOffer, OfferPieceToHandler
<1>10. ASSUME NEW r, NEW paused, NEW close, StateReceiveResponseHeaders(r, paused, close) PROVE Goal
  <2>1. /\ state = "PARSING_HEADERS" /\ state' = "PARSING_BODY" /\ told' = "headers"
        /\ UNCHANGED outcome
    BY <1>10 DEF StateReceiveResponseHeaders, Step
  <2>2. Kept
    BY <1>0, <2>1 DEF Told
  <2>3. Contract!ReceiveResponseHeaders
    BY <2>1 DEF Told, Contract!ReceiveResponseHeaders
  <2> QED
    BY <2>2, <2>3 DEF Contract!Next
<1>11. ASSUME NEW r, NEW paused, OfferLastChunk(r, paused) PROVE Goal
  <2>1. /\ state = "PARSING_BODY" /\ state' = "TRANSACTION_END" /\ told' \in {"last", "read"}
        /\ UNCHANGED outcome
    BY <1>11 DEF OfferLastChunk, Step
  <2>2. Kept
    BY <1>0, <2>1 DEF Told
  <2>3. Contract!LastChunk
    BY <2>1 DEF Told, Contract!LastChunk
  <2> QED
    BY <2>2, <2>3 DEF Contract!Next
<1>12. CASE Advance
  BY <1>3, <1>4, <1>5, <1>6, <1>7, <1>8, <1>9, <1>10, <1>11, <1>12 DEF Advance
<1>13. CASE HandleConnect
  BY <1>2, <1>13 DEF HandleConnect
<1>14. CASE HandleReadable \/ HandleWritable \/ RemoveSocket \/ Abort \/ Release \/ Shutdown
  BY <1>1, <1>14 DEF HandleReadable, HandleWritable, HandleEvent, RemoveSocket, Abort, Release, Shutdown
<1>15. ASSUME frame.by = "remove" PROVE outcome = "running"
  BY <1>15 DEF FrameAgrees, Told
<1>16. CASE HandleRemove
  <2>1. /\ state' = "INACTIVE" /\ told' = "over" /\ frame.by = "remove"
        /\ outcome' = IF state = "TRANSACTION_END" THEN "END" ELSE "FAILED"
    BY <1>16 DEF HandleRemove, Inactive, EndState
  <2>2. state # "INACTIVE"
    BY <2>1 DEF FrameAgrees
  <2>3. state = "TRANSACTION_END" <=> told \in {"last", "read"}
    BY <1>0, <2>2 DEF Told
  <2>4. Kept
    BY <1>0, <2>1 DEF Told
  <2>5. Contract!EndTransaction
    BY <1>15, <2>1, <2>3 DEF Contract!EndTransaction
  <2> QED
    BY <2>4, <2>5 DEF Contract!Next
<1>17. ASSUME frame.by = "remove", Retries
       PROVE  state \in {"TRANSACTION_BEGIN"} \cup SendStates /\ told \in {"none", "begun"}
  BY <1>17 DEF Retries, FrameAgrees, Flagged, Told
<1>18. CASE RetryFails
  <2>1. /\ state' = "INACTIVE" /\ told' = "over" /\ outcome' = "FAILED" /\ frame.by = "remove" /\ Retries
    BY <1>18 DEF RetryFails, Inactive
  <2>2. Kept
    BY <1>0, <2>1 DEF Told
  <2>3. Contract!EndTransaction
    BY <1>15, <1>17, <2>1 DEF Contract!EndTransaction
  <2> QED
    BY <2>2, <2>3 DEF Contract!Next
<1>19. CASE ExecuteFails
  <2>1. state = "INACTIVE" /\ state' = "INACTIVE" /\ outcome' = "REFUSED" /\ told' \in {"none", "begun"}
    BY <1>19 DEF ExecuteFails
  <2>2. Kept
    BY <1>0, <2>1 DEF Told
  <2>3. Contract!Refuse
    BY <2>1 DEF Told, Contract!Refuse
  <2> QED
    BY <2>2, <2>3 DEF Contract!Next
<1>20. ASSUME NEW before \in {"none", "begun"}, NewSocket(before)
       PROVE  /\ state' \in {"TRANSACTION_BEGIN", "CONNECTING"}
              /\ told' \in {before, "begun"}
  BY <1>20 DEF NewSocket
<1>21. CASE Execute
  <2>1. state = "INACTIVE" /\ NewSocket("none") /\ outcome' = "running"
    BY <1>21 DEF Execute
  <2>2. state' \in {"TRANSACTION_BEGIN", "CONNECTING"} /\ told' \in {"none", "begun"}
    BY <1>20, <2>1
  <2>3. Kept
    BY <1>0, <2>1, <2>2 DEF Told
  <2>4. Contract!Execute
    BY <2>1, <2>2 DEF Told, Contract!Execute
  <2> QED
    BY <2>3, <2>4 DEF Contract!Next
<1>22. CASE Retry
  <2>1. NewSocket(told) /\ UNCHANGED outcome /\ told \in {"none", "begun"} /\ outcome = "running"
    BY <1>15, <1>17, <1>22 DEF Retry
  <2>2. state' \in {"TRANSACTION_BEGIN", "CONNECTING"} /\ told' \in {told, "begun"}
    BY <1>20, <2>1
  <2>3. Kept
    BY <1>0, <2>1, <2>2 DEF Told
  <2>4. Contract!BeginTransaction \/ told' = told
    BY <2>1, <2>2 DEF Contract!BeginTransaction
  <2> QED
    BY <2>1, <2>3, <2>4 DEF Contract!Next
<1>23. ASSUME NEW f, NEW update, PauseOrResume(f, update) PROVE Goal
  BY <1>1, <1>23 DEF PauseOrResume
<1>24. CASE Call
  BY <1>8, <1>14, <1>23, <1>24 DEF Call
<1> QED
  BY <1>12, <1>13, <1>14, <1>16, <1>18, <1>19, <1>21, <1>22, <1>24 DEF Next

-----------------------------------------------------------------------------
(***************************************************************************)
(* A factory that has executed nothing satisfies the invariant.            *)
(***************************************************************************)
LEMMA InitInv == Init => IInv
<1> SUFFICES ASSUME Init PROVE IInv
  OBVIOUS
<1>1. TypeOK
  <2>1. state \in States /\ flags \subseteq Flags /\ attempt \in Nat /\ sentOn \subseteq 1 .. attempt
    BY DEF Init, States
  <2>2. recvBuf \in Seq(Tokens) /\ Len(recvBuf) <= RecvSize
    BY ClientBoundsAssumption DEF Init
  <2>3. /\ sendBuf \in 0 .. SendSize /\ avail \in 0 .. 1 /\ received \in 0 .. MaxInput
        /\ executed \in 0 .. MaxTransactions
    BY ClientBoundsAssumption DEF Init
  <2>4. request \in Requests
    BY ClientBoundsAssumption DEF Init, NoRequest, Requests
  <2>5. response \in Responses
    BY DEF Init, NoResponse, Responses
  <2>6. frame \in Frames /\ interest \subseteq {"IN", "OUT"}
    BY RestFrames DEF Init
  <2>7. shutdown \in BOOLEAN
    BY DEF Init
  <2>8. told \in Callbacks
    BY DEF Init, Callbacks
  <2>9. peer \in {"due", "late", "quiet", "len", "chunked", "trailer", "done"}
    BY DEF Init
  <2> QED
    BY <2>1, <2>2, <2>3, <2>4, <2>5, <2>6, <2>7, <2>8, <2>9 DEF TypeOK
<1>2. Stream /\ Attempted /\ Flagged /\ Told
  BY DEF Init, Stream, Attempted, Flagged, Told, SendStates
<1>3. FrameAgrees
  <2>1. frame.by = "none" /\ frame.handler = "handler"
    BY RestFrames DEF Init
  <2> QED
    BY <2>1 DEF FrameAgrees
<1>4. Pooled
  <2>1. PICK n \in 0 .. MaxPooled : pool = [i \in 1..n |-> "quiet"]
    BY DEF Init
  <2>2. n \in Nat
    BY <2>1, ClientBoundsAssumption
  <2>3. [i \in 1..n |-> "quiet"] \in Seq({"quiet", "trailer"})
    BY <2>2
  <2>4. limbo = <<>> /\ <<>> \in Seq({"quiet", "trailer"})
    BY DEF Init
  <2> QED
    BY <2>1, <2>3, <2>4 DEF Pooled
<1> QED
  BY <1>1, <1>2, <1>3, <1>4 DEF IInv

(***************************************************************************)
(* The inductive invariant of a client connection and its factory.         *)
(***************************************************************************)
THEOREM Invariance == Spec => []IInv
<1>1. IInv /\ UNCHANGED vars => IInv'
  BY DEF vars, sockVars, dataVars, poolVars, envVars, IInv, TypeOK, Stream, Position, Attempted,
         Flagged, Told, FrameAgrees, Pooled
<1>2. ASSUME IInv, Next PROVE IInv'
  <2>1. TypeOK'
    BY <1>2, ControlStep, SendStep, RecvStep, PoolStep, BooleanStep, TellStep DEF IInv, TypeOK, Peers, Framed
  <2>2. FrameAgrees'
    BY <1>2, AliveStep, SendStep DEF IInv, FrameAgrees
  <2>3. Stream' /\ Attempted' /\ Flagged' /\ Told' /\ Pooled'
    BY <1>2, StreamStep, ControlStep, TellStep, PoolStep DEF IInv
  <2> QED
    BY <2>1, <2>2, <2>3 DEF IInv
<1> QED
  BY <1>1, <1>2, InitInv, PTL DEF Spec

(***************************************************************************)
(* However many pooled connections turn out to be stale, the bytes of a    *)
(* request leave on one connection only: the retry of handleRemove never   *)
(* repeats a request (FIRST_USE_AFTER_REUSE, flushSendBuffer).             *)
(***************************************************************************)
THEOREM RequestsAreNotRepeated == Spec => []SentAtMostOnce
<1>1. IInv => SentAtMostOnce
  BY DEF IInv, Attempted, SentAtMostOnce
<1> QED
  BY <1>1, Invariance, PTL

(***************************************************************************)
(* The connection's books agree for all sizes of buffers and bodies:       *)
(* _bytesAvailable never promises more than is buffered, no buffer is      *)
(* filled beyond its size, and only a connection between two messages goes *)
(* back to the pool (stateReceiveResponseBody, handleRemove, release).     *)
(***************************************************************************)
THEOREM BooksAlwaysAgree == Spec => []BooksAgree
<1>1. IInv => AvailableIsBuffered
  BY DEF IInv, Stream, AvailableIsBuffered
<1>2. IInv => PooledBetweenMessages
  <2>1. ASSUME NEW s \in Seq({"quiet", "trailer"}), NEW i \in DOMAIN s PROVE s[i] \in {"quiet", "trailer"}
    OBVIOUS
  <2> QED
    BY <2>1 DEF IInv, Pooled, PooledBetweenMessages
<1>3. IInv => BooksAgree
  BY <1>1, <1>2 DEF IInv, BooksAgree
<1> QED
  BY <1>3, Invariance, PTL

-----------------------------------------------------------------------------
(***************************************************************************)
(* The connection implements the contract of HttpClientHandler: the        *)
(* callbacks it makes come in the promised order and as often as promised  *)
(* over every number of retries, and endTransaction reports success        *)
(* exactly after the end of the response (beginTransaction to              *)
(* endTransaction in ESHttpClientSocket.cpp and in the factory).           *)
(***************************************************************************)
THEOREM ImplementsContract == Spec => KeepsContract
<1>1. Init => Contract!Init
  BY DEF Init, Contract!Init
<1>2. IInv /\ [Next]_vars => [Contract!Next]_(Contract!contractVars)
  <2>1. ASSUME IInv, Next PROVE Contract!Next \/ UNCHANGED <<told, outcome>>
    BY <2>1, TellStep DEF IInv
  <2>2. ASSUME UNCHANGED vars PROVE UNCHANGED <<told, outcome>>
    BY <2>2 DEF vars, sockVars
  <2> QED
    BY <2>1, <2>2 DEF Contract!contractVars
<1> QED
  BY <1>1, <1>2, Invariance, PTL DEF Spec, KeepsContract, Contract!Spec
=============================================================================

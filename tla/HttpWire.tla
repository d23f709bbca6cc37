------------------------------ MODULE HttpWire ------------------------------
(***************************************************************************)
(* One end of a connection formats messages, the other parses them: the    *)
(* formatters and the parsers of http1/ joined by the send and receive     *)
(* buffers of the sockets, which move any number of octets at a time.      *)
(*                                                                         *)
(* Requests are pipelined.  A response is only sent once the one before it *)
(* has been read, and the client releases its receive buffer in between.   *)
(* The receiver starts when everything has been sent: octets arrive in the *)
(* order they are sent, so it does the same with what is sent so far, or   *)
(* with all there is when the sender stops short.                          *)
(***************************************************************************)
EXTENDS HttpMessageParser, HttpMessageFormatter

CONSTANTS Streams,     \* the sequences of [msg, body] that are sent
          RecvSize     \* octets the receive buffer holds

VARIABLES
    stream,      \* what is sent on this connection
    i,           \* the message that is being formatted
    f,           \* its formatter and the send buffer
    offered,     \* octets of its body that are formatted
    s,           \* the sender: format, drain, flush, sent, jammed
    short,       \* the socket once took less than the send buffer held
    net,         \* octets on their way
    r,           \* the parser and the receive buffer
    stage,       \* the receiver: headers, body, trailer, failed
    got,         \* octets of the body it has consumed
    received     \* the messages it has completed

sender   == <<i, f, offered, s, short>>
receiver == <<r, stage, got, received>>
wireVars     == <<stream, net, sender, receiver>>

Kind == stream[1].msg.kind

\* the handler of a proxy sends a copy of what it has received
Message(n) ==
    LET headers == stream[n].msg.headers
    IN  Copy(stream[n].msg, [h \in {headers[k] : k \in DOMAIN headers} |-> "COPY"])

WireInit ==
    /\ stream \in Streams
    /\ i = 1 /\ f = FormatterInit(Message(1), <<>>, 0) /\ offered = 0 /\ s = "format" /\ short = FALSE
    /\ net = <<>>
    /\ r = ParserInit(Kind, <<>>) /\ stage = "headers" /\ got = <<>> /\ received = <<>>

----------------------------------------------------------------------------
Formatting == s = "format" /\ f.phase \notin {"chunked", "unencoded", "complete"}

\* stateSendRequestHeaders, stateSendResponseHeaders
SendHeaders ==
    /\ Formatting
    /\ f' = formatHeaders(f)
    /\ s' = CASE f'.rc \in {"go", "SUCCESS"} -> "format"
              [] f'.rc = "AGAIN"              -> "drain"
              [] OTHER                        -> "jammed"
    /\ UNCHANGED <<stream, i, offered, short, net, receiver>>

\* the handler offers n octets and produces as many as there is room for
SendBody(n) ==
    LET body == stream[i].body
        size == beginBlock(f, n)
    IN  /\ s = "format" /\ f.phase \in {"chunked", "unencoded"}
        /\ n \in 1 .. Len(body) - offered
        /\ IF size = 0 THEN s' = "drain" /\ UNCHANGED <<f, offered>>
           ELSE /\ f' = Block(f, SubSeq(body, offered + 1, offered + size))
                /\ offered' = offered + size
                /\ s' = s
        /\ UNCHANGED <<stream, i, short, net, receiver>>

SendEndBody ==
    /\ s = "format" /\ f.phase \in {"chunked", "unencoded"}
    /\ offered = Len(stream[i].body)
    /\ f' = endBody(f)
    /\ s' = IF f'.rc = "AGAIN" THEN "drain" ELSE "flush"
    /\ UNCHANGED <<stream, i, offered, short, net, receiver>>

(***************************************************************************)
(* flushSendBuffer.  The socket takes n octets and the buffer is compacted,*)
(* which sets the write mark to 0.  Less than everything is a success too: *)
(* the transaction ends, or formatting goes on, with octets in the buffer. *)
(***************************************************************************)
flushSendBuffer(n) ==
    /\ s \in {"drain", "flush"} /\ n \in 1 .. Len(f.out)
    /\ net' = net \o SubSeq(f.out, 1, n)
    /\ short' = (short \/ n < Len(f.out))
    /\ IF s = "drain" THEN f' = [f EXCEPT !.out = Drop(@, n), !.mark = 0] /\ s' = "format" /\ UNCHANGED <<i, offered>>
       ELSE IF Kind = "request" /\ i < Len(stream)
       THEN i' = i + 1 /\ f' = FormatterInit(Message(i + 1), Drop(f.out, n), 0) /\ offered' = 0 /\ s' = "format"
       ELSE f' = [f EXCEPT !.out = Drop(@, n), !.mark = 0] /\ s' = "sent" /\ UNCHANGED <<i, offered>>
    /\ UNCHANGED <<stream, receiver>>

\* nothing to flush, and still no room: ESB_OVERFLOW, the connection is removed
Jam ==
    /\ s \in {"drain", "flush"} /\ f.out = <<>>
    /\ s' = "jammed"
    /\ UNCHANGED <<stream, i, f, offered, short, net, receiver>>

----------------------------------------------------------------------------
Receiving == s = "sent" /\ f.out = <<>>

\* fillReceiveBuffer, when the parser has asked for more
fillReceiveBuffer(n) ==
    /\ Receiving /\ stage # "failed" /\ r.rc = "AGAIN"
    /\ n \in 1 .. Len(net) /\ n <= RecvSize - Len(r.in)
    /\ r' = [r EXCEPT !.in = @ \o SubSeq(net, 1, n), !.rc = "go"]
    /\ net' = Drop(net, n)
    /\ UNCHANGED <<stream, sender, stage, got, received>>

\* the end of a message; the next response is sent
EndMessage(p) ==
    LET more == Kind = "response" /\ s = "sent" /\ i < Len(stream)
    IN  /\ received' = Append(received, [msg |-> p.msg, body |-> got])
        /\ got' = <<>> /\ stage' = "headers"
        /\ r' = ParserInit(Kind, IF Kind = "response" THEN <<>> ELSE p.in)
        /\ IF more
           THEN i' = i + 1 /\ f' = FormatterInit(Message(i + 1), f.out, f.mark) /\ offered' = 0 /\ s' = "format"
           ELSE UNCHANGED <<i, f, offered, s>>
        /\ UNCHANGED short

\* the parser's result p; the connection is dropped after an error, and when a
\* parser that asks for more leaves the receive buffer full (ESB_OVERFLOW)
Moves(p, next) ==
    /\ r' = p
    /\ stage' = IF p.rc \in {"SUCCESS", "go"} \/ (p.rc = "AGAIN" /\ Len(p.in) < RecvSize) THEN next ELSE "failed"
    /\ UNCHANGED <<sender, got, received>>

\* stateReceiveRequestHeaders, stateReceiveResponseHeaders
ReceiveHeaders ==
    /\ Receiving /\ stage = "headers" /\ r.rc = "go"
    /\ UNCHANGED <<stream, net>>
    /\ \E p \in {parseHeaders(r)} :
        IF p.rc # "SUCCESS" THEN Moves(p, "headers")
        ELSE IF p.msg.hasBody THEN Moves([p EXCEPT !.rc = "go"], "body")
        ELSE EndMessage(p)

\* the last chunk ends a response: its trailer is not skipped
ReceiveBody ==
    /\ Receiving /\ stage = "body" /\ r.rc = "go"
    /\ UNCHANGED <<stream, net>>
    /\ \E p \in {parseBody(r)} :
        IF p.rc # "SUCCESS" \/ p.avail > 0 THEN Moves(p, "body")
        ELSE IF Kind = "request" THEN Moves([p EXCEPT !.rc = "go"], "trailer")
        ELSE EndMessage(p)

\* the handler takes n of the octets that are available
ConsumeBody(n) ==
    LET p == consumeBody(r, n)
    IN  /\ Receiving /\ stage = "body" /\ r.rc = "SUCCESS" /\ n \in 1 .. r.avail
        /\ got' = got \o SubSeq(r.in, 1, n)
        /\ r' = [p EXCEPT !.avail = @ - n, !.rc = IF n = r.avail THEN "go" ELSE "SUCCESS"]
        /\ UNCHANGED <<stream, net, sender, stage, received>>

SkipTrailer ==
    /\ Receiving /\ stage = "trailer" /\ r.rc = "go"
    /\ UNCHANGED <<stream, net>>
    /\ \E p \in {skipTrailer(r)} :
        IF p.rc = "SUCCESS" THEN EndMessage(p) ELSE Moves(p, "trailer")

WireNext ==
    \/ SendHeaders \/ SendEndBody \/ Jam
    \/ \E n \in 1 .. SendSize : SendBody(n) \/ flushSendBuffer(n)
    \/ \E n \in 1 .. RecvSize : fillReceiveBuffer(n) \/ ConsumeBody(n)
    \/ ReceiveHeaders \/ ReceiveBody \/ SkipTrailer

WireSpec == WireInit /\ [][WireNext]_wireVars

----------------------------------------------------------------------------
WireTypeOK ==
    /\ stream \in Streams /\ i \in DOMAIN stream
    /\ s \in {"format", "drain", "flush", "sent", "jammed"} /\ short \in BOOLEAN
    /\ stage \in {"headers", "body", "trailer", "failed"}
    /\ offered \in 0 .. Len(stream[i].body)
    /\ \A n \in DOMAIN net : net[n] \in Octets
    /\ Len(f.out) <= SendSize /\ f.mark \in 0 .. Len(f.out)
    /\ Len(r.in) <= RecvSize /\ Len(r.work) <= WorkSize /\ r.avail <= Len(r.in)
    /\ Len(received) <= Len(stream)

\* a URI without its escapes
Decoded(u) ==
    LET from[n \in 1 .. Len(u) + 1] ==
            IF n > Len(u) THEN <<>>
            ELSE IF u[n] = "%" THEN DecodeEscape(SubSeq(u, n, n + 2)) \o from[n + 3]
            ELSE <<u[n]>> \o from[n + 1]
    IN  from[1]

(***************************************************************************)
(* A request that has been formatted, cut into any pieces and parsed goes  *)
(* where the original would have gone: the same host, port and security,   *)
(* and a URI that HttpRequestUri::Compare takes for the same (default port *)
(* left out by formatPort, "/" put in by the parser).                      *)
(***************************************************************************)
SameDestination ==
    Kind = "request" => \A n \in DOMAIN received :
        LET m == received[n].msg IN
        /\ parsePeerAddress(m) = parsePeerAddress(stream[n].msg)
        /\ SameUri([m.uri EXCEPT !.absPath = IF @ = Nothing THEN @ ELSE Decoded(@)], stream[n].msg.uri)

\* a value as it is meant: no white space around it, one space for white space inside
Meaning(value) ==
    LET squeezed == {n \in DOMAIN value : value[n] \notin LWS \/ (n > 1 /\ value[n - 1] \notin LWS)}
    IN  {<<Cardinality({k \in squeezed : k <= n}), IF value[n] \in LWS THEN "SP" ELSE value[n]>> :
            n \in {k \in squeezed : \E l \in DOMAIN value : l >= k /\ value[l] \notin LWS}}

(***************************************************************************)
(* What the receiver completes is what was sent, message by message:       *)
(* method, version, status, reason, headers in their order with values     *)
(* that mean the same, and the octets of the body, wherever the sockets    *)
(* cut the octets and however they are framed (Content-Length or chunks).  *)
(***************************************************************************)
RoundTrip ==
    \A n \in DOMAIN received :
        LET m == received[n].msg
            o == stream[n].msg
        IN  /\ m.method = o.method /\ m.version = o.version /\ m.status = o.status /\ m.reason = o.reason
            /\ m.uri.query = o.uri.query /\ m.uri.fragment = o.uri.fragment
            /\ Len(m.headers) = Len(o.headers)
            /\ \A k \in DOMAIN m.headers :
                   /\ m.headers[k].name = o.headers[k].name
                   /\ Meaning(m.headers[k].value) = Meaning(o.headers[k].value)
            /\ received[n].body = stream[n].body

\* The handler is never given an octet that is not the next one of the body
BodyInOrder ==
    stage \in {"body", "trailer"} =>
        LET body == stream[Len(received) + 1].body
        IN  Len(got) <= Len(body) /\ got = SubSeq(body, 1, Len(got))

(***************************************************************************)
(* When every octet has been sent and read and the parser asks for more,   *)
(* every message has been completed: no parser waits for octets that the   *)
(* formatter does not send, so that the peers wait for each other.         *)
(***************************************************************************)
NobodyWaitsForMore ==
    Receiving /\ net = <<>> /\ r.rc = "AGAIN" => Len(received) = i

\* No cut of the octets makes a parser reject or overflow on what the formatter wrote
NoFalseAlarm == stage # "failed"

(***************************************************************************)
(* Each piece fits in the send buffer, so the formatter only jams, and the *)
(* connection is only dropped, after the socket took part of the buffer:   *)
(* the write mark is 0 then and a roll back drops octets not yet sent.     *)
(***************************************************************************)
JamsOnlyAfterShortSend == s = "jammed" => short

\* What the handler of one side is given is what the handler of the other side
\* sent, wherever the sockets cut it.  (HttpMessageFormatter::formatStartLine,
\* formatHeaders and endBlock against HttpMessageParser::parse..., both with
\* the URI's formatter and parser)
ReceivedAsSent == RoundTrip /\ BodyInOrder /\ SameDestination

\* Every message gets through: neither side rejects the other, waits for octets
\* that are never sent, writes past a buffer, or gives up before the socket has
\* taken a part of the buffer.  (HttpMessageParser::parseHeaders and parseBody,
\* HttpMessageFormatter::format..., the flushes of the two sockets)
NobodyGivesUp == WireTypeOK /\ NoFalseAlarm /\ NobodyWaitsForMore /\ JamsOnlyAfterShortSend
=============================================================================

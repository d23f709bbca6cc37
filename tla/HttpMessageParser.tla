------------------------- MODULE HttpMessageParser -------------------------
(***************************************************************************)
(* http1/source/ESHttpMessageParser.cpp with the start lines of            *)
(* ESHttpRequestParser.cpp and ESHttpResponseParser.cpp.                   *)
(*                                                                         *)
(* To the fields of a URI parser, a message parser adds: phase, the start  *)
(* line's or the header's state; body, the state of the body; left,        *)
(* _bodyBytesRemaining; avail, the chunkSize that parseBody returns.       *)
(***************************************************************************)
EXTENDS HttpRequestUriParser

UntilClose == 2^20    \* stands for ESB_UINT64_MAX, more than any body

\* reset() of the parser and of the message
ParserInit(kind, in) ==
    [in |-> in, work |-> <<>>, uri |-> "start", phase |-> "start", body |-> "none", left |-> 0,
     avail |-> 0, rc |-> "go", msg |-> MessageInit(kind)]

\* the parser moves to another phase: the input is marked, the working buffer cleared
NextPhase(p, n, phase) ==
    [p EXCEPT !.in = Drop(@, n), !.work = <<>>, !.phase = phase, !.rc = "go"]

----------------------------------------------------------------------------
\* empty lines and spaces before the start line are ignored
SkipLeading(p) ==
    LET n == Leading(p.in, LWS)
    IN  IF n = Len(p.in) THEN [p EXCEPT !.in = <<>>, !.rc = "AGAIN"]
        ELSE NextPhase(p, n, IF p.msg.kind = "request" THEN "method" ELSE "version")

parseMethod(p) ==
    LET q == Collect(p, Token)
    IN  IF q.rc # "go" THEN q
        ELSE IF Head(q.in) \notin Spaces THEN Bad(q)
        ELSE NextPhase([q EXCEPT !.msg.method = q.work], 1, "requestUri")

parseRequestUri(p) ==
    LET q == ParseUri(p)
    IN  IF q.rc = "SUCCESS" THEN NextPhase(q, 0, "version") ELSE q

(***************************************************************************)
(* A version is looked at when the octets after it are there too: a space  *)
(* after the version of a response, CR LF after that of a request.         *)
(***************************************************************************)
parseVersion(p) ==
    LET client == p.msg.kind = "response"
        in     == SkipSpaces(p.in)
        q      == [p EXCEPT !.in = in,
                            !.msg.version = IF in # <<>> /\ in[1] = "HTTP/1.1" THEN 110 ELSE 100]
    IN  CASE Len(in) < (IF client THEN 2 ELSE 3) -> [p EXCEPT !.in = in, !.rc = "AGAIN"]
          [] in[1] \notin Versions               -> Bad(q)
          [] client /\ in[2] \in Spaces          -> NextPhase(q, 2, "status")
          [] ~client /\ in[2] = "LF"             -> NextPhase(q, 2, "fieldName")
          [] ~client /\ in[2] = "CR" /\ in[3] = "LF" -> NextPhase(q, 3, "fieldName")
          [] OTHER                               -> Bad(q)

parseStatusCode(p) ==
    LET in == SkipSpaces(p.in)
        q  == [p EXCEPT !.in = in]
    IN  IF Len(in) < 4 THEN Result(q, "AGAIN")
        ELSE IF (\E i \in 1 .. 3 : in[i] \notin Digit) \/ in[4] \notin Spaces THEN Bad(q)
        ELSE NextPhase([q EXCEPT !.msg.status = ParseInteger(SubSeq(in, 1, 3))], 4, "reason")

(***************************************************************************)
(* Text up to the end of a line that is not continued on the next; white   *)
(* space in it becomes one space, white space at its ends goes.            *)
(***************************************************************************)
CollectText(p) ==
    LET q   == Collect(p, Text \ Spaces)
        lws == SkipLWS(q.in)
    IN  IF q.rc # "go" THEN q
        ELSE IF Head(q.in) \notin LWS THEN Bad(q)
        ELSE CASE lws.rc = "SUCCESS"    -> [q EXCEPT !.in = lws.rest, !.rc = "SUCCESS"]
               [] lws.rc = "INPROGRESS" -> [q EXCEPT !.in = lws.rest,
                                              !.work = IF @ = <<>> THEN @ ELSE Append(@, "SP")]
               [] OTHER                 -> Result(q, "AGAIN")

parseReasonPhrase(p) ==
    LET q == CollectText(p)
    IN  IF q.rc = "SUCCESS"
        THEN NextPhase([q EXCEPT !.msg.reason = Trimmed(q.work)], 0, "fieldName")
        ELSE q

parseFieldValue(p) ==
    LET q == CollectText(p)
    IN  IF q.rc = "SUCCESS"
        THEN NextPhase([q EXCEPT !.msg.headers[Len(q.msg.headers)].value = Trimmed(q.work)],
                       0, "fieldName")
        ELSE q

parseFieldName(p) ==
    LET q == Collect(p, Token)
    IN  IF q.rc # "go" THEN q
        ELSE IF Head(q.in) # ":" THEN Bad(q)
        ELSE NextPhase([q EXCEPT !.msg.headers = Append(@, [name |-> q.work, value |-> Nothing])],
                       1, "fieldValue")

----------------------------------------------------------------------------
\* the values of the fields of that name
HeaderValues(m, name) ==
    {m.headers[i].value : i \in {j \in DOMAIN m.headers : m.headers[j].name = <<name>>}} \ {Nothing}

StartsWith(value, octet) == value # <<>> /\ value[1] = octet

\* GET and DELETE requests; every response with a status of 200 or more
RequestBodyNotAllowed(m)  == m.method \in {<<"GET">>, <<"DELETE">>}
ResponseBodyNotAllowed(m) == m.status \in {204, 304} \/ 200 <= m.status
isBodyNotAllowed(m) ==
    IF m.kind = "request" THEN RequestBodyNotAllowed(m) ELSE ResponseBodyNotAllowed(m)

\* the last Content-Length wins, and one that is not a number is an error
ContentLengths(m) ==
    {i \in DOMAIN m.headers : m.headers[i].name = <<"Content-Length">>}
ContentLength(m) ==
    ParseInteger(m.headers[CHOOSE i \in ContentLengths(m) : \A j \in ContentLengths(m) : i >= j].value)

(***************************************************************************)
(* How the body is delimited.  httpVersion() is 100 or 110, and 1.1 is     *)
(* less than both: a connection is reused unless the peer says close.      *)
(***************************************************************************)
postParse(p) ==
    LET m       == p.msg
        close   == \E v \in HeaderValues(m, "Connection") : StartsWith(v, "close")
        expect  == \E v \in HeaderValues(m, "Expect") : StartsWith(v, "100-continue")
        chunked == \E v \in HeaderValues(m, "Transfer-Encoding") : ~StartsWith(v, "identity")
        parts   == \E v \in HeaderValues(m, "Content-Type") : StartsWith(v, "multipart/byteranges")
        q       == [p EXCEPT !.msg.reuse = ~close, !.msg.expect = expect, !.rc = "SUCCESS"]
    IN  CASE \E i \in ContentLengths(m) : ParseInteger(m.headers[i].value) < 0 -> Bad(q)
          [] chunked                -> [q EXCEPT !.left = 0, !.body = "size", !.msg.hasBody = TRUE]
          [] ContentLengths(m) # {} -> [q EXCEPT !.left = ContentLength(m), !.body = "unencoded",
                                                 !.msg.hasBody = ContentLength(m) > 0]
          [] parts                  -> [q EXCEPT !.left = 0, !.body = "multipart",
                                                 !.msg.hasBody = FALSE, !.rc = "BAD"]
          [] isBodyNotAllowed(m)    -> [q EXCEPT !.left = 0, !.body = "unencoded",
                                                 !.msg.hasBody = FALSE]
          [] OTHER                  -> [q EXCEPT !.left = UntilClose, !.body = "untilClose",
                                                 !.msg.hasBody = TRUE, !.msg.reuse = FALSE]

\* the empty line is looked for whenever the parser comes back to a field name
HeaderLine(p) ==
    CASE p.in = <<>>       -> Result(p, "AGAIN")
      [] Head(p.in) = "LF" -> postParse(NextPhase(p, 1, "complete"))
      [] Head(p.in) = "CR" -> IF Len(p.in) = 1 THEN Result(p, "AGAIN")
                              ELSE IF p.in[2] # "LF" THEN Bad(p)
                              ELSE postParse(NextPhase(p, 2, "complete"))
      [] OTHER             -> parseFieldName(p)

RequestStartLine(p) ==
    CASE p.phase = "method"     -> parseMethod(p)
      [] p.phase = "requestUri" -> parseRequestUri(p)
      [] p.phase = "version"    -> parseVersion(p)

ResponseStartLine(p) ==
    CASE p.phase = "version" -> parseVersion(p)
      [] p.phase = "status"  -> parseStatusCode(p)
      [] p.phase = "reason"  -> parseReasonPhrase(p)

\* one turn of the loop of parseHeaders, which goes on while the result is "go"
parseHeaders(p) ==
    CASE p.phase = "start"      -> SkipLeading(p)
      [] p.phase = "fieldName"  -> HeaderLine(p)
      [] p.phase = "fieldValue" -> parseFieldValue(p)
      [] p.phase = "complete"   -> Result(p, "INVALID_STATE")
      [] OTHER -> IF p.msg.kind = "request" THEN RequestStartLine(p) ELSE ResponseStartLine(p)

----------------------------------------------------------------------------
\* what is left of the body, or of the chunk, as far as it has arrived
Available(p) ==
    IF p.in = <<>> THEN Result(p, "AGAIN")
    ELSE [p EXCEPT !.avail = IF p.left < Len(p.in) THEN p.left ELSE Len(p.in), !.rc = "SUCCESS"]

\* mutant of parseUnencodedBody: the input is looked at before the end of the body
WaitAfterBody(p) ==
    IF p.body = "consumed" /\ p.in # <<>> THEN [p EXCEPT !.body = "done", !.avail = 0, !.rc = "SUCCESS"]
    ELSE Available(p)

parseUnencodedBody(p) ==
    IF p.body = "consumed" THEN [p EXCEPT !.body = "done", !.avail = 0, !.rc = "SUCCESS"]
    ELSE Available(p)

\* spaces are skipped only while no digit other than 0 has been read
parseChunkSize(p) ==
    LET in == IF p.left = 0 THEN SkipSpaces(p.in) ELSE p.in
        n  == Leading(in, Hex)
        q  == [p EXCEPT !.in = Drop(in, n), !.left = Accumulate(@, SubSeq(in, 1, n), 16)]
    IN  IF q.in = <<>> THEN Result(q, "AGAIN") ELSE [q EXCEPT !.body = "extension", !.rc = "go"]

parseChunkExtension(p) ==
    LET line == SkipLine(p.in)
        q    == [p EXCEPT !.in = line.rest]
    IN  IF line.rc # "SUCCESS" THEN Result(p, line.rc)
        ELSE IF p.left = 0 THEN [q EXCEPT !.body = "trailer", !.avail = 0, !.rc = "SUCCESS"]
        ELSE [q EXCEPT !.body = "data", !.rc = "go"]

parseEndChunk(p) ==
    LET line == SkipLine(p.in)
    IN  IF line.rc # "SUCCESS" THEN Result(p, line.rc)
        ELSE [p EXCEPT !.in = line.rest, !.body = "size", !.rc = "go"]

\* one turn of the loop of parseBody
parseBody(p) ==
    CASE p.body \in {"unencoded", "untilClose", "consumed"} -> parseUnencodedBody(p)
      [] p.body = "endChunk"  -> parseEndChunk(p)
      [] p.body = "size"      -> parseChunkSize(p)
      [] p.body = "extension" -> parseChunkExtension(p)
      [] p.body = "data"      -> Available(p)
      [] p.body = "multipart" -> Result(p, "NOT_SUPPORTED")
      [] OTHER                -> Result(p, "INVALID_STATE")

consumeBody(p, n) ==
    [p EXCEPT !.in = Drop(@, n), !.left = @ - n, !.rc = "SUCCESS",
              !.body = IF p.left # n THEN @ ELSE IF @ = "data" THEN "endChunk" ELSE "consumed"]

\* one of the lines after the last chunk, up to an empty one
skipTrailer(p) ==
    LET line == SkipLine(p.in)
        q    == [p EXCEPT !.in = line.rest]
    IN  IF p.body # "trailer" THEN Result(p, "SUCCESS")
        ELSE IF line.rc # "SUCCESS" THEN Result(p, line.rc)
        ELSE IF line.skipped > 0 THEN q
        ELSE [q EXCEPT !.body = "done", !.rc = "SUCCESS"]
=============================================================================

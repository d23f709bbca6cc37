------------------------ MODULE HttpMessageFormatter ------------------------
(***************************************************************************)
(* http1/source/ESHttpMessageFormatter.cpp with the start lines of         *)
(* ESHttpRequestFormatter.cpp, ESHttpResponseFormatter.cpp and             *)
(* ESHttpRequestUriFormatter.cpp.                                          *)
(*                                                                         *)
(* A formatter f is a record: out, the octets of the send buffer that the  *)
(* socket has not taken; mark, the write mark; phase, uri and next, where  *)
(* the formatter is; msg, the message.  The code writes octet by octet and *)
(* goes back to the mark when there is no room: a piece is written whole   *)
(* or not at all, and what lies behind the mark goes with it.              *)
(***************************************************************************)
EXTENDS HttpMessage

CONSTANT SendSize    \* octets the send buffer holds

\* reset(), on the send buffer that the last message leaves
FormatterInit(m, out, mark) ==
    [out |-> out, mark |-> mark, phase |-> "start", uri |-> "start", next |-> 1,
     chunked |-> FALSE, rc |-> "go", msg |-> m]

Writable(f) == SendSize - Len(f.out)

Rollback(f, rc) == [f EXCEPT !.out = SubSeq(@, 1, f.mark), !.rc = rc]

\* g is f with the flags of the next state; Transition marks the end of the piece
Piece(f, octets, g) ==
    IF Len(octets) > Writable(f) THEN Rollback(f, "AGAIN")
    ELSE [g EXCEPT !.out = f.out \o octets, !.mark = Len(f.out) + Len(octets), !.rc = "go"]

\* the start of a format: no room is not a reason to roll back
Start(f, g) == IF Writable(f) = 0 THEN [f EXCEPT !.rc = "AGAIN"]
               ELSE [g EXCEPT !.mark = Len(f.out), !.rc = "go"]

----------------------------------------------------------------------------
\* Request-URI
Empty(s) == s \in {Nothing, <<>>}

FirstUriPart(u) ==
    CASE u.type = "*"     -> "asterisk"
      [] u.type = "other" -> "other"
      [] OTHER            -> IF Empty(u.host) THEN "absPath" ELSE "scheme"

formatAsterisk(f) == Piece(f, <<"*">>, [f EXCEPT !.uri = "complete"])

formatScheme(f) ==
    Piece(f, (IF f.msg.uri.type = "http" THEN <<"h", "t">> ELSE <<"h", "t", "s">>) \o <<":", "/", "/">>,
          [f EXCEPT !.uri = "host"])

formatHost(f) == Piece(f, f.msg.uri.host, [f EXCEPT !.uri = "port"])

formatPort(f) ==
    LET u == f.msg.uri
    IN  IF u.port >= 65536 THEN Rollback(f, "BAD")
        ELSE Piece(f, IF u.port < 0 \/ u.port = DefaultPort(u.type) THEN <<>>
                      ELSE <<":">> \o FormatInteger(u.port, 10), [f EXCEPT !.uri = "absPath"])

formatAbsPath(f) ==
    LET path == IF f.msg.uri.absPath = Nothing THEN <<"/">> ELSE f.msg.uri.absPath
    IN  Piece(f, (IF path # <<>> /\ path[1] = "/" THEN <<>> ELSE <<"/">>)
                 \o Escaped(path, Pchar \cup {"/", ";"}), [f EXCEPT !.uri = "query"])

formatQuery(f) ==
    LET q == f.msg.uri.query
    IN  Piece(f, IF Empty(q) THEN <<>> ELSE <<"?">> \o Escaped(q, Uric), [f EXCEPT !.uri = "fragment"])

formatFragment(f) ==
    LET q == f.msg.uri.fragment
    IN  Piece(f, IF Empty(q) THEN <<>> ELSE <<"#">> \o Escaped(q, Uric), [f EXCEPT !.uri = "complete"])

formatNonHttpUri(f) ==
    IF Empty(f.msg.uri.other) THEN Rollback(f, "BAD")
    ELSE Piece(f, f.msg.uri.other, [f EXCEPT !.uri = "complete"])

FormatUri(f) ==
    CASE f.uri = "start"    -> Start(f, [f EXCEPT !.uri = FirstUriPart(f.msg.uri)])
      [] f.uri = "asterisk" -> formatAsterisk(f)
      [] f.uri = "scheme"   -> formatScheme(f)
      [] f.uri = "host"     -> formatHost(f)
      [] f.uri = "port"     -> formatPort(f)
      [] f.uri = "absPath"  -> formatAbsPath(f)
      [] f.uri = "query"    -> formatQuery(f)
      [] f.uri = "fragment" -> formatFragment(f)
      [] f.uri = "other"    -> formatNonHttpUri(f)

----------------------------------------------------------------------------
\* start line and headers
CRLF == <<"CR", "LF">>

formatMethod(f) ==
    IF Empty(f.msg.method) THEN [f EXCEPT !.rc = "BAD"]
    ELSE IF \E i \in DOMAIN f.msg.method : f.msg.method[i] \notin Token THEN Rollback(f, "BAD")
    ELSE Piece(f, f.msg.method \o <<"SP">>, [f EXCEPT !.phase = "requestUri"])

formatRequestUri(f) ==
    IF f.uri = "complete" THEN [f EXCEPT !.phase = "version", !.mark = Len(f.out)] ELSE FormatUri(f)

formatVersion(f) ==
    LET version == IF f.msg.version = 110 THEN <<"HTTP/1.1">> ELSE <<"HTTP/1.0">>
    IN  IF f.msg.version \notin {100, 110} THEN Rollback(f, "BAD")
        ELSE IF f.msg.kind = "request"
        THEN Piece(f, <<"SP">> \o version \o CRLF, [f EXCEPT !.phase = "fieldName"])
        ELSE Piece(f, version \o <<"SP">>, [f EXCEPT !.phase = "status"])

formatStatusCode(f) ==
    IF f.msg.status \notin 100 .. 999 THEN Rollback(f, "BAD")
    ELSE Piece(f, FormatInteger(f.msg.status, 10) \o <<"SP">>, [f EXCEPT !.phase = "reason"])

formatReasonPhrase(f) ==
    IF Empty(f.msg.reason) \/ \E i \in DOMAIN f.msg.reason : f.msg.reason[i] \notin Text
    THEN Rollback(f, "BAD")
    ELSE Piece(f, f.msg.reason \o CRLF, [f EXCEPT !.phase = "fieldName"])

\* the flag that decides how the body is framed is set with the name
formatFieldName(f) ==
    LET h == f.msg.headers[f.next]
    IN  IF \E i \in DOMAIN h.name : h.name[i] \notin Token THEN Rollback(f, "BAD")
        ELSE Piece(f, h.name \o <<":", "SP">>,
                   [f EXCEPT !.phase = "fieldValue",
                             !.chunked = @ \/ (/\ h.name = <<"Transfer-Encoding">>
                                               /\ (h.value = <<>> \/ h.value[1] # "identity"))])

\* white space inside a value becomes one space, white space before it goes
Collapsed(s) ==
    LET kept == {i \in DOMAIN s : s[i] \notin LWS \/ (i > 1 /\ s[i - 1] \notin LWS)}
        upTo[i \in 0 .. Len(s)] ==
            IF i = 0 THEN <<>>
            ELSE upTo[i - 1] \o (IF i \notin kept THEN <<>> ELSE IF s[i] \in LWS THEN <<"SP">> ELSE <<s[i]>>)
    IN  upTo[Len(s)]

formatFieldValue(f) ==
    Piece(f, Collapsed(f.msg.headers[f.next].value) \o CRLF,
          [f EXCEPT !.phase = "fieldName", !.next = @ + 1])

HeaderEnd(f) ==
    IF f.next <= Len(f.msg.headers) THEN formatFieldName(f)
    ELSE LET g == Piece(f, CRLF, [f EXCEPT !.phase = IF f.chunked THEN "chunked" ELSE "unencoded"])
         IN  IF g.rc = "go" THEN [g EXCEPT !.rc = "SUCCESS"] ELSE g

FormatRequestLine(f) ==
    CASE f.phase = "method"     -> formatMethod(f)
      [] f.phase = "requestUri" -> formatRequestUri(f)
      [] f.phase = "version"    -> formatVersion(f)

FormatResponseLine(f) ==
    CASE f.phase = "version" -> formatVersion(f)
      [] f.phase = "status"  -> formatStatusCode(f)
      [] f.phase = "reason"  -> formatReasonPhrase(f)

\* one turn of the loop of formatHeaders, which goes on while the result is "go"
formatHeaders(f) ==
    LET request == f.msg.kind = "request"
    IN  CASE f.phase = "start"      -> Start(f, [f EXCEPT !.phase = IF request THEN "method" ELSE "version"])
          [] f.phase = "fieldName"  -> HeaderEnd(f)
          [] f.phase = "fieldValue" -> formatFieldValue(f)
          [] f.phase \in {"chunked", "unencoded", "complete"} -> [f EXCEPT !.rc = "INVALID_STATE"]
          [] OTHER -> IF request THEN FormatRequestLine(f) ELSE FormatResponseLine(f)

----------------------------------------------------------------------------
\* body: how many of the offered octets there is room for, 0 when AGAIN
Reserve == 12    \* chunk size, CR LF, CR LF

beginChunk(f, offered) ==
    LET room == Writable(f) - Reserve IN IF room <= 0 THEN 0 ELSE IF offered < room THEN offered ELSE room

beginUnencodedBlock(f, offered) == IF offered < Writable(f) THEN offered ELSE Writable(f)

beginBlock(f, offered) ==
    IF f.phase = "chunked" THEN beginChunk(f, offered) ELSE beginUnencodedBlock(f, offered)

\* beginBlock, the handler's octets and endBlock, none of which moves the mark
Block(f, octets) ==
    [f EXCEPT !.rc = "SUCCESS",
              !.out = IF f.phase = "chunked"
                      THEN @ \o FormatInteger(Len(octets), 16) \o CRLF \o octets \o CRLF
                      ELSE @ \o octets]

endBody(f) ==
    IF f.phase = "unencoded" THEN [f EXCEPT !.phase = "complete", !.mark = Len(f.out), !.rc = "SUCCESS"]
    ELSE IF Writable(f) < 5 THEN [f EXCEPT !.rc = "AGAIN"]
    ELSE [f EXCEPT !.out = @ \o <<"0">> \o CRLF \o CRLF, !.mark = Len(f.out) + 5,
                   !.phase = "complete", !.rc = "SUCCESS"]
=============================================================================

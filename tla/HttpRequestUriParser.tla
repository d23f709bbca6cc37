------------------------ MODULE HttpRequestUriParser ------------------------
(***************************************************************************)
(* The Request-URI of http1/source/ESHttpRequestUriParser.cpp.             *)
(*                                                                         *)
(* A parser p is a record: in, the readable octets of the receive buffer;  *)
(* work, the working buffer, which keeps a token across calls; uri, the    *)
(* phase of the URI; msg, the message that is being filled; rc, the result *)
(* of the last step.  A step takes p to p; "go" means that the code calls  *)
(* the next parse function straight away.                                  *)
(***************************************************************************)
EXTENDS HttpMessage

CONSTANT WorkSize    \* octets the working buffer holds

HTTP  == <<"h", "t">>
HTTPS == <<"h", "t", "s">>

Result(p, rc) == [p EXCEPT !.rc = rc]
Bad(p)        == Result(p, "BAD")

\* Buffer::match compares as many octets as the buffer holds
Match(work, literal) == Len(work) <= Len(literal) /\ SubSeq(literal, 1, Len(work)) = work

(***************************************************************************)
(* The loop that most tokens share: no octet, AGAIN; no room, OVERFLOW; an *)
(* octet of S is moved to the working buffer; any other octet ends it.     *)
(***************************************************************************)
Collect(p, S) ==
    LET room == WorkSize - Len(p.work)
        run  == Leading(p.in, S)
        n    == IF run < room THEN run ELSE room
        rest == Drop(p.in, n)
    IN  [p EXCEPT !.in = rest, !.work = @ \o SubSeq(p.in, 1, n),
                  !.rc = IF rest = <<>> THEN "AGAIN" ELSE IF n = room THEN "OVERFLOW" ELSE "go"]

\* the same, for a token with its own first octets
CollectFrom(p, first, S) ==
    IF p.work = <<>> /\ p.in # <<>> /\ Head(p.in) \notin first THEN Bad(p) ELSE Collect(p, S)

\* the end of a part: the octet that ends it is skipped, the working buffer cleared
NextPart(p, phase) ==
    [p EXCEPT !.in = Tail(@), !.work = <<>>, !.uri = phase,
              !.rc = IF phase = "complete" THEN "SUCCESS" ELSE "go"]

parseAsterisk(p) ==
    IF Len(p.in) < 2 THEN Result(p, "AGAIN")
    ELSE IF p.in[2] \notin Spaces THEN Bad(p)
    ELSE [p EXCEPT !.in = Drop(@, 2), !.msg.uri.type = "*", !.uri = "complete", !.rc = "SUCCESS"]

parseAbsPath(p) ==
    LET q == CollectFrom(p, {"/"}, Pchar \cup {"/", ";"})
        s == [q EXCEPT !.msg.uri.absPath = q.work]
    IN  IF q.rc # "go" THEN q
        ELSE CASE Head(q.in) = "?"       -> NextPart(s, "query")
               [] Head(q.in) = "#"       -> NextPart(s, "fragment")
               [] Head(q.in) \in Spaces  -> NextPart(s, "complete")
               [] OTHER                  -> Bad(q)

parseQuery(p) ==
    LET q == Collect(p, Uric)
        s == [q EXCEPT !.msg.uri.query = q.work]
    IN  IF q.rc # "go" THEN q
        ELSE CASE Head(q.in) = "#"       -> NextPart(s, "fragment")
               [] Head(q.in) \in Spaces  -> NextPart(s, "complete")
               [] OTHER                  -> Bad(q)

parseFragment(p) ==
    LET q == Collect(p, Uric)
        s == [q EXCEPT !.msg.uri.fragment = q.work]
    IN  IF q.rc # "go" THEN q
        ELSE IF Head(q.in) \in Spaces THEN NextPart(s, "complete") ELSE Bad(q)

\* a scheme that is not http or https stays in the working buffer
parseScheme(p) ==
    LET q == CollectFrom(p, Alpha, AlphaNum \cup {"+", "=", "."})
    IN  IF q.rc # "go" THEN q
        ELSE IF Head(q.in) # ":" THEN Bad(q)
        ELSE IF Match(q.work, HTTP) THEN NextPart([q EXCEPT !.msg.uri.type = "http"], "slashes")
        ELSE IF Match(q.work, HTTPS) THEN NextPart([q EXCEPT !.msg.uri.type = "https"], "slashes")
        ELSE [q EXCEPT !.in = Tail(@), !.work = Append(@, ":"),
                       !.msg.uri.type = "other", !.uri = "other"]

skipForwardSlashes(p) ==
    LET rest == Drop(p.in, Leading(p.in, {"/"}))
    IN  IF rest = <<>> THEN [p EXCEPT !.in = rest, !.rc = "AGAIN"]
        ELSE [p EXCEPT !.in = rest, !.uri = "host", !.rc = "go"]

\* what may follow a host or a port: the path keeps its slash, anything else has the path "/"
AfterAuthority(p) ==
    LET root == [p EXCEPT !.msg.uri.absPath = <<"/">>]
    IN  CASE Head(p.in) \in Spaces -> NextPart(root, "complete")
          [] Head(p.in) = "?"      -> NextPart(root, "query")
          [] Head(p.in) = "#"      -> NextPart(root, "fragment")
          [] Head(p.in) = "/"      -> [p EXCEPT !.work = <<>>, !.uri = "absPath", !.rc = "go"]
          [] OTHER                 -> Bad(p)

parseHost(p) ==
    LET q == CollectFrom(p, AlphaNum, AlphaNum \cup {"-", "."})
        s == [q EXCEPT !.msg.uri.host = q.work]
    IN  IF q.rc # "go" THEN q
        ELSE IF Head(q.in) = ":" THEN NextPart(s, "port") ELSE AfterAuthority(s)

\* mutant of parsePort: every call starts from 0
RestartPort(p) ==
    LET n    == Leading(p.in, Digit)
        port == IF n = 0 THEN p.msg.uri.port ELSE Accumulate(0, SubSeq(p.in, 1, n), 10)
        q    == [p EXCEPT !.in = Drop(@, n), !.msg.uri.port = port]
    IN  IF port >= 65536 THEN Bad(q)
        ELSE IF q.in = <<>> THEN Result(q, "AGAIN")
        ELSE IF port < 0 THEN Bad(q)
        ELSE AfterAuthority(q)

\* the port is kept in the URI, not in the working buffer, from one call to the next
parsePort(p) ==
    LET n    == Leading(p.in, Digit)
        port == IF n = 0 THEN p.msg.uri.port
                ELSE Accumulate(IF p.msg.uri.port < 0 THEN 0 ELSE p.msg.uri.port,
                                SubSeq(p.in, 1, n), 10)
        q    == [p EXCEPT !.in = Drop(@, n), !.msg.uri.port = port]
    IN  IF port >= 65536 THEN Bad(q)
        ELSE IF q.in = <<>> THEN Result(q, "AGAIN")
        ELSE IF port < 0 THEN Bad(q)
        ELSE AfterAuthority(q)

parseNonHttpUri(p) ==
    LET q == Collect(p, Octets \ Spaces)
    IN  IF q.rc # "go" THEN q
        ELSE NextPart([q EXCEPT !.msg.uri.other = q.work], "complete")

ChooseUriForm(p) ==
    LET rest == SkipSpaces(p.in)
    IN  IF rest = <<>> THEN [p EXCEPT !.in = rest, !.rc = "AGAIN"]
        ELSE [p EXCEPT !.in = rest, !.rc = "go",
                       !.uri = CASE Head(rest) = "*" -> "asterisk"
                                 [] Head(rest) = "/" -> "absPath"
                                 [] OTHER            -> "scheme"]

\* one step of parse()
ParseUri(p) ==
    CASE p.uri = "start"    -> ChooseUriForm(p)
      [] p.uri = "asterisk" -> parseAsterisk(p)
      [] p.uri = "scheme"   -> parseScheme(p)
      [] p.uri = "slashes"  -> skipForwardSlashes(p)
      [] p.uri = "host"     -> parseHost(p)
      [] p.uri = "port"     -> parsePort(p)
      [] p.uri = "absPath"  -> parseAbsPath(p)
      [] p.uri = "query"    -> parseQuery(p)
      [] p.uri = "fragment" -> parseFragment(p)
      [] p.uri = "other"    -> parseNonHttpUri(p)
=============================================================================

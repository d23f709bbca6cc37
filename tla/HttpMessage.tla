---------------------------- MODULE HttpMessage ----------------------------
(***************************************************************************)
(* Requests, responses and Request-URIs of http-common: ESHttpMessage.cpp, *)
(* ESHttpRequest.cpp, ESHttpResponse.cpp and ESHttpRequestUri.cpp.  A      *)
(* message is a record; a request leaves status and reason alone, a        *)
(* response the method and the URI.                                        *)
(***************************************************************************)
EXTENDS HttpUtil

UriInit == [type |-> "http", host |-> Nothing, port |-> -1, absPath |-> Nothing,
            query |-> Nothing, fragment |-> Nothing, other |-> Nothing]

MessageInit(kind) ==
    [kind |-> kind, method |-> Nothing, uri |-> UriInit, version |-> 110, status |-> 0,
     reason |-> Nothing, headers |-> <<>>, hasBody |-> FALSE, reuse |-> FALSE, expect |-> FALSE]

\* the value of the first header of that name
findHeader(m, name) ==
    LET found == {i \in DOMAIN m.headers : m.headers[i].name = <<name>>}
    IN  IF found = {} THEN Nothing
        ELSE m.headers[CHOOSE i \in found : \A j \in found : i <= j].value

\* the headers that the filter lets through, in their order, until it says stop
\* (verdict[h] is what the filter says of header h)
copyHeaders(m, headers, verdict) ==
    LET stop   == {i \in DOMAIN headers : verdict[headers[i]] \in {"COPY_AND_STOP", "SKIP_AND_STOP"}}
        last   == IF stop = {} THEN Len(headers) ELSE CHOOSE i \in stop : \A j \in stop : i <= j
        copied(h) == verdict[h] \in {"COPY", "COPY_AND_STOP"}
    IN  [m EXCEPT !.headers = @ \o SelectSeq(SubSeq(headers, 1, last), copied)]

\* copy() of a request or of a response into one that has been reset
Copy(m, verdict) == copyHeaders([m EXCEPT !.headers = <<>>], m.headers, verdict)

DefaultPort(type) == IF type = "http" THEN 80 ELSE 443

\* HttpRequestUri::Compare(a, b) = 0: the default port and the path "/" may be left out
SameUri(a, b) ==
    LET port(u) == IF u.port >= 0 THEN u.port ELSE DefaultPort(u.type)
        path(u) == IF u.absPath = Nothing THEN <<"/">> ELSE u.absPath
    IN  /\ a.type = b.type
        /\ CASE a.type = "*"     -> TRUE
             [] a.type = "other" -> a.other = b.other
             [] OTHER            -> /\ a.host = b.host /\ port(a) = port(b)
                                    /\ path(a) = path(b) /\ a.query = b.query

(***************************************************************************)
(* HttpRequest::parsePeerAddress: the host of the URI or, without one, the *)
(* Host header.  The port of the URI is an Int32, that of the header is    *)
(* added up in an UInt16; 0 stands for the default in both.                *)
(***************************************************************************)
parsePeerAddress(m) ==
    LET u      == m.uri
        secure == u.type = "https"
        port(n) == IF n <= 0 THEN (IF secure THEN 443 ELSE 80) ELSE n
        host   == findHeader(m, "Host")
        n      == Leading(host, Octets \ {":"})
        digits == SubSeq(host, n + 2, n + 1 + Leading(Drop(host, n + 1), Digit))
    IN  IF u.host # Nothing THEN [host |-> u.host, port |-> port(u.port), secure |-> secure]
        ELSE IF host = Nothing THEN [host |-> Nothing, port |-> 0, secure |-> secure]
        ELSE [host |-> SubSeq(host, 1, n), port |-> port(Accumulate(0, digits, 10) % 65536),
              secure |-> secure]
=============================================================================

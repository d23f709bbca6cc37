------------------------------- MODULE MCHttp -------------------------------
(***************************************************************************)
(* The proxy and the wire, side by side for TLC: a behaviour is one of the *)
(* proxy with its connections, or one of a sender and a receiver; the      *)
(* other stays as it is.                                                   *)
(***************************************************************************)
EXTENDS HttpRoutingProxy, HttpWire

CONSTANTS k1, k2

VARIABLE subject      \* the part whose behaviour this is

HttpInit ==
    /\ subject \in {"proxy", "wire"} /\ Init /\ WireInit
    /\ subject = "proxy" => stream = CHOOSE messages \in Streams : TRUE

HttpNext ==
    /\ UNCHANGED subject
    /\ \/ subject = "proxy" /\ Next /\ UNCHANGED wireVars
       \/ subject = "wire" /\ WireNext /\ UNCHANGED vars

HttpSpec == HttpInit /\ [][HttpNext]_<<subject, vars, wireVars>>

----------------------------------------------------------------------------
H(name, value) == [name |-> <<name>>, value |-> value]

Request(method, uri, headers) ==
    [MessageInit("request") EXCEPT !.method = <<method>>, !.uri = uri, !.headers = headers]
Response(status, headers) ==
    [MessageInit("response") EXCEPT !.status = status, !.reason = <<"s", "SP", "t">>, !.headers = headers]

Sending(m, body) == [msg |-> m, body |-> body]
Body          == <<"a", "LF", "0", "CR", "LF">>
Chunked       == H("Transfer-Encoding", <<"chunked">>)
Length(digit) == H("Content-Length", <<digit>>)

Requests ==
    {Sending(Request("GET", [UriInit EXCEPT !.host = <<"a">>, !.port = 443, !.absPath = <<"/", "SP", "a">>,
                                         !.query = <<"b">>], <<>>), <<>>),
     Sending(Request("POST", [UriInit EXCEPT !.absPath = <<"/">>],
                  <<H("Host", <<"a", ":", "8">>), Length("2")>>), <<"LF", "a">>),
     Sending(Request("POST", [UriInit EXCEPT !.type = "*"], <<Chunked, H("Expect", <<"a", "HT", "LF", "SP", "b">>)>>), Body),
     Sending(Request("GET", [UriInit EXCEPT !.type = "other", !.other = <<"s", ":", "b">>], <<>>), <<>>),
     Sending(Request("GET", [UriInit EXCEPT !.type = "https", !.host = <<"a">>, !.port = 443, !.fragment = <<"c">>],
                  <<H("Host", <<>>)>>), <<>>)}

Responses ==
    {Sending(Response(204, <<>>), <<>>),
     Sending([Response(200, <<Length("0")>>) EXCEPT !.version = 100], <<>>),
     Sending(Response(200, <<Chunked>>), Body),
     Sending(Response(302, <<H("Host", <<"SP", "a", "HT", "SP", "b", "SP">>), Length("3")>>), <<"a", "CR", "LF">>)}

\* each message, followed by one with a body and one without
MCStreams == {<<a, b>> : a \in Requests, b \in {x \in Requests : x.body # <<>> \/ x.msg.uri.type = "other"}}
             \cup {<<a, b>> : a \in Responses, b \in {x \in Responses : x.body = Body \/ x.msg.status = 204}}
=============================================================================

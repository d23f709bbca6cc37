------------------------- MODULE HttpClientContract -------------------------
(***************************************************************************)
(* What a handler of client transactions may rely on                       *)
(* (data-plane/http1/include/ESHttpClientHandler.h), whatever the          *)
(* connection, the pool and the origin do: beginTransaction comes before   *)
(* everything else (it may come again: for a reused connection and for a   *)
(* retry), endRequest before receiveResponseHeaders, the last chunk after  *)
(* the headers and once, endTransaction last and once, and it reports      *)
(* ES_HTTP_CLIENT_HANDLER_END exactly after the end of the response.       *)
(*                                                                         *)
(* It is weaker than that header in two places.  endRequest says that the  *)
(* request was formatted, not that it "has been fully sent" (line 102):    *)
(* flushSendBuffer succeeds once it has sent a part.  And endTransaction   *)
(* does not come "regardless of success or failure" (line 112): a          *)
(* transaction the factory refuses after beginTransaction gets none.       *)
(***************************************************************************)

VARIABLES phase,    \* the last callback: "none", "begun", "sent", "headers", "last", "read", "over"
          outcome   \* how it ended: "END", "FAILED", "REFUSED", or "running"

contractVars == <<phase, outcome>>

Init == phase = "none" /\ outcome = "REFUSED"

Execute ==
    /\ outcome # "running"
    /\ phase' \in {"none", "begun"} /\ outcome' = "running"

(***************************************************************************)
(* executeClientTransaction returns an error, perhaps after it called      *)
(* beginTransaction: no endTransaction follows.                            *)
(***************************************************************************)
Refuse ==
    /\ outcome # "running"
    /\ phase' \in {"none", "begun"} /\ outcome' = "REFUSED"

BeginTransaction ==
    /\ outcome = "running" /\ phase \in {"none", "begun"}
    /\ phase' = "begun" /\ UNCHANGED outcome

EndRequest ==
    /\ outcome = "running" /\ phase = "begun"
    /\ phase' = "sent" /\ UNCHANGED outcome

ReceiveResponseHeaders ==
    /\ outcome = "running" /\ phase = "sent"
    /\ phase' = "headers" /\ UNCHANGED outcome

(***************************************************************************)
(* The end of the body goes to the handler or to a caller that reads it.   *)
(***************************************************************************)
LastChunk ==
    /\ outcome = "running" /\ phase = "headers"
    /\ phase' \in {"last", "read"} /\ UNCHANGED outcome

EndTransaction ==
    /\ outcome = "running"
    /\ phase' = "over"
    /\ outcome' = IF phase \in {"last", "read"} THEN "END" ELSE "FAILED"

Next == Execute \/ Refuse \/ BeginTransaction \/ EndRequest \/ ReceiveResponseHeaders
        \/ LastChunk \/ EndTransaction

Spec == Init /\ [][Next]_contractVars

=============================================================================

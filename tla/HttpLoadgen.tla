----------------------------- MODULE HttpLoadgen -----------------------------
(***************************************************************************)
(* The load generator and the origin server it is pointed at               *)
(* (ESHttpLoadgen*.cpp, ESHttpOrigin*.cpp): how many transactions are run, *)
(* when the generator is finished, and what each side sends, counts and    *)
(* verifies of a body.                                                     *)
(*                                                                         *)
(* A transaction's octets travel in order, cut anywhere; the connections   *)
(* in between have modules of their own.  The letters of a body repeat     *)
(* after Alphabet octets (26 in the code).  The body is chunked.           *)
(***************************************************************************)
EXTENDS Integers, Sequences, FiniteSets, SequencesExt

CONSTANTS LoadConnections,      \* connections()
          ClientThreads,        \* clientThreads()
          RequestsPerConnection,
          RequestSize, ResponseSize,
          Alphabet,
          Disruptions           \* the values of disruptTransaction(), HAPPY_PATH among them

ASSUME LoadAssumption ==
    /\ {LoadConnections, RequestsPerConnection, RequestSize, ResponseSize} \subseteq Nat
    /\ {ClientThreads, Alphabet} \subseteq Nat \ {0}

VARIABLES load,     \* the counters, what is seeded, the disruption
          stream    \* the transactions in progress

loadVars == <<load, stream>>

TotalIterations == LoadConnections * RequestsPerConnection
\* HttpTestParams::override() has made the connections a multiple of the threads.
SeedsPerThread == LoadConnections \div ClientThreads

\* A stream is one slot of a seed command: thread t's i-th connection.
Streams == (1..ClientThreads) \X (1..SeedsPerThread)

\* at: what the two sides do next; sent and received: the client's context;
\* took and gave: the origin's context; up and down: octets under way.
NoTransaction == [at |-> "none", sent |-> 0, received |-> 0, took |-> 0, gave |-> 0,
                  up |-> <<>>, down |-> <<>>, bad |-> FALSE]

\* dec() returns the value after the decrement.
Decremented == load.remaining - 1

LoadInit ==
    /\ load \in {[remaining |-> TotalIterations, completed |-> 0, failed |-> 0, lost |-> 0,
                  seeded |-> [t \in 1..ClientThreads |-> 0], disruption |-> d] : d \in Disruptions}
    /\ stream = [s \in Streams |-> NoTransaction]

Disrupted(point) == load.disruption = point

-----------------------------------------------------------------------------
(* HttpLoadgenSeedCommand::run(), one turn of its loop.  It ends when the  *)
(* iterations are used up, or a transaction cannot be executed.            *)

Seed(t) ==
    LET i == load.seeded[t] + 1 IN
    /\ i <= SeedsPerThread
    /\ \/ /\ Decremented < 0
          /\ load' = [load EXCEPT !.remaining = Decremented, !.seeded[t] = SeedsPerThread]
          /\ UNCHANGED stream
       \/ /\ Decremented >= 0
          /\ load' = [load EXCEPT !.remaining = Decremented, !.seeded[t] = i]
          /\ stream' = [stream EXCEPT ![<<t, i>>] = [NoTransaction EXCEPT !.at = "begin"]]
       \/ /\ Decremented >= 0
          /\ load' = [load EXCEPT !.remaining = Decremented, !.seeded[t] = SeedsPerThread,
                                  !.lost = @ + 1]
          /\ UNCHANGED stream

\* The next transaction of a stream, with the context of the last one as it is.
resubmittedAsIs(x) == [x EXCEPT !.at = "begin", !.took = 0, !.gave = 0, !.up = <<>>, !.down = <<>>]

\* The next transaction of a stream: the context is passed on, its counts reset.
resubmitted(x) ==
    [x EXCEPT !.at = "begin", !.sent = 0, !.received = 0,
              !.took = 0, !.gave = 0, !.up = <<>>, !.down = <<>>]

\* HttpLoadgenHandler::endTransaction: completed, whatever the outcome; then
\* another transaction unless the iterations are used up.  One that cannot be
\* created or executed is lost.
EndTransaction(s, ok) ==
    LET ended == [load EXCEPT !.remaining = Decremented, !.completed = @ + 1,
                              !.failed = IF ok THEN @ ELSE @ + 1]
    IN \/ /\ Decremented < 0
          /\ load' = ended
          /\ stream' = [stream EXCEPT ![s] = [@ EXCEPT !.at = "none"]]
       \/ /\ Decremented >= 0
          /\ load' = ended
          /\ stream' = [stream EXCEPT ![s] = resubmitted(@)]
       \/ /\ Decremented >= 0
          /\ load' = [ended EXCEPT !.lost = @ + 1]
          /\ stream' = [stream EXCEPT ![s] = [@ EXCEPT !.at = "none"]]

-----------------------------------------------------------------------------
(* The client's and the origin's handlers.  At a disruption's point the    *)
(* handler closes the connection, or pauses both ways for good: either way *)
(* the transaction ends in failure (after an idle timeout).                *)

Step(s, at, next) ==
    /\ stream[s].at = at
    /\ stream' = [stream EXCEPT ![s] = next]
    /\ UNCHANGED load

BeginTransaction(s) ==
    /\ stream[s].at = "begin"
    /\ IF Disrupted("CLIENT_SEND_HEADERS") \/ Disrupted("SERVER_RECV_HEADERS")
       THEN EndTransaction(s, FALSE)
       ELSE Step(s, "begin", [stream[s] EXCEPT !.at = "request"])

\* offerRequestBody and produceRequestBody of n octets.
ProduceRequestBody(s, n) ==
    /\ stream[s].at = "request"
    /\ n \in 1..(RequestSize - stream[s].sent)
    /\ IF Disrupted("CLIENT_SEND_BODY") THEN EndTransaction(s, FALSE)
       ELSE Step(s, "request", [stream[s] EXCEPT
                !.up = @ \o [i \in 1..n |-> (stream[s].sent + i - 1) % Alphabet],
                !.sent = @ + n])

\* consumeRequestBody of n octets: all are consumed, and verified.
ConsumeRequestBody(s, n) ==
    LET x == stream[s] IN
    /\ x.at = "request"
    /\ n \in 1..Len(x.up)
    /\ IF Disrupted("SERVER_RECV_BODY") THEN EndTransaction(s, FALSE)
       ELSE Step(s, "request", [x EXCEPT
                !.bad = @ \/ \E i \in 1..n : x.up[i] # (x.took + i - 1) % Alphabet,
                !.took = @ + n, !.up = SubSeq(@, n + 1, Len(@))])

\* The last chunk: the origin checks the count and sends its headers, which the
\* client receives.
EndOfRequest(s) ==
    LET x == stream[s] IN
    /\ x.at = "request"
    /\ RequestSize - x.sent = 0 /\ x.up = <<>>
    /\ IF \E d \in {"SERVER_RECV_BODY", "SERVER_SEND_HEADERS", "CLIENT_RECV_HEADERS"} : Disrupted(d)
       THEN EndTransaction(s, FALSE)
       ELSE Step(s, "request", [x EXCEPT !.at = "response", !.bad = @ \/ x.took # RequestSize])

\* offerResponseBody and produceResponseBody of n octets.
ProduceResponseBody(s, n) ==
    /\ stream[s].at = "response"
    /\ n \in 1..(ResponseSize - stream[s].gave)
    /\ IF Disrupted("SERVER_SEND_BODY") THEN EndTransaction(s, FALSE)
       ELSE Step(s, "response", [stream[s] EXCEPT
                !.down = @ \o [i \in 1..n |-> (stream[s].gave + i - 1) % Alphabet],
                !.gave = @ + n])

ConsumeResponseBody(s, n) ==
    LET x == stream[s] IN
    /\ x.at = "response"
    /\ n \in 1..Len(x.down)
    /\ IF Disrupted("CLIENT_RECV_BODY") THEN EndTransaction(s, FALSE)
       ELSE Step(s, "response", [x EXCEPT
                !.bad = \/ @
                        \/ n + x.received > ResponseSize
                        \/ \E i \in 1..n : x.down[i] # (x.received + i - 1) % Alphabet,
                !.received = @ + n, !.down = SubSeq(@, n + 1, Len(@))])

EndOfResponse(s) ==
    LET x == stream[s] IN
    /\ x.at = "response"
    /\ ResponseSize - x.gave = 0 /\ x.down = <<>>
    /\ EndTransaction(s, TRUE)

\* The connection fails.
Fail(s) ==
    /\ stream[s].at # "none"
    /\ EndTransaction(s, FALSE)

Sizes == 1..(IF RequestSize > ResponseSize THEN RequestSize ELSE ResponseSize)

LoadNext ==
    \/ \E t \in 1..ClientThreads : Seed(t)
    \/ \E s \in Streams : BeginTransaction(s) \/ EndOfRequest(s) \/ EndOfResponse(s) \/ Fail(s)
    \/ \E s \in Streams, n \in Sizes : ProduceRequestBody(s, n) \/ ConsumeRequestBody(s, n)
    \/ \E s \in Streams, n \in Sizes : ProduceResponseBody(s, n) \/ ConsumeResponseBody(s, n)

LoadSpec == LoadInit /\ [][LoadNext]_loadVars

-----------------------------------------------------------------------------

\* What main() waits for.
IsFinished == TotalIterations <= load.completed

Running == {s \in Streams : stream[s].at # "none"}

\* Both sides receive the octets the other side's handler meant for them, from
\* the first to the last of every transaction: no assertion of a handler fails,
\* also after the client's context has been passed on to the next transaction.
BodiesVerify ==
    \A s \in Streams :
        /\ ~stream[s].bad
        /\ stream[s].at = "request" => stream[s].sent = stream[s].took + Len(stream[s].up)
        /\ stream[s].at = "response" => stream[s].gave = stream[s].received + Len(stream[s].down)

\* Each iteration is run exactly once: what was taken off the counter is
\* completed, running or lost; the generator is finished only when nothing
\* runs, and when nothing runs any more, nothing was lost and every thread had
\* a connection to seed, it is finished.
IterationsAreExact ==
    LET taken == IF load.remaining < 0 THEN TotalIterations ELSE TotalIterations - load.remaining IN
    /\ load.completed + Cardinality(Running) + load.lost = taken
    /\ IsFinished => Running = {} /\ load.lost = 0
    /\ (Running = {} /\ load.lost = 0 /\ SeedsPerThread > 0
        /\ \A t \in 1..ClientThreads : load.seeded[t] = SeedsPerThread) => IsFinished

\* Every body arrives as it was meant and every iteration is accounted for,
\* also after contexts were passed on and transactions failed.
\* (HttpLoadgenHandler, HttpOriginHandler)
LoadIsAccountedFor == BodiesVerify /\ IterationsAreExact
=============================================================================

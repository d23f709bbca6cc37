# Verification of everscale

TLA+ models of the concurrent and reactive core of everscale, an HTTP proxy in C++ built on one
event loop per thread. TLC checks the models on small instances, TLAPS proves the central results
for every instance. `PROJECT.json` maps every definition to the source lines it translates.

## 1. The system and its parts

Every multiplexer thread runs `HttpProxyMultiplexer::run` as a command of a thread pool. It owns an
`EpollMultiplexer` (the event loop), a timing wheel for idle connections, two command sockets,
the socket factories with their connection pool, and all sockets registered with it. Sockets of one
multiplexer never leave its thread: concurrency inside a thread is the interleaving of events,
callbacks and calls of one socket's callback on another socket. Threads meet in three places only: the
queue of the thread pool, the command sockets and the flag that stops a multiplexer.

| Part | State | Operations | Talks to |
|---|---|---|---|
| Event loop (`ESBEpollMultiplexer.cpp`) | active and dead lists, socket count, interests by descriptor, batch of events, timers | add, update, remove, run, destroy | calls `handle*` of the sockets; is called back from inside those callbacks |
| Timing wheel (`ESBFlatTimingWheel.cpp`) | buckets, `_currentTick`, tick of each timer | insert, update, remove, nextExpired, clear | driven by the event loop with a captured time |
| Thread pool (`ESBThreadPool.cpp`, `ESBSharedEmbeddedQueue.cpp`) | queue, stop flags, workers | start, execute, stop, join | runs the multiplexers |
| Shared queue (`ESBSharedQueue.cpp`) | bounded list, two condition variables | push, tryPush, pop, tryPop, clear | any threads |
| Command sockets (`ESHttpCommandSocket.cpp`) | queue, eventfd, `_dead` | push (any thread), handleReadable, handleRemove | hand work to a multiplexer thread |
| Server connection (`ESHttpServerSocket.cpp`) | state and flags, receive and send buffer, `_bytesAvailable`, transaction | I/O callbacks, pause/resume, abort, sendResponse, sendResponseBody, readRequestBody | event loop, handler, the proxy's client connection |
| Client connection (`ESHttpClientSocket.cpp`) | mirror image, plus connect and retry after reuse | as above | event loop, handler, connection pool |
| Connection pool and factories (`ESBConnectionPool.cpp`, `ESHttp*SocketFactory.cpp`) | idle connections by address, free objects | acquire, release, reuse | client connections, TLS contexts |
| Routing proxy (`ESHttpRoutingProxyHandler.cpp`) | one context per transaction with two stream pointers | the callbacks of both handlers | couples a server and a client connection |
| Servers (`ESHttpServer.cpp`, `ESHttpClient.cpp`, `ESHttpProxyMultiplexer.cpp`) | life cycle state, multiplexers | initialize, push, start, stop, join | thread pool, command sockets |
| Listening socket (`ESHttpListeningSocket.cpp`) | state | handleAccept | event loop, server factory |
| Sockets and TLS (`ESBSocket.cpp`, `ESBTLSSocket.cpp`) | descriptor, SSL handshake state | connect, send, receive, close | kernel, OpenSSL |
| Parsers and formatters (`ESHttpMessageParser.cpp`, `ESHttpMessageFormatter.cpp`) | parse state, bytes left | parseHeaders, parseBody, skipTrailer, beginBlock, endBody | the connections |
| Allocators (`ESBBuddyAllocator.cpp`, `ESBDiscardAllocator.cpp`) | available blocks by size, chunks | allocate, deallocate, reallocate, reset | everything that lives as long as a transaction |
| Collections (`ESBMap.cpp`, `ESBList.cpp`, `ESBEmbeddedList.cpp`, `ESBCompactStringMap.cpp`) | linked nodes, one buffer | insert, remove, find, update, iterate | pool, TLS contexts, configuration |
| TLS context indexes (`ESBWildcardIndex.cpp`, `ESB*TLSContextIndex.cpp`) | patterns by domain, references to contexts, the default context | indexContext, matchContext, the SNI callback | sockets, configuration |
| Locks (`ESBReadWriteLock.cpp`, `ESBCountingSemaphore.cpp`) | readers, writers, waiting threads, count | acquire, attempt, release | any threads |
| Time series (`ESBTimeSeries.cpp`) | the last windows | record | counters of the servers |
| JSON tree (`ESBJsonParser.cpp`, `ASTTree.cpp`) | stack of open containers, root | parser callbacks, traverse | configuration |
| Origin and load generator | iterations left, octets sent and received | handlers of both sides | test programs on top of the stack |

What is hard here, and what makes each part correct:

* **Event loop.** A callback may remove or add sockets while a batch of events with raw pointers is
  pending, removal is re-entered through `handleRemove`, descriptors and objects are reused at once, and
  a cache decides whether the kernel must be told of an interest. Correct: no callback after removal, no
  destroyed object referred to, lists, timers, count and epoll set agree, the kernel watches for exactly
  what is wanted whenever the loop waits, a stopped loop ends and leaves nothing.
* **Timing wheel.** Times are captured once per batch, the cursor lags behind, ticks are 32 bit. Correct:
  never early, none missed, every timer in the bucket of its tick.
* **Queues and thread pool.** Signals are sent after the unlock or only at a boundary of the size; threads
  may fail to start. Correct: no lost wakeup, one owner per command, `join` returns, nothing runs on.
* **Command sockets.** Queue, eventfd counter and readiness edge are three pieces of state without a common
  lock. Correct: counter and queue agree, no lost wakeup, nothing stranded at removal.
* **Server connection.** The state machine is advanced by I/O callbacks and by calls of other sockets,
  pauses at any point, and may send a response before it has read the request. Correct: requests on a
  reused connection stay in step, the end of the body is announced once, buffers and counters agree,
  every transaction that begins ends.
* **Client connection.** The same state machine mirrored, over a connection that may come from the pool and
  be dead already. Correct: a request is sent on one connection only, a connection returns to the pool between
  two messages, and the handler sees the callbacks in the order its interface promises.
* **Proxy.** Two connections of one thread call each other in nested calls, each may end inside the other's
  call, and both hold the same context. Correct: no pointer to a stream that has ended but where the code is known to leave one, no body stopped at both
  ends, nobody waits for a stream that is gone, no response before it has come.
* **Text on the wire.** Formatters and parsers stop and go on at any octet, with buffers that are compacted in
  between. Correct: what is read is what was written, no matter where it is cut.
* **Connection pool and TLS.** A pooled connection is reused for other requests, memory for other objects, a
  context for other names. Correct: address, context and certificate fit, memory fits, the best pattern is
  found, the way of verifying follows the context.
* **Servers.** Several threads start one after the other and a failure may come half-way. Correct: a started
  server has all its multiplexers, none is destroyed under its thread, every descriptor has an owner, also when `main`
  gives up and leaves the rest to the destructor.
* **Collections, allocators, locks.** Long sequences of legal calls, refused allocations and releases. Correct:
  the structure keeps its shape and agrees with the set, sequence or partition it stands for.

## 2. The modules

Each module has one action per operation or step of the code, `Init`, `Next`, `Spec` and, where liveness is
checked, `FairSpec`; `MC...` modules name the model values of the runs. Operators that the next-state
relations do not use (such as `HandleEvent_NoDeadCheck` or `deleteByCopying`) are plausible bugs, named under `mutants` in
`PROJECT.json`: put in the place of the code's operator, each makes TLC report its property violated.

Where several invariants are about one promise they are checked together: the property of the run is a conjunction of
named parts, each defined and explained on its own just before it.

**`EpollMultiplexer`** models `ESBEpollMultiplexer.cpp` with every exit of `run()`. `pc` is the place in
`run()`, `cb` the running I/O callback, `removing` the chain of `handleRemove` calls. While a callback
runs, `Callback` lets it add sockets, update interests, change what another connection wants and (from `handleRemove`) abort a
peer: that is what the handlers in `data-plane` do. What a socket wants and what the kernel watches for are changed apart:
`ChangeWants` is the call of another socket (`pauseRecv(false)`, `readRequestBody`, ...) which tells the multiplexer nothing, and
`unannounced` remembers it. `Add` and `RemoveMultiplexedSocket` have their failure paths (limit, epoll_ctl, timer), and the count goes
up and down in them as in the code. Closing a descriptor takes it out of the epoll set, as the kernel does, and the kernel hands it out again.
`events` is a set: the order in a batch is arbitrary. Timers are a set here; their times are the subject of
the next module.

**`FlatTimingWheel`** models the wheel with the arithmetic of `ticks()` (`Word` is the range of UInt32) and the
two clocks the loop uses: `insert` reads the wall clock, `update` and `nextExpired` see the time captured
before. `due` is a history variable: the tick at which the timer should expire, counted without wrapping.

**`SharedQueue`** models `ESBSharedQueue.cpp`. A call is one atomic step from lock to unlock or to
`pthread_cond_wait`; a woken thread competes for the mutex again. Spurious wakeups and every error of the list are
included: an allocation that fails in `push`, a `popFront` that fails in `pop` and `tryPop`, a `clear()` that fails half-way. `cleared`
and `failed` count the calls that lose a wakeup: a `clear()` of a full list, and a woken consumer whose `popFront` failed.

**`ThreadPool`** models `ESBThreadPool.cpp` with `ESBSharedEmbeddedQueue.cpp`. The signal after the unlock is a step of its
own. `pthread_create` may fail at any worker; commands in `Endless` run until they are stopped, as
multiplexers do.

**`HttpCommandSocket`** models `ESHttpCommandSocket.cpp` on an eventfd. The critical section of
`pushInternal`, the write, the read, each command and the steps of removal interleave; `edge` is the
socket's place in epoll's ready list (edge triggered).

**`HttpServerSocket`** models `ESHttpServerSocket.cpp`: `advanceStateMachine` is a sequence of steps (one per
state function, fill or drain), `frame` its running call with the flags it was given. The handler returns
any result at any callback; between two events other sockets call `sendResponse`, `sendResponseBody`,
`readRequestBody`, pause, resume and abort. Bytes are counted in units: a request is a header token
(`get` without body, `put` with a content length, `post` chunked), body pieces, a last chunk and the end of the
trailer, pipelined freely; the parser's and the formatter's results are computed from them. `flushSendBuffer`
may send any part. `open` and `lastOffers` are history variables: a transaction has begun and not ended, and
how often the end of the body was announced. Assumptions: clear text; a handler that returns `ESB_SUCCESS`
for a piece has consumed it (the code would offer it again for ever); callers act for an open transaction and
not from inside the connection's own callback, where they would find the state machine in a receive state
and change nothing but the response.

**`HttpClientContract`** and **`HttpClientSocket`**. The first is what `ESHttpClientHandler.h` lets a handler rely
on: the order and number of callbacks of one transaction. It is weaker than that header's comments in two places, named there and in
section 5. The second models `ESHttpClientSocket.cpp` with `executeClientTransaction` of the factory; it is built like
`HttpServerSocket`. `told` is a history variable: the last callback the handler really got, set where the code calls the handler and
nowhere else. `KeepsContract` maps it to the phase of the first; TLC checks the refinement and `HttpClientSocketProofs` proves it.

**`HttpRoutingProxy`** composes one server connection with client connections through the proxy's context.
The connections are reduced to phases, pause flags and context pointer; the nested calls of their state
machines are a stack, so that every step of an inner call can fail or end a stream before the outer one goes
on. Contexts share one address, as they do in the code: a pointer kept too long sees the next one. Removing a client stream on whose
reused connection nothing was sent executes its transaction again (`Retries`), on a pooled connection, where `beginTransaction` comes at
once, or on a new one, where it comes when that has connected. A transaction that cannot be executed is refused (`ServerRefuses`), and
leaves the context's pointer at a pooled socket if `addMultiplexedSocket` was what failed. The flag that stops the multiplexer may be
set between any two steps: every state machine then leaves its loop with an error, and a stream in `TRANSACTION_END` is removed without
`endTransaction`.

**`HttpUtil`, `HttpMessage`, `HttpRequestUriParser`, `HttpMessageParser`, `HttpMessageFormatter`** are the text
functions as operators on records: one step per parse or format function, characters abstracted to the classes the
code tells apart. **`HttpWire`** joins a formatter, a send buffer, the socket, a receive buffer and a parser; the
buffers' positions, marks and `compact()` are in it.

**`RedBlackMap`** models `ESB::Map` with pointers, colours, sentinel and iterators; **`LinkedLists`** both lists;
**`CompactStringMap`** the buffer of records, each with its place in the buffer, so that what `memmove` shifts is seen;
**`WildcardMatch`** the two loops of the pattern functions, each as the least position at which one of its exits is taken;
**`WildcardIndex`** the nodes with their two buffers, the hash map, the TLS context indexes and the SNI callback, which is installed
only when all names of the default context are indexed (`believed` is history: what the answers of all calls so far promise for each
name); **`Allocators`** the buddy
and the discard allocator; **`Locks`** the two locks made of condition variables (an action is what runs between two
waits); **`AstTree`** the tree built from JSON events; **`TimeSeries`** the windows of the counters (the loop of `queries()` is
the list of values its accumulator takes); **`ConnectionPool`** sockets, TLS sessions, the pool and recycled memory;
**`HttpServers`** the life of a server, with the descriptors opened counted for each multiplexer apart, with every early return of
`main` (`Fails`, `StartFails`, `AddListener`) and the destructor that follows it (`Destructor`);
**`HttpLoadgen`** the load generator against the origin. Each has history that says what the caller believes
(the set of pairs in the map, the order of the list, the blocks handed out) and the properties compare.

## 3. The runs

| Run | Instance | Shows |
|---|---|---|
| `EpollConnections` | two connections, two descriptors, one call per callback, one epoll error survived | `ListsConsistent`, `NoCallbackAfterRemove`, `WaitingCoversAll` (`InterestsCurrent`, `IdleTimeoutCoversAll`), `NoDanglingEvents` |
| `EpollListener` | a listener, a command socket, a connection, room for two | `CountExact`, `StoppedIsClean`, `StopsEventually` |
| `Queues` (shared queue) | four threads, limit two, every call and every error of the list | `QueueKeepsItsPromise` (`WithinLimit`, `NoStrandedConsumer`, `NoStrandedProducer`), `BlockedPopServed` |
| `Queues` (command socket) | three pushers, four commands | `NeverOutOfSync`, `NothingStranded`, `QueuedCommandsLeave` |
| `Queues` (thread pool) | two workers, two callers, three commands of which one is endless | `NoLostWakeup` (`NoLostSignal`, `NobodySleepsThroughStop`), `NothingIsShared` (`OneOwner`, `NoThreadOutlivesPool`), `PoolProgress` (`JoinReturns`, `BacklogDrains`) |
| `QueueClear` | two threads that push to a queue of one and clear it | **violation** of `BlockedPushServed`: clearing a full queue wakes no producer |
| `ServerConnection` | four tokens of input, buffers of two units | `RequestsInStep`, `BooksAgree` (`TypeOK`, `AvailableIsBuffered`, `NeverJammed`, `LastChunkOnce`), `TransactionsEnd` |
| `ServerFlush` | one transaction | **violation** of `EndMeansSent`: a partial flush counts as success |
| `ClientConnection` | two transactions, two pooled connections, buffers of two units | `SentAtMostOnce`, `BooksAgree` (`TypeOK`, `AvailableIsBuffered`, `PooledBetweenMessages`), `KeepsContract` (the refinement of `HttpClientContract`) |
| `Http` (proxy) | one server connection, two client connections, three requests | `PointersAccountedFor`, `SomebodyMoves` (`TypeOK`, `OneSideMoves`, `NobodyWaitsForNobody`, `WaitsForSomeone`) |
| `Http` (wire) | two messages of nine, send buffer of 15, receive buffer of 5 octets | `ReceivedAsSent` (`RoundTrip`, `BodyInOrder`, `SameDestination`), `NobodyGivesUp` (`WireTypeOK`, `NoFalseAlarm`, `NobodyWaitsForMore`, `JamsOnlyAfterShortSend`) |
| `ProxyAnswers` | as `Http` | **violation** of `AnswersInOrder`: the server stream formats a response before it was given one |
| `ProxyPaused` | as `Http` | **violation** of `PausedForSomeone`: a refused request leaves its stream paused both ways |
| `Foundations` | thirteen components, one per behaviour | see below |
| `ServerTeardown` | the servers of `Foundations` | **violation** of `MultiplexerOutlivesItsThread`: the destructor of an abandoned server |

`Foundations`, `Queues` and `Http` are sums, not compositions: the parts share no state, so the MC module chooses one of
them in the initial state (`subject`) and leaves the others alone. Each behaviour is one of a single module. The components of
`Foundations`:

| Component | Instance | Properties |
|---|---|---|
| `FlatTimingWheel` | three timers, three buckets of two milliseconds, delays of up to three, more than two turns, jumps beyond a turn | `NeverEarly`, `NoneMissed` |
| `RedBlackMap` | seven keys, one with two values, an iterator | `MapIsSound` (`MapStaysBalanced`, `IteratorsSurvive`, `MapKeepsItsPromise`) |
| `Allocators` (buddy) | a pool of 16 units, requests of three sizes, a failover block | `AllocatorsAreSound` (`PoolIsPartitioned`, `BuddiesCoalesce`) |
| `Allocators` (arena) | chunks of four units, three chunks, requests up to more than a chunk | `AllocatorsAreSound` (`ArenaBlocksApart`) |
| `WildcardIndex` | four patterns of two domains in one bucket, two contexts, a buffer that overflows, six names asked for, two of them shorter than a pattern that takes them | `IndexIsSound` (`IndexIsAMap`, `HoldsWhatIsBelieved`, `RefsCountNames`), `HandshakeIsRight` |
| `ConnectionPool` | two sockets, two peers, two names, two contexts | `PoolIsSafe` (`ReusedConnectionFits`, `PooledIsReady`, `MemoryFits`) |
| `HttpServers` | two threads, two listeners, two connections | `ServerIsSound` (`OrderlyShutdown`, `StartedHasEveryMultiplexer`, `DescriptorsAreOwned`) |
| `HttpLoadgen` | two connections of two requests, seven kinds of disruption | `LoadIsAccountedFor` (`BodiesVerify`, `IterationsAreExact`) |
| `LinkedLists` | three nodes, every release may be refused | `ListsAreLinked` (`ListIsLinked`, `ChainIsLinked`) |
| `Locks` | four threads | `LocksKeepTheirPromise` (`WriterAlone`, `NobodyLeftWaiting`, `EveryPostWakes`) |
| `AstTree` | seven events, two keys, failing allocations | `TreeIsSound` (`TreeIsDocument`, `TraverseRebuilds`, `ElementsHaveAnOwner`) |
| `CompactStringMap` | four keys of two sizes, a buffer that grows | `CompactIsSound` (`RecordsFit`, `CompactKeepsItsPromise`) |
| `TimeSeries` | two windows, five ticks, four records in any order | `SeriesIsSound` (`WindowsInOrder`, `CountsAreExact`) |

Why the bounds are enough to be interesting. Two sockets are needed for one callback to remove another socket
with a pending event, and two descriptors for a reuse that overlaps; `MaxCalls = 1` is per callback, and chains of
removals and batches bring further calls. The limit of two with three sockets exercises the full multiplexer. Three
buckets and jumps of four ticks make the cursor lap the wheel. With a limit of two and four threads, producers and
consumers block and are woken at once. Two workers let one sleep while the other runs or exits and two callers hold
unsent signals. Buffers of two units fill up with a response's header and body, or with what an earlier response
left behind, and four tokens hold a whole chunked request and the next one behind a short one. Two client transactions
let the second one meet what the first left in the pool. Three requests of the proxy let a client stream of the first still
be connecting while the third uses the context's memory. The receive buffer of the wire is shorter than most lines, so
every parse function is entered again in the middle, and the send buffer takes any piece but seldom two.
Seven keys make trees of black height two, with siblings and uncles of both colours on both sides; a pool of
16 units splits three times; a fixed buffer of eight octets holds one or two patterns, so that the third spills.

Deadlock is not checked: the clock and input bounds, a stopped multiplexer, a joined pool and a queue with
everyone blocked are all legal ends.

Fairness. `EpollMultiplexer`: weak fairness of the loop's own steps and of callbacks returning (the thread is scheduled
and no handler blocks; `epoll_wait` has a timeout). `SharedQueue`: of every thread's critical section, so a
mutex is eventually obtained; not of callers entering. `ThreadPool`: of the controlling thread, of signals already
owed, and of the workers; endless commands only return when stopped. `CommandSocket`: of registration, the loop and
the write that follows a queued command. Nothing is assumed of the network, of clients or of how often
operations are called.

## 4. The proofs

`EpollMultiplexerProofs`, for all sets of sockets and descriptors and all limits, from `ConstantsAssumption` only.
The inductive invariant `IInv` adds two things to the properties: where control can be (an I/O callback and a chain of
removals never overlap, the socket in hand stays active until it is evicted, events are only pending inside the
loop over them), and that pending events refer to active or dead sockets. The first makes removal always
find its socket, the second forbids reclaiming too early. `ListsAgree`, `RemovedStaysSilent`, `TypeCorrect` and
`NoUseAfterDestroy` follow. On top of it come four more invariants: the count (`CountCorrect`), timers of all but the socket
in hand (`IdleCorrect`), cache, kernel and wishes of all but the socket in hand and of those another socket changed (`InterestsCorrect`), and
ownership of objects (`ShutdownIsClean`). `InterestsCorrect` is about the cache, not about the handlers: wants and the kernel's interests are
changed by different actions, `unannounced` holds the sockets whose wants were changed without an update, and the theorem says that an update always
brings a socket up to date and that nobody else falls behind (a skipped `epoll_ctl`, a cache entry of an earlier socket on the
descriptor). `WaitingIsSafe` adds that the unannounced ones have a timer like all others, so they are idled out at the latest.

`FlatTimingWheelProofs`, for every wheel size, tick length and set of delays, assuming `Regular`: the clock moves forward and
does not reach the wrap. The second assumption is needed: with a `Word` so small that the clock wraps, TLC finds a timer that is never
returned (the comparisons of ticks know no wrap; see the hazards). The invariant says that the cursor, the captured
time and the clock are ordered, that every timer lies within one turn of the cursor and that its tick is the
tick asked for; `IdxInjective` turns "within one turn" into "no other tick in this bucket".

`HttpCommandSocketProofs`, for any number of threads and commands. `Sync` is the heart: queue length = counter +
iterations left + threads between their critical section and their write. With it the reader never finds
fewer commands than it counted, and with `DeadAgrees` nothing is left in a removed socket's queue.

`FoundationsProofs` first has three arguments by counting, for any number of threads. *The queue* (any items, any limit): while a consumer
sleeps, at least as many consumers are woken as there are items, less the wakeups that failed pops have used up (`failed`); a push adds one to
both sides, and a woken consumer that runs takes one from both, or fails and is counted. So a failed `popFront` of a woken consumer and a `clear()`
of a full list (`missed`; half-way failures of `clear()` included) are shown to be the only ways to lose a wakeup; that the second does lose it is
the run `QueueClear`. The producers' half needs that the list never exceeds the limit, or the test for "full" in `pop` could
be jumped over. *The locks*: `CountersAreExact` says that `readersActive`, `writersActive`, `readersWaiting` and `writersWaiting` are the
numbers of threads that do so; the releases decide by these counters, so `WriterAlone` and `NobodyLeftWaiting` are not
inductive without it. `OneMoves` and `AllMove` say how a signal and a broadcast change the numbers; spurious wakeups and failed waits are
included. *The load generator* (any threads, connections, requests, sizes and disruptions): of each transaction the octets under
way are the letters the receiver expects next and fill the gap between the two sides' counts (`Orderly`); of the whole, an iteration taken
off the counter is completed, running or lost (`Counted`), idle slots were not seeded (`UnseededIdle`), and a seeded slot is given up
only when no iteration is left or one was lost (`SeededBusy`), without which the end of all transactions would not mean that the
generator has finished. `resubmitted` clears the counts of a context before it is passed on, and the proof needs that.

`FoundationsProofs` then has six results on what is built of single calls, without a bound on how many are made.
*The server* (any number of threads, listeners and connections; `ServerInvariance`, `ServersAreSound`): `CallsInOrder` ties the state of the
server to the state of its pool and to how many multiplexers `start()` has made, `ThreadsRunLive` says that a thread is in `run()` only while
the pool has not been joined; without both, main's own `destroy()` could meet a running thread. `destroy()` tests nothing itself, as with `NDEBUG`: that it
comes after `join()` is main's order of calls, and where main returns early instead the destructor calls it in any state. The
theorem says what still holds then (descriptors, the list of a started server); that the multiplexers do not is the run `ServerTeardown`. *The lists* (any set of nodes; `ListInvariance`,
`ListsStayLinked`): `Threaded` gives every pointer from the sequence the caller believes in, and the lemmas say what linking and unlinking
does to such pointers, at the ends and in between; a list left `torn` by a refused release is excepted, as in the property.
*The matcher* (`WildcardMatchIsExact`, any alphabet and length): for a pattern with at most one `*` (`AtMostOneStar`, which the code asserts) and any
name the two loops accept exactly the set `Accepts`. It is larger than what a pattern means (`Matches`): the theorem adds that nothing meant is refused,
and that for a name at least as long as the pattern nothing else is accepted. For shorter names something is; section 5 says what. *The pool* (any slots, peers, names, certificates and contexts; `PoolInvariance`, `PoolsAreSafe`): a slot is on at
most one of the lists and belongs to nobody when it is on one (else memory would be given twice), a TLS socket on which an exchange was completed
had a session, and a pooled one has kept the certificate it is compared by. *The compact map* (any keys and sizes; `CompactInvariance`,
`CompactMapsAreSound`): records are adjacent, keys unique, and together they stand for the pairs promised; the last part is what makes an
update that fits and one that does not mean the same. *The series* (any number and size of windows; `SeriesInvariance`,
`SeriesAreSound`): there are places `p[0] =< p[1] =< ...` in the sequence of all recordings such that the i-th window counted exactly those between
`p[i-1]` and `p[i]`; dropping the oldest window drops `p[0]`, opening one repeats the last place.

Where these proofs need an induction over data they take the least number for which the claim fails (lemma `Least`, from the well-foundedness of
`<` on the naturals) and contradict it. This is why the loops of the matcher and of `queries()`, the records' places and `RemoveFirst` of the
lists are written without recursion.

`ThreadPoolProofs`, for any number of workers, callers and commands. Three arguments meet: a count for `NoLostSignal` (as for the
queue, plus the signals a caller still has to send after it left the critical section), `Owned` (the places a command can be in
are disjoint, from which `OneOwner` follows without counting), and `Control` (which workers exist at each place of the controlling
thread), which `NoThreadOutlivesPool` needs because `join` walks the workers one by one.

`HttpServerSocketProofs`, for all buffer sizes and bodies. `RequestsInStep` alone is not inductive: it speaks of the moment a request
starts. `Stream` says it of every moment: as long as the connection may be reused, the tokens in the receive buffer lead the
client from where the parser is to where the client is (`Path`, with the client's places between the tokens as witness, so that no
recursion is needed). `Offered` ties the flags and the announced end of the body to the state, `FrameAgrees` and `Buffered` the running
call, the response and the send buffer.

`HttpClientSocketProofs`, for all sizes of buffers, bodies and pool. `Attempted` and `Flagged` carry `SentAtMostOnce`: bytes have left on the
last connection only, and on none as long as it may be a stale one, so the retry repeats nothing. `Stream` and `Pooled` carry
`BooksAgree`. `ImplementsContract` is the refinement. The contract's phase is `told`, which the callbacks set, not the code's state; that the two go together is an
invariant of the proof, and the retry, which changes state and connection without the handler hearing of it, is where it could fail. Initial states of `HttpClientSocket` are initial states of `HttpClientContract`, and every
step is a step of the contract or a stutter (the contract states no fairness, so this is all of `KeepsContract`).

`HttpRoutingProxyProofs`, for any number of client sockets and requests, any nesting of calls, any retries and refusals
(`PointersAreAccountedFor`). The pointers need two facts about control. `EndsAtOnce`: a server stream in `TRANSACTION_END` that the context still points at
is the stream that is running; `handleRemove` skips `endTransaction` in that state, so a stream removed there is left in the context, which only a
stop can bring about. And the stream whose event is handled is in the multiplexer until the event ends, so a removal ends a transaction that was
begun. `Replaced` carries the retry: a serving context that points at a socket that has not begun is that of a refused request, or another
stream is on its way to take the place. The property names the three cases in which the pointer is not that of a begun stream, and they are the
code's (section 5).

Assumptions. Each module proves from the named assumptions of the module it extends (constants are numbers, sets are finite, `NULL` is not an
element) and from nothing else but `Regular` of the wheel.

Model-checked only, and why:

* liveness (`StopsEventually`, `BlockedPopServed`, `PoolProgress`, `QueuedCommandsLeave`): fairness is out of the prover's reach;
* `SomebodyMoves` of `HttpRoutingProxy`: backpressure needs to know what every suspended call may rely on when the call it made returns, an invariant
  over the whole stack of calls that has yet to be found for streams that retry and stop (section 6);
* `ReceivedAsSent` and `NobodyGivesUp` of `HttpWire`, `MapIsSound`, `AllocatorsAreSound`, `TreeIsSound`, and `IndexIsSound` and `HandshakeIsRight` of
  `WildcardIndex`: the text modules, the tree of the map, the splitting of a buddy pool, the document and the names of a certificate are recursive over
  their data, and what a recursive definition computes for every input cannot be proved here (of the index, the matching of one pattern is:
  `WildcardMatchIsExact`).

## 5. What the models found

Five runs fail on purpose. Each checks what the code or its interface says of itself:

* `ServerFlush`: a response whose last part does not fit the kernel's buffer is reported as sent, although the handler's interface says
  that the response is sent when the transaction ends; if the connection is not reused the rest is lost.
* `QueueClear`: a `push()` that was blocked when somebody cleared the full queue sleeps on beside an empty list.
* `ProxyAnswers`: the proxy pauses the server stream "until we get the response from the client transaction", and resumes it earlier to read more of the
  request; it may then format a response that has not come.
* `ProxyPaused`: a request whose client transaction cannot be executed leaves its stream paused in both directions with nobody to resume it.
* `ServerTeardown`: after a failed `start()` or `addListener()` main returns, and the destructor destroys the multiplexers under their threads.

Other places where the code does less than one would expect. Where a model reaches one it is modelled as it is, and the property names
it (fields such as `unannounced`, `missed`, `failed`, `broken`, `stray`, `torn`, `stranded`, `jammed`, `cancelled`, `lost` mark them):

| Place | What the code does |
|---|---|
| `ESBFlatTimingWheel.cpp:68` | after 49.7 days ticks wrap, and a timer set before the wrap may never be returned |
| `ESBSharedQueue.cpp:185`, `:239` | a woken consumer whose `popFront` fails returns the error and loses the wakeup of an item that stays |
| `ESBEpollMultiplexer.cpp:357`, `:370` | after a timeout dead sockets are not reclaimed until the next event; after too many errors `run()` returns without `destroy()` |
| `ESBEpollMultiplexer.cpp:107` | the cache has `_maxSockets` entries and is indexed by descriptor (`:210`, `:251`, `:287`); it is in bounds because `_maxSockets` is the limit on descriptors wherever a multiplexer is made |
| `ESHttpServerSocket.cpp:271`, `ESHttpClientSocket.cpp:305` | calls of another socket change what a connection wants without an update; the flag `SERVER_UPDATE_MULTIPLEXER` is never read, so the kernel's interests stay stale until the next event |
| `ESHttpServerSocket.cpp:441` | a multiplexer stopped exactly before `stateEndTransaction` closes the connection without `endTransaction` |
| `ESHttpServerSocket.cpp:996` | a full buffer of unread body is taken for a jammed parser |
| `ESHttpClientSocket.cpp:907` | a partial flush of the request counts as success here too: `endRequest` comes although the handler's interface says "request body has been fully sent" (`ESHttpClientHandler.h:102`) |
| `ESHttpClientSocket.cpp:798` | the trailer of a chunked response stays on the pooled connection |
| `ESHttpMessageFormatter.cpp:41` | a client transaction that is retried keeps its formatter: once the headers were formatted the retry ends in `ESB_INVALID_STATE`, and if they were formatted in part, it sends the other part only |
| `ESHttpClientSocketFactory.cpp:146` | a pooled connection has begun its transaction when `addMultiplexedSocket` fails (`:168`); it is released without `endTransaction`, although the interface promises it regardless of success (`ESHttpClientHandler.h:112`), and the context keeps its pointer |
| `ESHttpRoutingProxyHandler.cpp:116` | while a retry connects, the context points at the socket that was removed; a client stream still connecting when its server stream is lost is paired with the request that uses the context's memory next |
| `ESHttpRoutingProxyHandler.cpp:196` | the proxy's own refusals (`sendEmptyResponse`) are stored and not sent; if more of the body comes, `consumeRequestBody` asserts a client stream there is none of |
| `ESHttpRoutingProxyHandler.cpp:69` | a failed route leaks the client transaction made for it |
| `ESHttpMessageParser.cpp:650`, `ESHttpResponseParser.cpp:227` | every connection is taken for reusable; every status of 200 and more for one without a body that ends with the connection |
| `ESHttpProxyMultiplexer.cpp:373` | when no socket object can be had, `addServerSocket` returns without closing the accepted descriptor |
| `ESHttpServer.cpp:112` | a `start()` that fails half-way leaves threads that nothing stops or joins |
| `ESBMap.cpp:501` | erasing the root also writes the sentinel, which `minimumIterator()` of an empty map follows |
| `ESBList.cpp:133` | a pop whose release fails puts back one end of a one-node list only |
| `ESBString.cpp:83` | the two loops of the wildcard match do not know of each other: `ba*ar` takes `bar`, and as an exact match; the loop from the end does not compare the name's first character, so `*bar` takes `car` (the comment at `:130` means `bar`) |
| `ESBWildcardIndex.cpp:509` | bucket locks are unnamed temporaries |
| `ESBWildcardIndex.cpp:162` | `insert()` with `updateIfExists` of an entry in the second buffer writes to the wrong place; no caller but a test passes it (`ESBWildcardIndexTest.cpp:160`) |
| `ESBWildcardIndex.cpp:620` | `match()` gives up when the fixed buffer has become empty, whatever is in the second |
| `ESBServerTLSContextIndex.cpp:88` | when a name of the default context cannot be indexed, no SNI callback is installed and all sessions keep the default context |
| `ESBBuddyCacheAllocator.cpp:27` | a block of the failover allocator is not freed when there is no pool |
| `ESBConnectionPool.cpp:196` | `connected()` is asked twice and may have changed in between |
| `ASTTree.cpp:288` | a key that a map refuses has no owner |
| `ESHttpLoadgenHandler.cpp:132` | a transaction that cannot be resubmitted takes its iteration with it, and `IsFinished()` is never reached |
| `ESHttpLoadgenContext.h:31` | the comment promises the value before the decrement, the code returns the one after it; the callers count on the latter (`0 > DecRemainingIterations()`) |

The load generator divides its connections by its threads. `HttpTestParams::override` rounds the connections up to a multiple of the threads first
(`ESHttpTestParams.cpp:232`), so the program's defaults (one connection, three threads) seed one each; `IterationsAreExact` asks for at least one a thread.

## 6. What is left to do

1. `SomebodyMoves` of the proxy for any number of streams. The invariant has to say of each suspended call in which phases its caller can still be when
   it returns, who holds the context for which request, and that these survive a retry and, once a stop was asked for, need not.
2. The red-black map and the buddy allocator for any size, by a ranking of nodes or blocks instead of recursion, as was done for the lists.
3. Abstract specifications still to be stated, with their refinements: a reliable mailbox that `HttpCommandSocket` implements, a bounded buffer
   that `SharedQueue` implements.

## 7. Not modelled

* Plugins and filters, logging, time sources, addresses and the name service: no state, or output only.
* Wrappers that forward to the system: `Mutex`, `SystemAllocator`, `SharedAllocator`, the locks where the platform has its own, the
  loading of keys and certificates.
* Configuration entities (`ESEntity`, `ESAction`, `ESCondition`): they read fields of a finished tree; `ConfigIngest::process` is empty and
  nothing calls the functions that build them.
* Floating point statistics and the printing of counters.
* The programs' `main`, parameters and usage texts; the tests.
* Inside the models: a released connection that the pool's map refuses (it is closed, as one that may not be kept), descriptor numbers beyond their identity, which `errno` is reported, memory that fails inside the buffer pools and
  factories, the eventfd's 64 bit limit, `WANT_READ`/`WANT_WRITE` of TLS (they steer only when the loop calls), several threads inside
  one `WildcardIndex`.

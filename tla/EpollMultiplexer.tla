-------------------------- MODULE EpollMultiplexer --------------------------
(***************************************************************************)
(* The event loop of base/source/ESBEpollMultiplexer.cpp: one thread that  *)
(* waits on epoll, hands each ready socket to a callback of its            *)
(* MultiplexedSocket, expires idle sockets, and reclaims removed sockets   *)
(* between batches of events.                                              *)
(*                                                                         *)
(* The callbacks are the environment.  While one runs it may call back     *)
(* into the multiplexer: it adds sockets (an accepted connection, a new    *)
(* client connection), updates the readiness interests of any active       *)
(* socket (pauseRecv, resumeSend, ...) and, from handleRemove only, aborts *)
(* a peer by removing it (HttpServerStream::abort and                      *)
(* HttpClientStream::abort are only called by endTransaction, which ends   *)
(* in an abort only when handleRemove calls it).  The call stack is        *)
(* therefore either one I/O callback or a chain of handleRemove calls.     *)
(*                                                                         *)
(* Descriptors are small integers the kernel reuses as soon as they are    *)
(* closed; socket objects are reused as soon as they are destroyed.        *)
(***************************************************************************)
EXTENDS Integers, Sequences, FiniteSets

CONSTANTS Sockets,      \* the socket objects
          Listeners,    \* the listening sockets (wantAccept)
          Permanent,    \* permanent(): never idle (listeners, command sockets)
          NoCleanup,    \* cleanupHandler() is NULL (command sockets)
          Fds,          \* the descriptors the kernel hands out
          MaxSockets,   \* _maxSockets
          IdleTimeout,  \* 0 < _idleTimeoutMsec
          ErrorLimit,   \* epoll_wait errors in a row the loop survives (10)
          MaxCalls,     \* bound: add and update calls of one callback
          NoFd,         \* INVALID_SOCKET
          NoSocket      \* no socket is being processed

ASSUME ConstantsAssumption ==
    /\ Listeners \subseteq Permanent
    /\ Permanent \subseteq Sockets
    /\ NoCleanup \subseteq Permanent
    /\ IsFiniteSet(Sockets)
    /\ MaxSockets \in Nat \ {0}
    /\ IdleTimeout \in BOOLEAN
    /\ ErrorLimit \in Nat
    /\ MaxCalls \in Nat
    /\ NoFd \notin Fds
    /\ NoSocket \notin Sockets

VARIABLES
    \* state of the multiplexer
    active,      \* _activeSockets
    count,       \* _activeSocketCount
    deadList,    \* _deadSockets
    timers,      \* sockets whose timer is in _timingWheel
    cache,       \* _eventCache: the interests last given to epoll_ctl
    events,      \* the part of _events the loop has not looked at yet
    errorCount,  \* consecutive epoll_wait errors
    \* state of the kernel
    interest,    \* the epoll set: descriptor -> interests
    registered,  \* the descriptors in the epoll set
    \* state of the socket objects
    live,        \* objects that are constructed and not yet destroyed
    deadFlag,    \* markDead() was called
    fd,          \* socketDescriptor()
    mode,        \* "accept", "connect" or "data": wantAccept, wantConnect
    want,        \* wantRead, wantWrite of a "data" socket
    unannounced, \* history: active sockets whose wants another socket's call
                 \* changed and which the multiplexer has not looked at since
    \* control state of run()
    pc,          \* where the loop is
    cur,         \* the socket of the current event or idle timer
    curMask,     \* the readiness events of the current event
    cb,          \* the I/O callback that is running, "none" otherwise
    removing,    \* the chain of running handleRemove calls, innermost first
    calls,       \* add and update calls since the callback started
    running      \* *_isRunning

listVars    == <<active, count, deadList, timers>>
kernelVars  == <<interest, registered, cache, unannounced>>
objectVars  == <<live, deadFlag, fd, mode, want>>
controlVars == <<pc, cur, curMask, cb, removing, calls>>
vars == <<listVars, kernelVars, objectVars, controlVars, events, errorCount, running>>

Readiness == {"IN", "OUT"}
Interests == SUBSET {"IN", "OUT", "ET"}
Masks == {{"ERR"}, {"HUP"}, {"IN"}, {"OUT"}, {"IN", "OUT"}}
Callbacks == {"none", "handleAccept", "handleConnect", "handleReadable",
              "handleWritable", "handleError", "handleRemoteClose", "handleIdle"}
Locations == {"start", "top", "check", "evictIdle", "wait", "loop", "post",
              "evict", "destroy", "stopped", "failed"}

(***************************************************************************)
(* No callback is running: control is in run() itself.                     *)
(***************************************************************************)
InLoop == cb = "none" /\ removing = <<>>

(***************************************************************************)
(* A callback is running, or the application is still setting up.          *)
(***************************************************************************)
InCallback == ~InLoop \/ pc = "start"

(***************************************************************************)
(* The interests computed from wantAccept, wantConnect, wantRead and       *)
(* wantWrite.                                                              *)
(***************************************************************************)
Wanted(m, w) ==
    CASE m = "accept"  -> {"IN"}
      [] m = "connect" -> {"IN", "OUT"}
      [] OTHER         -> w

Init ==
    /\ active = {} /\ count = 0 /\ deadList = {} /\ timers = {}
    /\ cache = [f \in Fds |-> {}]
    /\ interest = [f \in Fds |-> {}]
    /\ registered = {}
    /\ events = {} /\ errorCount = 0
    /\ live = {}
    /\ deadFlag = [s \in Sockets |-> FALSE]
    /\ fd = [s \in Sockets |-> NoFd]
    /\ mode = [s \in Sockets |-> "data"]
    /\ want = [s \in Sockets |-> {}]
    /\ unannounced = {}
    /\ pc = "start" /\ cur = NoSocket /\ curMask = {}
    /\ cb = "none" /\ removing = <<>> /\ calls = 0
    /\ running = TRUE

-----------------------------------------------------------------------------
(***************************************************************************)
(* Calls the sockets make into the multiplexer.                            *)
(***************************************************************************)

(***************************************************************************)
(* What a new socket wants: a listener accepts, a command socket reads, a  *)
(* client socket connects (or starts transmitting at once on a pooled      *)
(* connection), a server socket starts with an arbitrary interest.         *)
(***************************************************************************)
InitialWants(s) ==
    IF s \in Listeners THEN {<<"accept", {}>>}
    ELSE IF s \in Permanent THEN {<<"data", {"IN"}>>}
    ELSE {<<"connect", {}>>} \cup {<<"data", w>> : w \in SUBSET Readiness}

(***************************************************************************)
(* addMultiplexedSocket for a newly constructed socket s with descriptor f *)
(* succeeds.  The first registration is edge triggered.  The cache has     *)
(* _maxSockets entries and is indexed by descriptor: every caller passes   *)
(* RLIMIT_NOFILE, which bounds the descriptors as well.                    *)
(***************************************************************************)
AddMultiplexedSocket(s, f, m, w) ==
    /\ InCallback
    /\ calls < MaxCalls
    /\ s \notin live
    /\ \A t \in live : fd[t] # f
    /\ <<m, w>> \in InitialWants(s)
    /\ count + 1 <= MaxSockets
    /\ count' = count + 1
    /\ timers' = IF IdleTimeout /\ s \notin Permanent THEN timers \cup {s} ELSE timers
    /\ active' = active \cup {s}
    /\ registered' = registered \cup {f}
    /\ interest' = [interest EXCEPT ![f] = Wanted(m, w) \cup {"ET"}]
    /\ cache' = [cache EXCEPT ![f] = Wanted(m, w) \cup {"ET"}]
    /\ live' = live \cup {s}
    /\ deadFlag' = [deadFlag EXCEPT ![s] = FALSE]
    /\ fd' = [fd EXCEPT ![s] = f]
    /\ mode' = [mode EXCEPT ![s] = m]
    /\ want' = [want EXCEPT ![s] = w]
    /\ calls' = calls + 1
    /\ UNCHANGED <<deadList, unannounced, events, errorCount, pc, cur, curMask, cb, removing, running>>

(***************************************************************************)
(* Mutant: a failing epoll_ctl does not take the count back.               *)
(***************************************************************************)
AddMultiplexedSocketFails_KeepsCount(s, step) ==
    /\ InCallback
    /\ calls < MaxCalls
    /\ s \notin live
    /\ (step = "limit") = (count + 1 > MaxSockets)
    /\ step = "wheel" => IdleTimeout /\ s \notin Permanent
    /\ count' = IF step = "epoll" THEN count + 1 ELSE (count + 1) - 1
    /\ timers' = IF step = "epoll" THEN (timers \cup {s}) \ {s} ELSE timers
    /\ active' = IF step = "epoll" THEN (active \cup {s}) \ {s} ELSE active
    /\ calls' = calls + 1
    /\ UNCHANGED <<deadList, kernelVars, objectVars, events, errorCount,
                   pc, cur, curMask, cb, removing, running>>

(***************************************************************************)
(* addMultiplexedSocket fails at one of its three steps: the limit is      *)
(* reached, the timing wheel refuses the timer of a socket that may become *)
(* idle, or epoll_ctl refuses the descriptor after the socket was listed   *)
(* and timed.  The count is taken back in each of them; the caller         *)
(* releases the socket object.                                             *)
(***************************************************************************)
AddMultiplexedSocketFails(s, step) ==
    /\ InCallback
    /\ calls < MaxCalls
    /\ s \notin live
    /\ (step = "limit") = (count + 1 > MaxSockets)
    /\ step = "wheel" => IdleTimeout /\ s \notin Permanent
    /\ count' = (count + 1) - 1
    /\ timers' = IF step = "epoll" THEN (timers \cup {s}) \ {s} ELSE timers
    /\ active' = IF step = "epoll" THEN (active \cup {s}) \ {s} ELSE active
    /\ calls' = calls + 1
    /\ UNCHANGED <<deadList, kernelVars, objectVars, events, errorCount,
                   pc, cur, curMask, cb, removing, running>>

(***************************************************************************)
(* Mutant: interests are added, never dropped.                             *)
(***************************************************************************)
UpdateKernel_NeverDrops(s, m, w) ==
    /\ IF cache[fd[s]] # Wanted(m, w) /\ fd[s] \in registered
       THEN /\ interest' = [interest EXCEPT ![fd[s]] = @ \cup Wanted(m, w)]
            /\ cache' = [cache EXCEPT ![fd[s]] = @ \cup Wanted(m, w)]
       ELSE UNCHANGED <<interest, cache>>
    /\ unannounced' = unannounced \ {s}
    /\ UNCHANGED registered

(***************************************************************************)
(* updateMultiplexedSocket on s, whose mode and wants are m and w: tell    *)
(* the kernel only if the interests differ from the cached ones.           *)
(* EPOLL_CTL_MOD fails on a descriptor that is not in the epoll set.       *)
(***************************************************************************)
UpdateKernel(s, m, w) ==
    /\ IF cache[fd[s]] # Wanted(m, w) /\ fd[s] \in registered
       THEN /\ interest' = [interest EXCEPT ![fd[s]] = Wanted(m, w)]
            /\ cache' = [cache EXCEPT ![fd[s]] = Wanted(m, w)]
       ELSE UNCHANGED <<interest, cache>>
    /\ unannounced' = unannounced \ {s}
    /\ UNCHANGED registered

(***************************************************************************)
(* A callback pauses or resumes an active socket and updates it: the       *)
(* pauseRecv, resumeSend, ... of a stream with updateMultiplexer set.      *)
(***************************************************************************)
UpdateMultiplexedSocket(s, w) ==
    /\ ~InLoop
    /\ calls < MaxCalls
    /\ s \in active \ Permanent /\ mode[s] = "data"
    /\ want' = [want EXCEPT ![s] = w]
    /\ UpdateKernel(s, mode[s], w)
    /\ calls' = calls + 1
    /\ UNCHANGED <<listVars, live, deadFlag, fd, mode, events, errorCount,
                   pc, cur, curMask, cb, removing, running>>

(***************************************************************************)
(* A callback of another socket changes what s wants and nobody tells the  *)
(* multiplexer: it calls requestBodyAvailable, readRequestBody,            *)
(* sendResponse, sendResponseBody or a pause or resume without the flag,   *)
(* and advanceStateMachine never looks at (SERVER_)UPDATE_MULTIPLEXER.     *)
(***************************************************************************)
ChangeWants(s, w) ==
    /\ ~InLoop
    /\ calls < MaxCalls
    /\ s \in active \ Permanent /\ mode[s] = "data"
    /\ ~(cb # "none" /\ s = cur)
    /\ want' = [want EXCEPT ![s] = w]
    /\ unannounced' = unannounced \cup {s}
    /\ calls' = calls + 1
    /\ UNCHANGED <<listVars, interest, registered, cache, live, deadFlag, fd, mode,
                   events, errorCount, pc, cur, curMask, cb, removing, running>>

(***************************************************************************)
(* Mutant: the timer of a removed socket stays in the wheel.               *)
(***************************************************************************)
RemoveMultiplexedSocket_KeepsTimer(s) ==
    IF fd[s] \in registered
    THEN /\ registered' = registered \ {fd[s]}
         /\ interest' = [interest EXCEPT ![fd[s]] = {}]
         /\ cache' = [cache EXCEPT ![fd[s]] = {}]
         /\ active' = active \ {s}
         /\ UNCHANGED timers
         /\ count' = count - 1
         /\ deadList' = deadList \cup {s}
         /\ deadFlag' = [deadFlag EXCEPT ![s] = TRUE]
         /\ removing' = <<s>> \o removing
         /\ unannounced' = unannounced \ {s}
         /\ UNCHANGED <<live, fd, mode, want>>
    ELSE UNCHANGED <<listVars, kernelVars, objectVars, removing>>

(***************************************************************************)
(* removeMultiplexedSocket on s up to the call of s->handleRemove().       *)
(* EPOLL_CTL_DEL fails on a descriptor that is not in the epoll set, and   *)
(* then nothing else happens.                                              *)
(***************************************************************************)
RemoveMultiplexedSocket(s) ==
    IF fd[s] \in registered
    THEN /\ registered' = registered \ {fd[s]}
         /\ interest' = [interest EXCEPT ![fd[s]] = {}]
         /\ cache' = [cache EXCEPT ![fd[s]] = {}]
         /\ active' = active \ {s}
         /\ timers' = timers \ {s}
         /\ count' = count - 1
         /\ deadList' = deadList \cup {s}
         /\ deadFlag' = [deadFlag EXCEPT ![s] = TRUE]
         /\ removing' = <<s>> \o removing
         /\ unannounced' = unannounced \ {s}
         /\ UNCHANGED <<live, fd, mode, want>>
    ELSE UNCHANGED <<listVars, kernelVars, objectVars, removing>>

(***************************************************************************)
(* handleRemove of one socket aborts its peer.                             *)
(***************************************************************************)
AbortPeer(t) ==
    /\ removing # <<>>
    /\ t \in active \ Permanent
    /\ RemoveMultiplexedSocket(t)
    /\ UNCHANGED <<events, errorCount, pc, cur, curMask, cb, calls, running>>

(***************************************************************************)
(* handleRemove closes the descriptor (a server socket, or a client socket *)
(* that is not kept for the connection pool).                              *)
(***************************************************************************)
CloseDescriptor ==
    /\ removing # <<>>
    /\ Head(removing) \notin Permanent
    /\ fd[Head(removing)] # NoFd
    /\ fd' = [fd EXCEPT ![Head(removing)] = NoFd]
    /\ UNCHANGED <<listVars, kernelVars, live, deadFlag, mode, want, controlVars,
                   events, errorCount, running>>

HandleRemoveReturns ==
    /\ removing # <<>>
    /\ removing' = Tail(removing)
    /\ UNCHANGED <<listVars, kernelVars, objectVars, events, errorCount,
                   pc, cur, curMask, cb, calls, running>>

-----------------------------------------------------------------------------
(***************************************************************************)
(* run() and checkIdleSockets().                                           *)
(***************************************************************************)

Start ==
    /\ pc = "start"
    /\ pc' = "top"
    /\ UNCHANGED <<listVars, kernelVars, objectVars, events, errorCount,
                   cur, curMask, cb, removing, calls, running>>

(***************************************************************************)
(* Another thread clears the shared flag.                                  *)
(***************************************************************************)
Stop ==
    /\ running
    /\ running' = FALSE
    /\ UNCHANGED <<listVars, kernelVars, objectVars, controlVars, events, errorCount>>

(***************************************************************************)
(* Mutant: the shared flag is not read.                                    *)
(***************************************************************************)
LoopTop_IgnoresStop ==
    /\ pc = "top" /\ InLoop
    /\ pc' = "check"
    /\ UNCHANGED <<listVars, kernelVars, objectVars, events, errorCount,
                   cur, curMask, cb, removing, calls, running>>

LoopTop ==
    /\ pc = "top" /\ InLoop
    /\ pc' = IF running THEN "check" ELSE "destroy"
    /\ UNCHANGED <<listVars, kernelVars, objectVars, events, errorCount,
                   cur, curMask, cb, removing, calls, running>>

(***************************************************************************)
(* checkIdleSockets: nextExpired takes an expired timer out of the wheel   *)
(* and handleIdle is called on its socket.                                 *)
(***************************************************************************)
CheckIdleSockets(s) ==
    /\ pc = "check" /\ InLoop
    /\ s \in timers
    /\ timers' = timers \ {s}
    /\ cur' = s
    /\ cb' = "handleIdle"
    /\ calls' = 0
    /\ UNCHANGED <<active, count, deadList, kernelVars, objectVars, events, errorCount,
                   pc, curMask, removing, running>>

NoIdleSockets ==
    /\ pc = "check" /\ InLoop
    /\ pc' = "wait"
    /\ UNCHANGED <<listVars, kernelVars, objectVars, events, errorCount,
                   cur, curMask, cb, removing, calls, running>>

(***************************************************************************)
(* epoll_wait returns a batch of events.  ERR and HUP are always reported; *)
(* IN and OUT only when the kernel was asked for them.                     *)
(***************************************************************************)
ReadyMasks(s) ==
    {{"ERR"}, {"HUP"}} \cup ((SUBSET (interest[fd[s]] \cap Readiness)) \ {{}})

EpollWaitReturnsEvents(ready) ==
    /\ pc = "wait" /\ InLoop
    /\ ready # {} /\ ready \subseteq {s \in active : fd[s] \in registered}
    /\ \E mask \in [ready -> Masks] :
          /\ \A s \in ready : mask[s] \in ReadyMasks(s)
          /\ events' = {[sock |-> s, mask |-> mask[s]] : s \in ready}
    /\ errorCount' = 0
    /\ pc' = "loop"
    /\ UNCHANGED <<listVars, kernelVars, objectVars, cur, curMask, cb, removing, calls, running>>

(***************************************************************************)
(* epoll_wait times out or is interrupted: back to the top of the loop,    *)
(* past the loop that reclaims dead sockets.                               *)
(***************************************************************************)
EpollWaitTimesOut ==
    /\ pc = "wait" /\ InLoop
    /\ pc' = "top"
    /\ UNCHANGED <<listVars, kernelVars, objectVars, events, errorCount,
                   cur, curMask, cb, removing, calls, running>>

EpollWaitFails ==
    /\ pc = "wait" /\ InLoop
    /\ IF errorCount >= ErrorLimit
       THEN pc' = "failed" /\ UNCHANGED errorCount
       ELSE pc' = "top" /\ errorCount' = errorCount + 1
    /\ UNCHANGED <<listVars, kernelVars, objectVars, events,
                   cur, curMask, cb, removing, calls, running>>

(***************************************************************************)
(* An event for a socket that an earlier event of this batch removed.      *)
(***************************************************************************)
SkipDeadSocket(e) ==
    /\ pc = "loop" /\ InLoop
    /\ e \in events /\ deadFlag[e.sock]
    /\ events' = events \ {e}
    /\ UNCHANGED <<listVars, kernelVars, objectVars, controlVars, errorCount, running>>

(***************************************************************************)
(* The callback that run() chooses for a socket and an event mask; "none"  *)
(* if the event asks for nothing.  An EPOLLIN event on a connecting socket *)
(* is decided by the number of bytes the socket has.                       *)
(***************************************************************************)
Dispatch(s, mask) ==
    CASE mode[s] = "accept" ->
           IF "ERR" \in mask THEN {"handleError"}
           ELSE IF "IN" \in mask THEN {"handleAccept"} ELSE {"none"}
      [] mode[s] = "connect" ->
           IF "ERR" \in mask THEN {"handleError"}
           ELSE IF "HUP" \in mask THEN {"handleRemoteClose"}
           ELSE IF "IN" \in mask THEN {"handleError", "handleRemoteClose", "handleConnect"}
           ELSE {"handleConnect"}
      [] OTHER ->
           IF "ERR" \in mask THEN {"handleError"}
           ELSE IF "HUP" \in mask THEN {"handleRemoteClose"}
           ELSE IF "IN" \in (mask \cap want[s]) THEN {"handleReadable"}
           ELSE IF "OUT" \in (mask \cap want[s]) THEN {"handleWritable"}
           ELSE {"none"}

(***************************************************************************)
(* Mutant: the dead flag is not tested.                                    *)
(***************************************************************************)
HandleEvent_NoDeadCheck(e) ==
    /\ pc = "loop" /\ InLoop
    /\ e \in events
    /\ events' = events \ {e}
    /\ cur' = e.sock
    /\ curMask' = e.mask
    /\ cb' \in Dispatch(e.sock, e.mask)
    /\ pc' = "post"
    /\ calls' = 0
    /\ UNCHANGED <<listVars, kernelVars, objectVars, errorCount, removing, running>>

HandleEvent(e) ==
    /\ pc = "loop" /\ InLoop
    /\ e \in events /\ ~deadFlag[e.sock]
    /\ events' = events \ {e}
    /\ cur' = e.sock
    /\ curMask' = e.mask
    /\ cb' \in Dispatch(e.sock, e.mask)
    /\ pc' = "post"
    /\ calls' = 0
    /\ UNCHANGED <<listVars, kernelVars, objectVars, errorCount, removing, running>>

(***************************************************************************)
(* handleAccept returns ESB_AGAIN and is called again, ESB_SUCCESS and the *)
(* listener is kept, or an error and the listener is removed.              *)
(***************************************************************************)
HandleAcceptReturns(result) ==
    /\ cb = "handleAccept"
    /\ CASE result = "AGAIN"   -> calls < MaxCalls /\ calls' = calls + 1 /\ UNCHANGED <<cb, pc>>
         [] result = "SUCCESS" -> cb' = "none" /\ UNCHANGED <<pc, calls>>
         [] OTHER              -> cb' = "none" /\ pc' = "evict" /\ UNCHANGED calls
    /\ UNCHANGED <<listVars, kernelVars, objectVars, events, errorCount,
                   cur, curMask, removing, running>>

(***************************************************************************)
(* handleError, handleRemoteClose and handleIdle return nothing: the       *)
(* socket is removed.                                                      *)
(***************************************************************************)
HandleFailureReturns ==
    /\ cb \in {"handleError", "handleRemoteClose", "handleIdle"}
    /\ cb' = "none"
    /\ pc' = IF pc = "check" THEN "evictIdle" ELSE "evict"
    /\ UNCHANGED <<listVars, kernelVars, objectVars, events, errorCount,
                   cur, curMask, removing, calls, running>>

(***************************************************************************)
(* handleConnect, handleReadable or handleWritable returns; the socket now *)
(* wants w.  A readable socket that is kept and wants to write is then     *)
(* told it is writable if this event says so.                              *)
(***************************************************************************)
HandleIoReturns(keep, w) ==
    /\ cb \in {"handleConnect", "handleReadable", "handleWritable"}
    /\ cur \in Permanent => w = want[cur]
    /\ want' = [want EXCEPT ![cur] = w]
    /\ mode' = IF cb = "handleConnect" THEN [mode EXCEPT ![cur] = "data"] ELSE mode
    /\ IF keep /\ cb = "handleReadable" /\ "OUT" \in (curMask \cap w)
       THEN cb' = "handleWritable" /\ calls' = 0 /\ UNCHANGED pc
       ELSE /\ cb' = "none"
            /\ pc' = IF keep THEN "post" ELSE "evict"
            /\ UNCHANGED calls
    /\ UNCHANGED <<listVars, kernelVars, live, deadFlag, fd, events, errorCount,
                   cur, curMask, removing, running>>

(***************************************************************************)
(* The socket of the current event is kept: restart its idle timer and     *)
(* refresh its interests.  If the new expiry is already past the timer     *)
(* leaves the wheel and the socket is idle; if it is too far ahead, or the *)
(* wheel is unusable, the socket is removed.                               *)
(***************************************************************************)
KeepSocket(wheel) ==
    /\ pc = "post" /\ InLoop
    /\ IF cur \in Permanent \/ ~IdleTimeout
       THEN /\ UpdateKernel(cur, mode[cur], want[cur])
            /\ pc' = "loop"
            /\ UNCHANGED <<timers, cb, calls>>
       ELSE CASE wheel = "SUCCESS" ->
                   /\ timers' = timers \cup {cur}
                   /\ UpdateKernel(cur, mode[cur], want[cur])
                   /\ pc' = "loop"
                   /\ UNCHANGED <<cb, calls>>
              [] wheel = "UNDERFLOW" ->
                   /\ timers' = timers \ {cur}
                   /\ cb' = "handleIdle"
                   /\ calls' = 0
                   /\ UNCHANGED <<kernelVars, pc>>
              [] OTHER ->
                   /\ pc' = "evict"
                   /\ UNCHANGED <<timers, kernelVars, cb, calls>>
    /\ UNCHANGED <<active, count, deadList, objectVars, events, errorCount,
                   cur, curMask, removing, running>>

(***************************************************************************)
(* The loop removes the socket it has just processed.                      *)
(***************************************************************************)
Evict ==
    /\ pc \in {"evict", "evictIdle"} /\ InLoop
    /\ RemoveMultiplexedSocket(cur)
    /\ pc' = IF pc = "evict" THEN "loop" ELSE "check"
    /\ cur' = NoSocket
    /\ calls' = 0
    /\ UNCHANGED <<events, errorCount, curMask, cb, running>>

(***************************************************************************)
(* The cleanup handlers destroy the objects; a socket without one is only  *)
(* taken off the list.                                                     *)
(***************************************************************************)
ReapDeadSockets ==
    /\ live' = live \ (deadList \ NoCleanup)
    /\ fd' = [s \in Sockets |-> IF s \in deadList \ NoCleanup THEN NoFd ELSE fd[s]]
    /\ deadFlag' = [s \in Sockets |-> deadFlag[s] /\ s \notin deadList \ NoCleanup]
    /\ mode' = [s \in Sockets |-> IF s \in deadList \ NoCleanup THEN "data" ELSE mode[s]]
    /\ want' = [s \in Sockets |-> IF s \in deadList \ NoCleanup THEN {} ELSE want[s]]
    /\ deadList' = {}

(***************************************************************************)
(* Mutant: dead sockets are destroyed between two events of a batch.       *)
(***************************************************************************)
Reap_AfterEachEvent ==
    /\ pc = "loop" /\ InLoop
    /\ ReapDeadSockets
    /\ pc' = "top"
    /\ UNCHANGED <<active, count, timers, kernelVars, events, errorCount,
                   cur, curMask, cb, removing, calls, running>>

(***************************************************************************)
(* The batch is finished.                                                  *)
(***************************************************************************)
Reap ==
    /\ pc = "loop" /\ InLoop
    /\ events = {}
    /\ ReapDeadSockets
    /\ pc' = "top"
    /\ UNCHANGED <<active, count, timers, kernelVars, events, errorCount,
                   cur, curMask, cb, removing, calls, running>>

(***************************************************************************)
(* destroy(): remove every active socket, then clear the lists.            *)
(***************************************************************************)
DestroyRemove(s) ==
    /\ pc = "destroy" /\ InLoop
    /\ s \in active
    /\ RemoveMultiplexedSocket(s)
    /\ calls' = 0
    /\ UNCHANGED <<events, errorCount, pc, cur, curMask, cb, running>>

(***************************************************************************)
(* Mutant: the dead sockets are not cleared.                               *)
(***************************************************************************)
DestroyFinish_KeepsDead ==
    /\ pc = "destroy" /\ InLoop
    /\ active = {}
    /\ timers' = {}
    /\ UNCHANGED <<deadList, objectVars>>
    /\ pc' = "stopped"
    /\ UNCHANGED <<active, count, kernelVars, events, errorCount,
                   cur, curMask, cb, removing, calls, running>>

DestroyFinish ==
    /\ pc = "destroy" /\ InLoop
    /\ active = {}
    /\ timers' = {}
    /\ ReapDeadSockets
    /\ pc' = "stopped"
    /\ UNCHANGED <<active, count, kernelVars, events, errorCount,
                   cur, curMask, cb, removing, calls, running>>

-----------------------------------------------------------------------------
Callback ==
    \/ \E s \in Sockets, f \in Fds, m \in {"accept", "connect", "data"}, w \in SUBSET Readiness :
          AddMultiplexedSocket(s, f, m, w)
    \/ \E s \in Sockets, step \in {"limit", "wheel", "epoll"} : AddMultiplexedSocketFails(s, step)
    \/ \E s \in Sockets, w \in SUBSET Readiness : UpdateMultiplexedSocket(s, w)
    \/ \E s \in Sockets, w \in SUBSET Readiness : ChangeWants(s, w)
    \/ \E t \in Sockets : AbortPeer(t)
    \/ CloseDescriptor

Return ==
    \/ HandleRemoveReturns
    \/ \E r \in {"AGAIN", "SUCCESS", "ERROR"} : HandleAcceptReturns(r)
    \/ HandleFailureReturns
    \/ \E keep \in BOOLEAN, w \in SUBSET Readiness : HandleIoReturns(keep, w)

Wait ==
    \/ \E ready \in SUBSET Sockets : EpollWaitReturnsEvents(ready)
    \/ EpollWaitTimesOut
    \/ EpollWaitFails

Loop ==
    \/ Start
    \/ LoopTop
    \/ \E s \in Sockets : CheckIdleSockets(s)
    \/ NoIdleSockets
    \/ Wait
    \/ \E e \in events : SkipDeadSocket(e)
    \/ \E e \in events : HandleEvent(e)
    \/ \E r \in {"SUCCESS", "UNDERFLOW", "OVERFLOW"} : KeepSocket(r)
    \/ Evict
    \/ Reap
    \/ \E s \in Sockets : DestroyRemove(s)
    \/ DestroyFinish

Next == Callback \/ Return \/ Loop \/ Stop

Spec == Init /\ [][Next]_vars

(***************************************************************************)
(* The loop's thread keeps running and callbacks do not block: they return.*)
(***************************************************************************)
Fairness == WF_vars(Return) /\ WF_vars(Loop)
FairSpec == Spec /\ Fairness

-----------------------------------------------------------------------------
(***************************************************************************)
(* Properties                                                              *)
(***************************************************************************)

(***************************************************************************)
(* Types of the variables; in particular the error count of run() never    *)
(* passes the limit at which the loop gives up.                            *)
(***************************************************************************)
TypeOK ==
    /\ active \subseteq Sockets /\ deadList \subseteq Sockets /\ timers \subseteq Sockets
    /\ count \in Int
    /\ cache \in [Fds -> Interests] /\ interest \in [Fds -> Interests]
    /\ registered \subseteq Fds
    /\ events \subseteq [sock : Sockets, mask : Masks]
    /\ errorCount \in 0..ErrorLimit
    /\ live \subseteq Sockets
    /\ deadFlag \in [Sockets -> BOOLEAN]
    /\ fd \in [Sockets -> Fds \cup {NoFd}]
    /\ mode \in [Sockets -> {"accept", "connect", "data"}]
    /\ want \in [Sockets -> SUBSET Readiness]
    /\ unannounced \subseteq Sockets
    /\ pc \in Locations
    /\ cur \in Sockets \cup {NoSocket}
    /\ curMask \in Masks \cup {{}}
    /\ cb \in Callbacks
    /\ removing \in Seq(Sockets)
    /\ calls \in 0..MaxCalls
    /\ running \in BOOLEAN

(***************************************************************************)
(* The lists, the dead flag, the descriptors and the epoll set tell one    *)
(* story about every socket: an active socket is constructed, not dead,    *)
(* and its descriptor is in the epoll set and is nobody else's; a socket   *)
(* on the dead list is constructed, marked dead, on no other list and has  *)
(* no timer.  EmbeddedList asserts that an element is never on two lists   *)
(* (ESBEmbeddedList.cpp addLast), epoll_ctl reports a stray descriptor.    *)
(***************************************************************************)
ListsConsistent ==
    /\ active \cap deadList = {}
    /\ \A s \in active : s \in live /\ ~deadFlag[s] /\ fd[s] \in registered
    /\ \A s \in deadList : s \in live /\ deadFlag[s]
    /\ \A s, t \in active : fd[s] = fd[t] => s = t
    /\ \A f \in registered : \E s \in active : fd[s] = f
    /\ timers \subseteq active \ Permanent

(***************************************************************************)
(* destroy() asserts that _activeSocketCount equals the length of          *)
(* _activeSockets; the limit of the constructor is never exceeded.         *)
(***************************************************************************)
CountExact == count = Cardinality(active) /\ count <= MaxSockets

(***************************************************************************)
(* No I/O callback is delivered to a socket that was removed, also when    *)
(* another socket's handler removed it earlier in the same batch, and      *)
(* handleRemove only runs on a removed socket that is not yet destroyed.   *)
(***************************************************************************)
NoCallbackAfterRemove ==
    /\ cb # "none" => cur \in active
    /\ \A i \in 1..Len(removing) : removing[i] \in deadList

(***************************************************************************)
(* Every event still to be processed refers to a constructed object: the   *)
(* object an event points to is not destroyed while the event is pending.  *)
(***************************************************************************)
EventsReferToSockets == \A e \in events : e.sock \in active \cup deadList

(***************************************************************************)
(* No step destroys an object that a pending event or a running callback   *)
(* refers to; since an object can only be reused after it was destroyed,   *)
(* an event is never delivered to a later socket in the same memory.       *)
(***************************************************************************)
NoDanglingEvents ==
    [][\A s \in live \ live' :
          /\ \A e \in events : e.sock # s
          /\ \A i \in 1..Len(removing) : removing[i] # s
          /\ cb # "none" => cur # s]_vars

(***************************************************************************)
(* Whenever the loop waits, every socket that may become idle has a timer  *)
(* in the wheel: no connection escapes the idle timeout.                   *)
(***************************************************************************)
IdleTimeoutCoversAll ==
    pc = "wait" /\ IdleTimeout => active \ Permanent \subseteq timers

(***************************************************************************)
(* Whenever the loop waits, the kernel reports exactly the readiness every *)
(* active socket wants: no update is skipped on the strength of a stale    *)
(* cache entry or a reused descriptor, and the socket an event was         *)
(* processed for is current again.  The one way to fall behind is a call   *)
(* of another socket that changes wants without telling the multiplexer,   *)
(* and listeners and command sockets never do.                             *)
(***************************************************************************)
InterestsCurrent ==
    pc = "wait" => \A s \in active :
        \/ interest[fd[s]] \ {"ET"} = Wanted(mode[s], want[s])
        \/ s \in unannounced \ Permanent

(***************************************************************************)
(* Once another thread clears the flag the loop ends, having removed every *)
(* socket, unless epoll_wait failed for good.                              *)
(***************************************************************************)
StopsEventually == ~running /\ pc # "start" ~> pc \in {"stopped", "failed"}

(***************************************************************************)
(* destroy() leaves nothing behind: no active socket, no timer and no      *)
(* object, apart from the sockets without a cleanup handler.               *)
(***************************************************************************)
StoppedIsClean ==
    pc = "stopped" => active = {} /\ registered = {} /\ timers = {} /\ live \subseteq NoCleanup

\* Whenever run() waits it will hear of everything: the kernel watches for what
\* every socket wants, or another socket changed its wants unannounced; whatever
\* never becomes ready, the unannounced too, has a timer and is idled out.
\* (updateMultiplexedSocket, keepInMultiplexer and checkIdleSockets)
WaitingCoversAll == InterestsCurrent /\ IdleTimeoutCoversAll
=============================================================================

----------------------- MODULE EpollMultiplexerProofs -----------------------
(***************************************************************************)
(* The safety properties of EpollMultiplexer for every number of sockets,  *)
(* descriptors, error limit and number of calls a callback makes.          *)
(*                                                                         *)
(* IInv is the inductive invariant.  Next to the properties themselves it  *)
(* says where control can be: an I/O callback and a chain of handleRemove  *)
(* calls never overlap, the socket being processed stays active until the  *)
(* loop evicts it, and a batch of events is only pending while the loop    *)
(* over it runs.  Without the last two a dead socket could be processed or *)
(* reclaimed too early.                                                    *)
(***************************************************************************)
EXTENDS EpollMultiplexer, TLAPS, FiniteSetTheorems, SequenceTheorems

(***************************************************************************)
(* Where control can be.                                                   *)
(***************************************************************************)
ControlConsistent ==
    /\ cb # "none" => /\ removing = <<>>
                      /\ pc \in {"check", "post"}
                      /\ pc = "check" => cb = "handleIdle"
    /\ pc \in {"post", "evict", "evictIdle"} => cur \in active /\ removing = <<>>
    /\ events # {} => pc \in {"loop", "post", "evict"}
    /\ pc = "start" => InLoop

IInv ==
    /\ TypeOK
    /\ ListsConsistent
    /\ NoCallbackAfterRemove
    /\ EventsReferToSockets
    /\ ControlConsistent

(***************************************************************************)
(* Sockets that may become idle have a timer, apart from the one that is   *)
(* being processed.                                                        *)
(***************************************************************************)
IdleCovered ==
    IdleTimeout => \A s \in active \ Permanent :
        \/ s \in timers
        \/ s = cur /\ (cb = "handleIdle" \/ pc \in {"post", "evict", "evictIdle"})

(***************************************************************************)
(* The cache is exact for active sockets, and the kernel has the wanted    *)
(* interests, apart from those of the socket that is being processed and   *)
(* of the connections whose wants were changed unannounced.                *)
(***************************************************************************)
InterestsTracked ==
    /\ unannounced \subseteq active \ Permanent
    /\ \A s \in active :
        /\ cache[fd[s]] = interest[fd[s]]
        /\ \/ interest[fd[s]] \ {"ET"} = Wanted(mode[s], want[s])
           \/ s = cur /\ pc \in {"post", "evict"}
           \/ s \in unannounced

(***************************************************************************)
(* Nothing outlives its list, and destroy() is the end.                    *)
(***************************************************************************)
Ownership ==
    /\ live \subseteq active \cup deadList \cup NoCleanup
    /\ pc = "stopped" => InLoop /\ StoppedIsClean

-----------------------------------------------------------------------------
(***************************************************************************)
(* The interests computed for a socket are interests.                      *)
(***************************************************************************)
LEMMA WantedType ==
    ASSUME NEW m, NEW w \in SUBSET Readiness
    PROVE  Wanted(m, w) \in SUBSET Readiness /\ Wanted(m, w) \in Interests
BY DEF Wanted, Readiness, Interests

(***************************************************************************)
(* Updating the interests of a socket with a registered descriptor keeps   *)
(* the types of the kernel state.                                          *)
(***************************************************************************)
LEMMA UpdateKernelType ==
    ASSUME TypeOK, NEW s \in Sockets, NEW m, NEW w \in SUBSET Readiness,
           UpdateKernel(s, m, w)
    PROVE  /\ cache' \in [Fds -> Interests]
           /\ interest' \in [Fds -> Interests]
           /\ registered' = registered
           /\ unannounced' \subseteq Sockets
<1>1. Wanted(m, w) \in Interests
  BY WantedType
<1>2. CASE cache[fd[s]] # Wanted(m, w) /\ fd[s] \in registered
  BY <1>1, <1>2 DEF UpdateKernel, TypeOK
<1>3. CASE ~(cache[fd[s]] # Wanted(m, w) /\ fd[s] \in registered)
  BY <1>3 DEF UpdateKernel, TypeOK
<1>4. QED
  BY <1>2, <1>3

(***************************************************************************)
(* The initial states satisfy the invariant.                               *)
(***************************************************************************)
LEMMA InitIInv == Init => IInv
<1>1. SUFFICES ASSUME Init PROVE IInv
  OBVIOUS
<1>2. TypeOK
  BY <1>1, ConstantsAssumption
     DEF Init, TypeOK, Interests, Masks, Callbacks, Locations, Readiness
<1>3. ListsConsistent /\ EventsReferToSockets /\ ControlConsistent
  BY <1>1 DEF Init, ListsConsistent, EventsReferToSockets, ControlConsistent, InLoop
<1>4. NoCallbackAfterRemove
  BY <1>1 DEF Init, NoCallbackAfterRemove
<1>5. QED
  BY <1>2, <1>3, <1>4 DEF IInv

(***************************************************************************)
(* Steps of the loop that only move its control state.                     *)
(***************************************************************************)
LEMMA ControlStep ==
    IInv /\ (Start \/ Stop \/ LoopTop \/ NoIdleSockets \/ EpollWaitTimesOut \/ EpollWaitFails)
        => IInv'
<1>1. SUFFICES ASSUME IInv,
                      Start \/ Stop \/ LoopTop \/ NoIdleSockets \/ EpollWaitTimesOut \/ EpollWaitFails
               PROVE  IInv'
  OBVIOUS
<1>2. /\ UNCHANGED <<active, count, deadList, timers, cache, interest, registered, unannounced, live, deadFlag,
                     fd, mode, want, events, cur, curMask, cb, removing, calls>>
      /\ pc' \in {"top", "check", "destroy", "wait", "failed"} \/ pc' = pc
      /\ (pc \in {"start", "top", "check", "wait"} /\ InLoop) \/ pc' = pc
  BY <1>1
     DEF Start, Stop, LoopTop, NoIdleSockets, EpollWaitTimesOut, EpollWaitFails, listVars,
         kernelVars, objectVars, controlVars, IInv, ControlConsistent
<1>2a. errorCount' \in 0..ErrorLimit
  BY <1>1, ConstantsAssumption
     DEF Start, Stop, LoopTop, NoIdleSockets, EpollWaitTimesOut, EpollWaitFails, IInv, TypeOK
<1>2b. running' \in BOOLEAN
  BY <1>1
     DEF Start, Stop, LoopTop, NoIdleSockets, EpollWaitTimesOut, EpollWaitFails, IInv, TypeOK
<1>3. TypeOK'
  BY <1>1, <1>2, <1>2a, <1>2b DEF IInv, TypeOK, Locations
<1>4. ListsConsistent' /\ NoCallbackAfterRemove' /\ EventsReferToSockets'
  BY <1>1, <1>2 DEF IInv, ListsConsistent, NoCallbackAfterRemove, EventsReferToSockets
<1>5. ControlConsistent'
  BY <1>1, <1>2 DEF IInv, ControlConsistent, InLoop
<1>6. QED
  BY <1>3, <1>4, <1>5 DEF IInv

-----------------------------------------------------------------------------
(***************************************************************************)
(* The chain of handleRemove calls as a sequence: pushing and popping.     *)
(***************************************************************************)
LEMMA PushElements ==
    ASSUME NEW S, NEW s \in S, NEW q \in Seq(S)
    PROVE  /\ <<s>> \o q \in Seq(S)
           /\ Len(<<s>> \o q) = Len(q) + 1
           /\ \A i \in 1..(Len(q) + 1) : (<<s>> \o q)[i] = IF i = 1 THEN s ELSE q[i - 1]
OBVIOUS

LEMMA PopElements ==
    ASSUME NEW S, NEW q \in Seq(S), q # <<>>
    PROVE  /\ Tail(q) \in Seq(S)
           /\ Len(Tail(q)) = Len(q) - 1
           /\ Len(q) \in Nat \ {0}
           /\ \A i \in 1..(Len(q) - 1) : Tail(q)[i] = q[i + 1]
           /\ Head(q) = q[1] /\ Head(q) \in S
<1>1. Len(q) \in Nat \ {0}
  BY EmptySeq
<1>2. QED
  BY <1>1

(***************************************************************************)
(* Removing an active socket always succeeds: EPOLL_CTL_DEL finds its      *)
(* descriptor.                                                             *)
(***************************************************************************)
LEMMA RemoveSucceeds ==
    ASSUME IInv, NEW s \in active, RemoveMultiplexedSocket(s)
    PROVE  /\ registered' = registered \ {fd[s]}
           /\ interest' = [interest EXCEPT ![fd[s]] = {}]
           /\ cache' = [cache EXCEPT ![fd[s]] = {}]
           /\ active' = active \ {s}
           /\ timers' = timers \ {s}
           /\ count' = count - 1
           /\ deadList' = deadList \cup {s}
           /\ deadFlag' = [deadFlag EXCEPT ![s] = TRUE]
           /\ removing' = <<s>> \o removing
           /\ live' = live /\ fd' = fd /\ mode' = mode /\ want' = want
           /\ unannounced' = unannounced \ {s}
BY DEF RemoveMultiplexedSocket, IInv, ListsConsistent

(***************************************************************************)
(* What removing an active socket preserves, whoever removes it.           *)
(***************************************************************************)
LEMMA RemovePreserves ==
    ASSUME IInv, NEW s \in active, RemoveMultiplexedSocket(s)
    PROVE  /\ ListsConsistent'
           /\ \A i \in 1..Len(removing') : removing'[i] \in deadList'
           /\ removing' \in Seq(Sockets)
           /\ active' \subseteq Sockets /\ deadList' \subseteq Sockets
           /\ timers' \subseteq Sockets /\ count' \in Int
           /\ cache' \in [Fds -> Interests] /\ interest' \in [Fds -> Interests]
           /\ registered' \subseteq Fds /\ unannounced' \subseteq Sockets
           /\ deadFlag' \in [Sockets -> BOOLEAN]
           /\ active' \cup deadList' = active \cup deadList
<1>1. /\ registered' = registered \ {fd[s]}
      /\ interest' = [interest EXCEPT ![fd[s]] = {}]
      /\ cache' = [cache EXCEPT ![fd[s]] = {}]
      /\ active' = active \ {s}
      /\ timers' = timers \ {s}
      /\ count' = count - 1
      /\ deadList' = deadList \cup {s}
      /\ deadFlag' = [deadFlag EXCEPT ![s] = TRUE]
      /\ removing' = <<s>> \o removing
      /\ live' = live /\ fd' = fd /\ mode' = mode /\ want' = want
      /\ unannounced' = unannounced \ {s}
  BY RemoveSucceeds
<1>2. s \in Sockets
  BY DEF IInv, TypeOK
<1>3. ListsConsistent'
  <2>1. deadFlag'[s] = TRUE /\ \A t \in Sockets \ {s} : deadFlag'[t] = deadFlag[t]
    BY <1>1, <1>2 DEF IInv, TypeOK
  <2>2. \A t \in active' : t \in active /\ t # s /\ fd[t] # fd[s]
    BY <1>1 DEF IInv, ListsConsistent
  <2>3. \A t \in active' : t \in live' /\ ~deadFlag'[t] /\ fd'[t] \in registered'
    BY <1>1, <2>1, <2>2 DEF IInv, TypeOK, ListsConsistent
  <2>4. \A t \in deadList' : t \in live' /\ deadFlag'[t]
    BY <1>1, <2>1 DEF IInv, TypeOK, ListsConsistent
  <2>5. \A f \in registered' : \E t \in active' : fd'[t] = f
    BY <1>1 DEF IInv, ListsConsistent
  <2>6. QED
    BY <1>1, <2>2, <2>3, <2>4, <2>5 DEF IInv, ListsConsistent
<1>4. removing' \in Seq(Sockets) /\ \A i \in 1..Len(removing') : removing'[i] \in deadList'
  <2>1. removing \in Seq(Sockets) /\ Len(removing) \in Nat
    BY DEF IInv, TypeOK
  <2>2. removing' = <<s>> \o removing /\ deadList' = deadList \cup {s}
    BY <1>1
  <2>3. SUFFICES ASSUME NEW i \in 1..Len(removing') PROVE removing'[i] \in deadList'
    BY <1>2, <2>1, <2>2, PushElements
  <2>4. removing'[i] = IF i = 1 THEN s ELSE removing[i - 1]
    BY <1>2, <2>1, <2>2, PushElements
  <2>5. i # 1 => i - 1 \in 1..Len(removing)
    BY <1>2, <2>1, <2>2, PushElements
  <2>6. QED
    BY <2>2, <2>4, <2>5 DEF IInv, NoCallbackAfterRemove
<1>5. deadFlag' \in [Sockets -> BOOLEAN]
  BY <1>1, <1>2 DEF IInv, TypeOK
<1>6. /\ cache' \in [Fds -> Interests] /\ interest' \in [Fds -> Interests] /\ registered' \subseteq Fds
      /\ unannounced' \subseteq Sockets
  BY <1>1, <1>2 DEF IInv, TypeOK, Interests
<1>7. /\ active' \subseteq Sockets /\ deadList' \subseteq Sockets
      /\ timers' \subseteq Sockets /\ count' \in Int
  BY <1>2, <1>1 DEF IInv, TypeOK
<1>8. active' \cup deadList' = active \cup deadList
  BY <1>1
<1>9. QED
  BY <1>3, <1>4, <1>5, <1>6, <1>7, <1>8

(***************************************************************************)
(* A socket is removed by its peer, by the loop or by destroy().           *)
(***************************************************************************)
LEMMA AbortPeerStep ==
    ASSUME IInv, NEW t \in Sockets, AbortPeer(t)
    PROVE  IInv'
<1>1. t \in active /\ RemoveMultiplexedSocket(t) /\ removing # <<>>
  BY DEF AbortPeer
<1>2. UNCHANGED <<events, errorCount, pc, cur, curMask, cb, calls, running, live, fd, mode, want>>
  BY <1>1, RemoveSucceeds DEF AbortPeer
<1>3. TypeOK'
  BY <1>1, <1>2, RemovePreserves DEF IInv, TypeOK
<1>4. NoCallbackAfterRemove'
  BY <1>1, <1>2, RemovePreserves DEF IInv, NoCallbackAfterRemove, ControlConsistent
<1>5. EventsReferToSockets'
  BY <1>1, <1>2, RemovePreserves DEF IInv, EventsReferToSockets
<1>6. ControlConsistent'
  BY <1>1, <1>2 DEF IInv, ControlConsistent, InLoop
<1>7. QED
  BY <1>1, <1>3, <1>4, <1>5, <1>6, RemovePreserves DEF IInv

LEMMA EvictStep ==
    ASSUME IInv, Evict
    PROVE  IInv'
<1>1. cur \in active /\ RemoveMultiplexedSocket(cur) /\ cb = "none" /\ pc \in {"evict", "evictIdle"}
  BY DEF Evict, InLoop, IInv, ControlConsistent
<1>2. /\ UNCHANGED <<events, errorCount, curMask, cb, running, live, fd, mode, want>>
      /\ pc' = IF pc = "evict" THEN "loop" ELSE "check"
      /\ cur' = NoSocket /\ calls' = 0
  BY <1>1, RemoveSucceeds DEF Evict
<1>3. TypeOK'
  BY <1>1, <1>2, RemovePreserves, ConstantsAssumption DEF IInv, TypeOK, Locations
<1>4. NoCallbackAfterRemove'
  BY <1>1, <1>2, RemovePreserves DEF NoCallbackAfterRemove
<1>5. EventsReferToSockets'
  BY <1>1, <1>2, RemovePreserves DEF IInv, EventsReferToSockets
<1>6. ControlConsistent'
  BY <1>1, <1>2 DEF IInv, ControlConsistent, InLoop
<1>7. QED
  BY <1>1, <1>3, <1>4, <1>5, <1>6, RemovePreserves DEF IInv

LEMMA DestroyRemoveStep ==
    ASSUME IInv, NEW s \in Sockets, DestroyRemove(s)
    PROVE  IInv'
<1>1. s \in active /\ RemoveMultiplexedSocket(s) /\ cb = "none" /\ pc = "destroy"
  BY DEF DestroyRemove, InLoop
<1>2. UNCHANGED <<events, errorCount, pc, cur, curMask, cb, running, live, fd, mode, want>> /\ calls' = 0
  BY <1>1, RemoveSucceeds DEF DestroyRemove
<1>3. TypeOK'
  BY <1>1, <1>2, RemovePreserves, ConstantsAssumption DEF IInv, TypeOK
<1>4. NoCallbackAfterRemove'
  BY <1>1, <1>2, RemovePreserves DEF NoCallbackAfterRemove
<1>5. EventsReferToSockets'
  BY <1>1, <1>2, RemovePreserves DEF IInv, EventsReferToSockets
<1>6. ControlConsistent'
  BY <1>1, <1>2 DEF IInv, ControlConsistent, InLoop
<1>7. QED
  BY <1>1, <1>3, <1>4, <1>5, <1>6, RemovePreserves DEF IInv

-----------------------------------------------------------------------------
(***************************************************************************)
(* The other calls a callback can make.                                    *)
(***************************************************************************)
LEMMA AddStep ==
    ASSUME IInv, NEW s \in Sockets, NEW f \in Fds, NEW m \in {"accept", "connect", "data"},
           NEW w \in SUBSET Readiness, AddMultiplexedSocket(s, f, m, w)
    PROVE  IInv'
<1>1. /\ s \notin live /\ \A t \in live : fd[t] # f
      /\ active' = active \cup {s} /\ live' = live \cup {s}
      /\ registered' = registered \cup {f}
      /\ timers' \subseteq timers \cup {s} /\ (s \in Permanent => timers' = timers)
      /\ fd' = [fd EXCEPT ![s] = f]
      /\ deadFlag' = [deadFlag EXCEPT ![s] = FALSE]
      /\ UNCHANGED <<deadList, unannounced, events, errorCount, pc, cur, curMask, cb, removing, running>>
  BY DEF AddMultiplexedSocket
<1>2. TypeOK'
  <2>1. Wanted(m, w) \cup {"ET"} \in Interests
    BY WantedType DEF Readiness, Interests
  <2>2. count' \in Int /\ calls' \in 0..MaxCalls
    BY ConstantsAssumption DEF AddMultiplexedSocket, IInv, TypeOK
  <2>3. cache' \in [Fds -> Interests] /\ interest' \in [Fds -> Interests]
    BY <2>1 DEF AddMultiplexedSocket, IInv, TypeOK
  <2>4. mode' \in [Sockets -> {"accept", "connect", "data"}] /\ want' \in [Sockets -> SUBSET Readiness]
    BY DEF AddMultiplexedSocket, IInv, TypeOK
  <2>5. deadFlag' \in [Sockets -> BOOLEAN] /\ fd' \in [Sockets -> Fds \cup {NoFd}]
    BY <1>1 DEF IInv, TypeOK
  <2>6. QED
    BY <1>1, <2>2, <2>3, <2>4, <2>5 DEF IInv, TypeOK
<1>3. ListsConsistent'
  <2>1. /\ deadFlag'[s] = FALSE /\ fd'[s] = f
        /\ \A t \in Sockets \ {s} : deadFlag'[t] = deadFlag[t] /\ fd'[t] = fd[t]
    BY <1>1 DEF IInv, TypeOK
  <2>2. s \notin active /\ s \notin deadList
    BY <1>1 DEF IInv, ListsConsistent
  <2>3. \A t \in active' : t \in live' /\ ~deadFlag'[t] /\ fd'[t] \in registered'
    BY <1>1, <2>1 DEF IInv, TypeOK, ListsConsistent
  <2>4. \A t \in deadList' : t \in live' /\ deadFlag'[t]
    BY <1>1, <2>1, <2>2 DEF IInv, TypeOK, ListsConsistent
  <2>5. \A t \in active : t # s /\ t \in Sockets /\ fd'[t] = fd[t] /\ fd[t] # f
    BY <1>1, <2>1, <2>2 DEF IInv, TypeOK, ListsConsistent
  <2>6. \A t, u \in active' : fd'[t] = fd'[u] => t = u
    BY <1>1, <2>1, <2>5 DEF IInv, ListsConsistent
  <2>7. \A g \in registered' : \E t \in active' : fd'[t] = g
    <3>1. SUFFICES ASSUME NEW g \in registered' PROVE \E t \in active' : fd'[t] = g
      OBVIOUS
    <3>2. CASE g = f
      BY <1>1, <2>1, <3>2
    <3>3. CASE g \in registered
      <4>1. PICK t \in active : fd[t] = g
        BY <3>3 DEF IInv, ListsConsistent
      <4>2. QED
        BY <1>1, <2>5, <4>1
    <3>4. QED
      BY <1>1, <3>2, <3>3
  <2>8. timers' \subseteq active' \ Permanent
    BY <1>1 DEF IInv, ListsConsistent
  <2>9. QED
    BY <1>1, <2>2, <2>3, <2>4, <2>6, <2>7, <2>8 DEF IInv, ListsConsistent
<1>4. NoCallbackAfterRemove' /\ EventsReferToSockets'
  BY <1>1 DEF IInv, NoCallbackAfterRemove, EventsReferToSockets
<1>5. ControlConsistent'
  BY <1>1 DEF IInv, ControlConsistent, InLoop
<1>6. QED
  BY <1>2, <1>3, <1>4, <1>5 DEF IInv

(***************************************************************************)
(* A failed add leaves the lists, the wheel and the count as they were: a  *)
(* socket that is not constructed is on no list.                           *)
(***************************************************************************)
LEMMA AddFailsRollsBack ==
    ASSUME IInv, NEW s \in Sockets, NEW step, AddMultiplexedSocketFails(s, step)
    PROVE  UNCHANGED listVars
<1>1. s \notin active /\ s \notin timers
  BY DEF AddMultiplexedSocketFails, IInv, ListsConsistent
<1>2. (active \cup {s}) \ {s} = active /\ (timers \cup {s}) \ {s} = timers
  BY <1>1
<1>3. (count + 1) - 1 = count
  BY DEF IInv, TypeOK
<1>4. QED
  BY <1>2, <1>3 DEF AddMultiplexedSocketFails, listVars

LEMMA AddFailsStep ==
    ASSUME IInv, NEW s \in Sockets, NEW step, AddMultiplexedSocketFails(s, step)
    PROVE  IInv'
<1>0. /\ UNCHANGED <<kernelVars, objectVars, events, errorCount, pc, cur, curMask, cb, removing, running>>
      /\ calls' \in 0..MaxCalls
  BY ConstantsAssumption DEF AddMultiplexedSocketFails, IInv, TypeOK
<1>1. /\ UNCHANGED <<listVars, kernelVars, objectVars, events, errorCount, pc, cur, curMask, cb,
                     removing, running>>
      /\ calls' \in 0..MaxCalls
  BY <1>0, AddFailsRollsBack
<1>2. TypeOK'
  BY <1>1 DEF IInv, TypeOK, listVars, kernelVars, objectVars
<1>3. QED
  BY <1>1, <1>2
     DEF IInv, ListsConsistent, NoCallbackAfterRemove, EventsReferToSockets, ControlConsistent, InLoop,
         listVars, kernelVars, objectVars

LEMMA UpdateStep ==
    ASSUME IInv, NEW s \in Sockets, NEW w \in SUBSET Readiness, UpdateMultiplexedSocket(s, w)
    PROVE  IInv'
<1>1. /\ UpdateKernel(s, mode[s], w)
      /\ UNCHANGED <<listVars, live, deadFlag, fd, mode, events, errorCount, pc, cur, curMask, cb,
                     removing, running>>
      /\ want' = [want EXCEPT ![s] = w]
  BY DEF UpdateMultiplexedSocket
<1>2. /\ cache' \in [Fds -> Interests] /\ interest' \in [Fds -> Interests]
      /\ registered' = registered /\ unannounced' \subseteq Sockets
  BY <1>1, UpdateKernelType DEF IInv
<1>3. calls' \in 0..MaxCalls
  BY ConstantsAssumption DEF UpdateMultiplexedSocket, IInv, TypeOK
<1>4. TypeOK'
  BY <1>1, <1>2, <1>3 DEF IInv, TypeOK, listVars
<1>5. QED
  BY <1>1, <1>2, <1>4
     DEF IInv, ListsConsistent, NoCallbackAfterRemove, EventsReferToSockets, ControlConsistent, InLoop,
         listVars

LEMMA ChangeWantsStep ==
    ASSUME IInv, NEW s \in Sockets, NEW w \in SUBSET Readiness, ChangeWants(s, w)
    PROVE  IInv'
<1>1. /\ UNCHANGED <<listVars, interest, registered, cache, live, deadFlag, fd, mode, events, errorCount,
                     pc, cur, curMask, cb, removing, running>>
      /\ want' = [want EXCEPT ![s] = w] /\ unannounced' = unannounced \cup {s}
  BY DEF ChangeWants
<1>2. calls' \in 0..MaxCalls
  BY ConstantsAssumption DEF ChangeWants, IInv, TypeOK
<1>3. TypeOK'
  BY <1>1, <1>2 DEF IInv, TypeOK, listVars
<1>4. QED
  BY <1>1, <1>3
     DEF IInv, ListsConsistent, NoCallbackAfterRemove, EventsReferToSockets, ControlConsistent, InLoop,
         listVars

LEMMA CloseDescriptorStep ==
    ASSUME IInv, CloseDescriptor
    PROVE  IInv'
<1> DEFINE s == Head(removing)
<1>1. /\ fd' = [fd EXCEPT ![s] = NoFd]
      /\ removing # <<>>
      /\ UNCHANGED <<listVars, kernelVars, live, deadFlag, mode, want, controlVars, events, errorCount,
                     running>>
  BY DEF CloseDescriptor
<1>2. s \in Sockets /\ s \in deadList
  <2>1. removing \in Seq(Sockets)
    BY DEF IInv, TypeOK
  <2>2. s \in Sockets /\ s = removing[1] /\ 1 \in 1..Len(removing)
    BY <1>1, <2>1, PopElements
  <2>3. QED
    BY <2>2 DEF IInv, NoCallbackAfterRemove
<1> HIDE DEF s
<1>3. TypeOK'
  BY <1>1, <1>2 DEF IInv, TypeOK, listVars, kernelVars, controlVars
<1>4. \A t \in active : fd'[t] = fd[t]
  BY <1>1, <1>2 DEF IInv, TypeOK, ListsConsistent
<1>5. ListsConsistent'
  BY <1>1, <1>4 DEF IInv, ListsConsistent, listVars, kernelVars
<1>6. QED
  BY <1>1, <1>3, <1>5
     DEF IInv, NoCallbackAfterRemove, EventsReferToSockets, ControlConsistent, InLoop, listVars, controlVars

LEMMA HandleRemoveReturnsStep ==
    ASSUME IInv, HandleRemoveReturns
    PROVE  IInv'
<1>1. /\ removing # <<>> /\ removing' = Tail(removing)
      /\ UNCHANGED <<active, count, deadList, timers, cache, interest, registered, unannounced, live, deadFlag,
                     fd, mode, want, events, errorCount, pc, cur, curMask, cb, calls, running>>
  BY DEF HandleRemoveReturns, listVars, kernelVars, objectVars
<1>2. removing \in Seq(Sockets)
  BY DEF IInv, TypeOK
<1>3. /\ removing' \in Seq(Sockets) /\ Len(removing) \in Nat \ {0}
      /\ Len(removing') = Len(removing) - 1
      /\ \A i \in 1..Len(removing') : removing'[i] = removing[i + 1]
  BY <1>1, <1>2, PopElements
<1>4. TypeOK'
  BY <1>1, <1>3 DEF IInv, TypeOK
<1>5. NoCallbackAfterRemove'
  <2>1. \A i \in 1..Len(removing') : i + 1 \in 1..Len(removing)
    BY <1>3
  <2>2. \A i \in 1..Len(removing') : removing'[i] \in deadList'
    BY <1>1, <1>3, <2>1 DEF IInv, NoCallbackAfterRemove
  <2>3. QED
    BY <1>1, <2>2 DEF IInv, NoCallbackAfterRemove
<1>6. QED
  BY <1>1, <1>4, <1>5
     DEF IInv, ListsConsistent, EventsReferToSockets, ControlConsistent, InLoop

-----------------------------------------------------------------------------
(***************************************************************************)
(* The steps of the loop.                                                  *)
(***************************************************************************)
LEMMA CheckIdleStep ==
    ASSUME IInv, NEW s \in Sockets, CheckIdleSockets(s)
    PROVE  IInv'
<1>1. /\ pc = "check" /\ InLoop /\ s \in timers
      /\ timers' = timers \ {s} /\ cur' = s /\ cb' = "handleIdle" /\ calls' = 0
      /\ UNCHANGED <<active, count, deadList, kernelVars, objectVars, events, errorCount,
                     pc, curMask, removing, running>>
  BY DEF CheckIdleSockets
<1>2. TypeOK'
  BY <1>1, ConstantsAssumption DEF IInv, TypeOK, Callbacks, kernelVars, objectVars
<1>3. ListsConsistent'
  BY <1>1 DEF IInv, ListsConsistent, kernelVars, objectVars
<1>4. NoCallbackAfterRemove' /\ EventsReferToSockets'
  BY <1>1 DEF IInv, NoCallbackAfterRemove, EventsReferToSockets, ListsConsistent
<1>5. ControlConsistent'
  BY <1>1 DEF IInv, ControlConsistent, InLoop
<1>6. QED
  BY <1>2, <1>3, <1>4, <1>5 DEF IInv

LEMMA WaitStep ==
    ASSUME IInv, NEW ready \in SUBSET Sockets, EpollWaitReturnsEvents(ready)
    PROVE  IInv'
<1>1. /\ pc = "wait" /\ InLoop /\ ready \subseteq active
      /\ errorCount' = 0 /\ pc' = "loop"
      /\ UNCHANGED <<active, count, deadList, timers, cache, interest, registered, unannounced, live, deadFlag,
                     fd, mode, want, cur, curMask, cb, removing, calls, running>>
  BY DEF EpollWaitReturnsEvents, listVars, kernelVars, objectVars
<1>2. PICK mask \in [ready -> Masks] : events' = {[sock |-> s, mask |-> mask[s]] : s \in ready}
  BY DEF EpollWaitReturnsEvents
<1>3. \A e \in events' : e \in [sock : Sockets, mask : Masks] /\ e.sock \in active
  BY <1>1, <1>2
<1>4. TypeOK'
  BY <1>1, <1>3, ConstantsAssumption DEF IInv, TypeOK, Locations
<1>5. ListsConsistent' /\ NoCallbackAfterRemove'
  BY <1>1 DEF IInv, ListsConsistent, NoCallbackAfterRemove
<1>6. EventsReferToSockets'
  BY <1>1, <1>3 DEF EventsReferToSockets
<1>7. ControlConsistent'
  BY <1>1 DEF IInv, ControlConsistent, InLoop
<1>8. QED
  BY <1>4, <1>5, <1>6, <1>7 DEF IInv

LEMMA SkipDeadStep ==
    ASSUME IInv, NEW e \in events, SkipDeadSocket(e)
    PROVE  IInv'
<1>1. /\ pc = "loop" /\ events' = events \ {e}
      /\ UNCHANGED <<active, count, deadList, timers, cache, interest, registered, unannounced, live, deadFlag,
                     fd, mode, want, pc, cur, curMask, cb, removing, calls, errorCount, running>>
  BY DEF SkipDeadSocket, listVars, kernelVars, objectVars, controlVars
<1>2. TypeOK'
  BY <1>1 DEF IInv, TypeOK
<1>3. QED
  BY <1>1, <1>2
     DEF IInv, ListsConsistent, NoCallbackAfterRemove, EventsReferToSockets, ControlConsistent, InLoop

(***************************************************************************)
(* An event is only dispatched to an active socket: a pending event refers *)
(* to an active or a dead one, and the dead flag tells them apart.         *)
(***************************************************************************)
LEMMA HandleEventStep ==
    ASSUME IInv, NEW e \in events, HandleEvent(e)
    PROVE  IInv' /\ cur' \in active
<1>1. /\ pc = "loop" /\ InLoop /\ ~deadFlag[e.sock]
      /\ events' = events \ {e} /\ cur' = e.sock /\ curMask' = e.mask
      /\ cb' \in Dispatch(e.sock, e.mask) /\ pc' = "post" /\ calls' = 0
      /\ UNCHANGED <<active, count, deadList, timers, cache, interest, registered, unannounced, live, deadFlag,
                     fd, mode, want, errorCount, removing, running>>
  BY DEF HandleEvent, listVars, kernelVars, objectVars
<1>2. e.sock \in active
  BY <1>1 DEF IInv, EventsReferToSockets, ListsConsistent
<1>3. cb' \in Callbacks
  BY <1>1 DEF Dispatch, Callbacks
<1>4. TypeOK'
  BY <1>1, <1>2, <1>3, ConstantsAssumption DEF IInv, TypeOK, Locations
<1>5. ListsConsistent' /\ EventsReferToSockets'
  BY <1>1 DEF IInv, ListsConsistent, EventsReferToSockets
<1>6. NoCallbackAfterRemove'
  BY <1>1, <1>2 DEF IInv, NoCallbackAfterRemove
<1>7. ControlConsistent'
  BY <1>1, <1>2 DEF IInv, ControlConsistent, InLoop
<1>8. QED
  BY <1>1, <1>2, <1>4, <1>5, <1>6, <1>7 DEF IInv

(***************************************************************************)
(* The steps that end a callback.                                          *)
(***************************************************************************)
LEMMA ReturnStep ==
    ASSUME IInv,
           \/ \E r \in {"AGAIN", "SUCCESS", "ERROR"} : HandleAcceptReturns(r)
           \/ HandleFailureReturns
           \/ \E keep \in BOOLEAN, w \in SUBSET Readiness : HandleIoReturns(keep, w)
    PROVE  IInv'
<1>1. /\ cb # "none"
      /\ UNCHANGED <<active, count, deadList, timers, cache, interest, registered, unannounced, live, deadFlag,
                     fd, events, errorCount, cur, curMask, removing, running>>
  BY DEF HandleAcceptReturns, HandleFailureReturns, HandleIoReturns, listVars, kernelVars, objectVars
<1>2. cur \in active /\ removing = <<>> /\ pc \in {"check", "post"}
  BY <1>1 DEF IInv, NoCallbackAfterRemove, ControlConsistent
<1>3. /\ cb' \in Callbacks
      /\ cb' # "none" => pc' = "post"
      /\ cb' = "none" => pc' \in {"post", "evict", "evictIdle"}
      /\ pc' = "evictIdle" <=> pc = "check"
  BY <1>2 DEF HandleAcceptReturns, HandleFailureReturns, HandleIoReturns, IInv, TypeOK, Callbacks,
              ControlConsistent
<1>4. calls' \in 0..MaxCalls
  BY ConstantsAssumption DEF HandleAcceptReturns, HandleFailureReturns, HandleIoReturns, IInv, TypeOK
<1>5. mode' \in [Sockets -> {"accept", "connect", "data"}] /\ want' \in [Sockets -> SUBSET Readiness]
  BY DEF HandleAcceptReturns, HandleFailureReturns, HandleIoReturns, IInv, TypeOK, objectVars
<1>6. TypeOK'
  BY <1>1, <1>3, <1>4, <1>5 DEF IInv, TypeOK, Locations, Callbacks
<1>7. ListsConsistent' /\ NoCallbackAfterRemove' /\ EventsReferToSockets'
  BY <1>1, <1>2 DEF IInv, ListsConsistent, NoCallbackAfterRemove, EventsReferToSockets
<1>8. ControlConsistent'
  BY <1>1, <1>2, <1>3 DEF IInv, ControlConsistent, InLoop
<1>9. QED
  BY <1>6, <1>7, <1>8 DEF IInv

LEMMA KeepStep ==
    ASSUME IInv, NEW wheel \in {"SUCCESS", "UNDERFLOW", "OVERFLOW"}, KeepSocket(wheel)
    PROVE  IInv'
<1>1. /\ pc = "post" /\ InLoop /\ cur \in active /\ cur \in Sockets
      /\ UNCHANGED <<active, count, deadList, live, deadFlag, fd, mode, want, events, errorCount,
                     cur, curMask, removing, running>>
  BY DEF KeepSocket, objectVars, IInv, TypeOK, ControlConsistent
<1>2. mode[cur] \in {"accept", "connect", "data"} /\ want[cur] \in SUBSET Readiness
  BY <1>1 DEF IInv, TypeOK
<1>3. UpdateKernel(cur, mode[cur], want[cur]) \/ UNCHANGED kernelVars
  BY DEF KeepSocket
<1>4. /\ cache' \in [Fds -> Interests] /\ interest' \in [Fds -> Interests]
      /\ registered' = registered /\ unannounced' \subseteq Sockets
  BY <1>1, <1>2, <1>3, UpdateKernelType DEF IInv, TypeOK, kernelVars
<1>5. /\ timers' \subseteq active \ Permanent
      /\ cb' \in {"none", "handleIdle"}
      /\ cb' = "handleIdle" => pc' = "post"
      /\ pc' \in {"post", "loop", "evict"}
      /\ calls' \in {calls, 0}
  BY <1>1 DEF KeepSocket, IInv, ListsConsistent, InLoop
<1>6. TypeOK'
  <2>1. timers' \subseteq Sockets
    BY <1>1, <1>5 DEF IInv, TypeOK
  <2>2. calls' \in 0..MaxCalls
    BY <1>5, ConstantsAssumption DEF IInv, TypeOK
  <2>3. QED
    BY <1>1, <1>4, <1>5, <2>1, <2>2 DEF IInv, TypeOK, Locations, Callbacks
<1>7. ListsConsistent' /\ NoCallbackAfterRemove' /\ EventsReferToSockets'
  BY <1>1, <1>4, <1>5 DEF IInv, ListsConsistent, NoCallbackAfterRemove, EventsReferToSockets
<1>8. ControlConsistent'
  BY <1>1, <1>5 DEF IInv, ControlConsistent, InLoop
<1>9. QED
  BY <1>6, <1>7, <1>8 DEF IInv

(***************************************************************************)
(* Dead sockets are destroyed only when no event is pending and no         *)
(* handleRemove runs.                                                      *)
(***************************************************************************)
LEMMA ReapStep ==
    ASSUME IInv, Reap \/ DestroyFinish
    PROVE  IInv' /\ events = {} /\ removing = <<>> /\ cb = "none"
<1>1. /\ events = {} /\ InLoop /\ ReapDeadSockets
      /\ UNCHANGED <<active, count, kernelVars, events, errorCount, cur, curMask, cb, removing,
                     calls, running>>
      /\ timers' \subseteq timers /\ pc' \in {"top", "stopped"}
  BY DEF Reap, DestroyFinish, IInv, ControlConsistent
<1>2. /\ deadList' = {} /\ live' = live \ (deadList \ NoCleanup)
      /\ fd' = [s \in Sockets |-> IF s \in deadList \ NoCleanup THEN NoFd ELSE fd[s]]
      /\ deadFlag' = [s \in Sockets |-> deadFlag[s] /\ s \notin deadList \ NoCleanup]
      /\ mode' = [s \in Sockets |-> IF s \in deadList \ NoCleanup THEN "data" ELSE mode[s]]
      /\ want' = [s \in Sockets |-> IF s \in deadList \ NoCleanup THEN {} ELSE want[s]]
  BY <1>1 DEF ReapDeadSockets
<1>3. TypeOK'
  <2>1. mode' \in [Sockets -> {"accept", "connect", "data"}] /\ want' \in [Sockets -> SUBSET Readiness]
    BY <1>2 DEF IInv, TypeOK, Readiness
  <2>2. deadFlag' \in [Sockets -> BOOLEAN] /\ fd' \in [Sockets -> Fds \cup {NoFd}]
    BY <1>2 DEF IInv, TypeOK
  <2>3. QED
    BY <1>1, <1>2, <2>1, <2>2 DEF IInv, TypeOK, Locations, kernelVars
<1>4. \A s \in active : /\ s \in Sockets /\ s \notin deadList
                        /\ fd'[s] = fd[s] /\ ~deadFlag'[s] /\ s \in live'
  BY <1>2 DEF IInv, TypeOK, ListsConsistent
<1>5. ListsConsistent'
  BY <1>1, <1>2, <1>4 DEF IInv, ListsConsistent, kernelVars
<1>6. NoCallbackAfterRemove' /\ EventsReferToSockets' /\ ControlConsistent'
  BY <1>1 DEF IInv, NoCallbackAfterRemove, EventsReferToSockets, ControlConsistent, InLoop
<1>7. QED
  BY <1>1, <1>3, <1>5, <1>6 DEF IInv, InLoop

(***************************************************************************)
(* Every step preserves the invariant.                                     *)
(***************************************************************************)
LEMMA NextIInv == IInv /\ [Next]_vars => IInv'
<1>1. SUFFICES ASSUME IInv, [Next]_vars PROVE IInv'
  OBVIOUS
<1>2. CASE Callback
  BY <1>1, <1>2, AddStep, AddFailsStep, UpdateStep, ChangeWantsStep, AbortPeerStep, CloseDescriptorStep DEF Callback
<1>3. CASE Return
  BY <1>1, <1>3, HandleRemoveReturnsStep, ReturnStep DEF Return
<1>4. CASE Loop
  BY <1>1, <1>4, ControlStep, CheckIdleStep, WaitStep, SkipDeadStep, HandleEventStep, KeepStep,
     EvictStep, ReapStep, DestroyRemoveStep DEF Loop, Wait
<1>5. CASE Stop
  BY <1>1, <1>5, ControlStep
<1>6. CASE UNCHANGED vars
  BY <1>1, <1>6
     DEF vars, listVars, kernelVars, objectVars, controlVars, IInv, TypeOK, ListsConsistent,
         NoCallbackAfterRemove, EventsReferToSockets, ControlConsistent, InLoop
<1>7. QED
  BY <1>1, <1>2, <1>3, <1>4, <1>5, <1>6 DEF Next

(***************************************************************************)
(* What a call of a callback may do to the objects and their lists: it     *)
(* constructs and lists a socket, it moves one to the dead list, or it     *)
(* leaves both alone; it never moves the loop.                             *)
(***************************************************************************)
CallbackEffect ==
    /\ pc' = pc
    /\ live \subseteq live'
    /\ live' \ live \subseteq active'
    /\ active \subseteq active' \cup deadList'
    /\ deadList \subseteq deadList'

LEMMA CallbackMoves ==
    ASSUME IInv, Callback
    PROVE  CallbackEffect
<1> USE DEF CallbackEffect
<1>1. ASSUME NEW s \in Sockets, NEW f \in Fds, NEW m \in {"accept", "connect", "data"},
             NEW w \in SUBSET Readiness, AddMultiplexedSocket(s, f, m, w)
      PROVE  CallbackEffect
  BY <1>1 DEF AddMultiplexedSocket
<1>2. ASSUME NEW s \in Sockets, NEW step, AddMultiplexedSocketFails(s, step)
      PROVE  CallbackEffect
  BY <1>2, AddFailsRollsBack DEF AddMultiplexedSocketFails, listVars, objectVars
<1>3. ASSUME NEW s \in Sockets, NEW w \in SUBSET Readiness,
             UpdateMultiplexedSocket(s, w) \/ ChangeWants(s, w)
      PROVE  CallbackEffect
  BY <1>3 DEF UpdateMultiplexedSocket, ChangeWants, listVars
<1>4. ASSUME NEW t \in Sockets, AbortPeer(t)
      PROVE  CallbackEffect
  <2>1. t \in active /\ RemoveMultiplexedSocket(t) /\ pc' = pc
    BY <1>4 DEF AbortPeer
  <2>2. QED
    BY <2>1, RemoveSucceeds
<1>5. CASE CloseDescriptor
  BY <1>5 DEF CloseDescriptor, listVars, controlVars
<1>6. QED
  BY <1>1, <1>2, <1>3, <1>4, <1>5 DEF Callback

-----------------------------------------------------------------------------
(***************************************************************************)
(* The invariant holds in every reachable state.                           *)
(***************************************************************************)
THEOREM Invariance == Spec => []IInv
<1>1. QED
  BY InitIInv, NextIInv, PTL DEF Spec

(***************************************************************************)
(* Every variable of the event loop keeps its type; in particular the      *)
(* error counter of run() never passes its limit.                          *)
(***************************************************************************)
THEOREM TypeCorrect == Spec => []TypeOK
<1>1. IInv => TypeOK
  BY DEF IInv
<1>2. QED
  BY <1>1, Invariance, PTL

(***************************************************************************)
(* The lists, flags, timers and the epoll set agree about every socket     *)
(* whatever the callbacks add, update and abort: removeMultiplexedSocket   *)
(* never fails on an active socket.                                        *)
(***************************************************************************)
THEOREM ListsAgree == Spec => []ListsConsistent
<1>1. IInv => ListsConsistent
  BY DEF IInv
<1>2. QED
  BY <1>1, Invariance, PTL

(***************************************************************************)
(* No callback of a removed socket is called by run() or                   *)
(* checkIdleSockets().                                                     *)
(***************************************************************************)
THEOREM RemovedStaysSilent == Spec => []NoCallbackAfterRemove
<1>1. IInv => NoCallbackAfterRemove
  BY DEF IInv
<1>2. QED
  BY <1>1, Invariance, PTL

(***************************************************************************)
(* reclaiming dead sockets after the batch is late enough: the step that   *)
(* destroys a socket happens when no event and no callback refers to it.   *)
(***************************************************************************)
THEOREM NoUseAfterDestroy == Spec => NoDanglingEvents
<1>1. ASSUME IInv, [Next]_vars
      PROVE  [\A s \in live \ live' :
                 /\ \A e \in events : e.sock # s
                 /\ \A i \in 1..Len(removing) : removing[i] # s
                 /\ cb # "none" => cur # s]_vars
  <2>1. CASE Reap \/ DestroyFinish
    BY <1>1, <2>1, ReapStep
  <2>2. CASE live \subseteq live'
    BY <2>2
  <2>3. live \subseteq live' \/ Reap \/ DestroyFinish
    <3>1. CASE Callback
      BY <1>1, <3>1, CallbackMoves DEF CallbackEffect
    <3>2. CASE Return
      BY <3>2 DEF Return, HandleRemoveReturns, HandleAcceptReturns, HandleFailureReturns,
                  HandleIoReturns, objectVars
    <3>3. CASE Loop
      BY <3>3 DEF Loop, Start, LoopTop, CheckIdleSockets, NoIdleSockets, Wait, EpollWaitReturnsEvents,
                  EpollWaitTimesOut, EpollWaitFails, SkipDeadSocket, HandleEvent, KeepSocket, Evict,
                  DestroyRemove, RemoveMultiplexedSocket, objectVars
    <3>4. CASE Stop \/ UNCHANGED vars
      BY <3>4 DEF Stop, vars, objectVars
    <3>5. QED
      BY <1>1, <3>1, <3>2, <3>3, <3>4 DEF Next
  <2>4. QED
    BY <2>1, <2>2, <2>3
<1>2. QED
  BY <1>1, Invariance, PTL DEF Spec, NoDanglingEvents

-----------------------------------------------------------------------------
(***************************************************************************)
(* The active socket count.                                                *)
(***************************************************************************)
LEMMA CountStep ==
    ASSUME IInv, CountExact, [Next]_vars
    PROVE  CountExact'
<1>1. IsFiniteSet(active) /\ Cardinality(active) \in Nat
  BY ConstantsAssumption, FS_Subset, FS_CardinalityType DEF IInv, TypeOK
<1>2. CASE \E s \in Sockets, f \in Fds, m \in {"accept", "connect", "data"}, w \in SUBSET Readiness :
              AddMultiplexedSocket(s, f, m, w)
  <2>1. PICK s \in Sockets : /\ s \notin live /\ active' = active \cup {s}
                             /\ count + 1 <= MaxSockets /\ count' = count + 1
    BY <1>2 DEF AddMultiplexedSocket
  <2>2. s \notin active
    BY <2>1 DEF IInv, ListsConsistent
  <2>3. Cardinality(active \cup {s}) = Cardinality(active) + 1
    BY <1>1, <2>2, FS_AddElement
  <2>4. QED
    BY <2>1, <2>3 DEF CountExact
<1>3. ASSUME NEW s \in active, RemoveMultiplexedSocket(s)
      PROVE  CountExact'
  <2>1. active' = active \ {s} /\ count' = count - 1
    BY <1>3, RemoveSucceeds
  <2>2. Cardinality(active \ {s}) = Cardinality(active) - 1
    BY <1>1, FS_RemoveElement
  <2>3. QED
    BY <1>1, <2>1, <2>2, ConstantsAssumption DEF CountExact
<1>4. CASE UNCHANGED <<active, count>>
  BY <1>4 DEF CountExact
<1>5. \/ \E s \in Sockets, f \in Fds, m \in {"accept", "connect", "data"}, w \in SUBSET Readiness :
              AddMultiplexedSocket(s, f, m, w)
      \/ \E s \in active : RemoveMultiplexedSocket(s)
      \/ UNCHANGED <<active, count>>
  <2>1. CASE Callback
    BY <2>1, AddFailsRollsBack DEF Callback, UpdateMultiplexedSocket, ChangeWants, AbortPeer,
                CloseDescriptor, listVars
  <2>2. CASE Return
    BY <2>2 DEF Return, HandleRemoveReturns, HandleAcceptReturns, HandleFailureReturns,
                HandleIoReturns, listVars
  <2>3. CASE Evict
    BY <2>3 DEF Evict, IInv, ControlConsistent
  <2>4. CASE Loop /\ ~Evict
    BY <2>4 DEF Loop, Start, LoopTop, CheckIdleSockets, NoIdleSockets, Wait, EpollWaitReturnsEvents,
                EpollWaitTimesOut, EpollWaitFails, SkipDeadSocket, HandleEvent, KeepSocket, Reap,
                DestroyRemove, DestroyFinish, listVars
  <2>5. CASE Stop \/ UNCHANGED vars
    BY <2>5 DEF Stop, vars, listVars
  <2>6. QED
    BY <2>1, <2>2, <2>3, <2>4, <2>5 DEF Next
<1>6. QED
  BY <1>2, <1>3, <1>4, <1>5

(***************************************************************************)
(* The count destroy() compares with the length of the list is exact, and  *)
(* the limit given to the constructor is never exceeded.                   *)
(***************************************************************************)
THEOREM CountCorrect == Spec => []CountExact
<1>1. Init => CountExact
  BY FS_EmptySet, ConstantsAssumption DEF Init, CountExact
<1>2. IInv /\ CountExact /\ [Next]_vars => CountExact'
  BY CountStep
<1>3. QED
  BY <1>1, <1>2, Invariance, PTL DEF Spec

-----------------------------------------------------------------------------
(***************************************************************************)
(* Idle timers.                                                            *)
(***************************************************************************)
LEMMA IdleStep ==
    ASSUME IInv, IdleCovered, [Next]_vars
    PROVE  IdleCovered'
<1>1. ASSUME NEW s \in active, RemoveMultiplexedSocket(s), UNCHANGED <<pc, cur, cb>> \/ s = cur
      PROVE  IdleCovered'
  <2>1. active' = active \ {s} /\ timers' = timers \ {s}
    BY <1>1, RemoveSucceeds
  <2>2. QED
    BY <1>1, <2>1 DEF IdleCovered
<1>2. CASE Callback
  <2>1. ASSUME NEW s \in Sockets, NEW f \in Fds, NEW m, NEW w, AddMultiplexedSocket(s, f, m, w)
        PROVE  IdleCovered'
    BY <2>1 DEF AddMultiplexedSocket, IdleCovered
  <2>2. ASSUME NEW t \in Sockets, AbortPeer(t)
        PROVE  IdleCovered'
    BY <1>1, <2>2 DEF AbortPeer
  <2>3. CASE UNCHANGED <<active, timers, cur, cb, pc>>
    BY <2>3 DEF IdleCovered
  <2>4. ASSUME NEW s \in Sockets, NEW step, AddMultiplexedSocketFails(s, step)
        PROVE  UNCHANGED <<active, timers, cur, cb, pc>>
    BY <2>4, AddFailsRollsBack DEF AddMultiplexedSocketFails, listVars
  <2>5. QED
    BY <1>2, <2>1, <2>2, <2>3, <2>4
       DEF Callback, UpdateMultiplexedSocket, ChangeWants, CloseDescriptor, listVars, controlVars
<1>3. CASE Return
  <2>1. UNCHANGED <<active, timers, cur>>
    BY <1>3 DEF Return, HandleRemoveReturns, HandleAcceptReturns, HandleFailureReturns,
                HandleIoReturns, listVars
  <2>2. (cb' = cb /\ pc' = pc) \/ pc' \in {"post", "evict", "evictIdle"}
    BY <1>3 DEF Return, HandleRemoveReturns, HandleAcceptReturns, HandleFailureReturns,
                HandleIoReturns, IInv, ControlConsistent
  <2>3. QED
    BY <2>1, <2>2 DEF IdleCovered
<1>4. CASE Loop
  <2>1. ASSUME NEW s \in Sockets, CheckIdleSockets(s)
        PROVE  IdleCovered'
    BY <2>1 DEF CheckIdleSockets, InLoop, IdleCovered
  <2>2. ASSUME NEW e \in events, HandleEvent(e)
        PROVE  IdleCovered'
    BY <2>2 DEF HandleEvent, InLoop, IdleCovered, listVars
  <2>3. ASSUME NEW wheel \in {"SUCCESS", "UNDERFLOW", "OVERFLOW"}, KeepSocket(wheel)
        PROVE  IdleCovered'
    BY <2>3 DEF KeepSocket, IdleCovered
  <2>4. CASE Evict
    <3>1. cur \in active /\ RemoveMultiplexedSocket(cur)
      BY <2>4 DEF Evict, IInv, ControlConsistent
    <3>2. active' = active \ {cur} /\ timers' = timers \ {cur}
      BY <3>1, RemoveSucceeds
    <3>3. QED
      BY <3>2 DEF IdleCovered
  <2>5. ASSUME NEW s \in Sockets, DestroyRemove(s)
        PROVE  IdleCovered'
    BY <1>1, <2>5 DEF DestroyRemove
  <2>6. CASE DestroyFinish
    BY <2>6 DEF DestroyFinish, IdleCovered
  <2>7. CASE /\ UNCHANGED <<active, timers, cur, cb>>
             /\ InLoop /\ pc \notin {"post", "evict", "evictIdle"}
    BY <2>7 DEF IdleCovered, InLoop
  <2>8. Start \/ LoopTop \/ NoIdleSockets \/ Wait \/ (\E e \in events : SkipDeadSocket(e)) \/ Reap
           => /\ UNCHANGED <<active, timers, cur, cb>>
              /\ InLoop /\ pc \notin {"post", "evict", "evictIdle"}
    BY DEF Start, LoopTop, NoIdleSockets, Wait, EpollWaitReturnsEvents, EpollWaitTimesOut,
           EpollWaitFails, SkipDeadSocket, Reap, listVars, controlVars, IInv, ControlConsistent
  <2>9. QED
    BY <1>4, <2>1, <2>2, <2>3, <2>4, <2>5, <2>6, <2>7, <2>8 DEF Loop
<1>5. CASE Stop \/ UNCHANGED vars
  BY <1>5 DEF Stop, vars, listVars, controlVars, IdleCovered
<1>6. QED
  BY <1>2, <1>3, <1>4, <1>5 DEF Next

(***************************************************************************)
(* No connection escapes the idle timeout: whenever run() waits, every     *)
(* socket that is not permanent has a timer in the wheel.                  *)
(***************************************************************************)
THEOREM IdleCorrect == Spec => []IdleTimeoutCoversAll
<1>1. Init => IdleCovered
  BY DEF Init, IdleCovered
<1>2. IInv /\ IdleCovered /\ [Next]_vars => IdleCovered'
  BY IdleStep
<1>3. IInv /\ IdleCovered => IdleTimeoutCoversAll
  BY DEF IInv, ControlConsistent, IdleCovered, IdleTimeoutCoversAll
<1>4. QED
  BY <1>1, <1>2, <1>3, Invariance, PTL DEF Spec

-----------------------------------------------------------------------------
(***************************************************************************)
(* Readiness interests.                                                    *)
(***************************************************************************)
LEMMA UpdateTracks ==
    ASSUME IInv, NEW s \in active, NEW m, NEW w \in SUBSET Readiness,
           cache[fd[s]] = interest[fd[s]], UpdateKernel(s, m, w)
    PROVE  /\ cache'[fd[s]] = interest'[fd[s]]
           /\ interest'[fd[s]] \ {"ET"} = Wanted(m, w)
           /\ \A t \in active \ {s} : /\ cache'[fd[t]] = cache[fd[t]]
                                      /\ interest'[fd[t]] = interest[fd[t]]
           /\ unannounced' = unannounced \ {s}
<1>1. Wanted(m, w) \ {"ET"} = Wanted(m, w)
  BY WantedType DEF Readiness
<1>2. fd[s] \in registered /\ fd[s] \in Fds
  BY DEF IInv, ListsConsistent, TypeOK
<1>3. \A t \in active \ {s} : fd[t] # fd[s]
  BY DEF IInv, ListsConsistent
<1>a. unannounced' = unannounced \ {s}
  BY DEF UpdateKernel
<1>4. CASE cache[fd[s]] # Wanted(m, w)
  <2>1. /\ interest' = [interest EXCEPT ![fd[s]] = Wanted(m, w)]
        /\ cache' = [cache EXCEPT ![fd[s]] = Wanted(m, w)]
    BY <1>2, <1>4 DEF UpdateKernel
  <2>2. cache \in [Fds -> Interests] /\ interest \in [Fds -> Interests]
    BY DEF IInv, TypeOK
  <2>3. QED
    BY <1>1, <1>2, <1>3, <1>a, <2>1, <2>2
<1>5. CASE cache[fd[s]] = Wanted(m, w)
  BY <1>1, <1>5 DEF UpdateKernel
<1>6. QED
  BY <1>4, <1>5

LEMMA InterestStep ==
    ASSUME IInv, InterestsTracked, [Next]_vars
    PROVE  InterestsTracked'
<1> USE DEF InterestsTracked
<1>1. ASSUME NEW s \in active, RemoveMultiplexedSocket(s), UNCHANGED <<pc, cur>> \/ s = cur
      PROVE  InterestsTracked'
  <2>1. /\ active' = active \ {s} /\ fd' = fd /\ mode' = mode /\ want' = want
        /\ unannounced' = unannounced \ {s}
        /\ interest' = [interest EXCEPT ![fd[s]] = {}]
        /\ cache' = [cache EXCEPT ![fd[s]] = {}]
    BY <1>1, RemoveSucceeds
  <2>2. \A t \in active' : fd[t] # fd[s] /\ fd[t] \in Fds
    BY <2>1 DEF IInv, ListsConsistent, TypeOK
  <2>3. \A t \in active' : interest'[fd[t]] = interest[fd[t]] /\ cache'[fd[t]] = cache[fd[t]]
    BY <2>1, <2>2 DEF IInv, TypeOK
  <2>4. QED
    BY <1>1, <2>1, <2>3
<1>2. CASE Callback
  <2>1. ASSUME NEW s \in Sockets, NEW f \in Fds, NEW m \in {"accept", "connect", "data"},
               NEW w \in SUBSET Readiness, AddMultiplexedSocket(s, f, m, w)
        PROVE  InterestsTracked'
    <3>1. /\ s \notin live /\ \A t \in live : fd[t] # f
          /\ active' = active \cup {s} /\ pc' = pc /\ cur' = cur /\ unannounced' = unannounced
          /\ interest' = [interest EXCEPT ![f] = Wanted(m, w) \cup {"ET"}]
          /\ cache' = [cache EXCEPT ![f] = Wanted(m, w) \cup {"ET"}]
          /\ fd' = [fd EXCEPT ![s] = f] /\ mode' = [mode EXCEPT ![s] = m]
          /\ want' = [want EXCEPT ![s] = w]
      BY <2>1 DEF AddMultiplexedSocket
    <3>2. \A t \in active : t # s /\ t \in Sockets /\ fd[t] # f /\ fd[t] \in Fds
      BY <3>1 DEF IInv, ListsConsistent, TypeOK
    <3>3. \A t \in active : /\ fd'[t] = fd[t] /\ mode'[t] = mode[t] /\ want'[t] = want[t]
                            /\ interest'[fd[t]] = interest[fd[t]] /\ cache'[fd[t]] = cache[fd[t]]
      BY <3>1, <3>2 DEF IInv, TypeOK
    <3>4. /\ fd'[s] = f /\ mode'[s] = m /\ want'[s] = w
          /\ interest'[f] = Wanted(m, w) \cup {"ET"} /\ cache'[f] = Wanted(m, w) \cup {"ET"}
      BY <3>1 DEF IInv, TypeOK
    <3>5. (Wanted(m, w) \cup {"ET"}) \ {"ET"} = Wanted(m, w)
      BY WantedType DEF Readiness
    <3>6. /\ cache'[fd'[s]] = interest'[fd'[s]]
          /\ interest'[fd'[s]] \ {"ET"} = Wanted(mode'[s], want'[s])
      BY <3>4, <3>5
    <3>7. \A t \in active : /\ cache'[fd'[t]] = interest'[fd'[t]]
                            /\ \/ interest'[fd'[t]] \ {"ET"} = Wanted(mode'[t], want'[t])
                               \/ t = cur' /\ pc' \in {"post", "evict"}
                               \/ t \in unannounced'
      <4>1. TAKE t \in active
      <4>2. /\ fd'[t] = fd[t] /\ mode'[t] = mode[t] /\ want'[t] = want[t]
            /\ interest'[fd[t]] = interest[fd[t]] /\ cache'[fd[t]] = cache[fd[t]]
            /\ pc' = pc /\ cur' = cur /\ unannounced' = unannounced
        BY <3>1, <3>3
      <4>3. /\ cache[fd[t]] = interest[fd[t]]
            /\ \/ interest[fd[t]] \ {"ET"} = Wanted(mode[t], want[t])
               \/ t = cur /\ pc \in {"post", "evict"}
               \/ t \in unannounced
        OBVIOUS
      <4>4. QED
        BY <4>2, <4>3
    <3>8. QED
      BY <3>1, <3>6, <3>7
  <2>2. ASSUME NEW t \in Sockets, AbortPeer(t)
        PROVE  InterestsTracked'
    BY <1>1, <2>2 DEF AbortPeer
  <2>3. ASSUME NEW s \in Sockets, NEW w \in SUBSET Readiness, UpdateMultiplexedSocket(s, w)
        PROVE  InterestsTracked'
    <3>1. /\ s \in active /\ UpdateKernel(s, mode[s], w) /\ want' = [want EXCEPT ![s] = w]
          /\ UNCHANGED <<active, fd, mode, pc, cur>>
      BY <2>3 DEF UpdateMultiplexedSocket, listVars
    <3>2. want'[s] = w /\ \A t \in active \ {s} : want'[t] = want[t]
      BY <3>1 DEF IInv, TypeOK
    <3>3. /\ cache'[fd[s]] = interest'[fd[s]] /\ interest'[fd[s]] \ {"ET"} = Wanted(mode[s], w)
          /\ \A t \in active \ {s} : /\ cache'[fd[t]] = cache[fd[t]]
                                     /\ interest'[fd[t]] = interest[fd[t]]
          /\ unannounced' = unannounced \ {s}
      BY <3>1, UpdateTracks
    <3>4. QED
      BY <3>1, <3>2, <3>3
  <2>4. CASE CloseDescriptor
    <3>1. /\ fd' = [fd EXCEPT ![Head(removing)] = NoFd] /\ removing # <<>>
          /\ UNCHANGED <<active, cache, interest, unannounced, mode, want, pc, cur>>
      BY <2>4 DEF CloseDescriptor, listVars, kernelVars, controlVars
    <3>2. Head(removing) \in deadList
      <4>1. removing \in Seq(Sockets)
        BY DEF IInv, TypeOK
      <4>2. Head(removing) = removing[1] /\ 1 \in 1..Len(removing)
        BY <3>1, <4>1, PopElements
      <4>3. QED
        BY <4>2 DEF IInv, NoCallbackAfterRemove
    <3>3. \A t \in active : fd'[t] = fd[t]
      BY <3>1, <3>2 DEF IInv, ListsConsistent, TypeOK
    <3>4. QED
      BY <3>1, <3>3
  <2>5. ASSUME NEW s \in Sockets, NEW step, AddMultiplexedSocketFails(s, step)
        PROVE  InterestsTracked'
    <3>1. UNCHANGED <<active, cache, interest, unannounced, fd, mode, want, pc, cur>>
      BY <2>5, AddFailsRollsBack DEF AddMultiplexedSocketFails, listVars, kernelVars, objectVars
    <3>2. QED
      BY <3>1
  <2>6. ASSUME NEW s \in Sockets, NEW w \in SUBSET Readiness, ChangeWants(s, w)
        PROVE  InterestsTracked'
    <3>1. /\ s \in active \ Permanent
          /\ want' = [want EXCEPT ![s] = w] /\ unannounced' = unannounced \cup {s}
          /\ UNCHANGED <<active, cache, interest, fd, mode, pc, cur>>
      BY <2>6 DEF ChangeWants, listVars
    <3>2. \A t \in active \ {s} : want'[t] = want[t]
      BY <3>1 DEF IInv, TypeOK
    <3>3. QED
      BY <3>1, <3>2
  <2>7. QED
    BY <1>2, <2>1, <2>2, <2>3, <2>4, <2>5, <2>6 DEF Callback
<1>3. CASE Return
  <2>1. /\ UNCHANGED <<active, cur, cache, interest, unannounced, fd>>
        /\ (pc' = pc /\ UNCHANGED <<mode, want>>) \/ cb # "none"
    BY <1>3 DEF Return, HandleRemoveReturns, HandleAcceptReturns, HandleFailureReturns,
                HandleIoReturns, listVars, kernelVars, objectVars
  <2>2. CASE HandleFailureReturns
    BY <2>1, <2>2 DEF HandleFailureReturns, objectVars, IInv, ControlConsistent
  <2>3. CASE \E r \in {"AGAIN", "SUCCESS", "ERROR"} : HandleAcceptReturns(r)
    BY <2>1, <2>3 DEF HandleAcceptReturns, objectVars, IInv, ControlConsistent
  <2>4. ASSUME NEW keep \in BOOLEAN, NEW w \in SUBSET Readiness, HandleIoReturns(keep, w)
        PROVE  InterestsTracked'
    <3>1. pc' \in {"post", "evict"}
      BY <2>4 DEF HandleIoReturns, IInv, ControlConsistent
    <3>2. \A t \in active \ {cur} : mode'[t] = mode[t] /\ want'[t] = want[t]
      BY <2>4 DEF HandleIoReturns, IInv, TypeOK
    <3>3. QED
      BY <2>1, <3>1, <3>2
  <2>5. QED
    BY <1>3, <2>1, <2>2, <2>3, <2>4 DEF Return, HandleRemoveReturns, objectVars
<1>4. CASE Loop
  <2>1. ASSUME NEW e \in events, HandleEvent(e)
        PROVE  InterestsTracked'
    BY <2>1 DEF HandleEvent, listVars, kernelVars, objectVars
  <2>2. ASSUME NEW wheel \in {"SUCCESS", "UNDERFLOW", "OVERFLOW"}, KeepSocket(wheel)
        PROVE  InterestsTracked'
    <3>1. pc = "post" /\ cur \in active /\ UNCHANGED <<active, fd, mode, want, cur>>
      BY <2>2 DEF KeepSocket, objectVars, IInv, ControlConsistent
    <3>2. want[cur] \in SUBSET Readiness
      BY <3>1 DEF IInv, TypeOK
    <3>3. \/ UpdateKernel(cur, mode[cur], want[cur])
          \/ UNCHANGED <<cache, interest, unannounced>> /\ pc' \in {"post", "evict"}
      <4>1. CASE cur \in Permanent \/ ~IdleTimeout \/ wheel = "SUCCESS"
        BY <2>2, <4>1 DEF KeepSocket
      <4>2. CASE ~(cur \in Permanent \/ ~IdleTimeout \/ wheel = "SUCCESS")
        BY <2>2, <3>1, <4>2 DEF KeepSocket, kernelVars
      <4>3. QED
        BY <4>1, <4>2
    <3>4. CASE UpdateKernel(cur, mode[cur], want[cur])
      <4>1. /\ cache'[fd[cur]] = interest'[fd[cur]]
            /\ interest'[fd[cur]] \ {"ET"} = Wanted(mode[cur], want[cur])
            /\ \A t \in active \ {cur} : /\ cache'[fd[t]] = cache[fd[t]]
                                         /\ interest'[fd[t]] = interest[fd[t]]
            /\ unannounced' = unannounced \ {cur}
        <5>1. cache[fd[cur]] = interest[fd[cur]]
          BY <3>1
        <5>2. QED
          BY <3>1, <3>2, <3>4, <5>1, UpdateTracks
      <4>2. QED
        BY <3>1, <4>1
    <3>5. CASE UNCHANGED <<cache, interest, unannounced>> /\ pc' \in {"post", "evict"}
      BY <3>1, <3>5
    <3>6. QED
      BY <3>3, <3>4, <3>5
  <2>3. CASE Evict
    <3>1. cur \in active /\ RemoveMultiplexedSocket(cur)
      BY <2>3 DEF Evict, IInv, ControlConsistent
    <3>2. QED
      BY <1>1, <3>1
  <2>4. ASSUME NEW s \in Sockets, DestroyRemove(s)
        PROVE  InterestsTracked'
    BY <1>1, <2>4 DEF DestroyRemove
  <2>5. CASE Reap \/ DestroyFinish
    <3>1. /\ ReapDeadSockets /\ UNCHANGED <<active, cache, interest, unannounced, cur>> /\ pc \notin {"post", "evict"}
      BY <2>5 DEF Reap, DestroyFinish, kernelVars
    <3>2. \A s \in active : fd'[s] = fd[s] /\ mode'[s] = mode[s] /\ want'[s] = want[s]
      BY <3>1 DEF ReapDeadSockets, IInv, ListsConsistent, TypeOK
    <3>3. QED
      BY <3>1, <3>2
  <2>6. Start \/ LoopTop \/ NoIdleSockets \/ Wait \/ (\E s \in Sockets : CheckIdleSockets(s))
              \/ (\E e \in events : SkipDeadSocket(e))
           => UNCHANGED <<active, cache, interest, unannounced, fd, mode, want>> /\ pc \notin {"post", "evict"}
    BY DEF Start, LoopTop, NoIdleSockets, Wait, EpollWaitReturnsEvents, EpollWaitTimesOut,
           EpollWaitFails, CheckIdleSockets, SkipDeadSocket, listVars, kernelVars, objectVars
  <2>7. CASE UNCHANGED <<active, cache, interest, unannounced, fd, mode, want>> /\ pc \notin {"post", "evict"}
    BY <2>7
  <2>8. QED
    BY <1>4, <2>1, <2>2, <2>3, <2>4, <2>5, <2>6, <2>7 DEF Loop
<1>5. CASE Stop \/ UNCHANGED vars
  BY <1>5 DEF Stop, vars, listVars, kernelVars, objectVars, controlVars
<1>6. QED
  BY <1>2, <1>3, <1>4, <1>5 DEF Next

(***************************************************************************)
(* No wakeup is lost to the interest cache of updateMultiplexedSocket:     *)
(* whenever run() waits, the kernel watches for exactly what every active  *)
(* socket wants, although descriptors are closed, reused and re-added.     *)
(* Only a connection whose wants another socket's call changed without     *)
(* telling the multiplexer can be behind; listeners and command sockets    *)
(* never are.                                                              *)
(***************************************************************************)
THEOREM InterestsCorrect == Spec => []InterestsCurrent
<1>1. Init => InterestsTracked
  BY DEF Init, InterestsTracked
<1>2. IInv /\ InterestsTracked /\ [Next]_vars => InterestsTracked'
  BY InterestStep
<1>3. InterestsTracked => InterestsCurrent
  BY DEF InterestsTracked, InterestsCurrent
<1>4. QED
  BY <1>1, <1>2, <1>3, Invariance, PTL DEF Spec

-----------------------------------------------------------------------------
(***************************************************************************)
(* Ownership of socket objects.                                            *)
(***************************************************************************)
LEMMA OwnershipStep ==
    ASSUME IInv, Ownership, [Next]_vars
    PROVE  Ownership'
<1>1. CASE pc = "stopped"
  <2>1. InLoop /\ active = {} /\ deadList \subseteq live /\ pc # "start" /\ events = {}
    BY <1>1 DEF Ownership, StoppedIsClean, IInv, ListsConsistent, ControlConsistent
  <2>2. UNCHANGED vars \/ Stop
    <3>1. ~Callback
      BY <1>1, <2>1 DEF Callback, AddMultiplexedSocket, AddMultiplexedSocketFails, InCallback,
                        UpdateMultiplexedSocket, ChangeWants, AbortPeer, CloseDescriptor, InLoop
    <3>2. ~Return
      BY <2>1 DEF Return, HandleRemoveReturns, HandleAcceptReturns, HandleFailureReturns,
                  HandleIoReturns, InLoop
    <3>3. ~Loop
      BY <1>1 DEF Loop, Start, LoopTop, CheckIdleSockets, NoIdleSockets, Wait, EpollWaitReturnsEvents,
                  EpollWaitTimesOut, EpollWaitFails, SkipDeadSocket, HandleEvent, KeepSocket, Evict,
                  Reap, DestroyRemove, DestroyFinish
    <3>4. QED
      BY <3>1, <3>2, <3>3 DEF Next
  <2>3. QED
    BY <2>2 DEF Stop, vars, listVars, kernelVars, objectVars, controlVars, Ownership, StoppedIsClean,
                InLoop
<1>2. CASE DestroyFinish
  <2>1. /\ active' = {} /\ registered' = registered /\ timers' = {} /\ live' = live \ (deadList \ NoCleanup)
        /\ UNCHANGED <<active, cb, removing>> /\ InLoop
    BY <1>2 DEF DestroyFinish, ReapDeadSockets, kernelVars
  <2>2. registered = {}
    BY <2>1 DEF IInv, ListsConsistent
  <2>3. live' \subseteq NoCleanup
    BY <2>1 DEF Ownership
  <2>4. QED
    BY <2>1, <2>2, <2>3 DEF Ownership, StoppedIsClean, InLoop
<1>3. CASE pc # "stopped" /\ ~DestroyFinish
  <2>1. pc' # "stopped"
    <3>1. CASE Callback
      BY <1>3, <3>1, CallbackMoves DEF CallbackEffect
    <3>2. CASE Return
      BY <1>3, <3>2 DEF Return, HandleRemoveReturns, HandleAcceptReturns, HandleFailureReturns,
                        HandleIoReturns
    <3>3. CASE Loop
      BY <1>3, <3>3 DEF Loop, Start, LoopTop, CheckIdleSockets, NoIdleSockets, Wait,
                        EpollWaitReturnsEvents, EpollWaitTimesOut, EpollWaitFails, SkipDeadSocket,
                        HandleEvent, KeepSocket, Evict, Reap, DestroyRemove, controlVars
    <3>4. CASE Stop \/ UNCHANGED vars
      BY <1>3, <3>4 DEF Stop, vars, controlVars
    <3>5. QED
      BY <3>1, <3>2, <3>3, <3>4 DEF Next
  <2>2. live' \subseteq active' \cup deadList' \cup NoCleanup
    <3>1. CASE \E s \in active : RemoveMultiplexedSocket(s)
      <4>1. PICK s \in active : RemoveMultiplexedSocket(s)
        BY <3>1
      <4>2. active' = active \ {s} /\ deadList' = deadList \cup {s} /\ live' = live
        BY <4>1, RemoveSucceeds
      <4>3. QED
        BY <4>2 DEF Ownership
    <3>2. CASE Callback
      BY <3>2, CallbackMoves DEF CallbackEffect, Ownership
    <3>3. CASE Return
      BY <3>3 DEF Return, HandleRemoveReturns, HandleAcceptReturns, HandleFailureReturns,
                  HandleIoReturns, listVars, objectVars, Ownership
    <3>4. CASE Evict
      BY <3>1, <3>4 DEF Evict, IInv, ControlConsistent
    <3>5. CASE Reap
      BY <3>5 DEF Reap, ReapDeadSockets, Ownership
    <3>6. CASE Loop /\ ~Evict /\ ~Reap
      BY <1>3, <3>1, <3>6 DEF Loop, Start, LoopTop, CheckIdleSockets, NoIdleSockets, Wait,
                        EpollWaitReturnsEvents, EpollWaitTimesOut, EpollWaitFails, SkipDeadSocket,
                        HandleEvent, KeepSocket, DestroyRemove, listVars, objectVars, Ownership
    <3>7. CASE Stop \/ UNCHANGED vars
      BY <3>7 DEF Stop, vars, listVars, objectVars, Ownership
    <3>8. QED
      BY <3>2, <3>3, <3>4, <3>5, <3>6, <3>7 DEF Next
  <2>3. QED
    BY <2>1, <2>2 DEF Ownership
<1>4. QED
  BY <1>1, <1>2, <1>3

(***************************************************************************)
(* Whenever run() waits, the kernel watches for what every socket wants,   *)
(* or the socket was changed unannounced, and both are covered by an idle  *)
(* timer: no connection is left that neither epoll_wait nor                *)
(* checkIdleSockets will ever report.                                      *)
(***************************************************************************)
THEOREM WaitingIsSafe == Spec => []WaitingCoversAll
<1>1. InterestsCurrent /\ IdleTimeoutCoversAll => WaitingCoversAll
  BY DEF WaitingCoversAll
<1>2. QED
  BY <1>1, IdleCorrect, InterestsCorrect, PTL

(***************************************************************************)
(* When run() returns after a stop, destroy() has removed every socket,    *)
(* left the epoll set and the wheel empty, and destroyed every object that *)
(* has a cleanup handler.                                                  *)
(***************************************************************************)
THEOREM ShutdownIsClean == Spec => []StoppedIsClean
<1>1. Init => Ownership
  BY DEF Init, Ownership
<1>2. IInv /\ Ownership /\ [Next]_vars => Ownership'
  BY OwnershipStep
<1>3. Ownership => StoppedIsClean
  BY DEF Ownership, StoppedIsClean
<1>4. QED
  BY <1>1, <1>2, <1>3, Invariance, PTL DEF Spec

=============================================================================

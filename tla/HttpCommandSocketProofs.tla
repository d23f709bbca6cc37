---------------------- MODULE HttpCommandSocketProofs ----------------------
(***************************************************************************)
(* The safety properties of HttpCommandSocket, for any number of threads   *)
(* and commands.                                                           *)
(*                                                                         *)
(* The argument is the count in Sync: until the socket is removed, the     *)
(* queue holds one command for each unit of the eventfd's counter, for     *)
(* each turn handleReadable still has to take, and for each thread that    *)
(* queued its command and has not written the eventfd yet.                 *)
(***************************************************************************)
EXTENDS HttpCommandSocket, FiniteSetTheorems, TLAPS

Sync == loop # "removed" => Len(queue) = counter + left + Cardinality(Writers)

BatchOver == loop \notin {"popping", "running"} => left = 0

DeadAgrees == dead <=> loop \in {"removing", "removed"}

RunsSomething == loop = "running" => current \in Commands

IInv ==
    /\ TypeOK
    /\ RunsSomething
    /\ Sync
    /\ BatchOver
    /\ DeadAgrees
    /\ WakeupPending
    /\ NothingStranded

(***************************************************************************)
(* The threads between the critical section of pushInternal and its write  *)
(* are finitely many.                                                      *)
(***************************************************************************)
LEMMA WritersFinite ==
    /\ IsFiniteSet(Writers)
    /\ Cardinality(Writers) \in Nat
<1>1. Writers \subseteq Pushers
  BY DEF Writers
<1>2. IsFiniteSet(Pushers)
  BY CommandAssumption
<1>3. IsFiniteSet(Writers)
  BY <1>1, <1>2, FS_Subset
<1> QED
  BY <1>3, FS_CardinalityType

(***************************************************************************)
(* A thread that queues a command becomes one more writer.                 *)
(***************************************************************************)
LEMMA WriterJoins ==
    ASSUME TypeOK, NEW p \in Pushers, pusher[p] = "idle",
           pusher' = [pusher EXCEPT ![p] = "write"]
    PROVE  Cardinality(Writers') = Cardinality(Writers) + 1
<1>1. Writers' = Writers \cup {p}
  BY DEF Writers, TypeOK
<1>2. p \notin Writers
  BY DEF Writers
<1>3. IsFiniteSet(Writers)
  BY WritersFinite
<1> QED
  BY <1>1, <1>2, <1>3, FS_AddElement

(***************************************************************************)
(* A thread that wrote the eventfd is a writer no more.                    *)
(***************************************************************************)
LEMMA WriterLeaves ==
    ASSUME TypeOK, NEW p \in Pushers, pusher[p] = "write",
           pusher' = [pusher EXCEPT ![p] = "idle"]
    PROVE  Cardinality(Writers') = Cardinality(Writers) - 1
<1>1. Writers' = Writers \ {p}
  BY DEF Writers, TypeOK
<1>2. p \in Writers
  BY DEF Writers
<1>3. IsFiniteSet(Writers)
  BY WritersFinite
<1> QED
  BY <1>1, <1>2, <1>3, FS_RemoveElement

LEMMA InitIInv == Init => IInv
<1> SUFFICES ASSUME Init PROVE IInv
  OBVIOUS
<1>1. TypeOK
  <2>1. queue \in Seq(Commands) /\ pusher \in [Pushers -> {"idle", "write"}]
    BY DEF Init
  <2> QED
    BY <2>1 DEF Init, TypeOK, Locations
<1>2. Writers = {}
  BY DEF Init, Writers
<1>3. Cardinality(Writers) = 0
  BY <1>2, FS_EmptySet
<1>4. Sync
  BY <1>3 DEF Init, Sync
<1> QED
  BY <1>1, <1>4 DEF IInv, Init, BatchOver, RunsSomething, DeadAgrees, WakeupPending, NothingStranded, InEpollSet

LEMMA PushStep ==
    ASSUME IInv, NEW p \in Pushers, PushInternal(p)
    PROVE  IInv'
<1> USE DEF IInv
<1>0. PICK c \in Unused :
        \/ dead /\ refused' = refused \cup {c} /\ UNCHANGED <<queue, pusher>>
        \/ /\ ~dead /\ queue' = Append(queue, c)
           /\ pusher' = [pusher EXCEPT ![p] = "write"] /\ UNCHANGED refused
  BY DEF PushInternal
<1>1. c \in Commands
  BY <1>0 DEF Unused
<1>2. UNCHANGED <<counter, edge, dead, loop, left, current, ran, dropped>> /\ pusher[p] = "idle"
  BY DEF PushInternal
<1>3. CASE dead /\ refused' = refused \cup {c} /\ UNCHANGED <<queue, pusher>>
  <2>1. TypeOK'
    BY <1>1, <1>2, <1>3 DEF TypeOK
  <2>2. Writers' = Writers
    BY <1>3 DEF Writers
  <2>3. Sync'
    BY <1>2, <1>3, <2>2 DEF Sync
  <2> QED
    BY <1>2, <1>3, <2>1, <2>3 DEF BatchOver, RunsSomething, DeadAgrees, WakeupPending, NothingStranded, InEpollSet
<1>4. CASE /\ ~dead /\ queue' = Append(queue, c)
           /\ pusher' = [pusher EXCEPT ![p] = "write"] /\ UNCHANGED refused
  <2>1. TypeOK'
    BY <1>1, <1>2, <1>4 DEF TypeOK
  <2>2. Cardinality(Writers') = Cardinality(Writers) + 1
    BY <1>2, <1>4, WriterJoins
  <2>3. Cardinality(Writers) \in Nat
    BY WritersFinite
  <2>4. Len(queue') = Len(queue) + 1
    BY <1>1, <1>4 DEF TypeOK
  <2>5. Sync'
    <3>1. counter \in Nat /\ left \in Nat /\ UNCHANGED <<counter, left>>
      BY <1>2 DEF TypeOK
    <3>2. Len(queue) = counter + left + Cardinality(Writers)
      BY <1>4 DEF Sync, DeadAgrees
    <3> QED
      BY <3>1, <3>2, <2>2, <2>3, <2>4 DEF Sync
  <2>6. loop # "removed"
    BY <1>4 DEF DeadAgrees
  <2> QED
    BY <1>2, <1>4, <2>1, <2>5, <2>6 DEF BatchOver, RunsSomething, DeadAgrees, WakeupPending, NothingStranded, InEpollSet
<1> QED
  BY <1>0, <1>3, <1>4

LEMMA WriteStep ==
    ASSUME IInv, NEW p \in Pushers, Write(p)
    PROVE  IInv'
<1> USE DEF IInv
<1>1. /\ pusher[p] = "write" /\ pusher' = [pusher EXCEPT ![p] = "idle"]
      /\ counter' = counter + 1 /\ edge' = InEpollSet
      /\ UNCHANGED <<queue, dead, loop, left, current, ran, dropped, refused>>
  BY DEF Write, ghostVars
<1>2. TypeOK'
  BY <1>1 DEF TypeOK, InEpollSet
<1>3. Cardinality(Writers') = Cardinality(Writers) - 1
  BY <1>1, WriterLeaves
<1>4. Cardinality(Writers) \in Nat
  BY WritersFinite
<1>5. Sync'
  BY <1>1, <1>3, <1>4 DEF Sync, TypeOK
<1>6. WakeupPending'
  BY <1>1 DEF WakeupPending, InEpollSet
<1> QED
  BY <1>1, <1>2, <1>5, <1>6 DEF BatchOver, RunsSomething, DeadAgrees, NothingStranded

(***************************************************************************)
(* A step of the multiplexer's thread leaves the writers alone; PopCommand *)
(* takes one command for one turn, Read turns the counter into turns.      *)
(***************************************************************************)
LEMMA LoopStepInv ==
    ASSUME IInv, Register \/ LoopStep \/ MarkDead
    PROVE  IInv'
<1> USE DEF IInv, ghostVars
<1>0. Cardinality(Writers) \in Nat
  BY WritersFinite
<1>1. UNCHANGED pusher
  BY DEF Register, LoopStep, MarkDead, EpollWait, Read, PopCommand, RunCommand, ReadableReturns, HandleRemove
<1>2. Writers' = Writers
  BY <1>1 DEF Writers
<1>3. CASE Register
  <2>1. TypeOK'
    BY <1>3 DEF Register, TypeOK, Locations
  <2>2. Sync'
    BY <1>3, <1>2 DEF Register, Sync
  <2> QED
    BY <1>3, <2>1, <2>2 DEF Register, BatchOver, RunsSomething, DeadAgrees, WakeupPending, NothingStranded, InEpollSet
<1>4. CASE EpollWait
  <2>1. TypeOK'
    BY <1>4 DEF EpollWait, TypeOK, Locations
  <2>2. Sync'
    BY <1>4, <1>2 DEF EpollWait, Sync
  <2> QED
    BY <1>4, <2>1, <2>2 DEF EpollWait, BatchOver, RunsSomething, DeadAgrees, WakeupPending, NothingStranded, InEpollSet
<1>5. CASE Read
  <2>1. TypeOK'
    BY <1>5 DEF Read, TypeOK, Locations
  <2>2. Sync'
    BY <1>5, <1>2, <1>0 DEF Read, Sync, BatchOver, TypeOK
  <2> QED
    BY <1>5, <2>1, <2>2 DEF Read, BatchOver, RunsSomething, DeadAgrees, WakeupPending, NothingStranded, InEpollSet
<1>6. CASE PopCommand
  <2>1. Len(queue) > 0
    BY <1>6, <1>0 DEF PopCommand, Sync, TypeOK
  <2>2. queue # <<>>
    BY <2>1
  <2>3. /\ loop = "popping" /\ left > 0 /\ current' = Head(queue) /\ queue' = Tail(queue)
        /\ left' = left - 1 /\ loop' = "running"
        /\ UNCHANGED <<counter, edge, dead, pusher, ran, dropped, refused>>
    BY <1>6, <2>2 DEF PopCommand
  <2>4. queue' \in Seq(Commands) /\ current' \in Commands /\ Len(queue') = Len(queue) - 1
    BY <2>2, <2>3 DEF TypeOK
  <2>5. TypeOK'
    BY <2>3, <2>4 DEF TypeOK, Locations
  <2>6. Sync'
    <3>1. counter \in Nat /\ left \in Nat /\ counter' = counter /\ left' = left - 1
      BY <2>3 DEF TypeOK
    <3>2. Len(queue) = counter + left + Cardinality(Writers)
      BY <2>3 DEF Sync
    <3> QED
      BY <3>1, <3>2, <2>4, <1>0, <1>2 DEF Sync
  <2> QED
    BY <2>3, <2>4, <2>5, <2>6 DEF BatchOver, RunsSomething, DeadAgrees, WakeupPending, NothingStranded, InEpollSet
<1>7. CASE RunCommand
  <2>1. TypeOK'
    <3>1. ran' \subseteq Commands
      BY <1>7 DEF RunCommand, TypeOK, RunsSomething
    <3> QED
      BY <1>7, <3>1 DEF RunCommand, TypeOK, Locations
  <2>2. Sync'
    BY <1>7, <1>2 DEF RunCommand, Sync
  <2> QED
    BY <1>7, <2>1, <2>2 DEF RunCommand, BatchOver, RunsSomething, DeadAgrees, WakeupPending, NothingStranded, InEpollSet
<1>8. CASE ReadableReturns
  <2>1. TypeOK'
    BY <1>8 DEF ReadableReturns, TypeOK, Locations
  <2>2. Sync'
    BY <1>8, <1>2 DEF ReadableReturns, Sync
  <2> QED
    BY <1>8, <2>1, <2>2 DEF ReadableReturns, BatchOver, RunsSomething, DeadAgrees, WakeupPending, NothingStranded, InEpollSet
<1>9. CASE HandleRemove
  <2>1. TypeOK'
    <3>1. Queued \subseteq Commands
      BY DEF Queued, TypeOK
    <3> QED
      BY <1>9, <3>1 DEF HandleRemove, TypeOK, Locations
  <2> QED
    BY <1>9, <2>1 DEF HandleRemove, Sync, BatchOver, RunsSomething, DeadAgrees, WakeupPending, NothingStranded, InEpollSet
<1>10. CASE MarkDead
  <2>1. TypeOK'
    BY <1>10 DEF MarkDead, TypeOK, Locations
  <2>2. Sync'
    BY <1>10, <1>2 DEF MarkDead, Sync
  <2> QED
    BY <1>10, <2>1, <2>2 DEF MarkDead, BatchOver, RunsSomething, DeadAgrees, WakeupPending, NothingStranded, InEpollSet
<1> QED
  BY <1>3, <1>4, <1>5, <1>6, <1>7, <1>8, <1>9, <1>10 DEF LoopStep

(***************************************************************************)
(* The inductive invariant holds in every reachable state.                 *)
(***************************************************************************)
THEOREM Invariance == Spec => []IInv
<1>1. IInv /\ [Next]_vars => IInv'
  <2> SUFFICES ASSUME IInv, [Next]_vars PROVE IInv'
    OBVIOUS
  <2>1. ASSUME NEW p \in Pushers, PushInternal(p) PROVE IInv'
    BY <2>1, PushStep
  <2>2. ASSUME NEW p \in Pushers, Write(p) PROVE IInv'
    BY <2>2, WriteStep
  <2>3. CASE Register \/ LoopStep \/ MarkDead
    BY <2>3, LoopStepInv
  <2>4. CASE UNCHANGED vars
    <3>1. Writers' = Writers
      BY <2>4 DEF vars, Writers
    <3> QED
      BY <2>4, <3>1 DEF vars, ghostVars, IInv, TypeOK, Sync, BatchOver, RunsSomething, DeadAgrees, WakeupPending,
                        NothingStranded, InEpollSet
  <2> QED
    BY <2>1, <2>2, <2>3, <2>4 DEF Next
<1> QED
  BY InitIInv, <1>1, PTL DEF Spec

(***************************************************************************)
(* handleReadable never finds the queue empty while it still owes a        *)
(* command ("command socket and queue are out of sync").                   *)
(***************************************************************************)
THEOREM CounterMatchesQueue == Spec => []NeverOutOfSync
<1>1. IInv => NeverOutOfSync
  <2> SUFFICES ASSUME IInv, loop = "popping", left > 0 PROVE queue # <<>>
    BY DEF NeverOutOfSync
  <2>1. Cardinality(Writers) \in Nat
    BY WritersFinite
  <2>2. Len(queue) > 0
    BY <2>1 DEF IInv, Sync, TypeOK
  <2> QED
    BY <2>2
<1> QED
  BY <1>1, Invariance, PTL

(***************************************************************************)
(* A positive counter of a registered eventfd is always about to be seen.  *)
(***************************************************************************)
THEOREM NoWakeupLost == Spec => []WakeupPending
<1>1. IInv => WakeupPending
  BY DEF IInv
<1> QED
  BY <1>1, Invariance, PTL

(***************************************************************************)
(* No command is left in the queue of a removed command socket.            *)
(***************************************************************************)
THEOREM RemovedIsEmpty == Spec => []NothingStranded
<1>1. IInv => NothingStranded
  BY DEF IInv
<1> QED
  BY <1>1, Invariance, PTL
=============================================================================

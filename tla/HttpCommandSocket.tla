------------------------- MODULE HttpCommandSocket -------------------------
(***************************************************************************)
(* The command socket of data-plane/http1/source/ESHttpCommandSocket.cpp:  *)
(* any thread hands a command to a multiplexer thread by adding it to a    *)
(* queue under a mutex and then writing 1 to an eventfd                    *)
(* (base/source/ESBEventSocket.cpp).  The eventfd is registered edge       *)
(* triggered with the multiplexer, whose thread reads the counter and      *)
(* takes that many commands out of the queue.                              *)
(*                                                                         *)
(* The queue and the counter are two pieces of state that no lock covers   *)
(* together, the readiness edge is a third, and markDead sets _dead        *)
(* without the mutex that pushInternal holds when it tests it.             *)
(***************************************************************************)
EXTENDS Integers, Sequences, FiniteSets, FiniteSetsExt

CONSTANTS Commands,   \* the command objects
          Pushers,    \* the threads that push
          NoCommand   \* the multiplexer thread runs no command

ASSUME CommandAssumption ==
    /\ IsFiniteSet(Pushers)
    /\ NoCommand \notin Commands

VARIABLES
    queue,     \* _queue
    counter,   \* the counter of the eventfd
    edge,      \* the eventfd is in epoll's ready list
    dead,      \* _dead
    pusher,    \* "write": the command is queued, the eventfd not yet written
    loop,      \* where the multiplexer thread is
    left,      \* iterations left of the loop of handleReadable
    current,   \* the command it runs
    ran,       \* commands that were run (and then cleaned up)
    dropped,   \* commands handleRemove cleaned up unrun
    refused    \* commands refused with ESB_SHUTDOWN

ghostVars == <<ran, dropped, refused>>
vars == <<queue, counter, edge, dead, pusher, loop, left, current, ghostVars>>

Locations == {"outside", "idle", "readable", "popping", "running", "removing", "removed"}

TypeOK ==
    /\ queue \in Seq(Commands)
    /\ counter \in Nat
    /\ edge \in BOOLEAN
    /\ dead \in BOOLEAN
    /\ pusher \in [Pushers -> {"idle", "write"}]
    /\ loop \in Locations
    /\ left \in Nat
    /\ current \in Commands \cup {NoCommand}
    /\ ran \subseteq Commands
    /\ dropped \subseteq Commands
    /\ refused \subseteq Commands

Init ==
    /\ queue = <<>> /\ counter = 0 /\ edge = FALSE /\ dead = FALSE
    /\ pusher = [p \in Pushers |-> "idle"]
    /\ loop = "outside" /\ left = 0 /\ current = NoCommand
    /\ ran = {} /\ dropped = {} /\ refused = {}

----------------------------------------------------------------------------
Queued == {queue[k] : k \in 1 .. Len(queue)}
Unused == Commands \ (Queued \cup {current} \cup ran \cup dropped \cup refused)
Writers == {p \in Pushers : pusher[p] = "write"}
InEpollSet == loop \notin {"outside", "removing", "removed"}

(***************************************************************************)
(* The critical section of pushInternal.                                   *)
(***************************************************************************)
PushInternal(p) ==
    /\ pusher[p] = "idle"
    /\ \E c \in Unused :
        \/ /\ dead
           /\ refused' = refused \cup {c}
           /\ UNCHANGED <<queue, pusher>>
        \/ /\ ~dead
           /\ queue' = Append(queue, c)
           /\ pusher' = [pusher EXCEPT ![p] = "write"]
           /\ UNCHANGED refused
    /\ UNCHANGED <<counter, edge, dead, loop, left, current, ran, dropped>>

(***************************************************************************)
(* _eventSocket.write(1), outside the critical section.  A write makes a   *)
(* registered eventfd ready again, even if it was ready before.            *)
(***************************************************************************)
Write(p) ==
    /\ pusher[p] = "write"
    /\ pusher' = [pusher EXCEPT ![p] = "idle"]
    /\ counter' = counter + 1
    /\ edge' = InEpollSet
    /\ UNCHANGED <<queue, dead, loop, left, current, ghostVars>>

----------------------------------------------------------------------------
(* The multiplexer's thread.                                               *)

(***************************************************************************)
(* HttpProxyMultiplexer::run adds the command socket to the multiplexer.   *)
(* EPOLL_CTL_ADD reports a counter that is already positive.               *)
(***************************************************************************)
Register ==
    /\ loop = "outside"
    /\ loop' = "idle"
    /\ edge' = (counter > 0)
    /\ UNCHANGED <<queue, counter, dead, pusher, left, current, ghostVars>>

(***************************************************************************)
(* epoll_wait returns EPOLLIN for the eventfd; edge triggered, it then     *)
(* stays silent until the next write.                                      *)
(***************************************************************************)
EpollWait ==
    /\ loop = "idle"
    /\ edge
    /\ edge' = FALSE
    /\ loop' = IF counter > 0 THEN "readable" ELSE "idle"
    /\ UNCHANGED <<queue, counter, dead, pusher, left, current, ghostVars>>

\* a plausible bug: one command is taken per wakeup
ReadOne ==
    /\ loop = "readable"
    /\ left' = IF counter > 0 THEN 1 ELSE 0
    /\ counter' = 0
    /\ loop' = "popping"
    /\ UNCHANGED <<queue, edge, dead, pusher, current, ghostVars>>

\* a plausible bug: the loop of handleReadable runs once too often
ReadOffByOne ==
    /\ loop = "readable"
    /\ left' = counter + 1
    /\ counter' = 0
    /\ loop' = "popping"
    /\ UNCHANGED <<queue, edge, dead, pusher, current, ghostVars>>

(***************************************************************************)
(* handleReadable reads the counter, which resets it.                      *)
(***************************************************************************)
Read ==
    /\ loop = "readable"
    /\ left' = counter
    /\ counter' = 0
    /\ loop' = "popping"
    /\ UNCHANGED <<queue, edge, dead, pusher, current, ghostVars>>

(***************************************************************************)
(* One turn of the loop of handleReadable: removeFirst under the mutex.    *)
(* An empty queue ends the loop ("out of sync").                           *)
(***************************************************************************)
PopCommand ==
    /\ loop = "popping"
    /\ left > 0
    /\ \/ /\ queue = <<>>
          /\ loop' = "idle"
          /\ left' = 0
          /\ UNCHANGED <<queue, current>>
       \/ /\ queue # <<>>
          /\ current' = Head(queue)
          /\ queue' = Tail(queue)
          /\ left' = left - 1
          /\ loop' = "running"
    /\ UNCHANGED <<counter, edge, dead, pusher, ghostVars>>

(***************************************************************************)
(* runCommand returns, its result is ignored, the command is cleaned up.   *)
(***************************************************************************)
RunCommand ==
    /\ loop = "running"
    /\ ran' = ran \cup {current}
    /\ current' = NoCommand
    /\ loop' = "popping"
    /\ UNCHANGED <<queue, counter, edge, dead, pusher, left, dropped, refused>>

ReadableReturns ==
    /\ loop = "popping"
    /\ left = 0
    /\ loop' = "idle"
    /\ UNCHANGED <<queue, counter, edge, dead, pusher, left, current, ghostVars>>

\* a plausible bug, and the order ESBMultiplexedSocket.h documents: markDead
\* is called after handleRemove
MarkDeadLate ==
    /\ loop = "idle"
    /\ loop' = "removing"
    /\ edge' = FALSE
    /\ UNCHANGED <<queue, counter, dead, pusher, left, current, ghostVars>>

(***************************************************************************)
(* The multiplexer removes the socket (it shuts down, or saw an error):    *)
(* the descriptor leaves the epoll set and markDead sets _dead.            *)
(***************************************************************************)
MarkDead ==
    /\ loop = "idle"
    /\ loop' = "removing"
    /\ edge' = FALSE
    /\ dead' = TRUE
    /\ UNCHANGED <<queue, counter, pusher, left, current, ghostVars>>

(***************************************************************************)
(* handleRemove cleans up what is in the queue, under the mutex.           *)
(***************************************************************************)
HandleRemove ==
    /\ loop = "removing"
    /\ queue' = <<>>
    /\ dropped' = dropped \cup Queued
    /\ loop' = "removed"
    /\ UNCHANGED <<counter, edge, dead, pusher, left, current, ran, refused>>

LoopStep == EpollWait \/ Read \/ PopCommand \/ RunCommand \/ ReadableReturns \/ HandleRemove

Next ==
    \/ \E p \in Pushers : PushInternal(p) \/ Write(p)
    \/ Register \/ LoopStep \/ MarkDead

Spec == Init /\ [][Next]_vars

(***************************************************************************)
(* The multiplexer's thread runs and its callbacks return; a push finishes *)
(* its write.  Nobody has to push, and the multiplexer need not stop.      *)
(***************************************************************************)
FairSpec ==
    /\ Spec
    /\ WF_vars(Register) /\ WF_vars(LoopStep)
    /\ \A p \in Pushers : WF_vars(Write(p))

----------------------------------------------------------------------------
(***************************************************************************)
(* "command socket and queue are out of sync" is never logged: whenever    *)
(* handleReadable still owes a command, the queue has one.                 *)
(***************************************************************************)
NeverOutOfSync == loop = "popping" /\ left > 0 => queue # <<>>

(***************************************************************************)
(* Edge triggering loses no wakeup: a registered eventfd with a positive   *)
(* counter is about to be reported, or was reported and not read yet.      *)
(***************************************************************************)
WakeupPending == InEpollSet /\ counter > 0 => edge \/ loop = "readable"

(***************************************************************************)
(* Once the socket is removed no command stays in its queue, where nobody  *)
(* would run it or clean it up, although pushInternal tests _dead while    *)
(* markDead sets it without the mutex.                                     *)
(***************************************************************************)
NothingStranded == loop = "removed" => queue = <<>>

(***************************************************************************)
(* A command whose push succeeded leaves the queue: it is run, or cleaned  *)
(* up when the socket is removed.                                          *)
(***************************************************************************)
QueuedCommandsLeave == \A c \in Commands : c \in Queued ~> c \in ran \cup dropped
=============================================================================

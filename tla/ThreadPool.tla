----------------------------- MODULE ThreadPool -----------------------------
(***************************************************************************)
(* The thread pool of base/source/ESBThreadPool.cpp and the blocking queue *)
(* it feeds its workers from (base/source/ESBSharedEmbeddedQueue.cpp).     *)
(*                                                                         *)
(* The queue's critical sections are atomic, but push and stop signal the  *)
(* condition variable after they released the mutex, so the signal is a    *)
(* step of its own and anything may happen before it.  The controlling     *)
(* thread starts the workers one by one, later stops the queue, clears     *)
(* each worker's _isRunning, joins them in order and destroys them; any    *)
(* other thread may call execute at any time.                              *)
(***************************************************************************)
EXTENDS Integers, Sequences, FiniteSets, FiniteSetsExt

CONSTANTS NumThreads,    \* _numThreads as constructed
          PoolCommands,  \* the command objects
          Endless,       \* commands that run until *isRunning is false
                         \* (the multiplexers), the others return by themselves
          Callers,       \* the threads that call execute
          NoPoolCommand  \* a worker runs no command

ASSUME PoolAssumption ==
    /\ NumThreads \in Nat \ {0}
    /\ IsFiniteSet(PoolCommands)
    /\ IsFiniteSet(Callers)
    /\ Endless \subseteq PoolCommands
    /\ NoPoolCommand \notin PoolCommands

Workers == 1 .. NumThreads

VARIABLES
    backlog,       \* _queue._list
    stopped,       \* _queue._isStopped
    numThreads,    \* _numThreads (start lowers it when a thread cannot start)
    pool,          \* where the controlling thread is
    next,          \* its loop index in start, stop and join
    worker,        \* where each worker is
    running,       \* _isRunning of each worker
    cmd,           \* the command each worker runs
    caller,        \* "signal": the caller released the mutex, not yet signalled
    finished,      \* commands whose run returned
    droppedUnrun,  \* commands stop() removed from the queue unrun
    refusedByPool  \* commands execute refused with ESB_SHUTDOWN

backlogVars == <<backlog, stopped>>
mainVars   == <<numThreads, pool, next>>
workerVars == <<worker, running, cmd>>
fateVars  == <<finished, droppedUnrun, refusedByPool>>
poolVars == <<backlogVars, mainVars, workerVars, caller, fateVars>>

PoolLocations == {"new", "starting", "started", "stopQueue", "broadcast",
                  "stopWorkers", "joining", "done"}
WorkerLocations == {"unstarted", "check", "lock", "wait", "woken", "run",
                    "exited", "destroyed"}

PoolTypeOK ==
    /\ backlog \in Seq(PoolCommands)
    /\ stopped \in BOOLEAN
    /\ numThreads \in 0 .. NumThreads
    /\ pool \in PoolLocations
    /\ next \in 1 .. NumThreads + 1
    /\ worker \in [Workers -> WorkerLocations]
    /\ running \in [Workers -> BOOLEAN]
    /\ cmd \in [Workers -> PoolCommands \cup {NoPoolCommand}]
    /\ caller \in [Callers -> {"idle", "signal"}]
    /\ finished \subseteq PoolCommands
    /\ droppedUnrun \subseteq PoolCommands
    /\ refusedByPool \subseteq PoolCommands

PoolInit ==
    /\ backlog = <<>> /\ stopped = FALSE
    /\ numThreads = NumThreads /\ pool = "new" /\ next = 1
    /\ worker = [i \in Workers |-> "unstarted"]
    /\ running = [i \in Workers |-> TRUE]
    /\ cmd = [i \in Workers |-> NoPoolCommand]
    /\ caller = [e \in Callers |-> "idle"]
    /\ finished = {} /\ droppedUnrun = {} /\ refusedByPool = {}

----------------------------------------------------------------------------
WaitingWorkers == {i \in Workers : worker[i] = "wait"}
WokenWorkers   == {i \in Workers : worker[i] = "woken"}
PendingSignals == {e \in Callers : caller[e] = "signal"}
Backlog == {backlog[k] : k \in 1 .. Len(backlog)}
Held(c) == {i \in Workers : cmd[i] = c}
Unsubmitted == {c \in PoolCommands : /\ c \notin Backlog \cup finished \cup droppedUnrun \cup refusedByPool
                            /\ Held(c) = {}}

(***************************************************************************)
(* execute: SharedEmbeddedQueue::push.  Under the mutex the command is     *)
(* added, or refused once the queue is stopped.                            *)
(***************************************************************************)
Execute(e) ==
    /\ caller[e] = "idle"
    /\ \E c \in Unsubmitted :
        \/ /\ stopped
           /\ refusedByPool' = refusedByPool \cup {c}
           /\ UNCHANGED <<backlog, caller>>
        \/ /\ ~stopped
           /\ backlog' = Append(backlog, c)
           /\ caller' = [caller EXCEPT ![e] = "signal"]
           /\ UNCHANGED refusedByPool
    /\ UNCHANGED <<stopped, mainVars, workerVars, finished, droppedUnrun>>

(***************************************************************************)
(* pthread_cond_signal, after the unlock: wakes one waiting worker.        *)
(***************************************************************************)
Signal(e) ==
    /\ caller[e] = "signal"
    /\ caller' = [caller EXCEPT ![e] = "idle"]
    /\ IF WaitingWorkers = {}
       THEN UNCHANGED worker
       ELSE \E i \in WaitingWorkers : worker' = [worker EXCEPT ![i] = "woken"]
    /\ UNCHANGED <<backlogVars, mainVars, running, cmd, fateVars>>

----------------------------------------------------------------------------
(* The controlling thread.                                                 *)

(***************************************************************************)
(* start(): createWorkerThreads succeeds.  When it is out of memory it     *)
(* frees what it made and the pool is as it was.                           *)
(***************************************************************************)
Start ==
    /\ pool = "new"
    /\ pool' = "starting"
    /\ next' = 1
    /\ UNCHANGED <<backlogVars, numThreads, workerVars, caller, fateVars>>

(***************************************************************************)
(* One turn of the loop of start(): pthread_create, which may fail.  Then  *)
(* only the workers started so far are stopped and joined.                 *)
(***************************************************************************)
StartWorker ==
    /\ pool = "starting"
    /\ worker' = [worker EXCEPT ![next] = "check"]
    /\ IF next = NumThreads
       THEN pool' = "started" /\ next' = 1
       ELSE pool' = "starting" /\ next' = next + 1
    /\ UNCHANGED <<backlogVars, numThreads, running, cmd, caller, fateVars>>

StartWorkerFails ==
    /\ pool = "starting"
    /\ numThreads' = next - 1
    /\ pool' = "stopQueue"
    /\ UNCHANGED <<backlogVars, next, workerVars, caller, fateVars>>

Stop ==
    /\ pool = "started"
    /\ pool' = "stopQueue"
    /\ UNCHANGED <<backlogVars, numThreads, next, workerVars, caller, fateVars>>

(***************************************************************************)
(* SharedEmbeddedQueue::stop up to the unlock: _isStopped is set and the   *)
(* commands in the queue go to their cleanup handlers.                     *)
(***************************************************************************)
StopQueue ==
    /\ pool = "stopQueue"
    /\ stopped' = TRUE
    /\ backlog' = <<>>
    /\ droppedUnrun' = droppedUnrun \cup Backlog
    /\ pool' = "broadcast"
    /\ UNCHANGED <<numThreads, next, workerVars, caller, finished, refusedByPool>>

\* a plausible bug: pthread_cond_signal in place of pthread_cond_broadcast
BroadcastOne ==
    /\ pool = "broadcast"
    /\ IF WaitingWorkers = {}
       THEN UNCHANGED worker
       ELSE \E i \in WaitingWorkers : worker' = [worker EXCEPT ![i] = "woken"]
    /\ pool' = IF numThreads = 0 THEN "done" ELSE "stopWorkers"
    /\ next' = 1
    /\ UNCHANGED <<backlogVars, numThreads, running, cmd, caller, fateVars>>

(***************************************************************************)
(* The rest of SharedEmbeddedQueue::stop: pthread_cond_broadcast.          *)
(***************************************************************************)
Broadcast ==
    /\ pool = "broadcast"
    /\ worker' = [i \in Workers |-> IF worker[i] = "wait" THEN "woken" ELSE worker[i]]
    /\ pool' = IF numThreads = 0 THEN "done" ELSE "stopWorkers"
    /\ next' = 1
    /\ UNCHANGED <<backlogVars, numThreads, running, cmd, caller, fateVars>>

\* a plausible bug: the loop of stop() ends before the last worker
StopWorkerAllButLast ==
    /\ pool = "stopWorkers"
    /\ running' = [running EXCEPT ![next] = next = numThreads]
    /\ IF next = numThreads
       THEN pool' = "joining" /\ next' = 1
       ELSE pool' = "stopWorkers" /\ next' = next + 1
    /\ UNCHANGED <<backlogVars, numThreads, worker, cmd, caller, fateVars>>

(***************************************************************************)
(* One turn of the loop of stop(): Thread::stop of the next worker.        *)
(***************************************************************************)
StopWorker ==
    /\ pool = "stopWorkers"
    /\ running' = [running EXCEPT ![next] = FALSE]
    /\ IF next = numThreads
       THEN pool' = "joining" /\ next' = 1
       ELSE pool' = "stopWorkers" /\ next' = next + 1
    /\ UNCHANGED <<backlogVars, numThreads, worker, cmd, caller, fateVars>>

(***************************************************************************)
(* One turn of the loop of join(): pthread_join returns once the worker    *)
(* has exited.  After the last one destroyWorkerThreads runs.  start()     *)
(* calls stop() and join() itself when it fails; otherwise the owner of    *)
(* the pool calls join() after stop(), as HttpServer and HttpClient do.    *)
(***************************************************************************)
Join ==
    /\ pool = "joining"
    /\ worker[next] = "exited"
    /\ IF next = numThreads
       THEN /\ worker' = [i \in Workers |-> IF i <= numThreads THEN "destroyed" ELSE worker[i]]
            /\ pool' = "done"
            /\ UNCHANGED next
       ELSE /\ next' = next + 1
            /\ UNCHANGED <<worker, pool>>
    /\ UNCHANGED <<backlogVars, numThreads, running, cmd, caller, fateVars>>

----------------------------------------------------------------------------
(* ThreadPoolWorker::run.                                                  *)

(***************************************************************************)
(* The loop condition.                                                     *)
(***************************************************************************)
Check(i) ==
    /\ worker[i] = "check"
    /\ worker' = [worker EXCEPT ![i] = IF running[i] THEN "lock" ELSE "exited"]
    /\ UNCHANGED <<backlogVars, mainVars, running, cmd, caller, fateVars>>

\* a plausible bug: pop returns the front element and leaves it queued
PopBacklog_Peeks(i) ==
    /\ worker[i] \in {"lock", "woken"}
    /\ \/ stopped /\ worker' = [worker EXCEPT ![i] = "exited"] /\ UNCHANGED <<backlog, cmd>>
       \/ /\ ~stopped /\ backlog # <<>>
          /\ cmd' = [cmd EXCEPT ![i] = Head(backlog)]
          /\ worker' = [worker EXCEPT ![i] = "run"]
          /\ UNCHANGED backlog
       \/ /\ ~stopped /\ backlog = <<>>
          /\ worker' = [worker EXCEPT ![i] = "wait"]
          /\ UNCHANGED <<backlog, cmd>>
    /\ UNCHANGED <<stopped, mainVars, running, caller, fateVars>>

(***************************************************************************)
(* SharedEmbeddedQueue::pop with the mutex held, on entry and after each   *)
(* return of pthread_cond_wait.  ESB_SHUTDOWN ends the worker.             *)
(***************************************************************************)
PopBacklog(i) ==
    /\ worker[i] \in {"lock", "woken"}
    /\ \/ stopped /\ worker' = [worker EXCEPT ![i] = "exited"] /\ UNCHANGED <<backlog, cmd>>
       \/ /\ ~stopped /\ backlog # <<>>
          /\ cmd' = [cmd EXCEPT ![i] = Head(backlog)]
          /\ worker' = [worker EXCEPT ![i] = "run"]
          /\ backlog' = Tail(backlog)
       \/ /\ ~stopped /\ backlog = <<>>
          /\ worker' = [worker EXCEPT ![i] = "wait"]
          /\ UNCHANGED <<backlog, cmd>>
    /\ UNCHANGED <<stopped, mainVars, running, caller, fateVars>>

(***************************************************************************)
(* The command returns and goes to its cleanup handler if it asks to.      *)
(***************************************************************************)
Finish(i) ==
    /\ worker[i] = "run"
    /\ cmd[i] \in Endless => ~running[i]
    /\ finished' = finished \cup {cmd[i]}
    /\ cmd' = [cmd EXCEPT ![i] = NoPoolCommand]
    /\ worker' = [worker EXCEPT ![i] = "check"]
    /\ UNCHANGED <<backlogVars, mainVars, running, caller, droppedUnrun, refusedByPool>>

WorkerWakes(i) ==
    /\ worker[i] = "wait"
    /\ worker' = [worker EXCEPT ![i] = "woken"]
    /\ UNCHANGED <<backlogVars, mainVars, running, cmd, caller, fateVars>>

----------------------------------------------------------------------------
MainStep == StartWorker \/ StartWorkerFails \/ StopQueue \/ Broadcast \/ StopWorker \/ Join

WorkerStep(i) == Check(i) \/ PopBacklog(i) \/ Finish(i)

PoolNext ==
    \/ Start \/ Stop \/ MainStep
    \/ \E e \in Callers : Execute(e) \/ Signal(e)
    \/ \E i \in Workers : WorkerStep(i) \/ WorkerWakes(i)

PoolSpec == PoolInit /\ [][PoolNext]_poolVars

(***************************************************************************)
(* Every thread that can run does: start, stop and join go on once called, *)
(* a push signals, a worker runs, a command returns (an endless one once   *)
(* its isRunning is false).  Nobody has to call start, stop or execute.    *)
(***************************************************************************)
PoolFairSpec ==
    /\ PoolSpec
    /\ WF_poolVars(MainStep)
    /\ \A e \in Callers : WF_poolVars(Signal(e))
    /\ \A i \in Workers : WF_poolVars(WorkerStep(i))

----------------------------------------------------------------------------
(***************************************************************************)
(* No lost wakeup: as long as some worker sleeps, each queued command has  *)
(* a worker woken for it or a push that still has to signal.               *)
(***************************************************************************)
NoLostSignal ==
    WaitingWorkers # {} =>
        Len(backlog) <= Cardinality(PendingSignals) + Cardinality(WokenWorkers)

(***************************************************************************)
(* Threads blocked in pop return once the queue is stopped: after the      *)
(* broadcast of stop() no worker is asleep and none goes to sleep again.   *)
(***************************************************************************)
NobodySleepsThroughStop == stopped /\ WaitingWorkers # {} => pool = "broadcast"

(***************************************************************************)
(* A command has one owner at a time: one place in the queue, one worker   *)
(* that runs it, or the cleanup after it.  It is run at most once, and     *)
(* never destroyed by stop() while or after a worker ran it.               *)
(***************************************************************************)
OneOwner ==
    \A c \in PoolCommands :
        Cardinality({k \in 1 .. Len(backlog) : backlog[k] = c}) + Cardinality(Held(c))
          + Cardinality({s \in {"finished", "dropped", "refused"} :
                           c \in (CASE s = "finished" -> finished
                                    [] s = "dropped"  -> droppedUnrun
                                    [] s = "refused"  -> refusedByPool)}) <= 1

(***************************************************************************)
(* The worker objects are destroyed after the threads have left run(),     *)
(* also when start() fails half way and unwinds.                           *)
(***************************************************************************)
NoThreadOutlivesPool ==
    pool = "done" => \A i \in Workers : worker[i] \in {"unstarted", "destroyed"}

(***************************************************************************)
(* stop() and join() come back: every worker leaves run(), whatever it was *)
(* doing when it was stopped.                                              *)
(***************************************************************************)
JoinReturns == pool = "stopQueue" ~> pool = "done"

(***************************************************************************)
(* A started pool takes every queued command out of the queue (it runs it, *)
(* or stop() drops it), as long as one worker is not taken by a command    *)
(* that never ends.                                                        *)
(***************************************************************************)
BacklogDrains ==
    \A c \in PoolCommands : (c \in Backlog /\ pool = "started") ~> c \notin Backlog

\* No worker sleeps through a signal or through the broadcast of stop(), although
\* both are sent after the unlock.  (SharedEmbeddedQueue::push, pop and stop)
NoLostWakeup == NoLostSignal /\ NobodySleepsThroughStop

\* Every command has one owner and every worker is gone before its memory is,
\* also when start() fails half way.  (ThreadPool::start, stop, join)
NothingIsShared == OneOwner /\ NoThreadOutlivesPool

\* join() returns and a started pool empties its queue.
PoolProgress == JoinReturns /\ BacklogDrains
=============================================================================

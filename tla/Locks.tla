-------------------------------- MODULE Locks --------------------------------
(***************************************************************************)
(* The locks this code builds from a mutex and condition variables, for    *)
(* platforms without pthread_rwlock or sem_init: ReadWriteLock             *)
(* (ESBReadWriteLock.cpp) and CountingSemaphore (ESBCountingSemaphore.cpp).*)
(* Where the platform has its own lock, these functions call it and the    *)
(* same promises are the platform's.                                       *)
(*                                                                         *)
(* Every function holds the mutex from its first line to its last except   *)
(* inside pthread_cond_wait: an action is what runs between two waits.  A  *)
(* signalled thread has to win the mutex again, and others run first.      *)
(***************************************************************************)
EXTENDS Integers, FiniteSets

CONSTANTS LockThreads,   \* the threads
          MaxCount       \* the semaphore's largest count (ESB_INT32_MAX)

ASSUME LockAssumption == IsFiniteSet(LockThreads) /\ MaxCount \in Nat \ {0}

VARIABLES rwLock,      \* the counters of the ReadWriteLock
          semaphore,   \* the count, and who keeps the mutex after an error
          doing        \* what each thread is doing

lockVars == <<rwLock, semaphore, doing>>

\* cancelled: a wait of this lock failed.
NewLock == [readersActive |-> 0, readersWaiting |-> 0, writersActive |-> 0, writersWaiting |-> 0,
            cancelled |-> FALSE]

LockInit ==
    /\ rwLock = NewLock
    /\ semaphore = [count |-> 0, jammed |-> FALSE]
    /\ doing = [t \in LockThreads |-> "idle"]

In(activity) == {t \in LockThreads : doing[t] = activity}

Becomes(t, activity) == doing' = [doing EXCEPT ![t] = activity]

-----------------------------------------------------------------------------
(* ReadWriteLock.  Waiting counts a thread until it runs again.            *)

\* pthread_cond_signal wakes one waiter, pthread_cond_broadcast all; a signal
\* nobody waits for is lost.
Signalled(d, from, to) ==
    IF \E t \in LockThreads : d[t] = from
    THEN {[d EXCEPT ![t] = to] : t \in {u \in LockThreads : d[u] = from}}
    ELSE {d}

Broadcast(d, from, to) == [t \in LockThreads |-> IF d[t] = from THEN to ELSE d[t]]

writeLocked(l) == 0 < l.writersActive \/ 0 < l.readersActive

\* Two loops of the same shape: take the lock, or wait for it.
takeWrite(t, l) ==
    \/ /\ ~writeLocked(l)
       /\ rwLock' = [l EXCEPT !.writersActive = 1] /\ Becomes(t, "writing")
    \/ /\ writeLocked(l)
       /\ rwLock' = [l EXCEPT !.writersWaiting = @ + 1] /\ Becomes(t, "awaitingWrite")

readLocked(l) == 0 < l.writersActive \/ 0 < l.writersWaiting

takeRead(t, l) ==
    \/ /\ ~readLocked(l)
       /\ rwLock' = [l EXCEPT !.readersActive = @ + 1] /\ Becomes(t, "reading")
    \/ /\ readLocked(l)
       /\ rwLock' = [l EXCEPT !.readersWaiting = @ + 1] /\ Becomes(t, "awaitingRead")

writeAcquire(t) == doing[t] = "idle" /\ takeWrite(t, rwLock)

readAcquire(t) == doing[t] = "idle" /\ takeRead(t, rwLock)

\* A waiter runs again, signalled or not (a wait may end without a signal).
writeResume(t) ==
    /\ doing[t] \in {"awaitingWrite", "wokenWrite"}
    /\ takeWrite(t, [rwLock EXCEPT !.writersWaiting = @ - 1])

readResume(t) ==
    /\ doing[t] \in {"awaitingRead", "wokenRead"}
    /\ takeRead(t, [rwLock EXCEPT !.readersWaiting = @ - 1])

\* The wait reports an error: the caller gives up and wakes nobody.
writeWaitFails(t) ==
    /\ doing[t] = "awaitingWrite"
    /\ rwLock' = [rwLock EXCEPT !.writersWaiting = @ - 1, !.cancelled = TRUE]
    /\ Becomes(t, "idle")

readWaitFails(t) ==
    /\ doing[t] = "awaitingRead"
    /\ rwLock' = [rwLock EXCEPT !.readersWaiting = @ - 1, !.cancelled = TRUE]
    /\ Becomes(t, "idle")

\* The attempts that do not answer ESB_AGAIN.  A reader's attempt goes before
\* the waiting writers.
writeAttempt(t) ==
    /\ doing[t] = "idle" /\ ~writeLocked(rwLock)
    /\ rwLock' = [rwLock EXCEPT !.writersActive = 1] /\ Becomes(t, "writing")

readAttempt(t) ==
    /\ doing[t] = "idle" /\ rwLock.writersActive = 0
    /\ rwLock' = [rwLock EXCEPT !.readersActive = @ + 1] /\ Becomes(t, "reading")

writeRelease(t) ==
    /\ doing[t] = "writing"
    /\ rwLock' = [rwLock EXCEPT !.writersActive = 0]
    /\ LET d == [doing EXCEPT ![t] = "idle"] IN
       IF 0 < rwLock.writersWaiting THEN doing' \in Signalled(d, "awaitingWrite", "wokenWrite")
       ELSE doing' = Broadcast(d, "awaitingRead", "wokenRead")

readReleaseQuietly(t) ==
    /\ doing[t] = "reading"
    /\ rwLock' = [rwLock EXCEPT !.readersActive = @ - 1]
    /\ Becomes(t, "idle")

readRelease(t) ==
    /\ doing[t] = "reading"
    /\ rwLock' = [rwLock EXCEPT !.readersActive = @ - 1]
    /\ LET d == [doing EXCEPT ![t] = "idle"] IN
       IF rwLock.readersActive = 1 /\ 0 < rwLock.writersWaiting
       THEN doing' \in Signalled(d, "awaitingWrite", "wokenWrite")
       ELSE doing' = d

-----------------------------------------------------------------------------
(* CountingSemaphore, starting at zero: writeRelease() posts, and a thread *)
(* that acquired holds nothing it would have to give back.                 *)

semaphoreTake(t) ==
    \/ /\ 0 < semaphore.count
       /\ semaphore' = [semaphore EXCEPT !.count = @ - 1] /\ Becomes(t, "idle")
    \/ /\ semaphore.count = 0
       /\ UNCHANGED semaphore /\ Becomes(t, "awaitingPost")

semaphoreAcquire(t) == doing[t] = "idle" /\ semaphoreTake(t)

semaphoreResume(t) == doing[t] \in {"awaitingPost", "wokenPost"} /\ semaphoreTake(t)

\* The wait reports an error: the function returns with the mutex locked.
semaphoreWaitFails(t) ==
    /\ doing[t] = "awaitingPost"
    /\ semaphore' = [semaphore EXCEPT !.jammed = TRUE] /\ Becomes(t, "idle")

semaphoreAttempt(t) ==
    /\ doing[t] = "idle" /\ 0 < semaphore.count
    /\ semaphore' = [semaphore EXCEPT !.count = @ - 1] /\ UNCHANGED doing

\* At MaxCount the release is refused.
semaphoreRelease(t) ==
    /\ doing[t] = "idle" /\ semaphore.count < MaxCount
    /\ semaphore' = [semaphore EXCEPT !.count = @ + 1]
    /\ doing' \in Signalled(doing, "awaitingPost", "wokenPost")

-----------------------------------------------------------------------------
RWLockStep(t) ==
    \/ writeAcquire(t) \/ readAcquire(t) \/ writeResume(t) \/ readResume(t)
    \/ writeWaitFails(t) \/ readWaitFails(t) \/ writeAttempt(t) \/ readAttempt(t)
    \/ writeRelease(t) \/ readRelease(t)

SemaphoreStep(t) ==
    \/ semaphoreAcquire(t) \/ semaphoreResume(t) \/ semaphoreWaitFails(t)
    \/ semaphoreAttempt(t) \/ semaphoreRelease(t)

LockNext ==
    \E t \in LockThreads :
        \/ RWLockStep(t) /\ UNCHANGED semaphore
        \/ ~semaphore.jammed /\ SemaphoreStep(t) /\ UNCHANGED rwLock

LockSpec == LockInit /\ [][LockNext]_lockVars

-----------------------------------------------------------------------------
\* A thread that has the lock for writing has it alone, whatever waits,
\* attempts, spurious wakeups and failed waits came before.
WriterAlone ==
    \A t \in In("writing") : In("writing") \cup In("reading") = {t}

\* A lock that is free for a waiting thread has one on its way to take it: a
\* writer woken by the last release, or all the readers woken when the last
\* writer has gone, even if others took and gave back the lock in between.
\* After a failed wait this is not so: a writer that gives up leaves the
\* readers that waited behind it asleep.
NobodyLeftWaiting ==
    ~rwLock.cancelled =>
        /\ In("awaitingWrite") # {} /\ ~writeLocked(rwLock) => In("wokenWrite") # {}
        /\ In("awaitingRead") # {} => readLocked(rwLock)

\* While a thread sleeps on the semaphore, every post not yet taken has woken
\* somebody, so that no post is left to a sleeper.
EveryPostWakes ==
    In("awaitingPost") # {} => semaphore.count =< Cardinality(In("wokenPost"))

\* The locks exclude and wake: a writer is alone, and nobody who could proceed
\* is left asleep by a release.  (ReadWriteLock and CountingSemaphore)
LocksKeepTheirPromise == WriterAlone /\ NobodyLeftWaiting /\ EveryPostWakes
=============================================================================

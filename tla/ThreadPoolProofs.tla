-------------------------- MODULE ThreadPoolProofs --------------------------
(***************************************************************************)
(* The safety properties of ThreadPool, for any number of workers, callers *)
(* and commands.                                                           *)
(*                                                                         *)
(* Three arguments meet here.  NoLostSignal is a count: a push adds one    *)
(* command and one signal still to send, a signal turns a sleeping worker  *)
(* into a woken one, and a woken worker takes a command with it.  OneOwner *)
(* follows from Owned, which says without counting that the places a       *)
(* command can be in are disjoint.  NoThreadOutlivesPool needs to know     *)
(* which workers exist at each place of the controlling thread: Control.   *)
(***************************************************************************)
EXTENDS ThreadPool, FiniteSetTheorems, TLAPS

StopAgrees == stopped <=> pool \in {"broadcast", "stopWorkers", "joining", "done"}

StoppedEmpty == stopped => backlog = <<>>

RunHolds == \A i \in Workers : worker[i] = "run" <=> cmd[i] # NoPoolCommand

(***************************************************************************)
(* Which workers exist while the controlling thread is where it is.        *)
(***************************************************************************)
InUse(i) == worker[i] \notin {"unstarted", "destroyed"}

Control ==
    /\ pool = "new" => \A i \in Workers : worker[i] = "unstarted"
    /\ pool \in {"new", "starting", "started"} => numThreads = NumThreads
    /\ pool = "starting" =>
         /\ next \in Workers
         /\ \A i \in Workers : IF i < next THEN InUse(i) ELSE worker[i] = "unstarted"
    /\ pool \in {"started", "stopQueue", "broadcast", "stopWorkers", "joining"} =>
         \A i \in Workers : IF i <= numThreads THEN InUse(i) ELSE worker[i] = "unstarted"
    /\ pool \in {"stopWorkers", "joining"} => next \in 1 .. numThreads
    /\ pool = "joining" => \A i \in Workers : i < next => worker[i] = "exited"

(***************************************************************************)
(* The places of a command are disjoint.                                   *)
(***************************************************************************)
Gone == finished \cup droppedUnrun \cup refusedByPool

Owned ==
    /\ \A j, k \in 1 .. Len(backlog) : backlog[j] = backlog[k] => j = k
    /\ \A i, j \in Workers : cmd[i] = cmd[j] => i = j \/ cmd[i] = NoPoolCommand
    /\ \A k \in 1 .. Len(backlog), i \in Workers : backlog[k] # cmd[i]
    /\ \A k \in 1 .. Len(backlog) : backlog[k] \notin Gone
    /\ \A i \in Workers : cmd[i] \notin Gone
    /\ finished \cap droppedUnrun = {}
    /\ finished \cap refusedByPool = {}
    /\ droppedUnrun \cap refusedByPool = {}

IInv ==
    /\ PoolTypeOK
    /\ StopAgrees
    /\ StoppedEmpty
    /\ RunHolds
    /\ Control
    /\ NoThreadOutlivesPool
    /\ Owned
    /\ NobodySleepsThroughStop
    /\ NoLostSignal

----------------------------------------------------------------------------
(***************************************************************************)
(* A set whose elements are all the same has at most one.                  *)
(***************************************************************************)
LEMMA AtMostOne ==
    ASSUME NEW S, \A x, y \in S : x = y
    PROVE  /\ Cardinality(S) \in {0, 1}
           /\ S = {} => Cardinality(S) = 0
<1>1. CASE S = {}
  BY <1>1, FS_EmptySet
<1>2. CASE S # {}
  <2>1. PICK x : S = {x}
    BY <1>2
  <2> QED
    BY <1>2, <2>1, FS_Singleton
<1> QED
  BY <1>1, <1>2

(***************************************************************************)
(* Disjoint places make the count of OneOwner at most one.                 *)
(***************************************************************************)
LEMMA OwnedImpliesOneOwner ==
    ASSUME PoolTypeOK, Owned
    PROVE  OneOwner
<1> SUFFICES ASSUME NEW c \in PoolCommands
             PROVE  Cardinality({k \in 1 .. Len(backlog) : backlog[k] = c}) + Cardinality(Held(c))
                      + Cardinality({s \in {"finished", "dropped", "refused"} :
                           c \in (CASE s = "finished" -> finished
                                    [] s = "dropped"  -> droppedUnrun
                                    [] s = "refused"  -> refusedByPool)}) <= 1
  BY DEF OneOwner
<1> DEFINE Q == {k \in 1 .. Len(backlog) : backlog[k] = c}
           G == {s \in {"finished", "dropped", "refused"} :
                           c \in (CASE s = "finished" -> finished
                                    [] s = "dropped"  -> droppedUnrun
                                    [] s = "refused"  -> refusedByPool)}
<1>1. \A x, y \in Q : x = y
  BY DEF Owned
<1>2. \A x, y \in Held(c) : x = y
  BY PoolAssumption DEF Owned, Held
<1>3. \A s \in G : \/ s = "finished" /\ c \in finished
                   \/ s = "dropped" /\ c \in droppedUnrun
                   \/ s = "refused" /\ c \in refusedByPool
  OBVIOUS
<1>4. \A x, y \in G : x = y
  BY <1>3 DEF Owned
<1>5. G # {} => c \in Gone
  BY <1>3 DEF Gone
<1>6. \/ Q = {} /\ Held(c) = {}
      \/ Q = {} /\ G = {}
      \/ Held(c) = {} /\ G = {}
  <2>1. Q = {} \/ Held(c) = {}
    BY DEF Owned, Held
  <2>2. c \in Gone => Q = {}
    BY DEF Owned
  <2>3. c \in Gone => Held(c) = {}
    BY DEF Owned, Held
  <2> HIDE DEF Q, G
  <2> QED
    BY <1>5, <2>1, <2>2, <2>3
<1>7. Cardinality(Q) \in {0, 1} /\ (Q = {} => Cardinality(Q) = 0)
  BY <1>1, AtMostOne
<1>8. Cardinality(Held(c)) \in {0, 1} /\ (Held(c) = {} => Cardinality(Held(c)) = 0)
  BY <1>2, AtMostOne
<1>9. Cardinality(G) \in {0, 1} /\ (G = {} => Cardinality(G) = 0)
  BY <1>4, AtMostOne
<1>10. Cardinality(Q) + Cardinality(Held(c)) + Cardinality(G) <= 1
  <2> HIDE DEF Q, G
  <2> QED
    BY <1>6, <1>7, <1>8, <1>9
<1> QED
  BY <1>10

(***************************************************************************)
(* The workers and callers are finitely many, and so are the woken workers *)
(* and the signals still to send, before and after a step.                 *)
(***************************************************************************)
LEMMA Finite ==
    /\ IsFiniteSet(WokenWorkers) /\ Cardinality(WokenWorkers) \in Nat
    /\ IsFiniteSet(PendingSignals) /\ Cardinality(PendingSignals) \in Nat
<1>1. IsFiniteSet(Workers)
  BY PoolAssumption, FS_Interval DEF Workers
<1>2. WokenWorkers \in SUBSET Workers /\ PendingSignals \in SUBSET Callers
  BY DEF WokenWorkers, PendingSignals
<1>3. IsFiniteSet(WokenWorkers) /\ IsFiniteSet(PendingSignals)
  BY <1>1, <1>2, FS_Subset, PoolAssumption
<1> QED
  BY <1>3, FS_CardinalityType

(***************************************************************************)
(* The same after a step.                                                  *)
(***************************************************************************)
LEMMA FiniteNext ==
    /\ IsFiniteSet(WokenWorkers') /\ Cardinality(WokenWorkers') \in Nat
    /\ IsFiniteSet(PendingSignals') /\ Cardinality(PendingSignals') \in Nat
<1>1. IsFiniteSet(Workers)
  BY PoolAssumption, FS_Interval DEF Workers
<1>2. WokenWorkers' \in SUBSET Workers /\ PendingSignals' \in SUBSET Callers
  BY DEF WokenWorkers, PendingSignals
<1>3. IsFiniteSet(WokenWorkers') /\ IsFiniteSet(PendingSignals')
  BY <1>1, <1>2, FS_Subset, PoolAssumption
<1> QED
  BY <1>3, FS_CardinalityType

(***************************************************************************)
(* Steps that leave the list and the signals to send alone, and take no    *)
(* worker from the woken ones, keep the count.                             *)
(***************************************************************************)
LEMMA CountKept ==
    ASSUME PoolTypeOK, NoLostSignal, UNCHANGED <<backlog, caller>>,
           WaitingWorkers' \subseteq WaitingWorkers, WokenWorkers \subseteq WokenWorkers'
    PROVE  NoLostSignal'
<1>1. PendingSignals' = PendingSignals
  BY DEF PendingSignals
<1>2. Cardinality(WokenWorkers) <= Cardinality(WokenWorkers')
  BY FiniteNext, FS_Subset
<1>3. Len(backlog) \in Nat /\ Len(backlog') = Len(backlog)
  BY DEF PoolTypeOK
<1> QED
  BY <1>1, <1>2, <1>3, Finite, FiniteNext DEF NoLostSignal

----------------------------------------------------------------------------
(***************************************************************************)
(* execute: the command was nobody's, and is now the queue's or refused;   *)
(* its signal is still to come.                                            *)
(***************************************************************************)
LEMMA ExecuteKeeps ==
    ASSUME IInv, NEW e \in Callers, Execute(e)
    PROVE  IInv'
<1> USE DEF IInv
<1>1. PICK c \in Unsubmitted :
        \/ /\ stopped
           /\ refusedByPool' = refusedByPool \cup {c}
           /\ UNCHANGED <<backlog, caller>>
        \/ /\ ~stopped
           /\ backlog' = Append(backlog, c)
           /\ caller' = [caller EXCEPT ![e] = "signal"]
           /\ UNCHANGED refusedByPool
  BY DEF Execute
<1>2. caller[e] = "idle" /\ UNCHANGED <<stopped, mainVars, workerVars, finished, droppedUnrun>>
  BY DEF Execute
<1>3. /\ c \in PoolCommands /\ c \notin Gone
      /\ \A k \in 1 .. Len(backlog) : backlog[k] # c
      /\ \A i \in Workers : cmd[i] # c
  BY DEF Unsubmitted, Backlog, Held, Gone
<1>4. /\ StopAgrees' /\ RunHolds' /\ Control' /\ NoThreadOutlivesPool' /\ NobodySleepsThroughStop'
      /\ WaitingWorkers' = WaitingWorkers /\ WokenWorkers' = WokenWorkers
  BY <1>2 DEF mainVars, workerVars, StopAgrees, RunHolds, Control, InUse, NoThreadOutlivesPool,
              NobodySleepsThroughStop, WaitingWorkers, WokenWorkers
<1>5. CASE stopped /\ refusedByPool' = refusedByPool \cup {c} /\ UNCHANGED <<backlog, caller>>
  <2>1. PoolTypeOK'
    BY <1>2, <1>3, <1>5 DEF PoolTypeOK, mainVars, workerVars
  <2>2. StoppedEmpty'
    BY <1>2, <1>5 DEF StoppedEmpty
  <2>3. Owned'
    BY <1>2, <1>3, <1>5 DEF Owned, Gone, workerVars
  <2>4. NoLostSignal'
    BY <1>4, <1>5 DEF NoLostSignal, PendingSignals
  <2> QED
    BY <1>4, <2>1, <2>2, <2>3, <2>4
<1>6. CASE /\ ~stopped /\ backlog' = Append(backlog, c)
           /\ caller' = [caller EXCEPT ![e] = "signal"] /\ UNCHANGED refusedByPool
  <2>1. PoolTypeOK'
    BY <1>2, <1>3, <1>6 DEF PoolTypeOK, mainVars, workerVars
  <2>2. StoppedEmpty'
    BY <1>2, <1>6 DEF StoppedEmpty
  <2>3. /\ Len(backlog') = Len(backlog) + 1 /\ Len(backlog) \in Nat
        /\ \A k \in 1 .. Len(backlog') : backlog'[k] = IF k = Len(backlog) + 1 THEN c ELSE backlog[k]
    BY <1>6 DEF PoolTypeOK
  <2>4. Owned'
    BY <1>2, <1>3, <1>6, <2>3 DEF Owned, Gone, workerVars
  <2>5. PendingSignals' = PendingSignals \cup {e} /\ e \notin PendingSignals
    BY <1>2, <1>6 DEF PendingSignals, PoolTypeOK
  <2>6. Cardinality(PendingSignals') = Cardinality(PendingSignals) + 1
    BY <2>5, Finite, FS_AddElement
  <2>7. NoLostSignal'
    BY <1>4, <2>3, <2>6, Finite DEF NoLostSignal
  <2> QED
    BY <1>4, <2>1, <2>2, <2>4, <2>7
<1> QED
  BY <1>1, <1>5, <1>6

(***************************************************************************)
(* The signal of a push wakes a sleeping worker if there is one.           *)
(***************************************************************************)
LEMMA SignalKeeps ==
    ASSUME IInv, NEW e \in Callers, Signal(e)
    PROVE  IInv'
<1> USE DEF IInv
<1>1. /\ caller[e] = "signal" /\ caller' = [caller EXCEPT ![e] = "idle"]
      /\ UNCHANGED <<backlogVars, mainVars, running, cmd, fateVars>>
  BY DEF Signal
<1>2. Owned' /\ StopAgrees' /\ StoppedEmpty'
  BY <1>1 DEF Owned, Gone, StopAgrees, StoppedEmpty, backlogVars, mainVars, fateVars
<1>3. PendingSignals' = PendingSignals \ {e} /\ e \in PendingSignals
  BY <1>1 DEF PendingSignals, PoolTypeOK
<1>4. Cardinality(PendingSignals') = Cardinality(PendingSignals) - 1
  BY <1>3, Finite, FS_RemoveElement
<1>5. CASE WaitingWorkers = {}
  <2>1. UNCHANGED worker
    BY <1>5 DEF Signal
  <2>2. /\ RunHolds' /\ Control' /\ NoThreadOutlivesPool' /\ PoolTypeOK'
        /\ WaitingWorkers' = {}
    BY <1>1, <1>5, <2>1 DEF RunHolds, Control, InUse, NoThreadOutlivesPool, PoolTypeOK,
            WaitingWorkers, backlogVars, mainVars, fateVars
  <2> QED
    BY <1>2, <2>2 DEF NobodySleepsThroughStop, NoLostSignal
<1>6. CASE WaitingWorkers # {}
  <2>1. PICK i \in WaitingWorkers : worker' = [worker EXCEPT ![i] = "woken"]
    BY <1>6 DEF Signal
  <2>2. i \in Workers /\ worker[i] = "wait"
    BY DEF WaitingWorkers
  <2>3. PoolTypeOK' /\ RunHolds'
    BY <1>1, <2>1, <2>2 DEF PoolTypeOK, RunHolds, WorkerLocations, backlogVars, mainVars, fateVars
  <2>4. Control' /\ NoThreadOutlivesPool'
    BY <1>1, <2>1, <2>2 DEF PoolTypeOK, Control, InUse, NoThreadOutlivesPool, mainVars
  <2>5. WaitingWorkers' \subseteq WaitingWorkers
    BY <2>1, <2>2 DEF WaitingWorkers, PoolTypeOK
  <2>6. NobodySleepsThroughStop'
    BY <1>1, <2>5 DEF NobodySleepsThroughStop, backlogVars, mainVars
  <2>7. WokenWorkers' = WokenWorkers \cup {i} /\ i \notin WokenWorkers
    BY <2>1, <2>2 DEF WokenWorkers, PoolTypeOK
  <2>8. Cardinality(WokenWorkers') = Cardinality(WokenWorkers) + 1
    BY <2>7, Finite, FS_AddElement
  <2>9. Len(backlog) \in Nat /\ backlog' = backlog
    BY <1>1 DEF PoolTypeOK, backlogVars
  <2>10. NoLostSignal'
    BY <1>4, <1>6, <2>8, <2>9, Finite DEF NoLostSignal
  <2> QED
    BY <1>2, <2>3, <2>4, <2>6, <2>10
<1> QED
  BY <1>5, <1>6

(***************************************************************************)
(* A step of the controlling thread that moves only its own place.         *)
(***************************************************************************)
LEMMA StartStopKeep ==
    ASSUME IInv, Start \/ StartWorkerFails \/ Stop
    PROVE  IInv'
<1> USE DEF IInv
<1>1. UNCHANGED <<backlogVars, workerVars, caller, fateVars>>
  BY DEF Start, StartWorkerFails, Stop
<1>2. Owned' /\ StoppedEmpty' /\ RunHolds'
  BY <1>1 DEF Owned, Gone, StoppedEmpty, RunHolds, backlogVars, workerVars, fateVars
<1>3. PoolTypeOK'
  BY <1>1, PoolAssumption DEF Start, StartWorkerFails, Stop, Control, PoolTypeOK, PoolLocations,
     Workers, backlogVars, workerVars, fateVars
<1>4. StopAgrees' /\ NoThreadOutlivesPool' /\ NobodySleepsThroughStop'
  BY <1>1 DEF Start, StartWorkerFails, Stop, StopAgrees, NoThreadOutlivesPool,
     NobodySleepsThroughStop, backlogVars, workerVars
<1>5. WaitingWorkers' = WaitingWorkers /\ WokenWorkers' = WokenWorkers
  BY <1>1 DEF WaitingWorkers, WokenWorkers, workerVars
<1>6. NoLostSignal'
  BY <1>1, <1>5, CountKept DEF backlogVars
<1>7. Control'
  <2>1. CASE Start
    BY <1>1, <2>1, PoolAssumption DEF Start, Control, InUse, Workers, workerVars
  <2>2. CASE StartWorkerFails
    BY <1>1, <2>2, PoolAssumption DEF StartWorkerFails, Control, InUse, Workers, workerVars
  <2>3. CASE Stop
    BY <1>1, <2>3, PoolAssumption DEF Stop, Control, InUse, Workers, workerVars
  <2> QED
    BY <2>1, <2>2, <2>3
<1> QED
  BY <1>2, <1>3, <1>4, <1>6, <1>7

(***************************************************************************)
(* start() makes the next worker.                                          *)
(***************************************************************************)
LEMMA StartWorkerKeeps ==
    ASSUME IInv, StartWorker
    PROVE  IInv'
<1> USE DEF IInv
<1>1. /\ next \in Workers /\ worker[next] = "unstarted" /\ pool = "starting"
      /\ worker' = [worker EXCEPT ![next] = "check"]
      /\ UNCHANGED <<backlogVars, numThreads, running, cmd, caller, fateVars>>
  BY DEF StartWorker, Control, Workers
<1>2. Owned' /\ StoppedEmpty'
  BY <1>1 DEF Owned, Gone, StoppedEmpty, backlogVars, fateVars
<1>3. PoolTypeOK'
  BY <1>1, PoolAssumption DEF StartWorker, PoolTypeOK, PoolLocations, WorkerLocations,
     Workers, backlogVars, fateVars
<1>4. StopAgrees'
  BY <1>1 DEF StartWorker, StopAgrees, backlogVars
<1>5. RunHolds'
  BY <1>1 DEF RunHolds, PoolTypeOK
<1>6. WaitingWorkers' = WaitingWorkers /\ WokenWorkers' = WokenWorkers
  BY <1>1 DEF WaitingWorkers, WokenWorkers, PoolTypeOK
<1>7. NoLostSignal'
  BY <1>1, <1>6, CountKept DEF backlogVars
<1>8. NoThreadOutlivesPool'
  BY <1>1 DEF StartWorker, NoThreadOutlivesPool
<1>9. NobodySleepsThroughStop'
  BY <1>1, <1>6 DEF NobodySleepsThroughStop, StopAgrees, backlogVars
<1>10. Control'
  <2>1. CASE next = NumThreads
    BY <1>1, <2>1, PoolAssumption DEF StartWorker, Control, InUse, Workers, PoolTypeOK
  <2>2. CASE next # NumThreads
    BY <1>1, <2>2, PoolAssumption DEF StartWorker, Control, InUse, Workers, PoolTypeOK
  <2> QED
    BY <2>1, <2>2
<1> QED
  BY <1>2, <1>3, <1>4, <1>5, <1>7, <1>8, <1>9, <1>10

(***************************************************************************)
(* stop() of the queue: what was queued is dropped.                        *)
(***************************************************************************)
LEMMA StopQueueKeeps ==
    ASSUME IInv, StopQueue
    PROVE  IInv'
<1> USE DEF IInv
<1>1. /\ pool = "stopQueue" /\ pool' = "broadcast" /\ stopped' = TRUE /\ backlog' = <<>>
      /\ droppedUnrun' = droppedUnrun \cup Backlog
      /\ UNCHANGED <<numThreads, next, workerVars, caller, finished, refusedByPool>>
  BY DEF StopQueue
<1>2. Backlog \subseteq PoolCommands
  BY DEF Backlog, PoolTypeOK
<1>3. PoolTypeOK'
  <2>1. backlog' \in Seq(PoolCommands) /\ stopped' \in BOOLEAN /\ pool' \in PoolLocations
    BY <1>1 DEF PoolLocations
  <2> QED
    BY <1>1, <1>2, <2>1 DEF PoolTypeOK, workerVars
<1>4. StoppedEmpty' /\ RunHolds' /\ NoThreadOutlivesPool' /\ NobodySleepsThroughStop'
  BY <1>1 DEF StoppedEmpty, RunHolds, NoThreadOutlivesPool, NobodySleepsThroughStop, workerVars
<1>5. StopAgrees'
  BY <1>1 DEF StopAgrees
<1>6. Control'
  BY <1>1 DEF Control, InUse, workerVars
<1>7. Owned'
  <2>1. Len(backlog') = 0
    BY <1>1
  <2>2. \A c \in Backlog : c \notin Gone /\ \A i \in Workers : c # cmd[i]
    BY DEF Backlog, Owned
  <2> QED
    BY <1>1, <2>1, <2>2 DEF Owned, Gone, workerVars
<1>8. NoLostSignal'
  <2>1. Len(backlog') = 0
    BY <1>1
  <2> QED
    BY <2>1, FiniteNext DEF NoLostSignal
<1> QED
  BY <1>3, <1>4, <1>5, <1>6, <1>7, <1>8

(***************************************************************************)
(* The broadcast of stop() leaves nobody asleep.                           *)
(***************************************************************************)
LEMMA BroadcastKeeps ==
    ASSUME IInv, Broadcast
    PROVE  IInv'
<1> USE DEF IInv
<1>1. /\ pool = "broadcast"
      /\ worker' = [i \in Workers |-> IF worker[i] = "wait" THEN "woken" ELSE worker[i]]
      /\ pool' = IF numThreads = 0 THEN "done" ELSE "stopWorkers"
      /\ next' = 1
      /\ UNCHANGED <<backlogVars, numThreads, running, cmd, caller, fateVars>>
  BY DEF Broadcast
<1>2. Owned' /\ StoppedEmpty'
  BY <1>1 DEF Owned, Gone, StoppedEmpty, backlogVars, fateVars
<1>3. PoolTypeOK'
  BY <1>1, PoolAssumption DEF PoolTypeOK, PoolLocations, WorkerLocations, backlogVars, fateVars
<1>4. StopAgrees' /\ RunHolds'
  BY <1>1 DEF StopAgrees, RunHolds, backlogVars
<1>5. WaitingWorkers' = {}
  BY <1>1 DEF WaitingWorkers
<1>6. Control'
  BY <1>1, PoolAssumption DEF Control, InUse, PoolTypeOK
<1>7. NoThreadOutlivesPool'
  BY <1>1, PoolAssumption DEF Control, InUse, PoolTypeOK, NoThreadOutlivesPool, Workers
<1> QED
  BY <1>2, <1>3, <1>4, <1>5, <1>6, <1>7 DEF NobodySleepsThroughStop, NoLostSignal

(***************************************************************************)
(* stop() clears the _isRunning of the next worker.                        *)
(***************************************************************************)
LEMMA StopWorkerKeeps ==
    ASSUME IInv, StopWorker
    PROVE  IInv'
<1> USE DEF IInv
<1>1. /\ pool = "stopWorkers" /\ running' = [running EXCEPT ![next] = FALSE]
      /\ UNCHANGED <<backlogVars, numThreads, worker, cmd, caller, fateVars>>
      /\ next \in 1 .. numThreads /\ numThreads \in 0 .. NumThreads
  BY DEF StopWorker, Control, PoolTypeOK
<1>2. Owned' /\ StoppedEmpty' /\ RunHolds'
  BY <1>1 DEF Owned, Gone, StoppedEmpty, RunHolds, backlogVars, fateVars
<1>3. /\ \/ next = numThreads /\ pool' = "joining" /\ next' = 1
         \/ next # numThreads /\ pool' = "stopWorkers" /\ next' = next + 1
  BY DEF StopWorker
<1>4. PoolTypeOK'
  <2>1. running' \in [Workers -> BOOLEAN]
    BY <1>1 DEF PoolTypeOK
  <2>2. next' \in 1 .. NumThreads + 1 /\ pool' \in PoolLocations
    BY <1>1, <1>3, PoolAssumption DEF PoolLocations
  <2> QED
    BY <1>1, <2>1, <2>2 DEF PoolTypeOK, backlogVars, fateVars
<1>5. StopAgrees' /\ NoThreadOutlivesPool'
  BY <1>1, <1>3 DEF StopAgrees, NoThreadOutlivesPool, backlogVars
<1>6. WaitingWorkers' = WaitingWorkers /\ WokenWorkers' = WokenWorkers
  BY <1>1 DEF WaitingWorkers, WokenWorkers
<1>7. NoLostSignal'
  BY <1>1, <1>6, CountKept DEF backlogVars
<1>8. NobodySleepsThroughStop'
  BY <1>1, <1>3, <1>6 DEF NobodySleepsThroughStop, backlogVars
<1>9. Control'
  BY <1>1, <1>3, PoolAssumption DEF Control, InUse, Workers
<1> QED
  BY <1>2, <1>4, <1>5, <1>7, <1>8, <1>9

(***************************************************************************)
(* join() waits for the next worker, and destroys them after the last.     *)
(***************************************************************************)
LEMMA JoinKeeps ==
    ASSUME IInv, Join
    PROVE  IInv'
<1> USE DEF IInv
<1>1. /\ pool = "joining" /\ worker[next] = "exited"
      /\ UNCHANGED <<backlogVars, numThreads, running, cmd, caller, fateVars>>
      /\ next \in 1 .. numThreads /\ numThreads \in 0 .. NumThreads
  BY DEF Join, Control, PoolTypeOK
<1>2. Owned' /\ StoppedEmpty'
  BY <1>1 DEF Owned, Gone, StoppedEmpty, backlogVars, fateVars
<1>3. stopped /\ stopped' = stopped /\ WaitingWorkers = {}
  BY <1>1 DEF StopAgrees, NobodySleepsThroughStop, backlogVars
<1>4. CASE next = numThreads
  <2>1. /\ worker' = [i \in Workers |-> IF i <= numThreads THEN "destroyed" ELSE worker[i]]
        /\ pool' = "done" /\ next' = next
    BY <1>4 DEF Join
  <2>2. PoolTypeOK'
    BY <1>1, <2>1 DEF PoolTypeOK, PoolLocations, WorkerLocations, backlogVars, fateVars
  <2>3. StopAgrees' /\ Control'
    BY <1>3, <2>1 DEF StopAgrees, Control
  <2>4. \A i \in Workers : i <= numThreads => worker[i] = "exited"
    BY <1>1, <1>4 DEF Control, Workers
  <2>5. RunHolds'
    BY <1>1, <2>1, <2>4 DEF RunHolds
  <2>6. NoThreadOutlivesPool'
    BY <1>1, <2>1 DEF NoThreadOutlivesPool, Control
  <2>7. WaitingWorkers' = {}
    BY <1>3, <2>1 DEF WaitingWorkers
  <2> QED
    BY <1>2, <2>2, <2>3, <2>5, <2>6, <2>7 DEF NobodySleepsThroughStop, NoLostSignal
<1>5. CASE next # numThreads
  <2>1. next' = next + 1 /\ UNCHANGED <<worker, pool>>
    BY <1>5 DEF Join
  <2>2. PoolTypeOK'
    BY <1>1, <1>5, <2>1, PoolAssumption DEF PoolTypeOK, backlogVars, fateVars
  <2>3. StopAgrees' /\ RunHolds' /\ NoThreadOutlivesPool'
    BY <1>1, <1>3, <2>1 DEF StopAgrees, RunHolds, NoThreadOutlivesPool
  <2>4. Control'
    BY <1>1, <1>5, <2>1 DEF Control, InUse, Workers
  <2>5. WaitingWorkers' = {}
    BY <1>3, <2>1 DEF WaitingWorkers
  <2> QED
    BY <1>2, <2>2, <2>3, <2>4, <2>5 DEF NobodySleepsThroughStop, NoLostSignal
<1> QED
  BY <1>4, <1>5

----------------------------------------------------------------------------
(***************************************************************************)
(* A worker that moves from one place in use to another changes nothing    *)
(* the controlling thread relies on: only an exited worker was joined, and *)
(* an exited worker does not move.                                         *)
(***************************************************************************)
LEMMA WorkerMoves ==
    ASSUME IInv, NEW i \in Workers, NEW to \in WorkerLocations, UNCHANGED mainVars,
           worker[i] \notin {"unstarted", "destroyed", "exited"},
           to \notin {"unstarted", "destroyed"},
           worker' = [worker EXCEPT ![i] = to]
    PROVE  /\ Control' /\ NoThreadOutlivesPool'
           /\ worker' \in [Workers -> WorkerLocations]
<1>1. \A j \in Workers : worker'[j] = IF j = i THEN to ELSE worker[j]
  BY DEF IInv, PoolTypeOK
<1>2. worker' \in [Workers -> WorkerLocations]
  BY DEF IInv, PoolTypeOK
<1>3. NoThreadOutlivesPool'
  BY <1>1 DEF IInv, NoThreadOutlivesPool, mainVars
<1>4. Control'
  BY <1>1 DEF IInv, Control, InUse, mainVars
<1> QED
  BY <1>2, <1>3, <1>4

(***************************************************************************)
(* The loop condition of a worker.                                         *)
(***************************************************************************)
LEMMA CheckKeeps ==
    ASSUME IInv, NEW i \in Workers, Check(i) \/ WorkerWakes(i)
    PROVE  IInv'
<1>1. UNCHANGED <<backlogVars, mainVars, running, cmd, caller, fateVars>>
  BY DEF Check, WorkerWakes
<1>2. PICK to \in {"lock", "exited", "woken"} :
         /\ worker' = [worker EXCEPT ![i] = to]
         /\ to = "woken" <=> worker[i] = "wait"
         /\ worker[i] \in {"check", "wait"}
  BY DEF Check, WorkerWakes
<1>3. Control' /\ NoThreadOutlivesPool' /\ worker' \in [Workers -> WorkerLocations]
  <2>1. /\ to \in WorkerLocations /\ to \notin {"unstarted", "destroyed"}
        /\ worker[i] \notin {"unstarted", "destroyed", "exited"}
    BY <1>2 DEF WorkerLocations
  <2> QED
    BY <1>1, <1>2, <2>1, WorkerMoves
<1>4. PoolTypeOK'
  BY <1>1, <1>3 DEF IInv, PoolTypeOK, backlogVars, mainVars, fateVars
<1>5. Owned' /\ StoppedEmpty' /\ StopAgrees'
  BY <1>1 DEF IInv, Owned, Gone, StoppedEmpty, StopAgrees, backlogVars, mainVars, fateVars
<1>6. RunHolds'
  BY <1>1, <1>2 DEF IInv, RunHolds, PoolTypeOK
<1>7. WaitingWorkers' \subseteq WaitingWorkers /\ WokenWorkers \subseteq WokenWorkers'
  BY <1>2 DEF IInv, PoolTypeOK, WaitingWorkers, WokenWorkers
<1>8. NoLostSignal'
  BY <1>1, <1>7, CountKept DEF IInv, backlogVars
<1>9. NobodySleepsThroughStop'
  BY <1>1, <1>7 DEF IInv, NobodySleepsThroughStop, backlogVars, mainVars
<1> QED
  BY <1>3, <1>4, <1>5, <1>6, <1>8, <1>9 DEF IInv

(***************************************************************************)
(* pop: a worker that takes a command leaves one less to wake for, and one *)
(* that finds the queue stopped leaves.                                    *)
(***************************************************************************)
LEMMA PopKeeps ==
    ASSUME IInv, NEW i \in Workers, PopBacklog(i)
    PROVE  IInv'
<1>1. UNCHANGED <<stopped, mainVars, running, caller, fateVars>> /\ worker[i] \in {"lock", "woken"}
  BY DEF PopBacklog
<1>2. StopAgrees' /\ PendingSignals' = PendingSignals
  BY <1>1 DEF IInv, StopAgrees, mainVars, PendingSignals
<1>3. ASSUME NEW to \in {"exited", "run", "wait"}, worker' = [worker EXCEPT ![i] = to]
      PROVE  Control' /\ NoThreadOutlivesPool' /\ worker' \in [Workers -> WorkerLocations]
  <2>1. /\ to \in WorkerLocations /\ to \notin {"unstarted", "destroyed"}
        /\ worker[i] \notin {"unstarted", "destroyed", "exited"}
    BY <1>1 DEF WorkerLocations
  <2> QED
    BY <1>1, <1>3, <2>1, WorkerMoves
<1>4. CASE stopped /\ worker' = [worker EXCEPT ![i] = "exited"] /\ UNCHANGED <<backlog, cmd>>
  <2>1. Control' /\ NoThreadOutlivesPool' /\ worker' \in [Workers -> WorkerLocations]
    BY <1>3, <1>4
  <2>2. PoolTypeOK'
    BY <1>1, <1>4, <2>1 DEF IInv, PoolTypeOK, mainVars, fateVars
  <2>3. Owned' /\ StoppedEmpty'
    BY <1>1, <1>4 DEF IInv, Owned, Gone, StoppedEmpty, fateVars
  <2>4. RunHolds'
    BY <1>1, <1>4 DEF IInv, RunHolds, PoolTypeOK
  <2>5. WaitingWorkers' \subseteq WaitingWorkers
    BY <1>4 DEF IInv, PoolTypeOK, WaitingWorkers
  <2>6. NobodySleepsThroughStop'
    BY <1>1, <2>5 DEF IInv, NobodySleepsThroughStop, mainVars
  <2>7. Len(backlog') = 0
    BY <1>4 DEF IInv, StoppedEmpty
  <2>8. NoLostSignal'
    BY <2>7, FiniteNext DEF NoLostSignal
  <2> QED
    BY <1>2, <2>1, <2>2, <2>3, <2>4, <2>6, <2>8 DEF IInv
<1>5. CASE /\ ~stopped /\ backlog # <<>>
           /\ cmd' = [cmd EXCEPT ![i] = Head(backlog)]
           /\ worker' = [worker EXCEPT ![i] = "run"]
           /\ backlog' = Tail(backlog)
  <2>1. Control' /\ NoThreadOutlivesPool' /\ worker' \in [Workers -> WorkerLocations]
    BY <1>3, <1>5
  <2>2. /\ Head(backlog) = backlog[1] /\ backlog[1] \in PoolCommands
        /\ Len(backlog) \in Nat /\ Len(backlog) # 0 /\ Len(backlog') = Len(backlog) - 1
        /\ backlog' \in Seq(PoolCommands)
        /\ \A k \in 1 .. Len(backlog') : backlog'[k] = backlog[k + 1]
    BY <1>5 DEF IInv, PoolTypeOK
  <2>3. PoolTypeOK'
    BY <1>1, <1>5, <2>1, <2>2 DEF IInv, PoolTypeOK, mainVars, fateVars
  <2>4. \A j \in Workers : cmd'[j] = IF j = i THEN backlog[1] ELSE cmd[j]
    BY <1>5, <2>2 DEF IInv, PoolTypeOK
  <2>5. Owned'
    <3>1. \A k \in 1 .. Len(backlog') : k + 1 \in 1 .. Len(backlog) /\ k + 1 # 1 /\ backlog'[k] = backlog[k + 1]
      BY <2>2
    <3>2. 1 \in 1 .. Len(backlog) /\ backlog[1] # NoPoolCommand
      BY <2>2, PoolAssumption
    <3>3. \A j, k \in 1 .. Len(backlog') : backlog'[j] = backlog'[k] => j = k
      BY <2>2, <3>1 DEF IInv, Owned
    <3>4. \A j, k \in Workers : cmd'[j] = cmd'[k] => j = k \/ cmd'[j] = NoPoolCommand
      BY <2>4, <3>2 DEF IInv, Owned
    <3>5. \A k \in 1 .. Len(backlog'), j \in Workers : backlog'[k] # cmd'[j]
      BY <2>4, <3>1, <3>2 DEF IInv, Owned
    <3>6. \A k \in 1 .. Len(backlog') : backlog'[k] \notin Gone
      BY <3>1 DEF IInv, Owned
    <3>7. \A j \in Workers : cmd'[j] \notin Gone
      BY <2>4, <3>2 DEF IInv, Owned
    <3> QED
      BY <1>1, <3>3, <3>4, <3>5, <3>6, <3>7 DEF IInv, Owned, Gone, fateVars
  <2>6. StoppedEmpty'
    BY <1>1, <1>5 DEF StoppedEmpty
  <2>7. RunHolds'
    BY <1>5, <2>2, <2>4, PoolAssumption DEF IInv, RunHolds, PoolTypeOK
  <2>8. WaitingWorkers' \subseteq WaitingWorkers
    BY <1>5 DEF IInv, PoolTypeOK, WaitingWorkers
  <2>9. NobodySleepsThroughStop'
    BY <1>1, <1>5 DEF NobodySleepsThroughStop
  <2>10. WokenWorkers' = WokenWorkers \ {i}
    BY <1>5 DEF IInv, PoolTypeOK, WokenWorkers
  <2>11. Cardinality(WokenWorkers') >= Cardinality(WokenWorkers) - 1
    <3>1. Cardinality(WokenWorkers \ {i}) =
            IF i \in WokenWorkers THEN Cardinality(WokenWorkers) - 1 ELSE Cardinality(WokenWorkers)
      BY Finite, FS_RemoveElement
    <3> QED
      BY <2>10, <3>1, Finite
  <2>12. NoLostSignal'
    BY <1>2, <2>2, <2>8, <2>11, Finite, FiniteNext DEF IInv, NoLostSignal
  <2> QED
    BY <1>2, <2>1, <2>3, <2>5, <2>6, <2>7, <2>9, <2>12 DEF IInv
<1>6. CASE ~stopped /\ backlog = <<>> /\ worker' = [worker EXCEPT ![i] = "wait"] /\ UNCHANGED <<backlog, cmd>>
  <2>1. Control' /\ NoThreadOutlivesPool' /\ worker' \in [Workers -> WorkerLocations]
    BY <1>3, <1>6
  <2>2. PoolTypeOK'
    BY <1>1, <1>6, <2>1 DEF IInv, PoolTypeOK, mainVars, fateVars
  <2>3. Owned' /\ StoppedEmpty'
    BY <1>1, <1>6 DEF IInv, Owned, Gone, StoppedEmpty, fateVars
  <2>4. RunHolds'
    BY <1>1, <1>6 DEF IInv, RunHolds, PoolTypeOK
  <2>5. NobodySleepsThroughStop'
    BY <1>1, <1>6 DEF NobodySleepsThroughStop
  <2>6. Len(backlog') = 0
    BY <1>6
  <2>7. NoLostSignal'
    BY <2>6, FiniteNext DEF NoLostSignal
  <2> QED
    BY <1>2, <2>1, <2>2, <2>3, <2>4, <2>5, <2>7 DEF IInv
<1> QED
  BY <1>4, <1>5, <1>6 DEF PopBacklog

(***************************************************************************)
(* A command returns: its worker gives it up.                              *)
(***************************************************************************)
LEMMA FinishKeeps ==
    ASSUME IInv, NEW i \in Workers, Finish(i)
    PROVE  IInv'
<1>1. /\ worker[i] = "run" /\ finished' = finished \cup {cmd[i]}
      /\ cmd' = [cmd EXCEPT ![i] = NoPoolCommand] /\ worker' = [worker EXCEPT ![i] = "check"]
      /\ UNCHANGED <<backlogVars, mainVars, running, caller, droppedUnrun, refusedByPool>>
  BY DEF Finish
<1>2. cmd[i] \in PoolCommands
  BY <1>1 DEF IInv, RunHolds, PoolTypeOK
<1>3. Control' /\ NoThreadOutlivesPool' /\ worker' \in [Workers -> WorkerLocations]
  <2>1. /\ "check" \in WorkerLocations
        /\ worker[i] \notin {"unstarted", "destroyed", "exited"}
    BY <1>1 DEF WorkerLocations
  <2> QED
    BY <1>1, <2>1, WorkerMoves
<1>4. PoolTypeOK'
  BY <1>1, <1>2, <1>3 DEF IInv, PoolTypeOK, backlogVars, mainVars
<1>5. \A j \in Workers : cmd'[j] = IF j = i THEN NoPoolCommand ELSE cmd[j]
  BY <1>1 DEF IInv, PoolTypeOK
<1>6. Owned'
  <2>1. NoPoolCommand \notin Gone' /\ \A k \in 1 .. Len(backlog) : backlog[k] # NoPoolCommand
    BY <1>4, PoolAssumption DEF IInv, PoolTypeOK, Gone
  <2> QED
    BY <1>1, <1>2, <1>5, <2>1 DEF IInv, Owned, Gone, backlogVars
<1>7. StoppedEmpty' /\ StopAgrees'
  BY <1>1 DEF IInv, StoppedEmpty, StopAgrees, backlogVars, mainVars
<1>8. RunHolds'
  BY <1>1, <1>5 DEF IInv, RunHolds, PoolTypeOK
<1>9. WaitingWorkers' \subseteq WaitingWorkers /\ WokenWorkers \subseteq WokenWorkers'
  BY <1>1 DEF IInv, PoolTypeOK, WaitingWorkers, WokenWorkers
<1>10. NoLostSignal'
  BY <1>1, <1>9, CountKept DEF IInv, backlogVars
<1>11. NobodySleepsThroughStop'
  BY <1>1, <1>9 DEF IInv, NobodySleepsThroughStop, backlogVars, mainVars
<1> QED
  BY <1>3, <1>4, <1>6, <1>7, <1>8, <1>10, <1>11 DEF IInv

----------------------------------------------------------------------------
(***************************************************************************)
(* The invariant holds before start().                                     *)
(***************************************************************************)
LEMMA InitInv == PoolInit => IInv
<1> SUFFICES ASSUME PoolInit PROVE IInv
  OBVIOUS
<1>1. PoolTypeOK
  <2>1. backlog \in Seq(PoolCommands)
    BY DEF PoolInit
  <2>2. running \in [Workers -> BOOLEAN]
    BY DEF PoolInit
  <2>3. stopped \in BOOLEAN
    BY DEF PoolInit
  <2> QED
    BY <2>1, <2>2, <2>3, PoolAssumption DEF PoolInit, PoolTypeOK, PoolLocations, WorkerLocations
<1>2. Len(backlog) = 0 /\ WaitingWorkers = {}
  BY DEF PoolInit, WaitingWorkers
<1>3. StopAgrees /\ StoppedEmpty
  BY DEF PoolInit, StopAgrees, StoppedEmpty
<1>4. RunHolds /\ Control /\ NoThreadOutlivesPool
  BY DEF PoolInit, RunHolds, Control, NoThreadOutlivesPool
<1>5. Owned
  BY <1>2 DEF PoolInit, Owned, Gone
<1> QED
  BY <1>1, <1>2, <1>3, <1>4, <1>5 DEF IInv, NobodySleepsThroughStop, NoLostSignal

(***************************************************************************)
(* The inductive invariant of the pool and its queue.                      *)
(***************************************************************************)
THEOREM Invariance == PoolSpec => []IInv
<1>1. IInv /\ UNCHANGED poolVars => IInv'
  BY DEF poolVars, backlogVars, mainVars, workerVars, fateVars, IInv, PoolTypeOK, StopAgrees, StoppedEmpty,
         RunHolds, Control, InUse, NoThreadOutlivesPool, Owned, Gone, NobodySleepsThroughStop,
         NoLostSignal, WaitingWorkers, WokenWorkers, PendingSignals
<1>2. ASSUME IInv, PoolNext PROVE IInv'
  <2>1. CASE Start \/ Stop \/ StartWorkerFails
    BY <1>2, <2>1, StartStopKeep
  <2>2. CASE StartWorker \/ StopQueue \/ Broadcast \/ StopWorker \/ Join
    BY <1>2, <2>2, StartWorkerKeeps, StopQueueKeeps, BroadcastKeeps, StopWorkerKeeps, JoinKeeps
  <2>3. CASE \E e \in Callers : Execute(e) \/ Signal(e)
    BY <1>2, <2>3, ExecuteKeeps, SignalKeeps
  <2>4. CASE \E i \in Workers : WorkerStep(i) \/ WorkerWakes(i)
    BY <1>2, <2>4, CheckKeeps, PopKeeps, FinishKeeps DEF WorkerStep
  <2> QED
    BY <1>2, <2>1, <2>2, <2>3, <2>4 DEF PoolNext, MainStep
<1>3. IInv /\ [PoolNext]_poolVars => IInv'
  BY <1>1, <1>2
<1> QED
  BY <1>3, InitInv, PTL DEF PoolSpec

(***************************************************************************)
(* The shape of the pool's state.                                          *)
(***************************************************************************)
THEOREM TypeCorrect == PoolSpec => []PoolTypeOK
<1>1. IInv => PoolTypeOK
  BY DEF IInv
<1> QED
  BY <1>1, Invariance, PTL

(***************************************************************************)
(* No worker sleeps through the signal of a push or the broadcast of       *)
(* stop(), although both are sent after the mutex was released             *)
(* (SharedEmbeddedQueue), for any number of workers and callers.           *)
(***************************************************************************)
THEOREM WakeupsArrive == PoolSpec => []NoLostWakeup
<1>1. IInv => NoLostWakeup
  BY DEF IInv, NoLostWakeup
<1> QED
  BY <1>1, Invariance, PTL

(***************************************************************************)
(* A command has one owner at a time and is run at most once, and join()   *)
(* destroys a worker only after its thread left run(), also when start()   *)
(* fails half way (ThreadPool::start, stop, join).                         *)
(***************************************************************************)
THEOREM OwnersAreUnique == PoolSpec => []NothingIsShared
<1>1. IInv => NothingIsShared
  BY OwnedImpliesOneOwner DEF IInv, NothingIsShared
<1> QED
  BY <1>1, Invariance, PTL
=============================================================================

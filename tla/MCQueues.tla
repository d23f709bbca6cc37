------------------------------ MODULE MCQueues ------------------------------
(***************************************************************************)
(* The queues between threads, side by side for TLC: a behaviour is one of *)
(* the blocking queue, of the command socket or of the thread pool with    *)
(* its queue; the others stay as they are.                                 *)
(***************************************************************************)
EXTENDS SharedQueue, HttpCommandSocket, ThreadPool

CONSTANTS t1, t2, t3, t4, x, p1, p2, p3, c1, c2, c3, c4, e1, e2, m,
          Subjects    \* the queues of this run, of {"shared", "command", "pool"}

VARIABLE subject      \* the queue whose behaviour this is

QueuesInit == subject \in Subjects /\ QueueInit /\ Init /\ PoolInit

QueuesNext ==
    /\ UNCHANGED subject
    /\ \/ subject = "shared" /\ QueueNext /\ UNCHANGED <<vars, poolVars>>
       \/ subject = "command" /\ Next /\ UNCHANGED <<queueVars, poolVars>>
       \/ subject = "pool" /\ PoolNext /\ UNCHANGED <<queueVars, vars>>

(***************************************************************************)
(* The fairness of QueueFairSpec, FairSpec and PoolFairSpec.  Of those     *)
(* that stay as they are, in their initial states, only Register is        *)
(* enabled.                                                                *)
(***************************************************************************)
QueuesSpec ==
    /\ QueuesInit
    /\ [][QueuesNext]_<<subject, queueVars, vars, poolVars>>
    /\ \A t \in Threads : WF_queueVars(Operate(t) /\ Note)
    /\ WF_vars(subject = "command" /\ Register) /\ WF_vars(LoopStep)
    /\ \A p \in Pushers : WF_vars(Write(p))
    /\ WF_poolVars(MainStep)
    /\ \A e \in Callers : WF_poolVars(Signal(e))
    /\ \A i \in Workers : WF_poolVars(WorkerStep(i))
=============================================================================

---------------------------- MODULE SharedQueue ----------------------------
(***************************************************************************)
(* The bounded blocking queue of base/source/ESBSharedQueue.cpp: a list    *)
(* under a mutex, with one condition variable for blocked consumers and    *)
(* one for blocked producers.                                              *)
(*                                                                         *)
(* Every call is one critical section, so a call is one atomic step from   *)
(* pthread_mutex_lock to either pthread_mutex_unlock or                    *)
(* pthread_cond_wait (which releases the mutex and blocks in one step).    *)
(* The steps of different threads interleave freely between them.  A       *)
(* thread that pthread_cond_wait wakes competes for the mutex again and    *)
(* then tests the loop condition again: the same code it ran on entry.     *)
(* The pthread calls on an initialised mutex and condition variable do not *)
(* fail; the list's allocator may, to allocate a node or to free one.      *)
(***************************************************************************)
EXTENDS Integers, Sequences, FiniteSets, FiniteSetsExt

CONSTANTS Threads,   \* the threads that share the queue
          Items,     \* the (non-NULL) items
          Limit,     \* _limit, 0 for an unlimited queue
          Calls,     \* the calls the threads make
          MaxSize    \* bound: items an unlimited queue holds

AllCalls == {"push", "tryPush", "pop", "tryPop", "clear"}

ASSUME QueueAssumption ==
    /\ IsFiniteSet(Threads)
    /\ Limit \in Nat
    /\ MaxSize \in Nat
    /\ Calls \subseteq AllCalls

VARIABLES list,   \* _list
          call,   \* the call a thread is in, "none" outside the queue
          arg,    \* the item that call pushes
          at,     \* "lock": about to lock; "wait": blocked in
                  \* pthread_cond_wait; "woken": signalled, about to lock
          missed, \* a clear() of a full list left producers blocked
          failed  \* wakeups of consumers whose popFront then failed

noteVars == <<missed, failed>>
queueVars == <<list, call, arg, at, noteVars>>

QueueTypeOK ==
    /\ list \in Seq(Items)
    /\ call \in [Threads -> AllCalls \cup {"none"}]
    /\ arg \in [Threads -> Items]
    /\ at \in [Threads -> {"lock", "wait", "woken"}]
    /\ missed \in BOOLEAN
    /\ failed \in Nat

QueueInit ==
    /\ list = <<>>
    /\ call = [t \in Threads |-> "none"]
    /\ arg \in [Threads -> Items]
    /\ at = [t \in Threads |-> "lock"]
    /\ missed = FALSE
    /\ failed = 0

----------------------------------------------------------------------------
(* The threads blocked on _producerSignal and on _consumerSignal, and the  *)
(* consumers that were signalled and have not run yet.                     *)
BlockedProducers == {t \in Threads : call[t] = "push" /\ at[t] = "wait"}
BlockedConsumers == {t \in Threads : call[t] = "pop" /\ at[t] = "wait"}
WokenConsumers   == {t \in Threads : call[t] = "pop" /\ at[t] = "woken"}

HasRoom == Limit = 0 \/ Len(list) < Limit

Ready(t, op) == call[t] = op /\ at[t] \in {"lock", "woken"}

Return(t) == call' = [call EXCEPT ![t] = "none"]

(***************************************************************************)
(* A thread calls an operation; arg is what it would push.                 *)
(***************************************************************************)
Enter(t) ==
    /\ call[t] = "none"
    /\ \E op \in Calls, x \in Items :
        /\ op \in {"push", "tryPush"} => Limit # 0 \/ Len(list) < MaxSize
        /\ call' = [call EXCEPT ![t] = op]
        /\ arg' = [arg EXCEPT ![t] = x]
    /\ at' = [at EXCEPT ![t] = "lock"]
    /\ UNCHANGED list

(***************************************************************************)
(* The end of push and tryPush: pushBack, then pthread_cond_signal, which  *)
(* wakes one blocked consumer if there is one.                             *)
(***************************************************************************)
AddAndSignal(t) ==
    /\ HasRoom
    /\ list' = Append(list, arg[t])
    /\ IF BlockedConsumers = {}
       THEN at' = [at EXCEPT ![t] = "lock"]
       ELSE \E c \in BlockedConsumers : at' = [at EXCEPT ![t] = "lock", ![c] = "woken"]
    /\ Return(t)
    /\ UNCHANGED arg

Block(t) ==
    /\ at' = [at EXCEPT ![t] = "wait"]
    /\ UNCHANGED <<list, call, arg>>

(***************************************************************************)
(* Return with the list as it is and nobody woken: ESB_AGAIN from tryPush  *)
(* and tryPop, the error of a pushBack that is out of memory, or the error *)
(* of a popFront that cannot free the node (List::popFront puts it back).  *)
(***************************************************************************)
ReturnError(t) ==
    /\ Return(t)
    /\ at' = [at EXCEPT ![t] = "lock"]
    /\ UNCHANGED <<list, arg>>

Push(t) ==
    /\ Ready(t, "push")
    /\ \/ ~HasRoom /\ Block(t)
       \/ AddAndSignal(t)
       \/ HasRoom /\ ReturnError(t)

TryPush(t) ==
    /\ Ready(t, "tryPush")
    /\ \/ ~HasRoom /\ ReturnError(t)
       \/ AddAndSignal(t)
       \/ HasRoom /\ ReturnError(t)

(***************************************************************************)
(* The end of pop and tryPop: popFront, then pthread_cond_broadcast to the *)
(* producers when the queue was full.                                      *)
(***************************************************************************)
WakeProducers(t, full) ==
    at' = [u \in Threads |-> IF u = t THEN "lock"
                             ELSE IF full /\ u \in BlockedProducers THEN "woken"
                             ELSE at[u]]

\* a plausible bug: the size is read after popFront
RemoveAndBroadcastLate(t) ==
    /\ list # <<>>
    /\ list' = Tail(list)
    /\ WakeProducers(t, Limit = Len(list) - 1)
    /\ Return(t)
    /\ UNCHANGED arg

RemoveAndBroadcast(t) ==
    /\ list # <<>>
    /\ list' = Tail(list)
    /\ WakeProducers(t, Limit = Len(list))
    /\ Return(t)
    /\ UNCHANGED arg

\* a plausible bug: the wait names a mutex that nobody unlocks again, so a
\* woken consumer never gets back into the loop
PopNeverRelocks(t) ==
    /\ Ready(t, "pop") /\ at[t] = "lock"
    /\ \/ list = <<>> /\ Block(t)
       \/ RemoveAndBroadcast(t)
       \/ list # <<>> /\ ReturnError(t)

Pop(t) ==
    /\ Ready(t, "pop")
    /\ \/ list = <<>> /\ Block(t)
       \/ RemoveAndBroadcast(t)
       \/ list # <<>> /\ ReturnError(t)

TryPop(t) ==
    /\ Ready(t, "tryPop")
    /\ \/ list = <<>> /\ ReturnError(t)
       \/ RemoveAndBroadcast(t)
       \/ list # <<>> /\ ReturnError(t)

(***************************************************************************)
(* clear() empties the list and wakes the producers when the size was one  *)
(* below the limit.  When a node cannot be freed, clear returns with that  *)
(* node and those behind it still in the list, and wakes nobody.           *)
(***************************************************************************)
Clear(t) ==
    /\ Ready(t, "clear")
    /\ \/ /\ list' = <<>>
          /\ WakeProducers(t, Limit = Len(list) + 1)
       \/ \E k \in 1 .. Len(list) :
             /\ list' = SubSeq(list, k, Len(list))
             /\ WakeProducers(t, FALSE)
    /\ Return(t)
    /\ UNCHANGED arg

(***************************************************************************)
(* pthread_cond_wait may return without a signal (and returns ESB_INTR on  *)
(* some platforms, which the loops ignore).                                *)
(***************************************************************************)
SpuriousWakeup(t) ==
    /\ at[t] = "wait"
    /\ at' = [at EXCEPT ![t] = "woken"]
    /\ UNCHANGED <<list, call, arg>>

Operate(t) == Push(t) \/ TryPush(t) \/ Pop(t) \/ TryPop(t) \/ Clear(t)

(***************************************************************************)
(* History, of the wakeups the code loses.  A clear() that takes items     *)
(* from a full list may forget the producers; a woken consumer whose       *)
(* popFront fails uses up the wakeup of an item that stays.                *)
(***************************************************************************)
ForgetsProducers ==
    /\ Limit = Len(list)
    /\ \E t \in Threads : call[t] = "clear" /\ call'[t] = "none"
WastesWakeup == list' = list /\ \E t \in WokenConsumers : call'[t] = "none"

Note ==
    /\ missed' = (BlockedProducers' # {} /\ (missed \/ ForgetsProducers))
    /\ failed' = IF BlockedConsumers' = {} \/ list' = <<>> THEN 0
                 ELSE IF WastesWakeup THEN failed + 1 ELSE failed

QueueNext == (\E t \in Threads : Enter(t) \/ Operate(t) \/ SpuriousWakeup(t)) /\ Note

QueueSpec == QueueInit /\ [][QueueNext]_queueVars

(***************************************************************************)
(* A thread that competes for the mutex eventually gets it: the critical   *)
(* sections are short and no thread keeps the mutex.  Nothing says that a  *)
(* thread makes another call, or that a wait ends by itself.               *)
(***************************************************************************)
QueueFairSpec == QueueSpec /\ \A t \in Threads : WF_queueVars(Operate(t) /\ Note)

----------------------------------------------------------------------------
(***************************************************************************)
(* The queue never holds more than _limit items, whichever mix of push and *)
(* tryPush fills it and however many producers one pop wakes: the room a   *)
(* woken producer was promised may be taken by another before it runs.     *)
(***************************************************************************)
WithinLimit == Limit # 0 => Len(list) <= Limit

(***************************************************************************)
(* No lost consumer wakeup: push signals a single consumer, so while some  *)
(* consumer is blocked there must be a woken one for each item in the list *)
(* (an item may be taken by a third thread first, which only helps), but   *)
(* for the items whose wakeup a failed pop has used up.                    *)
(***************************************************************************)
NoStrandedConsumer ==
    BlockedConsumers # {} => Len(list) <= Cardinality(WokenConsumers) + failed

(***************************************************************************)
(* No lost producer wakeup: producers are woken only by a pop from a full  *)
(* queue, so a producer may be blocked only while the queue is full, or    *)
(* after a clear() of a full queue, which is the one way to lose it.       *)
(***************************************************************************)
NoStrandedProducer == BlockedProducers # {} => ~HasRoom \/ missed

(***************************************************************************)
(* A pop blocked while there are items ends, or the items are gone, unless *)
(* another pop failed after it had been woken for one of them.             *)
(***************************************************************************)
BlockedPopServed ==
    \A t \in Threads :
        (t \in BlockedConsumers /\ list # <<>>)
            ~> (t \notin BlockedConsumers \/ list = <<>> \/ failed > 0)

(***************************************************************************)
(* "Block the caller until there is sufficient room to add a new item"     *)
(* (ESBSharedQueue.h): a push that is blocked while there is room goes on, *)
(* or somebody else takes the room.                                        *)
(***************************************************************************)
BlockedPushServed ==
    \A t \in Threads :
        (t \in BlockedProducers /\ HasRoom) ~> (t \notin BlockedProducers \/ ~HasRoom)

\* The queue never exceeds its limit, and nobody who could proceed is asleep
\* without a wakeup under way, whoever barged in between a signal and the
\* thread it was meant for, except where clear() of a full list or a popFront
\* that fails lost the wakeup: there are no other ways.  (push, pop, tryPush,
\* tryPop and clear)
QueueKeepsItsPromise == WithinLimit /\ NoStrandedConsumer /\ NoStrandedProducer
=============================================================================

-------------------------- MODULE FoundationsProofs --------------------------
(***************************************************************************)
(* What the servers are built on.  Counting arguments, each for any number *)
(* of threads: the SharedQueue and the Locks, whose callers block on       *)
(* condition variables, and the load generator, whose threads share a      *)
(* counter of iterations.  Then the life of a server's threads, sequences  *)
(* without repetitions, the linked lists, the wildcard matcher, the pool   *)
(* of connections, the compact string map and the time series.             *)
(*                                                                         *)
(* The queue (any set of items, any limit).  Push wakes one consumer for   *)
(* the item it adds, so while a consumer sleeps there are at least as many *)
(* woken consumers as items, and a consumer that runs again takes an item  *)
(* with it, or fails and is counted.  The producers' half needs no count,  *)
(* because a pop from a full list wakes them all; it needs that the list   *)
(* is never longer than the limit, or the test for "full" in pop could be  *)
(* jumped over.                                                            *)
(***************************************************************************)
EXTENDS SharedQueue, Locks, HttpLoadgen, HttpServers, LinkedLists, ConnectionPool,
        CompactStringMap, TimeSeries,
        FiniteSetTheorems, SequenceTheorems, WellFoundedInduction, TLAPS

IInv ==
    /\ QueueTypeOK
    /\ WithinLimit
    /\ NoStrandedConsumer
    /\ NoStrandedProducer

(***************************************************************************)
(* The consumers woken and not yet running are finitely many.              *)
(***************************************************************************)
LEMMA WokenFinite ==
    /\ IsFiniteSet(WokenConsumers)
    /\ Cardinality(WokenConsumers) \in Nat
<1>1. WokenConsumers \subseteq Threads /\ IsFiniteSet(Threads)
  BY QueueAssumption DEF WokenConsumers
<1>2. IsFiniteSet(WokenConsumers)
  BY <1>1, FS_Subset
<1> QED
  BY <1>2, FS_CardinalityType

(***************************************************************************)
(* The same after a step.                                                  *)
(***************************************************************************)
LEMMA WokenFiniteNext ==
    /\ IsFiniteSet(WokenConsumers')
    /\ Cardinality(WokenConsumers') \in Nat
<1>1. WokenConsumers' \subseteq Threads /\ IsFiniteSet(Threads)
  BY QueueAssumption DEF WokenConsumers
<1>2. IsFiniteSet(WokenConsumers')
  BY <1>1, FS_Subset
<1> QED
  BY <1>2, FS_CardinalityType

(***************************************************************************)
(* A signal wakes one consumer more.                                       *)
(***************************************************************************)
LEMMA OneMoreWoken ==
    ASSUME NEW c, c \notin WokenConsumers, WokenConsumers' = WokenConsumers \cup {c}
    PROVE  Cardinality(WokenConsumers') = Cardinality(WokenConsumers) + 1
BY WokenFinite, FS_AddElement

(***************************************************************************)
(* A step of one thread takes at most that thread from the woken ones.     *)
(***************************************************************************)
LEMMA OneLessWoken ==
    ASSUME NEW t, WokenConsumers \ {t} \subseteq WokenConsumers'
    PROVE  Cardinality(WokenConsumers') >= Cardinality(WokenConsumers) - 1
<1>1. /\ IsFiniteSet(WokenConsumers \ {t})
      /\ Cardinality(WokenConsumers \ {t}) >= Cardinality(WokenConsumers) - 1
  BY WokenFinite, FS_RemoveElement
<1>2. Cardinality(WokenConsumers \ {t}) <= Cardinality(WokenConsumers')
  BY WokenFiniteNext, FS_Subset
<1>3. Cardinality(WokenConsumers \ {t}) \in Nat
  BY <1>1, FS_CardinalityType
<1> QED
  BY <1>1, <1>2, <1>3, WokenFinite, WokenFiniteNext

(***************************************************************************)
(* A step that takes nobody from the woken ones.                           *)
(***************************************************************************)
LEMMA NoFewerWoken ==
    ASSUME WokenConsumers \subseteq WokenConsumers'
    PROVE  Cardinality(WokenConsumers') >= Cardinality(WokenConsumers)
BY WokenFinite, WokenFiniteNext, FS_Subset

(***************************************************************************)
(* What clear() leaves of the list, whether it frees all nodes or not.     *)
(***************************************************************************)
LEMMA ClearShortens ==
    ASSUME QueueTypeOK, NEW t, Clear(t)
    PROVE  Len(list') \in Nat /\ Len(list) \in Nat /\ Len(list') <= Len(list) /\ list' \in Seq(Items)
<1>1. list \in Seq(Items) /\ Len(list) \in Nat
  BY DEF QueueTypeOK
<1>2. CASE list' = <<>>
  BY <1>1, <1>2
<1>3. ASSUME NEW k \in 1 .. Len(list), list' = SubSeq(list, k, Len(list))
      PROVE  Len(list') \in Nat /\ Len(list') <= Len(list) /\ list' \in Seq(Items)
  <2>1. \A i \in k .. Len(list) : list[i] \in Items
    BY <1>1
  <2>2. list' \in Seq(Items) /\ Len(list') = Len(list) - k + 1
    BY <1>1, <1>3, <2>1, SubSeqProperties
  <2> QED
    BY <1>1, <2>2
<1> QED
  BY <1>1, <1>2, <1>3 DEF Clear

(***************************************************************************)
(* The shape of the state is kept by every call.                           *)
(***************************************************************************)
LEMMA TypeStep ==
    ASSUME QueueTypeOK, QueueNext
    PROVE  QueueTypeOK'
<1>1. missed' \in BOOLEAN /\ failed' \in Nat
  BY DEF QueueNext, Note, QueueTypeOK
<1>2. PICK t \in Threads : Enter(t) \/ Operate(t) \/ SpuriousWakeup(t)
  BY DEF QueueNext
<1> USE DEF QueueTypeOK, AllCalls
<1>3. CASE Enter(t)
  BY <1>1, <1>3, QueueAssumption DEF Enter
<1>4. ASSUME AddAndSignal(t) PROVE QueueTypeOK'
  <2>1. call' \in [Threads -> AllCalls \cup {"none"}] /\ arg' \in [Threads -> Items]
    BY <1>4 DEF AddAndSignal, Return
  <2>2. list' \in Seq(Items)
    BY <1>4 DEF AddAndSignal
  <2>3. at' \in [Threads -> {"lock", "wait", "woken"}]
    BY <1>4 DEF AddAndSignal
  <2> QED
    BY <1>1, <2>1, <2>2, <2>3
<1>5. ASSUME Block(t) PROVE QueueTypeOK'
  BY <1>1, <1>5 DEF Block
<1>6. ASSUME ReturnError(t) PROVE QueueTypeOK'
  BY <1>1, <1>6 DEF ReturnError, Return
<1>7. ASSUME RemoveAndBroadcast(t) PROVE QueueTypeOK'
  BY <1>1, <1>7 DEF RemoveAndBroadcast, WakeProducers, Return
<1>8. CASE Push(t) \/ TryPush(t)
  BY <1>4, <1>5, <1>6, <1>8 DEF Push, TryPush
<1>9. CASE Pop(t) \/ TryPop(t)
  BY <1>5, <1>6, <1>7, <1>9 DEF Pop, TryPop
<1>10. CASE Clear(t)
  <2>1. list' \in Seq(Items)
    BY <1>10, ClearShortens
  <2>2. /\ call' \in [Threads -> AllCalls \cup {"none"}] /\ arg' \in [Threads -> Items]
        /\ at' \in [Threads -> {"lock", "wait", "woken"}]
    BY <1>10 DEF Clear, WakeProducers, Return
  <2> QED
    BY <1>1, <2>1, <2>2
<1>11. CASE SpuriousWakeup(t)
  BY <1>1, <1>11 DEF SpuriousWakeup
<1> QED
  BY <1>2, <1>3, <1>8, <1>9, <1>10, <1>11 DEF Operate

(***************************************************************************)
(* The count of wakeups that failed pops used up is a number.              *)
(***************************************************************************)
LEMMA FailedIsNat ==
    ASSUME IInv, Note
    PROVE  failed' \in Nat
BY DEF Note, IInv, QueueTypeOK

(***************************************************************************)
(* The wakeups that failed pops used up stay counted while somebody sleeps *)
(* on a list that is not empty, and one more is counted when a woken       *)
(* consumer returns and leaves the list as it is.                          *)
(***************************************************************************)
LEMMA FailedStays ==
    ASSUME IInv, Note, BlockedConsumers' # {}, list' # <<>>
    PROVE  /\ failed \in Nat /\ failed' \in Nat
           /\ failed' >= failed
           /\ WastesWakeup => failed' = failed + 1
BY DEF Note, IInv, QueueTypeOK

(***************************************************************************)
(* A producer blocked over a step stays excused if it was: missed is kept  *)
(* as long as somebody is blocked.                                         *)
(***************************************************************************)
LEMMA MissedStays ==
    ASSUME Note, missed, BlockedProducers' # {}
    PROVE  missed'
BY DEF Note

(***************************************************************************)
(* push and tryPush: the item that is added wakes a consumer, and there    *)
(* was room for it.                                                        *)
(***************************************************************************)
LEMMA AddKeeps ==
    ASSUME IInv, Note, NEW t \in Threads, call[t] \in {"push", "tryPush"},
           at[t] \in {"lock", "woken"}, AddAndSignal(t)
    PROVE  WithinLimit' /\ NoStrandedConsumer' /\ NoStrandedProducer'
<1>1. Len(list') = Len(list) + 1 /\ Len(list) \in Nat /\ HasRoom
  BY DEF IInv, QueueTypeOK, AddAndSignal
<1>2. WithinLimit'
  BY <1>1, QueueAssumption DEF WithinLimit, HasRoom
<1>3. BlockedProducers' \subseteq BlockedProducers
  BY DEF BlockedProducers, AddAndSignal, Return, IInv, QueueTypeOK
<1>4. NoStrandedProducer'
  BY <1>1, <1>3, MissedStays DEF IInv, NoStrandedProducer
<1>5. NoStrandedConsumer'
  <2>1. CASE BlockedConsumers = {}
    <3>1. BlockedConsumers' = {}
      BY <2>1 DEF BlockedConsumers, AddAndSignal, Return, IInv, QueueTypeOK
    <3> QED
      BY <3>1 DEF NoStrandedConsumer
  <2>2. CASE BlockedConsumers # {}
    <3>1. PICK c \in BlockedConsumers : at' = [at EXCEPT ![t] = "lock", ![c] = "woken"]
      BY <2>2 DEF AddAndSignal
    <3>2. c # t /\ c \in Threads /\ call[c] = "pop" /\ at[c] = "wait"
      BY DEF BlockedConsumers
    <3>3. WokenConsumers' = WokenConsumers \cup {c} /\ c \notin WokenConsumers
      BY <3>1, <3>2 DEF WokenConsumers, AddAndSignal, Return, IInv, QueueTypeOK
    <3>4. Cardinality(WokenConsumers') = Cardinality(WokenConsumers) + 1
      BY <3>3, OneMoreWoken
    <3>5. Len(list) <= Cardinality(WokenConsumers) + failed
      BY <2>2 DEF IInv, NoStrandedConsumer
    <3>6. ASSUME BlockedConsumers' # {} PROVE failed' >= failed /\ failed \in Nat /\ failed' \in Nat
      BY <1>1, <3>6, FailedStays
    <3>7. ASSUME BlockedConsumers' # {} PROVE Len(list') <= Cardinality(WokenConsumers') + failed'
      BY <1>1, <3>4, <3>5, <3>6, <3>7, WokenFinite
    <3> QED
      BY <3>7 DEF NoStrandedConsumer
  <2> QED
    BY <2>1, <2>2
<1> QED
  BY <1>2, <1>4, <1>5

(***************************************************************************)
(* No consumer loses its wakeup in a step that leaves the list alone and   *)
(* takes nobody from the woken ones.                                       *)
(***************************************************************************)
LEMMA QuietConsumers ==
    ASSUME IInv, Note, UNCHANGED list, BlockedConsumers' \subseteq BlockedConsumers,
           WokenConsumers \subseteq WokenConsumers'
    PROVE  NoStrandedConsumer'
<1>1. Cardinality(WokenConsumers') >= Cardinality(WokenConsumers)
  BY NoFewerWoken
<1>2. ASSUME BlockedConsumers' # {} PROVE Len(list') <= Cardinality(WokenConsumers') + failed'
  <2>1. Len(list) <= Cardinality(WokenConsumers) + failed
    BY <1>2 DEF IInv, NoStrandedConsumer
  <2>2. Len(list) \in Nat /\ failed \in Nat /\ failed' \in Nat
    BY FailedIsNat DEF IInv, QueueTypeOK
  <2>3. CASE list' = <<>>
    BY <2>2, <2>3, WokenFiniteNext
  <2>4. CASE list' # <<>>
    BY <1>1, <1>2, <2>1, <2>2, <2>4, FailedStays, WokenFinite, WokenFiniteNext
  <2> QED
    BY <2>3, <2>4
<1> QED
  BY <1>2 DEF NoStrandedConsumer

(***************************************************************************)
(* A call that leaves the list alone and returns, or a thread that enters  *)
(* one, is none of the blocked or woken consumers and producers (a woken   *)
(* producer may give up).                                                  *)
(***************************************************************************)
LEMMA QuietKeeps ==
    ASSUME IInv, Note, UNCHANGED list, BlockedConsumers' \subseteq BlockedConsumers,
           BlockedProducers' \subseteq BlockedProducers, WokenConsumers \subseteq WokenConsumers'
    PROVE  WithinLimit' /\ NoStrandedConsumer' /\ NoStrandedProducer'
<1>1. WithinLimit' /\ (HasRoom' <=> HasRoom)
  BY DEF IInv, WithinLimit, HasRoom
<1>2. NoStrandedProducer'
  BY <1>1, MissedStays DEF IInv, NoStrandedProducer
<1> QED
  BY <1>1, <1>2, QuietConsumers

(***************************************************************************)
(* pop and tryPop: one item less, and at most one woken consumer less; the *)
(* producers are woken if the list was full.                               *)
(***************************************************************************)
LEMMA RemoveKeeps ==
    ASSUME IInv, Note, NEW t \in Threads, call[t] \in {"pop", "tryPop"},
           at[t] \in {"lock", "woken"}, RemoveAndBroadcast(t)
    PROVE  WithinLimit' /\ NoStrandedConsumer' /\ NoStrandedProducer'
<1>1. Len(list') = Len(list) - 1 /\ Len(list) \in Nat
  BY DEF IInv, QueueTypeOK, RemoveAndBroadcast
<1>2. WithinLimit'
  BY <1>1, QueueAssumption DEF IInv, WithinLimit
<1>3. NoStrandedProducer'
  <2>1. CASE Limit = Len(list)
    <3>1. BlockedProducers' = {}
      BY <2>1 DEF BlockedProducers, RemoveAndBroadcast, WakeProducers, Return, IInv, QueueTypeOK
    <3> QED
      BY <3>1 DEF NoStrandedProducer
  <2>2. CASE Limit # Len(list)
    <3>1. BlockedProducers' \subseteq BlockedProducers
      BY <2>2 DEF BlockedProducers, RemoveAndBroadcast, WakeProducers, Return, IInv, QueueTypeOK
    <3>2. HasRoom
      BY <1>1, <2>2, QueueAssumption DEF IInv, WithinLimit, HasRoom
    <3> QED
      BY <3>1, <3>2, MissedStays DEF IInv, NoStrandedProducer
  <2> QED
    BY <2>1, <2>2
<1>4. BlockedConsumers' \subseteq BlockedConsumers /\ WokenConsumers \ {t} \subseteq WokenConsumers'
  BY DEF BlockedConsumers, WokenConsumers, BlockedProducers, RemoveAndBroadcast, WakeProducers,
         Return, IInv, QueueTypeOK
<1>5. Cardinality(WokenConsumers') >= Cardinality(WokenConsumers) - 1
  BY <1>4, OneLessWoken
<1>6. ASSUME BlockedConsumers' # {} PROVE Len(list') <= Cardinality(WokenConsumers') + failed'
  <2>1. Len(list) <= Cardinality(WokenConsumers) + failed
    BY <1>4, <1>6 DEF IInv, NoStrandedConsumer
  <2>2. failed' \in Nat /\ failed \in Nat
    BY FailedIsNat DEF IInv, QueueTypeOK
  <2>3. CASE list' = <<>>
    BY <2>2, <2>3, WokenFiniteNext
  <2>4. CASE list' # <<>>
    BY <1>1, <1>5, <1>6, <2>1, <2>2, <2>4, FailedStays, WokenFinite, WokenFiniteNext
  <2> QED
    BY <2>3, <2>4
<1> QED
  BY <1>2, <1>3, <1>6 DEF NoStrandedConsumer

(***************************************************************************)
(* A pop whose popFront fails: the list stays, and so do the sleepers; the *)
(* wakeup it used up, if it was woken, is counted.                         *)
(***************************************************************************)
LEMMA FailedPopKeeps ==
    ASSUME IInv, Note, NEW t \in Threads, call[t] = "pop", at[t] \in {"lock", "woken"}, ReturnError(t)
    PROVE  WithinLimit' /\ NoStrandedConsumer' /\ NoStrandedProducer'
<1>1. UNCHANGED list /\ WithinLimit' /\ (HasRoom' <=> HasRoom)
  BY DEF ReturnError, IInv, WithinLimit, HasRoom
<1>2. /\ BlockedProducers' \subseteq BlockedProducers
      /\ BlockedConsumers' \subseteq BlockedConsumers
      /\ WokenConsumers \ {t} \subseteq WokenConsumers'
      /\ t \notin WokenConsumers => WokenConsumers \subseteq WokenConsumers'
  BY DEF ReturnError, Return, BlockedConsumers, BlockedProducers, WokenConsumers, IInv, QueueTypeOK
<1>3. NoStrandedProducer'
  BY <1>1, <1>2, MissedStays DEF IInv, NoStrandedProducer
<1>4. t \in WokenConsumers => WastesWakeup
  BY <1>1 DEF ReturnError, Return, WastesWakeup, WokenConsumers, IInv, QueueTypeOK
<1>5. ASSUME BlockedConsumers' # {} PROVE Len(list') <= Cardinality(WokenConsumers') + failed'
  <2>1. Len(list) <= Cardinality(WokenConsumers) + failed
    BY <1>2, <1>5 DEF IInv, NoStrandedConsumer
  <2>2. Len(list) \in Nat /\ failed \in Nat /\ failed' \in Nat
    BY FailedIsNat DEF IInv, QueueTypeOK
  <2>3. CASE list' = <<>>
    BY <2>2, <2>3, WokenFiniteNext
  <2>4. CASE list' # <<>> /\ t \in WokenConsumers
    <3>1. failed' = failed + 1
      BY <1>4, <1>5, <2>4, FailedStays
    <3>2. Cardinality(WokenConsumers') >= Cardinality(WokenConsumers) - 1
      BY <1>2, OneLessWoken
    <3> QED
      BY <1>1, <2>1, <2>2, <3>1, <3>2, WokenFinite, WokenFiniteNext
  <2>5. CASE list' # <<>> /\ t \notin WokenConsumers
    <3>1. failed' >= failed
      BY <1>5, <2>5, FailedStays
    <3>2. Cardinality(WokenConsumers') >= Cardinality(WokenConsumers)
      BY <1>2, <2>5, NoFewerWoken
    <3> QED
      BY <1>1, <2>1, <2>2, <3>1, <3>2, WokenFinite, WokenFiniteNext
  <2> QED
    BY <2>3, <2>4, <2>5
<1> QED
  BY <1>1, <1>3, <1>5 DEF NoStrandedConsumer

(***************************************************************************)
(* clear() of a full list leaves the producers asleep, and that is noted;  *)
(* of another list, or part of one, it can only make more room.            *)
(***************************************************************************)
LEMMA ClearKeeps ==
    ASSUME IInv, Note, NEW t \in Threads, Clear(t)
    PROVE  WithinLimit' /\ NoStrandedConsumer' /\ NoStrandedProducer'
<1>1. Len(list') \in Nat /\ Len(list) \in Nat /\ Len(list') <= Len(list) /\ list' \in Seq(Items)
  BY ClearShortens DEF IInv
<1>2. WithinLimit'
  BY <1>1, QueueAssumption DEF IInv, WithinLimit
<1>3. /\ BlockedConsumers' \subseteq BlockedConsumers /\ WokenConsumers \subseteq WokenConsumers'
      /\ BlockedProducers' \subseteq BlockedProducers
  BY DEF BlockedConsumers, WokenConsumers, BlockedProducers, Clear, Ready, WakeProducers, Return, IInv,
         QueueTypeOK
<1>4. NoStrandedConsumer'
  <2>1. ASSUME BlockedConsumers' # {} PROVE Len(list') <= Cardinality(WokenConsumers') + failed'
    <3>1. Len(list) <= Cardinality(WokenConsumers) + failed
      BY <1>3, <2>1 DEF IInv, NoStrandedConsumer
    <3>2. failed \in Nat /\ failed' \in Nat
      BY FailedIsNat DEF IInv, QueueTypeOK
    <3>3. CASE list' = <<>>
      BY <3>2, <3>3, WokenFiniteNext
    <3>4. CASE list' # <<>>
      BY <1>1, <1>3, <2>1, <3>1, <3>2, <3>4, FailedStays, NoFewerWoken, WokenFinite, WokenFiniteNext
    <3> QED
      BY <3>3, <3>4
  <2> QED
    BY <2>1 DEF NoStrandedConsumer
<1>5. CASE Limit = Len(list)
  <2>1. ForgetsProducers
    BY <1>5 DEF ForgetsProducers, Clear, Ready, Return, IInv, QueueTypeOK
  <2>2. BlockedProducers' # {} => missed'
    BY <2>1 DEF Note
  <2> QED
    BY <1>2, <1>4, <2>2 DEF NoStrandedProducer
<1>6. CASE Limit # Len(list)
  <2>1. HasRoom
    BY <1>1, <1>6, QueueAssumption DEF IInv, WithinLimit, HasRoom
  <2>2. NoStrandedProducer'
    BY <1>3, <2>1, MissedStays DEF IInv, NoStrandedProducer
  <2> QED
    BY <1>2, <1>4, <2>2
<1> QED
  BY <1>5, <1>6

(***************************************************************************)
(* A consumer goes to sleep on an empty list, a producer on a full one.    *)
(***************************************************************************)
LEMMA BlockKeeps ==
    ASSUME IInv, Note, NEW t \in Threads, Block(t), at[t] \in {"lock", "woken"},
           \/ call[t] = "push" /\ ~HasRoom
           \/ call[t] = "pop" /\ list = <<>>
    PROVE  WithinLimit' /\ NoStrandedConsumer' /\ NoStrandedProducer'
<1>1. UNCHANGED list /\ WithinLimit' /\ (HasRoom' <=> HasRoom)
  BY DEF Block, IInv, WithinLimit, HasRoom
<1>2. CASE call[t] = "push" /\ ~HasRoom
  <2>1. BlockedConsumers' = BlockedConsumers /\ WokenConsumers' = WokenConsumers
    BY <1>2 DEF BlockedConsumers, WokenConsumers, Block, IInv, QueueTypeOK
  <2>2. NoStrandedConsumer' /\ NoStrandedProducer'
    BY <1>1, <1>2, <2>1, QuietConsumers DEF NoStrandedProducer
  <2> QED
    BY <1>1, <2>2
<1>3. CASE call[t] = "pop" /\ list = <<>>
  <2>1. BlockedProducers' = BlockedProducers
    BY <1>3 DEF BlockedProducers, Block, IInv, QueueTypeOK
  <2>2. NoStrandedProducer'
    BY <1>1, <2>1, MissedStays DEF IInv, NoStrandedProducer
  <2>3. Len(list') = 0
    BY <1>1, <1>3
  <2>4. NoStrandedConsumer'
    BY <2>3, WokenFiniteNext, FailedIsNat DEF NoStrandedConsumer
  <2> QED
    BY <1>1, <2>2, <2>4
<1> QED
  BY <1>2, <1>3

(***************************************************************************)
(* Every call of every thread keeps the invariant.                         *)
(***************************************************************************)
LEMMA InvStep ==
    ASSUME IInv, QueueNext
    PROVE  IInv'
<1>1. QueueTypeOK'
  BY TypeStep DEF IInv
<1>2. PICK t \in Threads : Enter(t) \/ Operate(t) \/ SpuriousWakeup(t)
  BY DEF QueueNext
<1>3. Note
  BY DEF QueueNext
<1> DEFINE Goal == WithinLimit' /\ NoStrandedConsumer' /\ NoStrandedProducer'
<1>4. ASSUME ReturnError(t), call[t] \in {"push", "tryPush", "tryPop"} PROVE Goal
  <2>1. /\ UNCHANGED list /\ BlockedConsumers' \subseteq BlockedConsumers
        /\ BlockedProducers' \subseteq BlockedProducers /\ WokenConsumers \subseteq WokenConsumers'
    BY <1>4 DEF ReturnError, Return, BlockedConsumers, BlockedProducers, WokenConsumers, IInv, QueueTypeOK
  <2> QED
    BY <1>3, <2>1, QuietKeeps
<1>5. CASE Enter(t)
  <2>1. /\ UNCHANGED list /\ BlockedConsumers' \subseteq BlockedConsumers
        /\ BlockedProducers' \subseteq BlockedProducers /\ WokenConsumers \subseteq WokenConsumers'
    BY <1>5 DEF Enter, BlockedConsumers, BlockedProducers, WokenConsumers, IInv, QueueTypeOK
  <2> QED
    BY <1>1, <1>3, <2>1, QuietKeeps DEF IInv
<1>6. CASE SpuriousWakeup(t)
  <2>1. /\ UNCHANGED list /\ BlockedConsumers' \subseteq BlockedConsumers
        /\ BlockedProducers' \subseteq BlockedProducers /\ WokenConsumers \subseteq WokenConsumers'
    BY <1>6 DEF SpuriousWakeup, BlockedConsumers, BlockedProducers, WokenConsumers, IInv, QueueTypeOK
  <2> QED
    BY <1>1, <1>3, <2>1, QuietKeeps DEF IInv
<1>7. CASE Push(t)
  <2>1. call[t] = "push" /\ at[t] \in {"lock", "woken"}
    BY <1>7 DEF Push, Ready
  <2>2. (~HasRoom /\ Block(t)) \/ AddAndSignal(t) \/ ReturnError(t)
    BY <1>7 DEF Push
  <2>3. Goal
    BY <1>3, <1>4, <2>1, <2>2, BlockKeeps, AddKeeps
  <2> QED
    BY <1>1, <2>3 DEF IInv
<1>8. CASE TryPush(t)
  <2>1. call[t] = "tryPush" /\ at[t] \in {"lock", "woken"}
    BY <1>8 DEF TryPush, Ready
  <2>2. AddAndSignal(t) \/ ReturnError(t)
    BY <1>8 DEF TryPush
  <2>3. Goal
    BY <1>3, <1>4, <2>1, <2>2, AddKeeps
  <2> QED
    BY <1>1, <2>3 DEF IInv
<1>9. CASE Pop(t)
  <2>1. call[t] = "pop" /\ at[t] \in {"lock", "woken"}
    BY <1>9 DEF Pop, Ready
  <2>2. (list = <<>> /\ Block(t)) \/ RemoveAndBroadcast(t) \/ ReturnError(t)
    BY <1>9 DEF Pop
  <2>3. Goal
    BY <1>3, <2>1, <2>2, BlockKeeps, RemoveKeeps, FailedPopKeeps
  <2> QED
    BY <1>1, <2>3 DEF IInv
<1>10. CASE TryPop(t)
  <2>1. call[t] = "tryPop" /\ at[t] \in {"lock", "woken"}
    BY <1>10 DEF TryPop, Ready
  <2>2. RemoveAndBroadcast(t) \/ ReturnError(t)
    BY <1>10 DEF TryPop
  <2>3. Goal
    BY <1>3, <1>4, <2>1, <2>2, RemoveKeeps
  <2> QED
    BY <1>1, <2>3 DEF IInv
<1>11. CASE Clear(t)
  BY <1>1, <1>3, <1>11, ClearKeeps DEF IInv
<1> QED
  BY <1>2, <1>5, <1>6, <1>7, <1>8, <1>9, <1>10, <1>11 DEF Operate

(***************************************************************************)
(* The invariant holds initially.                                          *)
(***************************************************************************)
LEMMA InitInv == QueueInit => IInv
<1> SUFFICES ASSUME QueueInit PROVE IInv
  OBVIOUS
<1>1. QueueTypeOK
  <2>1. list \in Seq(Items) /\ failed \in Nat
    BY DEF QueueInit
  <2>2. missed \in BOOLEAN
    BY Zenon DEF QueueInit
  <2>3. call \in [Threads -> AllCalls \cup {"none"}] /\ arg \in [Threads -> Items]
    BY DEF QueueInit, AllCalls
  <2>4. at \in [Threads -> {"lock", "wait", "woken"}]
    BY DEF QueueInit
  <2> QED
    BY <2>1, <2>2, <2>3, <2>4 DEF QueueTypeOK
<1>2. Len(list) = 0 /\ BlockedConsumers = {} /\ BlockedProducers = {}
  BY DEF QueueInit, BlockedConsumers, BlockedProducers
<1>3. WithinLimit
  <2>1. Limit \in Nat
    BY QueueAssumption
  <2> QED
    BY <1>2, <2>1 DEF WithinLimit
<1>4. NoStrandedConsumer /\ NoStrandedProducer
  BY <1>2 DEF NoStrandedConsumer, NoStrandedProducer
<1> QED
  BY <1>1, <1>3, <1>4 DEF IInv

(***************************************************************************)
(* The inductive invariant of the queue.                                   *)
(***************************************************************************)
THEOREM Invariance == QueueSpec => []IInv
<1>1. IInv /\ UNCHANGED queueVars => IInv'
  BY DEF queueVars, noteVars, IInv, QueueTypeOK, WithinLimit, NoStrandedConsumer, NoStrandedProducer, HasRoom,
         BlockedConsumers, BlockedProducers, WokenConsumers
<1>2. IInv /\ [QueueNext]_queueVars => IInv'
  BY <1>1, InvStep
<1> QED
  BY <1>2, InitInv, PTL DEF QueueSpec

(***************************************************************************)
(* The queue never holds more than its limit, and neither a consumer nor a *)
(* producer that could proceed sleeps without a wakeup under way, but for  *)
(* the wakeups that a clear() of a full list and a failing popFront lose:  *)
(* push, pop, tryPush, tryPop and clear with all their errors, for any     *)
(* number of threads and any limit.                                        *)
(***************************************************************************)
THEOREM QueuePromise == QueueSpec => []QueueKeepsItsPromise
<1>1. IInv => QueueKeepsItsPromise
  BY DEF IInv, QueueKeepsItsPromise
<1> QED
  BY <1>1, Invariance, PTL

(***************************************************************************)
(* The shape of the state, whatever calls interleave.                      *)
(***************************************************************************)
THEOREM TypeCorrect == QueueSpec => []QueueTypeOK
<1>1. IInv => QueueTypeOK
  BY DEF IInv
<1> QED
  BY <1>1, Invariance, PTL
-----------------------------------------------------------------------------
(***************************************************************************)
(* The locks.  How many threads are doing what decides everything: the     *)
(* counters of the ReadWriteLock are such numbers, and a step moves one    *)
(* thread, or two when it signals.                                         *)
(***************************************************************************)
Activities == {"idle", "writing", "reading", "awaitingWrite", "wokenWrite",
               "awaitingRead", "wokenRead", "awaitingPost", "wokenPost"}

LockRecords ==
    [readersActive : Int, readersWaiting : Int, writersActive : Int, writersWaiting : Int,
     cancelled : BOOLEAN]

LockTypeOK ==
    /\ rwLock \in LockRecords
    /\ semaphore \in [count : Int, jammed : BOOLEAN]
    /\ doing \in [LockThreads -> Activities]

Doing(d, a) == {t \in LockThreads : d[t] = a}
Count(d, a) == Cardinality(Doing(d, a))

\* The counters are what they say.
CountersAreExact ==
    /\ rwLock.readersActive = Count(doing, "reading")
    /\ rwLock.writersActive = Count(doing, "writing")
    /\ rwLock.readersWaiting = Count(doing, "awaitingRead") + Count(doing, "wokenRead")
    /\ rwLock.writersWaiting = Count(doing, "awaitingWrite") + Count(doing, "wokenWrite")

Exclusive ==
    /\ Count(doing, "writing") =< 1
    /\ 0 < Count(doing, "writing") => Count(doing, "reading") = 0

\* NobodyLeftWaiting and EveryPostWakes, in numbers
WritersServed ==
    0 < Count(doing, "awaitingWrite") =>
        0 < Count(doing, "writing") + Count(doing, "reading") + Count(doing, "wokenWrite")

ReadersServed ==
    0 < Count(doing, "awaitingRead") =>
        0 < Count(doing, "writing") + Count(doing, "awaitingWrite") + Count(doing, "wokenWrite")

PostsServed ==
    0 < Count(doing, "awaitingPost") => semaphore.count =< Count(doing, "wokenPost")

LockIInv ==
    /\ LockTypeOK
    /\ CountersAreExact
    /\ Exclusive
    /\ ~rwLock.cancelled => WritersServed /\ ReadersServed
    /\ PostsServed

(***************************************************************************)
(* A number of threads is a natural number, and not zero if there is one.  *)
(***************************************************************************)
LEMMA CountIsNat ==
    ASSUME NEW d, NEW a
    PROVE  /\ IsFiniteSet(Doing(d, a))
           /\ Count(d, a) \in Nat
           /\ Count(d, a) = 0 <=> Doing(d, a) = {}
<1>1. Doing(d, a) \subseteq LockThreads /\ IsFiniteSet(LockThreads)
  BY LockAssumption DEF Doing
<1>2. IsFiniteSet(Doing(d, a))
  BY <1>1, FS_Subset
<1> QED
  BY <1>2, FS_CardinalityType, FS_EmptySet DEF Count

(***************************************************************************)
(* One thread that turns from one activity to another changes two numbers  *)
(* by one: Becomes, and the thread that pthread_cond_signal wakes.         *)
(***************************************************************************)
LEMMA OneMoves ==
    ASSUME NEW d \in [LockThreads -> Activities], NEW e \in [LockThreads -> Activities],
           NEW f \in Activities, NEW b \in Activities, f # b,
           NEW t \in LockThreads, d[t] = f, e[t] = b,
           \A u \in LockThreads : u # t => e[u] = d[u]
    PROVE  /\ Count(e, b) = Count(d, b) + 1
           /\ Count(e, f) = Count(d, f) - 1
           /\ \A a \in Activities \ {b, f} : Count(e, a) = Count(d, a)
<1>1. Doing(e, b) = Doing(d, b) \cup {t} /\ t \notin Doing(d, b)
  BY DEF Doing
<1>2. Doing(e, f) = Doing(d, f) \ {t} /\ t \in Doing(d, f)
  BY DEF Doing
<1>3. \A a \in Activities \ {b, f} : Doing(e, a) = Doing(d, a)
  BY DEF Doing
<1>4. Count(e, b) = Count(d, b) + 1
  <2>1. IsFiniteSet(Doing(d, b))
    BY CountIsNat
  <2>2. Cardinality(Doing(d, b) \cup {t}) = Cardinality(Doing(d, b)) + 1
    BY <1>1, <2>1, FS_AddElement
  <2> QED
    BY <1>1, <2>2 DEF Count
<1>5. Count(e, f) = Count(d, f) - 1
  <2>1. IsFiniteSet(Doing(d, f))
    BY CountIsNat
  <2>2. Cardinality(Doing(d, f) \ {t}) = Cardinality(Doing(d, f)) - 1
    BY <1>2, <2>1, FS_RemoveElement
  <2> QED
    BY <1>2, <2>2 DEF Count
<1>6. \A a \in Activities \ {b, f} : Count(e, a) = Count(d, a)
  BY <1>3 DEF Count
<1> QED
  BY <1>4, <1>5, <1>6

(***************************************************************************)
(* A broadcast turns all the sleepers of one kind into woken ones.         *)
(***************************************************************************)
LEMMA AllMove ==
    ASSUME NEW d \in [LockThreads -> Activities], NEW f \in Activities,
           NEW b \in Activities, f # b, NEW e, e = Broadcast(d, f, b)
    PROVE  /\ e \in [LockThreads -> Activities]
           /\ Count(e, b) = Count(d, b) + Count(d, f)
           /\ Count(e, f) = 0
           /\ \A a \in Activities \ {b, f} : Count(e, a) = Count(d, a)
<1>1. e \in [LockThreads -> Activities]
      /\ \A u \in LockThreads : e[u] = IF d[u] = f THEN b ELSE d[u]
  BY DEF Broadcast
<1>2. Doing(e, b) = Doing(d, b) \cup Doing(d, f) /\ Doing(d, b) \cap Doing(d, f) = {}
  BY <1>1 DEF Doing
<1>3. Doing(e, f) = {}
  BY <1>1 DEF Doing
<1>4. \A a \in Activities \ {b, f} : Doing(e, a) = Doing(d, a)
  BY <1>1 DEF Doing
<1>5. Count(e, b) = Count(d, b) + Count(d, f)
  <2>1. Cardinality(Doing(d, b) \cup Doing(d, f)) =
          Count(d, b) + Count(d, f) - Cardinality(Doing(d, b) \cap Doing(d, f))
    BY CountIsNat, FS_Union DEF Count
  <2>2. Cardinality(Doing(d, b) \cap Doing(d, f)) = 0
    BY <1>2, FS_EmptySet
  <2> QED
    BY <1>2, <2>1, <2>2, CountIsNat DEF Count
<1>6. Count(e, f) = 0
  BY <1>3, FS_EmptySet DEF Count
<1>7. \A a \in Activities \ {b, f} : Count(e, a) = Count(d, a)
  BY <1>4 DEF Count
<1> QED
  BY <1>1, <1>5, <1>6, <1>7

(***************************************************************************)
(* The same for a step of the model.                                       *)
(***************************************************************************)
LEMMA BecomesCounts ==
    ASSUME LockTypeOK, NEW t \in LockThreads, NEW f \in Activities, NEW b \in Activities, f # b,
           doing[t] = f, Becomes(t, b)
    PROVE  /\ doing' \in [LockThreads -> Activities]
           /\ Count(doing', b) = Count(doing, b) + 1
           /\ Count(doing', f) = Count(doing, f) - 1
           /\ \A a \in Activities \ {b, f} : Count(doing', a) = Count(doing, a)
<1>1. doing \in [LockThreads -> Activities]
      /\ doing' \in [LockThreads -> Activities] /\ doing'[t] = b
      /\ \A u \in LockThreads : u # t => doing'[u] = doing[u]
  BY DEF LockTypeOK, Becomes
<1> QED
  BY <1>1, OneMoves

(***************************************************************************)
(* A signal moves the releasing thread and one sleeper, if there is one.   *)
(***************************************************************************)
LEMMA SignalCounts ==
    ASSUME NEW d \in [LockThreads -> Activities], NEW f \in Activities, NEW b \in Activities,
           f # b, NEW e \in Signalled(d, f, b)
    PROVE  /\ e \in [LockThreads -> Activities]
           /\ \A a \in Activities \ {b, f} : Count(e, a) = Count(d, a)
           /\ Count(d, f) = 0 => e = d
           /\ 0 < Count(d, f) => Count(e, b) = Count(d, b) + 1 /\ Count(e, f) = Count(d, f) - 1
<1>1. CASE \E u \in LockThreads : d[u] = f
  <2>1. PICK u \in LockThreads : d[u] = f /\ e = [d EXCEPT ![u] = b]
    BY <1>1 DEF Signalled
  <2>3. d[u] = f /\ e \in [LockThreads -> Activities] /\ e[u] = b
        /\ \A v \in LockThreads : v # u => e[v] = d[v]
    BY <2>1
  <2>2. u \in Doing(d, f) /\ Count(d, f) \in Nat /\ Count(d, f) # 0
    BY <2>1, CountIsNat DEF Doing
  <2>4. /\ Count(e, b) = Count(d, b) + 1
        /\ Count(e, f) = Count(d, f) - 1
        /\ \A a \in Activities \ {b, f} : Count(e, a) = Count(d, a)
    BY <2>3, OneMoves
  <2> QED
    BY <2>2, <2>3, <2>4
<1>2. CASE ~\E u \in LockThreads : d[u] = f
  <2>1. e = d /\ Doing(d, f) = {}
    BY <1>2 DEF Signalled, Doing
  <2>2. Count(d, f) = 0
    BY <2>1, CountIsNat
  <2> QED
    BY <2>1, <2>2
<1> QED
  BY <1>1, <1>2

(***************************************************************************)
(* The counts of a state, for the arithmetic below.                        *)
(***************************************************************************)
LEMMA CountsAreNat ==
    \A a \in Activities : Count(doing, a) \in Nat /\ Count(doing', a) \in Nat
BY CountIsNat

(***************************************************************************)
(* A thread that goes back to what it was doing.                           *)
(***************************************************************************)
LEMMA NobodyMoves ==
    ASSUME LockTypeOK, NEW t \in LockThreads, Becomes(t, doing[t])
    PROVE  doing' = doing
BY DEF LockTypeOK, Becomes

(***************************************************************************)
(* The lock's record is known by its fields, and one counted up or down,   *)
(* taken or cancelled is such a record.                                    *)
(***************************************************************************)
LEMMA Recorded ==
    ASSUME NEW l \in LockRecords
    PROVE  /\ [l EXCEPT !.writersActive = 1] \in LockRecords
           /\ [l EXCEPT !.readersActive = @ + 1] \in LockRecords
           /\ [l EXCEPT !.writersWaiting = @ + 1] \in LockRecords
           /\ [l EXCEPT !.readersWaiting = @ + 1] \in LockRecords
           /\ [l EXCEPT !.writersWaiting = @ - 1] \in LockRecords
           /\ [l EXCEPT !.readersWaiting = @ - 1] \in LockRecords
           /\ [l EXCEPT !.cancelled = TRUE] \in LockRecords
<1>1. /\ [l EXCEPT !.writersActive = 1] \in LockRecords
      /\ [l EXCEPT !.readersActive = @ + 1] \in LockRecords
      /\ [l EXCEPT !.writersWaiting = @ + 1] \in LockRecords
      /\ [l EXCEPT !.readersWaiting = @ + 1] \in LockRecords
      /\ [l EXCEPT !.writersWaiting = @ - 1] \in LockRecords
      /\ [l EXCEPT !.readersWaiting = @ - 1] \in LockRecords
  BY DEF LockRecords
<1>2. [l EXCEPT !.cancelled = TRUE] \in LockRecords
  BY DEF LockRecords
<1> QED
  BY <1>1, <1>2

(***************************************************************************)
(* A waiting writer, or reader, counted down.                              *)
(***************************************************************************)
LEMMA CountedDown ==
    ASSUME rwLock \in LockRecords
    PROVE  /\ \A l : l = [rwLock EXCEPT !.writersWaiting = @ - 1] =>
                 /\ l \in LockRecords
                 /\ l.writersWaiting = rwLock.writersWaiting - 1
                 /\ l.readersWaiting = rwLock.readersWaiting
                 /\ l.writersActive = rwLock.writersActive
                 /\ l.readersActive = rwLock.readersActive
                 /\ l.cancelled = rwLock.cancelled
           /\ \A l : l = [rwLock EXCEPT !.readersWaiting = @ - 1] =>
                 /\ l \in LockRecords
                 /\ l.writersWaiting = rwLock.writersWaiting
                 /\ l.readersWaiting = rwLock.readersWaiting - 1
                 /\ l.writersActive = rwLock.writersActive
                 /\ l.readersActive = rwLock.readersActive
                 /\ l.cancelled = rwLock.cancelled
BY DEF LockRecords

(***************************************************************************)
(* The writers' calls but for writeRelease: takeWrite with the waiting     *)
(* writers already counted down ends with the lock or asleep, an attempt   *)
(* takes a free lock, and a failed wait gives up.                          *)
(***************************************************************************)
LEMMA WriteStepKeeps ==
    ASSUME LockIInv, NEW t \in LockThreads, UNCHANGED semaphore,
           writeAcquire(t) \/ writeResume(t) \/ writeAttempt(t) \/ writeWaitFails(t)
    PROVE  LockIInv'
<1> USE CountsAreNat DEF Activities, LockIInv, LockTypeOK, CountersAreExact, Exclusive,
        WritersServed, ReadersServed, PostsServed, writeLocked
<1>1. CASE writeAcquire(t)
  <2>1. ASSUME ~writeLocked(rwLock), rwLock' = [rwLock EXCEPT !.writersActive = 1],
               Becomes(t, "writing")
        PROVE  LockIInv'
    BY <1>1, <2>1, BecomesCounts DEF writeAcquire, LockRecords
  <2>2. ASSUME writeLocked(rwLock), rwLock' = [rwLock EXCEPT !.writersWaiting = @ + 1],
               Becomes(t, "awaitingWrite")
        PROVE  LockIInv'
    BY <1>1, <2>2, BecomesCounts DEF writeAcquire, LockRecords
  <2> QED
    BY <1>1, <2>1, <2>2 DEF writeAcquire, takeWrite
<1>2. CASE writeResume(t)
  <2> DEFINE l == [rwLock EXCEPT !.writersWaiting = @ - 1]
  <2>1. /\ l \in LockRecords
        /\ l.writersWaiting = rwLock.writersWaiting - 1 /\ l.readersWaiting = rwLock.readersWaiting
        /\ l.writersActive = rwLock.writersActive /\ l.readersActive = rwLock.readersActive
        /\ l.cancelled = rwLock.cancelled
    BY CountedDown
  <2>2. doing[t] \in {"awaitingWrite", "wokenWrite"} /\ takeWrite(t, l)
    BY <1>2 DEF writeResume
  <2> HIDE DEF l
  <2>3. ASSUME ~writeLocked(l), rwLock' = [l EXCEPT !.writersActive = 1], Becomes(t, "writing")
        PROVE  LockIInv'
    <3>1. /\ rwLock' \in LockRecords
          /\ rwLock'.writersWaiting = l.writersWaiting /\ rwLock'.readersWaiting = l.readersWaiting
          /\ rwLock'.writersActive = 1 /\ rwLock'.readersActive = l.readersActive
          /\ rwLock'.cancelled = l.cancelled
      BY <2>1, <2>3, Recorded DEF LockRecords
    <3>2. CASE doing[t] = "awaitingWrite"
      BY <2>1, <2>3, <3>1, <3>2, BecomesCounts
    <3>3. CASE doing[t] = "wokenWrite"
      BY <2>1, <2>3, <3>1, <3>3, BecomesCounts
    <3> QED
      BY <2>2, <3>2, <3>3
  <2>4. ASSUME writeLocked(l), rwLock' = [l EXCEPT !.writersWaiting = @ + 1], Becomes(t, "awaitingWrite")
        PROVE  LockIInv'
    <3>1. /\ rwLock' \in LockRecords
          /\ rwLock'.writersWaiting = l.writersWaiting + 1 /\ rwLock'.readersWaiting = l.readersWaiting
          /\ rwLock'.writersActive = l.writersActive /\ rwLock'.readersActive = l.readersActive
          /\ rwLock'.cancelled = l.cancelled
      BY <2>1, <2>4, Recorded DEF LockRecords
    <3>2. CASE doing[t] = "awaitingWrite"
      <4>1. doing' = doing
        BY <2>4, <3>2, NobodyMoves
      <4> QED
        BY <2>1, <3>1, <4>1
    <3>3. CASE doing[t] = "wokenWrite"
      BY <2>1, <2>4, <3>1, <3>3, BecomesCounts
    <3> QED
      BY <2>2, <3>2, <3>3
  <2> HIDE DEF LockIInv
  <2> QED
    BY <2>2, <2>3, <2>4 DEF takeWrite
<1>3. CASE writeAttempt(t)
  BY <1>3, BecomesCounts DEF writeAttempt, LockRecords
<1>4. CASE writeWaitFails(t)
  <2> DEFINE l == [rwLock EXCEPT !.writersWaiting = @ - 1]
  <2>1. /\ l \in LockRecords
        /\ l.writersWaiting = rwLock.writersWaiting - 1 /\ l.readersWaiting = rwLock.readersWaiting
        /\ l.writersActive = rwLock.writersActive /\ l.readersActive = rwLock.readersActive
    BY CountedDown
  <2>2. doing[t] = "awaitingWrite" /\ Becomes(t, "idle") /\ rwLock' = [l EXCEPT !.cancelled = TRUE]
    BY <1>4 DEF writeWaitFails
  <2> HIDE DEF l
  <2>3. rwLock' \in LockRecords /\ rwLock'.cancelled
    BY <2>1, <2>2, Recorded DEF LockRecords
  <2>4. /\ rwLock'.writersWaiting = l.writersWaiting /\ rwLock'.readersWaiting = l.readersWaiting
        /\ rwLock'.writersActive = l.writersActive /\ rwLock'.readersActive = l.readersActive
    BY <2>1, <2>2 DEF LockRecords
  <2>5. doing' \in [LockThreads -> Activities] /\ CountersAreExact' /\ Exclusive' /\ PostsServed'
    BY <2>1, <2>2, <2>4, BecomesCounts
  <2> QED
    BY <2>3, <2>5
<1> QED
  BY <1>1, <1>2, <1>3, <1>4

(***************************************************************************)
(* The readers' calls but for readRelease.  A reader that waits does so    *)
(* because a writer has the lock or waits for it.                          *)
(***************************************************************************)
LEMMA ReadStepKeeps ==
    ASSUME LockIInv, NEW t \in LockThreads, UNCHANGED semaphore,
           readAcquire(t) \/ readResume(t) \/ readAttempt(t) \/ readWaitFails(t)
    PROVE  LockIInv'
<1> USE CountsAreNat DEF Activities, LockIInv, LockTypeOK, CountersAreExact, Exclusive,
        WritersServed, ReadersServed, PostsServed, readLocked
<1>1. CASE readAcquire(t)
  <2>1. ASSUME ~readLocked(rwLock), rwLock' = [rwLock EXCEPT !.readersActive = @ + 1],
               Becomes(t, "reading")
        PROVE  LockIInv'
    BY <1>1, <2>1, BecomesCounts DEF readAcquire, LockRecords
  <2>2. ASSUME readLocked(rwLock), rwLock' = [rwLock EXCEPT !.readersWaiting = @ + 1],
               Becomes(t, "awaitingRead")
        PROVE  LockIInv'
    BY <1>1, <2>2, BecomesCounts DEF readAcquire, LockRecords
  <2> QED
    BY <1>1, <2>1, <2>2 DEF readAcquire, takeRead
<1>2. CASE readResume(t)
  <2> DEFINE l == [rwLock EXCEPT !.readersWaiting = @ - 1]
  <2>1. /\ l \in LockRecords
        /\ l.readersWaiting = rwLock.readersWaiting - 1 /\ l.writersWaiting = rwLock.writersWaiting
        /\ l.writersActive = rwLock.writersActive /\ l.readersActive = rwLock.readersActive
        /\ l.cancelled = rwLock.cancelled
    BY CountedDown
  <2>2. doing[t] \in {"awaitingRead", "wokenRead"} /\ takeRead(t, l)
    BY <1>2 DEF readResume
  <2> HIDE DEF l
  <2>3. ASSUME ~readLocked(l), rwLock' = [l EXCEPT !.readersActive = @ + 1], Becomes(t, "reading")
        PROVE  LockIInv'
    <3>1. /\ rwLock' \in LockRecords
          /\ rwLock'.readersWaiting = l.readersWaiting /\ rwLock'.writersWaiting = l.writersWaiting
          /\ rwLock'.readersActive = l.readersActive + 1 /\ rwLock'.writersActive = l.writersActive
          /\ rwLock'.cancelled = l.cancelled
      BY <2>1, <2>3, Recorded DEF LockRecords
    <3>2. CASE doing[t] = "awaitingRead"
      BY <2>1, <2>3, <3>1, <3>2, BecomesCounts
    <3>3. CASE doing[t] = "wokenRead"
      BY <2>1, <2>3, <3>1, <3>3, BecomesCounts
    <3> QED
      BY <2>2, <3>2, <3>3
  <2>4. ASSUME readLocked(l), rwLock' = [l EXCEPT !.readersWaiting = @ + 1], Becomes(t, "awaitingRead")
        PROVE  LockIInv'
    <3>1. /\ rwLock' \in LockRecords
          /\ rwLock'.readersWaiting = l.readersWaiting + 1 /\ rwLock'.writersWaiting = l.writersWaiting
          /\ rwLock'.writersActive = l.writersActive /\ rwLock'.readersActive = l.readersActive
          /\ rwLock'.cancelled = l.cancelled
      BY <2>1, <2>4, Recorded DEF LockRecords
    <3>2. CASE doing[t] = "awaitingRead"
      <4>1. doing' = doing
        BY <2>4, <3>2, NobodyMoves
      <4> QED
        BY <2>1, <3>1, <4>1
    <3>3. CASE doing[t] = "wokenRead"
      BY <2>1, <2>4, <3>1, <3>3, BecomesCounts
    <3> QED
      BY <2>2, <3>2, <3>3
  <2> HIDE DEF LockIInv
  <2> QED
    BY <2>2, <2>3, <2>4 DEF takeRead
<1>3. CASE readAttempt(t)
  BY <1>3, BecomesCounts DEF readAttempt, LockRecords
<1>4. CASE readWaitFails(t)
  <2> DEFINE l == [rwLock EXCEPT !.readersWaiting = @ - 1]
  <2>1. /\ l \in LockRecords
        /\ l.readersWaiting = rwLock.readersWaiting - 1 /\ l.writersWaiting = rwLock.writersWaiting
        /\ l.writersActive = rwLock.writersActive /\ l.readersActive = rwLock.readersActive
    BY CountedDown
  <2>2. doing[t] = "awaitingRead" /\ Becomes(t, "idle") /\ rwLock' = [l EXCEPT !.cancelled = TRUE]
    BY <1>4 DEF readWaitFails
  <2> HIDE DEF l
  <2>3. rwLock' \in LockRecords /\ rwLock'.cancelled
    BY <2>1, <2>2, Recorded DEF LockRecords
  <2>4. /\ rwLock'.readersWaiting = l.readersWaiting /\ rwLock'.writersWaiting = l.writersWaiting
        /\ rwLock'.writersActive = l.writersActive /\ rwLock'.readersActive = l.readersActive
    BY <2>1, <2>2 DEF LockRecords
  <2>5. doing' \in [LockThreads -> Activities] /\ CountersAreExact' /\ Exclusive' /\ PostsServed'
    BY <2>1, <2>2, <2>4, BecomesCounts
  <2> QED
    BY <2>3, <2>5
<1> QED
  BY <1>1, <1>2, <1>3, <1>4

(***************************************************************************)
(* The two releases: the lock is free, and a writer is woken if one waits, *)
(* or all the readers if none does.                                        *)
(***************************************************************************)
LEMMA ReleaseKeeps ==
    ASSUME LockIInv, NEW t \in LockThreads, UNCHANGED semaphore, writeRelease(t) \/ readRelease(t)
    PROVE  LockIInv'
<1> DEFINE d == [doing EXCEPT ![t] = "idle"]
<1>1. /\ doing \in [LockThreads -> Activities] /\ d \in [LockThreads -> Activities]
      /\ d[t] = "idle" /\ \A u \in LockThreads : u # t => d[u] = doing[u]
  BY DEF LockIInv, LockTypeOK, Activities
<1>2. \A a \in Activities : Count(d, a) \in Nat
  BY CountIsNat
<1>3. CASE writeRelease(t)
  <2>0. doing[t] = "writing" /\ rwLock' = [rwLock EXCEPT !.writersActive = 0]
    BY <1>3 DEF writeRelease
  <2>1. /\ Count(d, "writing") = Count(doing, "writing") - 1
        /\ \A a \in Activities \ {"idle", "writing"} : Count(d, a) = Count(doing, a)
    <3> HIDE DEF d
    <3> QED
      BY <1>1, <2>0, OneMoves DEF Activities
  <2>2. CASE 0 < rwLock.writersWaiting
    <3>1. doing' \in Signalled(d, "awaitingWrite", "wokenWrite")
      BY <1>3, <2>2 DEF writeRelease
    <3> HIDE DEF d
    <3>2. /\ doing' \in [LockThreads -> Activities]
          /\ \A a \in Activities \ {"awaitingWrite", "wokenWrite"} : Count(doing', a) = Count(d, a)
          /\ Count(d, "awaitingWrite") = 0 => doing' = d
          /\ 0 < Count(d, "awaitingWrite") =>
                /\ Count(doing', "wokenWrite") = Count(d, "wokenWrite") + 1
                /\ Count(doing', "awaitingWrite") = Count(d, "awaitingWrite") - 1
      BY <1>1, <3>1, SignalCounts DEF Activities
    <3> QED
      BY <1>2, <2>0, <2>1, <2>2, <3>2, CountsAreNat
         DEF Activities, LockIInv, LockTypeOK, CountersAreExact, Exclusive, WritersServed,
             ReadersServed, PostsServed, LockRecords
  <2>3. CASE ~(0 < rwLock.writersWaiting)
    <3>1. doing' = Broadcast(d, "awaitingRead", "wokenRead")
      BY <1>3, <2>3 DEF writeRelease
    <3> HIDE DEF d
    <3>2. /\ doing' \in [LockThreads -> Activities]
          /\ \A a \in Activities \ {"awaitingRead", "wokenRead"} : Count(doing', a) = Count(d, a)
          /\ Count(doing', "wokenRead") = Count(d, "wokenRead") + Count(d, "awaitingRead")
          /\ Count(doing', "awaitingRead") = 0
      BY <1>1, <3>1, AllMove DEF Activities
    <3> QED
      BY <1>2, <2>0, <2>1, <2>3, <3>2, CountsAreNat
         DEF Activities, LockIInv, LockTypeOK, CountersAreExact, Exclusive, WritersServed,
             ReadersServed, PostsServed, LockRecords
  <2> QED
    BY <2>2, <2>3
<1>4. CASE readRelease(t)
  <2>0. doing[t] = "reading" /\ rwLock' = [rwLock EXCEPT !.readersActive = @ - 1]
    BY <1>4 DEF readRelease
  <2>1. /\ Count(d, "reading") = Count(doing, "reading") - 1
        /\ \A a \in Activities \ {"idle", "reading"} : Count(d, a) = Count(doing, a)
    <3> HIDE DEF d
    <3> QED
      BY <1>1, <2>0, OneMoves DEF Activities
  <2>2. CASE rwLock.readersActive = 1 /\ 0 < rwLock.writersWaiting
    <3>1. doing' \in Signalled(d, "awaitingWrite", "wokenWrite")
      BY <1>4, <2>2 DEF readRelease
    <3> HIDE DEF d
    <3>2. /\ doing' \in [LockThreads -> Activities]
          /\ \A a \in Activities \ {"awaitingWrite", "wokenWrite"} : Count(doing', a) = Count(d, a)
          /\ Count(d, "awaitingWrite") = 0 => doing' = d
          /\ 0 < Count(d, "awaitingWrite") =>
                /\ Count(doing', "wokenWrite") = Count(d, "wokenWrite") + 1
                /\ Count(doing', "awaitingWrite") = Count(d, "awaitingWrite") - 1
      BY <1>1, <3>1, SignalCounts DEF Activities
    <3> QED
      BY <1>2, <2>0, <2>1, <2>2, <3>2, CountsAreNat
         DEF Activities, LockIInv, LockTypeOK, CountersAreExact, Exclusive, WritersServed,
             ReadersServed, PostsServed, LockRecords
  <2>3. CASE ~(rwLock.readersActive = 1 /\ 0 < rwLock.writersWaiting)
    <3>1. doing' = d
      BY <1>4, <2>3 DEF readRelease
    <3> HIDE DEF d
    <3> QED
      BY <1>1, <1>2, <2>0, <2>1, <2>3, <3>1, CountsAreNat
         DEF Activities, LockIInv, LockTypeOK, CountersAreExact, Exclusive, WritersServed,
             ReadersServed, PostsServed, LockRecords
  <2> QED
    BY <2>2, <2>3
<1> QED
  BY <1>3, <1>4

(***************************************************************************)
(* The semaphore's calls: a post wakes one sleeper for the count it adds,  *)
(* and whoever runs takes a count away or falls asleep when there is none. *)
(***************************************************************************)
LEMMA SemaphoreKeeps ==
    ASSUME LockIInv, NEW t \in LockThreads, UNCHANGED rwLock, SemaphoreStep(t)
    PROVE  LockIInv'
<1> USE CountsAreNat DEF Activities, LockIInv, LockTypeOK, CountersAreExact, Exclusive,
        WritersServed, ReadersServed, PostsServed
<1>1. CASE semaphoreAcquire(t)
  <2>1. ASSUME 0 < semaphore.count, semaphore' = [semaphore EXCEPT !.count = @ - 1],
               Becomes(t, "idle"), doing[t] = "idle"
        PROVE  LockIInv'
    BY <2>1, NobodyMoves
  <2>2. ASSUME semaphore.count = 0, UNCHANGED semaphore, Becomes(t, "awaitingPost"), doing[t] = "idle"
        PROVE  LockIInv'
    BY <2>2, BecomesCounts
  <2> QED
    BY <1>1, <2>1, <2>2 DEF semaphoreAcquire, semaphoreTake
<1>2. CASE semaphoreResume(t)
  <2>1. ASSUME 0 < semaphore.count, semaphore' = [semaphore EXCEPT !.count = @ - 1],
               Becomes(t, "idle"), NEW f \in {"awaitingPost", "wokenPost"}, doing[t] = f
        PROVE  LockIInv'
    BY <2>1, BecomesCounts
  <2>2. ASSUME semaphore.count = 0, UNCHANGED semaphore, Becomes(t, "awaitingPost"),
               doing[t] = "wokenPost"
        PROVE  LockIInv'
    BY <2>2, BecomesCounts
  <2>3. ASSUME semaphore.count = 0, UNCHANGED semaphore, Becomes(t, "awaitingPost"),
               doing[t] = "awaitingPost"
        PROVE  LockIInv'
    BY <2>3, NobodyMoves
  <2> QED
    BY <1>2, <2>1, <2>2, <2>3 DEF semaphoreResume, semaphoreTake
<1>3. CASE semaphoreWaitFails(t)
  <2>1. semaphore'.count = semaphore.count /\ semaphore' \in [count : Int, jammed : BOOLEAN]
    BY <1>3 DEF semaphoreWaitFails
  <2>2. /\ doing' \in [LockThreads -> Activities]
        /\ Count(doing', "awaitingPost") = Count(doing, "awaitingPost") - 1
        /\ \A a \in Activities \ {"awaitingPost", "idle"} : Count(doing', a) = Count(doing, a)
    BY <1>3, BecomesCounts DEF semaphoreWaitFails
  <2> QED
    BY <2>1, <2>2
<1>4. CASE semaphoreAttempt(t)
  BY <1>4 DEF semaphoreAttempt
<1>5. CASE semaphoreRelease(t)
  <2>1. semaphore' = [semaphore EXCEPT !.count = @ + 1]
        /\ doing \in [LockThreads -> Activities]
        /\ doing' \in Signalled(doing, "awaitingPost", "wokenPost")
    BY <1>5 DEF semaphoreRelease
  <2>2. /\ doing' \in [LockThreads -> Activities]
        /\ \A a \in Activities \ {"awaitingPost", "wokenPost"} : Count(doing', a) = Count(doing, a)
        /\ Count(doing, "awaitingPost") = 0 => doing' = doing
        /\ 0 < Count(doing, "awaitingPost") =>
              /\ Count(doing', "wokenPost") = Count(doing, "wokenPost") + 1
              /\ Count(doing', "awaitingPost") = Count(doing, "awaitingPost") - 1
    BY <2>1, SignalCounts
  <2> QED
    BY <2>1, <2>2
<1> QED
  BY <1>1, <1>2, <1>3, <1>4, <1>5 DEF SemaphoreStep

(***************************************************************************)
(* Nobody does anything at first.                                          *)
(***************************************************************************)
LEMMA LockInitInv == LockInit => LockIInv
<1> SUFFICES ASSUME LockInit PROVE LockIInv
  OBVIOUS
<1>1. LockTypeOK
  BY DEF LockInit, NewLock, LockTypeOK, LockRecords, Activities
<1>2. ASSUME NEW a \in Activities \ {"idle"} PROVE Count(doing, a) = 0
  <2>1. Doing(doing, a) = {}
    BY <1>2 DEF LockInit, Doing
  <2> QED
    BY <2>1, CountIsNat
<1>3. /\ Count(doing, "reading") = 0 /\ Count(doing, "writing") = 0
      /\ Count(doing, "awaitingRead") = 0 /\ Count(doing, "wokenRead") = 0
      /\ Count(doing, "awaitingWrite") = 0 /\ Count(doing, "wokenWrite") = 0
      /\ Count(doing, "awaitingPost") = 0 /\ Count(doing, "wokenPost") = 0
  BY <1>2 DEF Activities
<1>4. CountersAreExact
  BY <1>3 DEF LockInit, NewLock, CountersAreExact
<1> QED
  BY <1>1, <1>3, <1>4 DEF LockIInv, Exclusive, WritersServed, ReadersServed, PostsServed

(***************************************************************************)
(* The inductive invariant of the locks: the counters are exact, readers   *)
(* and writers exclude each other, and wakeups cover whoever could run.    *)
(***************************************************************************)
THEOREM LockInvariance == LockSpec => []LockIInv
<1>1. LockIInv /\ [LockNext]_lockVars => LockIInv'
  <2> SUFFICES ASSUME LockIInv, [LockNext]_lockVars PROVE LockIInv'
    OBVIOUS
  <2>1. ASSUME NEW t \in LockThreads, RWLockStep(t), UNCHANGED semaphore PROVE LockIInv'
    BY <2>1, WriteStepKeeps, ReadStepKeeps, ReleaseKeeps DEF RWLockStep
  <2>2. ASSUME NEW t \in LockThreads, SemaphoreStep(t), UNCHANGED rwLock PROVE LockIInv'
    BY <2>2, SemaphoreKeeps
  <2>3. CASE UNCHANGED lockVars
    BY <2>3 DEF lockVars, LockIInv, LockTypeOK, CountersAreExact, Exclusive, WritersServed,
                ReadersServed, PostsServed
  <2> QED
    BY <2>1, <2>2, <2>3 DEF LockNext
<1> QED
  BY <1>1, LockInitInv, PTL DEF LockSpec

(***************************************************************************)
(* The locks exclude and wake for any number of threads: a writer is       *)
(* alone, no thread that could proceed is left asleep by a release, and    *)
(* every post not yet taken has woken a sleeper (ReadWriteLock and         *)
(* CountingSemaphore, with spurious wakeups and failed waits).             *)
(***************************************************************************)
THEOREM LocksPromise == LockSpec => []LocksKeepTheirPromise
<1>1. LockIInv => LocksKeepTheirPromise
  <2> SUFFICES ASSUME LockIInv PROVE LocksKeepTheirPromise
    OBVIOUS
  <2>1. \A a : In(a) = Doing(doing, a)
    BY DEF In, Doing
  <2>2. \A a : In(a) # {} <=> 0 < Count(doing, a)
    BY <2>1, CountIsNat
  <2>3. WriterAlone
    <3> SUFFICES ASSUME NEW t \in In("writing") PROVE In("writing") \cup In("reading") = {t}
      BY DEF WriterAlone
    <3>1. Count(doing, "writing") = 1 /\ Count(doing, "reading") = 0
      BY <2>2, CountIsNat DEF LockIInv, Exclusive
    <3>2. PICK u : In("writing") = {u}
      BY <2>1, <3>1, CountIsNat, FS_Singleton DEF Count
    <3> QED
      BY <2>2, <3>1, <3>2
  <2>4. NobodyLeftWaiting
    <3> SUFFICES ASSUME ~rwLock.cancelled
                 PROVE  /\ In("awaitingWrite") # {} /\ ~writeLocked(rwLock) => In("wokenWrite") # {}
                        /\ In("awaitingRead") # {} => readLocked(rwLock)
      BY DEF NobodyLeftWaiting
    <3>1. /\ In("awaitingWrite") # {} <=> 0 < Count(doing, "awaitingWrite")
          /\ In("wokenWrite") # {} <=> 0 < Count(doing, "wokenWrite")
          /\ In("awaitingRead") # {} <=> 0 < Count(doing, "awaitingRead")
      BY <2>2
    <3>2. WritersServed /\ ReadersServed /\ CountersAreExact
      BY DEF LockIInv
    <3> QED
      BY <3>1, <3>2, CountsAreNat
         DEF CountersAreExact, WritersServed, ReadersServed, writeLocked, readLocked, Activities
  <2>5. EveryPostWakes
    BY <2>1, <2>2 DEF LockIInv, PostsServed, EveryPostWakes, Count
  <2> QED
    BY <2>3, <2>4, <2>5 DEF LocksKeepTheirPromise
<1> QED
  BY <1>1, LockInvariance, PTL

-----------------------------------------------------------------------------
(***************************************************************************)
(* The load generator.  Per transaction, what each side has counted and    *)
(* what is under way add up, and the octets under way are the letters the  *)
(* receiver expects next.  Over all, an iteration taken off the counter is *)
(* completed, running or lost, and a slot that was seeded is only given up *)
(* when none is left or one was lost: so, when nothing runs any more, the  *)
(* generator has finished.                                                 *)
(***************************************************************************)

\* What the counters and the transactions can be.
Loads == [remaining : Int, completed : Nat, failed : Nat, lost : Nat,
          seeded : [1..ClientThreads -> 0..SeedsPerThread], disruption : Disruptions]
Transactions == [at : {"none", "begin", "request", "response"},
                 sent : Nat, received : Nat, took : Nat, gave : Nat,
                 up : Seq(Nat), down : Seq(Nat), bad : BOOLEAN]

\* The octets under way are the next ones of the body that the receiver expects.
Letters(octets, from) == \A i \in 1..Len(octets) : octets[i] = (from + i - 1) % Alphabet

Untouched(x) ==
    /\ x.sent = 0 /\ x.received = 0 /\ x.took = 0 /\ x.gave = 0
    /\ x.up = <<>> /\ x.down = <<>>

InRequest(x) ==
    /\ x.received = 0 /\ x.gave = 0 /\ x.down = <<>>
    /\ x.sent = x.took + Len(x.up) /\ x.sent <= RequestSize
    /\ Letters(x.up, x.took)

InResponse(x) ==
    /\ x.gave = x.received + Len(x.down) /\ x.gave <= ResponseSize
    /\ Letters(x.down, x.received)

\* A transaction in order: no assertion of a handler has failed and both
\* contexts agree with what is under way.
Orderly(x) ==
    /\ x \in Transactions
    /\ ~x.bad
    /\ x.at = "begin" => Untouched(x)
    /\ x.at = "request" => InRequest(x)
    /\ x.at = "response" => InResponse(x)

Taken == IF load.remaining < 0 THEN TotalIterations ELSE TotalIterations - load.remaining

\* The iterations are counted, slots not yet seeded are idle, and a seeded slot
\* is only given up when the iterations are used up or one was lost.
Counted == load.completed + Cardinality(Running) + load.lost = Taken
UnseededIdle == \A s \in Streams : s[2] > load.seeded[s[1]] => stream[s].at = "none"
SeededBusy ==
    load.remaining >= 0 /\ load.lost = 0 =>
        \A s \in Streams : s[2] <= load.seeded[s[1]] => stream[s].at # "none"

LoadIInv ==
    /\ load \in Loads
    /\ stream \in [Streams -> Transactions]
    /\ \A s \in Streams : Orderly(stream[s])
    /\ Counted
    /\ UnseededIdle
    /\ SeededBusy

(***************************************************************************)
(* The sizes are numbers and the streams are finitely many.                *)
(***************************************************************************)
LEMMA Numbers ==
    /\ TotalIterations \in Int
    /\ SeedsPerThread \in Nat
    /\ IsFiniteSet(Streams)
<1>1. TotalIterations \in Int
  BY LoadAssumption DEF TotalIterations
<1>2. SeedsPerThread \in Nat
  BY LoadAssumption DEF SeedsPerThread
<1>3. IsFiniteSet(1..ClientThreads) /\ IsFiniteSet(1..SeedsPerThread)
  BY <1>2, LoadAssumption, FS_Interval
<1>4. IsFiniteSet((1..ClientThreads) \X (1..SeedsPerThread))
  BY <1>3, FS_Product
<1> QED
  BY <1>1, <1>2, <1>4 DEF Streams

(***************************************************************************)
(* A slot is a thread and a number.                                        *)
(***************************************************************************)
LEMMA SlotOf ==
    /\ \A s \in Streams : s[1] \in 1..ClientThreads /\ s[2] \in 1..SeedsPerThread /\ s = <<s[1], s[2]>>
    /\ \A t \in 1..ClientThreads, i \in 1..SeedsPerThread : <<t, i>> \in Streams
BY DEF Streams

(***************************************************************************)
(* The transactions in progress are finitely many.                         *)
(***************************************************************************)
LEMMA RunningFinite == IsFiniteSet(Running) /\ Cardinality(Running) \in Nat
<1>1. Running \subseteq Streams
  BY DEF Running
<1>2. IsFiniteSet(Running)
  BY <1>1, Numbers, FS_Subset
<1> QED
  BY <1>2, FS_CardinalityType

(***************************************************************************)
(* The three ways of replacing one slot's transaction change the number in *)
(* progress by one, by minus one, or not at all.                           *)
(***************************************************************************)
LEMMA RunningChanges ==
    ASSUME stream \in [Streams -> Transactions], NEW s \in Streams, NEW y,
           stream' = [stream EXCEPT ![s] = y]
    PROVE  /\ s \notin Running /\ y.at # "none" => Cardinality(Running') = Cardinality(Running) + 1
           /\ s \in Running /\ y.at = "none" => Cardinality(Running') = Cardinality(Running) - 1
           /\ s \in Running /\ y.at # "none" => Running' = Running
<1>0. \A r \in Streams : stream'[r] = IF r = s THEN y ELSE stream[r]
  OBVIOUS
<1>1. ASSUME s \notin Running, y.at # "none"
      PROVE  Cardinality(Running') = Cardinality(Running) + 1
  <2>1. Running' = Running \cup {s}
    BY <1>0, <1>1 DEF Running
  <2> QED
    BY <2>1, <1>1, RunningFinite, FS_AddElement
<1>2. ASSUME s \in Running, y.at = "none"
      PROVE  Cardinality(Running') = Cardinality(Running) - 1
  <2>1. Running' = Running \ {s}
    BY <1>0, <1>2 DEF Running
  <2>2. Cardinality(Running \ {s}) = Cardinality(Running) - 1
    BY <1>2, RunningFinite, FS_RemoveElement
  <2> QED
    BY <2>1, <2>2
<1>3. ASSUME s \in Running, y.at # "none"
      PROVE  Running' = Running
  BY <1>0, <1>3 DEF Running
<1> QED
  BY <1>1, <1>2, <1>3

(***************************************************************************)
(* A seeded slot starts from the beginning.                                *)
(***************************************************************************)
LEMMA Fresh ==
    /\ Orderly([NoTransaction EXCEPT !.at = "begin"])
    /\ [NoTransaction EXCEPT !.at = "begin"].at = "begin"
<1> DEFINE y == [NoTransaction EXCEPT !.at = "begin"]
<1>1. NoTransaction \in Transactions
  BY DEF NoTransaction, Transactions
<1>2. y \in Transactions
  BY <1>1 DEF Transactions
<1>3. y.at = "begin" /\ ~y.bad /\ Untouched(y)
  BY DEF NoTransaction, Untouched
<1> QED
  BY <1>2, <1>3 DEF Orderly

(***************************************************************************)
(* One assignment to a transaction's context keeps its type.               *)
(***************************************************************************)
LEMMA Assigned ==
    ASSUME NEW x \in Transactions
    PROVE  /\ \A a \in {"none", "begin", "request", "response"} : [x EXCEPT !.at = a] \in Transactions
           /\ \A n \in Nat : [x EXCEPT !.sent = n] \in Transactions
           /\ \A n \in Nat : [x EXCEPT !.received = n] \in Transactions
           /\ \A n \in Nat : [x EXCEPT !.took = n] \in Transactions
           /\ \A n \in Nat : [x EXCEPT !.gave = n] \in Transactions
           /\ \A q \in Seq(Nat) : [x EXCEPT !.up = q] \in Transactions
           /\ \A q \in Seq(Nat) : [x EXCEPT !.down = q] \in Transactions
           /\ \A b \in BOOLEAN : [x EXCEPT !.bad = b] \in Transactions
BY DEF Transactions

(***************************************************************************)
(* A slot passed on to its next transaction starts from the beginning.     *)
(***************************************************************************)
LEMMA PassedOn ==
    ASSUME NEW x \in Transactions, ~x.bad
    PROVE  Orderly(resubmitted(x)) /\ resubmitted(x).at = "begin"
<1> DEFINE y == resubmitted(x)
           x1 == [x EXCEPT !.at = "begin"]
           x2 == [x1 EXCEPT !.sent = 0]
           x3 == [x2 EXCEPT !.received = 0]
           x4 == [x3 EXCEPT !.took = 0]
           x5 == [x4 EXCEPT !.gave = 0]
           x6 == [x5 EXCEPT !.up = <<>>]
           x7 == [x6 EXCEPT !.down = <<>>]
<1>1. x1 \in Transactions
  BY Assigned
<1>2. x2 \in Transactions
  <2> HIDE DEF x1
  <2> QED BY <1>1, Assigned
<1>3. x3 \in Transactions
  <2> HIDE DEF x2
  <2> QED BY <1>2, Assigned
<1>4. x4 \in Transactions
  <2> HIDE DEF x3
  <2> QED BY <1>3, Assigned
<1>5. x5 \in Transactions
  <2> HIDE DEF x4
  <2> QED BY <1>4, Assigned
<1>6. x6 \in Transactions
  <2> HIDE DEF x5
  <2>1. <<>> \in Seq(Nat)
    OBVIOUS
  <2> QED BY <1>5, <2>1, Assigned
<1>7. x7 \in Transactions
  <2> HIDE DEF x6
  <2>1. <<>> \in Seq(Nat)
    OBVIOUS
  <2> QED BY <1>6, <2>1, Assigned
<1>8. y = x7
  BY DEF resubmitted
<1>9. y \in Transactions
  <2> HIDE DEF x7, y
  <2> QED BY <1>7, <1>8
<1>10. y.at = "begin" /\ ~y.bad /\ Untouched(y)
  BY DEF resubmitted, Untouched, Transactions
<1> QED
  BY <1>9, <1>10 DEF Orderly

(***************************************************************************)
(* A slot given up keeps its context.                                      *)
(***************************************************************************)
LEMMA GivenUp ==
    ASSUME NEW x, Orderly(x)
    PROVE  Orderly([x EXCEPT !.at = "none"]) /\ [x EXCEPT !.at = "none"].at = "none"
BY DEF Orderly, Transactions

(***************************************************************************)
(* A handler's step: counters and the number in progress stay.             *)
(***************************************************************************)
LEMMA StepKeeps ==
    ASSUME LoadIInv, NEW s \in Streams, NEW from, NEW y, Step(s, from, y),
           stream[s].at # "none", y.at # "none", Orderly(y)
    PROVE  LoadIInv'
<1>1. /\ stream' = [stream EXCEPT ![s] = y] /\ UNCHANGED load
      /\ stream \in [Streams -> Transactions] /\ y \in Transactions
  BY DEF LoadIInv, Step, Orderly
<1>2. /\ stream' \in [Streams -> Transactions]
      /\ \A r \in Streams : stream'[r] = IF r = s THEN y ELSE stream[r]
  BY <1>1
<1>3. \A r \in Streams : Orderly(stream'[r])
  BY <1>2 DEF LoadIInv
<1>4. Running' = Running
  BY <1>1, RunningChanges DEF Running
<1>5. Counted'
  BY <1>1, <1>4 DEF LoadIInv, Counted, Taken
<1>6. UnseededIdle' /\ SeededBusy'
  BY <1>1, <1>2 DEF LoadIInv, UnseededIdle, SeededBusy
<1>7. (load \in Loads)'
  BY <1>1 DEF LoadIInv
<1> QED
  BY <1>2, <1>3, <1>5, <1>6, <1>7 DEF LoadIInv

(***************************************************************************)
(* The end of a transaction: it is counted, and its slot takes the next    *)
(* iteration, or none is left, or the iteration is lost.                   *)
(***************************************************************************)
LEMMA EndKeeps ==
    ASSUME LoadIInv, NEW s \in Streams, NEW ok \in BOOLEAN, EndTransaction(s, ok),
           stream[s].at # "none"
    PROVE  LoadIInv'
<1> DEFINE ended == [load EXCEPT !.remaining = Decremented, !.completed = @ + 1,
                                 !.failed = IF ok THEN @ ELSE @ + 1]
           gone == [stream[s] EXCEPT !.at = "none"]
           next == resubmitted(stream[s])
<1>0. /\ load \in Loads /\ stream \in [Streams -> Transactions] /\ Orderly(stream[s])
      /\ stream[s] \in Transactions /\ ~stream[s].bad
  BY DEF LoadIInv, Orderly
<1>1. /\ ended.remaining = load.remaining - 1 /\ ended.completed = load.completed + 1
      /\ ended.lost = load.lost /\ ended.seeded = load.seeded /\ ended.disruption = load.disruption
  BY <1>0 DEF Loads, Decremented
<1>2. ended \in Loads
  <2> DEFINE e1 == [load EXCEPT !.remaining = Decremented]
             e2 == [e1 EXCEPT !.completed = load.completed + 1]
             n == IF ok THEN load.failed ELSE load.failed + 1
             e3 == [e2 EXCEPT !.failed = n]
  <2>1. e1 \in Loads
    BY <1>0 DEF Loads, Decremented
  <2>2. e2 \in Loads
    <3>1. load.completed + 1 \in Nat
      BY <1>0 DEF Loads
    <3> HIDE DEF e1
    <3> QED BY <2>1, <3>1 DEF Loads
  <2>3. e3 \in Loads
    <3>1. n \in Nat
      BY <1>0 DEF Loads
    <3> HIDE DEF e2, n
    <3> QED BY <2>2, <3>1 DEF Loads
  <2>4. ended = e3
    BY <1>0 DEF Loads
  <2> HIDE DEF e3, ended
  <2> QED
    BY <2>3, <2>4
<1>3. Orderly(gone) /\ gone.at = "none" /\ gone \in Transactions
  BY <1>0, GivenUp DEF Orderly
<1>4. Orderly(next) /\ next.at = "begin" /\ next \in Transactions
  BY <1>0, PassedOn DEF Orderly
<1>5. /\ load.remaining \in Int /\ load.completed \in Nat /\ load.lost \in Nat
      /\ TotalIterations \in Int /\ Cardinality(Running) \in Nat
      /\ s \in Running
  BY <1>0, Numbers, RunningFinite DEF Loads, Running
<1> HIDE DEF ended, gone, next
<1>6. CASE load.remaining - 1 < 0 /\ load' = ended /\ stream' = [stream EXCEPT ![s] = gone]
  <2>1. /\ stream' \in [Streams -> Transactions]
        /\ \A r \in Streams : stream'[r] = IF r = s THEN gone ELSE stream[r]
    BY <1>0, <1>3, <1>6
  <2>2. \A r \in Streams : Orderly(stream'[r])
    BY <1>3, <2>1 DEF LoadIInv
  <2>3. Cardinality(Running') = Cardinality(Running) - 1
    BY <1>0, <1>3, <1>5, <1>6, RunningChanges
  <2>4. Counted'
    BY <1>1, <1>5, <1>6, <2>3 DEF LoadIInv, Counted, Taken
  <2>5. UnseededIdle'
    BY <1>1, <1>3, <1>6, <2>1 DEF LoadIInv, UnseededIdle
  <2>6. SeededBusy'
    BY <1>1, <1>5, <1>6 DEF SeededBusy
  <2> QED
    BY <1>2, <1>6, <2>1, <2>2, <2>4, <2>5, <2>6 DEF LoadIInv
<1>7. CASE load.remaining - 1 >= 0 /\ load' = ended /\ stream' = [stream EXCEPT ![s] = next]
  <2>1. /\ stream' \in [Streams -> Transactions]
        /\ \A r \in Streams : stream'[r] = IF r = s THEN next ELSE stream[r]
    BY <1>0, <1>4, <1>7
  <2>2. \A r \in Streams : Orderly(stream'[r])
    BY <1>4, <2>1 DEF LoadIInv
  <2>3. Running' = Running
    BY <1>0, <1>4, <1>5, <1>7, RunningChanges
  <2>4. Counted'
    BY <1>1, <1>5, <1>7, <2>3 DEF LoadIInv, Counted, Taken
  <2>5. UnseededIdle'
    BY <1>1, <1>5, <1>7, <2>1 DEF LoadIInv, UnseededIdle, Running
  <2>6. SeededBusy'
    BY <1>1, <1>4, <1>5, <1>7, <2>1 DEF LoadIInv, SeededBusy
  <2> QED
    BY <1>2, <1>7, <2>1, <2>2, <2>4, <2>5, <2>6 DEF LoadIInv
<1>8. CASE /\ load.remaining - 1 >= 0 /\ load' = [ended EXCEPT !.lost = @ + 1]
           /\ stream' = [stream EXCEPT ![s] = gone]
  <2>0. /\ load' \in Loads /\ load'.remaining = ended.remaining /\ load'.completed = ended.completed
        /\ load'.lost = ended.lost + 1 /\ load'.seeded = ended.seeded
    BY <1>2, <1>8 DEF Loads
  <2>1. /\ stream' \in [Streams -> Transactions]
        /\ \A r \in Streams : stream'[r] = IF r = s THEN gone ELSE stream[r]
    BY <1>0, <1>3, <1>8
  <2>2. \A r \in Streams : Orderly(stream'[r])
    BY <1>3, <2>1 DEF LoadIInv
  <2>3. Cardinality(Running') = Cardinality(Running) - 1
    BY <1>0, <1>3, <1>5, <1>8, RunningChanges
  <2>4. Counted'
    BY <1>1, <1>5, <1>8, <2>0, <2>3 DEF LoadIInv, Counted, Taken
  <2>5. UnseededIdle'
    BY <1>1, <1>3, <2>0, <2>1 DEF LoadIInv, UnseededIdle
  <2>6. SeededBusy'
    BY <1>1, <1>5, <2>0 DEF SeededBusy
  <2> QED
    BY <2>0, <2>1, <2>2, <2>4, <2>5, <2>6 DEF LoadIInv
<1> QED
  BY <1>6, <1>7, <1>8 DEF EndTransaction, Decremented, ended, gone, next

(***************************************************************************)
(* What a producer appends continues the letters.                          *)
(***************************************************************************)
LEMMA Produced ==
    ASSUME NEW q \in Seq(Nat), NEW from \in Nat, Letters(q, from),
           NEW p \in Seq(Nat), Letters(p, from + Len(q))
    PROVE  q \o p \in Seq(Nat) /\ Len(q \o p) = Len(q) + Len(p) /\ Letters(q \o p, from)
<1> DEFINE w == q \o p
<1>1. Len(q) \in Nat /\ Len(p) \in Nat
  BY LenProperties
<1>2. w \in Seq(Nat) /\ Len(w) = Len(q) + Len(p)
  BY ConcatProperties
<1>3. ASSUME NEW i \in 1..Len(w)
      PROVE  w[i] = (from + i - 1) % Alphabet
  <2>1. CASE i <= Len(q)
    BY <1>1, <2>1 DEF Letters
  <2>2. CASE i > Len(q)
    <3>1. w[i] = p[i - Len(q)] /\ i - Len(q) \in 1..Len(p)
      BY <1>1, <1>2, <2>2
    <3>2. (from + Len(q)) + (i - Len(q)) - 1 = from + i - 1
      BY <1>1, <2>2
    <3> HIDE DEF w
    <3> QED
      BY <3>1, <3>2 DEF Letters
  <2> QED
    BY <1>1, <1>2, <2>1, <2>2
<1> QED
  BY <1>2, <1>3 DEF Letters

(***************************************************************************)
(* What a consumer takes verifies, and the rest goes on from there.        *)
(***************************************************************************)
LEMMA Consumed ==
    ASSUME NEW q \in Seq(Nat), NEW from \in Nat, NEW n \in 1..Len(q), Letters(q, from)
    PROVE  LET w == SubSeq(q, n + 1, Len(q))
           IN  /\ w \in Seq(Nat) /\ Len(w) = Len(q) - n /\ Letters(w, from + n)
               /\ ~\E i \in 1..n : q[i] # (from + i - 1) % Alphabet
<1> DEFINE w == SubSeq(q, n + 1, Len(q))
<1>1. w \in Seq(Nat) /\ Len(w) = Len(q) - n
  OBVIOUS
<1>2. ASSUME NEW i \in 1..Len(w)
      PROVE  w[i] = (from + n + i - 1) % Alphabet
  <2>1. w[i] = q[n + i] /\ n + i \in 1..Len(q)
    <3>1. Len(q) \in Nat /\ Len(w) = Len(q) - n
      BY <1>1, LenProperties
    <3>2. \A k \in 1..(Len(q) - (n + 1) + 1) : w[k] = q[(n + 1) + k - 1]
      BY <3>1, SubSeqProperties
    <3> HIDE DEF w
    <3>3. /\ i \in 1..(Len(q) - (n + 1) + 1) /\ (n + 1) + i - 1 = n + i
          /\ n + i \in 1..Len(q)
      BY <3>1
    <3> QED
      BY <3>2, <3>3
  <2>2. from + (n + i) - 1 = from + n + i - 1
    BY <1>1
  <2> HIDE DEF w
  <2> QED
    BY <2>1, <2>2 DEF Letters
<1>3. ~\E i \in 1..n : q[i] # (from + i - 1) % Alphabet
  BY DEF Letters
<1> QED
  BY <1>1, <1>2, <1>3 DEF Letters

(***************************************************************************)
(* A seed command takes an iteration for a slot that was idle.             *)
(***************************************************************************)
LEMMA SeedKeeps ==
    ASSUME LoadIInv, NEW t \in 1..ClientThreads, Seed(t)
    PROVE  LoadIInv'
<1> DEFINE i == load.seeded[t] + 1
           s == <<t, i>>
           y == [NoTransaction EXCEPT !.at = "begin"]
<1>0. load \in Loads /\ stream \in [Streams -> Transactions]
  BY DEF LoadIInv
<1>a. /\ load.remaining \in Int /\ load.completed \in Nat /\ load.lost \in Nat
      /\ load.seeded \in [1..ClientThreads -> 0..SeedsPerThread]
      /\ load.seeded[t] \in 0..SeedsPerThread
  BY <1>0 DEF Loads
<1>b. SeedsPerThread \in Nat /\ TotalIterations \in Int /\ Cardinality(Running) \in Nat
  BY Numbers, RunningFinite
<1>c. i <= SeedsPerThread
  BY DEF Seed
<1>d. i \in 1..SeedsPerThread /\ SeedsPerThread \in 0..SeedsPerThread
  BY <1>a, <1>b, <1>c
<1>e. s \in Streams /\ s[1] = t /\ s[2] = i
  <2> HIDE DEF i
  <2> QED BY <1>d, SlotOf
<1>n. load.remaining \in Int /\ load.completed \in Nat /\ load.lost \in Nat
  BY <1>a
<1>f. Counted
  BY DEF LoadIInv
<1>1. /\ Orderly(y) /\ y \in Transactions /\ y.at = "begin"
  BY Fresh DEF Orderly
<1>2. s \notin Running
  <2>1. s[2] > load.seeded[s[1]]
    BY <1>a, <1>e
  <2> HIDE DEF s
  <2> QED BY <1>e, <2>1 DEF LoadIInv, UnseededIdle, Running
<1>3. ASSUME NEW k \in 0..SeedsPerThread, NEW n \in {load.lost, load.lost + 1},
             load' = [load EXCEPT !.remaining = Decremented, !.seeded[t] = k, !.lost = n]
      PROVE  /\ load' \in Loads
             /\ load'.remaining = load.remaining - 1 /\ load'.completed = load.completed
             /\ load'.lost = n /\ load'.seeded = [load.seeded EXCEPT ![t] = k]
  <2> DEFINE e1 == [load EXCEPT !.remaining = Decremented]
             e2 == [e1 EXCEPT !.seeded = [load.seeded EXCEPT ![t] = k]]
             e3 == [e2 EXCEPT !.lost = n]
  <2>1. e1 \in Loads
    BY <1>0 DEF Loads, Decremented
  <2>2. e2 \in Loads
    <3>1. [load.seeded EXCEPT ![t] = k] \in [1..ClientThreads -> 0..SeedsPerThread]
      BY <1>a
    <3> HIDE DEF e1
    <3> QED BY <2>1, <3>1 DEF Loads
  <2>3. e3 \in Loads
    <3>1. n \in Nat
      BY <1>a
    <3> HIDE DEF e2
    <3> QED BY <2>2, <3>1 DEF Loads
  <2>4. load' = e3
    BY <1>0, <1>3 DEF Loads
  <2>5. /\ e3.remaining = load.remaining - 1 /\ e3.completed = load.completed
        /\ e3.lost = n /\ e3.seeded = [load.seeded EXCEPT ![t] = k]
    BY <1>0 DEF Loads, Decremented
  <2> HIDE DEF e3
  <2> QED
    BY <2>3, <2>4, <2>5
<1> HIDE DEF i, y, s
<1>4. CASE load.remaining - 1 < 0
  <2>1. /\ load' = [load EXCEPT !.remaining = Decremented, !.seeded[t] = SeedsPerThread]
        /\ UNCHANGED stream
    BY <1>4, <1>a DEF Seed, Decremented
  <2>2. load' = [load EXCEPT !.remaining = Decremented, !.seeded[t] = SeedsPerThread, !.lost = load.lost]
    BY <1>0, <2>1 DEF Loads
  <2>3. /\ load' \in Loads
        /\ load'.remaining = load.remaining - 1 /\ load'.completed = load.completed
        /\ load'.lost = load.lost /\ load'.seeded = [load.seeded EXCEPT ![t] = SeedsPerThread]
    BY <1>3, <1>d, <2>2
  <2>4. Running' = Running
    BY <2>1 DEF Running
  <2>5. Counted'
    BY <1>4, <1>a, <1>b, <2>3, <2>4 DEF LoadIInv, Counted, Taken
  <2>6. UnseededIdle'
    BY <1>a, <1>b, <2>1, <2>3, SlotOf DEF LoadIInv, UnseededIdle
  <2>7. SeededBusy'
    BY <1>4, <1>a, <2>3 DEF SeededBusy
  <2> QED
    BY <2>1, <2>3, <2>5, <2>6, <2>7 DEF LoadIInv
<1>5. CASE /\ load.remaining - 1 >= 0
           /\ load' = [load EXCEPT !.remaining = Decremented, !.seeded[t] = i]
           /\ stream' = [stream EXCEPT ![s] = y]
  <2>2. load' = [load EXCEPT !.remaining = Decremented, !.seeded[t] = i, !.lost = load.lost]
    BY <1>0, <1>5 DEF Loads
  <2>3. /\ load' \in Loads
        /\ load'.remaining = load.remaining - 1 /\ load'.completed = load.completed
        /\ load'.lost = load.lost /\ load'.seeded = [load.seeded EXCEPT ![t] = i]
    <3>1. i \in 0..SeedsPerThread
      BY <1>b, <1>d
    <3> QED
      BY <1>3, <2>2, <3>1
  <2>4. /\ stream' \in [Streams -> Transactions]
        /\ \A r \in Streams : stream'[r] = IF r = s THEN y ELSE stream[r]
    BY <1>0, <1>1, <1>5
  <2>5. \A r \in Streams : Orderly(stream'[r])
    BY <1>1, <2>4 DEF LoadIInv
  <2>6. Cardinality(Running') = Cardinality(Running) + 1
    BY <1>0, <1>1, <1>2, <1>5, <1>e, RunningChanges
  <2>a. load.remaining - 1 >= 0
    BY <1>5
  <2>b. /\ load'.remaining = load.remaining - 1 /\ load'.completed = load.completed
        /\ load'.lost = load.lost
    BY <2>3
  <2>c. Taken' = Taken + 1 /\ Taken \in Int
    BY <1>b, <1>n, <2>a, <2>b DEF Taken
  <2>7. Counted'
    BY <1>b, <1>f, <1>n, <2>b, <2>c, <2>6 DEF Counted
  <2>8. \A r \in Streams : r # s => r[1] # t \/ r[2] # i
    BY SlotOf DEF s
  <2>9. UnseededIdle'
    <3> SUFFICES ASSUME NEW r \in Streams, r[2] > load'.seeded[r[1]]
                 PROVE  stream'[r].at = "none"
      BY DEF UnseededIdle
    <3>0. r[1] \in 1..ClientThreads /\ r[2] \in 1..SeedsPerThread
      BY SlotOf
    <3>1. CASE r[1] = t
      <4>1. load'.seeded[t] = i
        BY <1>a, <2>3
      <4>2. r # s /\ r[2] > load.seeded[r[1]]
        BY <1>a, <1>e, <3>0, <3>1, <4>1 DEF i
      <4> QED
        BY <2>4, <4>2 DEF LoadIInv, UnseededIdle
    <3>2. CASE r[1] # t
      <4>1. load'.seeded[r[1]] = load.seeded[r[1]]
        BY <1>a, <2>3, <3>0, <3>2
      <4>2. r # s
        BY <1>e, <3>2
      <4> QED
        BY <2>4, <4>1, <4>2 DEF LoadIInv, UnseededIdle
    <3> QED
      BY <3>1, <3>2
  <2>10. SeededBusy'
    <3> SUFFICES ASSUME load'.remaining >= 0, load'.lost = 0,
                        NEW r \in Streams, r[2] <= load'.seeded[r[1]]
                 PROVE  stream'[r].at # "none"
      BY DEF SeededBusy
    <3>1. load.remaining >= 0 /\ load.lost = 0
      BY <1>a, <2>3
    <3>2. r = s \/ r[2] <= load.seeded[r[1]]
      BY <1>a, <1>d, <2>3, <2>8, SlotOf DEF i
    <3> QED
      BY <1>1, <2>4, <3>1, <3>2 DEF LoadIInv, SeededBusy
  <2> QED
    BY <2>3, <2>4, <2>5, <2>7, <2>9, <2>10 DEF LoadIInv
<1>6. CASE /\ load.remaining - 1 >= 0
           /\ load' = [load EXCEPT !.remaining = Decremented, !.seeded[t] = SeedsPerThread,
                                   !.lost = load.lost + 1]
           /\ UNCHANGED stream
  <2>3. /\ load' \in Loads
        /\ load'.remaining = load.remaining - 1 /\ load'.completed = load.completed
        /\ load'.lost = load.lost + 1 /\ load'.seeded = [load.seeded EXCEPT ![t] = SeedsPerThread]
    BY <1>3, <1>6, <1>d
  <2>4. Running' = Running
    BY <1>6 DEF Running
  <2>a. load.remaining - 1 >= 0
    BY <1>6
  <2>b. /\ load'.remaining = load.remaining - 1 /\ load'.completed = load.completed
        /\ load'.lost = load.lost + 1
    BY <2>3
  <2>c. Taken' = Taken + 1 /\ Taken \in Int
    BY <1>b, <1>n, <2>a, <2>b DEF Taken
  <2>5. Counted'
    BY <1>b, <1>f, <1>n, <2>b, <2>c, <2>4 DEF Counted
  <2>6. UnseededIdle'
    BY <1>6, <1>a, <1>b, <2>3, SlotOf DEF LoadIInv, UnseededIdle
  <2>7. SeededBusy'
    BY <1>a, <2>3 DEF SeededBusy
  <2> QED
    BY <1>6, <2>3, <2>5, <2>6, <2>7 DEF LoadIInv
<1> QED
  BY <1>4, <1>5, <1>6, <1>a DEF Seed, Decremented, i, s, y

(***************************************************************************)
(* beginTransaction: the request's body starts from its first letter.      *)
(***************************************************************************)
LEMMA BeginKeeps ==
    ASSUME LoadIInv, NEW s \in Streams, BeginTransaction(s)
    PROVE  LoadIInv'
<1> DEFINE x == stream[s]
           y == [x EXCEPT !.at = "request"]
<1>1. x.at = "begin" /\ Orderly(x) /\ x \in Transactions
  BY DEF LoadIInv, Orderly, BeginTransaction
<1>2. CASE EndTransaction(s, FALSE)
  BY <1>1, <1>2, EndKeeps
<1>3. CASE Step(s, "begin", y)
  <2> HIDE DEF x
  <2>1. y \in Transactions /\ y.at = "request" /\ ~y.bad
    <3>1. y \in Transactions
      BY <1>1, Assigned
    <3>2. y.at = "request" /\ y.bad = x.bad
      BY <1>1 DEF Transactions
    <3>3. ~x.bad
      BY <1>1 DEF Orderly
    <3> QED
      BY <3>1, <3>2, <3>3
  <2>2. /\ y.sent = 0 /\ y.received = 0 /\ y.took = 0 /\ y.gave = 0
        /\ y.up = <<>> /\ y.down = <<>>
    BY <1>1 DEF Orderly, Untouched, Transactions
  <2> HIDE DEF y
  <2>3. Letters(<<>>, 0) /\ RequestSize \in Nat
    BY LoadAssumption DEF Letters
  <2>4. InRequest(y)
    BY <2>2, <2>3 DEF InRequest
  <2>5. Orderly(y)
    BY <2>1, <2>4 DEF Orderly
  <2> QED
    BY <1>1, <1>3, <2>1, <2>5, StepKeeps DEF x
<1> QED
  BY <1>2, <1>3 DEF BeginTransaction

(***************************************************************************)
(* produceRequestBody continues the letters under way.                     *)
(***************************************************************************)
LEMMA ProduceRequestKeeps ==
    ASSUME LoadIInv, NEW s \in Streams, NEW n \in Sizes, ProduceRequestBody(s, n)
    PROVE  LoadIInv'
<1> DEFINE x == stream[s]
           p == [i \in 1..n |-> (x.sent + i - 1) % Alphabet]
           w == x.up \o p
           x1 == [x EXCEPT !.up = w]
           y == [x EXCEPT !.up = @ \o [i \in 1..n |-> (x.sent + i - 1) % Alphabet], !.sent = @ + n]
<1>1. /\ x.at = "request" /\ Orderly(x) /\ x \in Transactions
      /\ n \in 1..(RequestSize - x.sent)
  BY DEF LoadIInv, Orderly, ProduceRequestBody
<1>2. CASE EndTransaction(s, FALSE)
  BY <1>1, <1>2, EndKeeps
<1>3. CASE Step(s, "request", y)
  <2> HIDE DEF x
  <2>1. /\ x.up \in Seq(Nat) /\ x.sent \in Nat /\ x.took \in Nat /\ n \in Nat
        /\ Letters(x.up, x.took) /\ x.sent = x.took + Len(x.up) /\ x.sent + n <= RequestSize
        /\ x.received = 0 /\ x.gave = 0 /\ x.down = <<>> /\ ~x.bad
    BY <1>1, LoadAssumption DEF Orderly, InRequest, Transactions
  <2>a. p \in Seq(Nat) /\ Len(p) = n /\ Letters(p, x.sent)
    <3>1. \A i \in 1..n : (x.sent + i - 1) % Alphabet \in Nat
      <4>1. x.sent \in Nat /\ n \in Nat /\ Alphabet \in Nat \ {0}
        BY <2>1, LoadAssumption
      <4>2. \A i \in 1..n : x.sent + i - 1 \in Nat
        BY <4>1
      <4>3. \A v \in Nat : v % Alphabet \in Nat
        BY <4>1
      <4> QED
        BY <4>2, <4>3
    <3>2. p \in [1..n -> Nat] /\ \A i \in 1..n : p[i] = (x.sent + i - 1) % Alphabet
      BY <3>1
    <3> HIDE DEF p
    <3>3. p \in Seq(Nat)
      BY <2>1, <3>2, SeqDef
    <3>4. Len(p) = n
      BY <2>1, <3>2, <3>3, LenProperties
    <3> QED
      BY <3>2, <3>3, <3>4 DEF Letters
  <2>b. x.sent + n \in Nat
    BY <2>1
  <2> HIDE DEF p
  <2>2. w \in Seq(Nat) /\ Len(w) = Len(x.up) + n /\ Letters(w, x.took)
    BY <2>1, <2>a, Produced
  <2> HIDE DEF w
  <2>3. x1 \in Transactions
    BY <1>1, <2>2, Assigned
  <2>4. y = [x1 EXCEPT !.sent = x.sent + n]
    BY <1>1 DEF Transactions, w, p
  <2>5. /\ x1.at = x.at /\ x1.up = w /\ x1.took = x.took /\ x1.received = x.received
        /\ x1.gave = x.gave /\ x1.down = x.down /\ x1.bad = x.bad
    BY <1>1 DEF Transactions
  <2> HIDE DEF x1, y
  <2>6. y \in Transactions
    BY <2>3, <2>4, <2>b, Assigned
  <2>7. /\ y.at = "request" /\ y.received = 0 /\ y.gave = 0 /\ y.down = <<>> /\ ~y.bad
    BY <1>1, <2>1, <2>3, <2>4, <2>5 DEF Transactions
  <2>c. y.up = w /\ y.sent = x.sent + n /\ y.took = x.took
    BY <1>1, <2>3, <2>4, <2>5 DEF Transactions
  <2>8. y.sent = y.took + Len(y.up) /\ y.sent <= RequestSize
    <3>1. Len(x.up) \in Nat /\ x.sent \in Nat /\ x.took \in Nat /\ n \in Nat /\ RequestSize \in Nat
      BY <2>1, LenProperties, LoadAssumption
    <3>2. x.sent = x.took + Len(x.up) /\ x.sent + n <= RequestSize
      BY <2>1
    <3>3. Len(w) = Len(x.up) + n
      BY <2>2
    <3>4. y.sent <= RequestSize
      BY <2>c, <3>2
    <3>5. x.sent + n = x.took + (Len(x.up) + n)
      BY <3>1, <3>2
    <3>6. y.sent = y.took + Len(y.up)
      BY <2>c, <3>3, <3>5
    <3> QED
      BY <3>4, <3>6
  <2>9. InRequest(y)
    BY <2>2, <2>7, <2>8, <2>c DEF InRequest
  <2>10. Orderly(y)
    BY <2>6, <2>7, <2>9 DEF Orderly
  <2> QED
    BY <1>1, <1>3, <2>7, <2>10, StepKeeps DEF x
<1> QED
  BY <1>2, <1>3 DEF ProduceRequestBody

(***************************************************************************)
(* consumeRequestBody of the origin finds the letters it expects.          *)
(***************************************************************************)
LEMMA ConsumeRequestKeeps ==
    ASSUME LoadIInv, NEW s \in Streams, NEW n \in Sizes, ConsumeRequestBody(s, n)
    PROVE  LoadIInv'
<1> DEFINE x == stream[s]
           wrong == \E i \in 1..n : x.up[i] # (x.took + i - 1) % Alphabet
           w == SubSeq(x.up, n + 1, Len(x.up))
           x1 == [x EXCEPT !.bad = x.bad \/ wrong]
           x2 == [x1 EXCEPT !.took = x.took + n]
           y == [x EXCEPT !.bad = @ \/ \E i \in 1..n : x.up[i] # (x.took + i - 1) % Alphabet,
                          !.took = @ + n, !.up = SubSeq(@, n + 1, Len(@))]
<1>1. x.at = "request" /\ Orderly(x) /\ x \in Transactions /\ n \in 1..Len(x.up)
  BY DEF LoadIInv, Orderly, ConsumeRequestBody
<1>2. CASE EndTransaction(s, FALSE)
  BY <1>1, <1>2, EndKeeps
<1>3. CASE Step(s, "request", y)
  <2> HIDE DEF x
  <2>1. /\ x.up \in Seq(Nat) /\ x.sent \in Nat /\ x.took \in Nat
        /\ Letters(x.up, x.took) /\ x.sent = x.took + Len(x.up) /\ x.sent <= RequestSize
        /\ x.received = 0 /\ x.gave = 0 /\ x.down = <<>> /\ ~x.bad
    BY <1>1 DEF Orderly, InRequest, Transactions
  <2>2. w \in Seq(Nat) /\ Len(w) = Len(x.up) - n /\ Letters(w, x.took + n) /\ ~wrong
    BY <1>1, <2>1, Consumed
  <2> HIDE DEF w, wrong
  <2>3. x1 \in Transactions
    <3>1. (x.bad \/ wrong) \in BOOLEAN
      OBVIOUS
    <3> QED BY <1>1, <3>1, Assigned
  <2>b. x.took + n \in Nat
    BY <1>1, <2>1
  <2>4. /\ x1.at = x.at /\ ~x1.bad /\ x1.sent = x.sent /\ x1.up = x.up /\ x1.took = x.took
        /\ x1.received = x.received /\ x1.gave = x.gave /\ x1.down = x.down
    BY <1>1, <2>1, <2>2 DEF Transactions
  <2>5. y = [x2 EXCEPT !.up = w]
    BY <1>1 DEF Transactions, w, wrong
  <2> HIDE DEF x1, y
  <2>6. x2 \in Transactions
    BY <2>3, <2>b, Assigned
  <2>7. /\ x2.at = x.at /\ ~x2.bad /\ x2.sent = x.sent /\ x2.took = x.took + n
        /\ x2.received = x.received /\ x2.gave = x.gave /\ x2.down = x.down
    BY <2>3, <2>4 DEF Transactions
  <2> HIDE DEF x2
  <2>8. y \in Transactions
    BY <2>2, <2>5, <2>6, Assigned
  <2>9. /\ y.at = "request" /\ y.up = w /\ y.sent = x.sent /\ y.took = x.took + n
        /\ y.received = 0 /\ y.gave = 0 /\ y.down = <<>> /\ ~y.bad
    BY <1>1, <2>1, <2>5, <2>6, <2>7 DEF Transactions
  <2>10. y.sent = y.took + Len(y.up) /\ y.sent <= RequestSize
    BY <1>1, <2>1, <2>2, <2>9
  <2>11. InRequest(y)
    BY <2>2, <2>9, <2>10 DEF InRequest
  <2>12. Orderly(y)
    BY <2>8, <2>9, <2>11 DEF Orderly
  <2> QED
    BY <1>1, <1>3, <2>9, <2>12, StepKeeps DEF x
<1> QED
  BY <1>2, <1>3 DEF ConsumeRequestBody

(***************************************************************************)
(* The last chunk of the request: the origin has counted all of it.        *)
(***************************************************************************)
LEMMA EndOfRequestKeeps ==
    ASSUME LoadIInv, NEW s \in Streams, EndOfRequest(s)
    PROVE  LoadIInv'
<1> DEFINE x == stream[s]
           x1 == [x EXCEPT !.at = "response"]
           y == [x EXCEPT !.at = "response", !.bad = @ \/ x.took # RequestSize]
<1>1. /\ x.at = "request" /\ Orderly(x) /\ x \in Transactions
      /\ RequestSize - x.sent = 0 /\ x.up = <<>>
  BY DEF LoadIInv, Orderly, EndOfRequest
<1>2. CASE EndTransaction(s, FALSE)
  BY <1>1, <1>2, EndKeeps
<1>3. CASE Step(s, "request", y)
  <2> HIDE DEF x
  <2>1. /\ x.sent \in Nat /\ x.took \in Nat /\ x.sent = x.took + Len(x.up)
        /\ x.received = 0 /\ x.gave = 0 /\ x.down = <<>>
    BY <1>1 DEF Orderly, InRequest, Transactions
  <2>2. x.took = RequestSize /\ ResponseSize \in Nat
    BY <1>1, <2>1, LoadAssumption
  <2>3. x1 \in Transactions /\ x1.bad = x.bad /\ x.bad = FALSE
    <3>1. x1 \in Transactions
      BY <1>1, Assigned
    <3>2. x1.bad = x.bad /\ x.bad \in BOOLEAN
      BY <1>1 DEF Transactions
    <3>3. ~x.bad
      BY <1>1 DEF Orderly
    <3> QED
      BY <3>1, <3>2, <3>3
  <2>4. y = [x1 EXCEPT !.bad = FALSE]
    BY <1>1, <2>2, <2>3 DEF Transactions
  <2>5. y.at = "response" /\ y.bad = FALSE
    BY <1>1, <2>2, <2>3 DEF Transactions
  <2>6. y.received = 0 /\ y.gave = 0 /\ y.down = <<>>
    BY <1>1, <2>1 DEF Transactions
  <2> HIDE DEF x1, y
  <2>7. y \in Transactions
    BY <2>3, <2>4, Assigned
  <2>8. Letters(<<>>, 0)
    BY DEF Letters
  <2>9. InResponse(y)
    BY <2>2, <2>6, <2>8 DEF InResponse
  <2>10. Orderly(y)
    BY <2>5, <2>7, <2>9 DEF Orderly
  <2> QED
    BY <1>1, <1>3, <2>5, <2>10, StepKeeps DEF x
<1> QED
  BY <1>2, <1>3 DEF EndOfRequest

(***************************************************************************)
(* produceResponseBody of the origin continues the letters under way.      *)
(***************************************************************************)
LEMMA ProduceResponseKeeps ==
    ASSUME LoadIInv, NEW s \in Streams, NEW n \in Sizes, ProduceResponseBody(s, n)
    PROVE  LoadIInv'
<1> DEFINE x == stream[s]
           p == [i \in 1..n |-> (x.gave + i - 1) % Alphabet]
           w == x.down \o p
           x1 == [x EXCEPT !.down = w]
           y == [x EXCEPT !.down = @ \o [i \in 1..n |-> (x.gave + i - 1) % Alphabet], !.gave = @ + n]
<1>1. /\ x.at = "response" /\ Orderly(x) /\ x \in Transactions
      /\ n \in 1..(ResponseSize - x.gave)
  BY DEF LoadIInv, Orderly, ProduceResponseBody
<1>2. CASE EndTransaction(s, FALSE)
  BY <1>1, <1>2, EndKeeps
<1>3. CASE Step(s, "response", y)
  <2> HIDE DEF x
  <2>1. /\ x.down \in Seq(Nat) /\ x.gave \in Nat /\ x.received \in Nat /\ n \in Nat
        /\ Letters(x.down, x.received) /\ x.gave = x.received + Len(x.down)
        /\ x.gave + n <= ResponseSize /\ ~x.bad
    BY <1>1, LoadAssumption DEF Orderly, InResponse, Transactions
  <2>2. p \in Seq(Nat) /\ Len(p) = n /\ Letters(p, x.gave)
    <3>1. \A i \in 1..n : (x.gave + i - 1) % Alphabet \in Nat
      <4>1. x.gave \in Nat /\ n \in Nat /\ Alphabet \in Nat \ {0}
        BY <2>1, LoadAssumption
      <4>2. \A i \in 1..n : x.gave + i - 1 \in Nat
        BY <4>1
      <4>3. \A v \in Nat : v % Alphabet \in Nat
        BY <4>1
      <4> QED
        BY <4>2, <4>3
    <3>2. p \in [1..n -> Nat] /\ \A i \in 1..n : p[i] = (x.gave + i - 1) % Alphabet
      BY <3>1
    <3> HIDE DEF p
    <3>3. p \in Seq(Nat)
      BY <2>1, <3>2, SeqDef
    <3>4. Len(p) = n
      BY <2>1, <3>2, <3>3, LenProperties
    <3> QED
      BY <3>2, <3>3, <3>4 DEF Letters
  <2>3. x.gave + n \in Nat
    BY <2>1
  <2> HIDE DEF p
  <2>4. w \in Seq(Nat) /\ Len(w) = Len(x.down) + n /\ Letters(w, x.received)
    BY <2>1, <2>2, Produced
  <2> HIDE DEF w
  <2>5. x1 \in Transactions
    BY <1>1, <2>4, Assigned
  <2>6. y = [x1 EXCEPT !.gave = x.gave + n]
    BY <1>1 DEF Transactions, w, p
  <2>7. x1.at = x.at /\ x1.down = w /\ x1.received = x.received /\ x1.bad = x.bad
    BY <1>1 DEF Transactions
  <2> HIDE DEF x1, y
  <2>8. y \in Transactions
    BY <2>3, <2>5, <2>6, Assigned
  <2>9. y.at = "response" /\ ~y.bad
    BY <1>1, <2>1, <2>5, <2>6, <2>7 DEF Transactions
  <2>10. y.down = w /\ y.gave = x.gave + n /\ y.received = x.received
    BY <1>1, <2>5, <2>6, <2>7 DEF Transactions
  <2>11. y.gave = y.received + Len(y.down) /\ y.gave <= ResponseSize
    <3>1. Len(x.down) \in Nat /\ x.gave \in Nat /\ x.received \in Nat /\ n \in Nat
      BY <2>1, LenProperties
    <3>2. x.gave = x.received + Len(x.down) /\ x.gave + n <= ResponseSize
      BY <2>1
    <3>3. Len(w) = Len(x.down) + n
      BY <2>4
    <3>4. y.gave <= ResponseSize
      BY <2>10, <3>2
    <3>5. x.gave + n = x.received + (Len(x.down) + n)
      BY <3>1, <3>2
    <3>6. y.gave = y.received + Len(y.down)
      BY <2>10, <3>3, <3>5
    <3> QED
      BY <3>4, <3>6
  <2>12. InResponse(y)
    BY <2>4, <2>10, <2>11 DEF InResponse
  <2>13. Orderly(y)
    BY <2>8, <2>9, <2>12 DEF Orderly
  <2> QED
    BY <1>1, <1>3, <2>9, <2>13, StepKeeps DEF x
<1> QED
  BY <1>2, <1>3 DEF ProduceResponseBody

(***************************************************************************)
(* consumeResponseBody finds the letters it expects, and no more of them   *)
(* than were asked for.                                                    *)
(***************************************************************************)
LEMMA ConsumeResponseKeeps ==
    ASSUME LoadIInv, NEW s \in Streams, NEW n \in Sizes, ConsumeResponseBody(s, n)
    PROVE  LoadIInv'
<1> DEFINE x == stream[s]
           wrong == \/ n + x.received > ResponseSize
                    \/ \E i \in 1..n : x.down[i] # (x.received + i - 1) % Alphabet
           w == SubSeq(x.down, n + 1, Len(x.down))
           x1 == [x EXCEPT !.bad = x.bad \/ wrong]
           x2 == [x1 EXCEPT !.received = x.received + n]
           y == [x EXCEPT
                !.bad = \/ @
                        \/ n + x.received > ResponseSize
                        \/ \E i \in 1..n : x.down[i] # (x.received + i - 1) % Alphabet,
                !.received = @ + n, !.down = SubSeq(@, n + 1, Len(@))]
<1>1. x.at = "response" /\ Orderly(x) /\ x \in Transactions /\ n \in 1..Len(x.down)
  BY DEF LoadIInv, Orderly, ConsumeResponseBody
<1>2. CASE EndTransaction(s, FALSE)
  BY <1>1, <1>2, EndKeeps
<1>3. CASE Step(s, "response", y)
  <2> HIDE DEF x
  <2>1. /\ x.down \in Seq(Nat) /\ x.gave \in Nat /\ x.received \in Nat
        /\ Letters(x.down, x.received) /\ x.gave = x.received + Len(x.down)
        /\ x.gave <= ResponseSize /\ ~x.bad
    BY <1>1 DEF Orderly, InResponse, Transactions
  <2>2. /\ w \in Seq(Nat) /\ Len(w) = Len(x.down) - n /\ Letters(w, x.received + n)
        /\ ~\E i \in 1..n : x.down[i] # (x.received + i - 1) % Alphabet
    BY <1>1, <2>1, Consumed
  <2>3. ~wrong
    <3>1. ~(n + x.received > ResponseSize)
      <4>1. Len(x.down) \in Nat /\ n <= Len(x.down) /\ n \in Nat
        BY <1>1, <2>1, LenProperties
      <4> QED
        BY <2>1, <4>1, LoadAssumption
    <3> QED
      BY <2>2, <3>1
  <2> HIDE DEF w, wrong
  <2>4. x1 \in Transactions
    <3>1. (x.bad \/ wrong) \in BOOLEAN
      OBVIOUS
    <3> QED BY <1>1, <3>1, Assigned
  <2>5. x.received + n \in Nat
    BY <1>1, <2>1
  <2>6. /\ x1.at = x.at /\ ~x1.bad /\ x1.gave = x.gave /\ x1.down = x.down
        /\ x1.received = x.received
    BY <1>1, <2>1, <2>3 DEF Transactions
  <2>7. y = [x2 EXCEPT !.down = w]
    BY <1>1 DEF Transactions, w, wrong
  <2> HIDE DEF x1, y
  <2>8. x2 \in Transactions
    BY <2>4, <2>5, Assigned
  <2>9. x2.at = x.at /\ ~x2.bad /\ x2.gave = x.gave /\ x2.received = x.received + n
    BY <2>4, <2>6 DEF Transactions
  <2> HIDE DEF x2
  <2>10. y \in Transactions
    BY <2>2, <2>7, <2>8, Assigned
  <2>11. y.at = "response" /\ ~y.bad
    BY <1>1, <2>7, <2>8, <2>9 DEF Transactions
  <2>12. y.down = w /\ y.gave = x.gave /\ y.received = x.received + n
    BY <2>7, <2>8, <2>9 DEF Transactions
  <2>13. y.gave = y.received + Len(y.down) /\ y.gave <= ResponseSize
    BY <1>1, <2>1, <2>2, <2>12
  <2>14. InResponse(y)
    BY <2>2, <2>12, <2>13 DEF InResponse
  <2>15. Orderly(y)
    BY <2>10, <2>11, <2>14 DEF Orderly
  <2> QED
    BY <1>1, <1>3, <2>11, <2>15, StepKeeps DEF x
<1> QED
  BY <1>2, <1>3 DEF ConsumeResponseBody

(***************************************************************************)
(* Every transaction of the load generator stays in order and every        *)
(* iteration stays counted.                                                *)
(***************************************************************************)
THEOREM LoadInvariance == LoadSpec => []LoadIInv
<1>1. LoadInit => LoadIInv
  <2> SUFFICES ASSUME LoadInit PROVE LoadIInv
    OBVIOUS
  <2> DEFINE none == [t \in 1..ClientThreads |-> 0]
  <2>1. PICK d \in Disruptions :
           load = [remaining |-> TotalIterations, completed |-> 0, failed |-> 0, lost |-> 0,
                   seeded |-> none, disruption |-> d]
    BY DEF LoadInit
  <2>2. stream = [s \in Streams |-> NoTransaction]
    BY DEF LoadInit
  <2>3. none \in [1..ClientThreads -> 0..SeedsPerThread] /\ \A t \in 1..ClientThreads : none[t] = 0
    BY Numbers
  <2> HIDE DEF none
  <2>4. load \in Loads
    BY <2>1, <2>3, Numbers DEF Loads
  <2>5. NoTransaction \in Transactions /\ NoTransaction.at = "none" /\ ~NoTransaction.bad
    BY DEF NoTransaction, Transactions
  <2>6. \A s \in Streams : stream[s] = NoTransaction
    BY <2>2
  <2>7. stream \in [Streams -> Transactions]
    BY <2>2, <2>5
  <2>8. \A s \in Streams : Orderly(stream[s])
    BY <2>5, <2>6 DEF Orderly
  <2>9. Cardinality(Running) = 0
    <3>1. Running = {}
      BY <2>5, <2>6 DEF Running
    <3> QED
      BY <3>1, FS_EmptySet
  <2>10. load.remaining = TotalIterations /\ load.completed = 0 /\ load.lost = 0 /\ load.seeded = none
    BY <2>1
  <2>11. Counted
    <3>1. 0 <= TotalIterations
      BY LoadAssumption DEF TotalIterations
    <3>2. Taken = 0
      BY <2>10, <3>1, Numbers DEF Taken
    <3> QED
      BY <2>9, <2>10, <3>2 DEF Counted
  <2>12. UnseededIdle
    BY <2>5, <2>6 DEF UnseededIdle
  <2>13. SeededBusy
    <3>1. \A s \in Streams : ~(s[2] <= load.seeded[s[1]])
      BY <2>3, <2>10, SlotOf, Numbers
    <3> QED
      BY <3>1 DEF SeededBusy
  <2> QED
    BY <2>4, <2>7, <2>8, <2>11, <2>12, <2>13 DEF LoadIInv
<1>2. LoadIInv /\ [LoadNext]_loadVars => LoadIInv'
  <2> SUFFICES ASSUME LoadIInv, [LoadNext]_loadVars PROVE LoadIInv'
    OBVIOUS
  <2>1. CASE \E t \in 1..ClientThreads : Seed(t)
    BY <2>1, SeedKeeps
  <2>2. CASE \E s \in Streams : BeginTransaction(s) \/ EndOfRequest(s)
    BY <2>2, BeginKeeps, EndOfRequestKeeps
  <2>3. CASE \E s \in Streams : EndOfResponse(s) \/ Fail(s)
    <3>1. PICK s \in Streams, ok \in BOOLEAN : EndTransaction(s, ok) /\ stream[s].at # "none"
      BY <2>3 DEF EndOfResponse, Fail
    <3> QED
      BY <3>1, EndKeeps
  <2>4. CASE \E s \in Streams, n \in Sizes : ProduceRequestBody(s, n) \/ ConsumeRequestBody(s, n)
    BY <2>4, ProduceRequestKeeps, ConsumeRequestKeeps
  <2>5. CASE \E s \in Streams, n \in Sizes : ProduceResponseBody(s, n) \/ ConsumeResponseBody(s, n)
    BY <2>5, ProduceResponseKeeps, ConsumeResponseKeeps
  <2>6. CASE UNCHANGED loadVars
    BY <2>6 DEF loadVars, LoadIInv, Counted, Taken, Running, UnseededIdle, SeededBusy
  <2> QED
    BY <2>1, <2>2, <2>3, <2>4, <2>5, <2>6 DEF LoadNext
<1> QED
  BY <1>1, <1>2, PTL DEF LoadSpec

(***************************************************************************)
(* Every body arrives as it was meant and every iteration is accounted     *)
(* for, for any number of threads, connections and requests, any sizes and *)
(* any disruptions, also after contexts were passed on and transactions    *)
(* failed.  (HttpLoadgenHandler, HttpOriginHandler)                        *)
(***************************************************************************)
THEOREM LoadAccounts == LoadSpec => []LoadIsAccountedFor
<1>1. LoadIInv => BodiesVerify
  BY DEF LoadIInv, Orderly, InRequest, InResponse, BodiesVerify
<1>2. LoadIInv => IterationsAreExact
  <2> SUFFICES ASSUME LoadIInv PROVE IterationsAreExact
    OBVIOUS
  <2>1. load \in Loads /\ Counted /\ SeededBusy
    BY DEF LoadIInv
  <2>2. load.remaining \in Int /\ load.completed \in Nat /\ load.lost \in Nat
    BY <2>1 DEF Loads
  <2>3. TotalIterations \in Int /\ Cardinality(Running) \in Nat
    BY Numbers, RunningFinite
  <2>4. load.completed + Cardinality(Running) + load.lost = Taken
    BY <2>1 DEF Counted
  <2>5. IsFinished => Running = {} /\ load.lost = 0
    <3> SUFFICES ASSUME TotalIterations <= load.completed PROVE Running = {} /\ load.lost = 0
      BY DEF IsFinished
    <3>1. Taken <= TotalIterations /\ Taken \in Int
      BY <2>2, <2>3 DEF Taken
    <3>2. Cardinality(Running) = 0 /\ load.lost = 0
      BY <2>2, <2>3, <2>4, <3>1
    <3> QED
      BY <3>2, RunningFinite, FS_EmptySet
  <2>6. ASSUME Running = {}, load.lost = 0, SeedsPerThread > 0,
               \A t \in 1..ClientThreads : load.seeded[t] = SeedsPerThread
        PROVE  IsFinished
    <3>1. <<1, 1>> \in Streams /\ 1 \in 1..ClientThreads
      BY <2>6, LoadAssumption, Numbers DEF Streams
    <3>2. stream[<<1, 1>>].at = "none"
      BY <2>6, <3>1 DEF Running
    <3>3. 1 <= load.seeded[1]
      BY <2>6, <3>1, Numbers
    <3>4. load.remaining < 0
      BY <2>1, <2>2, <2>6, <3>1, <3>2, <3>3 DEF SeededBusy
    <3>5. Cardinality(Running) = 0
      BY <2>6, FS_EmptySet
    <3>6. load.completed = TotalIterations
      BY <2>2, <2>3, <2>4, <2>6, <3>4, <3>5 DEF Taken
    <3> QED
      BY <2>3, <3>6 DEF IsFinished
  <2> QED
    BY <2>4, <2>5, <2>6 DEF IterationsAreExact, Taken
<1> QED
  BY <1>1, <1>2, LoadInvariance, PTL DEF LoadIsAccountedFor

-----------------------------------------------------------------------------
(***************************************************************************)
(* The servers (any number of threads, any listeners).  A thread is in     *)
(* run() only while the pool runs or stops, and only in a multiplexer that *)
(* is live; join() waits for them all, so none is left when destroy() is   *)
(* called.  The multiplexers are listed in the order start() makes them.   *)
(***************************************************************************)
MuxStates ==
    [object : {"none", "lost", "queued", "live", "destroyed"}, thread : BOOLEAN, loop : BOOLEAN,
     dead : BOOLEAN, queue : Seq(Listeners), listening : [Listeners -> Nat], open : Nat]

ServerStates ==
    [state : {"DESTROYED", "INITIALIZED", "STARTED", "STOPPED", "JOINED"},
     at : {"idle", "start", "leaving", "gone"}, made : 0..ServerThreads, listed : Seq(Nat),
     pool : {"none", "running", "stopping", "joined"}, listens : Nat, over : BOOLEAN]

ServerTypes ==
    /\ server \in ServerStates
    /\ mux \in [Muxes -> MuxStates]
    /\ opened \in [Muxes -> [accepted : Nat, stray : Nat, listening : [Listeners -> Nat]]]

\* How far the calls of the application's thread have come.
CallsInOrder ==
    /\ server.at = "start" => server.state = "INITIALIZED" /\ server.pool = "running"
    /\ server.state = "STARTED" => server.pool = "running"
    /\ server.state = "STOPPED" => server.pool = "stopping"
    /\ server.state = "JOINED" => server.pool = "joined"
    /\ server.state \in {"STARTED", "STOPPED", "JOINED"} => server.made = ServerThreads
    /\ server.state = "DESTROYED" /\ server.at # "gone" =>
         IF server.over THEN server.pool = "joined" ELSE server.pool = "none"
    /\ server.pool = "none" => server.made = 0 /\ server.listed = <<>>

\* The list holds the multiplexers made, in order, until destroy() or a failure.
ListedInOrder ==
    server.at = "start" \/ server.state \in {"STARTED", "STOPPED", "JOINED"} =>
        /\ Len(server.listed) = server.made
        /\ \A i \in 1..server.made : server.listed[i] = i

\* A thread runs only in a live multiplexer of a pool that is not joined, unless
\* the destructor has run.
ThreadsRunLive ==
    \A i \in Muxes :
        /\ mux[i].loop = mux[i].thread
        /\ mux[i].thread => /\ mux[i].object = "live" \/ server.at = "gone"
                            /\ server.pool \in {"running", "stopping"}
        /\ server.made < i /\ server.at # "gone" => mux[i].object = "none"

\* main's own destroy() takes everything; nothing is called after it.
OverMeansDestroyed ==
    server.over => /\ server.state = "DESTROYED" /\ server.at \in {"idle", "gone"}
                   /\ server.at = "idle" => \A i \in Muxes : mux[i].object = "destroyed"

ServerIInv ==
    /\ ServerTypes /\ CallsInOrder /\ ListedInOrder /\ ThreadsRunLive /\ OverMeansDestroyed
    /\ DescriptorsAreOwned

(***************************************************************************)
(* Initially no multiplexer exists.                                        *)
(***************************************************************************)
LEMMA ServerStarts == ServerInit => ServerIInv
<1> SUFFICES ASSUME ServerInit PROVE ServerIInv
  OBVIOUS
<1>1. NoMux \in MuxStates /\ NoMux.listening \in [Listeners -> Nat] /\ NoMux.open = 0
      /\ NoMux.object = "none" /\ NoMux.thread = FALSE /\ NoMux.loop = FALSE
  BY EmptySeq DEF NoMux, MuxStates
<1>2. server \in ServerStates
  BY ServersAssumption, EmptySeq DEF ServerInit, ServerStates
<1>3. \A i \in Muxes : mux[i] = NoMux /\ opened[i].accepted = 0 /\ opened[i].stray = 0
                       /\ opened[i].listening = NoMux.listening
  BY DEF ServerInit
<1>4. opened \in [Muxes -> [accepted : Nat, stray : Nat, listening : [Listeners -> Nat]]]
  BY <1>1 DEF ServerInit
<1>5. mux \in [Muxes -> MuxStates]
  BY <1>1 DEF ServerInit
<1>6. CallsInOrder /\ ListedInOrder
  BY DEF CallsInOrder, ListedInOrder, ServerInit
<1>10. OverMeansDestroyed
  BY DEF OverMeansDestroyed, ServerInit
<1>7. ThreadsRunLive
  BY <1>1, <1>3 DEF ThreadsRunLive
<1>8. DescriptorsAreOwned
  BY <1>1, <1>3 DEF DescriptorsAreOwned
<1> QED
  BY <1>2, <1>4, <1>5, <1>6, <1>7, <1>8, <1>10 DEF ServerIInv, ServerTypes

(***************************************************************************)
(* The calls that leave the multiplexers alone.                            *)
(***************************************************************************)
LEMMA CallKeeps ==
    ASSUME ServerIInv, Initialize \/ Fails \/ StartPool \/ Started \/ Stop \/ Join
    PROVE  ServerIInv'
<1> USE DEF ServerIInv, Idle
<1>1. mux' = mux /\ opened' = opened
  BY DEF Initialize, Fails, StartPool, Started, Stop, Join
<1>2. server' \in ServerStates
  <2>1. server \in ServerStates
    BY DEF ServerTypes
  <2>2. CASE server' = [server EXCEPT !.state = "INITIALIZED"]
    BY <2>1, <2>2 DEF ServerStates
  <2>3. CASE server' = [server EXCEPT !.at = "start", !.pool = "running"]
    BY <2>1, <2>3 DEF ServerStates
  <2>4. CASE server' = [server EXCEPT !.at = "idle", !.state = "STARTED"]
    BY <2>1, <2>4 DEF ServerStates
  <2>5. CASE server' = [server EXCEPT !.pool = "stopping", !.state = "STOPPED"]
    BY <2>1, <2>5 DEF ServerStates
  <2>6. CASE server' = [server EXCEPT !.state = "JOINED", !.pool = "joined"]
    BY <2>1, <2>6 DEF ServerStates
  <2>7. CASE server' = [server EXCEPT !.at = "leaving"]
    BY <2>1, <2>7 DEF ServerStates
  <2> QED
    BY <2>2, <2>3, <2>4, <2>5, <2>6, <2>7 DEF Initialize, Fails, StartPool, Started, Stop, Join
<1>3. ServerTypes'
  BY <1>1, <1>2 DEF ServerTypes
<1>4. DescriptorsAreOwned'
  BY <1>1 DEF DescriptorsAreOwned
<1>5. server.made' = server.made /\ server.listed' = server.listed
  BY DEF ServerTypes, ServerStates, Initialize, Fails, StartPool, Started, Stop, Join
<1>6. CallsInOrder'
  BY DEF CallsInOrder, ServerTypes, ServerStates, Initialize, Fails, StartPool, Started, Stop, Join
<1>7. ListedInOrder'
  <2>1. CASE StartPool
    <3>1. server.made = 0 /\ server.listed = <<>>
      BY <2>1 DEF StartPool, CallsInOrder
    <3> QED
      BY <1>5, <3>1 DEF ListedInOrder
  <2>2. CASE ~StartPool
    <3>1. server'.at = "start" \/ server'.state \in {"STARTED", "STOPPED", "JOINED"} =>
            server.at = "start" \/ server.state \in {"STARTED", "STOPPED", "JOINED"}
      BY <2>2 DEF ServerTypes, ServerStates, Initialize, Fails, StartPool, Started, Stop, Join
    <3> QED
      BY <1>5, <3>1 DEF ListedInOrder
  <2> QED
    BY <2>1, <2>2
<1>8. ThreadsRunLive'
  <2>0. server.at # "gone" /\ server'.at # "gone"
    BY DEF ServerTypes, ServerStates, Initialize, Fails, StartPool, Started, Stop, Join
  <2>1. \A i \in Muxes : mux[i].thread => server'.pool \in {"running", "stopping"}
    <3>1. CASE Join
      BY <3>1 DEF Join, ServerTypes, MuxStates
    <3>2. CASE ~Join
      <4>1. server.pool \in {"running", "stopping"} => server'.pool \in {"running", "stopping"}
        BY <3>2 DEF ServerTypes, ServerStates, Initialize, Fails, StartPool, Started, Stop, Join
      <4> QED
        BY <4>1 DEF ThreadsRunLive
    <3> QED
      BY <3>1, <3>2
  <2> QED
    BY <1>1, <1>5, <2>0, <2>1 DEF ThreadsRunLive
<1>9. OverMeansDestroyed'
  <2>1. ~server.over /\ server'.over = server.over
    BY DEF OverMeansDestroyed, ServerTypes, ServerStates, Initialize, Fails, StartPool, Started, Stop, Join
  <2> QED
    BY <2>1 DEF OverMeansDestroyed
<1> QED
  BY <1>3, <1>4, <1>6, <1>7, <1>8, <1>9

(***************************************************************************)
(* A turn of the loop in start() makes the next multiplexer, or fails.     *)
(***************************************************************************)
LEMMA StartMultiplexerKeeps ==
    ASSUME ServerIInv, StartMultiplexer
    PROVE  ServerIInv'
<1> USE DEF ServerIInv
<1> DEFINE k == server.made + 1
<1>1. k \in Muxes /\ server.at = "start" /\ opened' = opened
  BY ServersAssumption DEF StartMultiplexer, StartFails, ServerTypes, ServerStates, Muxes
<1>2. PICK object \in {"none", "lost", "queued"} : mux' = [mux EXCEPT ![k].object = object]
  BY DEF StartMultiplexer, StartFails
<1>3. server'.made = k /\ server' \in ServerStates /\ server'.pool = server.pool
      /\ server'.state = server.state
  <2>1. k \in 0..ServerThreads /\ server \in ServerStates
    BY <1>1, ServersAssumption DEF Muxes, ServerTypes
  <2> HIDE DEF k
  <2>2. CASE server' = [server EXCEPT !.at = "leaving", !.made = k]
    BY <2>1, <2>2 DEF ServerStates
  <2>3. CASE server' = [server EXCEPT !.made = k, !.listed = Append(@, k)]
    <3>1. server.listed \in Seq(Nat) /\ k \in Nat
      BY <2>1, ServersAssumption DEF ServerStates
    <3>2. Append(server.listed, k) \in Seq(Nat)
      BY <3>1, AppendProperties
    <3> QED
      BY <2>1, <2>3, <3>2 DEF ServerStates
  <2> QED
    BY <2>2, <2>3 DEF StartMultiplexer, StartFails, k
<1>4. server.state = "INITIALIZED" /\ server.pool = "running"
  BY <1>1 DEF CallsInOrder
<1>5. /\ mux' \in [Muxes -> MuxStates]
      /\ \A i \in Muxes : /\ mux'[i].thread = mux[i].thread /\ mux'[i].loop = mux[i].loop
                          /\ mux'[i].open = mux[i].open /\ mux'[i].listening = mux[i].listening
                          /\ i # k => mux'[i].object = mux[i].object
  <2> DEFINE m == [mux[k] EXCEPT !.object = object]
  <2>1. mux \in [Muxes -> MuxStates] /\ mux[k] \in MuxStates
    BY <1>1 DEF ServerTypes
  <2>2. mux' = [mux EXCEPT ![k] = m]
    BY <1>1, <1>2, <2>1
  <2>3. /\ m \in MuxStates /\ m.thread = mux[k].thread /\ m.loop = mux[k].loop
        /\ m.open = mux[k].open /\ m.listening = mux[k].listening
    BY <2>1 DEF MuxStates
  <2> HIDE DEF m, k
  <2> QED
    BY <1>1, <2>1, <2>2, <2>3
<1>6. ServerTypes' /\ DescriptorsAreOwned'
  BY <1>1, <1>3, <1>5 DEF ServerTypes, DescriptorsAreOwned
<1>7. CallsInOrder'
  BY <1>1, <1>3, <1>4 DEF CallsInOrder, ServerStates, StartMultiplexer, StartFails
<1>8. ListedInOrder'
  <2>1. CASE server'.at = "leaving"
    BY <2>1, <1>3, <1>4 DEF ListedInOrder
  <2>2. CASE server'.at # "leaving"
    <3>1. server'.listed = Append(server.listed, k)
      BY <2>2, <1>1 DEF StartMultiplexer, StartFails, ServerTypes, ServerStates
    <3>2. server.listed \in Seq(Nat) /\ server.made \in Nat
      BY ServersAssumption DEF ServerTypes, ServerStates
    <3>3. Len(server.listed) = server.made /\ \A i \in 1..server.made : server.listed[i] = i
      BY <1>1 DEF ListedInOrder
    <3>4. /\ Len(server'.listed) = Len(server.listed) + 1 /\ server'.listed[Len(server.listed) + 1] = k
          /\ \A i \in 1..Len(server.listed) : server'.listed[i] = server.listed[i]
      BY <3>1, <3>2, AppendProperties
    <3>5. \A i \in 1..k : server'.listed[i] = i
      BY <3>2, <3>3, <3>4
    <3> QED
      BY <1>3, <3>3, <3>4, <3>5 DEF ListedInOrder
  <2> QED
    BY <2>1, <2>2
<1>9. ThreadsRunLive'
  <2> SUFFICES ASSUME NEW i \in Muxes
               PROVE  /\ mux'[i].loop = mux'[i].thread
                      /\ mux'[i].thread => /\ mux'[i].object = "live" \/ server'.at = "gone"
                                           /\ server'.pool \in {"running", "stopping"}
                      /\ server'.made < i /\ server'.at # "gone" => mux'[i].object = "none"
    BY DEF ThreadsRunLive
  <2>1. mux[k].object = "none"
    BY <1>1 DEF ThreadsRunLive, ServerTypes, ServerStates, Muxes
  <2>2. ~mux[k].thread
    BY <2>1, <1>1 DEF ThreadsRunLive
  <2>3. CASE i = k
    BY <2>2, <2>3, <1>3, <1>5 DEF ThreadsRunLive, Muxes
  <2>4. CASE i # k
    <3>1. /\ mux'[i].thread = mux[i].thread /\ mux'[i].loop = mux[i].loop
          /\ mux'[i].object = mux[i].object /\ server.at # "gone"
      BY <2>4, <1>1, <1>5
    <3>2. server.made < k
      BY ServersAssumption DEF ServerTypes, ServerStates
    <3>3. mux[i].thread => mux[i].object = "live"
      BY <3>1 DEF ThreadsRunLive
    <3>4. server.made < i => mux[i].object = "none"
      BY <3>1 DEF ThreadsRunLive
    <3>5. k < i => server.made < i
      BY <3>2, ServersAssumption DEF ServerTypes, ServerStates, Muxes
    <3>6. mux[i].loop = mux[i].thread
      BY Zenon DEF ThreadsRunLive
    <3> HIDE DEF k
    <3> QED
      BY <1>3, <1>4, <3>1, <3>3, <3>4, <3>5, <3>6
  <2> QED
    BY <2>3, <2>4
<1>10. OverMeansDestroyed'
  <2>1. ~server.over /\ server'.over = server.over
    BY <1>1 DEF OverMeansDestroyed, StartMultiplexer, StartFails, ServerTypes, ServerStates
  <2> QED
    BY <2>1 DEF OverMeansDestroyed
<1> QED
  BY <1>6, <1>7, <1>8, <1>9, <1>10

(***************************************************************************)
(* addListener() and bind() start no thread and open no connection.        *)
(***************************************************************************)
LEMMA AddListenerKeeps ==
    ASSUME ServerIInv, NEW l \in Listeners, AddListener(l) \/ Bind(l)
    PROVE  ServerIInv'
<1> USE DEF ServerIInv
<1>1. CASE Bind(l)
  BY <1>1 DEF Bind, ServerTypes, CallsInOrder, ListedInOrder, ThreadsRunLive, OverMeansDestroyed,
               DescriptorsAreOwned
<1>2. CASE AddListener(l)
  <2>1. PICK n \in 0..ServerThreads :
           /\ mux' = [i \in Muxes |-> IF i <= n THEN [mux[i] EXCEPT !.queue = Append(@, l)] ELSE mux[i]]
           /\ server' = [server EXCEPT !.listens = @ + 1, !.at = IF n < ServerThreads THEN "leaving" ELSE @]
    BY <1>2, Zenon DEF AddListener
  <2>2. \A i \in Muxes :
           /\ mux'[i] \in MuxStates
           /\ mux'[i].thread = mux[i].thread /\ mux'[i].loop = mux[i].loop
           /\ mux'[i].object = mux[i].object
           /\ mux'[i].open = mux[i].open /\ mux'[i].listening = mux[i].listening
    <3> SUFFICES ASSUME NEW i \in Muxes
                 PROVE  /\ mux'[i] \in MuxStates
                        /\ mux'[i].thread = mux[i].thread /\ mux'[i].loop = mux[i].loop
                        /\ mux'[i].object = mux[i].object
                        /\ mux'[i].open = mux[i].open /\ mux'[i].listening = mux[i].listening
      OBVIOUS
    <3>1. mux[i] \in MuxStates
      BY DEF ServerTypes
    <3>2. Append(mux[i].queue, l) \in Seq(Listeners)
      BY <3>1, AppendProperties DEF MuxStates
    <3>3. [mux[i] EXCEPT !.queue = Append(@, l)] \in MuxStates
      BY <3>1, <3>2 DEF MuxStates
    <3>4. mux'[i] = IF i <= n THEN [mux[i] EXCEPT !.queue = Append(@, l)] ELSE mux[i]
      BY <2>1
    <3>5. mux'[i] \in MuxStates
      BY <3>1, <3>3, <3>4
    <3> QED
      BY <3>1, <3>4, <3>5 DEF MuxStates
  <2>3. mux' \in [Muxes -> MuxStates]
    <3>1. mux' = [i \in Muxes |-> mux'[i]]
      BY <2>1
    <3> QED
      BY <2>2, <3>1
  <2>4. /\ opened' = opened /\ server' \in ServerStates
        /\ server'.state = server.state /\ server.state = "STARTED" /\ server'.made = server.made
        /\ server'.listed = server.listed /\ server'.pool = server.pool /\ server'.over = server.over
        /\ server.at = "idle" /\ server'.at \in {"idle", "leaving"}
    <3>1. server \in ServerStates /\ opened' = opened /\ server.at = "idle" /\ server.state = "STARTED"
      <4>1. opened' = opened /\ Idle /\ server.state = "STARTED"
        BY <1>2, Zenon DEF AddListener
      <4> QED
        BY <4>1 DEF ServerTypes, Idle
    <3>2. server.listens + 1 \in Nat
      BY <3>1 DEF ServerStates
    <3>3. PICK w \in {"idle", "leaving"} : server' = [server EXCEPT !.listens = @ + 1, !.at = w]
      <4>1. CASE n < ServerThreads
        BY <2>1, <3>1, <4>1
      <4>2. CASE ~(n < ServerThreads)
        BY <2>1, <3>1, <4>2
      <4> QED
        BY <4>1, <4>2
    <3> QED
      BY <3>1, <3>2, <3>3 DEF ServerStates
  <2>5. ServerTypes' /\ DescriptorsAreOwned'
    BY <2>2, <2>3, <2>4 DEF ServerTypes, DescriptorsAreOwned
  <2>6. CallsInOrder'
    BY <2>4 DEF CallsInOrder
  <2>7. ListedInOrder'
    BY <2>4 DEF ListedInOrder
  <2>8. ThreadsRunLive'
    BY <2>2, <2>4 DEF ThreadsRunLive
  <2>9. OverMeansDestroyed'
    BY <2>4 DEF OverMeansDestroyed
  <2> QED
    BY <2>5, <2>6, <2>7, <2>8, <2>9
<1> QED
  BY <1>1, <1>2

(***************************************************************************)
(* main's own destroy() comes after join(): no thread is left in a         *)
(* multiplexer.  The destructor's comes at any time, and ends main.        *)
(***************************************************************************)
LEMMA DestroyKeeps ==
    ASSUME ServerIInv, Destroy \/ Destructor
    PROVE  ServerIInv'
<1> USE DEF ServerIInv
<1>1. PICK w \in {"idle", "gone"} :
        /\ w = "idle" => Idle /\ server.state = "JOINED"
        /\ w = "gone" => server.at = "leaving"
        /\ destroy(w)
  BY DEF Destroy, Destructor
<1>2. /\ server' \in ServerStates /\ server'.state = "DESTROYED" /\ server'.at = w
      /\ server'.made = server.made /\ server'.pool = server.pool /\ server'.over /\ opened' = opened
      /\ server'.listed = <<>>
  <2> DEFINE none == <<>>
  <2>1. none \in Seq(Nat) /\ server \in ServerStates
    BY EmptySeq DEF ServerTypes
  <2>2. /\ server' = [server EXCEPT !.state = "DESTROYED", !.listed = none, !.over = TRUE, !.at = w]
        /\ opened' = opened
    BY <1>1, Zenon DEF destroy
  <2>3. server'.listed = <<>> <=> server'.listed = none
    OBVIOUS
  <2> HIDE DEF none
  <2> QED
    BY <2>1, <2>2, <2>3 DEF ServerStates
<1>3. w = "idle" => server.pool = "joined" /\ server.made = ServerThreads
  BY <1>1 DEF CallsInOrder
<1>4. \A i \in Muxes :
         /\ mux'[i] \in MuxStates
         /\ mux'[i].thread = mux[i].thread /\ mux'[i].loop = mux[i].loop
         /\ mux'[i].open = mux[i].open /\ mux'[i].listening = mux[i].listening
         /\ i \notin ToSet(server.listed) => mux'[i].object = mux[i].object
         /\ i \in ToSet(server.listed) => mux'[i].object = "destroyed"
  <2> TAKE i \in Muxes
  <2> DEFINE none == <<>>
  <2>1. mux[i] \in MuxStates /\ none \in Seq(Listeners)
    BY EmptySeq DEF ServerTypes
  <2>2. mux'[i] = IF i \in ToSet(server.listed) THEN [mux[i] EXCEPT !.object = "destroyed", !.queue = none]
                  ELSE mux[i]
    BY <1>1, Zenon DEF destroy
  <2> HIDE DEF none
  <2>3. CASE i \in ToSet(server.listed)
    BY <2>1, <2>2, <2>3 DEF MuxStates
  <2>4. CASE i \notin ToSet(server.listed)
    BY <2>1, <2>2, <2>4
  <2> QED
    BY <2>3, <2>4
<1>5. mux' \in [Muxes -> MuxStates]
  <2>1. mux' = [i \in Muxes |-> mux'[i]]
    BY <1>1, Zenon DEF destroy
  <2> QED
    BY <1>4, <2>1
<1>6. ServerTypes' /\ DescriptorsAreOwned'
  BY <1>2, <1>4, <1>5 DEF ServerTypes, DescriptorsAreOwned
<1>7. ListedInOrder'
  BY <1>1, <1>2 DEF ListedInOrder
<1>8. CallsInOrder'
  <2>1. server.pool = "none" => server.made = 0
    BY DEF CallsInOrder
  <2> QED
    BY <1>1, <1>2, <1>3, <2>1 DEF CallsInOrder
<1>10. ThreadsRunLive'
  <2>1. CASE w = "idle"
    <3>1. \A i \in Muxes : ~mux[i].thread /\ ~mux[i].loop /\ ~(server.made < i)
      BY <1>3, <2>1, ServersAssumption DEF ThreadsRunLive, Muxes
    <3> QED
      BY <1>2, <1>4, <3>1 DEF ThreadsRunLive
  <2>2. CASE w = "gone"
    BY <1>2, <1>4, <2>2 DEF ThreadsRunLive
  <2> QED
    BY <2>1, <2>2
<1>11. OverMeansDestroyed'
  <2>1. ASSUME w = "idle", NEW i \in Muxes PROVE i \in ToSet(server.listed)
    <3>1. /\ server.listed \in Seq(Nat) /\ Len(server.listed) = ServerThreads
          /\ \A j \in 1..ServerThreads : server.listed[j] = j
      BY <1>1, <1>3, <2>1 DEF ListedInOrder, ServerTypes, ServerStates
    <3>2. i \in DOMAIN server.listed /\ server.listed[i] = i
      BY <3>1, LenProperties DEF Muxes
    <3> QED
      BY <3>2 DEF ToSet
  <2> QED
    BY <1>1, <1>2, <1>4, <2>1 DEF OverMeansDestroyed
<1> QED
  BY <1>6, <1>7, <1>8, <1>10, <1>11

(***************************************************************************)
(* A pool thread enters run().                                             *)
(***************************************************************************)
LEMMA RunKeeps ==
    ASSUME ServerIInv, NEW i \in Muxes, Run(i)
    PROVE  ServerIInv'
<1> USE DEF ServerIInv
<1>1. PICK r \in BOOLEAN :
         mux' = [mux EXCEPT ![i].object = "live", ![i].thread = r, ![i].loop = r]
  BY Zenon DEF Run
<1>2. /\ mux' \in [Muxes -> MuxStates]
      /\ mux'[i].object = "live" /\ mux'[i].thread = r /\ mux'[i].loop = r
      /\ \A j \in Muxes : /\ mux'[j].open = mux[j].open /\ mux'[j].listening = mux[j].listening
                          /\ j # i => mux'[j] = mux[j]
  <2>1. mux \in [Muxes -> MuxStates] /\ mux[i] \in MuxStates
    BY DEF ServerTypes
  <2> DEFINE m == [mux[i] EXCEPT !.object = "live", !.thread = r, !.loop = r]
  <2>2. mux' = [mux EXCEPT ![i] = m]
    BY <1>1, <2>1 DEF MuxStates
  <2>3. m \in MuxStates /\ m.object = "live" /\ m.thread = r /\ m.loop = r
        /\ m.open = mux[i].open /\ m.listening = mux[i].listening
    BY <2>1 DEF MuxStates
  <2> HIDE DEF m
  <2> QED
    BY <2>1, <2>2, <2>3
<1>3. server' = server /\ opened' = opened /\ server.pool = "running" /\ mux[i].object = "queued"
  BY DEF Run
<1>4. ServerTypes' /\ DescriptorsAreOwned' /\ CallsInOrder' /\ ListedInOrder'
  BY <1>2, <1>3 DEF ServerTypes, DescriptorsAreOwned, CallsInOrder, ListedInOrder
<1>5. ThreadsRunLive'
  BY <1>2, <1>3 DEF ThreadsRunLive
<1>6. OverMeansDestroyed'
  BY <1>2, <1>3 DEF OverMeansDestroyed
<1> QED
  BY <1>4, <1>5, <1>6

(***************************************************************************)
(* What a step of a multiplexer's thread has to show: only what it holds   *)
(* changes, and the process holds as much more or less.                    *)
(***************************************************************************)
LEMMA LoopStepKeeps ==
    ASSUME ServerIInv, NEW i \in Muxes, NEW m \in MuxStates,
           NEW o \in [accepted : Nat, stray : Nat, listening : [Listeners -> Nat]],
           server' = server, mux' = [mux EXCEPT ![i] = m], opened' = [opened EXCEPT ![i] = o],
           m.object = mux[i].object, m.loop = m.thread, m.thread => mux[i].thread,
           o.accepted = m.open + o.stray, o.listening = m.listening
    PROVE  ServerIInv'
<1> USE DEF ServerIInv
<1>1. /\ mux' \in [Muxes -> MuxStates] /\ mux'[i] = m /\ opened'[i] = o
      /\ opened' \in [Muxes -> [accepted : Nat, stray : Nat, listening : [Listeners -> Nat]]]
      /\ \A j \in Muxes : j # i => mux'[j] = mux[j] /\ opened'[j] = opened[j]
  BY DEF ServerTypes
<1>2. ServerTypes'
  BY <1>1 DEF ServerTypes
<1>3. DescriptorsAreOwned'
  BY <1>1 DEF DescriptorsAreOwned
<1>4. CallsInOrder' /\ ListedInOrder'
  BY DEF CallsInOrder, ListedInOrder
<1>5. ThreadsRunLive'
  BY <1>1 DEF ThreadsRunLive
<1>6. OverMeansDestroyed'
  BY <1>1 DEF OverMeansDestroyed
<1> QED
  BY <1>2, <1>3, <1>4, <1>5, <1>6

(***************************************************************************)
(* A command opens a listening socket of the multiplexer's own, or none.   *)
(***************************************************************************)
LEMMA RunCommandKeeps ==
    ASSUME ServerIInv, NEW i \in Muxes, RunCommand(i)
    PROVE  ServerIInv'
<1> USE DEF ServerIInv
<1> DEFINE q == mux[i].queue
           l == Head(q)
<1>1. mux[i] \in MuxStates /\ opened[i] \in [accepted : Nat, stray : Nat, listening : [Listeners -> Nat]]
  BY DEF ServerTypes
<1>2. q \in Seq(Listeners) /\ q # <<>>
  BY <1>1 DEF RunCommand, MuxStates
<1>3. l \in Listeners /\ Tail(q) \in Seq(Listeners)
  BY <1>2, HeadTailProperties
<1>4. PICK added \in BOOLEAN :
         /\ mux' = [mux EXCEPT ![i].queue = Tail(@), ![i].listening[l] = IF added THEN @ + 1 ELSE @]
         /\ opened' = [opened EXCEPT ![i].listening[l] = IF added THEN @ + 1 ELSE @]
  BY DEF RunCommand
<1> DEFINE f == [mux[i].listening EXCEPT ![l] = IF added THEN @ + 1 ELSE @]
           m == [mux[i] EXCEPT !.queue = Tail(q), !.listening = f]
           o == [opened[i] EXCEPT !.listening = f]
<1>5. opened[i].accepted = mux[i].open + opened[i].stray /\ opened[i].listening = mux[i].listening
  BY DEF DescriptorsAreOwned
<1>6. f \in [Listeners -> Nat]
  BY <1>1, <1>3 DEF MuxStates
<1>7. /\ m \in MuxStates /\ m.object = mux[i].object /\ m.loop = mux[i].loop /\ m.thread = mux[i].thread
      /\ m.open = mux[i].open /\ m.listening = f
  <2> HIDE DEF f, q
  <2> QED
    BY <1>1, <1>3, <1>6 DEF MuxStates
<1>8. /\ o \in [accepted : Nat, stray : Nat, listening : [Listeners -> Nat]]
      /\ o.accepted = opened[i].accepted /\ o.stray = opened[i].stray /\ o.listening = f
  <2> HIDE DEF f
  <2> QED
    BY <1>1, <1>6
<1>9. mux' = [mux EXCEPT ![i] = m]
  BY <1>1, <1>4 DEF ServerTypes, MuxStates
<1>10. opened' = [opened EXCEPT ![i] = o]
  BY <1>1, <1>4, <1>5 DEF ServerTypes
<1>11. server' = server /\ mux[i].loop = mux[i].thread
  BY DEF RunCommand, ThreadsRunLive
<1> HIDE DEF m, o, f
<1> QED
  BY <1>5, <1>7, <1>8, <1>9, <1>10, <1>11, LoopStepKeeps

(***************************************************************************)
(* An accepted descriptor is registered, closed or counted as stray.       *)
(***************************************************************************)
LEMMA HandleAcceptKeeps ==
    ASSUME ServerIInv, NEW i \in Muxes, HandleAccept(i)
    PROVE  ServerIInv'
<1> USE DEF ServerIInv
<1>1. mux[i] \in MuxStates /\ opened[i] \in [accepted : Nat, stray : Nat, listening : [Listeners -> Nat]]
  BY DEF ServerTypes
<1>2. opened[i].accepted = mux[i].open + opened[i].stray /\ opened[i].listening = mux[i].listening
  BY DEF DescriptorsAreOwned
<1>3. mux[i].open \in Nat /\ opened[i].stray \in Nat /\ opened[i].accepted \in Nat
  BY <1>1 DEF MuxStates
<1>4. PICK c \in accepted(i) :
         /\ mux' = [mux EXCEPT ![i].open = c[1]]
         /\ opened' = [opened EXCEPT ![i].accepted = c[2], ![i].stray = c[3]]
  BY DEF HandleAccept
<1>5. c[1] \in Nat /\ c[2] \in Nat /\ c[3] \in Nat /\ c[2] = c[1] + c[3]
  BY <1>2, <1>3 DEF accepted
<1> DEFINE m == [mux[i] EXCEPT !.open = c[1]]
           o == [opened[i] EXCEPT !.accepted = c[2], !.stray = c[3]]
<1>7. /\ m \in MuxStates /\ m.object = mux[i].object /\ m.loop = mux[i].loop /\ m.thread = mux[i].thread
      /\ m.open = c[1] /\ m.listening = mux[i].listening
  BY <1>1, <1>5 DEF MuxStates
<1>8. /\ o \in [accepted : Nat, stray : Nat, listening : [Listeners -> Nat]]
      /\ o.accepted = c[2] /\ o.stray = c[3] /\ o.listening = opened[i].listening
  BY <1>1, <1>5
<1>9. mux' = [mux EXCEPT ![i] = m]
  BY <1>1, <1>4 DEF ServerTypes, MuxStates
<1>10. opened' = [opened EXCEPT ![i] = o]
  BY <1>1, <1>4 DEF ServerTypes
<1>11. server' = server /\ mux[i].loop = mux[i].thread
  BY DEF HandleAccept, ThreadsRunLive
<1> HIDE DEF m, o
<1> QED
  BY <1>2, <1>5, <1>7, <1>8, <1>9, <1>10, <1>11, LoopStepKeeps

(***************************************************************************)
(* A listening socket or a connection is removed, and its descriptor       *)
(* closed.                                                                 *)
(***************************************************************************)
LEMMA RemovalKeeps ==
    ASSUME ServerIInv, NEW i \in Muxes, AcceptFails(i) \/ ConnectionEnds(i)
    PROVE  ServerIInv'
<1> USE DEF ServerIInv
<1>1. mux[i] \in MuxStates /\ opened[i] \in [accepted : Nat, stray : Nat, listening : [Listeners -> Nat]]
  BY DEF ServerTypes
<1>2. opened[i].accepted = mux[i].open + opened[i].stray /\ opened[i].listening = mux[i].listening
  BY DEF DescriptorsAreOwned
<1>3. mux[i].open \in Nat /\ opened[i].stray \in Nat /\ opened[i].accepted \in Nat
      /\ mux[i].listening \in [Listeners -> Nat]
  BY <1>1 DEF MuxStates
<1>4. server' = server /\ mux[i].loop = mux[i].thread
  BY DEF AcceptFails, ConnectionEnds, ThreadsRunLive
<1>5. CASE AcceptFails(i)
  <2>1. PICK l \in Listeners :
           /\ mux[i].listening[l] > 0
           /\ mux' = [mux EXCEPT ![i].listening[l] = @ - 1]
           /\ opened' = [opened EXCEPT ![i].listening[l] = @ - 1]
    BY <1>5 DEF AcceptFails
  <2> DEFINE f == [mux[i].listening EXCEPT ![l] = @ - 1]
             m == [mux[i] EXCEPT !.listening = f]
             o == [opened[i] EXCEPT !.listening = f]
  <2>2. f \in [Listeners -> Nat]
    <3>1. mux[i].listening[l] - 1 \in Nat
      BY <1>3, <2>1
    <3> QED
      BY <1>3, <3>1
  <2>3. mux' = [mux EXCEPT ![i] = m]
    BY <1>1, <2>1 DEF ServerTypes, MuxStates
  <2>4. opened' = [opened EXCEPT ![i] = o]
    BY <1>1, <1>2, <2>1 DEF ServerTypes
  <2> HIDE DEF f
  <2>5. /\ m \in MuxStates /\ m.object = mux[i].object /\ m.loop = mux[i].loop /\ m.thread = mux[i].thread
        /\ m.open = mux[i].open /\ m.listening = f
    BY <1>1, <2>2 DEF MuxStates
  <2>6. /\ o \in [accepted : Nat, stray : Nat, listening : [Listeners -> Nat]]
        /\ o.accepted = opened[i].accepted /\ o.stray = opened[i].stray /\ o.listening = f
    BY <1>1, <2>2
  <2> HIDE DEF m, o
  <2> QED
    BY <1>2, <1>4, <2>3, <2>4, <2>5, <2>6, LoopStepKeeps
<1>6. CASE ConnectionEnds(i)
  <2>1. /\ mux[i].open > 0 /\ mux' = [mux EXCEPT ![i].open = @ - 1]
        /\ opened' = [opened EXCEPT ![i].accepted = @ - 1]
    BY <1>6 DEF ConnectionEnds
  <2>2. mux[i].open - 1 \in Nat /\ opened[i].accepted - 1 \in Nat
        /\ opened[i].accepted - 1 = (mux[i].open - 1) + opened[i].stray
    BY <1>2, <1>3, <2>1
  <2> DEFINE m == [mux[i] EXCEPT !.open = mux[i].open - 1]
             o == [opened[i] EXCEPT !.accepted = opened[i].accepted - 1]
  <2>3. mux' = [mux EXCEPT ![i] = m]
    BY <1>1, <2>1 DEF ServerTypes, MuxStates
  <2>4. opened' = [opened EXCEPT ![i] = o]
    BY <1>1, <2>1 DEF ServerTypes
  <2>5. /\ m \in MuxStates /\ m.object = mux[i].object /\ m.loop = mux[i].loop /\ m.thread = mux[i].thread
        /\ m.open = mux[i].open - 1 /\ m.listening = mux[i].listening
    BY <1>1, <2>2 DEF MuxStates
  <2>6. /\ o \in [accepted : Nat, stray : Nat, listening : [Listeners -> Nat]]
        /\ o.accepted = opened[i].accepted - 1 /\ o.stray = opened[i].stray
        /\ o.listening = opened[i].listening
    BY <1>1, <2>2
  <2> HIDE DEF m, o
  <2> QED
    BY <1>2, <1>4, <2>2, <2>3, <2>4, <2>5, <2>6, LoopStepKeeps
<1> QED
  BY <1>5, <1>6

(***************************************************************************)
(* The loop ends: everything the multiplexer held is closed, and what is   *)
(* left open are the strays.                                               *)
(***************************************************************************)
LEMMA LoopEndsKeeps ==
    ASSUME ServerIInv, NEW i \in Muxes, LoopEnds(i)
    PROVE  ServerIInv'
<1> USE DEF ServerIInv
<1>1. mux[i] \in MuxStates /\ opened[i] \in [accepted : Nat, stray : Nat, listening : [Listeners -> Nat]]
  BY DEF ServerTypes
<1>2. opened[i].accepted = mux[i].open + opened[i].stray /\ opened[i].listening = mux[i].listening
  BY DEF DescriptorsAreOwned
<1>3. mux[i].open \in Nat /\ opened[i].stray \in Nat /\ opened[i].accepted \in Nat
      /\ mux[i].listening \in [Listeners -> Nat]
  BY <1>1 DEF MuxStates
<1> DEFINE none == NoMux.listening
           left == [l \in Listeners |-> opened[i].listening[l] - mux[i].listening[l]]
           m == [mux[i] EXCEPT !.thread = FALSE, !.loop = FALSE, !.dead = TRUE,
                               !.queue = <<>>, !.listening = none, !.open = 0]
           o == [opened[i] EXCEPT !.accepted = opened[i].accepted - mux[i].open, !.listening = left]
<1>4. none \in [Listeners -> Nat] /\ \A l \in Listeners : none[l] = 0
  BY DEF NoMux
<1>5. left = none
  <2>1. none = [l \in Listeners |-> 0]
    BY DEF NoMux
  <2>2. \A l \in Listeners : opened[i].listening[l] - mux[i].listening[l] = 0
    BY <1>2, <1>3
  <2> QED
    BY <2>1, <2>2
<1>6. mux' = [mux EXCEPT ![i] = m]
  BY DEF LoopEnds
<1>7. opened' = [opened EXCEPT ![i] = o]
  BY <1>1 DEF LoopEnds, ServerTypes
<1>8. opened[i].accepted - mux[i].open = opened[i].stray
  BY <1>2, <1>3
<1> HIDE DEF none, left
<1>9. /\ m \in MuxStates /\ m.object = mux[i].object /\ m.loop = FALSE /\ m.thread = FALSE
      /\ m.open = 0 /\ m.listening = none
  BY <1>1, <1>4, EmptySeq DEF MuxStates
<1>10. /\ o \in [accepted : Nat, stray : Nat, listening : [Listeners -> Nat]]
       /\ o.accepted = opened[i].stray /\ o.stray = opened[i].stray /\ o.listening = none
  BY <1>1, <1>3, <1>4, <1>5, <1>8
<1>11. server' = server
  BY DEF LoopEnds
<1>12. o.accepted = m.open + o.stray
  BY <1>3, <1>9, <1>10
<1> HIDE DEF m, o
<1> QED
  BY <1>6, <1>7, <1>9, <1>10, <1>11, <1>12, LoopStepKeeps

(***************************************************************************)
(* The strengthened invariant holds of every behaviour.                    *)
(***************************************************************************)
THEOREM ServerInvariance == ServerSpec => []ServerIInv
<1>1. ServerIInv /\ [ServerNext]_serverVars => ServerIInv'
  <2> SUFFICES ASSUME ServerIInv, [ServerNext]_serverVars PROVE ServerIInv'
    OBVIOUS
  <2>1. CASE Initialize \/ Fails \/ StartPool \/ Started \/ Stop \/ Join
    BY <2>1, CallKeeps
  <2>2. CASE StartMultiplexer
    BY <2>2, StartMultiplexerKeeps
  <2>3. CASE Destroy \/ Destructor
    BY <2>3, DestroyKeeps
  <2>4. CASE \E l \in Listeners : Bind(l) \/ AddListener(l)
    BY <2>4, AddListenerKeeps
  <2>5. CASE \E i \in Muxes : Run(i)
    BY <2>5, RunKeeps
  <2>6. CASE \E i \in Muxes : RunCommand(i)
    BY <2>6, RunCommandKeeps
  <2>7. CASE \E i \in Muxes : HandleAccept(i)
    BY <2>7, HandleAcceptKeeps
  <2>8. CASE \E i \in Muxes : AcceptFails(i) \/ ConnectionEnds(i)
    BY <2>8, RemovalKeeps
  <2>9. CASE \E i \in Muxes : LoopEnds(i)
    BY <2>9, LoopEndsKeeps
  <2>10. CASE UNCHANGED serverVars
    BY <2>10 DEF serverVars, ServerIInv, ServerTypes, CallsInOrder, ListedInOrder, ThreadsRunLive,
                 OverMeansDestroyed, DescriptorsAreOwned
  <2> QED
    BY <2>1, <2>2, <2>3, <2>4, <2>5, <2>6, <2>7, <2>8, <2>9, <2>10 DEF ServerNext
<1> QED
  BY <1>1, ServerStarts, PTL DEF ServerSpec

(***************************************************************************)
(* With any number of threads and listeners, whatever fails: unless main   *)
(* returned early and left the rest to the destructor, no multiplexer is   *)
(* destroyed under its thread and none is left; a started server has a     *)
(* multiplexer for every index, and the descriptors are accounted for.     *)
(* (HttpServer::start to destroy, ~HttpServer, addServerSocket)            *)
(***************************************************************************)
THEOREM ServersAreSound == ServerSpec => []ServerIsSound
<1>1. ServerIInv => ServerIsSound
  <2> SUFFICES ASSUME ServerIInv PROVE ServerIsSound
    OBVIOUS
  <2>1. OrderlyShutdown
    BY DEF ServerIInv, ThreadsRunLive, OverMeansDestroyed, MultiplexerOutlivesItsThread, OrderlyShutdown
  <2>2. StartedHasEveryMultiplexer
    <3> SUFFICES ASSUME server.state = "STARTED" PROVE server.listed = [i \in Muxes |-> i]
      BY DEF StartedHasEveryMultiplexer
    <3>1. server.listed \in Seq(Nat) /\ ServerThreads \in Nat
      BY ServersAssumption DEF ServerIInv, ServerTypes, ServerStates
    <3>2. Len(server.listed) = ServerThreads /\ \A i \in 1..ServerThreads : server.listed[i] = i
      BY DEF ServerIInv, CallsInOrder, ListedInOrder
    <3>3. DOMAIN server.listed = Muxes /\ server.listed = [i \in DOMAIN server.listed |-> server.listed[i]]
      BY <3>1, <3>2, LenProperties, SeqDef DEF Muxes
    <3> QED
      BY <3>2, <3>3 DEF Muxes
  <2> QED
    BY <2>1, <2>2 DEF ServerIInv, ServerIsSound
<1> QED
  BY <1>1, ServerInvariance, PTL

-----------------------------------------------------------------------------
(***************************************************************************)
(* Sequences in which nothing occurs twice.                                *)
(***************************************************************************)
Distinct(s) == \A i, j \in 1..Len(s) : s[i] = s[j] => i = j

(***************************************************************************)
(* Such a sequence without its k-th element.                               *)
(***************************************************************************)
LEMMA WithoutOne ==
    ASSUME NEW S, NEW s \in Seq(S), Distinct(s), NEW k \in 1..Len(s)
    PROVE  LET t == RemoveAt(s, k) IN
           /\ t \in Seq(S) /\ Len(t) = Len(s) - 1
           /\ \A i \in 1..Len(t) : t[i] = IF i < k THEN s[i] ELSE s[i + 1]
           /\ Distinct(t) /\ Range(t) = Range(s) \ {s[k]}
<1> DEFINE t == RemoveAt(s, k)
           a == SubSeq(s, 1, k - 1)
           b == SubSeq(s, k + 1, Len(s))
<1>1. Len(s) \in Nat /\ DOMAIN s = 1..Len(s)
  BY LenProperties
<1>2. t = a \o b
  BY DEF RemoveAt
<1>3. /\ a \in Seq(S) /\ Len(a) = k - 1
      /\ \A i \in 1..(k - 1) : a[i] = s[i]
  <2>1. a \in Seq(S) /\ Len(a) = IF 1 <= k - 1 THEN (k - 1) - 1 + 1 ELSE 0
    <3>1. \A i \in 1..(k - 1) : s[i] \in S
      BY <1>1, ElementOfSeq
    <3> QED
      BY <1>1, <3>1, SubSeqProperties
  <2>2. \A i \in 1..(k - 1) : a[i] = s[1 + i - 1]
    BY <1>1, SubSeqProperties
  <2> HIDE DEF a
  <2> QED
    BY <1>1, <2>1, <2>2
<1>4. /\ b \in Seq(S) /\ Len(b) = Len(s) - k
      /\ \A i \in 1..(Len(s) - k) : b[i] = s[k + i]
  <2>1. b \in Seq(S) /\ Len(b) = IF k + 1 <= Len(s) THEN Len(s) - (k + 1) + 1 ELSE 0
    BY <1>1, SubSeqProperties
  <2>2. \A i \in 1..(Len(s) - (k + 1) + 1) : b[i] = s[(k + 1) + i - 1]
    BY <1>1, SubSeqProperties
  <2> HIDE DEF b
  <2>3. Len(s) \in Nat /\ k \in 1..Len(s)
    BY <1>1
  <2>4. Len(b) = Len(s) - k
    BY <2>1, <2>3
  <2>5. ASSUME NEW i \in 1..(Len(s) - k) PROVE b[i] = s[k + i]
    <3>1. i \in 1..(Len(s) - (k + 1) + 1) /\ (k + 1) + i - 1 = k + i
      BY <2>3
    <3> QED
      BY <2>2, <3>1
  <2> QED
    BY <2>1, <2>4, <2>5
<1>5. /\ a \o b \in Seq(S) /\ Len(a \o b) = Len(a) + Len(b)
      /\ \A i \in 1..(Len(a) + Len(b)) : (a \o b)[i] = IF i <= Len(a) THEN a[i] ELSE b[i - Len(a)]
  <2> HIDE DEF a, b
  <2> QED
    BY <1>3, <1>4, ConcatProperties
<1> HIDE DEF a, b, t
<1>6. t \in Seq(S) /\ Len(t) = Len(s) - 1
  BY <1>1, <1>2, <1>3, <1>4, <1>5
<1>7. ASSUME NEW i \in 1..Len(t) PROVE t[i] = IF i < k THEN s[i] ELSE s[i + 1]
  <2>1. i \in 1..(Len(a) + Len(b)) /\ i \in Nat
    BY <1>1, <1>3, <1>4, <1>6
  <2>2. t[i] = IF i <= k - 1 THEN a[i] ELSE b[i - (k - 1)]
    BY <1>2, <1>3, <1>5, <2>1
  <2>3. CASE i < k
    BY <1>1, <1>3, <2>1, <2>2, <2>3
  <2>4. CASE ~(i < k)
    <3>1. i - (k - 1) \in 1..(Len(s) - k) /\ k + (i - (k - 1)) = i + 1
      BY <1>1, <1>6, <2>1, <2>4
    <3>2. b[i - (k - 1)] = s[i + 1]
      BY <1>4, <3>1
    <3> QED
      BY <1>1, <2>1, <2>2, <2>4, <3>2
  <2> QED
    BY <2>3, <2>4
<1>8. Distinct(t)
  <2> SUFFICES ASSUME NEW i \in 1..Len(t), NEW j \in 1..Len(t), t[i] = t[j] PROVE i = j
    BY DEF Distinct
  <2> QED
    BY <1>1, <1>6, <1>7 DEF Distinct
<1>9. Range(t) = Range(s) \ {s[k]}
  <2>1. DOMAIN t = 1..Len(t)
    BY <1>6, LenProperties
  <2>2. ASSUME NEW i \in 1..Len(t) PROVE t[i] \in Range(s) /\ t[i] # s[k]
    <3>1. i \in 1..Len(s) /\ i + 1 \in 1..Len(s)
      BY <1>1, <1>6
    <3> QED
      BY <1>1, <1>7, <3>1 DEF Range, Distinct
  <2>3. ASSUME NEW j \in 1..Len(s), s[j] # s[k] PROVE s[j] \in Range(t)
    <3>1. CASE j < k
      <4>1. j \in 1..Len(t) /\ t[j] = s[j]
        BY <1>1, <1>6, <1>7, <3>1
      <4> QED
        BY <2>1, <4>1 DEF Range
    <3>2. CASE j > k
      <4>1. j - 1 \in 1..Len(t) /\ ~(j - 1 < k) /\ (j - 1) + 1 = j
        BY <1>1, <1>6, <3>2
      <4>2. t[j - 1] = s[j]
        BY <1>7, <4>1
      <4> QED
        BY <2>1, <4>1, <4>2 DEF Range
    <3> QED
      BY <1>1, <2>3, <3>1, <3>2
  <2> QED
    BY <1>1, <2>1, <2>2, <2>3 DEF Range
<1> QED
  BY <1>6, <1>7, <1>8, <1>9 DEF t

(***************************************************************************)
(* Two such sequences with nothing in common, one after the other.         *)
(***************************************************************************)
LEMMA Joined ==
    ASSUME NEW S, NEW a \in Seq(S), NEW b \in Seq(S), Distinct(a), Distinct(b),
           Range(a) \cap Range(b) = {}
    PROVE  a \o b \in Seq(S) /\ Distinct(a \o b) /\ Range(a \o b) = Range(a) \cup Range(b)
<1> DEFINE t == a \o b
<1>1. Len(a) \in Nat /\ Len(b) \in Nat /\ DOMAIN a = 1..Len(a) /\ DOMAIN b = 1..Len(b)
  BY LenProperties
<1>2. /\ t \in Seq(S) /\ Len(t) = Len(a) + Len(b)
      /\ \A i \in 1..(Len(a) + Len(b)) : t[i] = IF i <= Len(a) THEN a[i] ELSE b[i - Len(a)]
  BY ConcatProperties
<1>3. DOMAIN t = 1..Len(t)
  BY <1>2, LenProperties
<1> HIDE DEF t
<1>4. ASSUME NEW i \in 1..Len(t)
      PROVE  \/ i \in 1..Len(a) /\ t[i] = a[i] /\ t[i] \in Range(a)
             \/ i - Len(a) \in 1..Len(b) /\ t[i] = b[i - Len(a)] /\ t[i] \in Range(b) /\ i \in Nat
  <2>1. i \in 1..(Len(a) + Len(b))
    BY <1>2
  <2>2. i \in 1..Len(a) \/ (i - Len(a) \in 1..Len(b) /\ ~(i <= Len(a)) /\ i \in Nat)
    BY <1>1, <2>1
  <2>3. t[i] = IF i <= Len(a) THEN a[i] ELSE b[i - Len(a)]
    BY <1>2, <2>1
  <2>4. i \in 1..Len(a) => i <= Len(a)
    BY <1>1
  <2> QED
    BY <1>1, <2>2, <2>3, <2>4 DEF Range
<1>5. Distinct(t)
  <2> SUFFICES ASSUME NEW i \in 1..Len(t), NEW j \in 1..Len(t), t[i] = t[j] PROVE i = j
    BY DEF Distinct
  <2>1. CASE i \in 1..Len(a) /\ j \in 1..Len(a) /\ a[i] = a[j]
    BY <2>1 DEF Distinct
  <2>2. CASE /\ i - Len(a) \in 1..Len(b) /\ j - Len(a) \in 1..Len(b) /\ i \in Nat /\ j \in Nat
             /\ b[i - Len(a)] = b[j - Len(a)]
    <3>1. i - Len(a) = j - Len(a)
      BY <2>2 DEF Distinct
    <3> QED
      BY <1>1, <2>2, <3>1
  <2> QED
    BY <1>4, <2>1, <2>2
<1>6. ASSUME NEW i \in 1..Len(a) PROVE a[i] \in Range(t)
  <2>1. i \in 1..(Len(a) + Len(b)) /\ i <= Len(a)
    BY <1>1
  <2> QED
    BY <1>2, <1>3, <2>1 DEF Range
<1>7. ASSUME NEW i \in 1..Len(b) PROVE b[i] \in Range(t)
  <2>1. i + Len(a) \in 1..(Len(a) + Len(b)) /\ ~(i + Len(a) <= Len(a)) /\ (i + Len(a)) - Len(a) = i
    BY <1>1
  <2> QED
    BY <1>2, <1>3, <2>1 DEF Range
<1>8. Range(t) = Range(a) \cup Range(b)
  BY <1>1, <1>3, <1>4, <1>6, <1>7 DEF Range
<1> QED
  BY <1>2, <1>5, <1>8 DEF t

\* t is the sequence s with one more element c.
Extended(S, s, c, t) == t \in Seq(S) /\ Distinct(t) /\ Range(t) = Range(s) \cup {c}

(***************************************************************************)
(* A new element at either end.                                            *)
(***************************************************************************)
LEMMA OneMore ==
    ASSUME NEW S, NEW s \in Seq(S), Distinct(s), NEW c \in S, c \notin Range(s)
    PROVE  Extended(S, s, c, <<c>> \o s) /\ Extended(S, s, c, Append(s, c))
<1> DEFINE o == <<c>>
<1>1. o \in Seq(S) /\ Len(o) = 1 /\ o[1] = c
  OBVIOUS
<1>2. Append(s, c) = s \o o
  BY AppendIsConcat
<1> HIDE DEF o
<1>3. Distinct(o)
  BY <1>1 DEF Distinct
<1>4. Range(o) = {c}
  <2>1. DOMAIN o = 1..1
    BY <1>1, LenProperties
  <2> QED
    BY <1>1, <2>1 DEF Range
<1>5. Range(o) \cap Range(s) = {} /\ Range(s) \cap Range(o) = {}
  BY <1>4
<1>6. o \o s \in Seq(S) /\ Distinct(o \o s) /\ Range(o \o s) = Range(s) \cup {c}
  BY <1>1, <1>3, <1>4, <1>5, Joined
<1>7. s \o o \in Seq(S) /\ Distinct(s \o o) /\ Range(s \o o) = Range(s) \cup {c}
  BY <1>1, <1>3, <1>4, <1>5, Joined
<1> QED
  BY <1>2, <1>6, <1>7 DEF o, Extended

(***************************************************************************)
(* Without the last element.                                               *)
(***************************************************************************)
LEMMA WithoutLast ==
    ASSUME NEW S, NEW s \in Seq(S), Distinct(s), s # <<>>
    PROVE  /\ Last(s) \in S /\ Last(s) \in Range(s)
           /\ Front(s) \in Seq(S) /\ Distinct(Front(s)) /\ Range(Front(s)) = Range(s) \ {Last(s)}
<1> DEFINE t == Front(s)
<1>1. Len(s) \in Nat /\ Len(s) # 0 /\ DOMAIN s = 1..Len(s)
  BY LenProperties, EmptySeq
<1>2. Last(s) = s[Len(s)] /\ Len(s) \in 1..Len(s)
  BY <1>1 DEF Last
<1>3. t \in Seq(S) /\ Len(t) = Len(s) - 1 /\ \A i \in 1..Len(t) : t[i] = s[i]
  <2> DEFINE u == SubSeq(s, 1, Len(s) - 1)
  <2>1. u \in Seq(S) /\ Len(u) = IF 1 <= Len(s) - 1 THEN (Len(s) - 1) - 1 + 1 ELSE 0
    BY <1>1, SubSeqProperties, ElementOfSeq
  <2>2. \A i \in 1..((Len(s) - 1) - 1 + 1) : u[i] = s[1 + i - 1]
    BY <1>1, SubSeqProperties
  <2>3. t = u
    BY DEF Front
  <2> HIDE DEF u, t
  <2>4. Len(u) = Len(s) - 1
    <3>1. Len(s) \in Nat /\ Len(s) # 0 /\ Len(u) = IF 1 <= Len(s) - 1 THEN (Len(s) - 1) - 1 + 1 ELSE 0
      BY <1>1, <2>1
    <3>2. \A x, y : y \in Nat /\ y # 0 /\ x = (IF 1 <= y - 1 THEN (y - 1) - 1 + 1 ELSE 0) => x = y - 1
      OBVIOUS
    <3> QED
      BY <3>1, <3>2
  <2>5. \A i \in 1..Len(u) : u[i] = s[i]
    BY <1>1, <2>2, <2>4
  <2> QED
    BY <2>1, <2>3, <2>4, <2>5
<1>4. DOMAIN t = 1..Len(t)
  BY <1>3, LenProperties
<1> HIDE DEF t
<1>5. /\ \A i \in 1..Len(t) : i \in 1..Len(s) /\ i # Len(s)
      /\ \A i \in 1..Len(s) : i \in 1..Len(t) \/ i = Len(s)
  <2>1. Len(s) \in Nat /\ Len(s) # 0 /\ Len(t) = Len(s) - 1
    BY <1>1, <1>3
  <2> QED
    BY <2>1
<1>7. Distinct(t)
  BY <1>3, <1>5 DEF Distinct
<1>8. Range(t) = Range(s) \ {s[Len(s)]}
  <2>1. \A i \in 1..Len(t) : t[i] \in Range(s) /\ t[i] # s[Len(s)]
    BY <1>1, <1>2, <1>3, <1>5 DEF Range, Distinct
  <2>2. \A i \in 1..Len(s) : s[i] # s[Len(s)] => s[i] \in Range(t)
    BY <1>3, <1>4, <1>5 DEF Range
  <2> QED
    BY <1>1, <1>4, <2>1, <2>2 DEF Range
<1>9. Last(s) \in S /\ Last(s) \in Range(s)
  BY <1>1, <1>2, ElementOfSeq DEF Range
<1> QED
  BY <1>2, <1>3, <1>7, <1>8, <1>9 DEF t

-----------------------------------------------------------------------------
(***************************************************************************)
(* The linked lists (any set of nodes).  What each operation does to the   *)
(* pointers is stated pointwise, and then compared with what it does to    *)
(* the sequence the caller believes in, in which no node occurs twice.     *)
(***************************************************************************)
Links == ListNodes \cup {nil}

ListRecords ==
    [head : Links, tail : Links, size : Int, order : Seq(ListNodes), it : Links, torn : BOOLEAN,
     prev : [ListNodes -> Links], next : [ListNodes -> Links]]

\* A list whose pointers are its order.
Threaded(l) == l \in ListRecords /\ Distinct(l.order) /\ Linked(l)

\* r is the list l with the node n put first, put last or taken out: pointer by pointer.
PutFirst(l, n, r) ==
    /\ r.head = n /\ r.tail = IF l.head = nil THEN n ELSE l.tail
    /\ r.next[n] = l.head /\ r.prev[n] = nil
    /\ \A m \in ListNodes : m # n => /\ r.next[m] = l.next[m]
                                     /\ r.prev[m] = IF m = l.head THEN n ELSE l.prev[m]

PutLast(l, n, r) ==
    /\ r.tail = n /\ r.head = IF l.tail = nil THEN n ELSE l.head
    /\ r.prev[n] = l.tail /\ r.next[n] = nil
    /\ \A m \in ListNodes : m # n => /\ r.prev[m] = l.prev[m]
                                     /\ r.next[m] = IF m = l.tail THEN n ELSE l.next[m]

TakenOut(l, n, r) ==
    /\ r.head = IF l.prev[n] = nil THEN l.next[n] ELSE l.head
    /\ r.tail = IF l.next[n] = nil THEN l.prev[n] ELSE l.tail
    /\ \A m \in ListNodes : m # n => /\ r.next[m] = IF m = l.prev[n] THEN l.next[n] ELSE l.next[m]
                                     /\ r.prev[m] = IF m = l.next[n] THEN l.prev[n] ELSE l.prev[m]

\* A List of the right size whose iterator stands at a node of it or nowhere.
ListOk(l) == Threaded(l) /\ l.size = Len(l.order) /\ l.it \in Range(l.order) \cup {nil}

\* An EmbeddedList outside of which every element has no links.
ChainOk(l) ==
    Threaded(l) /\ \A n \in ListNodes : n \notin Range(l.order) => l.next[n] = nil /\ l.prev[n] = nil

ListIInv == (~nodeList.torn => ListOk(nodeList)) /\ ChainOk(chain)

(***************************************************************************)
(* The end of a list is no node.                                           *)
(***************************************************************************)
LEMMA NilIsNoNode == nil \notin ListNodes
BY ListAssumption DEF nil

(***************************************************************************)
(* What Linked says, for a record of a list.                               *)
(***************************************************************************)
LEMMA ThreadedFacts ==
    ASSUME NEW l, Threaded(l)
    PROVE  /\ l.order \in Seq(ListNodes) /\ Len(l.order) \in Nat
           /\ DOMAIN l.order = 1..Len(l.order)
           /\ \A i \in 1..Len(l.order) : l.order[i] \in ListNodes
           /\ l.head \in Links /\ l.tail \in Links
           /\ l.next \in [ListNodes -> Links] /\ l.prev \in [ListNodes -> Links]
           /\ l.head = IF Len(l.order) = 0 THEN nil ELSE l.order[1]
           /\ l.tail = IF Len(l.order) = 0 THEN nil ELSE l.order[Len(l.order)]
           /\ \A i \in 1..Len(l.order) :
                 /\ l.next[l.order[i]] = IF i = Len(l.order) THEN nil ELSE l.order[i + 1]
                 /\ l.prev[l.order[i]] = IF i = 1 THEN nil ELSE l.order[i - 1]
<1>1. l \in ListRecords /\ Linked(l)
  BY DEF Threaded
<1>2. l.order \in Seq(ListNodes)
  BY <1>1 DEF ListRecords
<1>3. /\ Len(l.order) \in Nat /\ DOMAIN l.order = 1..Len(l.order)
      /\ \A i \in 1..Len(l.order) : l.order[i] \in ListNodes
  BY <1>2, LenProperties, ElementOfSeq
<1>4. (l.order = <<>>) <=> (Len(l.order) = 0)
  BY <1>2, EmptySeq
<1>5. Len(l.order) # 0 => Head(l.order) = l.order[1]
  BY <1>2, <1>4, HeadTailProperties
<1>6. Last(l.order) = l.order[Len(l.order)]
  BY DEF Last
<1> DEFINE s == l.order
<1>7. /\ l.head = IF s = <<>> THEN nil ELSE Head(s)
      /\ l.tail = IF s = <<>> THEN nil ELSE Last(s)
      /\ \A i \in DOMAIN s : /\ l.next[s[i]] = IF i = Len(s) THEN nil ELSE s[i + 1]
                             /\ l.prev[s[i]] = IF i = 1 THEN nil ELSE s[i - 1]
  BY <1>1 DEF Linked
<1>8. l.head \in Links /\ l.tail \in Links
      /\ l.next \in [ListNodes -> Links] /\ l.prev \in [ListNodes -> Links]
  BY <1>1 DEF ListRecords
<1> QED
  BY <1>2, <1>3, <1>4, <1>5, <1>6, <1>7, <1>8

(***************************************************************************)
(* And the other way round.                                                *)
(***************************************************************************)
LEMMA ThreadedIf ==
    ASSUME NEW l \in ListRecords, Distinct(l.order),
           l.head = IF Len(l.order) = 0 THEN nil ELSE l.order[1],
           l.tail = IF Len(l.order) = 0 THEN nil ELSE l.order[Len(l.order)],
           \A i \in 1..Len(l.order) :
              /\ l.next[l.order[i]] = IF i = Len(l.order) THEN nil ELSE l.order[i + 1]
              /\ l.prev[l.order[i]] = IF i = 1 THEN nil ELSE l.order[i - 1]
    PROVE  Threaded(l)
<1>1. l.order \in Seq(ListNodes)
  BY DEF ListRecords
<1>2. DOMAIN l.order = 1..Len(l.order)
  BY <1>1, LenProperties
<1>3. (l.order = <<>>) <=> (Len(l.order) = 0)
  BY <1>1, EmptySeq
<1>4. Len(l.order) # 0 => Head(l.order) = l.order[1]
  BY <1>1, <1>3, HeadTailProperties
<1>5. Last(l.order) = l.order[Len(l.order)]
  BY DEF Last
<1>6. Linked(l)
  BY <1>2, <1>3, <1>4, <1>5 DEF Linked
<1> QED
  BY <1>6 DEF Threaded

(***************************************************************************)
(* The empty list.                                                         *)
(***************************************************************************)
LEMMA EmptyThreaded ==
    /\ EmptyList \in ListRecords /\ Threaded(EmptyList)
    /\ EmptyList.size = Len(EmptyList.order) /\ EmptyList.it = nil
    /\ \A n \in ListNodes : EmptyList.next[n] = nil /\ EmptyList.prev[n] = nil
<1>1. <<>> \in Seq(ListNodes) /\ Len(<<>>) = 0
  BY EmptySeq
<1>2. EmptyList \in ListRecords
  BY <1>1 DEF EmptyList, ListRecords, Links
<1>3. EmptyList.order = <<>> /\ EmptyList.head = nil /\ EmptyList.tail = nil
  BY DEF EmptyList
<1>4. Threaded(EmptyList)
  BY <1>1, <1>2, <1>3, ThreadedIf DEF Distinct
<1> QED
  BY <1>1, <1>2, <1>4 DEF EmptyList

(***************************************************************************)
(* A node linked before the first: pointer by pointer.                     *)
(***************************************************************************)
LEMMA LinkFirstFields ==
    ASSUME NEW l, Threaded(l), NEW n \in ListNodes, n \notin Range(l.order)
    PROVE  LET r == linkFirst(l, n) IN
           /\ r \in ListRecords /\ r.size = l.size /\ r.order = l.order /\ r.it = l.it /\ r.torn = l.torn
           /\ r.head = n /\ r.tail = IF l.head = nil THEN n ELSE l.tail
           /\ r.next[n] = l.head /\ r.prev[n] = nil
           /\ \A m \in ListNodes : m # n => /\ r.next[m] = l.next[m]
                                            /\ r.prev[m] = IF m = l.head THEN n ELSE l.prev[m]
<1> DEFINE r == linkFirst(l, n)
<1>1. l \in ListRecords
  BY DEF Threaded
<1>2. l.head # n /\ n # nil /\ n \in Links /\ nil \in Links
  BY ThreadedFacts, NilIsNoNode DEF Range, Links
<1>3. CASE l.head = nil
  <2> DEFINE nx == [l.next EXCEPT ![n] = nil]
             pv == [l.prev EXCEPT ![n] = nil]
  <2>1. nx \in [ListNodes -> Links] /\ pv \in [ListNodes -> Links]
    BY <1>1, <1>2 DEF ListRecords
  <2>2. /\ nx[n] = nil /\ pv[n] = nil
        /\ \A m \in ListNodes : m # n => nx[m] = l.next[m] /\ pv[m] = l.prev[m]
    BY <1>1 DEF ListRecords
  <2>3. r = [l EXCEPT !.head = n, !.tail = n, !.next = nx, !.prev = pv]
    BY <1>1, <1>3 DEF linkFirst, ListRecords
  <2> HIDE DEF nx, pv, r
  <2>4. /\ r \in ListRecords /\ r.size = l.size /\ r.order = l.order /\ r.it = l.it /\ r.torn = l.torn
        /\ r.head = n /\ r.tail = n /\ r.next = nx /\ r.prev = pv
    BY <1>1, <1>2, <2>1, <2>3 DEF ListRecords
  <2>5. \A m \in ListNodes : m # l.head
    BY <1>3, NilIsNoNode
  <2> QED
    BY <1>3, <2>2, <2>4, <2>5 DEF r
<1>4. CASE l.head # nil
  <2>1. l.head \in ListNodes
    BY <1>1, <1>4 DEF ListRecords, Links
  <2> DEFINE nx == [l.next EXCEPT ![n] = l.head]
             pv == [[l.prev EXCEPT ![n] = nil] EXCEPT ![l.head] = n]
  <2>2. nx \in [ListNodes -> Links] /\ pv \in [ListNodes -> Links]
    BY <1>1, <1>2 DEF ListRecords
  <2>3. /\ nx[n] = l.head /\ pv[n] = nil
        /\ \A m \in ListNodes : m # n => nx[m] = l.next[m] /\ pv[m] = IF m = l.head THEN n ELSE l.prev[m]
    BY <1>1, <1>2, <2>1 DEF ListRecords
  <2>4. r = [l EXCEPT !.next = nx, !.prev = pv, !.head = n]
    BY <1>1, <1>4 DEF linkFirst, ListRecords
  <2> HIDE DEF nx, pv, r
  <2>5. /\ r \in ListRecords /\ r.size = l.size /\ r.order = l.order /\ r.it = l.it /\ r.torn = l.torn
        /\ r.head = n /\ r.tail = l.tail /\ r.next = nx /\ r.prev = pv
    BY <1>1, <1>2, <2>2, <2>4 DEF ListRecords
  <2> QED
    BY <1>4, <2>3, <2>5 DEF r
<1> QED
  BY <1>3, <1>4

(***************************************************************************)
(* A node linked after the last.                                           *)
(***************************************************************************)
LEMMA LinkLastFields ==
    ASSUME NEW l, Threaded(l), NEW n \in ListNodes, n \notin Range(l.order)
    PROVE  LET r == linkLast(l, n) IN
           /\ r \in ListRecords /\ r.size = l.size /\ r.order = l.order /\ r.it = l.it /\ r.torn = l.torn
           /\ r.tail = n /\ r.head = IF l.tail = nil THEN n ELSE l.head
           /\ r.prev[n] = l.tail /\ r.next[n] = nil
           /\ \A m \in ListNodes : m # n => /\ r.prev[m] = l.prev[m]
                                            /\ r.next[m] = IF m = l.tail THEN n ELSE l.next[m]
<1> DEFINE r == linkLast(l, n)
<1>1. l \in ListRecords
  BY DEF Threaded
<1>2. l.tail # n /\ n # nil /\ n \in Links /\ nil \in Links
  BY ThreadedFacts, NilIsNoNode DEF Range, Links
<1>3. CASE l.tail = nil
  <2> DEFINE nx == [l.next EXCEPT ![n] = nil]
             pv == [l.prev EXCEPT ![n] = nil]
  <2>1. nx \in [ListNodes -> Links] /\ pv \in [ListNodes -> Links]
    BY <1>1, <1>2 DEF ListRecords
  <2>2. /\ nx[n] = nil /\ pv[n] = nil
        /\ \A m \in ListNodes : m # n => nx[m] = l.next[m] /\ pv[m] = l.prev[m]
    BY <1>1 DEF ListRecords
  <2>3. r = [l EXCEPT !.head = n, !.tail = n, !.next = nx, !.prev = pv]
    BY <1>1, <1>3 DEF linkLast, ListRecords
  <2> HIDE DEF nx, pv, r
  <2>4. /\ r \in ListRecords /\ r.size = l.size /\ r.order = l.order /\ r.it = l.it /\ r.torn = l.torn
        /\ r.head = n /\ r.tail = n /\ r.next = nx /\ r.prev = pv
    BY <1>1, <1>2, <2>1, <2>3 DEF ListRecords
  <2>5. \A m \in ListNodes : m # l.tail
    BY <1>3, NilIsNoNode
  <2> QED
    BY <1>3, <2>2, <2>4, <2>5 DEF r
<1>4. CASE l.tail # nil
  <2>1. l.tail \in ListNodes
    BY <1>1, <1>4 DEF ListRecords, Links
  <2> DEFINE nx == [[l.next EXCEPT ![n] = nil] EXCEPT ![l.tail] = n]
             pv == [l.prev EXCEPT ![n] = l.tail]
  <2>2. nx \in [ListNodes -> Links] /\ pv \in [ListNodes -> Links]
    BY <1>1, <1>2 DEF ListRecords
  <2>3. /\ pv[n] = l.tail /\ nx[n] = nil
        /\ \A m \in ListNodes : m # n => pv[m] = l.prev[m] /\ nx[m] = IF m = l.tail THEN n ELSE l.next[m]
    BY <1>1, <1>2, <2>1 DEF ListRecords
  <2>4. r = [l EXCEPT !.next = nx, !.prev = pv, !.tail = n]
    BY <1>1, <1>4 DEF linkLast, ListRecords
  <2> HIDE DEF nx, pv, r
  <2>5. /\ r \in ListRecords /\ r.size = l.size /\ r.order = l.order /\ r.it = l.it /\ r.torn = l.torn
        /\ r.head = l.head /\ r.tail = n /\ r.next = nx /\ r.prev = pv
    BY <1>1, <1>2, <2>2, <2>4 DEF ListRecords
  <2> QED
    BY <1>4, <2>3, <2>5 DEF r
<1> QED
  BY <1>3, <1>4

(***************************************************************************)
(* The node linked first is the first of the order.                        *)
(***************************************************************************)
LEMMA FirstAdded ==
    ASSUME NEW l, Threaded(l), NEW n \in ListNodes, n \notin Range(l.order),
           NEW r \in ListRecords, r.order = <<n>> \o l.order,
           PutFirst(l, n, r)
    PROVE  Threaded(r) /\ Len(r.order) = Len(l.order) + 1 /\ Range(r.order) = Range(l.order) \cup {n}
<1> USE DEF PutFirst
<1> DEFINE s == l.order
           t == r.order
<1>1. s \in Seq(ListNodes) /\ Len(s) \in Nat /\ DOMAIN s = 1..Len(s)
      /\ \A i \in 1..Len(s) : s[i] \in ListNodes /\ s[i] # n
  BY ThreadedFacts DEF Range
<1>2. <<n>> \in Seq(ListNodes) /\ Len(<<n>>) = 1 /\ <<n>>[1] = n
  OBVIOUS
<1>3. /\ t \in Seq(ListNodes) /\ Len(t) = Len(s) + 1 /\ t[1] = n
      /\ \A i \in 2..Len(t) : t[i] = s[i - 1]
  <2>1. Len(<<n>> \o s) = 1 + Len(s)
    BY <1>1, <1>2, ConcatProperties
  <2>2. \A i \in 1..(1 + Len(s)) : (<<n>> \o s)[i] = IF i <= 1 THEN <<n>>[i] ELSE s[i - 1]
    BY <1>1, <1>2, ConcatProperties
  <2> QED
    BY <1>1, <1>2, <2>1, <2>2, ConcatProperties
<1>4. Distinct(s)
  BY DEF Threaded
<1> HIDE DEF s, t
<1>5. Distinct(t)
  <2> SUFFICES ASSUME NEW i \in 1..Len(t), NEW j \in 1..Len(t), t[i] = t[j] PROVE i = j
    BY DEF Distinct
  <2>1. ASSUME NEW m \in 1..Len(t) PROVE m = 1 \/ (m - 1 \in 1..Len(s) /\ t[m] = s[m - 1] /\ s[m - 1] # n)
    <3>1. m = 1 \/ (m \in 2..Len(t) /\ m - 1 \in 1..Len(s))
      BY <1>1, <1>3
    <3> QED
      BY <1>1, <1>3, <3>1
  <2>2. i - 1 \in 1..Len(s) /\ j - 1 \in 1..Len(s) /\ s[i - 1] = s[j - 1] => i - 1 = j - 1
    BY <1>4 DEF Distinct
  <2> QED
    BY <1>3, <2>1, <2>2
<1>6. /\ l.head = IF Len(s) = 0 THEN nil ELSE s[1]
      /\ l.tail = IF Len(s) = 0 THEN nil ELSE s[Len(s)]
      /\ \A i \in 1..Len(s) : /\ l.next[s[i]] = IF i = Len(s) THEN nil ELSE s[i + 1]
                              /\ l.prev[s[i]] = IF i = 1 THEN nil ELSE s[i - 1]
  BY ThreadedFacts DEF s
<1>7. l.head = nil <=> Len(s) = 0
  <2>1. Len(s) # 0 => 1 \in 1..Len(s)
    BY <1>1
  <2>2. Len(s) # 0 => s[1] # nil
    BY <1>1, <2>1, NilIsNoNode
  <2> QED
    BY <1>6, <2>2
<1>8. r.tail = t[Len(t)]
  <2>1. CASE Len(s) = 0
    BY <2>1, <1>3, <1>7
  <2>2. CASE Len(s) # 0
    <3>1. Len(t) \in 2..Len(t) /\ Len(t) - 1 = Len(s)
      BY <2>2, <1>1, <1>3
    <3> QED
      <4>1. r.tail = s[Len(s)]
        BY <2>2, <1>6, <1>7
      <4>2. t[Len(t)] = s[Len(t) - 1]
        BY <3>1, <1>3
      <4> QED
        BY <3>1, <4>1, <4>2
  <2> QED
    BY <2>1, <2>2
<1>9. ASSUME NEW i \in 1..Len(t)
      PROVE  /\ r.next[t[i]] = IF i = Len(t) THEN nil ELSE t[i + 1]
             /\ r.prev[t[i]] = IF i = 1 THEN nil ELSE t[i - 1]
  <2>1. CASE i = 1
    <3>1. t[i] = n /\ r.next[t[i]] = l.head /\ r.prev[t[i]] = nil
      BY <2>1, <1>3
    <3>2. CASE Len(s) = 0
      BY <2>1, <3>1, <3>2, <1>3, <1>6
    <3>3. CASE Len(s) # 0
      <4>1. i + 1 \in 2..Len(t) /\ (i + 1) - 1 = 1 /\ i # Len(t)
        BY <2>1, <3>3, <1>1, <1>3
      <4> QED
        BY <2>1, <3>1, <3>3, <4>1, <1>3, <1>6
    <3> QED
      BY <3>2, <3>3
  <2>2. CASE i > 1
    <3> DEFINE j == i - 1
    <3>1. j \in 1..Len(s) /\ t[i] = s[j] /\ i = j + 1
      BY <2>2, <1>1, <1>3
    <3> HIDE DEF j
    <3>2. s[j] \in ListNodes /\ s[j] # n
      BY <1>1, <3>1
    <3>3. r.next[t[i]] = IF j = Len(s) THEN nil ELSE s[j + 1]
      BY <1>6, <3>1, <3>2
    <3>4. r.next[t[i]] = IF i = Len(t) THEN nil ELSE t[i + 1]
      BY <1>1, <1>3, <3>1, <3>3
    <3>5. s[j] = l.head <=> j = 1
      <4>1. Len(s) \in Nat /\ j \in 1..Len(s)
        BY <1>1, <3>1
      <4>2. 1 \in 1..Len(s) /\ Len(s) # 0
        BY <4>1
      <4>3. l.head = s[1]
        BY <4>2, <1>6
      <4> QED
        BY <1>4, <4>1, <4>2, <4>3 DEF Distinct
    <3>6. r.prev[t[i]] = IF j = 1 THEN n ELSE s[j - 1]
      BY <1>6, <3>1, <3>2, <3>5
    <3>7. r.prev[t[i]] = t[i - 1]
      BY <1>1, <1>3, <3>1, <3>6
    <3> QED
      BY <2>2, <3>4, <3>7
  <2> QED
    BY <1>1, <1>3, <2>1, <2>2
<1>10. Threaded(r)
  <2>1. Len(t) # 0
    BY <1>1, <1>3
  <2> QED
    BY <1>3, <1>5, <1>8, <1>9, <2>1, ThreadedIf DEF t
<1>11. Range(r.order) = Range(l.order) \cup {n}
  <2>1. DOMAIN t = 1..Len(t)
    BY <1>10, ThreadedFacts DEF t
  <2>2. ASSUME NEW i \in 1..Len(t) PROVE t[i] = n \/ t[i] \in Range(s)
    <3>1. i = 1 \/ (i \in 2..Len(t) /\ i - 1 \in 1..Len(s))
      BY <1>1, <1>3
    <3>2. CASE i = 1
      BY <1>3, <3>2
    <3>3. CASE i \in 2..Len(t) /\ i - 1 \in 1..Len(s)
      <4>1. t[i] = s[i - 1]
        BY <1>3, <3>3
      <4>2. DOMAIN s = 1..Len(s)
        BY <1>1, LenProperties
      <4> QED
        BY <3>3, <4>1, <4>2 DEF Range
    <3> QED
      BY <3>1, <3>2, <3>3
  <2>3. n \in Range(t)
    BY <1>1, <1>3, <2>1 DEF Range
  <2>4. ASSUME NEW i \in 1..Len(s) PROVE s[i] \in Range(t)
    <3>1. i + 1 \in 2..Len(t) /\ t[i + 1] = s[i]
      BY <1>1, <1>3
    <3> QED
      BY <2>1, <3>1, <1>1, <1>3 DEF Range
  <2>5. Range(t) = Range(s) \cup {n}
    BY <1>1, <2>1, <2>2, <2>3, <2>4 DEF Range
  <2> QED
    BY <2>5 DEF s, t
<1> QED
  BY <1>3, <1>10, <1>11 DEF s, t

(***************************************************************************)
(* The node linked last is the last of the order.                          *)
(***************************************************************************)
LEMMA LastAdded ==
    ASSUME NEW l, Threaded(l), NEW n \in ListNodes, n \notin Range(l.order),
           NEW r \in ListRecords, r.order = Append(l.order, n),
           PutLast(l, n, r)
    PROVE  Threaded(r) /\ Len(r.order) = Len(l.order) + 1 /\ Range(r.order) = Range(l.order) \cup {n}
<1> USE DEF PutLast
<1> DEFINE s == l.order
           t == r.order
<1>1. s \in Seq(ListNodes) /\ Len(s) \in Nat /\ DOMAIN s = 1..Len(s)
      /\ \A i \in 1..Len(s) : s[i] \in ListNodes /\ s[i] # n
  BY ThreadedFacts DEF Range
<1>2. /\ t \in Seq(ListNodes) /\ Len(t) = Len(s) + 1 /\ t[Len(s) + 1] = n
      /\ \A i \in 1..Len(s) : t[i] = s[i]
  BY <1>1, AppendProperties
<1>4. Distinct(s)
  BY DEF Threaded
<1> HIDE DEF s, t
<1>5. Distinct(t)
  <2> SUFFICES ASSUME NEW i \in 1..Len(t), NEW j \in 1..Len(t), t[i] = t[j] PROVE i = j
    BY DEF Distinct
  <2>1. (i \in 1..Len(s) \/ i = Len(s) + 1) /\ (j \in 1..Len(s) \/ j = Len(s) + 1)
    BY <1>1, <1>2
  <2> QED
    BY <1>1, <1>2, <1>4, <2>1 DEF Distinct
<1>6. /\ l.head = IF Len(s) = 0 THEN nil ELSE s[1]
      /\ l.tail = IF Len(s) = 0 THEN nil ELSE s[Len(s)]
      /\ \A i \in 1..Len(s) : /\ l.next[s[i]] = IF i = Len(s) THEN nil ELSE s[i + 1]
                              /\ l.prev[s[i]] = IF i = 1 THEN nil ELSE s[i - 1]
  BY ThreadedFacts DEF s
<1>7. l.tail = nil <=> Len(s) = 0
  <2>1. Len(s) # 0 => Len(s) \in 1..Len(s)
    BY <1>1
  <2>2. Len(s) # 0 => s[Len(s)] # nil
    BY <1>1, <2>1, NilIsNoNode
  <2> QED
    BY <1>6, <2>2
<1>8. r.head = t[1] /\ r.tail = t[Len(t)]
  <2>1. CASE Len(s) = 0
    BY <2>1, <1>2, <1>7
  <2>2. CASE Len(s) # 0
    <3>1. 1 \in 1..Len(s)
      BY <2>2, <1>1
    <3> QED
      BY <2>2, <3>1, <1>2, <1>6, <1>7
  <2> QED
    BY <2>1, <2>2
<1>9. ASSUME NEW i \in 1..Len(t)
      PROVE  /\ r.next[t[i]] = IF i = Len(t) THEN nil ELSE t[i + 1]
             /\ r.prev[t[i]] = IF i = 1 THEN nil ELSE t[i - 1]
  <2>1. CASE i = Len(t)
    <3>1. t[i] = n /\ r.prev[t[i]] = l.tail /\ r.next[t[i]] = nil
      BY <2>1, <1>2
    <3>2. CASE Len(s) = 0
      BY <2>1, <3>1, <3>2, <1>2, <1>6
    <3>3. CASE Len(s) # 0
      <4>1. i - 1 \in 1..Len(s) /\ i - 1 = Len(s) /\ i # 1
        BY <2>1, <3>3, <1>1, <1>2
      <4> QED
        <5>1. t[i - 1] = s[Len(s)]
          BY <4>1, <1>2
        <5>2. l.tail = s[Len(s)]
          BY <3>3, <1>6
        <5> QED
          BY <2>1, <3>1, <4>1, <5>1, <5>2
    <3> QED
      BY <3>2, <3>3
  <2>2. CASE i < Len(t)
    <3>1. i \in 1..Len(s) /\ t[i] = s[i]
      BY <2>2, <1>1, <1>2
    <3>2. s[i] \in ListNodes /\ s[i] # n
      BY <1>1, <3>1
    <3>3. r.prev[t[i]] = IF i = 1 THEN nil ELSE s[i - 1]
      BY <1>6, <3>1, <3>2
    <3>4. r.prev[t[i]] = IF i = 1 THEN nil ELSE t[i - 1]
      BY <1>1, <1>2, <3>1, <3>3
    <3>5. s[i] = l.tail <=> i = Len(s)
      <4>1. Len(s) \in Nat /\ i \in 1..Len(s)
        BY <1>1, <3>1
      <4>2. Len(s) \in 1..Len(s) /\ Len(s) # 0
        BY <4>1
      <4>3. l.tail = s[Len(s)]
        BY <4>2, <1>6
      <4> QED
        BY <1>4, <4>1, <4>2, <4>3 DEF Distinct
    <3>6. r.next[t[i]] = IF i = Len(s) THEN n ELSE s[i + 1]
      <4>1. r.next[s[i]] = IF i = Len(s) THEN n ELSE l.next[s[i]]
        BY <3>2, <3>5
      <4> QED
        BY <1>6, <3>1, <4>1
    <3>7. r.next[t[i]] = t[i + 1]
      <4>1. Len(s) \in Nat /\ i \in 1..Len(s)
        BY <1>1, <3>1
      <4>2. i = Len(s) \/ (i # Len(s) /\ i + 1 \in 1..Len(s))
        BY <4>1
      <4>3. CASE i = Len(s)
        BY <1>2, <3>6, <4>3
      <4>4. CASE i # Len(s) /\ i + 1 \in 1..Len(s)
        BY <1>2, <3>6, <4>4
      <4> QED
        BY <4>2, <4>3, <4>4
    <3> QED
      BY <2>2, <3>4, <3>7
  <2> QED
    BY <1>1, <1>2, <2>1, <2>2
<1>10. Threaded(r)
  <2>1. Len(t) # 0
    BY <1>1, <1>2
  <2> QED
    BY <1>2, <1>5, <1>8, <1>9, <2>1, ThreadedIf DEF t
<1>11. Range(r.order) = Range(l.order) \cup {n}
  <2>1. DOMAIN t = 1..Len(t)
    BY <1>10, ThreadedFacts DEF t
  <2>2. \A i \in 1..Len(t) : i \in 1..Len(s) \/ i = Len(s) + 1
    BY <1>1, <1>2
  <2>3. \A i \in 1..Len(s) : i \in 1..Len(t)
    BY <1>1, <1>2
  <2>4. Len(s) + 1 \in 1..Len(t)
    BY <1>1, <1>2
  <2> QED
    BY <1>1, <1>2, <2>1, <2>2, <2>3, <2>4 DEF Range, s, t
<1> QED
  BY <1>2, <1>10, <1>11 DEF s, t

(***************************************************************************)
(* Taking a node out, pointer by pointer: its own pointers stay.           *)
(***************************************************************************)
LEMMA UnlinkFields ==
    ASSUME NEW l, Threaded(l), NEW k \in 1..Len(l.order)
    PROVE  LET n == l.order[k]
               r == unlinkNode(l, n)
           IN  /\ r \in ListRecords /\ r.size = l.size /\ r.order = l.order /\ r.it = l.it /\ r.torn = l.torn
               /\ r.head = IF l.prev[n] = nil THEN l.next[n] ELSE l.head
               /\ r.tail = IF l.next[n] = nil THEN l.prev[n] ELSE l.tail
               /\ \A m \in ListNodes : /\ r.next[m] = IF m = l.prev[n] THEN l.next[n] ELSE l.next[m]
                                       /\ r.prev[m] = IF m = l.next[n] THEN l.prev[n] ELSE l.prev[m]
<1> DEFINE n == l.order[k]
           r == unlinkNode(l, n)
           nx == [m \in ListNodes |-> IF m = l.prev[n] THEN l.next[n] ELSE l.next[m]]
           pv == [m \in ListNodes |-> IF m = l.next[n] THEN l.prev[n] ELSE l.prev[m]]
           hd == IF l.prev[n] = nil THEN l.next[n] ELSE l.head
           tl == IF l.next[n] = nil THEN l.prev[n] ELSE l.tail
<1>1. l \in ListRecords
  BY DEF Threaded
<1>2. n \in ListNodes
  BY ThreadedFacts
<1> HIDE DEF n
<1>3. l.next[n] \in Links /\ l.prev[n] \in Links
      /\ \A m \in ListNodes : l.next[m] \in Links /\ l.prev[m] \in Links
  BY <1>1, <1>2 DEF ListRecords
<1>4. nx \in [ListNodes -> Links] /\ pv \in [ListNodes -> Links]
  BY <1>3
<1>5. hd \in Links /\ tl \in Links
  BY <1>1, <1>3 DEF ListRecords
<1>6. r = [l EXCEPT !.head = hd, !.tail = tl, !.next = nx, !.prev = pv]
  BY <1>1 DEF unlinkNode, ListRecords
<1>7. \A m \in ListNodes : /\ nx[m] = IF m = l.prev[n] THEN l.next[n] ELSE l.next[m]
                           /\ pv[m] = IF m = l.next[n] THEN l.prev[n] ELSE l.prev[m]
  OBVIOUS
<1>8. /\ r \in ListRecords /\ r.size = l.size /\ r.order = l.order /\ r.it = l.it /\ r.torn = l.torn
      /\ r.head = hd /\ r.tail = tl /\ r.next = nx /\ r.prev = pv
  <2> HIDE DEF r, nx, pv, hd, tl
  <2> QED
    BY <1>1, <1>4, <1>5, <1>6 DEF ListRecords
<1> QED
  BY <1>7, <1>8 DEF n

(***************************************************************************)
(* A sequence of distinct nodes without its k-th.                          *)
(***************************************************************************)
LEMMA RemovedAt ==
    ASSUME NEW s \in Seq(ListNodes), Distinct(s), NEW k \in 1..Len(s)
    PROVE  LET t == RemoveFirst(s, s[k]) IN
           /\ t \in Seq(ListNodes) /\ Len(t) = Len(s) - 1
           /\ \A i \in 1..Len(t) : t[i] = IF i < k THEN s[i] ELSE s[i + 1]
           /\ Distinct(t) /\ Range(t) = Range(s) \ {s[k]}
<1>1. Len(s) \in Nat
  BY LenProperties
<1>2. {i \in 1..Len(s) : s[i] = s[k]} = {k} /\ Min({k}) = k
  BY <1>1 DEF Distinct, Min
<1>3. SelectInSeq(s, LAMBDA v : v = s[k]) = k
  BY <1>2 DEF SelectInSeq
<1>4. RemoveFirst(s, s[k]) = RemoveAt(s, k)
  BY <1>1, <1>3 DEF RemoveFirst
<1> QED
  BY <1>4, WithoutOne

(***************************************************************************)
(* A node taken out of the pointers and of the order.                      *)
(***************************************************************************)
LEMMA NodeRemoved ==
    ASSUME NEW l, Threaded(l), NEW k \in 1..Len(l.order), NEW n, n = l.order[k],
           NEW r \in ListRecords, r.order = RemoveFirst(l.order, n),
           TakenOut(l, n, r)
    PROVE  Threaded(r) /\ Len(r.order) = Len(l.order) - 1 /\ Range(r.order) = Range(l.order) \ {n}
<1> USE DEF TakenOut
<1> DEFINE s == l.order
           t == r.order
<1>1. s \in Seq(ListNodes) /\ Len(s) \in Nat /\ Distinct(s)
      /\ \A i \in 1..Len(s) : s[i] \in ListNodes /\ s[i] # nil
  BY ThreadedFacts, NilIsNoNode DEF Threaded
<1>2. /\ t \in Seq(ListNodes) /\ Len(t) = Len(s) - 1
      /\ \A i \in 1..Len(t) : t[i] = IF i < k THEN s[i] ELSE s[i + 1]
      /\ Distinct(t) /\ Range(t) = Range(s) \ {n}
  <2>1. k \in 1..Len(s) /\ n = s[k] /\ t = RemoveFirst(s, s[k])
    OBVIOUS
  <2>2. s \in Seq(ListNodes) /\ Distinct(s)
    BY <1>1
  <2> HIDE DEF s, t
  <2> DEFINE u == RemoveFirst(s, s[k])
  <2>3. /\ u \in Seq(ListNodes) /\ Len(u) = Len(s) - 1
        /\ \A i \in 1..Len(u) : u[i] = IF i < k THEN s[i] ELSE s[i + 1]
        /\ Distinct(u) /\ Range(u) = Range(s) \ {s[k]}
    BY <2>1, <2>2, RemovedAt
  <2> HIDE DEF u
  <2>4. t = u /\ s[k] = n
    BY <2>1 DEF u
  <2> QED
    BY <2>3, <2>4
<1>3. n = s[k]
  OBVIOUS
<1> HIDE DEF s, t
<1>6. /\ l.head = IF Len(s) = 0 THEN nil ELSE s[1]
      /\ l.tail = IF Len(s) = 0 THEN nil ELSE s[Len(s)]
      /\ \A i \in 1..Len(s) : /\ l.next[s[i]] = IF i = Len(s) THEN nil ELSE s[i + 1]
                              /\ l.prev[s[i]] = IF i = 1 THEN nil ELSE s[i - 1]
  BY ThreadedFacts DEF s
<1>7. k \in 1..Len(s)
  BY DEF s
<1>8. /\ l.next[n] = IF k = Len(s) THEN nil ELSE s[k + 1]
      /\ l.prev[n] = IF k = 1 THEN nil ELSE s[k - 1]
  BY <1>3, <1>6, <1>7
<1>9. (l.prev[n] = nil <=> k = 1) /\ (l.next[n] = nil <=> k = Len(s))
  BY <1>1, <1>7, <1>8
<1>10. r.head = IF Len(t) = 0 THEN nil ELSE t[1]
  BY <1>1, <1>2, <1>6, <1>7, <1>8, <1>9
<1>11. r.tail = IF Len(t) = 0 THEN nil ELSE t[Len(t)]
  BY <1>1, <1>2, <1>6, <1>7, <1>8, <1>9
<1>12. ASSUME NEW i \in 1..Len(s), i # k
       PROVE  /\ r.next[s[i]] = IF i + 1 = k THEN l.next[n] ELSE IF i = Len(s) THEN nil ELSE s[i + 1]
              /\ r.prev[s[i]] = IF i = k + 1 THEN l.prev[n] ELSE IF i = 1 THEN nil ELSE s[i - 1]
  <2>1. s[i] \in ListNodes /\ s[i] # n
    BY <1>1, <1>3, <1>7, <1>12 DEF Distinct
  <2>2. s[i] = l.prev[n] <=> i + 1 = k
    BY <1>1, <1>7, <1>8, <1>12 DEF Distinct
  <2>3. s[i] = l.next[n] <=> i = k + 1
    BY <1>1, <1>7, <1>8, <1>12 DEF Distinct
  <2>4. r.next[s[i]] = IF s[i] = l.prev[n] THEN l.next[n] ELSE l.next[s[i]]
    BY <2>1
  <2>5. r.prev[s[i]] = IF s[i] = l.next[n] THEN l.prev[n] ELSE l.prev[s[i]]
    BY <2>1
  <2>6. /\ l.next[s[i]] = IF i = Len(s) THEN nil ELSE s[i + 1]
        /\ l.prev[s[i]] = IF i = 1 THEN nil ELSE s[i - 1]
    BY <1>6
  <2> QED
    BY <2>2, <2>3, <2>4, <2>5, <2>6
<1>13. ASSUME NEW i \in 1..Len(t)
       PROVE  /\ r.next[t[i]] = IF i = Len(t) THEN nil ELSE t[i + 1]
              /\ r.prev[t[i]] = IF i = 1 THEN nil ELSE t[i - 1]
  <2>1. CASE i < k
    <3>1. i \in 1..Len(s) /\ i # k /\ i # k + 1 /\ t[i] = s[i]
      BY <1>1, <1>2, <1>7, <2>1
    <3>2. r.prev[t[i]] = IF i = 1 THEN nil ELSE s[i - 1]
      BY <1>12, <3>1
    <3>3. r.next[t[i]] = IF i + 1 = k THEN l.next[n] ELSE IF i = Len(s) THEN nil ELSE s[i + 1]
      BY <1>12, <3>1
    <3>4. r.prev[t[i]] = IF i = 1 THEN nil ELSE t[i - 1]
      BY <1>1, <1>2, <1>7, <2>1, <3>2
    <3>5. r.next[t[i]] = IF i = Len(t) THEN nil ELSE t[i + 1]
      BY <1>1, <1>2, <1>7, <1>8, <2>1, <3>3
    <3> QED
      BY <3>4, <3>5
  <2>2. CASE ~(i < k)
    <3> DEFINE j == i + 1
    <3>1. j \in 1..Len(s) /\ j # k /\ j + 1 # k /\ t[i] = s[j] /\ j > 1
      BY <1>1, <1>2, <1>7, <2>2
    <3>2. r.next[t[i]] = IF j = Len(s) THEN nil ELSE s[j + 1]
      BY <1>12, <3>1
    <3>3. r.prev[t[i]] = IF j = k + 1 THEN l.prev[n] ELSE s[j - 1]
      BY <1>12, <3>1
    <3>4. r.next[t[i]] = IF i = Len(t) THEN nil ELSE t[i + 1]
      BY <1>1, <1>2, <1>7, <2>2, <3>2
    <3>5. r.prev[t[i]] = IF i = 1 THEN nil ELSE t[i - 1]
      <4>1. Len(s) \in Nat /\ k \in 1..Len(s) /\ i \in 1..Len(t) /\ Len(t) = Len(s) - 1
        BY <1>1, <1>2, <1>7
      <4>2. CASE i = k
        <5>1. r.prev[t[i]] = IF k = 1 THEN nil ELSE s[k - 1]
          BY <1>8, <3>3, <4>2
        <5>2. k # 1 => i - 1 \in 1..Len(t) /\ i - 1 < k /\ i - 1 = k - 1
          BY <4>1, <4>2
        <5> QED
          BY <1>2, <4>2, <5>1, <5>2
      <4>3. CASE i # k
        <5>1. i - 1 \in 1..Len(t) /\ ~(i - 1 < k) /\ (i - 1) + 1 = i /\ i # 1 /\ j # k + 1 /\ j - 1 = i
          <6>1. i > k
            BY <2>2, <4>1, <4>3
          <6> QED
            BY <4>1, <6>1
        <5> QED
          BY <1>2, <3>3, <5>1
      <4> QED
        BY <4>2, <4>3
    <3> QED
      BY <3>4, <3>5
  <2> QED
    BY <2>1, <2>2
<1>14. Threaded(r)
  BY <1>2, <1>10, <1>11, <1>13, ThreadedIf DEF t
<1> QED
  BY <1>2, <1>14 DEF s, t

(***************************************************************************)
(* The ends of a list, and the neighbours of a node in it, are in it.      *)
(***************************************************************************)
LEMMA HeadInRange ==
    ASSUME NEW l, Threaded(l)
    PROVE  /\ l.head = nil \/ l.head \in Range(l.order)
           /\ l.tail = nil \/ l.tail \in Range(l.order)
           /\ \A n \in Range(l.order) : l.next[n] \in Range(l.order) \cup {nil}
                                       /\ l.prev[n] \in Range(l.order) \cup {nil}
<1> DEFINE s == l.order
<1>1. Len(s) \in Nat /\ DOMAIN s = 1..Len(s)
  BY ThreadedFacts
<1>2. /\ l.head = IF Len(s) = 0 THEN nil ELSE s[1]
      /\ l.tail = IF Len(s) = 0 THEN nil ELSE s[Len(s)]
      /\ \A i \in 1..Len(s) : /\ l.next[s[i]] = IF i = Len(s) THEN nil ELSE s[i + 1]
                              /\ l.prev[s[i]] = IF i = 1 THEN nil ELSE s[i - 1]
  BY ThreadedFacts
<1> HIDE DEF s
<1>3. \A i \in 1..Len(s) : s[i] \in Range(s)
  BY <1>1 DEF Range
<1>4. Len(s) # 0 => 1 \in 1..Len(s) /\ Len(s) \in 1..Len(s)
  BY <1>1
<1>5. \A i \in 1..Len(s) : (i # Len(s) => i + 1 \in 1..Len(s)) /\ (i # 1 => i - 1 \in 1..Len(s))
  <2>1. Len(s) \in Nat
    BY <1>1
  <2> QED
    BY <2>1
<1>6. (l.head = nil \/ l.head \in Range(s)) /\ (l.tail = nil \/ l.tail \in Range(s))
  BY <1>2, <1>3, <1>4
<1>7. ASSUME NEW n \in Range(s) PROVE l.next[n] \in Range(s) \cup {nil} /\ l.prev[n] \in Range(s) \cup {nil}
  <2>1. PICK i \in 1..Len(s) : n = s[i]
    BY <1>1, <1>7 DEF Range
  <2>2. l.next[n] = nil \/ (l.next[n] = s[i + 1] /\ i + 1 \in 1..Len(s))
    BY <1>2, <1>5, <2>1
  <2>3. l.prev[n] = nil \/ (l.prev[n] = s[i - 1] /\ i - 1 \in 1..Len(s))
    BY <1>2, <1>5, <2>1
  <2> QED
    BY <1>3, <2>2, <2>3
<1> QED
  BY <1>6, <1>7 DEF s

(***************************************************************************)
(* pushFront() and addFirst().                                             *)
(***************************************************************************)
LEMMA PushedFront ==
    ASSUME NEW l, NEW n \in ListNodes, n \notin Range(l.order)
    PROVE  /\ ListOk(l) => ListOk([linkFirst(l, n) EXCEPT !.size = @ + 1, !.order = <<n>> \o @])
           /\ ChainOk(l) => ChainOk([linkFirst(l, n) EXCEPT !.order = <<n>> \o @])
<1> DEFINE f == linkFirst(l, n)
           s == <<n>> \o l.order
<1>1. ASSUME Threaded(l)
      PROVE  /\ f \in ListRecords /\ f.size = l.size /\ f.order = l.order /\ f.it = l.it
             /\ f.head = n /\ f.tail = IF l.head = nil THEN n ELSE l.tail
             /\ f.next[n] = l.head /\ f.prev[n] = nil
             /\ \A m \in ListNodes : m # n => /\ f.next[m] = l.next[m]
                                              /\ f.prev[m] = IF m = l.head THEN n ELSE l.prev[m]
             /\ s \in Seq(ListNodes)
  <2>1. <<n>> \in Seq(ListNodes) /\ l.order \in Seq(ListNodes)
    BY <1>1, ThreadedFacts
  <2>2. s \in Seq(ListNodes)
    BY <2>1, ConcatProperties
  <2> QED
    BY <1>1, <2>2, LinkFirstFields
<1> HIDE DEF f, s
<1>2. ASSUME ListOk(l) PROVE ListOk([f EXCEPT !.size = @ + 1, !.order = s])
  <2> DEFINE r == [f EXCEPT !.size = @ + 1, !.order = s]
  <2>1. Threaded(l) /\ l.size = Len(l.order) /\ l.it \in Range(l.order) \cup {nil}
    BY <1>2 DEF ListOk
  <2>2. /\ r \in ListRecords /\ r.order = s /\ r.size = l.size + 1 /\ r.it = l.it
        /\ r.head = f.head /\ r.tail = f.tail /\ r.next = f.next /\ r.prev = f.prev
    <3>1. f \in ListRecords /\ s \in Seq(ListNodes) /\ f.size = l.size /\ f.it = l.it
      BY <1>1, <2>1
    <3> DEFINE z == f.size + 1
    <3>2. z \in Int /\ z = l.size + 1
      BY <3>1 DEF ListRecords
    <3>3. r = [f EXCEPT !.size = z, !.order = s]
      BY <3>1 DEF ListRecords
    <3> HIDE DEF z, r
    <3> QED
      BY <3>1, <3>2, <3>3 DEF ListRecords
  <2>3. r.order = <<n>> \o l.order
    BY <2>2 DEF s
  <2> HIDE DEF r
  <2>4. Threaded(r) /\ Len(r.order) = Len(l.order) + 1 /\ Range(r.order) = Range(l.order) \cup {n}
    <3>1. PutFirst(l, n, r)
      BY <1>1, <2>1, <2>2 DEF PutFirst
    <3>2. r \in ListRecords
      BY <2>2
    <3> QED
      BY <2>1, <2>3, <3>1, <3>2, FirstAdded
  <2>5. ListOk(r)
    BY <2>1, <2>2, <2>4 DEF ListOk
  <2> QED
    BY <2>5 DEF r
<1>3. ASSUME ChainOk(l) PROVE ChainOk([f EXCEPT !.order = s])
  <2> DEFINE r == [f EXCEPT !.order = s]
  <2>1. Threaded(l) /\ \A m \in ListNodes : m \notin Range(l.order) => l.next[m] = nil /\ l.prev[m] = nil
    BY <1>3 DEF ChainOk
  <2>2. /\ r \in ListRecords /\ r.order = s
        /\ r.head = f.head /\ r.tail = f.tail /\ r.next = f.next /\ r.prev = f.prev
    BY <1>1, <2>1 DEF ListRecords
  <2>3. r.order = <<n>> \o l.order
    BY <2>2 DEF s
  <2> HIDE DEF r
  <2>4. Threaded(r) /\ Range(r.order) = Range(l.order) \cup {n}
    <3>1. PutFirst(l, n, r)
      BY <1>1, <2>1, <2>2 DEF PutFirst
    <3>2. r \in ListRecords
      BY <2>2
    <3> QED
      BY <2>1, <2>3, <3>1, <3>2, FirstAdded
  <2>5. ASSUME NEW m \in ListNodes, m \notin Range(r.order) PROVE r.next[m] = nil /\ r.prev[m] = nil
    <3>1. l.head = nil \/ l.head \in Range(l.order)
      BY <2>1, HeadInRange
    <3>2. m # n /\ m \notin Range(l.order) /\ m # l.head
      BY <2>4, <2>5, <3>1, NilIsNoNode
    <3> QED
      BY <1>1, <2>1, <2>2, <3>2
  <2>6. ChainOk(r)
    BY <2>4, <2>5 DEF ChainOk
  <2> QED
    BY <2>6 DEF r
<1>4. ASSUME Threaded(l) PROVE <<n>> \o f.order = s
  BY <1>1, <1>4 DEF s
<1> QED
  <2>1. ASSUME Threaded(l)
        PROVE  /\ [linkFirst(l, n) EXCEPT !.size = @ + 1, !.order = <<n>> \o @] = [f EXCEPT !.size = @ + 1, !.order = s]
               /\ [linkFirst(l, n) EXCEPT !.order = <<n>> \o @] = [f EXCEPT !.order = s]
    BY <1>4, <2>1 DEF f
  <2>2. (ListOk(l) => Threaded(l)) /\ (ChainOk(l) => Threaded(l))
    BY DEF ListOk, ChainOk
  <2> QED
    BY <1>2, <1>3, <2>1, <2>2

(***************************************************************************)
(* pushBack() and addLast().                                               *)
(***************************************************************************)
LEMMA PushedBack ==
    ASSUME NEW l, NEW n \in ListNodes, n \notin Range(l.order)
    PROVE  /\ ListOk(l) => ListOk([linkLast(l, n) EXCEPT !.size = @ + 1, !.order = Append(@, n)])
           /\ ChainOk(l) => ChainOk([linkLast(l, n) EXCEPT !.order = Append(@, n)])
<1> DEFINE f == linkLast(l, n)
           s == Append(l.order, n)
<1>1. ASSUME Threaded(l)
      PROVE  /\ f \in ListRecords /\ f.size = l.size /\ f.order = l.order /\ f.it = l.it
             /\ f.tail = n /\ f.head = IF l.tail = nil THEN n ELSE l.head
             /\ f.prev[n] = l.tail /\ f.next[n] = nil
             /\ \A m \in ListNodes : m # n => /\ f.prev[m] = l.prev[m]
                                              /\ f.next[m] = IF m = l.tail THEN n ELSE l.next[m]
             /\ s \in Seq(ListNodes)
  <2>1. l.order \in Seq(ListNodes)
    BY <1>1, ThreadedFacts
  <2>2. s \in Seq(ListNodes)
    BY <2>1, AppendProperties
  <2> QED
    BY <1>1, <2>2, LinkLastFields
<1> HIDE DEF f, s
<1>2. ASSUME ListOk(l) PROVE ListOk([f EXCEPT !.size = @ + 1, !.order = s])
  <2> DEFINE r == [f EXCEPT !.size = @ + 1, !.order = s]
  <2>1. Threaded(l) /\ l.size = Len(l.order) /\ l.it \in Range(l.order) \cup {nil}
    BY <1>2 DEF ListOk
  <2>2. /\ r \in ListRecords /\ r.order = s /\ r.size = l.size + 1 /\ r.it = l.it
        /\ r.head = f.head /\ r.tail = f.tail /\ r.next = f.next /\ r.prev = f.prev
    <3>1. f \in ListRecords /\ s \in Seq(ListNodes) /\ f.size = l.size /\ f.it = l.it
      BY <1>1, <2>1
    <3> DEFINE z == f.size + 1
    <3>2. z \in Int /\ z = l.size + 1
      BY <3>1 DEF ListRecords
    <3>3. r = [f EXCEPT !.size = z, !.order = s]
      BY <3>1 DEF ListRecords
    <3> HIDE DEF z, r
    <3> QED
      BY <3>1, <3>2, <3>3 DEF ListRecords
  <2>3. r.order = Append(l.order, n)
    BY <2>2 DEF s
  <2> HIDE DEF r
  <2>4. Threaded(r) /\ Len(r.order) = Len(l.order) + 1 /\ Range(r.order) = Range(l.order) \cup {n}
    <3>1. PutLast(l, n, r)
      BY <1>1, <2>1, <2>2 DEF PutLast
    <3>2. r \in ListRecords
      BY <2>2
    <3> QED
      BY <2>1, <2>3, <3>1, <3>2, LastAdded
  <2>5. ListOk(r)
    BY <2>1, <2>2, <2>4 DEF ListOk
  <2> QED
    BY <2>5 DEF r
<1>3. ASSUME ChainOk(l) PROVE ChainOk([f EXCEPT !.order = s])
  <2> DEFINE r == [f EXCEPT !.order = s]
  <2>1. Threaded(l) /\ \A m \in ListNodes : m \notin Range(l.order) => l.next[m] = nil /\ l.prev[m] = nil
    BY <1>3 DEF ChainOk
  <2>2. /\ r \in ListRecords /\ r.order = s
        /\ r.head = f.head /\ r.tail = f.tail /\ r.next = f.next /\ r.prev = f.prev
    BY <1>1, <2>1 DEF ListRecords
  <2>3. r.order = Append(l.order, n)
    BY <2>2 DEF s
  <2> HIDE DEF r
  <2>4. Threaded(r) /\ Range(r.order) = Range(l.order) \cup {n}
    <3>1. PutLast(l, n, r)
      BY <1>1, <2>1, <2>2 DEF PutLast
    <3>2. r \in ListRecords
      BY <2>2
    <3> QED
      BY <2>1, <2>3, <3>1, <3>2, LastAdded
  <2>5. ASSUME NEW m \in ListNodes, m \notin Range(r.order) PROVE r.next[m] = nil /\ r.prev[m] = nil
    <3>1. l.tail = nil \/ l.tail \in Range(l.order)
      BY <2>1, HeadInRange
    <3>2. m # n /\ m \notin Range(l.order) /\ m # l.tail
      BY <2>4, <2>5, <3>1, NilIsNoNode
    <3> QED
      BY <1>1, <2>1, <2>2, <3>2
  <2>6. ChainOk(r)
    BY <2>4, <2>5 DEF ChainOk
  <2> QED
    BY <2>6 DEF r
<1>4. ASSUME Threaded(l) PROVE Append(f.order, n) = s
  BY <1>1, <1>4 DEF s
<1> QED
  <2>1. ASSUME Threaded(l)
        PROVE  /\ [linkLast(l, n) EXCEPT !.size = @ + 1, !.order = Append(@, n)] = [f EXCEPT !.size = @ + 1, !.order = s]
               /\ [linkLast(l, n) EXCEPT !.order = Append(@, n)] = [f EXCEPT !.order = s]
    BY <1>4, <2>1 DEF f
  <2>2. (ListOk(l) => Threaded(l)) /\ (ChainOk(l) => Threaded(l))
    BY DEF ListOk, ChainOk
  <2> QED
    BY <1>2, <1>3, <2>1, <2>2

(***************************************************************************)
(* remove(), popFront() and popBack() of either list.                      *)
(***************************************************************************)
LEMMA Removed ==
    ASSUME NEW l, NEW n \in Range(l.order)
    PROVE  /\ ListOk(l) => ListOk(freed(unlinkNode(l, n), n))
           /\ ChainOk(l) => ChainOk([unlinkNode(l, n) EXCEPT !.next[n] = nil, !.prev[n] = nil,
                                                             !.order = RemoveFirst(@, n)])
<1> DEFINE u == unlinkNode(l, n)
           nx == [u.next EXCEPT ![n] = nil]
           pv == [u.prev EXCEPT ![n] = nil]
           t == RemoveFirst(u.order, n)
           i == IF u.it = n THEN nil ELSE u.it
<1> SUFFICES ASSUME Threaded(l)
             PROVE  /\ ListOk(l) => ListOk(freed(u, n))
                    /\ ChainOk(l) => ChainOk([u EXCEPT !.next[n] = nil, !.prev[n] = nil,
                                                       !.order = RemoveFirst(@, n)])
  BY DEF ListOk, ChainOk
<1>1. PICK k \in 1..Len(l.order) : n = l.order[k]
  BY ThreadedFacts DEF Range
<1>2. /\ u \in ListRecords /\ u.size = l.size /\ u.order = l.order /\ u.it = l.it
      /\ u.head = IF l.prev[n] = nil THEN l.next[n] ELSE l.head
      /\ u.tail = IF l.next[n] = nil THEN l.prev[n] ELSE l.tail
      /\ \A m \in ListNodes : /\ u.next[m] = IF m = l.prev[n] THEN l.next[n] ELSE l.next[m]
                              /\ u.prev[m] = IF m = l.next[n] THEN l.prev[n] ELSE l.prev[m]
  BY <1>1, UnlinkFields
<1> HIDE DEF u
<1>3. n \in ListNodes /\ nil \in Links
  BY <1>1, ThreadedFacts DEF Links
<1>4. /\ nx \in [ListNodes -> Links] /\ pv \in [ListNodes -> Links] /\ nx[n] = nil /\ pv[n] = nil
      /\ \A m \in ListNodes : m # n => nx[m] = u.next[m] /\ pv[m] = u.prev[m]
  BY <1>2, <1>3 DEF ListRecords
<1>5. t = RemoveFirst(l.order, n) /\ t \in Seq(ListNodes)
  <2>1. l.order \in Seq(ListNodes) /\ Distinct(l.order)
    BY ThreadedFacts DEF Threaded
  <2>2. t = RemoveFirst(l.order, l.order[k])
    BY <1>1, <1>2
  <2> HIDE DEF t
  <2> QED
    BY <1>1, <2>1, <2>2, RemovedAt
<1>6. i \in Links
  BY <1>2, <1>3 DEF ListRecords
<1>7. freed(u, n) = [u EXCEPT !.size = @ - 1, !.next = nx, !.prev = pv, !.order = t, !.it = i]
  BY <1>2 DEF freed, ListRecords
<1>8. [u EXCEPT !.next[n] = nil, !.prev[n] = nil, !.order = RemoveFirst(@, n)]
        = [u EXCEPT !.next = nx, !.prev = pv, !.order = t]
  BY <1>2 DEF ListRecords
<1>9. i = IF l.it = n THEN nil ELSE l.it
  BY <1>2
<1> HIDE DEF nx, pv, t, i
<1>10. ASSUME ListOk(l) PROVE ListOk(freed(u, n))
  <2> DEFINE r == freed(u, n)
  <2>1. /\ r \in ListRecords /\ r.size = l.size - 1 /\ r.order = t /\ r.it = i
        /\ r.head = u.head /\ r.tail = u.tail /\ r.next = nx /\ r.prev = pv
    <3> DEFINE z == u.size - 1
    <3>1. z \in Int /\ z = l.size - 1
      BY <1>2 DEF ListRecords
    <3>2. r = [u EXCEPT !.size = z, !.next = nx, !.prev = pv, !.order = t, !.it = i]
      BY <1>2, <1>7 DEF ListRecords
    <3> HIDE DEF z, r
    <3> QED
      BY <1>2, <1>4, <1>5, <1>6, <3>1, <3>2 DEF ListRecords
  <2>2. l.size = Len(l.order) /\ l.it \in Range(l.order) \cup {nil}
    BY <1>10 DEF ListOk
  <2> HIDE DEF r
  <2>3. \A m \in ListNodes : m # n => /\ r.next[m] = IF m = l.prev[n] THEN l.next[n] ELSE l.next[m]
                                      /\ r.prev[m] = IF m = l.next[n] THEN l.prev[n] ELSE l.prev[m]
    BY <1>2, <1>4, <2>1
  <2>4. Threaded(r) /\ Len(r.order) = Len(l.order) - 1 /\ Range(r.order) = Range(l.order) \ {n}
    <3>1. TakenOut(l, n, r)
      BY <1>2, <2>1, <2>3 DEF TakenOut
    <3>2. r \in ListRecords /\ r.order = RemoveFirst(l.order, n)
      BY <1>5, <2>1
    <3> QED
      BY <1>1, <3>1, <3>2, NodeRemoved
  <2>5. ListOk(r)
    BY <1>9, <2>1, <2>2, <2>4 DEF ListOk
  <2> QED
    BY <2>5 DEF r
<1>11. ASSUME ChainOk(l) PROVE ChainOk([u EXCEPT !.next = nx, !.prev = pv, !.order = t])
  <2> DEFINE r == [u EXCEPT !.next = nx, !.prev = pv, !.order = t]
  <2>1. /\ r \in ListRecords /\ r.order = t
        /\ r.head = u.head /\ r.tail = u.tail /\ r.next = nx /\ r.prev = pv
    BY <1>2, <1>4, <1>5 DEF ListRecords
  <2>2. \A m \in ListNodes : m \notin Range(l.order) => l.next[m] = nil /\ l.prev[m] = nil
    BY <1>11 DEF ChainOk
  <2> HIDE DEF r
  <2>3. \A m \in ListNodes : m # n => /\ r.next[m] = IF m = l.prev[n] THEN l.next[n] ELSE l.next[m]
                                      /\ r.prev[m] = IF m = l.next[n] THEN l.prev[n] ELSE l.prev[m]
    BY <1>2, <1>4, <2>1
  <2>4. Threaded(r) /\ Range(r.order) = Range(l.order) \ {n}
    <3>1. TakenOut(l, n, r)
      BY <1>2, <2>1, <2>3 DEF TakenOut
    <3>2. r \in ListRecords /\ r.order = RemoveFirst(l.order, n)
      BY <1>5, <2>1
    <3> QED
      BY <1>1, <3>1, <3>2, NodeRemoved
  <2>5. l.next[n] \in Range(l.order) \cup {nil} /\ l.prev[n] \in Range(l.order) \cup {nil}
    BY HeadInRange
  <2>6. ASSUME NEW m \in ListNodes, m \notin Range(r.order) PROVE r.next[m] = nil /\ r.prev[m] = nil
    <3>1. CASE m = n
      BY <1>4, <2>1, <3>1
    <3>2. CASE m # n
      <4>1. m \notin Range(l.order) /\ m # l.next[n] /\ m # l.prev[n]
        BY <2>4, <2>5, <2>6, <3>2, NilIsNoNode
      <4> QED
        BY <2>2, <2>3, <3>2, <4>1
    <3> QED
      BY <3>1, <3>2
  <2>7. ChainOk(r)
    BY <2>4, <2>6 DEF ChainOk
  <2> QED
    BY <2>7 DEF r
<1> QED
  BY <1>8, <1>10, <1>11

(***************************************************************************)
(* A list that is pointer by pointer another one, and has its order, is as *)
(* good.                                                                   *)
(***************************************************************************)
LEMMA PointersRestored ==
    ASSUME NEW l, ListOk(l), NEW r \in ListRecords,
           r.head = l.head, r.tail = l.tail, r.size = l.size, r.order = l.order, r.it = l.it,
           r.next = l.next, r.prev = l.prev
    PROVE  ListOk(r)
<1>1. Threaded(l)
  BY DEF ListOk
<1>2. Threaded(r)
  BY <1>1 DEF Threaded, Linked
<1> QED
  BY <1>2 DEF ListOk

(***************************************************************************)
(* Where a node stands: what its neighbours' pointers are.                 *)
(***************************************************************************)
LEMMA Neighbours ==
    ASSUME NEW l, Threaded(l), NEW n \in Range(l.order)
    PROVE  /\ n \in ListNodes /\ l.next[n] \in Links /\ l.prev[n] \in Links
           /\ l.next[n] # nil => l.next[n] \in ListNodes /\ l.prev[l.next[n]] = n
           /\ l.prev[n] # nil => l.prev[n] \in ListNodes /\ l.next[l.prev[n]] = n
           /\ l.prev[n] = nil <=> l.head = n
           /\ l.next[n] = nil <=> l.tail = n
           /\ l.next[n] # n /\ l.prev[n] # n
<1> DEFINE s == l.order
<1>1. /\ Len(s) \in Nat /\ DOMAIN s = 1..Len(s) /\ Distinct(s)
      /\ \A i \in 1..Len(s) : s[i] \in ListNodes
  BY ThreadedFacts DEF Threaded
<1>2. /\ l.head = IF Len(s) = 0 THEN nil ELSE s[1]
      /\ l.tail = IF Len(s) = 0 THEN nil ELSE s[Len(s)]
      /\ \A i \in 1..Len(s) : /\ l.next[s[i]] = IF i = Len(s) THEN nil ELSE s[i + 1]
                              /\ l.prev[s[i]] = IF i = 1 THEN nil ELSE s[i - 1]
  BY ThreadedFacts
<1>3. PICK k \in 1..Len(s) : n = s[k]
  BY <1>1 DEF Range
<1> HIDE DEF s
<1>4. Len(s) \in Nat
  BY <1>1
<1>5. /\ k # Len(s) => k + 1 \in 1..Len(s) /\ k + 1 # 1 /\ k + 1 # k /\ (k + 1) - 1 = k
      /\ k # 1 => k - 1 \in 1..Len(s) /\ k - 1 # Len(s) /\ k - 1 # k /\ (k - 1) + 1 = k
      /\ 1 \in 1..Len(s) /\ Len(s) \in 1..Len(s) /\ Len(s) # 0
  BY <1>3, <1>4
<1>6. n \in ListNodes /\ n # nil
  BY <1>1, <1>3, NilIsNoNode
<1>7. /\ l.next[n] = IF k = Len(s) THEN nil ELSE s[k + 1]
      /\ l.prev[n] = IF k = 1 THEN nil ELSE s[k - 1]
  BY <1>2, <1>3
<1>8. l.next[n] # nil => l.next[n] \in ListNodes /\ l.prev[l.next[n]] = n /\ k # Len(s)
  <2> SUFFICES ASSUME l.next[n] # nil PROVE l.next[n] \in ListNodes /\ l.prev[l.next[n]] = n /\ k # Len(s)
    OBVIOUS
  <2>1. k # Len(s) /\ l.next[n] = s[k + 1]
    BY <1>7
  <2> QED
    BY <1>1, <1>2, <1>3, <1>5, <2>1
<1>9. l.prev[n] # nil => l.prev[n] \in ListNodes /\ l.next[l.prev[n]] = n /\ k # 1
  <2> SUFFICES ASSUME l.prev[n] # nil PROVE l.prev[n] \in ListNodes /\ l.next[l.prev[n]] = n /\ k # 1
    OBVIOUS
  <2>1. k # 1 /\ l.prev[n] = s[k - 1]
    BY <1>7
  <2> QED
    BY <1>1, <1>2, <1>3, <1>5, <2>1
<1>10. (l.prev[n] = nil <=> k = 1) /\ (l.next[n] = nil <=> k = Len(s))
  <2>1. (k # 1 => s[k - 1] # nil) /\ (k # Len(s) => s[k + 1] # nil)
    BY <1>1, <1>5, NilIsNoNode
  <2> QED
    BY <1>7, <2>1
<1>11. (l.head = n <=> k = 1) /\ (l.tail = n <=> k = Len(s))
  <2>1. l.head = s[1] /\ l.tail = s[Len(s)]
    BY <1>2, <1>5
  <2> QED
    BY <1>1, <1>3, <1>5, <2>1 DEF Distinct
<1>12. l.next[n] # n /\ l.prev[n] # n
  <2>1. (k # 1 => s[k - 1] # s[k]) /\ (k # Len(s) => s[k + 1] # s[k])
    BY <1>1, <1>3, <1>5 DEF Distinct
  <2> QED
    BY <1>3, <1>6, <1>7, <2>1
<1>13. l.next[n] \in Links /\ l.prev[n] \in Links
  BY <1>8, <1>9 DEF Links
<1> QED
  BY <1>6, <1>8, <1>9, <1>10, <1>11, <1>12, <1>13

(***************************************************************************)
(* remove() of a node the allocator refuses puts it back completely.       *)
(***************************************************************************)
LEMMA Relinked ==
    ASSUME NEW l, ListOk(l), NEW n \in Range(l.order)
    PROVE  ListOk(relinkNode(unlinkNode(l, n), n))
<1> DEFINE u == unlinkNode(l, n)
           r == relinkNode(u, n)
           nx == [m \in ListNodes |-> IF m = u.prev[n] THEN n ELSE u.next[m]]
           pv == [m \in ListNodes |-> IF m = u.next[n] THEN n ELSE u.prev[m]]
           hd == IF u.prev[n] = nil THEN n ELSE u.head
           tl == IF u.next[n] = nil THEN n ELSE u.tail
<1>1. Threaded(l)
  BY DEF ListOk
<1>2. PICK k \in 1..Len(l.order) : n = l.order[k]
  BY <1>1, ThreadedFacts DEF Range
<1>3. /\ u \in ListRecords /\ u.size = l.size /\ u.order = l.order /\ u.it = l.it
      /\ u.head = IF l.prev[n] = nil THEN l.next[n] ELSE l.head
      /\ u.tail = IF l.next[n] = nil THEN l.prev[n] ELSE l.tail
      /\ \A m \in ListNodes : /\ u.next[m] = IF m = l.prev[n] THEN l.next[n] ELSE l.next[m]
                              /\ u.prev[m] = IF m = l.next[n] THEN l.prev[n] ELSE l.prev[m]
  BY <1>1, <1>2, UnlinkFields
<1> HIDE DEF u
<1>4. r = [u EXCEPT !.head = hd, !.tail = tl, !.next = nx, !.prev = pv]
  BY <1>3 DEF relinkNode, ListRecords
<1>5. /\ n \in ListNodes /\ l.next[n] \in Links /\ l.prev[n] \in Links
      /\ l.next[n] # nil => l.next[n] \in ListNodes /\ l.prev[l.next[n]] = n
      /\ l.prev[n] # nil => l.prev[n] \in ListNodes /\ l.next[l.prev[n]] = n
      /\ l.prev[n] = nil <=> l.head = n
      /\ l.next[n] = nil <=> l.tail = n
      /\ l.next[n] # n /\ l.prev[n] # n
  BY <1>1, Neighbours
<1>6. u.next[n] = l.next[n] /\ u.prev[n] = l.prev[n]
  BY <1>3, <1>5
<1>7. hd = l.head /\ tl = l.tail
  BY <1>3, <1>5, <1>6
<1>8. l.next \in [ListNodes -> Links] /\ l.prev \in [ListNodes -> Links] /\ l.head \in Links /\ l.tail \in Links
  BY <1>1, ThreadedFacts
<1>9. ASSUME NEW m \in ListNodes PROVE nx[m] = l.next[m] /\ pv[m] = l.prev[m]
  BY <1>3, <1>5, <1>6, NilIsNoNode
<1>10. nx = l.next /\ pv = l.prev
  <2>1. nx = [m \in ListNodes |-> nx[m]] /\ pv = [m \in ListNodes |-> pv[m]]
    OBVIOUS
  <2>2. l.next = [m \in ListNodes |-> l.next[m]] /\ l.prev = [m \in ListNodes |-> l.prev[m]]
    BY <1>8
  <2> HIDE DEF nx, pv
  <2> QED
    BY <1>9, <2>1, <2>2
<1> HIDE DEF r, nx, pv, hd, tl
<1>11. /\ r \in ListRecords /\ r.head = l.head /\ r.tail = l.tail /\ r.next = l.next /\ r.prev = l.prev
       /\ r.size = l.size /\ r.order = l.order /\ r.it = l.it
  BY <1>3, <1>4, <1>7, <1>8, <1>10 DEF ListRecords
<1>12. ListOk(r)
  BY <1>11, PointersRestored
<1> QED
  BY <1>12 DEF r, u

(***************************************************************************)
(* A popFront() whose node the allocator refuses restores the list, unless *)
(* it was the only one.                                                    *)
(***************************************************************************)
LEMMA PopFrontUndone ==
    ASSUME NEW l, ListOk(l), l.head # nil
    PROVE  LET gone == unlinkNode(l, l.head)
               r == [gone EXCEPT
                       !.head = l.head,
                       !.prev = [m \in ListNodes |-> IF m = gone.head THEN l.head ELSE @[m]],
                       !.torn = gone.tail = nil]
           IN  ~r.torn => ListOk(r)
<1> DEFINE n == l.head
           u == unlinkNode(l, n)
           pv == [m \in ListNodes |-> IF m = u.head THEN n ELSE u.prev[m]]
           torn == (u.tail = nil)
           r == [u EXCEPT !.head = n, !.prev = [m \in ListNodes |-> IF m = u.head THEN n ELSE @[m]],
                          !.torn = u.tail = nil]
<1>1. Threaded(l)
  BY DEF ListOk
<1>2. n \in Range(l.order) /\ l.prev[n] = nil
  BY <1>1, HeadInRange, Neighbours
<1>3. PICK k \in 1..Len(l.order) : n = l.order[k]
  BY <1>1, <1>2, ThreadedFacts DEF Range
<1> HIDE DEF n
<1>4. /\ u \in ListRecords /\ u.size = l.size /\ u.order = l.order /\ u.it = l.it
      /\ u.head = IF l.prev[n] = nil THEN l.next[n] ELSE l.head
      /\ u.tail = IF l.next[n] = nil THEN l.prev[n] ELSE l.tail
      /\ \A m \in ListNodes : /\ u.next[m] = IF m = l.prev[n] THEN l.next[n] ELSE l.next[m]
                              /\ u.prev[m] = IF m = l.next[n] THEN l.prev[n] ELSE l.prev[m]
  BY <1>1, <1>3, UnlinkFields
<1> HIDE DEF u
<1>5. /\ n \in ListNodes /\ l.next[n] \in Links
      /\ l.next[n] # nil => l.next[n] \in ListNodes /\ l.prev[l.next[n]] = n
  BY <1>1, <1>2, Neighbours
<1>6. l.next \in [ListNodes -> Links] /\ l.prev \in [ListNodes -> Links] /\ l.head \in Links /\ l.tail \in Links
  BY <1>1, ThreadedFacts
<1>7. u.next = l.next
  <2>1. \A m \in ListNodes : u.next[m] = l.next[m]
    BY <1>2, <1>4, NilIsNoNode
  <2>2. u.next = [m \in ListNodes |-> u.next[m]] /\ l.next = [m \in ListNodes |-> l.next[m]]
    BY <1>4, <1>6 DEF ListRecords
  <2> QED
    BY <2>1, <2>2
<1>8. pv = l.prev
  <2>1. \A m \in ListNodes : pv[m] = l.prev[m]
    BY <1>2, <1>4, <1>5, NilIsNoNode
  <2>2. pv = [m \in ListNodes |-> pv[m]] /\ l.prev = [m \in ListNodes |-> l.prev[m]]
    BY <1>6
  <2> HIDE DEF pv
  <2> QED
    BY <2>1, <2>2
<1>9. r = [u EXCEPT !.head = n, !.prev = pv, !.torn = torn]
  BY <1>4 DEF ListRecords
<1>10. torn \in BOOLEAN
  OBVIOUS
<1>11. ~torn => u.tail = l.tail
  BY <1>2, <1>4
<1> HIDE DEF r, pv, torn
<1>12. /\ r \in ListRecords /\ r.head = n /\ r.tail = u.tail /\ r.next = l.next /\ r.prev = l.prev
       /\ r.size = l.size /\ r.order = l.order /\ r.it = l.it /\ r.torn = torn
  BY <1>4, <1>6, <1>7, <1>8, <1>9, <1>10 DEF ListRecords, n
<1>13. ~r.torn => ListOk(r)
  BY <1>11, <1>12, PointersRestored DEF n
<1> QED
  BY <1>13 DEF r, u, n

(***************************************************************************)
(* The same of popBack().                                                  *)
(***************************************************************************)
LEMMA PopBackUndone ==
    ASSUME NEW l, ListOk(l), l.tail # nil
    PROVE  LET gone == unlinkNode(l, l.tail)
               r == [gone EXCEPT
                       !.tail = l.tail,
                       !.next = [m \in ListNodes |-> IF m = gone.tail THEN l.tail ELSE @[m]],
                       !.torn = gone.head = nil]
           IN  ~r.torn => ListOk(r)
<1> DEFINE n == l.tail
           u == unlinkNode(l, n)
           nx == [m \in ListNodes |-> IF m = u.tail THEN n ELSE u.next[m]]
           torn == (u.head = nil)
           r == [u EXCEPT !.tail = n, !.next = [m \in ListNodes |-> IF m = u.tail THEN n ELSE @[m]],
                          !.torn = u.head = nil]
<1>1. Threaded(l)
  BY DEF ListOk
<1>2. n \in Range(l.order) /\ l.next[n] = nil
  BY <1>1, HeadInRange, Neighbours
<1>3. PICK k \in 1..Len(l.order) : n = l.order[k]
  BY <1>1, <1>2, ThreadedFacts DEF Range
<1> HIDE DEF n
<1>4. /\ u \in ListRecords /\ u.size = l.size /\ u.order = l.order /\ u.it = l.it
      /\ u.head = IF l.prev[n] = nil THEN l.next[n] ELSE l.head
      /\ u.tail = IF l.next[n] = nil THEN l.prev[n] ELSE l.tail
      /\ \A m \in ListNodes : /\ u.next[m] = IF m = l.prev[n] THEN l.next[n] ELSE l.next[m]
                              /\ u.prev[m] = IF m = l.next[n] THEN l.prev[n] ELSE l.prev[m]
  BY <1>1, <1>3, UnlinkFields
<1> HIDE DEF u
<1>5. /\ n \in ListNodes /\ l.prev[n] \in Links
      /\ l.prev[n] # nil => l.prev[n] \in ListNodes /\ l.next[l.prev[n]] = n
  BY <1>1, <1>2, Neighbours
<1>6. l.next \in [ListNodes -> Links] /\ l.prev \in [ListNodes -> Links] /\ l.head \in Links /\ l.tail \in Links
  BY <1>1, ThreadedFacts
<1>7. u.prev = l.prev
  <2>1. \A m \in ListNodes : u.prev[m] = l.prev[m]
    BY <1>2, <1>4, NilIsNoNode
  <2>2. u.prev = [m \in ListNodes |-> u.prev[m]] /\ l.prev = [m \in ListNodes |-> l.prev[m]]
    BY <1>4, <1>6 DEF ListRecords
  <2> QED
    BY <2>1, <2>2
<1>8. nx = l.next
  <2>1. \A m \in ListNodes : nx[m] = l.next[m]
    BY <1>2, <1>4, <1>5, NilIsNoNode
  <2>2. nx = [m \in ListNodes |-> nx[m]] /\ l.next = [m \in ListNodes |-> l.next[m]]
    BY <1>6
  <2> HIDE DEF nx
  <2> QED
    BY <2>1, <2>2
<1>9. r = [u EXCEPT !.tail = n, !.next = nx, !.torn = torn]
  BY <1>4 DEF ListRecords
<1>10. torn \in BOOLEAN
  OBVIOUS
<1>11. ~torn => u.head = l.head
  BY <1>2, <1>4
<1> HIDE DEF r, nx, torn
<1>12. /\ r \in ListRecords /\ r.tail = n /\ r.head = u.head /\ r.next = l.next /\ r.prev = l.prev
       /\ r.size = l.size /\ r.order = l.order /\ r.it = l.it /\ r.torn = torn
  BY <1>4, <1>6, <1>7, <1>8, <1>9, <1>10 DEF ListRecords, n
<1>13. ~r.torn => ListOk(r)
  BY <1>11, <1>12, PointersRestored DEF n
<1> QED
  BY <1>13 DEF r, u, n

(***************************************************************************)
(* clear() that stops at the (k+1)-th node.                                *)
(***************************************************************************)
LEMMA FreedFirst ==
    ASSUME NEW l, ListOk(l), NEW k \in 0..Len(l.order)
    PROVE  ListOk(freedFirst(l, k))
<1> DEFINE s == l.order
           gone == {s[i] : i \in 1..k}
           t == SubSeq(s, k + 1, Len(s))
           hd == IF t = <<>> THEN nil ELSE Head(t)
           tl == IF t = <<>> THEN nil ELSE l.tail
           nx == [m \in ListNodes |-> IF m \in gone THEN nil ELSE l.next[m]]
           pv == [m \in ListNodes |-> IF m \in gone \/ (t # <<>> /\ m = Head(t)) THEN nil ELSE l.prev[m]]
           i0 == IF l.it \in gone THEN nil ELSE l.it
           z == l.size - k
           r == freedFirst(l, k)
<1>1. Threaded(l) /\ l \in ListRecords /\ l.size = Len(s) /\ l.it \in Range(s) \cup {nil}
  BY DEF ListOk, Threaded
<1>2. /\ s \in Seq(ListNodes) /\ Len(s) \in Nat /\ DOMAIN s = 1..Len(s) /\ Distinct(s)
      /\ \A i \in 1..Len(s) : s[i] \in ListNodes
  BY <1>1, ThreadedFacts DEF Threaded
<1>3. /\ l.head = IF Len(s) = 0 THEN nil ELSE s[1]
      /\ l.tail = IF Len(s) = 0 THEN nil ELSE s[Len(s)]
      /\ \A i \in 1..Len(s) : /\ l.next[s[i]] = IF i = Len(s) THEN nil ELSE s[i + 1]
                              /\ l.prev[s[i]] = IF i = 1 THEN nil ELSE s[i - 1]
  BY <1>1, ThreadedFacts
<1>4. r = [l EXCEPT !.size = z, !.order = t, !.head = hd, !.tail = tl, !.next = nx, !.prev = pv, !.it = i0]
  BY <1>1 DEF freedFirst, ListRecords
<1>5. Len(s) \in Nat /\ k \in 0..Len(s)
  BY <1>2
<1>6. t \in Seq(ListNodes) /\ Len(t) = Len(s) - k /\ \A i \in 1..(Len(s) - k) : t[i] = s[k + i]
  <2>1. t \in Seq(ListNodes) /\ Len(t) = IF k + 1 <= Len(s) THEN Len(s) - (k + 1) + 1 ELSE 0
    BY <1>2, <1>5, SubSeqProperties
  <2>2. \A i \in 1..(Len(s) - (k + 1) + 1) : t[i] = s[(k + 1) + i - 1]
    BY <1>2, <1>5, SubSeqProperties
  <2> HIDE DEF s, t
  <2>3. Len(t) = Len(s) - k
    BY <1>5, <2>1
  <2>4. ASSUME NEW i \in 1..(Len(s) - k) PROVE t[i] = s[k + i]
    <3>1. i \in 1..(Len(s) - (k + 1) + 1) /\ (k + 1) + i - 1 = k + i
      BY <1>5
    <3> QED
      BY <2>2, <3>1
  <2> QED
    BY <2>1, <2>3, <2>4
<1>7. (t = <<>> <=> Len(t) = 0) /\ (Len(t) # 0 => Head(t) = t[1])
  <2> HIDE DEF t
  <2> QED
    BY <1>6, EmptySeq, HeadTailProperties
<1> HIDE DEF s, t
<1>8. \A i \in 1..Len(t) : k + i \in 1..Len(s) /\ k + i \notin 1..k /\ t[i] = s[k + i] /\ i \in Nat
  <2>1. ASSUME NEW i \in 1..Len(t) PROVE k + i \in 1..Len(s) /\ k + i \notin 1..k /\ i \in 1..(Len(s) - k) /\ i \in Nat
    BY <1>5, <1>6
  <2> QED
    BY <1>6, <2>1
<1>9. \A i \in 1..k : i \in 1..Len(s)
  BY <1>5
<1>10. \A i \in 1..Len(t) : t[i] \in ListNodes /\ t[i] \notin gone
  BY <1>2, <1>8, <1>9 DEF Distinct
<1>11. Distinct(t)
  <2> SUFFICES ASSUME NEW i \in 1..Len(t), NEW j \in 1..Len(t), t[i] = t[j] PROVE i = j
    BY DEF Distinct
  <2>1. s[k + i] = s[k + j] /\ k + i \in 1..Len(s) /\ k + j \in 1..Len(s) /\ i \in Nat /\ j \in Nat
    BY <1>8
  <2>2. k + i = k + j
    BY <1>2, <2>1 DEF Distinct
  <2> QED
    BY <1>5, <2>1, <2>2
<1>12. hd = IF Len(t) = 0 THEN nil ELSE t[1]
  BY <1>7
<1>13. tl = IF Len(t) = 0 THEN nil ELSE t[Len(t)]
  <2>1. CASE Len(t) = 0
    BY <1>7, <2>1
  <2>2. CASE Len(t) # 0
    <3>1. Len(t) \in 1..Len(t) /\ k + Len(t) = Len(s) /\ Len(s) # 0
      BY <1>5, <1>6, <2>2
    <3> QED
      BY <1>3, <1>7, <1>8, <2>2, <3>1
  <2> QED
    BY <2>1, <2>2
<1>14. ASSUME NEW i \in 1..Len(t)
       PROVE  /\ nx[t[i]] = IF i = Len(t) THEN nil ELSE t[i + 1]
              /\ pv[t[i]] = IF i = 1 THEN nil ELSE t[i - 1]
  <2>1. t[i] \in ListNodes /\ t[i] \notin gone /\ t[i] = s[k + i] /\ k + i \in 1..Len(s)
    BY <1>8, <1>10
  <2>2. Len(t) # 0 /\ 1 \in 1..Len(t)
    BY <1>5, <1>6
  <2>3. Len(t) \in Nat /\ Len(t) = Len(s) - k
    BY <1>5, <1>6
  <2>4. nx[t[i]] = IF k + i = Len(s) THEN nil ELSE s[(k + i) + 1]
    BY <1>3, <2>1
  <2>5. nx[t[i]] = IF i = Len(t) THEN nil ELSE t[i + 1]
    <3>1. i # Len(t) => i + 1 \in 1..Len(t) /\ k + (i + 1) = (k + i) + 1 /\ k + i # Len(s)
      BY <1>5, <2>3
    <3>2. i = Len(t) => k + i = Len(s)
      BY <1>5, <2>3
    <3> QED
      BY <1>8, <2>4, <3>1, <3>2
  <2>6. t[i] = Head(t) <=> i = 1
    BY <1>7, <1>11, <2>2 DEF Distinct
  <2>7. pv[t[i]] = IF i = 1 THEN nil ELSE IF k + i = 1 THEN nil ELSE s[(k + i) - 1]
    BY <1>3, <1>7, <2>1, <2>2, <2>6
  <2>8. pv[t[i]] = IF i = 1 THEN nil ELSE t[i - 1]
    <3>1. i # 1 => i - 1 \in 1..Len(t) /\ k + (i - 1) = (k + i) - 1 /\ k + i # 1
      BY <1>5, <2>3
    <3> QED
      BY <1>8, <2>7, <3>1
  <2> QED
    BY <2>5, <2>8
<1>15. nx \in [ListNodes -> Links] /\ pv \in [ListNodes -> Links] /\ hd \in Links /\ tl \in Links
       /\ i0 \in Links /\ z \in Int
  <2>1. l.next \in [ListNodes -> Links] /\ l.prev \in [ListNodes -> Links] /\ l.tail \in Links /\ l.it \in Links
    BY <1>1 DEF ListRecords
  <2>2. nil \in Links
    BY DEF Links
  <2>3. nx \in [ListNodes -> Links] /\ pv \in [ListNodes -> Links]
    BY <2>1, <2>2
  <2>4. Len(t) # 0 => t[1] \in Links
    <3>1. Len(t) # 0 => 1 \in 1..Len(t)
      BY <1>5, <1>6
    <3> QED
      BY <1>10, <3>1 DEF Links
  <2>5. hd \in Links /\ tl \in Links /\ i0 \in Links
    BY <1>12, <2>1, <2>2, <2>4
  <2>6. z \in Int
    BY <1>1, <1>5
  <2> QED
    BY <2>3, <2>5, <2>6
<1>16. i0 \in Range(t) \cup {nil}
  <2> SUFFICES ASSUME l.it # nil, l.it \notin gone PROVE l.it \in Range(t)
    OBVIOUS
  <2>1. PICK j \in 1..Len(s) : l.it = s[j]
    BY <1>1, <1>2 DEF Range
  <2>2. j \notin 1..k
    BY <2>1
  <2>3. j - k \in 1..Len(t) /\ k + (j - k) = j
    BY <1>5, <1>6, <2>2
  <2>4. DOMAIN t = 1..Len(t)
    BY <1>6, LenProperties
  <2> QED
    BY <1>8, <2>1, <2>3, <2>4 DEF Range
<1>17. z = Len(t)
  BY <1>1, <1>6
<1> HIDE DEF nx, pv, hd, tl, i0, z, r
<1>18. /\ r \in ListRecords /\ r.order = t /\ r.size = z /\ r.head = hd /\ r.tail = tl
       /\ r.next = nx /\ r.prev = pv /\ r.it = i0
  BY <1>1, <1>4, <1>6, <1>15 DEF ListRecords
<1>19. Threaded(r)
  BY <1>11, <1>12, <1>13, <1>14, <1>18, ThreadedIf
<1>20. ListOk(r)
  BY <1>16, <1>17, <1>18, <1>19 DEF ListOk
<1> QED
  BY <1>20 DEF r

(***************************************************************************)
(* The iterator moves from node to node, or past an end.                   *)
(***************************************************************************)
LEMMA IteratorMoved ==
    ASSUME ListOk(nodeList), moveIterator
    PROVE  ListOk(nodeList')
<1>1. Threaded(nodeList) /\ nodeList \in ListRecords /\ nodeList.size = Len(nodeList.order)
      /\ nodeList.it \in Range(nodeList.order) \cup {nil}
  BY DEF ListOk, Threaded
<1>2. PICK n \in {nodeList.head, nodeList.tail}
             \cup (IF nodeList.it = nil THEN {nil} ELSE {nodeList.next[nodeList.it], nodeList.prev[nodeList.it]}) :
         nodeList' = [nodeList EXCEPT !.it = n]
  BY DEF moveIterator
<1>3. n \in Range(nodeList.order) \cup {nil}
  BY <1>1, <1>2, HeadInRange
<1>4. Range(nodeList.order) \subseteq ListNodes
  BY <1>1, ThreadedFacts DEF Range
<1>5. n \in Links
  BY <1>3, <1>4 DEF Links
<1>6. /\ nodeList' \in ListRecords /\ nodeList'.it = n
      /\ nodeList'.head = nodeList.head /\ nodeList'.tail = nodeList.tail
      /\ nodeList'.next = nodeList.next /\ nodeList'.prev = nodeList.prev
      /\ nodeList'.order = nodeList.order /\ nodeList'.size = nodeList.size
  BY <1>1, <1>2, <1>5 DEF ListRecords
<1>7. Threaded(nodeList')
  BY <1>1, <1>6 DEF Threaded, Linked
<1> QED
  BY <1>1, <1>3, <1>6, <1>7 DEF ListOk

(***************************************************************************)
(* The strengthened invariant holds of every behaviour.                    *)
(***************************************************************************)
THEOREM ListInvariance == ListSpec => []ListIInv
<1>1. ListInit => ListIInv
  <2>1. ListOk(EmptyList) /\ ChainOk(EmptyList)
    BY EmptyThreaded DEF ListOk, ChainOk
  <2> QED
    BY <2>1 DEF ListInit, ListIInv
<1>2. ASSUME ListIInv, ListStep, UNCHANGED chain PROVE ListIInv'
  <2>1. ListOk(nodeList) /\ ChainOk(chain')
    BY <1>2 DEF ListIInv, ListStep
  <2>2. ASSUME NEW n \in ListNodes, pushFront(n) \/ pushBack(n) PROVE ListOk(nodeList')
    <3>1. CASE pushFront(n)
      BY <2>1, <3>1, PushedFront DEF pushFront, FreeNodes
    <3>2. CASE pushBack(n)
      BY <2>1, <3>2, PushedBack DEF pushBack, FreeNodes
    <3> QED
      BY <2>2, <3>1, <3>2
  <2>3. ASSUME NEW n \in ListNodes, listRemove(n) PROVE ListOk(nodeList')
    BY <2>1, <2>3, Removed DEF listRemove
  <2>4. ASSUME NEW n \in ListNodes, listRemoveFails(n) PROVE ListOk(nodeList')
    BY <2>1, <2>4, Relinked DEF listRemoveFails
  <2>5. ASSUME popFront \/ popBack PROVE ListOk(nodeList')
    <3>1. /\ nodeList.head # nil => nodeList.head \in Range(nodeList.order)
          /\ nodeList.tail # nil => nodeList.tail \in Range(nodeList.order)
      BY <2>1, HeadInRange DEF ListOk
    <3> QED
      BY <2>1, <2>5, <3>1, Removed DEF popFront, popBack
  <2>6. ASSUME popFrontFails PROVE ~nodeList'.torn => ListOk(nodeList')
    BY <2>1, <2>6, PopFrontUndone DEF popFrontFails
  <2>7. ASSUME popBackFails PROVE ~nodeList'.torn => ListOk(nodeList')
    BY <2>1, <2>7, PopBackUndone DEF popBackFails
  <2>8. ASSUME listClear PROVE ListOk(nodeList')
    BY <2>1, <2>8, FreedFirst DEF listClear
  <2>9. ASSUME moveIterator PROVE ListOk(nodeList')
    BY <2>1, <2>9, IteratorMoved
  <2>10. ~nodeList'.torn => ListOk(nodeList')
    BY <1>2, <2>2, <2>3, <2>4, <2>5, <2>6, <2>7, <2>8, <2>9 DEF ListStep
  <2> QED
    BY <2>1, <2>10 DEF ListIInv
<1>3. ASSUME ListIInv, ChainStep, UNCHANGED nodeList PROVE ListIInv'
  <2>1. ChainOk(chain) /\ (~nodeList'.torn => ListOk(nodeList'))
    BY <1>3 DEF ListIInv
  <2>2. ASSUME NEW n \in ListNodes, addFirst(n) \/ addLast(n) PROVE ChainOk(chain')
    <3>1. n \notin Range(chain.order)
      BY <2>2 DEF addFirst, addLast, FreeNodes
    <3>2. ASSUME addFirst(n) PROVE ChainOk(chain')
      <4>1. chain' = [linkFirst(chain, n) EXCEPT !.order = <<n>> \o @]
        BY <3>2 DEF addFirst
      <4>2. ChainOk([linkFirst(chain, n) EXCEPT !.order = <<n>> \o @])
        BY <2>1, <3>1, PushedFront
      <4> QED
        BY <4>1, <4>2
    <3>3. ASSUME addLast(n) PROVE ChainOk(chain')
      <4>1. chain' = [linkLast(chain, n) EXCEPT !.order = Append(@, n)]
        BY <3>3 DEF addLast
      <4>2. ChainOk([linkLast(chain, n) EXCEPT !.order = Append(@, n)])
        BY <2>1, <3>1, PushedBack
      <4> QED
        BY <4>1, <4>2
    <3> QED
      BY <2>2, <3>2, <3>3
  <2>3. ASSUME NEW n, chainRemove(n) PROVE ChainOk(chain')
    BY <2>1, <2>3, Removed DEF chainRemove
  <2>4. ASSUME chainClear PROVE ChainOk(chain')
    BY <2>4, EmptyThreaded DEF chainClear, ChainOk
  <2>5. ChainOk(chain')
    BY <1>3, <2>2, <2>3, <2>4 DEF ChainStep, removeFirst, removeLast
  <2> QED
    BY <2>1, <2>5 DEF ListIInv
<1>4. ASSUME ListIInv, UNCHANGED listVars PROVE ListIInv'
  <2>1. nodeList' = nodeList /\ chain' = chain
    BY <1>4 DEF listVars
  <2> QED
    BY <1>4, <2>1 DEF ListIInv
<1>5. ListIInv /\ [ListNext]_listVars => ListIInv'
  BY <1>2, <1>3, <1>4 DEF ListNext
<1> QED
  BY <1>1, <1>5, PTL DEF ListSpec

(***************************************************************************)
(* For any set of nodes and any calls, also of an allocator that refuses   *)
(* to free: both lists can be walked in either direction and hold what the *)
(* caller believes.  (List::deleteNode, EmbeddedList::remove)              *)
(***************************************************************************)
THEOREM ListsStayLinked == ListSpec => []ListsAreLinked
<1>1. ListIInv => ListsAreLinked
  BY DEF ListIInv, ListOk, ChainOk, Threaded, ListsAreLinked, ListIsLinked, ChainIsLinked, FreeNodes
<1> QED
  BY <1>1, ListInvariance, PTL

-----------------------------------------------------------------------------
(***************************************************************************)
(* Every set of natural numbers that is not empty has a least one.  What a *)
(* loop stops at is the least of the positions that end it, so that this   *)
(* takes the place of an induction over its steps.                         *)
(***************************************************************************)
LEMMA Least ==
    ASSUME NEW T \in SUBSET Nat, T # {}
    PROVE  Min(T) \in T /\ \A y \in T : Min(T) <= y
<1>1. \E x \in T : \A y \in T : ~(<<y, x>> \in OpToRel(<, Nat))
  BY NatLessThanWellFounded, WFMin
<1>2. PICK x \in T : \A y \in T : ~(<<y, x>> \in OpToRel(<, Nat))
  BY <1>1
<1>3. \A y \in T : ~(y < x)
  BY <1>2 DEF OpToRel
<1>4. \E z \in T : \A y \in T : z <= y
  BY <1>3
<1> QED
  BY <1>4 DEF Min

(***************************************************************************)
(* Where the loop from the front stops, and what it has compared by then.  *)
(***************************************************************************)
LEMMA ForwardStops ==
    ASSUME NEW S, NEW pattern \in Seq(S), NEW host \in Seq(S)
    PROVE  LET i == ForwardStop(pattern, host) IN
           /\ i \in 1..(Len(host) + 1) /\ ForwardEnds(pattern, host, i)
           /\ \A j \in 1..(i - 1) : /\ j <= Len(pattern) /\ j <= Len(host)
                                    /\ pattern[j] # Star /\ pattern[j] = host[j]
<1> DEFINE T == {i \in 1..(Len(host) + 1) : ForwardEnds(pattern, host, i)}
           i == ForwardStop(pattern, host)
<1>1. Len(host) \in Nat /\ Len(pattern) \in Nat
  BY LenProperties
<1>2. Len(host) + 1 \in T
  BY <1>1 DEF ForwardEnds
<1>3. T \in SUBSET Nat /\ T # {}
  BY <1>1, <1>2
<1>4. i = Min(T)
  BY DEF ForwardStop
<1> HIDE DEF T, i
<1>5. i \in T /\ \A y \in T : i <= y
  BY <1>3, <1>4, Least
<1>6. i \in 1..(Len(host) + 1) /\ ForwardEnds(pattern, host, i)
  BY <1>5 DEF T
<1>7. ASSUME NEW j \in 1..(i - 1)
      PROVE  /\ j <= Len(pattern) /\ j <= Len(host)
             /\ pattern[j] # Star /\ pattern[j] = host[j]
  <2>1. j \in 1..(Len(host) + 1) /\ ~(i <= j)
    BY <1>1, <1>6
  <2>2. ~ForwardEnds(pattern, host, j)
    BY <1>5, <2>1 DEF T
  <2>3. ~(j > Len(pattern)) /\ ~(j > Len(host)) /\ pattern[j] # Star /\ pattern[j] = host[j]
    BY <2>2 DEF ForwardEnds
  <2>4. j \in Nat
    BY <1>1, <2>1
  <2> QED
    BY <1>1, <2>3, <2>4
<1> QED
  BY <1>6, <1>7 DEF i

(***************************************************************************)
(* Where the loop from the end stops, and what it has compared by then.    *)
(***************************************************************************)
LEMMA ReverseStops ==
    ASSUME NEW S, NEW pattern \in Seq(S), NEW host \in Seq(S), Len(pattern) # 0, Len(host) # 0
    PROVE  LET n == ReverseStop(pattern, host) IN
           /\ n \in 0..(Len(host) - 1) /\ n < Len(pattern) /\ ReverseEnds(pattern, host, n)
           /\ \A m \in 0..(n - 1) : /\ pattern[Len(pattern) - m] # Star
                                    /\ pattern[Len(pattern) - m] = host[Len(host) - m]
<1> DEFINE T == {n \in 0..(Len(host) - 1) : n < Len(pattern) /\ ReverseEnds(pattern, host, n)}
           n == ReverseStop(pattern, host)
           shorter == IF Len(host) <= Len(pattern) THEN Len(host) - 1 ELSE Len(pattern) - 1
<1>1. Len(host) \in Nat \ {0} /\ Len(pattern) \in Nat \ {0}
  BY LenProperties
<1>2. shorter \in T
  BY <1>1 DEF ReverseEnds
<1>3. T \in SUBSET Nat /\ T # {}
  BY <1>1, <1>2
<1>4. n = Min(T)
  BY DEF ReverseStop
<1> HIDE DEF T, n
<1>5. n \in T /\ \A y \in T : n <= y
  BY <1>3, <1>4, Least
<1>6. n \in 0..(Len(host) - 1) /\ n < Len(pattern) /\ ReverseEnds(pattern, host, n)
  BY <1>5 DEF T
<1>7. ASSUME NEW m \in 0..(n - 1)
      PROVE  pattern[Len(pattern) - m] # Star /\ pattern[Len(pattern) - m] = host[Len(host) - m]
  <2>1. m \in 0..(Len(host) - 1) /\ m < Len(pattern) /\ ~(n <= m)
    BY <1>1, <1>6
  <2>2. ~ReverseEnds(pattern, host, m)
    BY <1>5, <2>1 DEF T
  <2> QED
    BY <2>2 DEF ReverseEnds
<1> QED
  BY <1>6, <1>7 DEF n

(***************************************************************************)
(* For names of any length, a pattern with at most one "*" and any host:   *)
(* StringWildcardMatch takes exactly what Accepts says.  It refuses no     *)
(* host that the pattern means, and takes one too many only when the host  *)
(* is shorter than the pattern.  (ESBString.cpp, both loops and their      *)
(* early returns)                                                          *)
(***************************************************************************)
THEOREM WildcardMatchIsExact ==
    ASSUME NEW S, NEW pattern \in Seq(S), NEW host \in Seq(S), AtMostOneStar(pattern)
    PROVE  /\ StringWildcardMatch(pattern, host) >= 0 <=> Accepts(pattern, host)
           /\ Matches(pattern, host) => Accepts(pattern, host)
           /\ Accepts(pattern, host) /\ Len(host) >= Len(pattern) => Matches(pattern, host)
<1> DEFINE P == Len(pattern)
           H == Len(host)
           i == ForwardStop(pattern, host)
           n == ReverseStop(pattern, host)
           f == ForwardMatch(pattern, host)
           r == ReverseMatch(pattern, host)
           v == StringWildcardMatch(pattern, host)
           Before(k) == \A j \in 1..(k - 1) : pattern[j] = host[j]
           After(k) == \A j \in (k + 1)..P : H - P + j = 1 \/ pattern[j] = host[H - P + j]
           TakesUpTo(k) == /\ pattern[k] = Star /\ H >= P - 2 /\ H # 0 /\ H >= k - 1 /\ H >= P - k
                           /\ Before(k) /\ After(k)
<1>1. P \in Nat /\ H \in Nat /\ DOMAIN pattern = 1..P /\ DOMAIN host = 1..H
  BY LenProperties
<1>2. /\ i \in 1..(H + 1) /\ ForwardEnds(pattern, host, i)
      /\ \A j \in 1..(i - 1) : j <= P /\ j <= H /\ pattern[j] # Star /\ pattern[j] = host[j]
  BY ForwardStops
<1>3. P # 0 /\ H # 0 => /\ n \in 0..(H - 1) /\ n < P /\ ReverseEnds(pattern, host, n)
                        /\ \A m \in 0..(n - 1) : /\ pattern[P - m] # Star /\ pattern[P - m] = host[H - m]
  BY ReverseStops
<1>4. f = IF P = 0 \/ H = 0 THEN <<IF P = H THEN 0 ELSE -1, FALSE>>
          ELSE IF i <= P /\ pattern[i] = Star THEN <<i - 1, TRUE>>
          ELSE <<IF i > H /\ i > P THEN i - 1 ELSE -1, FALSE>>
  BY DEF ForwardMatch
<1>5. r = IF P = 0 \/ H = 0 THEN IF P = H THEN 0 ELSE -1
          ELSE IF pattern[P - n] = Star THEN n
          ELSE IF n = H - 1 /\ (P - n = 1 \/ pattern[(P - n) - 1] = Star) THEN n + 1 ELSE -1
  BY DEF ReverseMatch
<1>6. v = IF f[1] < 0 THEN -1 ELSE IF ~f[2] THEN H - f[1]
          ELSE IF r < 0 THEN -1 ELSE H - f[1] - r + 1
  BY DEF StringWildcardMatch
<1>7. host = <<>> <=> H = 0
  BY EmptySeq
<1> HIDE DEF P, H, i, n, f, r, v
<1>8. pattern = host <=> P = H /\ \A j \in 1..P : pattern[j] = host[j]
  <2>1. pattern = [j \in DOMAIN pattern |-> pattern[j]] /\ host = [j \in DOMAIN host |-> host[j]]
    BY SeqDef
  <2> QED
    BY <1>1, <2>1
<1>9. Accepts(pattern, host) <=> pattern = host \/ \E k \in 1..P : TakesUpTo(k)
  BY <1>1, <1>7 DEF Accepts, P, H
<1>10. \A j, k \in 1..P : pattern[j] = Star /\ pattern[k] = Star => j = k
  BY <1>1 DEF AtMostOneStar
\* An empty name.
<1>11. ASSUME P = 0 \/ H = 0 PROVE v >= 0 <=> Accepts(pattern, host)
  <2>1. v = IF P = H THEN H ELSE -1
    <3>1. f = <<IF P = H THEN 0 ELSE -1, FALSE>>
      BY <1>4, <1>11
    <3>2. f[1] = (IF P = H THEN 0 ELSE -1) /\ f[2] = FALSE
      BY <3>1
    <3> QED
      BY <1>1, <1>6, <3>2
  <2>2. ~\E k \in 1..P : H # 0
    BY <1>1, <1>11
  <2>3. P = H => \A j \in 1..P : pattern[j] = host[j]
    BY <1>1, <1>11
  <2> QED
    BY <1>1, <1>8, <1>9, <2>1, <2>2, <2>3
\* No "*" up to where the loop stops.
<1>12. ASSUME P # 0, H # 0, ~(i <= P /\ pattern[i] = Star) PROVE v >= 0 <=> Accepts(pattern, host)
  <2>1. f[1] = (IF i > H /\ i > P THEN i - 1 ELSE -1) /\ f[2] = FALSE
    BY <1>4, <1>12
  <2>2. i \in 1..(H + 1) /\ \A j \in 1..(i - 1) : j <= P /\ j <= H /\ pattern[j] = host[j]
    BY <1>2
  <2>3. ASSUME i > H, i > P PROVE v >= 0 /\ pattern = host
    <3>1. i - 1 \in 1..(i - 1) \/ i = 1
      BY <1>1, <2>2
    <3>2. i - 1 <= P /\ i - 1 <= H
      BY <1>1, <1>12, <2>2, <2>3, <3>1
    <3>3. i - 1 = H /\ P = H
      BY <1>1, <2>2, <2>3, <3>2
    <3>4. v = 0
      BY <1>1, <1>6, <2>1, <2>3, <3>3
    <3> QED
      BY <1>8, <2>2, <3>3, <3>4
  <2>4. ASSUME ~(i > H /\ i > P) PROVE ~(v >= 0) /\ ~Accepts(pattern, host)
    <3>1. v = -1
      BY <1>6, <2>1, <2>4
    <3>2. i <= P => (i > H \/ pattern[i] # host[i])
      BY <1>1, <1>2, <1>12 DEF ForwardEnds, P, H
    <3>3. pattern # host
      BY <1>1, <1>2, <1>8, <2>4, <3>2
    <3>4. ASSUME NEW k \in 1..P, TakesUpTo(k) PROVE FALSE
      <4>1. ~(k <= i - 1)
        BY <1>1, <1>2, <3>4
      <4>2. k >= i /\ k # i
        BY <1>1, <1>2, <1>12, <3>4, <4>1
      <4>3. i \in 1..(k - 1) /\ i <= P /\ i <= H
        BY <1>1, <1>2, <3>4, <4>2
      <4>4. pattern[i] # host[i]
        BY <1>1, <3>2, <4>3
      <4> QED
        BY <3>4, <4>3, <4>4
    <3> QED
      BY <1>9, <3>1, <3>3, <3>4
  <2> QED
    BY <1>9, <2>3, <2>4
\* A "*" at i: the loop from the end must come to it.
<1>13. ASSUME P # 0, H # 0, i <= P, pattern[i] = Star PROVE v >= 0 <=> Accepts(pattern, host)
  <2>1. i \in 1..P /\ H >= i - 1
    BY <1>1, <1>2, <1>13
  <2>2. f[1] = i - 1 /\ f[2] = TRUE
    BY <1>4, <1>13
  <2>3. /\ n \in 0..(H - 1) /\ n < P /\ ReverseEnds(pattern, host, n)
        /\ \A m \in 0..(n - 1) : /\ pattern[P - m] # Star /\ pattern[P - m] = host[H - m]
    BY <1>3, <1>13
  <2>4. P - n \in 1..P
    BY <1>1, <2>3
  <2>5. Before(i)
    BY <1>2
  <2>6. v = IF r < 0 THEN -1 ELSE H - (i - 1) - r + 1
    BY <1>1, <1>2, <1>6, <2>1, <2>2
  \* A pattern with a "*" means itself only as one that takes the host.
  <2>7. ASSUME pattern = host PROVE TakesUpTo(i)
    <3>1. P = H /\ \A j \in 1..P : pattern[j] = host[j]
      BY <1>8, <2>7
    <3>2. After(i)
      <4> SUFFICES ASSUME NEW j \in (i + 1)..P PROVE pattern[j] = host[H - P + j]
        OBVIOUS
      <4>1. H - P + j = j /\ j \in 1..P
        BY <1>1, <2>1, <3>1
      <4> QED
        BY <3>1, <4>1
    <3> QED
      BY <1>1, <1>13, <2>1, <2>5, <3>1, <3>2
  <2>8. Accepts(pattern, host) <=> TakesUpTo(i)
    <3>1. ASSUME NEW k \in 1..P, TakesUpTo(k) PROVE k = i
      BY <1>10, <1>13, <2>1, <3>1
    <3> QED
      BY <1>9, <2>1, <2>7, <3>1
  <2>9. ASSUME pattern[P - n] = Star PROVE v >= 0 <=> TakesUpTo(i)
    <3>1. P - n = i
      BY <1>10, <1>13, <2>1, <2>4, <2>9
    <3>2. r = n
      BY <1>5, <1>13, <2>9
    <3>3. v >= 0 <=> H >= P - 2
      BY <1>1, <1>2, <2>1, <2>3, <2>6, <3>1, <3>2
    <3>4. After(i)
      <4> SUFFICES ASSUME NEW j \in (i + 1)..P PROVE pattern[j] = host[H - P + j]
        OBVIOUS
      <4>1. P - j \in 0..(n - 1) /\ P - (P - j) = j /\ H - (P - j) = H - P + j
        BY <1>1, <1>2, <2>3, <3>1
      <4> QED
        BY <2>3, <4>1
    <3>5. H >= P - i
      BY <1>1, <2>1, <2>3, <3>1
    <3> QED
      BY <1>13, <2>1, <2>5, <3>3, <3>4, <3>5
  <2>10. ASSUME pattern[P - n] # Star PROVE v >= 0 <=> TakesUpTo(i)
    \* The "*" lies before the place where the loop from the end stopped.
    <3>1. i < P - n
      <4>1. ASSUME i > P - n PROVE FALSE
        <5>1. P - i \in 0..(n - 1) /\ P - (P - i) = i
          BY <1>1, <2>1, <2>3, <4>1
        <5> QED
          BY <1>13, <2>3, <5>1
      <4>2. i # P - n
        BY <1>13, <2>10
      <4>3. i \in Int /\ P - n \in Int
        BY <1>1, <2>1, <2>4
      <4> QED
        BY <4>1, <4>2, <4>3
    <3>2. P - n # 1 /\ (P - n) - 1 \in 1..P
      BY <1>1, <2>1, <2>3, <3>1
    <3>3. H - n = 1 \/ pattern[P - n] # host[H - n]
      BY <2>3, <2>10, <3>2 DEF ReverseEnds, P, H
    \* The host ends just after the "*", its first character not compared.
    <3>4. ASSUME n = H - 1, pattern[(P - n) - 1] = Star PROVE v >= 0 <=> TakesUpTo(i)
      <4>1. P - n - 1 = i /\ P - i = H
        BY <1>1, <1>10, <1>13, <2>1, <2>3, <3>2, <3>4
      <4>2. r = n + 1
        BY <1>5, <1>13, <2>10, <3>4
      <4>3. v >= 0 <=> H >= P - 2
        BY <1>1, <1>2, <2>1, <2>3, <2>6, <4>1, <4>2
      <4>4. After(i)
        <5> SUFFICES ASSUME NEW j \in (i + 1)..P, H - P + j # 1 PROVE pattern[j] = host[H - P + j]
          OBVIOUS
        <5>1. P - j \in 0..(n - 1) /\ P - (P - j) = j /\ H - (P - j) = H - P + j
          BY <1>1, <1>2, <2>1, <2>3, <3>4, <4>1
        <5> QED
          BY <2>3, <5>1
      <4> QED
        BY <1>1, <1>13, <2>1, <2>5, <4>1, <4>3, <4>4
    <3>5. ASSUME ~(n = H - 1 /\ pattern[(P - n) - 1] = Star) PROVE ~(v >= 0) /\ ~TakesUpTo(i)
      <4>1. r = -1
        BY <1>5, <1>13, <2>10, <3>2, <3>5
      <4>2. v = -1
        BY <2>6, <4>1
      <4>3. ASSUME TakesUpTo(i) PROVE FALSE
        <5>1. P - n \in (i + 1)..P /\ H - P + (P - n) = H - n
          BY <1>1, <2>1, <2>3, <3>1
        <5>2. H - n = 1 \/ pattern[P - n] = host[H - n]
          BY <4>3, <5>1
        <5>3. n = H - 1
          BY <1>1, <2>3, <3>3, <5>2
        <5>4. (P - n) - 1 # i
          BY <1>13, <3>5, <5>3
        <5> QED
          BY <1>1, <2>1, <2>3, <3>1, <4>3, <5>3, <5>4
      <4> QED
        BY <4>2, <4>3
    <3> QED
      BY <3>4, <3>5
  <2> QED
    BY <2>8, <2>9, <2>10
<1>14. v >= 0 <=> Accepts(pattern, host)
  BY <1>11, <1>12, <1>13
<1>15. Matches(pattern, host) <=>
         \/ pattern = host
         \/ \E k \in 1..P : /\ pattern[k] = Star /\ H >= P - 1 /\ H # 0 /\ Before(k)
                            /\ \A j \in (k + 1)..P : pattern[j] = host[H - P + j]
  BY <1>1, <1>7 DEF Matches, P, H
<1>16. Matches(pattern, host) => Accepts(pattern, host)
  <2> SUFFICES ASSUME NEW k \in 1..P, pattern[k] = Star, H >= P - 1, H # 0, Before(k),
                      \A j \in (k + 1)..P : pattern[j] = host[H - P + j]
               PROVE  TakesUpTo(k)
    BY <1>9, <1>15
  <2> QED
    BY <1>1
<1>17. Accepts(pattern, host) /\ H >= P => Matches(pattern, host)
  <2> SUFFICES ASSUME NEW k \in 1..P, TakesUpTo(k), H >= P
               PROVE  \A j \in (k + 1)..P : pattern[j] = host[H - P + j]
    BY <1>1, <1>9, <1>15
  <2> QED
    BY <1>1
<1> QED
  BY <1>14, <1>16, <1>17 DEF v, P, H

-----------------------------------------------------------------------------
(***************************************************************************)
(* The connection pool (any slots, peers, names, certificates, contexts).  *)
(***************************************************************************)
AllCerts == Certs \cup {NoCert}

Names == Fqdns \cup {<<>>}

AnyPeer == Peers \cup {"client"}

AnyContext == TLSContexts \cup {"default", "none"}

Wants == [peer : AnyPeer, fqdn : Names, context : AnyContext]

SocketStates ==
    [kind : {"clear", "tls"}, side : {"client", "server"}, peer : AnyPeer, fqdn : Names,
     context : AnyContext, fd : BOOLEAN, sock : {"NEW", "CONNECTING", "CONNECTED"},
     link : {"none", "pending", "up", "down"}, ssl : BOOLEAN, tls : SUBSET {"ESTABLISHED", "DEAD"},
     sslCert : AllCerts, cert : AllCerts, asked : BOOLEAN, failed : BOOLEAN,
     wanted : Wants, reused : BOOLEAN]

\* An exchange completed on a TLS connection that did not fail had a session.
Sound(s) == s.kind = "tls" /\ s.asked /\ ~s.failed => Established(s)

\* Nothing has happened yet on a socket of this kind and side.
NewlyMade(s, kind, side) ==
    s \in SocketStates /\ s.kind = kind /\ s.side = side /\ s.reused = FALSE /\ s.asked = FALSE

\* What PooledIsReady asks of a pooled socket.
ReadyToUse(s) ==
    /\ s.fd /\ s.sock = "CONNECTED" /\ s.side = "client"
    /\ s.kind = "tls" => Established(s) /\ s.cert # NoCert

\* What ReusedConnectionFits asks of a socket that was taken from the pool.
Fits(s) ==
    /\ s.peer = s.wanted.peer
    /\ s.kind = "tls" =>
         /\ s.context = s.wanted.context
         /\ IF s.cert.sans = {} THEN s.cert.cn = s.wanted.fqdn
            ELSE \E san \in s.cert.sans : Accepts(san, s.wanted.fqdn)

\* t is a later state of the socket s, in the same use.
SameUse(s, t) ==
    /\ t.kind = s.kind /\ t.side = s.side /\ t.peer = s.peer /\ t.context = s.context
    /\ t.cert = s.cert /\ t.wanted = s.wanted /\ t.reused = s.reused

(***************************************************************************)
(* A certificate that covers a name does so rightly.                       *)
(***************************************************************************)
LEMMA CoversRightly ==
    ASSUME NEW cert \in AllCerts, NEW fqdn \in Names, Covers(cert, fqdn)
    PROVE  IF cert.sans = {} THEN cert.cn = fqdn
           ELSE \E san \in cert.sans : Accepts(san, fqdn)
<1>1. CASE cert.sans = {}
  BY <1>1 DEF Covers
<1>2. CASE cert.sans # {}
  <2>1. PICK san \in cert.sans : StringWildcardMatch(san, fqdn) >= 0
    BY <1>2 DEF Covers
  <2>2. cert \in Certs
    BY <1>2 DEF AllCerts, NoCert
  <2>3. san \in Seq(STRING) /\ AtMostOneStar(san) /\ fqdn \in Seq(STRING)
    BY <2>2, PoolAssumption, EmptySeq DEF Names
  <2>4. Accepts(san, fqdn)
    BY <2>1, <2>3, WildcardMatchIsExact
  <2> QED
    BY <1>2, <2>4
<1> QED
  BY <1>1, <1>2

(***************************************************************************)
(* Fitting depends on what stays the same in one use.                      *)
(***************************************************************************)
LEMMA FitsStays ==
    ASSUME NEW s, NEW t, SameUse(s, t), Fits(s)
    PROVE  Fits(t)
BY DEF SameUse, Fits

(***************************************************************************)
(* Octets sent or received on a clear connection or an established one.    *)
(***************************************************************************)
LEMMA TransfersKeep ==
    ASSUME NEW s \in SocketStates, ~s.failed, s.kind = "tls" => Established(s), NEW t \in Transfers(s)
    PROVE  t \in SocketStates /\ Sound(t) /\ SameUse(s, t)
<1>1. t \in {s, [s EXCEPT !.asked = TRUE], Dead(s), [s EXCEPT !.failed = TRUE]}
  BY DEF Transfers
<1>2. CASE t = s
  BY <1>2 DEF Sound, SameUse
<1>3. CASE t = [s EXCEPT !.asked = TRUE]
  BY <1>3 DEF Sound, SameUse, SocketStates, Established
<1>4. CASE t = [s EXCEPT !.failed = TRUE]
  BY <1>4 DEF Sound, SameUse, SocketStates, Established
<1>5. CASE t = Dead(s)
  <2> DEFINE d == {"DEAD"}
  <2>1. d \in SUBSET {"ESTABLISHED", "DEAD"}
    OBVIOUS
  <2>2. t = [s EXCEPT !.tls = d, !.failed = TRUE]
    BY <1>5 DEF Dead
  <2> HIDE DEF d
  <2> QED
    BY <2>1, <2>2 DEF Sound, SameUse, SocketStates
<1> QED
  BY <1>1, <1>2, <1>3, <1>4, <1>5

(***************************************************************************)
(* A step of the handshake.                                                *)
(***************************************************************************)
LEMMA HandshakeKeeps ==
    ASSUME NEW s \in SocketStates, ~s.failed, Sound(s), NEW t \in startHandshake(s)
    PROVE  t \in SocketStates /\ Sound(t) /\ SameUse(s, t) /\ (Established(t) => ~t.failed \/ Established(s))
<1>1. CASE \E c \in AllCerts : t = [s EXCEPT !.ssl = TRUE, !.sslCert = c]
  <2>1. PICK c \in AllCerts : t = [s EXCEPT !.ssl = TRUE, !.sslCert = c]
    BY <1>1
  <2> QED
    BY <2>1 DEF Sound, SameUse, SocketStates, Established
<1>2. CASE \E c \in AllCerts : t = [s EXCEPT !.ssl = TRUE, !.tls = @ \cup {"ESTABLISHED"}, !.sslCert = c]
  <2>1. PICK c \in AllCerts : t = [s EXCEPT !.ssl = TRUE, !.tls = @ \cup {"ESTABLISHED"}, !.sslCert = c]
    BY <1>2
  <2> DEFINE e == s.tls \cup {"ESTABLISHED"}
  <2>2. e \in SUBSET {"ESTABLISHED", "DEAD"} /\ "ESTABLISHED" \in e
    BY DEF SocketStates
  <2>3. t = [s EXCEPT !.ssl = TRUE, !.tls = e, !.sslCert = c]
    BY <2>1 DEF SocketStates
  <2> HIDE DEF e
  <2>4. t \in SocketStates /\ t.tls = e /\ SameUse(s, t) /\ t.failed = s.failed
    BY <2>2, <2>3 DEF SameUse, SocketStates
  <2> QED
    BY <2>2, <2>4 DEF Sound, Established
<1>3. CASE t = [s EXCEPT !.failed = TRUE, !.ssl = FALSE, !.sslCert = NoCert]
  <2>1. NoCert \in AllCerts
    BY DEF AllCerts
  <2>2. t \in SocketStates /\ t.failed = TRUE /\ SameUse(s, t) /\ t.tls = s.tls
    BY <1>3, <2>1 DEF SameUse, SocketStates
  <2> QED
    BY <2>2 DEF Sound, Established
<1>4. CASE t = [s EXCEPT !.failed = TRUE, !.ssl = TRUE]
  <2>1. t \in SocketStates /\ t.failed = TRUE /\ SameUse(s, t) /\ t.tls = s.tls
    BY <1>4 DEF SameUse, SocketStates
  <2> QED
    BY <2>1 DEF Sound, Established
<1>5. s.sslCert \in AllCerts
  BY DEF SocketStates
<1>6. t \in Waits(s) => \E c \in AllCerts : t = [s EXCEPT !.ssl = TRUE, !.sslCert = c]
  BY <1>5 DEF Waits, AllCerts
<1>7. t \in Completes(s) =>
        \E c \in AllCerts : t = [s EXCEPT !.ssl = TRUE, !.tls = @ \cup {"ESTABLISHED"}, !.sslCert = c]
  BY DEF Completes, AllCerts
<1> QED
  BY <1>1, <1>2, <1>3, <1>4, <1>6, <1>7 DEF startHandshake

(***************************************************************************)
(* receive() and send() of a socket that has not failed.                   *)
(***************************************************************************)
LEMMA ReceiveKeeps ==
    ASSUME NEW s \in SocketStates, ~s.failed, Sound(s), NEW t \in receive(s)
    PROVE  t \in SocketStates /\ Sound(t) /\ SameUse(s, t)
<1>1. CASE s.kind = "clear" \/ Established(s)
  <2>1. t \in Transfers(s)
    BY <1>1 DEF receive
  <2>2. s.kind = "tls" => Established(s)
    BY <1>1
  <2> QED
    BY <2>1, <2>2, TransfersKeep
<1>2. CASE ~(s.kind = "clear" \/ Established(s))
  <2>1. t \in startHandshake(s) \/ \E u \in startHandshake(s) : Established(u) /\ t \in Transfers(u)
    BY <1>2 DEF receive
  <2>2. CASE t \in startHandshake(s)
    BY <2>2, HandshakeKeeps
  <2>3. CASE \E u \in startHandshake(s) : Established(u) /\ t \in Transfers(u)
    <3>1. PICK u \in startHandshake(s) : Established(u) /\ t \in Transfers(u)
      BY <2>3
    <3>2. u \in SocketStates /\ SameUse(s, u) /\ ~u.failed
      BY <1>2, <3>1, HandshakeKeeps
    <3>3. t \in SocketStates /\ Sound(t) /\ SameUse(u, t)
      BY <3>1, <3>2, TransfersKeep
    <3> QED
      BY <3>2, <3>3 DEF SameUse
  <2> QED
    BY <2>1, <2>2, <2>3
<1> QED
  BY <1>1, <1>2

(***************************************************************************)
(* A new socket.                                                           *)
(***************************************************************************)
LEMMA NewSocket ==
    ASSUME NEW kind \in {"clear", "tls"}, NEW side \in {"client", "server"}, NEW peer \in AnyPeer,
           NEW fqdn \in Names, NEW context \in AnyContext
    PROVE  NewlyMade(Socket(kind, side, peer, fqdn, context), kind, side)
<1> DEFINE w == [peer |-> peer, fqdn |-> fqdn, context |-> context]
           noFlags == {}
<1>1. w \in Wants /\ NoCert \in AllCerts
  BY DEF Wants, AllCerts
<1>2. noFlags \in SUBSET {"ESTABLISHED", "DEAD"}
  OBVIOUS
<1>3. Socket(kind, side, peer, fqdn, context) =
         [kind |-> kind, side |-> side, peer |-> peer, fqdn |-> fqdn, context |-> context,
          fd |-> FALSE, sock |-> "NEW", link |-> "none", ssl |-> FALSE, tls |-> noFlags,
          sslCert |-> NoCert, cert |-> NoCert, asked |-> FALSE, failed |-> FALSE,
          wanted |-> w, reused |-> FALSE]
  BY DEF Socket
<1> HIDE DEF w, noFlags
<1> QED
  BY <1>1, <1>2, <1>3 DEF SocketStates, NewlyMade

(***************************************************************************)
(* connect() of a new client socket.                                       *)
(***************************************************************************)
LEMMA NewSockets ==
    ASSUME NEW kind \in {"clear", "tls"}, NEW peer \in Peers, NEW fqdn \in Names, NEW context \in AnyContext,
           NEW s \in Connects(Socket(kind, "client", peer, fqdn, context))
    PROVE  s \in SocketStates /\ s.kind = kind /\ s.side = "client" /\ s.reused = FALSE /\ s.asked = FALSE
<1> DEFINE n == Socket(kind, "client", peer, fqdn, context)
<1>1. n \in SocketStates /\ n.kind = kind /\ n.side = "client" /\ n.reused = FALSE /\ n.asked = FALSE
  <2>1. peer \in AnyPeer /\ "client" \in {"client", "server"}
    BY DEF AnyPeer
  <2>2. NewlyMade(n, kind, "client")
    BY <2>1, NewSocket
  <2> HIDE DEF n
  <2> QED
    BY <2>2 DEF NewlyMade
<1> HIDE DEF n
<1>2. CASE s = [n EXCEPT !.fd = TRUE, !.sock = "CONNECTING", !.link = "pending"]
  BY <1>1, <1>2 DEF SocketStates
<1>3. CASE s = [n EXCEPT !.fd = TRUE, !.sock = "CONNECTED", !.link = "up"]
  BY <1>1, <1>3 DEF SocketStates
<1>4. CASE s = [n EXCEPT !.failed = TRUE]
  BY <1>1, <1>4 DEF SocketStates
<1> QED
  BY <1>2, <1>3, <1>4 DEF Connects, n

(***************************************************************************)
(* An accepted socket.                                                     *)
(***************************************************************************)
LEMMA AcceptedSocket ==
    ASSUME NEW kind \in {"clear", "tls"}
    PROVE  LET a == Accepted(kind) IN
           a \in SocketStates /\ a.kind = kind /\ a.side = "server" /\ a.reused = FALSE /\ a.asked = FALSE
<1> DEFINE o == Socket(kind, "server", "client", <<>>, "default")
<1>1. o \in SocketStates /\ o.kind = kind /\ o.side = "server" /\ o.reused = FALSE /\ o.asked = FALSE
  <2>1. "client" \in AnyPeer /\ <<>> \in Names /\ "default" \in AnyContext
    BY DEF AnyPeer, Names, AnyContext
  <2>2. NewlyMade(o, kind, "server")
    BY <2>1, NewSocket
  <2> HIDE DEF o
  <2> QED
    BY <2>2 DEF NewlyMade
<1>2. Accepted(kind) = [o EXCEPT !.fd = TRUE, !.sock = "CONNECTED", !.link = "up"]
  BY DEF Accepted
<1> HIDE DEF o
<1>3. Accepted(kind) \in SocketStates
  BY <1>1, <1>2 DEF SocketStates
<1>4. \A f \in {"kind", "side", "reused", "asked"} : Accepted(kind)[f] = o[f]
  BY <1>1, <1>2 DEF SocketStates
<1> QED
  BY <1>1, <1>3, <1>4

(***************************************************************************)
(* close(), connected() and peerCertificate() of a socket.                 *)
(***************************************************************************)
LEMMA SocketCalls ==
    ASSUME NEW s \in SocketStates
    PROVE  /\ LET t == close(s) IN
              /\ t \in SocketStates /\ t.kind = s.kind /\ t.side = s.side /\ t.fd = FALSE
           /\ LET t == Asked(s) IN
              /\ t \in SocketStates /\ SameUse(s, t) /\ t.fd = s.fd /\ t.asked = s.asked
              /\ t.failed = s.failed /\ t.tls = s.tls
           /\ LET t == WithCertificate(s) IN
              /\ t \in SocketStates /\ t.kind = s.kind /\ t.side = s.side /\ t.fd = s.fd /\ t.asked = s.asked
              /\ t.failed = s.failed /\ t.tls = s.tls /\ t.sock = s.sock
<1> DEFINE none == {}
           t == close(s)
<1>1. none \in SUBSET {"ESTABLISHED", "DEAD"} /\ NoCert \in AllCerts
  BY DEF AllCerts
<1>2. t = [s EXCEPT !.ssl = FALSE, !.sslCert = NoCert, !.tls = none,
                    !.fd = FALSE, !.sock = "NEW", !.link = "none"]
  BY DEF close
<1>3. t \in SocketStates /\ t.kind = s.kind /\ t.side = s.side /\ t.fd = FALSE
  <2> HIDE DEF none, t
  <2> QED
    BY <1>1, <1>2 DEF SocketStates
<1> DEFINE a == Asked(s)
           w == WithCertificate(s)
<1>4. /\ a \in SocketStates /\ SameUse(s, a) /\ a.fd = s.fd /\ a.asked = s.asked
      /\ a.failed = s.failed /\ a.tls = s.tls
  BY DEF Asked, SameUse, SocketStates
<1>5. /\ w \in SocketStates /\ w.kind = s.kind /\ w.side = s.side /\ w.fd = s.fd /\ w.asked = s.asked
      /\ w.failed = s.failed /\ w.tls = s.tls /\ w.sock = s.sock
  BY DEF WithCertificate, SocketStates
<1> QED
  BY <1>3, <1>4, <1>5

\* The lists of slots, and the size of what is on a list of deconstructed sockets.
FreeLists == {"clear", "tls", "serverClear", "serverTLS"}

Lists == FreeLists \cup {"active"}

SizeOf(bin) == IF bin \in {"clear", "serverClear"} THEN "clear" ELSE "tls"

PoolStates ==
    [active : Seq(Slots), clear : Seq(Slots), tls : Seq(Slots), serverClear : Seq(Slots),
     serverTLS : Seq(Slots), allocated : [Slots -> {"none", "clear", "tls"}]]

\* A slot is on at most one list.
Apart(pl) ==
    /\ \A bin \in Lists : Distinct(pl[bin])
    /\ \A bin, other \in Lists : bin # other => Range(pl[bin]) \cap Range(pl[other]) = {}

\* Deconstructed memory holds nothing, and has the size of its list.
FreeOk(cs, pl) ==
    \A bin \in FreeLists : \A c \in Range(pl[bin]) : cs[c] = NoSocket /\ pl.allocated[c] = SizeOf(bin)

\* A socket that is pooled can carry a request; one that is used again fits.
SlotOk(s, size, pooled) ==
    s.kind # "none" =>
        /\ size = s.kind /\ Sound(s)
        /\ pooled => ReadyToUse(s)
        /\ ~pooled /\ s.side = "client" /\ s.reused => Fits(s)

PoolOk(cs, pl) ==
    /\ cs \in [Slots -> SocketStates \cup {NoSocket}] /\ pl \in PoolStates
    /\ Apart(pl) /\ FreeOk(cs, pl)
    /\ \A c \in Slots : SlotOk(cs[c], pl.allocated[c], c \in Range(pl["active"]))
    /\ \A c \in Range(pl["active"]) : cs[c].kind # "none"

\* The lists after one of them and the table of sizes were changed.
Relisted(pl, bin, s, sizes, r) ==
    /\ r \in PoolStates /\ r.allocated = sizes /\ r[bin] = s
    /\ \A other \in Lists : other # bin => r[other] = pl[other]

(***************************************************************************)
(* A socket is not an empty slot.                                          *)
(***************************************************************************)
LEMMA Kinds ==
    NoSocket.kind = "none" /\ \A s \in SocketStates : s.kind \in {"clear", "tls"} /\ s.kind # "none"
BY DEF NoSocket, SocketStates

(***************************************************************************)
(* A change to one list.                                                   *)
(***************************************************************************)
LEMMA ListChanged ==
    ASSUME NEW pl \in PoolStates, NEW bin \in Lists, NEW s \in Seq(Slots),
           NEW sizes \in [Slots -> {"none", "clear", "tls"}]
    PROVE  /\ pl[bin] \in Seq(Slots) /\ pl.allocated \in [Slots -> {"none", "clear", "tls"}]
           /\ Relisted(pl, bin, s, pl.allocated, [pl EXCEPT ![bin] = s])
           /\ Relisted(pl, bin, s, sizes, [pl EXCEPT ![bin] = s, !.allocated = sizes])
<1>1. CASE bin = "active"
  BY <1>1 DEF PoolStates, Lists, FreeLists, Relisted
<1>2. CASE bin = "clear"
  BY <1>2 DEF PoolStates, Lists, FreeLists, Relisted
<1>3. CASE bin = "tls"
  BY <1>3 DEF PoolStates, Lists, FreeLists, Relisted
<1>4. CASE bin = "serverClear"
  BY <1>4 DEF PoolStates, Lists, FreeLists, Relisted
<1>5. CASE bin = "serverTLS"
  BY <1>5 DEF PoolStates, Lists, FreeLists, Relisted
<1> QED
  BY <1>1, <1>2, <1>3, <1>4, <1>5 DEF Lists, FreeLists

(***************************************************************************)
(* What is on a list is a slot.                                            *)
(***************************************************************************)
LEMMA OnLists ==
    ASSUME NEW pl \in PoolStates, NEW bin \in Lists
    PROVE  pl[bin] \in Seq(Slots) /\ Range(pl[bin]) \subseteq Slots
<1>1. pl.allocated \in [Slots -> {"none", "clear", "tls"}] /\ <<>> \in Seq(Slots)
  BY EmptySeq DEF PoolStates
<1>2. pl[bin] \in Seq(Slots)
  BY <1>1, ListChanged
<1> QED
  BY <1>2, LenProperties, ElementOfSeq DEF Range

(***************************************************************************)
(* One slot goes on a list, leaves it or stays; it is on no other.         *)
(***************************************************************************)
LEMMA SlotMoves ==
    ASSUME NEW cs, NEW pl, PoolOk(cs, pl), NEW c \in Slots, NEW bin \in Lists,
           \A other \in Lists : other # bin => c \notin Range(pl[other]),
           NEW s \in Seq(Slots), Distinct(s), Range(s) \ {c} = Range(pl[bin]) \ {c},
           NEW sizes, \A d \in Slots : d # c => sizes[d] = pl.allocated[d],
           NEW r, Relisted(pl, bin, s, sizes, r),
           NEW v \in SocketStates \cup {NoSocket},
           SlotOk(v, sizes[c], c \in Range(r["active"])),
           c \in Range(s) => IF bin = "active" THEN v.kind # "none"
                             ELSE v = NoSocket /\ sizes[c] = SizeOf(bin)
    PROVE  PoolOk([cs EXCEPT ![c] = v], r)
<1> DEFINE ds == [cs EXCEPT ![c] = v]
<1>1. ds \in [Slots -> SocketStates \cup {NoSocket}] /\ ds[c] = v /\ \A d \in Slots : d # c => ds[d] = cs[d]
  BY DEF PoolOk
<1> HIDE DEF ds
<1>2. /\ r \in PoolStates /\ r.allocated = sizes /\ r[bin] = s
      /\ \A other \in Lists : other # bin => r[other] = pl[other]
  BY DEF Relisted
<1>3. \A other \in Lists : Range(r[other]) \ {c} = Range(pl[other]) \ {c} /\ Range(r[other]) \subseteq Slots
  BY <1>2, OnLists
<1>4. \A other \in Lists : other # bin => c \notin Range(r[other])
  BY <1>2
<1>5. Apart(r)
  <2>1. \A other \in Lists : Distinct(r[other])
    BY <1>2 DEF PoolOk, Apart
  <2>2. ASSUME NEW one \in Lists, NEW other \in Lists, one # other
        PROVE  Range(r[one]) \cap Range(r[other]) = {}
    <3>1. Range(pl[one]) \cap Range(pl[other]) = {}
      BY <2>2 DEF PoolOk, Apart
    <3>2. ~(c \in Range(r[one]) /\ c \in Range(r[other]))
      BY <1>4, <2>2
    <3> QED
      BY <1>3, <3>1, <3>2
  <2> QED
    BY <2>1, <2>2 DEF Apart
<1>6. FreeOk(ds, r)
  <2> SUFFICES ASSUME NEW other \in FreeLists, NEW d \in Range(r[other])
               PROVE  ds[d] = NoSocket /\ r.allocated[d] = SizeOf(other)
    BY DEF FreeOk
  <2>1. other \in Lists /\ other # "active"
    BY DEF Lists, FreeLists
  <2>2. d \in Slots
    BY <1>3, <2>1
  <2>3. CASE d = c
    <3>1. other = bin /\ c \in Range(s)
      BY <1>2, <1>4, <2>1, <2>3
    <3> QED
      BY <1>1, <1>2, <2>1, <2>3, <3>1
  <2>4. CASE d # c
    <3>1. d \in Range(pl[other])
      BY <1>3, <2>1, <2>4
    <3>2. cs[d] = NoSocket /\ pl.allocated[d] = SizeOf(other)
      BY <3>1 DEF PoolOk, FreeOk
    <3> QED
      BY <1>1, <1>2, <2>2, <2>4, <3>2
  <2> QED
    BY <2>3, <2>4
<1>7. "active" \in Lists
  BY DEF Lists
<1>8. ASSUME NEW d \in Slots PROVE SlotOk(ds[d], r.allocated[d], d \in Range(r["active"]))
  <2>1. CASE d = c
    BY <1>1, <1>2, <2>1
  <2>2. CASE d # c
    <3>1. ds[d] = cs[d] /\ r.allocated[d] = pl.allocated[d]
      BY <1>1, <1>2, <2>2
    <3>2. d \in Range(r["active"]) <=> d \in Range(pl["active"])
      BY <1>3, <1>7, <2>2
    <3>3. SlotOk(cs[d], pl.allocated[d], d \in Range(pl["active"]))
      BY DEF PoolOk
    <3> QED
      BY <3>1, <3>2, <3>3 DEF SlotOk
  <2> QED
    BY <2>1, <2>2
<1>9. ASSUME NEW d \in Range(r["active"]) PROVE ds[d].kind # "none"
  <2>1. d \in Slots
    BY <1>3, <1>7
  <2>2. CASE d = c
    <3>1. bin = "active" /\ c \in Range(s)
      BY <1>2, <1>4, <1>7, <2>2
    <3> QED
      BY <1>1, <2>2, <3>1
  <2>3. CASE d # c
    <3>1. d \in Range(pl["active"])
      BY <1>3, <1>7, <2>3
    <3> QED
      BY <1>1, <2>1, <2>3, <3>1 DEF PoolOk
  <2> QED
    BY <2>2, <2>3
<1> QED
  BY <1>1, <1>2, <1>5, <1>6, <1>8, <1>9 DEF PoolOk, ds

(***************************************************************************)
(* What is in a slot that holds a socket, or was never allocated.          *)
(***************************************************************************)
LEMMA WhereSlotsAre ==
    ASSUME NEW cs, NEW pl, PoolOk(cs, pl), NEW c \in Slots
    PROVE  /\ cs[c].kind # "none" =>
                /\ cs[c] \in SocketStates /\ Sound(cs[c]) /\ pl.allocated[c] = cs[c].kind
                /\ \A bin \in FreeLists : c \notin Range(pl[bin])
           /\ pl.allocated[c] = "none" => \A bin \in Lists : c \notin Range(pl[bin])
<1>1. SlotOk(cs[c], pl.allocated[c], c \in Range(pl["active"])) /\ cs[c] \in SocketStates \cup {NoSocket}
  BY DEF PoolOk
<1>2. \A bin \in FreeLists : c \in Range(pl[bin]) => cs[c] = NoSocket /\ pl.allocated[c] # "none"
  BY DEF PoolOk, FreeOk, SizeOf
<1>3. c \in Range(pl["active"]) => cs[c].kind # "none" /\ pl.allocated[c] = cs[c].kind
  BY <1>1 DEF PoolOk, SlotOk
<1> QED
  BY <1>1, <1>2, <1>3, Kinds DEF SlotOk, Lists

(***************************************************************************)
(* A socket changes where it is.                                           *)
(***************************************************************************)
LEMMA SocketChanges ==
    ASSUME NEW cs, NEW pl, PoolOk(cs, pl), NEW c \in Slots, cs[c].kind # "none",
           NEW s \in SocketStates, SlotOk(s, cs[c].kind, c \in Range(pl["active"]))
    PROVE  PoolOk([cs EXCEPT ![c] = s], pl)
<1> DEFINE l == pl["active"]
           sizes == pl.allocated
<1>1. pl \in PoolStates /\ "active" \in Lists /\ l \in Seq(Slots) /\ Distinct(l)
  BY OnLists DEF PoolOk, Apart, Lists
<1>2. Relisted(pl, "active", l, sizes, pl)
  BY <1>1 DEF Relisted
<1>3. \A other \in Lists : other # "active" => c \notin Range(pl[other])
  BY WhereSlotsAre DEF Lists
<1>4. sizes[c] = cs[c].kind /\ s.kind # "none" /\ s \in SocketStates \cup {NoSocket}
  BY WhereSlotsAre, Kinds
<1> HIDE DEF sizes
<1> QED
  BY <1>1, <1>2, <1>3, <1>4, SlotMoves DEF sizes

(***************************************************************************)
(* Memory for a socket is taken from a list or fresh, and the socket made. *)
(***************************************************************************)
LEMMA SocketMade ==
    ASSUME PoolOk(conn, poolLists), NEW bin \in FreeLists, NEW c \in Memory(bin),
           NEW s \in SocketStates, s.kind = SizeOf(bin), Sound(s), s.reused = FALSE
    PROVE  /\ c \in Slots /\ PoolOk([conn EXCEPT ![c] = s], Recycled(poolLists, bin, c, SizeOf(bin)))
           /\ c \notin Range(Recycled(poolLists, bin, c, SizeOf(bin))["active"])
<1> DEFINE l == poolLists[bin]
           m == IF l # <<>> THEN Front(l) ELSE l
           sizes == [poolLists.allocated EXCEPT ![c] = IF @ = "none" THEN SizeOf(bin) ELSE @]
           r == Recycled(poolLists, bin, c, SizeOf(bin))
<1>1. bin \in Lists /\ "active" \in Lists /\ bin # "active" /\ poolLists \in PoolStates
  BY DEF Lists, FreeLists, PoolOk
<1>2. l \in Seq(Slots) /\ Distinct(l) /\ Range(l) \subseteq Slots
  BY <1>1, OnLists DEF PoolOk, Apart
<1>3. poolLists.allocated \in [Slots -> {"none", "clear", "tls"}]
  BY <1>1 DEF PoolStates
<1>4. /\ c \in Slots /\ m \in Seq(Slots) /\ Distinct(m) /\ Range(m) = Range(l) \ {c}
      /\ poolLists.allocated[c] \in {"none", SizeOf(bin)}
      /\ \A other \in Lists : other # bin => c \notin Range(poolLists[other])
  <2>1. CASE l # <<>>
    <3>1. c = Last(l)
      BY <2>1 DEF Memory
    <3>2. c \in Slots /\ c \in Range(l) /\ m \in Seq(Slots) /\ Distinct(m) /\ Range(m) = Range(l) \ {c}
      BY <1>2, <2>1, <3>1, WithoutLast
    <3>3. poolLists.allocated[c] = SizeOf(bin)
      BY <3>2 DEF PoolOk, FreeOk
    <3>4. \A other \in Lists : other # bin => c \notin Range(poolLists[other])
      BY <1>1, <3>2 DEF PoolOk, Apart
    <3> QED
      BY <3>2, <3>3, <3>4
  <2>2. CASE l = <<>>
    <3>1. c \in Slots /\ poolLists.allocated[c] = "none"
      BY <2>2 DEF Memory
    <3>2. \A other \in Lists : c \notin Range(poolLists[other])
      BY <3>1, WhereSlotsAre
    <3> QED
      BY <1>1, <1>2, <2>2, <3>1, <3>2
  <2> QED
    BY <2>1, <2>2
<1>5. /\ sizes \in [Slots -> {"none", "clear", "tls"}] /\ sizes[c] = SizeOf(bin)
      /\ \A d \in Slots : d # c => sizes[d] = poolLists.allocated[d]
  BY <1>3, <1>4 DEF SizeOf
<1>6. r = [poolLists EXCEPT ![bin] = m, !.allocated = sizes]
  <2>1. bin # "allocated"
    BY DEF FreeLists
  <2> QED
    BY <2>1 DEF Recycled
<1> HIDE DEF m, sizes, r
<1>7. Relisted(poolLists, bin, m, sizes, r)
  BY <1>1, <1>4, <1>5, <1>6, ListChanged
<1>8. c \notin Range(m) /\ Range(m) \ {c} = Range(l) \ {c}
  BY <1>4
<1>9. c \notin Range(r["active"])
  BY <1>1, <1>4, <1>7 DEF Relisted
<1>10. SlotOk(s, sizes[c], c \in Range(r["active"])) /\ s \in SocketStates \cup {NoSocket}
  BY <1>5, <1>9 DEF SlotOk
<1>11. PoolOk([conn EXCEPT ![c] = s], r)
  BY <1>1, <1>4, <1>5, <1>7, <1>8, <1>10, SlotMoves
<1> QED
  BY <1>4, <1>9, <1>11 DEF r

(***************************************************************************)
(* A socket that is in use is destroyed.                                   *)
(***************************************************************************)
LEMMA SocketDestroyed ==
    ASSUME NEW cs, NEW pl, PoolOk(cs, pl), NEW c \in Slots, cs[c].kind # "none",
           c \notin Range(pl["active"]), NEW bin \in FreeLists, cs[c].kind = SizeOf(bin)
    PROVE  PoolOk([cs EXCEPT ![c] = NoSocket], [pl EXCEPT ![bin] = Append(@, c)])
<1> DEFINE l == pl[bin]
           m == Append(l, c)
           sizes == pl.allocated
           r == [pl EXCEPT ![bin] = m]
<1>1. bin \in Lists /\ bin # "active" /\ pl \in PoolStates
  BY DEF Lists, FreeLists, PoolOk
<1>2. l \in Seq(Slots) /\ Distinct(l)
  BY <1>1, OnLists DEF PoolOk, Apart
<1>3. sizes \in [Slots -> {"none", "clear", "tls"}]
  BY <1>1 DEF PoolStates
<1>4. sizes[c] = SizeOf(bin) /\ \A other \in Lists : c \notin Range(pl[other])
  BY WhereSlotsAre DEF Lists
<1>5. m \in Seq(Slots) /\ Distinct(m) /\ Range(m) = Range(l) \cup {c}
  <2>1. c \notin Range(l)
    BY <1>1, <1>4
  <2>2. m = Append(l, c)
    OBVIOUS
  <2> HIDE DEF l, m
  <2>3. Extended(Slots, l, c, Append(l, c))
    BY <1>2, <2>1, OneMore
  <2> QED
    BY <2>2, <2>3 DEF Extended
<1> HIDE DEF m, sizes
<1>6. Relisted(pl, bin, m, sizes, r)
  BY <1>1, <1>3, <1>5, ListChanged DEF sizes
<1> HIDE DEF r
<1>7. SlotOk(NoSocket, sizes[c], c \in Range(r["active"])) /\ NoSocket \in SocketStates \cup {NoSocket}
  BY Kinds DEF SlotOk
<1>8. PoolOk([cs EXCEPT ![c] = NoSocket], r)
  <2>1. Range(m) \ {c} = Range(l) \ {c}
    BY <1>5
  <2>2. \A d \in Slots : d # c => sizes[d] = pl.allocated[d]
    BY DEF sizes
  <2> QED
    BY <1>1, <1>4, <1>5, <1>6, <1>7, <2>1, <2>2, SlotMoves
<1> QED
  BY <1>8 DEF r, m

(***************************************************************************)
(* The list of deconstructed sockets of a kind and side.                   *)
(***************************************************************************)
LEMMA ListsOf ==
    ASSUME NEW kind \in {"clear", "tls"}, NEW side \in {"client", "server"}
    PROVE  ListOf(kind, side) \in FreeLists /\ SizeOf(ListOf(kind, side)) = kind
BY DEF ListOf, FreeLists, SizeOf

(***************************************************************************)
(* Discard keeps the invariant, whatever the socket was before.            *)
(***************************************************************************)
LEMMA DiscardKeeps ==
    ASSUME NEW cs, NEW pl, PoolOk(cs, pl), NEW c \in Slots, cs[c].kind # "none",
           c \notin Range(pl["active"]), NEW s \in SocketStates, s.kind = cs[c].kind,
           Discard([cs EXCEPT ![c] = s], pl, c)
    PROVE  PoolOk(conn', poolLists')
<1> DEFINE bin == ListOf(s.kind, s.side)
<1>1. cs \in [Slots -> SocketStates \cup {NoSocket}] /\ cs[c] \in SocketStates
  BY WhereSlotsAre DEF PoolOk
<1>2. bin \in FreeLists /\ SizeOf(bin) = s.kind
  <2>1. s.kind \in {"clear", "tls"} /\ s.side \in {"client", "server"}
    BY DEF SocketStates
  <2> QED
    BY <2>1, ListsOf
<1>3. [cs EXCEPT ![c] = s][c] = s /\ [[cs EXCEPT ![c] = s] EXCEPT ![c] = NoSocket] = [cs EXCEPT ![c] = NoSocket]
  BY <1>1
<1>4. conn' = [cs EXCEPT ![c] = NoSocket] /\ poolLists' = [pl EXCEPT ![bin] = Append(@, c)]
  BY <1>3 DEF Discard
<1> HIDE DEF bin
<1> QED
  BY <1>2, <1>4, SocketDestroyed

(***************************************************************************)
(* The first pooled socket that the key matches.                           *)
(***************************************************************************)
LEMMA FoundFits ==
    ASSUME NEW kind, NEW peer, NEW fqdn, NEW context, poolLists["active"] \in Seq(Slots),
           Find(kind, peer, fqdn, context) # 0
    PROVE  LET i == Find(kind, peer, fqdn, context) IN
           /\ i \in 1..Len(poolLists["active"])
           /\ compare(conn[poolLists["active"][i]], kind, peer, fqdn, context)
<1> DEFINE l == poolLists["active"]
           I == {j \in 1..Len(l) : compare(conn[l[j]], kind, peer, fqdn, context)}
<1>1. Find(kind, peer, fqdn, context) = IF I # {} THEN Min(I) ELSE 0
  BY DEF Find, SelectInSeq
<1>2. I # {} /\ I \in SUBSET Nat
  BY <1>1, LenProperties
<1>3. Min(I) \in I
  BY <1>2, Least
<1> QED
  BY <1>1, <1>2, <1>3

(***************************************************************************)
(* A request answered from the pool.                                       *)
(***************************************************************************)
LEMMA ReuseKeeps ==
    ASSUME PoolOk(conn, poolLists), NEW kind \in {"clear", "tls"}, NEW peer \in Peers,
           NEW fqdn \in Names, NEW context \in AnyContext, Reuse(kind, peer, fqdn, context)
    PROVE  PoolOk(conn', poolLists')
<1> DEFINE l == poolLists["active"]
           i == Find(kind, peer, fqdn, context)
           c == l[i]
           w == [peer |-> peer, fqdn |-> fqdn, context |-> context]
           s == conn[c]
           t == [s EXCEPT !.asked = FALSE, !.reused = TRUE, !.wanted = w]
           m == RemoveAt(l, i)
           sizes == poolLists.allocated
           r == [poolLists EXCEPT !["active"] = m]
<1>1. poolLists \in PoolStates /\ "active" \in Lists /\ l \in Seq(Slots) /\ Distinct(l)
  BY OnLists DEF PoolOk, Apart, Lists
<1>2. i \in 1..Len(l) /\ compare(s, kind, peer, fqdn, context)
  BY <1>1, FoundFits DEF Reuse
<1>3. c \in Slots /\ c \in Range(l)
  BY <1>1, <1>2, LenProperties, ElementOfSeq DEF Range
<1>4. poolLists' = r /\ conn' = [conn EXCEPT ![c] = t]
  BY DEF Reuse, PoolOk
<1> HIDE DEF i
<1>5. m \in Seq(Slots) /\ Distinct(m) /\ Range(m) = Range(l) \ {c}
  BY <1>1, <1>2, WithoutOne
<1>6. s.kind # "none"
  BY <1>3 DEF PoolOk
<1>7. s \in SocketStates /\ sizes[c] = s.kind /\ \A bin \in FreeLists : c \notin Range(poolLists[bin])
  BY <1>3, <1>6, WhereSlotsAre
<1> HIDE DEF c, m
<1>8. ReadyToUse(s)
  BY <1>3, <1>6 DEF PoolOk, SlotOk
<1>9. sizes \in [Slots -> {"none", "clear", "tls"}]
  BY <1>1 DEF PoolStates
<1>10. Relisted(poolLists, "active", m, sizes, r)
  BY <1>1, <1>5, <1>9, ListChanged
<1>11. w \in Wants /\ w.peer = peer /\ w.fqdn = fqdn /\ w.context = context
  BY DEF Wants, AnyPeer
<1> HIDE DEF w, r
<1>12. /\ t \in SocketStates /\ t.kind = s.kind /\ t.asked = FALSE /\ t.peer = s.peer
       /\ t.context = s.context /\ t.cert = s.cert /\ t.wanted = w
  <2> HIDE DEF s
  <2> QED
    BY <1>7, <1>11 DEF SocketStates
<1>13. Fits(t)
  <2>1. t.peer = t.wanted.peer
    BY <1>2, <1>11, <1>12 DEF compare
  <2>2. CASE s.kind = "tls"
    <3>1. s.context = context /\ Covers(WithCertificate(s).cert, fqdn) /\ s.cert # NoCert
      BY <1>2, <1>8, <2>2 DEF compare, ReadyToUse
    <3>2. WithCertificate(s) = s
      BY <3>1 DEF WithCertificate
    <3>3. s.cert \in AllCerts
      BY <1>7 DEF SocketStates
    <3>4. IF s.cert.sans = {} THEN s.cert.cn = fqdn
          ELSE \E san \in s.cert.sans : Accepts(san, fqdn)
      BY <3>1, <3>2, <3>3, CoversRightly
    <3> QED
      BY <1>11, <1>12, <2>1, <3>1, <3>4 DEF Fits
  <2>3. CASE s.kind # "tls"
    BY <1>12, <2>1, <2>3 DEF Fits
  <2> QED
    BY <2>2, <2>3
<1> HIDE DEF t, s, l, sizes
<1>14. c \notin Range(m) /\ Range(m) \ {c} = Range(l) \ {c}
  BY <1>5
<1>15. r["active"] = m
  BY <1>10 DEF Relisted
<1>16. SlotOk(t, sizes[c], c \in Range(r["active"])) /\ t \in SocketStates \cup {NoSocket}
  BY <1>7, <1>12, <1>13, <1>14, <1>15 DEF SlotOk, Sound
<1>17. \A other \in Lists : other # "active" => c \notin Range(poolLists[other])
  BY <1>7 DEF Lists
<1>18. PoolOk([conn EXCEPT ![c] = t], r)
  BY <1>1, <1>3, <1>5, <1>10, <1>14, <1>16, <1>17, SlotMoves DEF l, sizes
<1> QED
  BY <1>4, <1>18

(***************************************************************************)
(* A request that makes a new connection, or fails to.                     *)
(***************************************************************************)
LEMMA CreateKeeps ==
    ASSUME PoolOk(conn, poolLists), NEW kind \in {"clear", "tls"}, NEW peer \in Peers,
           NEW fqdn \in Names, NEW context \in AnyContext, Create(kind, peer, fqdn, context)
    PROVE  PoolOk(conn', poolLists')
<1> DEFINE bin == ListOf(kind, "client")
<1>1. bin \in FreeLists /\ SizeOf(bin) = kind
  BY ListsOf
<1> HIDE DEF bin
<1>2. PICK c \in Memory(bin), s \in Connects(Socket(kind, "client", peer, fqdn, context)) :
         LET lists == Recycled(poolLists, bin, c, kind) IN
         IF s.failed THEN Discard([conn EXCEPT ![c] = close(s)], lists, c)
         ELSE conn' = [conn EXCEPT ![c] = s] /\ poolLists' = lists
  BY DEF Create, bin
<1> DEFINE lists == Recycled(poolLists, bin, c, kind)
           ms == [conn EXCEPT ![c] = s]
<1>3. s \in SocketStates /\ s.kind = kind /\ s.reused = FALSE /\ s.asked = FALSE
  BY NewSockets
<1>4. Sound(s)
  BY <1>3 DEF Sound
<1>5. c \in Slots /\ PoolOk(ms, lists) /\ c \notin Range(lists["active"])
  BY <1>1, <1>3, <1>4, SocketMade
<1>6. CASE s.failed
  <2>1. Discard([conn EXCEPT ![c] = close(s)], lists, c)
    BY <1>2, <1>6
  <2>2. conn \in [Slots -> SocketStates \cup {NoSocket}]
    BY DEF PoolOk
  <2>3. [conn EXCEPT ![c] = close(s)] = [ms EXCEPT ![c] = close(s)] /\ ms[c] = s
    BY <1>5, <2>2
  <2>4. close(s) \in SocketStates /\ close(s).kind = ms[c].kind /\ ms[c].kind # "none"
    BY <1>3, <2>3, SocketCalls, Kinds
  <2>5. Discard([ms EXCEPT ![c] = close(s)], lists, c)
    BY <2>1, <2>3
  <2> HIDE DEF ms, lists
  <2> QED
    BY <1>5, <2>4, <2>5, DiscardKeeps
<1>7. CASE ~s.failed
  BY <1>2, <1>5, <1>7
<1> QED
  BY <1>6, <1>7

(***************************************************************************)
(* ConnectionPool::release() of a socket s that is open after a complete   *)
(* exchange, or closed.                                                    *)
(***************************************************************************)
LEMMA PoolReleaseKeeps ==
    ASSUME PoolOk(conn, poolLists), NEW c \in Slots, conn[c].kind # "none",
           c \notin Range(poolLists["active"]), NEW s \in SocketStates,
           s.kind = conn[c].kind, s.side = "client",
           s.fd => Sound(s) /\ s.asked /\ ~s.failed, release(c, s)
    PROVE  PoolOk(conn', poolLists')
<1>1. CASE connected(s) /\ (s.kind = "tls" => HasCertificate(s))
  <2> DEFINE a == Asked(s)
             t == WithCertificate(a)
             l == poolLists["active"]
             m == <<c>> \o l
             sizes == poolLists.allocated
             r == [poolLists EXCEPT !["active"] = m]
  <2>1. conn' = [conn EXCEPT ![c] = t] /\ poolLists' = r
    BY <1>1 DEF release
  <2>2. /\ a \in SocketStates /\ a.kind = s.kind /\ a.side = s.side /\ a.cert = s.cert /\ a.fd = s.fd
        /\ a.asked = s.asked /\ a.failed = s.failed /\ a.tls = s.tls
    BY SocketCalls DEF SameUse
  <2>3. a.sock = "CONNECTED" /\ s.fd
    BY <1>1 DEF connected
  <2>4. a.sslCert = s.sslCert
    BY DEF Asked, SocketStates
  <2> HIDE DEF a
  <2>5. /\ t \in SocketStates /\ t.kind = a.kind /\ t.side = a.side /\ t.fd = a.fd /\ t.asked = a.asked
        /\ t.failed = a.failed /\ t.tls = a.tls /\ t.sock = a.sock
    BY <2>2, SocketCalls
  <2>6. s.kind = "tls" => t.cert # NoCert
    <3>1. t.cert = IF a.cert = NoCert THEN a.sslCert ELSE a.cert
      BY <2>2 DEF WithCertificate, SocketStates
    <3>2. WithCertificate(s).cert = IF s.cert = NoCert THEN s.sslCert ELSE s.cert
      BY DEF WithCertificate, SocketStates
    <3> QED
      BY <1>1, <2>2, <2>4, <3>1, <3>2 DEF HasCertificate
  <2> HIDE DEF t
  <2>7. Sound(s) /\ s.asked /\ ~s.failed
    BY <2>3
  <2>8. Sound(t) /\ ReadyToUse(t)
    BY <2>2, <2>3, <2>5, <2>6, <2>7 DEF Sound, ReadyToUse, Established
  <2>9. poolLists \in PoolStates /\ "active" \in Lists /\ l \in Seq(Slots) /\ Distinct(l)
    BY OnLists DEF PoolOk, Apart, Lists
  <2>10. m \in Seq(Slots) /\ Distinct(m) /\ Range(m) = Range(l) \cup {c}
    <3>1. c \notin Range(l)
      OBVIOUS
    <3>2. m = <<c>> \o l
      OBVIOUS
    <3> HIDE DEF l, m
    <3> QED
      BY <2>9, <3>1, <3>2, OneMore DEF Extended
  <2>11. sizes[c] = t.kind /\ \A other \in Lists : other # "active" => c \notin Range(poolLists[other])
    BY <2>2, <2>5, WhereSlotsAre DEF Lists
  <2>12. sizes \in [Slots -> {"none", "clear", "tls"}]
    BY <2>9 DEF PoolStates
  <2> HIDE DEF m
  <2>13. Relisted(poolLists, "active", m, sizes, r)
    BY <2>9, <2>10, <2>12, ListChanged
  <2> HIDE DEF r, l, sizes
  <2>14. r["active"] = m /\ Range(m) \ {c} = Range(l) \ {c} /\ c \in Range(m)
    BY <2>10, <2>13 DEF Relisted
  <2>15. SlotOk(t, sizes[c], c \in Range(r["active"])) /\ t \in SocketStates \cup {NoSocket} /\ t.kind # "none"
    BY <2>5, <2>8, <2>11, <2>14, Kinds DEF SlotOk
  <2>16. PoolOk([conn EXCEPT ![c] = t], r)
    BY <2>9, <2>10, <2>11, <2>13, <2>14, <2>15, SlotMoves DEF l, sizes
  <2> QED
    BY <2>1, <2>16
<1>2. CASE ~(connected(s) /\ (s.kind = "tls" => HasCertificate(s)))
  <2>1. Discard([conn EXCEPT ![c] = s], poolLists, c)
    BY <1>2 DEF release
  <2> QED
    BY <2>1, DiscardKeeps
<1> QED
  BY <1>1, <1>2

(***************************************************************************)
(* A slot that is in use holds a socket that is not pooled.                *)
(***************************************************************************)
LEMMA UsedSlots ==
    ASSUME PoolOk(conn, poolLists), NEW c \in Slots, InUse(c)
    PROVE  /\ conn[c] \in SocketStates /\ conn[c].kind # "none" /\ Sound(conn[c])
           /\ c \notin Range(poolLists["active"])
           /\ conn[c].side = "client" /\ conn[c].reused => Fits(conn[c])
<1>1. conn[c].kind # "none" /\ c \notin Range(poolLists["active"])
  <2>1. ToSet(poolLists["active"]) = Range(poolLists["active"])
    BY DEF ToSet, Range
  <2> QED
    BY <2>1 DEF InUse
<1>2. SlotOk(conn[c], poolLists.allocated[c], c \in Range(poolLists["active"]))
  BY DEF PoolOk
<1> QED
  BY <1>1, <1>2, WhereSlotsAre DEF SlotOk

(***************************************************************************)
(* A connection is given back to the factory.                              *)
(***************************************************************************)
LEMMA ReleaseConnectionKeeps ==
    ASSUME PoolOk(conn, poolLists), NEW c \in Slots, ReleaseConnection(c)
    PROVE  PoolOk(conn', poolLists')
<1> DEFINE o == conn[c]
<1>1. o \in SocketStates /\ o.kind # "none" /\ Sound(o) /\ c \notin Range(poolLists["active"])
  BY UsedSlots DEF ReleaseConnection, ClientUse
<1>2. o.side = "client"
  BY DEF ReleaseConnection, ClientUse
<1>3. PICK keep \in BOOLEAN :
        /\ keep => o.asked /\ ~o.failed
        /\ LET s == IF keep THEN o ELSE close(o)
           IN release(c, IF connected(s) THEN s ELSE close(s))
  BY DEF ReleaseConnection
<1> HIDE DEF o
<1> DEFINE s == IF keep THEN o ELSE close(o)
           t == IF connected(s) THEN s ELSE close(s)
<1>4. close(o) \in SocketStates /\ close(o).kind = o.kind /\ close(o).side = o.side /\ close(o).fd = FALSE
  BY <1>1, SocketCalls
<1>5. /\ s \in SocketStates /\ s.kind = o.kind /\ s.side = "client"
      /\ s.fd => Sound(s) /\ s.asked /\ ~s.failed
  BY <1>1, <1>2, <1>3, <1>4
<1> HIDE DEF s
<1>6. close(s) \in SocketStates /\ close(s).kind = s.kind /\ close(s).side = s.side /\ close(s).fd = FALSE
  BY <1>5, SocketCalls
<1>7. /\ t \in SocketStates /\ t.kind = o.kind /\ t.side = "client"
      /\ t.fd => Sound(t) /\ t.asked /\ ~t.failed
  BY <1>5, <1>6
<1>8. release(c, t)
  BY <1>3 DEF s
<1> HIDE DEF t
<1> QED
  BY <1>1, <1>7, <1>8, PoolReleaseKeeps DEF o

(***************************************************************************)
(* Octets move on a connection that is in use.                             *)
(***************************************************************************)
LEMMA TransferKeeps ==
    ASSUME PoolOk(conn, poolLists), NEW c \in Slots, Transfer(c)
    PROVE  PoolOk(conn', poolLists')
<1> DEFINE o == conn[c]
           a == Asked(o)
<1>1. /\ o \in SocketStates /\ o.kind # "none" /\ Sound(o) /\ c \notin Range(poolLists["active"])
      /\ o.side = "client" /\ o.reused => Fits(o)
  BY UsedSlots DEF Transfer
<1>2. ~o.failed
  BY DEF Transfer
<1>3. PICK s \in receive(a) : conn' = [conn EXCEPT ![c] = s] /\ poolLists' = poolLists
  BY DEF Transfer
<1> HIDE DEF o
<1>4. a \in SocketStates /\ SameUse(o, a) /\ a.asked = o.asked /\ a.failed = o.failed /\ a.tls = o.tls
  BY <1>1, SocketCalls
<1>5. Sound(a) /\ ~a.failed
  BY <1>1, <1>2, <1>4 DEF Sound, SameUse, Established
<1> HIDE DEF a
<1>6. s \in SocketStates /\ Sound(s) /\ SameUse(a, s)
  BY <1>3, <1>4, <1>5, ReceiveKeeps
<1>7. SameUse(o, s)
  BY <1>4, <1>6 DEF SameUse
<1>8. s.side = "client" /\ s.reused => Fits(s)
  <2>1. s.side = o.side /\ s.reused = o.reused
    BY <1>7 DEF SameUse
  <2> QED
    BY <1>1, <1>7, <2>1, FitsStays
<1>9. SlotOk(s, o.kind, c \in Range(poolLists["active"]))
  BY <1>1, <1>6, <1>7, <1>8 DEF SlotOk, SameUse
<1>10. PoolOk([conn EXCEPT ![c] = s], poolLists)
  BY <1>1, <1>6, <1>9, SocketChanges DEF o
<1> QED
  BY <1>3, <1>10

(***************************************************************************)
(* The kernel brings a connection up or down, wherever the socket is.      *)
(***************************************************************************)
LEMMA LinkKeeps ==
    ASSUME PoolOk(conn, poolLists), NEW c \in Slots, LinkUp(c) \/ LinkDown(c)
    PROVE  PoolOk(conn', poolLists')
<1> DEFINE o == conn[c]
<1>1. o.kind # "none" /\ poolLists' = poolLists
  BY DEF LinkUp, LinkDown
<1>2. o \in SocketStates /\ SlotOk(o, o.kind, c \in Range(poolLists["active"]))
  BY <1>1, WhereSlotsAre DEF PoolOk
<1>3. PICK k \in {"up", "down"} : conn' = [conn EXCEPT ![c] = [o EXCEPT !.link = k]]
  BY DEF LinkUp, LinkDown, PoolOk
<1> DEFINE t == [o EXCEPT !.link = k]
<1> HIDE DEF o
<1>4. /\ t \in SocketStates /\ SameUse(o, t) /\ t.fd = o.fd /\ t.sock = o.sock /\ t.tls = o.tls
      /\ t.asked = o.asked /\ t.failed = o.failed
  BY <1>2 DEF SocketStates, SameUse
<1> HIDE DEF t
<1>5. Fits(o) => Fits(t)
  BY <1>4, FitsStays
<1>6. SlotOk(t, o.kind, c \in Range(poolLists["active"]))
  BY <1>1, <1>2, <1>4, <1>5 DEF SlotOk, SameUse, Sound, ReadyToUse, Established
<1>7. PoolOk([conn EXCEPT ![c] = t], poolLists)
  BY <1>1, <1>4, <1>6, SocketChanges DEF o
<1> QED
  BY <1>1, <1>3, <1>7 DEF t

(***************************************************************************)
(* The pool is cleared.                                                    *)
(***************************************************************************)
LEMMA PoolClearKeeps ==
    ASSUME PoolOk(conn, poolLists), PoolClear
    PROVE  PoolOk(conn', poolLists')
<1> DEFINE kept == {"serverClear", "serverTLS"}
           gone == Range(poolLists["active"]) \cup Range(poolLists["clear"]) \cup Range(poolLists["tls"])
           ds == [c \in Slots |-> IF c \in gone THEN NoSocket ELSE conn[c]]
           sizes == [c \in Slots |-> IF c \in gone THEN "none" ELSE poolLists.allocated[c]]
           r == [poolLists EXCEPT !.active = <<>>, !.clear = <<>>, !.tls = <<>>, !.allocated = sizes]
<1>1. conn' = ds /\ poolLists' = r
  <2>1. \A l : ToSet(l) = Range(l)
    BY DEF ToSet, Range
  <2> QED
    BY <2>1 DEF PoolClear, PoolOk, PoolStates
<1>2. poolLists \in PoolStates /\ conn \in [Slots -> SocketStates \cup {NoSocket}] /\ <<>> \in Seq(Slots)
  BY EmptySeq DEF PoolOk
<1>3. ds \in [Slots -> SocketStates \cup {NoSocket}] /\ sizes \in [Slots -> {"none", "clear", "tls"}]
  BY <1>2 DEF PoolStates
<1>4. \A c \in Slots : IF c \in gone THEN ds[c] = NoSocket ELSE ds[c] = conn[c] /\ sizes[c] = poolLists.allocated[c]
  OBVIOUS
<1> HIDE DEF ds, sizes
<1>5. /\ r \in PoolStates /\ r.allocated = sizes
      /\ r["active"] = <<>> /\ r["clear"] = <<>> /\ r["tls"] = <<>>
      /\ r["serverClear"] = poolLists["serverClear"] /\ r["serverTLS"] = poolLists["serverTLS"]
  BY <1>2, <1>3 DEF PoolStates
<1> HIDE DEF r
<1>6. Range(<<>>) = {}
  BY DEF Range
<1>7. ASSUME NEW bin \in Lists
      PROVE  \/ r[bin] = <<>>
             \/ bin \in {"serverClear", "serverTLS"} /\ r[bin] = poolLists[bin]
  BY <1>5 DEF Lists, FreeLists
<1>8. Distinct(<<>>)
  BY DEF Distinct
<1>9. Apart(r)
  <2>1. \A bin \in Lists : Distinct(r[bin])
    BY <1>7, <1>8 DEF PoolOk, Apart
  <2>2. ASSUME NEW bin \in Lists, NEW other \in Lists, bin # other
        PROVE  Range(r[bin]) \cap Range(r[other]) = {}
    BY <1>6, <1>7, <2>2 DEF PoolOk, Apart
  <2> QED
    BY <2>1, <2>2 DEF Apart
<1>10. FreeOk(ds, r)
  <2> SUFFICES ASSUME NEW bin \in FreeLists, NEW c \in Range(r[bin])
               PROVE  ds[c] = NoSocket /\ r.allocated[c] = SizeOf(bin)
    BY DEF FreeOk
  <2>1. bin \in Lists /\ bin \in {"serverClear", "serverTLS"} /\ c \in Range(poolLists[bin])
    BY <1>6, <1>7 DEF Lists
  <2>2. c \in Slots /\ conn[c] = NoSocket /\ poolLists.allocated[c] = SizeOf(bin)
    BY <1>2, <2>1, OnLists DEF PoolOk, FreeOk
  <2>3. c \notin gone
    <3>1. "active" \in Lists /\ "clear" \in Lists /\ "tls" \in Lists
      BY DEF Lists, FreeLists
    <3> QED
      BY <2>1, <3>1 DEF PoolOk, Apart
  <2> QED
    BY <1>4, <1>5, <2>2, <2>3
<1>11. ASSUME NEW c \in Slots PROVE SlotOk(ds[c], r.allocated[c], c \in Range(r["active"]))
  <2>1. CASE c \in gone
    BY <1>4, <2>1, Kinds DEF SlotOk
  <2>2. CASE c \notin gone
    <3>1. SlotOk(conn[c], poolLists.allocated[c], FALSE)
      BY <2>2 DEF PoolOk, SlotOk
    <3>2. ds[c] = conn[c] /\ r.allocated[c] = poolLists.allocated[c] /\ c \notin Range(r["active"])
      BY <1>4, <1>5, <1>6, <2>2
    <3> QED
      BY <3>1, <3>2 DEF SlotOk
  <2> QED
    BY <2>1, <2>2
<1>12. \A c \in Range(r["active"]) : ds[c].kind # "none"
  BY <1>5, <1>6
<1> QED
  BY <1>1, <1>3, <1>5, <1>9, <1>10, <1>11, <1>12 DEF PoolOk

(***************************************************************************)
(* The server's factory makes a socket for an accepted descriptor.         *)
(***************************************************************************)
LEMMA ServerCreateKeeps ==
    ASSUME PoolOk(conn, poolLists), NEW kind \in {"clear", "tls"}, ServerCreate(kind)
    PROVE  PoolOk(conn', poolLists')
<1> DEFINE bin == ListOf(kind, "server")
           a == Accepted(kind)
<1>1. bin \in FreeLists /\ SizeOf(bin) = kind
  BY ListsOf
<1>2. PICK c \in Memory(bin) :
        conn' = [conn EXCEPT ![c] = a] /\ poolLists' = Recycled(poolLists, bin, c, kind)
  BY DEF ServerCreate
<1>3. a \in SocketStates /\ a.kind = kind /\ a.reused = FALSE /\ a.asked = FALSE
  BY AcceptedSocket
<1> HIDE DEF bin, a
<1>4. Sound(a)
  BY <1>3 DEF Sound
<1> QED
  BY <1>1, <1>2, <1>3, <1>4, SocketMade

(***************************************************************************)
(* The server's factory takes a socket back.                               *)
(***************************************************************************)
LEMMA ServerReleaseKeeps ==
    ASSUME PoolOk(conn, poolLists), NEW c \in Slots, ServerRelease(c)
    PROVE  PoolOk(conn', poolLists')
<1>1. conn[c] \in SocketStates /\ conn[c].kind # "none" /\ c \notin Range(poolLists["active"])
  BY UsedSlots DEF ServerRelease
<1>2. [conn EXCEPT ![c] = conn[c]] = conn
  BY DEF PoolOk
<1>3. Discard([conn EXCEPT ![c] = conn[c]], poolLists, c)
  BY <1>2 DEF ServerRelease
<1> QED
  BY <1>1, <1>3, DiscardKeeps

(***************************************************************************)
(* A connection is asked of the pool.                                      *)
(***************************************************************************)
LEMMA AcquireKeeps ==
    ASSUME PoolOk(conn, poolLists),
           \/ \E p \in Peers : AcquireClearSocket(p)
           \/ \E f \in Fqdns, p \in Peers, x \in TLSContexts : AcquireTLSSocket(f, p, x)
    PROVE  PoolOk(conn', poolLists')
<1>1. <<>> \in Names /\ "none" \in AnyContext /\ Fqdns \subseteq Names /\ TLSContexts \subseteq AnyContext
  BY DEF Names, AnyContext
<1>2. ASSUME NEW p \in Peers, AcquireClearSocket(p) PROVE PoolOk(conn', poolLists')
  BY <1>1, <1>2, ReuseKeeps, CreateKeeps DEF AcquireClearSocket
<1>3. ASSUME NEW f \in Fqdns, NEW p \in Peers, NEW x \in TLSContexts, AcquireTLSSocket(f, p, x)
      PROVE  PoolOk(conn', poolLists')
  BY <1>1, <1>3, ReuseKeeps, CreateKeeps DEF AcquireTLSSocket
<1> QED
  BY <1>2, <1>3

-----------------------------------------------------------------------------
(***************************************************************************)
(* The invariant of the pool and of the factories, for any slots, peers,   *)
(* names, certificates and contexts.                                       *)
(***************************************************************************)
THEOREM PoolInvariance == PoolSpec => []PoolOk(conn, poolLists)
<1>1. PoolInit => PoolOk(conn, poolLists)
  <2> SUFFICES ASSUME PoolInit PROVE PoolOk(conn, poolLists)
    OBVIOUS
  <2>1. conn \in [Slots -> SocketStates \cup {NoSocket}] /\ \A c \in Slots : conn[c] = NoSocket
    BY DEF PoolInit
  <2>2. poolLists \in PoolStates /\ \A bin \in Lists : poolLists[bin] = <<>>
    BY EmptySeq DEF PoolInit, PoolStates, Lists, FreeLists
  <2>3. Range(<<>>) = {} /\ Distinct(<<>>)
    BY DEF Range, Distinct
  <2>4. Apart(poolLists)
    BY <2>2, <2>3 DEF Apart
  <2>5. "active" \in Lists /\ FreeLists \subseteq Lists
    BY DEF Lists
  <2> QED
    BY <2>1, <2>2, <2>3, <2>4, <2>5, Kinds DEF PoolOk, FreeOk, SlotOk
<1>2. PoolOk(conn, poolLists) /\ [PoolNext]_poolVars => PoolOk(conn, poolLists)'
  <2> SUFFICES ASSUME PoolOk(conn, poolLists), [PoolNext]_poolVars PROVE PoolOk(conn', poolLists')
    OBVIOUS
  <2>1. CASE UNCHANGED poolVars
    BY <2>1 DEF poolVars
  <2>2. CASE PoolNext
    BY <2>2, AcquireKeeps, ReleaseConnectionKeeps, TransferKeeps, LinkKeeps, PoolClearKeeps,
       ServerCreateKeeps, ServerReleaseKeeps DEF PoolNext
  <2> QED
    BY <2>1, <2>2
<1> QED
  BY <1>1, <1>2, PTL DEF PoolSpec

(***************************************************************************)
(* A connection taken from the pool fits the request it is taken for, what *)
(* waits in the pool can carry one, and a socket object is only ever made  *)
(* in memory of its own size that nothing else is in.                      *)
(***************************************************************************)
THEOREM PoolsAreSafe == PoolSpec => []PoolIsSafe
<1>1. ASSUME PoolOk(conn, poolLists) PROVE PoolIsSafe
  <2>1. \A l : ToSet(l) = Range(l)
    BY DEF ToSet, Range
  <2>2. ReusedConnectionFits
    <3> SUFFICES ASSUME NEW c \in Slots, ClientUse(c), conn[c].reused PROVE Fits(conn[c])
      BY DEF ReusedConnectionFits, Fits
    <3> QED
      BY <1>1, UsedSlots DEF ClientUse
  <2>3. PooledIsReady
    <3> SUFFICES ASSUME NEW c \in Range(poolLists["active"]) PROVE ReadyToUse(conn[c])
      BY <2>1 DEF PooledIsReady, ReadyToUse
    <3>1. c \in Slots
      BY <1>1, OnLists DEF PoolOk, Lists
    <3> QED
      BY <1>1, <3>1 DEF PoolOk, SlotOk
  <2>4. MemoryFits
    <3> DEFINE A == poolLists["active"]
               B == poolLists["clear"]
               C == poolLists["tls"]
               D == poolLists["serverClear"]
               E == poolLists["serverTLS"]
    <3>1. /\ \A bin \in Lists : poolLists[bin] \in Seq(Slots) /\ Distinct(poolLists[bin])
          /\ \A bin, other \in Lists : bin # other => Range(poolLists[bin]) \cap Range(poolLists[other]) = {}
      BY <1>1, OnLists DEF PoolOk, Apart
    <3>2. /\ A \in Seq(Slots) /\ B \in Seq(Slots) /\ C \in Seq(Slots) /\ D \in Seq(Slots) /\ E \in Seq(Slots)
          /\ Distinct(A) /\ Distinct(B) /\ Distinct(C) /\ Distinct(D) /\ Distinct(E)
      BY <3>1 DEF Lists, FreeLists
    <3>3. /\ Range(A) \cap Range(B) = {} /\ Range(A) \cap Range(C) = {} /\ Range(A) \cap Range(D) = {}
          /\ Range(A) \cap Range(E) = {} /\ Range(B) \cap Range(C) = {} /\ Range(B) \cap Range(D) = {}
          /\ Range(B) \cap Range(E) = {} /\ Range(C) \cap Range(D) = {} /\ Range(C) \cap Range(E) = {}
          /\ Range(D) \cap Range(E) = {}
      BY <3>1 DEF Lists, FreeLists
    <3>4. /\ \A c \in Range(B) \cup Range(D) : poolLists.allocated[c] = "clear"
          /\ \A c \in Range(C) \cup Range(E) : poolLists.allocated[c] = "tls"
      BY <1>1 DEF PoolOk, FreeOk, FreeLists, SizeOf
    <3> HIDE DEF A, B, C, D, E
    <3>5. A \o B \in Seq(Slots) /\ Distinct(A \o B) /\ Range(A \o B) = Range(A) \cup Range(B)
      BY <3>2, <3>3, Joined
    <3> DEFINE F == A \o B
    <3>6. F \in Seq(Slots) /\ Distinct(F) /\ Range(F) = Range(A) \cup Range(B) /\ Range(F) \cap Range(C) = {}
      BY <3>3, <3>5
    <3> HIDE DEF F
    <3>7. F \o C \in Seq(Slots) /\ Distinct(F \o C) /\ Range(F \o C) = Range(F) \cup Range(C)
      BY <3>2, <3>6, Joined
    <3> DEFINE G == F \o C
    <3>8. /\ G \in Seq(Slots) /\ Distinct(G) /\ Range(G) = Range(A) \cup Range(B) \cup Range(C)
          /\ Range(G) \cap Range(D) = {}
      BY <3>3, <3>6, <3>7
    <3> HIDE DEF G
    <3>9. G \o D \in Seq(Slots) /\ Distinct(G \o D) /\ Range(G \o D) = Range(G) \cup Range(D)
      BY <3>2, <3>8, Joined
    <3> DEFINE H == G \o D
    <3>10. H \in Seq(Slots) /\ Distinct(H) /\ Range(H) \cap Range(E) = {}
      BY <3>3, <3>8, <3>9
    <3> HIDE DEF H
    <3>11. H \o E \in Seq(Slots) /\ Distinct(H \o E)
      BY <3>2, <3>10, Joined
    <3>12. IsInjective(H \o E)
      BY <3>11, LenProperties DEF Distinct, IsInjective
    <3>13. H \o E = A \o B \o C \o D \o E
      BY DEF F, G, H
    <3>14. Range(B \o D) = Range(B) \cup Range(D)
      BY <3>2, <3>3, Joined
    <3>15. Range(C \o E) = Range(C) \cup Range(E)
      BY <3>2, <3>3, Joined
    <3>16. \A c \in Slots : conn[c].kind # "none" => poolLists.allocated[c] = conn[c].kind
      BY <1>1 DEF PoolOk, SlotOk
    <3> QED
      BY <2>1, <3>4, <3>12, <3>13, <3>14, <3>15, <3>16 DEF MemoryFits, A, B, C, D, E
  <2> QED
    BY <2>2, <2>3, <2>4 DEF PoolIsSafe
<1> QED
  BY <1>1, PoolInvariance, PTL

-----------------------------------------------------------------------------
(***************************************************************************)
(* The compact map (any keys, sizes, values and initial capacity).  The    *)
(* records are adjacent, and no key has two of them.                       *)
(***************************************************************************)
Records == [key : DOMAIN KeySizes, value : CompactValues, at : Nat]

CompactStates ==
    [records : Seq(Records), end : Nat, capacity : Nat, buffer : BOOLEAN,
     promise : UNION {[D -> CompactValues] : D \in SUBSET DOMAIN KeySizes}]

UniqueKeys(rs) == \A i, j \in 1 .. Len(rs) : rs[i].key = rs[j].key => i = j

\* pr is the map that the records rs stand for.
StandFor(rs, pr) ==
    /\ \A i \in 1 .. Len(rs) : rs[i].key \in DOMAIN pr /\ pr[rs[i].key] = rs[i].value
    /\ \A k \in DOMAIN pr : \E i \in 1 .. Len(rs) : rs[i].key = k

\* The records rs, one after the other from 0 to end.
Adjacent(rs, end) ==
    /\ Len(rs) = 0 => end = 0
    /\ Len(rs) # 0 => rs[1].at = 0 /\ end = rs[Len(rs)].at + recordSize(rs[Len(rs)].key)
    /\ \A i \in 1 .. Len(rs) : i # Len(rs) => rs[i + 1].at = rs[i].at + recordSize(rs[i].key)

CompactOk(c) ==
    /\ c \in CompactStates
    /\ UniqueKeys(c.records) /\ StandFor(c.records, c.promise) /\ Adjacent(c.records, c.end)
    /\ c.end + 1 =< c.capacity

\* qr is the map pr after k was given v, or was removed; no record is of k.
Gives(pr, k, v, qr) ==
    DOMAIN qr = DOMAIN pr \cup {k} /\ \A l \in DOMAIN qr : qr[l] = IF l = k THEN v ELSE pr[l]

Drops(pr, k, qr) == DOMAIN qr = DOMAIN pr \ {k} /\ \A l \in DOMAIN qr : qr[l] = pr[l]

Lacks(rs, k) == \A j \in 1 .. Len(rs) : rs[j].key # k

(***************************************************************************)
(* Sizes of records.                                                       *)
(***************************************************************************)
LEMMA RecordSizes ==
    ASSUME NEW k \in DOMAIN KeySizes
    PROVE  /\ KeySizes[k] \in Nat /\ SizeofPointer \in Nat /\ recordSize(k) \in Nat
           /\ recordSize(k) = 1 + KeySizes[k] + SizeofPointer
BY CompactAssumption DEF recordSize

(***************************************************************************)
(* The scan for a key finds its record, or there is none.                  *)
(***************************************************************************)
LEMMA CompactFinds ==
    ASSUME compact \in CompactStates, NEW k
    PROVE  LET i == compactFind(k)
               rs == compact.records
           IN  IF i = 0 THEN Lacks(rs, k)
               ELSE i \in 1 .. Len(rs) /\ rs[i].key = k
<1> USE DEF Lacks
<1> DEFINE rs == compact.records
           I == {j \in 1 .. Len(rs) : rs[j].key = k}
<1>1. compactFind(k) = IF I # {} THEN Min(I) ELSE 0
  BY DEF compactFind, SelectInSeq
<1>2. rs \in Seq(Records)
  BY DEF CompactStates
<1>3. Len(rs) \in Nat /\ I \in SUBSET Nat
  BY <1>2, LenProperties
<1>4. CASE I = {}
  BY <1>1, <1>4
<1>5. CASE I # {}
  <2>1. Min(I) \in I
    BY <1>3, <1>5, Least
  <2>2. Min(I) # 0
    BY <1>3, <2>1
  <2> QED
    BY <1>1, <1>5, <2>1, <2>2
<1> QED
  BY <1>4, <1>5

(***************************************************************************)
(* The record at i gets another value.                                     *)
(***************************************************************************)
LEMMA ValueChanges ==
    ASSUME NEW rs \in Seq(Records), NEW i \in 1 .. Len(rs), NEW v \in CompactValues,
           NEW pr, StandFor(rs, pr), UniqueKeys(rs), NEW end, Adjacent(rs, end),
           NEW qr, Gives(pr, rs[i].key, v, qr)
    PROVE  LET ts == [rs EXCEPT ![i].value = v] IN
           ts \in Seq(Records) /\ StandFor(ts, qr) /\ UniqueKeys(ts) /\ Adjacent(ts, end)
<1> DEFINE x == [rs[i] EXCEPT !.value = v]
           ts == [rs EXCEPT ![i] = x]
<1>1. Len(rs) \in Nat /\ DOMAIN rs = 1 .. Len(rs) /\ \A j \in 1 .. Len(rs) : rs[j] \in Records
  BY LenProperties, ElementOfSeq
<1>2. x \in Records /\ x.key = rs[i].key /\ x.at = rs[i].at /\ x.value = v
  BY <1>1 DEF Records
<1>3. [rs EXCEPT ![i].value = v] = ts
  BY <1>1
<1> HIDE DEF x
<1>4. ts \in Seq(Records) /\ Len(ts) = Len(rs)
  BY <1>1, <1>2, ExceptSeq
<1>5. \A j \in 1 .. Len(rs) : ts[j] = IF j = i THEN x ELSE rs[j]
  BY <1>1
<1> HIDE DEF ts
<1>6. \A j \in 1 .. Len(rs) : ts[j].key = rs[j].key /\ ts[j].at = rs[j].at
  BY <1>2, <1>5
<1>7. UniqueKeys(ts)
  BY <1>4, <1>6 DEF UniqueKeys
<1>8. Adjacent(ts, end)
  <2>1. Len(rs) \in Nat
    BY <1>1
  <2>2. /\ \A j \in 1 .. Len(rs) : j # Len(rs) => j + 1 \in 1 .. Len(rs)
        /\ Len(rs) # 0 => 1 \in 1 .. Len(rs) /\ Len(rs) \in 1 .. Len(rs)
    BY <2>1
  <2> QED
    BY <1>4, <1>6, <2>1, <2>2 DEF Adjacent
<1>9. StandFor(ts, qr)
  <2>1. ASSUME NEW j \in 1 .. Len(ts) PROVE ts[j].key \in DOMAIN qr /\ qr[ts[j].key] = ts[j].value
    <3>1. j \in 1 .. Len(rs) /\ rs[j].key \in DOMAIN pr /\ pr[rs[j].key] = rs[j].value
      BY <1>4 DEF StandFor
    <3>2. rs[j].key = rs[i].key => j = i
      BY <3>1 DEF UniqueKeys
    <3> QED
      BY <1>2, <1>5, <1>6, <3>1, <3>2 DEF Gives
  <2>2. ASSUME NEW k \in DOMAIN qr PROVE \E j \in 1 .. Len(ts) : ts[j].key = k
    <3>1. rs[i].key \in DOMAIN pr
      BY DEF StandFor
    <3>2. k \in DOMAIN pr
      BY <3>1 DEF Gives
    <3>3. PICK j \in 1 .. Len(rs) : rs[j].key = k
      BY <3>2 DEF StandFor
    <3> QED
      BY <1>4, <1>6, <3>3
  <2> QED
    BY <2>1, <2>2 DEF StandFor
<1> QED
  BY <1>3, <1>4, <1>7, <1>8, <1>9

(***************************************************************************)
(* A record is added where the others end.                                 *)
(***************************************************************************)
LEMMA RecordAdded ==
    ASSUME NEW rs \in Seq(Records), NEW end \in Nat, NEW k \in DOMAIN KeySizes, NEW v \in CompactValues,
           NEW pr, StandFor(rs, pr), UniqueKeys(rs), Adjacent(rs, end),
           Lacks(rs, k), NEW qr, Gives(pr, k, v, qr)
    PROVE  LET ts == Append(rs, [key |-> k, value |-> v, at |-> end]) IN
           ts \in Seq(Records) /\ StandFor(ts, qr) /\ UniqueKeys(ts) /\ Adjacent(ts, end + recordSize(k))
<1> DEFINE x == [key |-> k, value |-> v, at |-> end]
           ts == Append(rs, x)
           n == Len(rs)
<1>1. n \in Nat /\ \A j \in 1 .. n : rs[j] \in Records
  BY LenProperties, ElementOfSeq
<1>2. x \in Records /\ x.key = k /\ x.value = v /\ x.at = end
  BY DEF Records
<1> HIDE DEF x
<1>3. ts \in Seq(Records) /\ Len(ts) = n + 1 /\ ts[n + 1] = x /\ \A j \in 1 .. n : ts[j] = rs[j]
  BY <1>2, AppendProperties
<1> HIDE DEF ts
<1>4. \A j \in 1 .. Len(ts) : j = n + 1 \/ (j \in 1 .. n /\ ts[j] = rs[j])
  <2>1. \A j \in 1 .. Len(ts) : j = n + 1 \/ j \in 1 .. n
    BY <1>1, <1>3
  <2> QED
    BY <1>3, <2>1
<1>5. \A j \in 1 .. n : j \in 1 .. Len(ts)
  BY <1>1, <1>3
<1>6. n + 1 \in 1 .. Len(ts)
  BY <1>1, <1>3
<1>7. UniqueKeys(ts)
  <2> SUFFICES ASSUME NEW i \in 1 .. Len(ts), NEW j \in 1 .. Len(ts), ts[i].key = ts[j].key PROVE i = j
    BY DEF UniqueKeys
  <2>1. i \in 1 .. n /\ j \in 1 .. n => i = j
    BY <1>4, <1>3 DEF UniqueKeys
  <2> QED
    BY <1>2, <1>3, <1>4, <2>1 DEF Lacks
<1>8. Adjacent(ts, end + recordSize(k))
  <2>1. Len(ts) # 0 /\ ts[Len(ts)] = x
    BY <1>1, <1>3
  <2>2. ts[1].at = 0
    <3>1. CASE n = 0
      BY <1>2, <1>3, <3>1 DEF Adjacent
    <3>2. CASE n # 0
      <4>1. 1 \in 1 .. n
        BY <1>1, <3>2
      <4> QED
        BY <1>3, <3>2, <4>1 DEF Adjacent
    <3> QED
      BY <3>1, <3>2
  <2>3. ASSUME NEW i \in 1 .. Len(ts), i # Len(ts) PROVE ts[i + 1].at = ts[i].at + recordSize(ts[i].key)
    <3>1. i \in 1 .. n
      BY <1>1, <1>3, <2>3
    <3>2. CASE i = n
      <4>1. n # 0 /\ ts[i] = rs[n] /\ ts[i + 1] = x
        BY <1>1, <1>3, <3>1, <3>2
      <4> QED
        BY <1>2, <4>1 DEF Adjacent
    <3>3. CASE i # n
      <4>1. i + 1 \in 1 .. n
        BY <1>1, <3>1, <3>3
      <4> QED
        BY <1>3, <3>1, <3>3, <4>1 DEF Adjacent
    <3> QED
      BY <3>2, <3>3
  <2> QED
    BY <1>2, <2>1, <2>2, <2>3 DEF Adjacent
<1>9. StandFor(ts, qr)
  <2>1. ASSUME NEW j \in 1 .. Len(ts) PROVE ts[j].key \in DOMAIN qr /\ qr[ts[j].key] = ts[j].value
    <3>1. CASE j = n + 1
      BY <1>2, <1>3, <3>1 DEF Gives
    <3>2. CASE j \in 1 .. n
      <4>1. ts[j] = rs[j]
        BY <1>3, <3>2
      <4>2. rs[j].key \in DOMAIN pr /\ pr[rs[j].key] = rs[j].value /\ rs[j].key # k
        BY <3>2 DEF StandFor, Lacks
      <4>3. rs[j].key \in DOMAIN qr /\ qr[rs[j].key] = pr[rs[j].key]
        BY <4>2 DEF Gives
      <4> QED
        BY <4>1, <4>2, <4>3
    <3> QED
      BY <1>4, <3>1, <3>2
  <2>2. ASSUME NEW l \in DOMAIN qr PROVE \E j \in 1 .. Len(ts) : ts[j].key = l
    <3>1. CASE l = k
      BY <1>2, <1>3, <1>6, <3>1
    <3>2. CASE l # k
      <4>1. PICK j \in 1 .. n : rs[j].key = l
        BY <3>2 DEF StandFor, Gives
      <4> QED
        BY <1>3, <1>5, <4>1
    <3> QED
      BY <3>1, <3>2
  <2> QED
    BY <2>1, <2>2 DEF StandFor
<1> QED
  BY <1>3, <1>7, <1>8, <1>9 DEF ts, x

(***************************************************************************)
(* Adjacent records are in order: the later ones are behind the i-th.      *)
(***************************************************************************)
LEMMA BehindRecord ==
    ASSUME NEW rs \in Seq(Records), NEW end, Adjacent(rs, end), NEW i \in 1 .. Len(rs)
    PROVE  \A j \in 1 .. Len(rs) : i < j => rs[j].at >= rs[i].at + recordSize(rs[i].key)
<1> DEFINE n == Len(rs)
           size(j) == recordSize(rs[j].key)
           T == {j \in 1 .. n : i < j /\ ~(rs[j].at >= rs[i].at + size(i))}
<1>1. n \in Nat /\ \A j \in 1 .. n : rs[j].at \in Nat /\ rs[j].key \in DOMAIN KeySizes
  <2>1. n \in Nat /\ \A j \in 1 .. n : rs[j] \in Records
    BY LenProperties, ElementOfSeq
  <2> QED
    BY <2>1 DEF Records
<1>2. \A j \in 1 .. n : size(j) \in Nat
  BY <1>1, RecordSizes
<1>3. \A j \in 1 .. n : j # n => rs[j + 1].at = rs[j].at + size(j)
  BY DEF Adjacent
<1> HIDE DEF size
<1>4. T = {}
  <2> SUFFICES ASSUME T # {} PROVE FALSE
    OBVIOUS
  <2>1. T \in SUBSET Nat
    BY <1>1
  <2>2. PICK m \in T : \A y \in T : m <= y
    BY <2>1, Least
  <2>3. m \in 1 .. n /\ i < m /\ ~(rs[m].at >= rs[i].at + size(i)) /\ m - 1 \in 1 .. n /\ m - 1 # n /\ (m - 1) + 1 = m
    BY <1>1, <2>2
  <2>4. rs[m].at = rs[m - 1].at + size(m - 1)
    BY <1>3, <2>3
  <2>5. CASE m - 1 = i
    BY <1>1, <1>2, <2>3, <2>4, <2>5
  <2>6. CASE m - 1 # i
    <3>1. i < m - 1 /\ m - 1 \notin T
      BY <1>1, <2>2, <2>3, <2>6
    <3>2. rs[m - 1].at >= rs[i].at + size(i)
      BY <2>3, <3>1
    <3>3. rs[m - 1].at \in Nat /\ rs[i].at \in Nat /\ size(i) \in Nat /\ size(m - 1) \in Nat
      BY <1>1, <1>2, <2>3
    <3> QED
      BY <2>3, <2>4, <3>2, <3>3
  <2> QED
    BY <2>5, <2>6
<1> QED
  BY <1>4 DEF size

(***************************************************************************)
(* A record is removed, and those behind it moved down.                    *)
(***************************************************************************)
LEMMA RecordRemoved ==
    ASSUME NEW rs \in Seq(Records), NEW end \in Nat, NEW i \in 1 .. Len(rs),
           NEW pr, StandFor(rs, pr), UniqueKeys(rs), Adjacent(rs, end),
           NEW qr, Drops(pr, rs[i].key, qr)
    PROVE  LET ts == memmove(rs, i)
               size == recordSize(rs[i].key)
           IN  /\ ts \in Seq(Records) /\ end - size \in Nat
               /\ StandFor(ts, qr) /\ UniqueKeys(ts) /\ Adjacent(ts, end - size)
<1> USE DEF Drops
<1> DEFINE n == Len(rs)
           size == recordSize(rs[i].key)
           moved(j) == [rs[j + 1] EXCEPT !.at = @ - size]
           ts == [j \in 1 .. n - 1 |-> IF j < i THEN rs[j] ELSE moved(j)]
<1>1. n \in Nat /\ n # 0 /\ \A j \in 1 .. n : rs[j] \in Records
  BY LenProperties, ElementOfSeq
<1>2. memmove(rs, i) = ts
  BY DEF memmove
<1>3. \A j \in 1 .. n : rs[j].at \in Nat /\ rs[j].key \in DOMAIN KeySizes
  BY <1>1 DEF Records
<1>4. size \in Nat
  BY <1>3, RecordSizes
<1> HIDE DEF size
<1>5. ASSUME NEW j \in 1 .. n - 1, ~(j < i)
      PROVE  /\ j + 1 \in 1 .. n /\ rs[j + 1].at - size \in Nat
             /\ moved(j) \in Records /\ moved(j).key = rs[j + 1].key
             /\ moved(j).value = rs[j + 1].value /\ moved(j).at = rs[j + 1].at - size
  <2>1. j + 1 \in 1 .. n /\ i < j + 1
    BY <1>1, <1>5
  <2>2. rs[j + 1].at >= rs[i].at + size
    BY <2>1, BehindRecord DEF size
  <2>3. rs[j + 1].at - size \in Nat
    <3>1. rs[j + 1].at \in Nat /\ rs[i].at \in Nat
      BY <1>3, <2>1
    <3> QED
      BY <1>4, <2>2, <3>1
  <2>4. rs[j + 1] \in Records
    BY <1>1, <2>1
  <2> QED
    BY <2>1, <2>3, <2>4 DEF Records
<1> HIDE DEF moved
<1>6. \A j \in 1 .. n - 1 : j < i => j \in 1 .. n /\ rs[j] \in Records
  BY <1>1
<1>7. ts \in Seq(Records) /\ Len(ts) = n - 1
  <2>1. ts \in [1 .. n - 1 -> Records]
    BY <1>5, <1>6
  <2>2. n - 1 \in Nat
    BY <1>1
  <2> QED
    BY <2>1, <2>2
<1>8. \A j \in 1 .. n - 1 : ts[j] = IF j < i THEN rs[j] ELSE moved(j)
  OBVIOUS
<1> HIDE DEF ts
\* Which record each of the others was.
<1> DEFINE was(j) == IF j < i THEN j ELSE j + 1
<1>9. ASSUME NEW j \in 1 .. n - 1
      PROVE  /\ was(j) \in 1 .. n /\ was(j) # i
             /\ ts[j].key = rs[was(j)].key /\ ts[j].value = rs[was(j)].value
             /\ ts[j].at = IF j < i THEN rs[j].at ELSE rs[j + 1].at - size
  <2>1. was(j) \in 1 .. n /\ was(j) # i
    BY <1>1
  <2>2. CASE j < i
    BY <1>8, <2>1, <2>2
  <2>3. CASE ~(j < i)
    BY <1>5, <1>8, <2>1, <2>3
  <2> QED
    BY <2>1, <2>2, <2>3
<1>10. \A j, k \in 1 .. n - 1 : was(j) = was(k) => j = k
  BY <1>1
<1>11. \A j \in 1 .. n : j # i => \E k \in 1 .. n - 1 : was(k) = j
  <2> SUFFICES ASSUME NEW j \in 1 .. n, j # i PROVE \E k \in 1 .. n - 1 : was(k) = j
    OBVIOUS
  <2>1. CASE j < i
    <3>1. j \in 1 .. n - 1 /\ was(j) = j
      BY <1>1, <2>1
    <3> QED
      BY <3>1
  <2>2. CASE ~(j < i)
    <3>1. j - 1 \in 1 .. n - 1 /\ was(j - 1) = j
      BY <1>1, <2>2
    <3> QED
      BY <3>1
  <2> QED
    BY <2>1, <2>2
<1> HIDE DEF was
<1>12. UniqueKeys(ts)
  <2> SUFFICES ASSUME NEW j \in 1 .. n - 1, NEW k \in 1 .. n - 1, ts[j].key = ts[k].key PROVE j = k
    BY <1>7 DEF UniqueKeys
  <2>1. was(j) \in 1 .. n /\ was(k) \in 1 .. n /\ rs[was(j)].key = rs[was(k)].key
    BY <1>9
  <2>2. was(j) = was(k)
    BY <2>1 DEF UniqueKeys
  <2> QED
    BY <1>10, <2>2
<1>13. StandFor(ts, qr)
  <2>1. ASSUME NEW j \in 1 .. n - 1 PROVE ts[j].key \in DOMAIN qr /\ qr[ts[j].key] = ts[j].value
    <3>1. was(j) \in 1 .. n /\ was(j) # i
      BY <1>9
    <3>2. rs[was(j)].key \in DOMAIN pr /\ pr[rs[was(j)].key] = rs[was(j)].value
      BY <3>1 DEF StandFor
    <3>3. rs[was(j)].key # rs[i].key
      BY <3>1 DEF UniqueKeys
    <3> QED
      BY <1>9, <3>2, <3>3
  <2>2. ASSUME NEW l \in DOMAIN qr PROVE \E j \in 1 .. n - 1 : ts[j].key = l
    <3>1. PICK k \in 1 .. n : rs[k].key = l
      BY DEF StandFor
    <3>2. k # i
      BY <3>1
    <3>3. PICK j \in 1 .. n - 1 : was(j) = k
      BY <1>11, <3>2
    <3> QED
      BY <1>9, <3>1, <3>3
  <2> QED
    BY <1>7, <2>1, <2>2 DEF StandFor
<1>14. /\ rs[1].at = 0 /\ end = rs[n].at + recordSize(rs[n].key)
       /\ \A j \in 1 .. n : j # n => rs[j + 1].at = rs[j].at + recordSize(rs[j].key)
  BY <1>1 DEF Adjacent
<1>15. \A j \in 1 .. n : recordSize(rs[j].key) \in Nat
  BY <1>3, RecordSizes
<1>16. end - size \in Nat
  <2>1. CASE i = n
    <3>1. end = rs[n].at + size /\ rs[n].at \in Nat
      BY <1>1, <1>3, <1>14, <2>1 DEF size
    <3> QED
      BY <1>4, <3>1
  <2>2. CASE i # n
    <3>1. n \in 1 .. n /\ i < n
      BY <1>1, <2>2
    <3>2. rs[n].at >= rs[i].at + size
      BY <3>1, BehindRecord DEF size
    <3>3. rs[n].at \in Nat /\ rs[i].at \in Nat /\ recordSize(rs[n].key) \in Nat
      BY <1>3, <1>15, <3>1
    <3> QED
      BY <1>4, <1>14, <3>2, <3>3
  <2> QED
    BY <2>1, <2>2
<1>17. ASSUME NEW j \in 1 .. n - 1, j # n - 1
       PROVE  ts[j + 1].at = ts[j].at + recordSize(ts[j].key)
  <2>1. j \in 1 .. n /\ j + 1 \in 1 .. n - 1 /\ j + 1 \in 1 .. n /\ j # n /\ j + 1 # n /\ (j + 1) + 1 \in 1 .. n
    BY <1>1, <1>17
  <2>2. ts[j].key = rs[was(j)].key /\ ts[j].at = IF j < i THEN rs[j].at ELSE rs[j + 1].at - size
    BY <1>9
  <2>3. ts[j + 1].at = IF j + 1 < i THEN rs[j + 1].at ELSE rs[(j + 1) + 1].at - size
    BY <1>9, <2>1
  <2>4. rs[j + 1].at = rs[j].at + recordSize(rs[j].key) /\ rs[(j + 1) + 1].at = rs[j + 1].at + recordSize(rs[j + 1].key)
    BY <1>14, <2>1
  <2>5. CASE j + 1 < i
    <3>1. j < i
      BY <1>1, <2>1, <2>5
    <3> QED
      BY <2>2, <2>3, <2>4, <2>5, <3>1 DEF was
  <2>6. CASE j + 1 = i
    <3>1. j < i /\ ~(j + 1 < i)
      BY <1>1, <2>1, <2>6
    <3>2. recordSize(rs[j + 1].key) = size
      BY <2>6 DEF size
    <3>3. rs[j + 1].at \in Nat
      BY <1>3, <2>1
    <3>4. ts[j + 1].at = rs[j + 1].at
      BY <1>4, <2>3, <2>4, <3>1, <3>2, <3>3
    <3> QED
      BY <2>2, <2>4, <3>1, <3>4 DEF was
  <2>7. CASE ~(j + 1 < i) /\ j + 1 # i
    <3>1. ~(j < i)
      BY <1>1, <2>1, <2>7
    <3>2. rs[j + 1].at \in Nat /\ recordSize(rs[j + 1].key) \in Nat
      BY <1>3, <1>15, <2>1
    <3>3. ts[j].at = rs[j + 1].at - size /\ ts[j].key = rs[j + 1].key /\ ts[j + 1].at = rs[(j + 1) + 1].at - size
      BY <2>2, <2>3, <2>7, <3>1 DEF was
    <3> QED
      BY <1>4, <2>4, <3>2, <3>3
  <2> QED
    BY <2>5, <2>6, <2>7
<1>18. \A m, k : m \in Nat /\ m # 0 /\ k \in 1 .. m =>
          /\ m - 1 = 0 => k = m /\ m = 1
          /\ m - 1 # 0 => /\ 1 \in 1 .. m - 1 /\ m - 1 \in 1 .. m - 1 /\ m \in 1 .. m /\ m - 1 \in 1 .. m
                          /\ 1 \in 1 .. m /\ m - 1 # m /\ (m - 1) + 1 = m /\ 1 # m
  OBVIOUS
<1>19. CASE n - 1 = 0
  <2>1. i = n /\ n = 1
    BY <1>1, <1>19, <1>18
  <2>2. end - size = 0
    BY <1>4, <1>14, <2>1 DEF size
  <2> QED
    BY <1>2, <1>7, <1>12, <1>13, <1>16, <1>17, <1>19, <2>2 DEF Adjacent, size
<1>20. CASE n - 1 # 0
  <2>1. 1 \in 1 .. n - 1 /\ n - 1 \in 1 .. n - 1 /\ n \in 1 .. n /\ n - 1 \in 1 .. n /\ 1 \in 1 .. n /\ n - 1 # n /\ (n - 1) + 1 = n
        /\ 1 # n
    BY <1>1, <1>20, <1>18
  <2>2. ts[1].at = 0
    <3>1. ts[1].at = IF 1 < i THEN rs[1].at ELSE rs[1 + 1].at - size
      BY <1>9, <2>1
    <3>2. CASE 1 < i
      BY <1>14, <3>1, <3>2
    <3>3. CASE ~(1 < i)
      <4>1. i = 1
        BY <1>1, <3>3
      <4>2. rs[1 + 1].at = 0 + size
        BY <1>14, <2>1, <4>1 DEF size
      <4> QED
        BY <1>4, <3>1, <3>3, <4>2
    <3> QED
      BY <3>2, <3>3
  <2>3. end - size = ts[n - 1].at + recordSize(ts[n - 1].key)
    <3>1. ts[n - 1].key = rs[was(n - 1)].key /\ ts[n - 1].at = IF n - 1 < i THEN rs[n - 1].at ELSE rs[(n - 1) + 1].at - size
      BY <1>9, <2>1
    <3>2. CASE n - 1 < i
      <4>1. i = n
        BY <1>1, <3>2
      <4>2. rs[n].at = rs[n - 1].at + recordSize(rs[n - 1].key) /\ end = rs[n].at + size
        BY <1>14, <2>1, <4>1 DEF size
      <4>3. rs[n].at \in Nat
        BY <1>3, <2>1
      <4>4. end - size = rs[n].at
        BY <1>4, <4>2, <4>3
      <4> QED
        BY <3>1, <3>2, <4>2, <4>4 DEF was
    <3>3. CASE ~(n - 1 < i)
      <4>1. ts[n - 1].key = rs[n].key /\ ts[n - 1].at = rs[n].at - size
        BY <2>1, <3>1, <3>3 DEF was
      <4>2. rs[n].at \in Nat /\ recordSize(rs[n].key) \in Nat
        BY <1>3, <1>15, <2>1
      <4> QED
        BY <1>4, <1>14, <4>1, <4>2
    <3> QED
      BY <3>2, <3>3
  <2> QED
    BY <1>2, <1>7, <1>12, <1>13, <1>16, <1>17, <1>20, <2>2, <2>3 DEF Adjacent, size
<1> QED
  BY <1>19, <1>20

(***************************************************************************)
(* insert() of a key that is not there leaves room for the ending zero.    *)
(***************************************************************************)
LEMMA GrownEnough ==
    ASSUME NEW k \in DOMAIN KeySizes, NEW end \in Nat, NEW capacity \in Nat
    PROVE  LET g == grown(k, end, capacity) IN g \in Nat /\ end + recordSize(k) + 1 =< g
<1> DEFINE z == KeySizes[k]
           p == SizeofPointer
<1>1. z \in Nat /\ p \in Nat /\ recordSize(k) = 1 + z + p
  BY RecordSizes
<1>2. grown(k, end, capacity) =
        IF capacity - end > z + p + 2 THEN capacity
        ELSE IF capacity * 2 > capacity + (z + p + 2) - (capacity - end) THEN capacity * 2
        ELSE capacity + (z + p + 2) - (capacity - end)
  BY DEF grown
<1>3. capacity + (z + p + 2) - (capacity - end) = end + z + p + 2 /\ capacity * 2 = capacity + capacity
  BY <1>1
<1> HIDE DEF z, p
<1> QED
  BY <1>1, <1>2, <1>3

(***************************************************************************)
(* What a key is promised.                                                 *)
(***************************************************************************)
LEMMA Promises ==
    ASSUME compact \in CompactStates, NEW k \in DOMAIN KeySizes, NEW v \in CompactValues
    PROVE  LET qr == Promised(k, v)
               pr == compact.promise
               rr == [x \in DOMAIN pr \ {k} |-> pr[x]]
           IN  /\ qr \in UNION {[D -> CompactValues] : D \in SUBSET DOMAIN KeySizes}
               /\ Gives(pr, k, v, qr)
               /\ rr \in UNION {[D -> CompactValues] : D \in SUBSET DOMAIN KeySizes}
               /\ Drops(pr, k, rr)
<1> DEFINE pr == compact.promise
           qr == Promised(k, v)
           rr == [x \in DOMAIN pr \ {k} |-> pr[x]]
<1>1. pr \in UNION {[D -> CompactValues] : D \in SUBSET DOMAIN KeySizes}
  BY DEF CompactStates
<1>2. PICK D \in SUBSET DOMAIN KeySizes : pr \in [D -> CompactValues]
  BY <1>1
<1> HIDE DEF pr
<1>3. qr = [x \in D \cup {k} |-> IF x = k THEN v ELSE pr[x]] /\ rr = [x \in D \ {k} |-> pr[x]] /\ DOMAIN pr = D
  BY <1>2 DEF Promised, pr
<1> HIDE DEF qr, rr
<1>4. qr \in [D \cup {k} -> CompactValues] /\ rr \in [D \ {k} -> CompactValues]
  BY <1>2, <1>3
<1>5. D \cup {k} \in SUBSET DOMAIN KeySizes /\ D \ {k} \in SUBSET DOMAIN KeySizes
  OBVIOUS
<1>6. /\ qr \in UNION {[E -> CompactValues] : E \in SUBSET DOMAIN KeySizes}
      /\ rr \in UNION {[E -> CompactValues] : E \in SUBSET DOMAIN KeySizes}
  BY <1>4, <1>5
<1>7. DOMAIN qr = DOMAIN pr \cup {k} /\ \A l \in DOMAIN qr : qr[l] = IF l = k THEN v ELSE pr[l]
  BY <1>3
<1>8. DOMAIN rr = DOMAIN pr \ {k} /\ \A l \in DOMAIN rr : rr[l] = pr[l]
  BY <1>3
<1> QED
  BY <1>6, <1>7, <1>8 DEF qr, rr, pr, Gives, Drops

(***************************************************************************)
(* An existing record is given a value, by insert() or by update().        *)
(***************************************************************************)
LEMMA UpdateKeeps ==
    ASSUME CompactOk(compact), NEW k \in DOMAIN KeySizes, NEW v \in CompactValues, compactFind(k) # 0,
           NEW c, c = [compact EXCEPT !.buffer = TRUE] \/ c = compact,
           compact' = [c EXCEPT !.records[compactFind(k)].value = v, !.promise = Promised(k, v)]
    PROVE  CompactOk(compact')
<1> DEFINE i == compactFind(k)
           rs == compact.records
           ts == [rs EXCEPT ![i].value = v]
           pr == compact.promise
           qr == Promised(k, v)
<1>1. compact \in CompactStates /\ UniqueKeys(rs) /\ StandFor(rs, pr) /\ Adjacent(rs, compact.end)
      /\ compact.end + 1 =< compact.capacity
  BY DEF CompactOk
<1>2. rs \in Seq(Records)
  BY <1>1 DEF CompactStates
<1>3. i \in 1 .. Len(rs) /\ rs[i].key = k
  BY <1>1, CompactFinds
<1>4. /\ qr \in UNION {[D -> CompactValues] : D \in SUBSET DOMAIN KeySizes}
      /\ Gives(pr, k, v, qr)
  BY <1>1, Promises
<1>5. /\ c \in CompactStates /\ c.records = rs /\ c.promise = pr
      /\ c.end = compact.end /\ c.capacity = compact.capacity
  BY <1>1 DEF CompactStates
<1>6. compact' = [c EXCEPT !.records = ts, !.promise = qr]
  BY <1>5 DEF CompactStates
<1> HIDE DEF i, qr, pr
<1>7. ts \in Seq(Records) /\ StandFor(ts, qr) /\ UniqueKeys(ts) /\ Adjacent(ts, compact.end)
  <2> HIDE DEF rs
  <2> QED
    BY <1>1, <1>2, <1>3, <1>4, ValueChanges
<1> HIDE DEF ts, rs
<1>8. /\ compact' \in CompactStates /\ compact'.records = ts /\ compact'.promise = qr
      /\ compact'.end = compact.end /\ compact'.capacity = compact.capacity
  BY <1>4, <1>5, <1>6, <1>7 DEF CompactStates
<1> QED
  BY <1>1, <1>7, <1>8 DEF CompactOk

(***************************************************************************)
(* insert()                                                                *)
(***************************************************************************)
LEMMA CompactInsertKeeps ==
    ASSUME CompactOk(compact), NEW k \in DOMAIN KeySizes, NEW v \in CompactValues,
           NEW u \in BOOLEAN, NEW m \in BOOLEAN, NEW r \in BOOLEAN, compactInsert(k, v, u, m, r)
    PROVE  CompactOk(compact')
<1> DEFINE c == [compact EXCEPT !.buffer = TRUE]
           g == grown(k, c.end, c.capacity)
           rs == compact.records
           x == [key |-> k, value |-> v, at |-> c.end]
           ts == Append(rs, x)
           pr == compact.promise
           qr == Promised(k, v)
           e == compact.end + recordSize(k)
<1>1. compact \in CompactStates /\ UniqueKeys(rs) /\ StandFor(rs, pr) /\ Adjacent(rs, compact.end)
      /\ compact.end + 1 =< compact.capacity
  BY DEF CompactOk
<1>2. /\ c \in CompactStates /\ c.records = rs /\ c.promise = pr /\ rs \in Seq(Records)
      /\ c.end = compact.end /\ c.capacity = compact.capacity /\ compact.end \in Nat /\ compact.capacity \in Nat
  BY <1>1 DEF CompactStates
<1>3. CASE compact' = c
  BY <1>1, <1>2, <1>3 DEF CompactOk
<1>4. CASE compactFind(k) # 0 /\ compact' = [c EXCEPT !.records[compactFind(k)].value = v, !.promise = qr]
  BY <1>4, UpdateKeeps
<1>5. CASE /\ compactFind(k) = 0
           /\ compact' = [c EXCEPT !.records = Append(@, x), !.end = @ + recordSize(k),
                                   !.capacity = g, !.promise = qr]
  <2>1. Lacks(rs, k)
    BY <1>1, <1>5, CompactFinds
  <2>2. /\ qr \in UNION {[D -> CompactValues] : D \in SUBSET DOMAIN KeySizes}
        /\ Gives(pr, k, v, qr)
    BY <1>1, Promises
  <2>3. x = [key |-> k, value |-> v, at |-> compact.end]
    BY <1>2
  <2>4. g \in Nat /\ e + 1 =< g
    BY <1>2, GrownEnough
  <2>5. compact' = [c EXCEPT !.records = ts, !.end = e, !.capacity = g, !.promise = qr]
    BY <1>2, <1>5 DEF CompactStates
  <2> HIDE DEF qr, x, g
  <2>6. ts \in Seq(Records) /\ StandFor(ts, qr) /\ UniqueKeys(ts) /\ Adjacent(ts, e)
    <3> HIDE DEF rs, pr
    <3> QED
      BY <1>1, <1>2, <2>1, <2>2, <2>3, RecordAdded
  <2>7. e \in Nat
    BY <1>2, RecordSizes
  <2> HIDE DEF ts, e, c
  <2>8. /\ compact' \in CompactStates /\ compact'.records = ts /\ compact'.promise = qr
        /\ compact'.end = e /\ compact'.capacity = g
    BY <1>2, <2>2, <2>4, <2>5, <2>6, <2>7 DEF CompactStates
  <2> QED
    BY <2>4, <2>6, <2>8 DEF CompactOk
<1> QED
  BY <1>2, <1>3, <1>4, <1>5 DEF compactInsert

(***************************************************************************)
(* remove()                                                                *)
(***************************************************************************)
LEMMA CompactRemoveKeeps ==
    ASSUME CompactOk(compact), NEW k \in DOMAIN KeySizes, compactRemove(k)
    PROVE  CompactOk(compact')
<1> DEFINE i == compactFind(k)
           rs == compact.records
           ts == memmove(rs, i)
           pr == compact.promise
           qr == [x \in DOMAIN pr \ {k} |-> pr[x]]
           e == compact.end - recordSize(k)
<1>1. compact \in CompactStates /\ UniqueKeys(rs) /\ StandFor(rs, pr) /\ Adjacent(rs, compact.end)
      /\ compact.end + 1 =< compact.capacity
  BY DEF CompactOk
<1>2. rs \in Seq(Records) /\ compact.end \in Nat /\ compact.capacity \in Nat
  BY <1>1 DEF CompactStates
<1>3. i \in 1 .. Len(rs) /\ rs[i].key = k
  BY <1>1, CompactFinds DEF compactRemove
<1>4. /\ qr \in UNION {[D -> CompactValues] : D \in SUBSET DOMAIN KeySizes}
      /\ Drops(pr, k, qr)
  <2>1. \E v : v \in CompactValues
    <3>1. rs[i] \in Records
      BY <1>2, <1>3, ElementOfSeq
    <3> QED
      BY <3>1 DEF Records
  <2> QED
    BY <1>1, <2>1, Promises
<1>5. compact' = [compact EXCEPT !.records = ts, !.end = e, !.promise = qr]
  BY <1>1 DEF compactRemove, CompactStates
<1> HIDE DEF i, qr
<1>6. ts \in Seq(Records) /\ e \in Nat /\ StandFor(ts, qr) /\ UniqueKeys(ts) /\ Adjacent(ts, e)
  <2> HIDE DEF rs, pr
  <2> QED
    BY <1>1, <1>2, <1>3, <1>4, RecordRemoved
<1>7. e + 1 =< compact.capacity
  BY <1>1, <1>2, RecordSizes
<1> HIDE DEF ts, e, rs, pr
<1>8. /\ compact' \in CompactStates /\ compact'.records = ts /\ compact'.promise = qr
      /\ compact'.end = e /\ compact'.capacity = compact.capacity
  BY <1>1, <1>4, <1>5, <1>6 DEF CompactStates
<1> QED
  BY <1>6, <1>7, <1>8 DEF CompactOk

(***************************************************************************)
(* An empty map, new or cleared.                                           *)
(***************************************************************************)
LEMMA EmptyCompact ==
    ASSUME NEW c \in CompactStates, c.records = <<>>, c.end = 0, c.promise = [k \in {} |-> 0],
           c.capacity # 0
    PROVE  CompactOk(c)
<1>1. Len(c.records) = 0 /\ DOMAIN c.promise = {} /\ c.capacity \in Nat
  BY DEF CompactStates
<1> QED
  BY <1>1 DEF CompactOk, UniqueKeys, StandFor, Adjacent

-----------------------------------------------------------------------------
(***************************************************************************)
(* The invariant of the compact map.                                       *)
(***************************************************************************)
THEOREM CompactInvariance == CompactSpec => []CompactOk(compact)
<1> DEFINE nothing == [k \in {} |-> 0]
<1>1. nothing \in UNION {[D -> CompactValues] : D \in SUBSET DOMAIN KeySizes} /\ <<>> \in Seq(Records)
  <2>1. nothing \in [{} -> CompactValues] /\ {} \in SUBSET DOMAIN KeySizes
    OBVIOUS
  <2> QED
    BY <2>1, EmptySeq
<1>2. CompactInit => CompactOk(compact)
  <2> SUFFICES ASSUME CompactInit PROVE CompactOk(compact)
    OBVIOUS
  <2>1. compact = [records |-> <<>>, end |-> 0, capacity |-> InitialCapacity, buffer |-> FALSE,
                   promise |-> nothing]
    BY DEF CompactInit
  <2>2. InitialCapacity \in Nat /\ InitialCapacity # 0
    BY CompactAssumption
  <2> HIDE DEF nothing
  <2>3. /\ compact \in CompactStates /\ compact.records = <<>> /\ compact.end = 0 /\ compact.promise = nothing
        /\ compact.capacity # 0
    BY <1>1, <2>1, <2>2 DEF CompactStates
  <2> QED
    BY <2>3, EmptyCompact DEF nothing
<1>3. CompactOk(compact) /\ [CompactNext]_compact => CompactOk(compact)'
  <2> SUFFICES ASSUME CompactOk(compact), [CompactNext]_compact PROVE CompactOk(compact')
    OBVIOUS
  <2>1. CASE compact' = compact
    BY <2>1
  <2>2. ASSUME NEW k \in DOMAIN KeySizes, NEW v \in CompactValues, compactUpdate(k, v) PROVE CompactOk(compact')
    BY <2>2, UpdateKeeps DEF compactUpdate
  <2>3. CASE compactClear
    <3>1. compact' = [compact EXCEPT !.records = <<>>, !.end = 0, !.promise = nothing]
      BY <2>3 DEF compactClear
    <3>2. compact \in CompactStates /\ compact.capacity # 0
      BY DEF CompactOk, CompactStates
    <3> HIDE DEF nothing
    <3>3. /\ compact' \in CompactStates /\ compact'.records = <<>> /\ compact'.end = 0 /\ compact'.promise = nothing
          /\ compact'.capacity # 0
      BY <1>1, <3>1, <3>2 DEF CompactStates
    <3> QED
      BY <3>3, EmptyCompact DEF nothing
  <2> QED
    BY <2>1, <2>2, <2>3, CompactInsertKeeps, CompactRemoveKeeps DEF CompactNext
<1> QED
  BY <1>2, <1>3, PTL DEF CompactSpec

(***************************************************************************)
(* For any keys and sizes, and any order of insert, remove, update and     *)
(* clear with allocations that fail: the records and the ending zero are   *)
(* inside the buffer, and are the map the caller believes in.              *)
(***************************************************************************)
THEOREM CompactMapsAreSound == CompactSpec => []CompactIsSound
<1>1. ASSUME CompactOk(compact) PROVE CompactIsSound
  <2> DEFINE rs == compact.records
             n == Len(rs)
  <2>1. /\ compact \in CompactStates /\ StandFor(rs, compact.promise) /\ Adjacent(rs, compact.end)
        /\ compact.end + 1 =< compact.capacity
    BY <1>1 DEF CompactOk
  <2>2. n \in Nat
    BY <2>1, LenProperties DEF CompactStates
  <2>3. RecordsFit
    <3>1. \A i \in 1 .. n : i + 1 = n + 1 <=> i = n
      BY <2>2
    <3>2. 1 = n + 1 <=> n = 0
      BY <2>2
    <3>3. (IF 1 = n + 1 THEN compact.end ELSE rs[1].at) = 0
      BY <2>1, <3>2 DEF Adjacent
    <3>4. ASSUME NEW i \in 1 .. n
          PROVE  (IF i + 1 = n + 1 THEN compact.end ELSE rs[i + 1].at) = rs[i].at + recordSize(rs[i].key)
      <4>1. n # 0
        BY <2>2
      <4> QED
        BY <2>1, <3>1, <4>1 DEF Adjacent
    <3> QED
      BY <2>1, <3>3, <3>4 DEF RecordsFit
  <2>4. CompactKeepsItsPromise
    <3> SUFFICES ASSUME NEW k \in DOMAIN KeySizes
                 PROVE  IF compactFind(k) = 0 THEN k \notin DOMAIN compact.promise
                        ELSE /\ k \in DOMAIN compact.promise
                             /\ rs[compactFind(k)].value = compact.promise[k]
      BY DEF CompactKeepsItsPromise
    <3>1. CASE compactFind(k) = 0
      <4>1. \A j \in 1 .. n : rs[j].key # k
        BY <2>1, <3>1, CompactFinds DEF Lacks
      <4> QED
        BY <2>1, <3>1, <4>1 DEF StandFor
    <3>2. CASE compactFind(k) # 0
      <4>1. compactFind(k) \in 1 .. n /\ rs[compactFind(k)].key = k
        BY <2>1, <3>2, CompactFinds
      <4> QED
        BY <2>1, <3>2, <4>1 DEF StandFor
    <3> QED
      BY <3>1, <3>2
  <2> QED
    BY <2>3, <2>4 DEF CompactIsSound
<1> QED
  BY <1>1, CompactInvariance, PTL

-----------------------------------------------------------------------------
(***************************************************************************)
(* The time series (any number and size of windows, any latencies).  The   *)
(* windows divide the most recent recordings among them: p[i] is how many  *)
(* had been made when the i-th window was complete.                        *)
(***************************************************************************)
Counters == [start : Nat, stop : Nat, n : Nat, min : Nat, max : Nat]

\* w counted the samples after the a-th, up to the b-th.
Counts(w, samples, a, b) ==
    /\ b = a + w.n
    /\ \A j \in a + 1 .. b : w.min =< samples[j] /\ samples[j] =< w.max
    /\ w.n # 0 => \E j, k \in a + 1 .. b : samples[j] = w.min /\ samples[k] = w.max

Placed(p, ws, samples) ==
    /\ p \in [0 .. Len(ws) -> 0 .. Len(samples)]
    /\ p[Len(ws)] = Len(samples)
    /\ \A i \in 1 .. Len(ws) : Counts(ws[i], samples, p[i - 1], p[i])

\* Windows end at multiples of their size, and do not overlap.
Aligned(ws) ==
    /\ \A i \in 1 .. Len(ws) : \E q \in Nat : ws[i].stop = (q * WindowSizeSec) * PerSecond
    /\ \A i \in 1 .. Len(ws) : i # Len(ws) => ws[i].stop =< ws[i + 1].start

SeriesOk(s) ==
    /\ s \in [windows : Seq(Counters), samples : Seq(Nat), lost : Nat]
    /\ Len(s.windows) =< MaxWindows /\ Len(s.samples) + s.lost =< MaxRecords
    /\ Aligned(s.windows)
    /\ \A i \in 1 .. Len(s.windows) : s.windows[i].n # 0
    /\ \E p : Placed(p, s.windows, s.samples) /\ (Len(s.windows) < MaxWindows => p[0] = 0)

(***************************************************************************)
(* Multiplication is monotonic.                                            *)
(***************************************************************************)
LEMMA TimesMonotonic ==
    ASSUME NEW x \in Nat, NEW y \in Nat, NEW c \in Nat, x =< y
    PROVE  c * x =< c * y
<1>1. c * (y - x) >= 0
  OBVIOUS
<1> QED
  BY <1>1

(***************************************************************************)
(* Where a division leaves off.                                            *)
(***************************************************************************)
LEMMA Divided ==
    ASSUME NEW x \in Nat, NEW c \in Nat \ {0}
    PROVE  x \div c \in Nat /\ c * (x \div c) =< x /\ x < c * ((x \div c) + 1)
OBVIOUS

(***************************************************************************)
(* The window of a time later than a window's end starts no earlier.       *)
(***************************************************************************)
LEMMA WindowOfTime ==
    ASSUME NEW stop \in Nat
    PROVE  LET w == windowOf(stop) IN
           /\ w.start \in Nat /\ w.stop \in Nat
           /\ \E q \in Nat : w.stop = (q * WindowSizeSec) * PerSecond
           /\ \A q \in Nat : (q * WindowSizeSec) * PerSecond < stop => (q * WindowSizeSec) * PerSecond =< w.start
<1> DEFINE a == PerSecond
           b == WindowSizeSec
           x == stop \div a
           q == x \div b
           w == windowOf(stop)
<1>1. a \in Nat \ {0} /\ b \in Nat \ {0}
  BY SeriesAssumption
<1>2. w.start = (q * b) * a /\ w.stop = (q * b + b) * a
  BY DEF windowOf
<1> HIDE DEF a, b, w
<1>3. x \in Nat /\ stop < a * (x + 1)
  BY <1>1, Divided
<1> HIDE DEF x
<1>4. q \in Nat /\ x < b * (q + 1)
  BY <1>1, <1>3, Divided
<1> HIDE DEF q
<1>5. w.start \in Nat /\ w.stop \in Nat /\ q + 1 \in Nat
  BY <1>1, <1>2, <1>4
<1>6. w.stop = ((q + 1) * b) * a
  <2>1. q * b + b = (q + 1) * b
    BY <1>1, <1>4
  <2> QED
    BY <1>2, <2>1
<1>7. ASSUME NEW r \in Nat, (r * b) * a < stop PROVE (r * b) * a =< w.start
  <2>1. r =< q
    <3> SUFFICES ASSUME ~(r =< q) PROVE FALSE
      OBVIOUS
    <3>1. q + 1 =< r
      BY <1>4
    <3>2. b * (q + 1) =< b * r
      BY <1>1, <1>4, <3>1, TimesMonotonic
    <3>3. b * r \in Nat /\ b * (q + 1) \in Nat /\ b * r = r * b
      BY <1>1, <1>4
    <3>4. x + 1 =< b * r
      BY <1>3, <1>4, <3>2, <3>3
    <3>5. a * (x + 1) =< a * (b * r)
      BY <1>1, <1>3, <3>3, <3>4, TimesMonotonic
    <3>6. a * (b * r) = (r * b) * a /\ a * (b * r) \in Nat /\ a * (x + 1) \in Nat
      BY <1>1, <1>3, <3>3
    <3> QED
      BY <1>3, <1>7, <3>5, <3>6
  <2>2. b * r =< b * q
    BY <1>1, <1>4, <2>1, TimesMonotonic
  <2>3. b * r \in Nat /\ b * q \in Nat
    BY <1>1, <1>4
  <2>4. a * (b * r) =< a * (b * q)
    BY <1>1, <2>2, <2>3, TimesMonotonic
  <2>5. a * (b * r) = (r * b) * a /\ a * (b * q) = (q * b) * a
    BY <1>1, <1>4
  <2> QED
    BY <1>2, <2>4, <2>5
<1> QED
  BY <1>5, <1>6, <1>7 DEF a, b, w

(***************************************************************************)
(* A window is opened: it has counted nothing yet.                         *)
(***************************************************************************)
LEMMA WindowOpened ==
    ASSUME NEW ws \in Seq(Counters), NEW samples \in Seq(Nat), NEW p, Placed(p, ws, samples),
           NEW c \in Counters, c.n = 0, NEW vs, vs = Append(ws, c)
    PROVE  \E q : Placed(q, vs, samples) /\ q[0] = p[0]
<1> DEFINE N == Len(ws)
           L == Len(samples)
           q == [i \in 0 .. N + 1 |-> IF i = N + 1 THEN L ELSE p[i]]
<1>1. N \in Nat /\ L \in Nat
  BY LenProperties
<1>2. Len(vs) = N + 1 /\ vs[N + 1] = c /\ \A i \in 1 .. N : vs[i] = ws[i]
  BY AppendProperties
<1>3. p \in [0 .. N -> 0 .. L] /\ p[N] = L
  BY DEF Placed
<1>4. \A i \in 0 .. N + 1 : i # N + 1 => i \in 0 .. N /\ q[i] = p[i]
  BY <1>1
<1>5. N + 1 \in 0 .. N + 1 /\ L \in 0 .. L /\ q[N + 1] = L /\ 0 \in 0 .. N + 1 /\ 0 # N + 1
  BY <1>1
<1>6. q \in [0 .. N + 1 -> 0 .. L]
  BY <1>3, <1>4, <1>5
<1> HIDE DEF q
<1>7. ASSUME NEW i \in 1 .. N + 1 PROVE Counts(vs[i], samples, q[i - 1], q[i])
  <2>1. CASE i = N + 1
    <3>1. i - 1 = N /\ N \in 0 .. N + 1 /\ N # N + 1
      BY <1>1, <2>1
    <3>2. q[i - 1] = L /\ q[i] = L /\ vs[i] = c
      BY <1>2, <1>3, <1>4, <1>5, <2>1, <3>1
    <3>3. Counts(c, samples, L, L)
      BY <1>1 DEF Counts
    <3> QED
      BY <3>2, <3>3
  <2>2. CASE i # N + 1
    <3>1. i \in 1 .. N /\ i \in 0 .. N + 1 /\ i - 1 \in 0 .. N + 1 /\ i - 1 # N + 1
      BY <1>1, <2>2
    <3>2. q[i - 1] = p[i - 1] /\ q[i] = p[i] /\ vs[i] = ws[i]
      BY <1>2, <1>4, <2>2, <3>1
    <3> QED
      BY <3>1, <3>2 DEF Placed
  <2> QED
    BY <2>1, <2>2
<1>8. Placed(q, vs, samples)
  BY <1>2, <1>5, <1>6, <1>7 DEF Placed
<1> QED
  BY <1>4, <1>5, <1>8

(***************************************************************************)
(* The oldest window is dropped.                                           *)
(***************************************************************************)
LEMMA WindowDropped ==
    ASSUME NEW ws \in Seq(Counters), ws # <<>>, NEW samples \in Seq(Nat), NEW p, Placed(p, ws, samples)
    PROVE  \E q : Placed(q, Tail(ws), samples)
<1> DEFINE N == Len(ws)
           L == Len(samples)
           vs == Tail(ws)
           q == [i \in 0 .. N - 1 |-> p[i + 1]]
<1>1. N \in Nat /\ N # 0
  BY LenProperties, EmptySeq
<1>2. vs \in Seq(Counters) /\ Len(vs) = N - 1 /\ \A i \in 1 .. N - 1 : vs[i] = ws[i + 1]
  BY HeadTailProperties
<1>3. p \in [0 .. N -> 0 .. L] /\ p[N] = L
  BY DEF Placed
<1> HIDE DEF vs
<1>4. \A i \in 0 .. N - 1 : i + 1 \in 0 .. N /\ q[i] = p[i + 1]
  BY <1>1
<1>5. q \in [0 .. N - 1 -> 0 .. L] /\ N - 1 \in 0 .. N - 1 /\ (N - 1) + 1 = N
  BY <1>1, <1>3
<1> HIDE DEF q
<1>6. ASSUME NEW i \in 1 .. N - 1 PROVE Counts(vs[i], samples, q[i - 1], q[i])
  <2>1. i \in 0 .. N - 1 /\ i - 1 \in 0 .. N - 1 /\ i + 1 \in 1 .. N /\ (i - 1) + 1 = (i + 1) - 1
    BY <1>1
  <2>2. q[i] = p[i + 1] /\ q[i - 1] = p[(i + 1) - 1] /\ vs[i] = ws[i + 1]
    BY <1>2, <1>4, <2>1
  <2> QED
    BY <2>1, <2>2 DEF Placed
<1>7. Placed(q, vs, samples)
  BY <1>2, <1>3, <1>4, <1>5, <1>6 DEF Placed
<1> QED
  BY <1>7 DEF vs

\* vs are the windows ws after the newest has counted the last of more.
AddedTo(ws, latency) == [ws EXCEPT ![Len(ws)] = add(@, latency)]

AfterAdding(ws, vs, p, more) ==
    /\ vs \in Seq(Counters) /\ Len(vs) = Len(ws) /\ vs[Len(ws)].n # 0
    /\ \A i \in 1 .. Len(ws) : /\ i # Len(ws) => vs[i] = ws[i]
                               /\ vs[i].start = ws[i].start /\ vs[i].stop = ws[i].stop
    /\ \E q : Placed(q, vs, more) /\ q[0] = p[0]

(***************************************************************************)
(* The newest window counts a recording.                                   *)
(***************************************************************************)
LEMMA LatencyAdded ==
    ASSUME NEW ws \in Seq(Counters), NEW samples \in Seq(Nat), NEW p, Placed(p, ws, samples),
           Len(ws) # 0, NEW latency \in Nat
    PROVE  AfterAdding(ws, AddedTo(ws, latency), p, Append(samples, latency))
<1> DEFINE N == Len(ws)
           L == Len(samples)
           c == ws[N]
           d == add(c, latency)
           vs == AddedTo(ws, latency)
           more == Append(samples, latency)
           q == [p EXCEPT ![N] = L + 1]
<1>1. N \in Nat /\ N # 0 /\ L \in Nat
  BY LenProperties
<1>2. N \in 1 .. N /\ N - 1 \in 0 .. N /\ N \in 0 .. N /\ N - 1 # N /\ 0 \in 0 .. N
  <2> HIDE DEF N
  <2> QED
    BY <1>1
<1>3. DOMAIN ws = 1 .. N
  BY LenProperties
<1>4. c \in Counters
  BY <1>2, ElementOfSeq
<1>5. c.start \in Nat /\ c.stop \in Nat /\ c.n \in Nat /\ c.min \in Nat /\ c.max \in Nat
  BY <1>4 DEF Counters
<1>6. /\ d.n = c.n + 1 /\ d.start = c.start /\ d.stop = c.stop
      /\ d.min = IF c.n = 0 \/ latency < c.min THEN latency ELSE c.min
      /\ d.max = IF c.n = 0 \/ c.max < latency THEN latency ELSE c.max
      /\ d \in Counters
  <2> DEFINE n == c.n + 1
             lo == IF c.n = 0 \/ latency < c.min THEN latency ELSE c.min
             hi == IF c.n = 0 \/ c.max < latency THEN latency ELSE c.max
  <2>1. n \in Nat /\ lo \in Nat /\ hi \in Nat
    BY <1>5
  <2>2. d = [c EXCEPT !.n = n, !.min = lo, !.max = hi]
    BY <1>4 DEF add, Counters
  <2> HIDE DEF n, lo, hi, c, d
  <2>3. d.n = n /\ d.start = c.start /\ d.stop = c.stop /\ d.min = lo /\ d.max = hi /\ d \in Counters
    BY <1>4, <2>1, <2>2 DEF Counters
  <2> QED
    BY <2>3 DEF n, lo, hi
<1>7. vs = [ws EXCEPT ![N] = d]
  BY <1>2, <1>3 DEF AddedTo
<1> HIDE DEF d, vs
<1>8. vs \in Seq(Counters) /\ Len(vs) = N /\ \A i \in 1 .. N : vs[i] = IF i = N THEN d ELSE ws[i]
  BY <1>6, <1>7, <1>2, ExceptSeq
<1>9. \A i \in 1 .. N : (i # N => vs[i] = ws[i]) /\ vs[i].start = ws[i].start /\ vs[i].stop = ws[i].stop
  BY <1>6, <1>8
<1>10. vs[N].n # 0
  <2>1. vs[N] = d
    BY <1>8, <1>2
  <2> QED
    BY <1>5, <1>6, <2>1
<1>11. Len(more) = L + 1 /\ more[L + 1] = latency /\ \A j \in 1 .. L : more[j] = samples[j]
  BY AppendProperties
<1> HIDE DEF more
<1>12. p \in [0 .. N -> 0 .. L] /\ p[N] = L
  BY DEF Placed
<1>13. Counts(c, samples, p[N - 1], L) /\ \A i \in 1 .. N : Counts(ws[i], samples, p[i - 1], p[i])
  BY <1>12, <1>2 DEF Placed
<1>14. \A j \in 1 .. L : samples[j] \in Nat
  BY ElementOfSeq
<1> HIDE DEF N, L, c
<1>15. /\ q \in [0 .. N -> 0 .. L + 1] /\ q[N] = L + 1 /\ \A i \in 0 .. N : i # N => q[i] = p[i]
  <2>1. L + 1 \in 0 .. L + 1 /\ \A x \in 0 .. L : x \in 0 .. L + 1
    BY <1>1
  <2> QED
    BY <1>12, <1>2, <2>1
<1> HIDE DEF q
<1>16. ASSUME NEW i \in 1 .. N, i # N PROVE Counts(vs[i], more, q[i - 1], q[i])
  <2>1. i \in 0 .. N /\ i - 1 \in 0 .. N /\ i - 1 # N
    BY <1>1, <1>16
  <2>2. q[i - 1] = p[i - 1] /\ q[i] = p[i] /\ vs[i] = ws[i]
    BY <1>9, <1>15, <1>16, <2>1
  <2>3. p[i] \in 0 .. L /\ p[i - 1] \in 0 .. L
    BY <1>12, <2>1
  <2>4. \A j \in p[i - 1] + 1 .. p[i] : j \in 1 .. L
    BY <1>1, <2>3
  <2>5. Counts(ws[i], samples, p[i - 1], p[i])
    BY <1>13
  <2>6. Counts(ws[i], more, p[i - 1], p[i])
    BY <1>11, <2>4, <2>5 DEF Counts
  <2> QED
    BY <2>2, <2>6
<1>17. Counts(vs[N], more, q[N - 1], q[N])
  <2> DEFINE a == p[N - 1]
  <2>1. vs[N] = d /\ q[N - 1] = a /\ q[N] = L + 1 /\ a \in 0 .. L
    BY <1>8, <1>12, <1>15, <1>2
  <2>2. Counts(c, samples, a, L)
    BY <1>13
  <2> HIDE DEF a
  <2>3. /\ L = a + c.n
        /\ \A j \in a + 1 .. L : c.min =< samples[j] /\ samples[j] =< c.max
        /\ c.n # 0 => \E j, k \in a + 1 .. L : samples[j] = c.min /\ samples[k] = c.max
    BY <2>2 DEF Counts
  <2>4. L + 1 = a + d.n /\ L + 1 \in a + 1 .. L + 1
    <3>1. c.n \in Nat /\ d.n = c.n + 1 /\ L = a + c.n /\ a \in 0 .. L
      BY <1>5, <1>6, <2>1, <2>3
    <3> QED
      BY <1>1, <3>1
  <2>5. \A j \in a + 1 .. L : j \in 1 .. L /\ j \in a + 1 .. L + 1 /\ more[j] = samples[j] /\ samples[j] \in Nat
    <3>1. \A j \in a + 1 .. L : j \in 1 .. L /\ j \in a + 1 .. L + 1
      BY <1>1, <2>1
    <3> QED
      BY <1>11, <1>14, <3>1
  <2>6. \A j \in a + 1 .. L + 1 : j = L + 1 \/ j \in a + 1 .. L
    BY <1>1, <2>1
  <2>7. ASSUME NEW j \in a + 1 .. L + 1 PROVE d.min =< more[j] /\ more[j] =< d.max
    <3>1. CASE j = L + 1
      BY <1>5, <1>6, <1>11, <3>1
    <3>2. CASE j \in a + 1 .. L
      <4>1. c.n # 0
        BY <1>1, <1>5, <2>1, <2>3, <3>2
      <4>2. c.min =< more[j] /\ more[j] =< c.max /\ more[j] \in Nat
        BY <2>3, <2>5, <3>2
      <4> QED
        BY <1>5, <1>6, <4>1, <4>2
    <3> QED
      BY <2>6, <3>1, <3>2
  <2>8. \E j \in a + 1 .. L + 1 : more[j] = d.min
    <3>1. CASE d.min = latency
      BY <1>11, <2>4, <3>1
    <3>2. CASE d.min # latency
      <4>1. c.n # 0 /\ d.min = c.min
        BY <1>6, <3>2
      <4> QED
        BY <2>3, <2>5, <4>1
    <3> QED
      BY <3>1, <3>2
  <2>9. \E k \in a + 1 .. L + 1 : more[k] = d.max
    <3>1. CASE d.max = latency
      BY <1>11, <2>4, <3>1
    <3>2. CASE d.max # latency
      <4>1. c.n # 0 /\ d.max = c.max
        BY <1>6, <3>2
      <4> QED
        BY <2>3, <2>5, <4>1
    <3> QED
      BY <3>1, <3>2
  <2> QED
    BY <2>1, <2>4, <2>7, <2>8, <2>9 DEF Counts
<1>18. Placed(q, vs, more)
  BY <1>8, <1>11, <1>15, <1>16, <1>17 DEF Placed, N, L
<1>19. q[0] = p[0]
  BY <1>1, <1>15, <1>2
<1> QED
  BY <1>8, <1>9, <1>10, <1>18, <1>19 DEF AfterAdding, more, N, vs

(***************************************************************************)
(* The windows after a recording whose stop opened one.                    *)
(***************************************************************************)
LEMMA OpenedWindows ==
    ASSUME NEW ws \in Seq(Counters), Aligned(ws), Len(ws) =< MaxWindows,
           \A i \in 1 .. Len(ws) : ws[i].n # 0,
           NEW samples \in Seq(Nat), NEW p, Placed(p, ws, samples), Len(ws) < MaxWindows => p[0] = 0,
           NEW stop \in Nat, isNewWindow(ws, stop)
    PROVE  LET vs == openWindow(ws, stop) IN
           /\ vs \in Seq(Counters) /\ Aligned(vs) /\ Len(vs) =< MaxWindows /\ Len(vs) # 0
           /\ \A i \in 1 .. Len(vs) : i # Len(vs) => vs[i].n # 0
           /\ \E q : Placed(q, vs, samples) /\ (Len(vs) < MaxWindows => q[0] = 0)
<1> DEFINE N == Len(ws)
           w == windowOf(stop)
           c == newCounter(w.start, w.stop)
           kept == IF N >= MaxWindows THEN Tail(ws) ELSE ws
           vs == openWindow(ws, stop)
           K == Len(kept)
<1>1. N \in Nat /\ MaxWindows \in Nat /\ MaxWindows # 0
  BY LenProperties, SeriesAssumption
<1>2. /\ w.start \in Nat /\ w.stop \in Nat
      /\ \E q \in Nat : w.stop = (q * WindowSizeSec) * PerSecond
      /\ \A q \in Nat : (q * WindowSizeSec) * PerSecond < stop => (q * WindowSizeSec) * PerSecond =< w.start
  BY WindowOfTime
<1>3. vs = Append(kept, c)
  BY DEF openWindow
<1> HIDE DEF w, vs
<1>4. c \in Counters /\ c.n = 0 /\ c.start = w.start /\ c.stop = w.stop
  BY <1>2 DEF newCounter, Counters
<1> HIDE DEF c
<1>5. N # 0 => ws[N].stop < stop
  <2>1. N # 0 => ws # <<>>
    OBVIOUS
  <2> QED
    BY <2>1 DEF isNewWindow, Last
<1>6. N # 0 => ws[N].stop =< w.start
  <2>1. N # 0 => N \in 1 .. N
    BY <1>1
  <2>2. N # 0 => \E q \in Nat : ws[N].stop = (q * WindowSizeSec) * PerSecond
    BY <2>1 DEF Aligned
  <2> QED
    BY <1>2, <1>5, <2>2
\* Whether the first was dropped or not, the rest is as it was.
<1>7. /\ kept \in Seq(Counters) /\ K \in Nat /\ K < MaxWindows
      /\ \E d \in {0, 1} : K + d = N /\ \A i \in 1 .. K : i + d \in 1 .. N /\ kept[i] = ws[i + d]
      /\ \E q : Placed(q, kept, samples) /\ (K + 1 < MaxWindows => q[0] = 0)
  <2>1. CASE N >= MaxWindows
    <3>1. ws # <<>> /\ N # 0 /\ N = MaxWindows
      <4>1. N # 0
        BY <1>1, <2>1
      <4>2. N = MaxWindows
        BY <1>1, <2>1
      <4> QED
        BY <4>1, <4>2
    <3>2. kept \in Seq(Counters) /\ K = N - 1 /\ \A i \in 1 .. N - 1 : kept[i] = ws[i + 1]
      BY <2>1, <3>1, HeadTailProperties
    <3>3. \E q : Placed(q, kept, samples)
      BY <2>1, <3>1, WindowDropped
    <3> HIDE DEF kept, K, N
    <3>4. K \in Nat /\ K < MaxWindows /\ K + 1 = N /\ ~(K + 1 < MaxWindows) /\ \A i \in 1 .. K : i \in 1 .. N - 1 /\ i + 1 \in 1 .. N
      BY <1>1, <3>1, <3>2
    <3> QED
      BY <3>2, <3>3, <3>4
  <2>2. CASE ~(N >= MaxWindows)
    <3>1. kept = ws /\ K = N
      BY <2>2
    <3>2. N < MaxWindows
      BY <1>1, <2>2
    <3> HIDE DEF kept, K
    <3>3. Placed(p, kept, samples) /\ p[0] = 0 /\ kept \in Seq(Counters)
      BY <3>1, <3>2
    <3>4. K + 0 = N /\ \A i \in 1 .. K : i + 0 \in 1 .. N /\ kept[i] = ws[i + 0]
      <4>1. \A i \in 1 .. K : i + 0 = i /\ i \in 1 .. N
        BY <1>1, <3>1
      <4> QED
        BY <1>1, <3>1, <4>1
    <3> QED
      BY <1>1, <3>1, <3>2, <3>3, <3>4
  <2> QED
    BY <2>1, <2>2
<1> HIDE DEF kept
<1>8. vs \in Seq(Counters) /\ Len(vs) = K + 1 /\ vs[K + 1] = c /\ \A i \in 1 .. K : vs[i] = kept[i]
  BY <1>3, <1>4, <1>7, AppendProperties
<1>9. PICK d \in {0, 1} : K + d = N /\ \A i \in 1 .. K : i + d \in 1 .. N /\ kept[i] = ws[i + d]
  BY <1>7
<1>10. K \in Nat /\ K < MaxWindows /\ K + d = N /\ d \in {0, 1}
  BY <1>7, <1>9
<1>11. \E q : Placed(q, vs, samples) /\ (Len(vs) < MaxWindows => q[0] = 0)
  <2>1. PICK r : Placed(r, kept, samples) /\ (K + 1 < MaxWindows => r[0] = 0)
    BY <1>7
  <2>2. \E q : Placed(q, vs, samples) /\ q[0] = r[0]
    <3>1. kept \in Seq(Counters)
      BY <1>7
    <3>2. Placed(r, kept, samples)
      BY <2>1
    <3>3. c \in Counters /\ c.n = 0
      BY <1>4
    <3> HIDE DEF K, N
    <3>4. \A v : v = Append(kept, c) => \E q : Placed(q, v, samples) /\ q[0] = r[0]
      BY <3>1, <3>2, <3>3, WindowOpened, Zenon
    <3> QED
      BY <1>3, <3>4, Zenon
  <2> QED
    BY <1>8, <2>1, <2>2
<1> HIDE DEF K, N
<1>12. \A i \in 1 .. K : vs[i] = ws[i + d] /\ i + d \in 1 .. N
  BY <1>8, <1>9
<1>13. \A i \in 1 .. K + 1 : i = K + 1 \/ i \in 1 .. K
  BY <1>10
<1>14. ASSUME NEW i \in 1 .. K, i # K PROVE vs[i].stop =< vs[i + 1].start
  <2>1. i + 1 \in 1 .. K /\ (i + d) + 1 = (i + 1) + d /\ i + d # N
    BY <1>10, <1>14
  <2>2. vs[i] = ws[i + d] /\ vs[i + 1] = ws[(i + d) + 1] /\ i + d \in 1 .. N
    BY <1>12, <2>1
  <2> QED
    BY <2>1, <2>2 DEF Aligned, N
<1>15. K # 0 => vs[K].stop =< vs[K + 1].start
  <2>1. K # 0 => K \in 1 .. K /\ N # 0
    BY <1>10
  <2>2. K # 0 => vs[K] = ws[N]
    BY <1>10, <1>12, <2>1
  <2> QED
    BY <1>4, <1>6, <1>8, <2>1, <2>2
<1>16. Aligned(vs)
  <2>1. ASSUME NEW i \in 1 .. K + 1 PROVE \E q \in Nat : vs[i].stop = (q * WindowSizeSec) * PerSecond
    <3>1. CASE i = K + 1
      BY <1>2, <1>4, <1>8, <3>1
    <3>2. CASE i \in 1 .. K
      BY <1>12, <3>2 DEF Aligned, N
    <3> QED
      BY <1>13, <3>1, <3>2
  <2>2. ASSUME NEW i \in 1 .. K + 1, i # K + 1 PROVE vs[i].stop =< vs[i + 1].start
    <3>1. i \in 1 .. K /\ (i = K => K # 0)
      BY <1>10, <2>2
    <3> QED
      BY <1>14, <1>15, <3>1
  <2> QED
    BY <1>8, <2>1, <2>2 DEF Aligned
<1>17. \A i \in 1 .. K + 1 : i # K + 1 => vs[i].n # 0
  BY <1>12, <1>13 DEF N
<1>18. K + 1 =< MaxWindows /\ K + 1 # 0
  BY <1>1, <1>10
<1> QED
  BY <1>8, <1>11, <1>16, <1>17, <1>18 DEF vs

(***************************************************************************)
(* A recording keeps the series right: it is lost, counted by the newest   *)
(* window, or counted by the one it opened.                                *)
(***************************************************************************)
LEMMA RecordKeeps ==
    ASSUME SeriesOk(series), NEW stop \in 0 .. LastTick, NEW latency \in Latencies, NEW memory,
           record(stop, latency, memory)
    PROVE  SeriesOk(series')
<1> DEFINE ws == series.windows
           samples == series.samples
           new == isNewWindow(ws, stop)
           us == IF new THEN openWindow(ws, stop) ELSE ws
           vs == [us EXCEPT ![Len(us)] = add(@, latency)]
           more == Append(samples, latency)
<1>1. series \in [windows : Seq(Counters), samples : Seq(Nat), lost : Nat]
  BY DEF SeriesOk
<1>2. ws \in Seq(Counters) /\ samples \in Seq(Nat) /\ series.lost \in Nat
  BY <1>1
<1>3. /\ Len(ws) =< MaxWindows /\ Aligned(ws) /\ \A i \in 1 .. Len(ws) : ws[i].n # 0
  BY DEF SeriesOk
<1>4. Len(samples) \in Nat /\ Len(samples) + series.lost < MaxRecords /\ MaxRecords \in Nat
  BY <1>2, LenProperties, SeriesAssumption DEF record
<1>5. PICK p : Placed(p, ws, samples) /\ (Len(ws) < MaxWindows => p[0] = 0)
  BY DEF SeriesOk
<1>6. \/ series' = [series EXCEPT !.lost = @ + 1]
      \/ series' = [series EXCEPT !.windows = vs, !.samples = more]
  BY DEF record
<1>7. stop \in Nat /\ latency \in Nat
  BY SeriesAssumption
<1>8. CASE series' = [series EXCEPT !.lost = @ + 1]
  <2> DEFINE l == series.lost + 1
  <2>1. l \in Nat /\ Len(samples) + l =< MaxRecords
    <3> HIDE DEF samples
    <3> QED
      BY <1>2, <1>4
  <2>2. series' = [series EXCEPT !.lost = l]
    BY <1>1, <1>8
  <2> HIDE DEF l
  <2>3. /\ series' \in [windows : Seq(Counters), samples : Seq(Nat), lost : Nat]
        /\ series'.windows = ws /\ series'.samples = samples /\ series'.lost = l
    BY <1>1, <2>1, <2>2
  <2> QED
    BY <1>3, <1>5, <2>1, <2>3 DEF SeriesOk
<1>9. CASE series' = [series EXCEPT !.windows = vs, !.samples = more]
  <2>1. /\ us \in Seq(Counters) /\ Aligned(us) /\ Len(us) =< MaxWindows /\ Len(us) # 0
        /\ \A i \in 1 .. Len(us) : i # Len(us) => us[i].n # 0
        /\ \E q : Placed(q, us, samples) /\ (Len(us) < MaxWindows => q[0] = 0)
    <3>1. CASE new
      <4>1. us = openWindow(ws, stop)
        BY <3>1
      <4> HIDE DEF us, ws, samples
      <4>2. isNewWindow(ws, stop)
        BY <3>1
      <4> QED
        BY <1>2, <1>3, <1>5, <1>7, <4>1, <4>2, OpenedWindows
    <3>2. CASE ~new
      <4>1. us = ws
        BY <3>2
      <4>2. ws # <<>>
        BY <3>2 DEF isNewWindow
      <4>3. Len(ws) # 0
        BY <1>2, <4>2, EmptySeq
      <4> HIDE DEF us
      <4> QED
        BY <1>2, <1>3, <1>5, <4>1, <4>3
    <3> QED
      BY <3>1, <3>2
  <2> HIDE DEF us
  <2>2. PICK q : Placed(q, us, samples) /\ (Len(us) < MaxWindows => q[0] = 0)
    BY <2>1
  <2> DEFINE N == Len(us)
  <2>3. /\ vs \in Seq(Counters) /\ Len(vs) = N /\ vs[N].n # 0
        /\ \A i \in 1 .. N : /\ i # N => vs[i] = us[i]
                             /\ vs[i].start = us[i].start /\ vs[i].stop = us[i].stop
        /\ \E r : Placed(r, vs, more) /\ r[0] = q[0]
    <3>1. us \in Seq(Counters) /\ Len(us) # 0
      BY <2>1
    <3>2. Placed(q, us, samples)
      BY <2>2
    <3> HIDE DEF samples
    <3>3. AfterAdding(us, AddedTo(us, latency), q, more)
      BY <1>2, <1>7, <3>1, <3>2, LatencyAdded
    <3>4. AddedTo(us, latency) = vs
      BY DEF AddedTo
    <3> HIDE DEF vs
    <3> QED
      BY <3>3, <3>4 DEF AfterAdding
  <2> HIDE DEF vs
  <2>4. more \in Seq(Nat) /\ Len(more) = Len(samples) + 1
    BY <1>2, <1>7, AppendProperties
  <2> HIDE DEF more
  <2>5. /\ series' \in [windows : Seq(Counters), samples : Seq(Nat), lost : Nat]
        /\ series'.windows = vs /\ series'.samples = more /\ series'.lost = series.lost
    BY <1>1, <1>9, <2>3, <2>4
  <2>6. Len(more) + series.lost =< MaxRecords
    <3> HIDE DEF samples
    <3> QED
      BY <1>2, <1>4, <2>4
  <2>7. N \in Nat
    BY <2>1, LenProperties
  <2>8. Aligned(vs)
    <3>1. \A i \in 1 .. N : \E k \in Nat : us[i].stop = (k * WindowSizeSec) * PerSecond
      BY <2>1 DEF Aligned
    <3>2. \A i \in 1 .. N : i # N => us[i].stop =< us[i + 1].start
      BY <2>1 DEF Aligned
    <3>3. Len(vs) = N /\ \A i \in 1 .. N : vs[i].start = us[i].start /\ vs[i].stop = us[i].stop
      BY <2>3
    <3> HIDE DEF N
    <3>4. \A i \in 1 .. N : i # N => i + 1 \in 1 .. N
      BY <2>7
    <3> QED
      BY <3>1, <3>2, <3>3, <3>4 DEF Aligned
  <2>9. \A i \in 1 .. N : vs[i].n # 0
    BY <2>1, <2>3
  <2>10. \E r : Placed(r, vs, more) /\ (Len(vs) < MaxWindows => r[0] = 0)
    BY <2>2, <2>3
  <2> QED
    BY <2>1, <2>3, <2>5, <2>6, <2>8, <2>9, <2>10 DEF SeriesOk
<1> QED
  BY <1>6, <1>8, <1>9

(***************************************************************************)
(* Whatever the order of the stops, the windows divide the most recent     *)
(* recordings among them.                                                  *)
(***************************************************************************)
THEOREM SeriesInvariance == SeriesSpec => []SeriesOk(series)
<1>1. SeriesInit => SeriesOk(series)
  <2> SUFFICES ASSUME SeriesInit PROVE SeriesOk(series)
    OBVIOUS
  <2>1. /\ series.windows = <<>> /\ series.samples = <<>> /\ series.lost = 0
        /\ series \in [windows : Seq(Counters), samples : Seq(Nat), lost : Nat]
    BY DEF SeriesInit
  <2>2. Len(series.windows) = 0 /\ Len(series.samples) = 0 /\ MaxWindows \in Nat /\ MaxRecords \in Nat
    BY <2>1, SeriesAssumption
  <2> DEFINE p == [i \in 0 .. 0 |-> 0]
  <2>3. p \in [0 .. 0 -> 0 .. 0] /\ p[0] = 0
    OBVIOUS
  <2>4. \A i \in 1 .. 0 : FALSE
    OBVIOUS
  <2> HIDE DEF p
  <2>5. Placed(p, series.windows, series.samples)
    BY <2>2, <2>3, <2>4 DEF Placed
  <2>6. Aligned(series.windows)
    BY <2>2, <2>4 DEF Aligned
  <2> QED
    BY <2>1, <2>2, <2>3, <2>4, <2>5, <2>6 DEF SeriesOk
<1>2. SeriesOk(series) /\ [SeriesNext]_series => SeriesOk(series)'
  BY RecordKeeps DEF SeriesNext
<1> QED
  BY <1>1, <1>2, PTL DEF SeriesSpec

(***************************************************************************)
(* What the loop of queries() has counted after each window.               *)
(***************************************************************************)
LEMMA CountedUp ==
    ASSUME NEW ws \in Seq(Counters), NEW samples \in Seq(Nat), NEW p, Placed(p, ws, samples),
           Len(samples) =< MaxRecords
    PROVE  \A i \in 0 .. Len(ws) : counted(ws)[i] = p[i] - p[0]
<1> DEFINE N == Len(ws)
           L == Len(samples)
           T == [0 .. N -> 0 .. MaxRecords]
           u == [i \in 0 .. N |-> p[i] - p[0]]
           t == counted(ws)
<1>1. N \in Nat /\ L \in Nat /\ MaxRecords \in Nat /\ L =< MaxRecords
  BY LenProperties, SeriesAssumption
<1>2. p \in [0 .. N -> 0 .. L]
  BY DEF Placed
<1>3. \A i \in 1 .. N : p[i] = p[i - 1] + ws[i].n
  BY DEF Placed, Counts
<1>4. \A i \in 1 .. N : ws[i].n \in Nat
  <2>1. \A i \in 1 .. Len(ws) : ws[i] \in Counters
    BY ElementOfSeq
  <2> QED
    BY <2>1 DEF Counters
<1>5. t = CHOOSE x \in T : x[0] = 0 /\ \A i \in 1 .. N : x[i] = x[i - 1] + ws[i].n
  BY DEF counted
<1> HIDE DEF N, L, t
<1>6. 0 \in 0 .. N /\ \A i \in 1 .. N : i \in 0 .. N /\ i - 1 \in 0 .. N
  BY <1>1
<1>7. \A i \in 0 .. N : p[i] \in 0 .. L
  BY <1>2
<1>8. \A i \in 0 .. N : p[0] =< p[i]
  <2> SUFFICES ASSUME NEW e \in 0 .. N, ~(p[0] =< p[e]) PROVE FALSE
    OBVIOUS
  <2> DEFINE Bad == {i \in 0 .. N : ~(p[0] =< p[i])}
  <2>1. PICK m \in Bad : \A k \in Bad : m =< k
    <3>1. Bad \subseteq Nat /\ e \in Bad
      BY <1>1
    <3> HIDE DEF Bad
    <3> QED
      BY <3>1, Least
  <2>2. m \in 0 .. N /\ m # 0 /\ ~(p[0] =< p[m])
    BY <1>6, <1>7, <1>1
  <2>3. m \in 1 .. N /\ m - 1 \in 0 .. N /\ ~(m =< m - 1)
    BY <1>1, <2>2
  <2>4. p[0] =< p[m - 1]
    BY <2>1, <2>3
  <2>5. p[m] = p[m - 1] + ws[m].n /\ ws[m].n \in Nat
    BY <1>3, <1>4, <2>3
  <2>6. p[0] \in 0 .. L /\ p[m] \in 0 .. L /\ p[m - 1] \in 0 .. L
    BY <1>6, <1>7, <2>2, <2>3
  <2>7. \A a, b, c, d \in Nat : a =< b /\ c = b + d => a =< c
    OBVIOUS
  <2>8. p[0] \in Nat /\ p[m] \in Nat /\ p[m - 1] \in Nat
    BY <1>1, <2>6
  <2> QED
    BY <2>2, <2>4, <2>5, <2>7, <2>8
<1>9. u \in T /\ \A i \in 0 .. N : u[i] = p[i] - p[0]
  <2>1. \A i \in 0 .. N : p[i] - p[0] \in 0 .. MaxRecords
    <3> TAKE i \in 0 .. N
    <3>1. p[i] \in 0 .. L /\ p[0] \in 0 .. L /\ p[0] =< p[i]
      BY <1>6, <1>7, <1>8
    <3> QED
      BY <1>1, <3>1
  <2> QED
    BY <2>1
<1> HIDE DEF u
<1>10. u[0] = 0
  BY <1>1, <1>6, <1>7, <1>9
<1>11. ASSUME NEW i \in 1 .. N PROVE u[i] = u[i - 1] + ws[i].n
  <2>1. u[i] = p[i] - p[0] /\ u[i - 1] = p[i - 1] - p[0]
    BY <1>6, <1>9
  <2>2. p[i] = p[i - 1] + ws[i].n /\ ws[i].n \in Nat
    BY <1>3, <1>4
  <2>3. p[0] \in 0 .. L /\ p[i] \in 0 .. L /\ p[i - 1] \in 0 .. L
    BY <1>6, <1>7
  <2> QED
    BY <1>1, <2>1, <2>2, <2>3
<1>12. t \in T /\ t[0] = 0 /\ \A i \in 1 .. N : t[i] = t[i - 1] + ws[i].n
  <2>1. \E x \in T : x[0] = 0 /\ \A i \in 1 .. N : x[i] = x[i - 1] + ws[i].n
    BY <1>9, <1>10, <1>11
  <2> HIDE DEF T
  <2> QED
    BY <1>5, <2>1
<1>13. \A i \in 0 .. N : t[i] = u[i]
  <2> SUFFICES ASSUME NEW e \in 0 .. N, t[e] # u[e] PROVE FALSE
    OBVIOUS
  <2> DEFINE Bad == {i \in 0 .. N : t[i] # u[i]}
  <2>1. PICK m \in Bad : \A k \in Bad : m =< k
    <3>1. Bad \subseteq Nat /\ e \in Bad
      BY <1>1
    <3> HIDE DEF Bad
    <3> QED
      BY <3>1, Least
  <2>2. m \in 0 .. N /\ m # 0 /\ t[m] # u[m]
    BY <1>10, <1>12
  <2>3. m \in 1 .. N /\ m - 1 \in 0 .. N /\ ~(m =< m - 1)
    BY <1>1, <2>2
  <2>4. t[m - 1] = u[m - 1]
    BY <2>1, <2>3
  <2> QED
    BY <1>11, <1>12, <2>2, <2>3, <2>4
<1> QED
  BY <1>9, <1>13 DEF N, t

(***************************************************************************)
(* In every series the windows are in order, at most as many as allowed,   *)
(* and each has counted its own recordings and no other's, whichever       *)
(* windows were dropped and whatever the order of the stops.               *)
(***************************************************************************)
THEOREM SeriesAreSound == SeriesSpec => []SeriesIsSound
<1>1. SeriesOk(series) => SeriesIsSound
  <2> SUFFICES ASSUME SeriesOk(series) PROVE SeriesIsSound
    OBVIOUS
  <2> DEFINE ws == series.windows
             samples == series.samples
             N == Len(ws)
             L == Len(samples)
             t == counted(ws)
             before == L - queries
             latencies(i) == {samples[before + j] : j \in t[i - 1] + 1 .. t[i]}
  <2>1. ws \in Seq(Counters) /\ samples \in Seq(Nat) /\ series.lost \in Nat
    BY DEF SeriesOk
  <2>2. N =< MaxWindows /\ L + series.lost =< MaxRecords /\ Aligned(ws) /\ \A i \in 1 .. N : ws[i].n # 0
    BY DEF SeriesOk
  <2>3. PICK p : Placed(p, ws, samples) /\ (N < MaxWindows => p[0] = 0)
    BY DEF SeriesOk
  <2>4. N \in Nat /\ L \in Nat /\ DOMAIN ws = 1 .. N /\ MaxRecords \in Nat
    BY <2>1, LenProperties, SeriesAssumption
  <2>5. L =< MaxRecords
    <3> HIDE DEF L
    <3> QED
      BY <2>1, <2>2, <2>4
  <2>6. \A i \in 0 .. N : t[i] = p[i] - p[0]
    <3>1. Placed(p, ws, samples)
      BY <2>3
    <3> HIDE DEF ws, samples
    <3> QED
      BY <2>1, <2>5, <3>1, CountedUp
  <2>7. p \in [0 .. N -> 0 .. L] /\ p[N] = L /\ \A i \in 1 .. N : Counts(ws[i], samples, p[i - 1], p[i])
    BY <2>3 DEF Placed
  <2>8. queries = t[N] /\ before = L - queries
    BY DEF queries
  <2>9. \A i \in 1 .. N : ws[i].n \in Nat
    <3>1. \A i \in 1 .. Len(ws) : ws[i] \in Counters
      BY <2>1, ElementOfSeq
    <3> QED
      BY <3>1 DEF Counters
  <2>10. WindowsInOrder
    <3>1. \A i \in 1 .. N : i # N => ws[i].stop =< ws[i + 1].start
      BY <2>2 DEF Aligned
    <3>2. \A i \in 1 .. N - 1 : i \in 1 .. N /\ i # N
      <4> HIDE DEF N
      <4> QED
        BY <2>4
    <3> QED
      BY <2>2, <3>1, <3>2 DEF WindowsInOrder
  <2> HIDE DEF N, L, t, before, samples, ws
  <2>11. 0 \in 0 .. N /\ N \in 0 .. N /\ \A i \in 1 .. N : i \in 0 .. N /\ i - 1 \in 0 .. N
    BY <2>4
  <2>12. p[0] \in 0 .. L /\ queries = L - p[0] /\ before = p[0]
    <3>1. p[0] \in 0 .. L /\ queries = L - p[0]
      BY <2>6, <2>7, <2>8, <2>11
    <3> QED
      BY <2>4, <2>8, <3>1
  <2>13. queries =< L /\ (N < MaxWindows => queries = L)
    BY <2>3, <2>4, <2>12
  <2>14. ASSUME NEW i \in 1 .. N
         PROVE  /\ ws[i].n > 0 /\ {ws[i].min, ws[i].max} \subseteq latencies(i)
                /\ \A l \in latencies(i) : ws[i].min =< l /\ l =< ws[i].max
    <3> DEFINE a == p[i - 1]
               b == p[i]
               w == ws[i]
    <3>1. a \in 0 .. L /\ b \in 0 .. L /\ t[i - 1] = a - p[0] /\ t[i] = b - p[0]
      BY <2>6, <2>7, <2>11
    <3>2. Counts(w, samples, a, b)
      BY <2>7
    <3>3. w.n \in Nat /\ w.n # 0
      BY <2>2, <2>9 DEF N
    <3> HIDE DEF a, b, w
    <3>4. \A j \in t[i - 1] + 1 .. t[i] : before + j \in a + 1 .. b
      BY <2>4, <2>12, <3>1
    <3>5. \A k \in a + 1 .. b : k - before \in t[i - 1] + 1 .. t[i] /\ before + (k - before) = k
      BY <2>4, <2>12, <3>1
    <3>6. \A l \in latencies(i) : \E k \in a + 1 .. b : l = samples[k]
      BY <3>4
    <3>7. \A k \in a + 1 .. b : samples[k] \in latencies(i)
      <4> TAKE k \in a + 1 .. b
      <4> DEFINE j == k - before
      <4>1. j \in t[i - 1] + 1 .. t[i] /\ before + j = k
        BY <3>5
      <4> HIDE DEF j
      <4> QED
        BY <4>1
    <3> HIDE DEF latencies
    <3>8. w.min \in latencies(i) /\ w.max \in latencies(i)
      BY <3>2, <3>3, <3>7 DEF Counts
    <3>9. \A l \in latencies(i) : w.min =< l /\ l =< w.max
      BY <3>2, <3>6 DEF Counts
    <3>10. w.n > 0
      BY <3>3
    <3> QED
      BY <3>8, <3>9, <3>10 DEF w
  <2>15. CountsAreExact
    BY <2>4, <2>13, <2>14 DEF CountsAreExact, N, L, t, before, samples, ws
  <2> QED
    BY <2>10, <2>15 DEF SeriesIsSound
<1> QED
  BY <1>1, SeriesInvariance, PTL
==============================================================================

------------------------ MODULE FlatTimingWheelProofs ------------------------
(***************************************************************************)
(* The timing wheel is exact for every size of the wheel, every number of  *)
(* timers and every delay, as long as the clock only moves forward and the *)
(* 32 bit number of milliseconds does not wrap.  The runs TimingWheelWrap  *)
(* and TimingWheelSetBack show that neither condition can be dropped.      *)
(*                                                                         *)
(* NeverEarly is not inductive: a bucket holds the timers of all ticks     *)
(* that are equal modulo MaxTicks.  WithinOneTurn, which insert and update *)
(* enforce with their range check and nextExpired preserves because it     *)
(* empties the buckets it passes, makes a bucket hold one tick only.       *)
(***************************************************************************)
EXTENDS FlatTimingWheel, TLAPS

(***************************************************************************)
(* The times of this run fit in 32 bits, and the clock is never set back.  *)
(***************************************************************************)
Regular ==
    /\ MaxClock * TickMs < Word /\ MaxClock + MaxTicks < Word
    /\ \A delay \in Delays : MaxClock + delay < Word
    /\ ClockSteps \subseteq Nat

IInv ==
    /\ WheelTypeOK
    /\ seen <= clock /\ currentTick <= seen
    /\ BucketsConsistent
    /\ WithinOneTurn
    /\ \A t \in Timers : InTimingWheel(t) => tick[t] = due[t]
    /\ NeverEarly
    /\ NoneMissed

-----------------------------------------------------------------------------
(***************************************************************************)
(* Facts about division with a variable divisor.                           *)
(***************************************************************************)
LEMMA DivMod ==
    ASSUME NEW n \in Int, NEW d \in Int, d > 0
    PROVE  n = d * (n \div d) + (n % d) /\ n % d \in 0..(d - 1) /\ n \div d \in Int
<1>1. n = d * (n \div d) + (n % d)
  BY SMTT(60)
<1>2. n % d >= 0 /\ n % d < d /\ n % d \in Int /\ n \div d \in Int
  OBVIOUS
<1>3. QED
  BY <1>1, <1>2

LEMMA DivMult ==
    ASSUME NEW n \in Nat, NEW d \in Nat \ {0}
    PROVE  (n * d) \div d = n
OBVIOUS

LEMMA ModSmall ==
    ASSUME NEW n \in Nat, NEW d \in Nat \ {0}, n < d
    PROVE  n % d = n
OBVIOUS

(***************************************************************************)
(* Two different ticks less than a turn apart have different buckets.      *)
(***************************************************************************)
LEMMA IdxInjective ==
    ASSUME NEW a \in Nat, NEW b \in Nat, a < b, b < a + MaxTicks
    PROVE  Idx(a) # Idx(b)
<1>1. MaxTicks \in Int /\ MaxTicks > 0
  BY WheelAssumption
<1>2. SUFFICES ASSUME a % MaxTicks = b % MaxTicks PROVE FALSE
  BY DEF Idx
<1> DEFINE qa == a \div MaxTicks
           qb == b \div MaxTicks
           r == a % MaxTicks
<1>3. /\ a = MaxTicks * qa + r /\ b = MaxTicks * qb + r
      /\ qa \in Int /\ qb \in Int /\ r \in Int
  <2>1. a = MaxTicks * (a \div MaxTicks) + (a % MaxTicks) /\ a \div MaxTicks \in Int /\ a % MaxTicks \in Int
    BY <1>1, DivMod
  <2>2. b = MaxTicks * (b \div MaxTicks) + (b % MaxTicks) /\ b \div MaxTicks \in Int
    BY <1>1, DivMod
  <2>3. QED
    BY <1>2, <2>1, <2>2
<1> HIDE DEF qa, qb, r
<1> DEFINE k == qb - qa
<1>4. k \in Int /\ b - a = MaxTicks * k
  BY <1>1, <1>3
<1> HIDE DEF k
<1>5. QED
  BY <1>1, <1>4

LEMMA IdxType ==
    ASSUME NEW a \in Nat
    PROVE  Idx(a) \in 0..(MaxTicks - 1)
BY DivMod, WheelAssumption DEF Idx

(***************************************************************************)
(* ticks() is exact while nothing wraps.                                   *)
(***************************************************************************)
LEMMA TicksExact ==
    ASSUME Regular, NEW n \in 0..MaxClock
    PROVE  Ticks(n) = n
<1> DEFINE q == n \div TicksPerSecond
           r == n % TicksPerSecond
           s == q * TicksPerSecond
<1>1. n = TicksPerSecond * q + r /\ q \in Int /\ r \in Nat
  BY DivMod, WheelAssumption
<1>2. q \in Nat
  BY WheelAssumption
<1>3. s \in Nat /\ s <= n /\ n = s + r
  BY <1>1, <1>2, WheelAssumption
<1> HIDE DEF q, r
<1>4. s * TickMs \in Nat /\ s * TickMs < Word
  <2>1. s <= MaxClock /\ TickMs \in Nat
    BY <1>3, WheelAssumption
  <2>2. s * TickMs <= MaxClock * TickMs
    BY <1>3, <2>1, WheelAssumption
  <2>3. QED
    BY <1>3, <2>1, <2>2, WheelAssumption DEF Regular
<1>5. (s * TickMs) % Word = s * TickMs
  BY <1>4, ModSmall, WheelAssumption
<1>6. (s * TickMs) \div TickMs = s
  BY <1>3, DivMult, WheelAssumption
<1>7. Ticks(n) = (((q * TicksPerSecond * TickMs) % Word) \div TickMs) + r
  BY DEF Ticks, q, r
<1>8. QED
  BY <1>3, <1>5, <1>6, <1>7

(***************************************************************************)
(* Range check of insert and update.                                       *)
(***************************************************************************)
LEMMA VerdictExact ==
    ASSUME Regular, IInv, NEW now \in 0..MaxClock, NEW delay \in Delays
    PROVE  LET at == (Ticks(now) + delay) % Word IN
           /\ at = now + delay /\ at \in Nat
           /\ Verdict(at) \in {"SUCCESS", "UNDERFLOW", "OVERFLOW"}
           /\ Verdict(at) = "SUCCESS" => at \in (currentTick + 1)..(currentTick + MaxTicks - 1)
<1>1. Ticks(now) = now
  BY TicksExact
<1>2. now + delay \in Nat /\ now + delay < Word
  BY WheelAssumption DEF Regular
<1>3. (now + delay) % Word = now + delay
  BY <1>2, ModSmall, WheelAssumption
<1>4. currentTick \in Nat /\ currentTick + MaxTicks \in Nat /\ currentTick + MaxTicks < Word
  BY WheelAssumption DEF IInv, WheelTypeOK, Regular
<1>5. (currentTick + MaxTicks) % Word = currentTick + MaxTicks
  BY <1>4, ModSmall, WheelAssumption
<1>6. QED
  BY <1>1, <1>2, <1>3, <1>4, <1>5, WheelAssumption DEF Verdict

-----------------------------------------------------------------------------
(***************************************************************************)
(* Scheduling a timer that is in no bucket.                                *)
(***************************************************************************)
LEMMA PlaceStep ==
    ASSUME IInv, NEW t \in Timers, NEW at \in (currentTick + 1)..(currentTick + MaxTicks - 1),
           NEW others \in [0..(MaxTicks - 1) -> SUBSET Timers],
           \A u \in Timers, i \in 0..(MaxTicks - 1) :
               u \in others[i] <=> u # t /\ InTimingWheel(u) /\ Idx(tick[u]) = i,
           Place(t, at, at, others), UNCHANGED <<clock, seen, currentTick>>,
           NEW call \in {"insert", "update"}, Return(call, "SUCCESS")
    PROVE  IInv'
<1>1. at \in Nat /\ Idx(at) \in 0..(MaxTicks - 1)
  BY IdxType, WheelAssumption DEF IInv, WheelTypeOK
<1>2. /\ tick' = [tick EXCEPT ![t] = at] /\ due' = [due EXCEPT ![t] = at]
      /\ bucket' = [others EXCEPT ![Idx(at)] = @ \cup {t}]
      /\ ret' = [call |-> call, value |-> "SUCCESS"]
  BY DEF Place, Return
<1>3. WheelTypeOK'
  BY <1>1, <1>2 DEF IInv, WheelTypeOK, Results
<1>4. tick'[t] = at /\ due'[t] = at /\ \A u \in Timers \ {t} : tick'[u] = tick[u] /\ due'[u] = due[u]
  BY <1>2 DEF IInv, WheelTypeOK
<1>5. BucketsConsistent'
  <2>1. SUFFICES ASSUME NEW u \in Timers, NEW i \in 0..(MaxTicks - 1)
                 PROVE  u \in bucket'[i] <=> tick'[u] >= 0 /\ Idx(tick'[u]) = i
    BY <1>3 DEF WheelTypeOK, BucketsConsistent, InTimingWheel, Idx
  <2>2. u \in bucket'[i] <=> u \in others[i] \/ (i = Idx(at) /\ u = t)
    BY <1>1, <1>2
  <2>3. QED
    BY <1>1, <1>4, <2>2 DEF InTimingWheel
<1>6. WithinOneTurn' /\ \A u \in Timers : InTimingWheel(u)' => tick'[u] = due'[u]
  BY <1>4 DEF IInv, WithinOneTurn, InTimingWheel
<1>7. NeverEarly' /\ NoneMissed'
  BY <1>2 DEF NeverEarly, NoneMissed
<1>8. QED
  BY <1>3, <1>5, <1>6, <1>7 DEF IInv

(***************************************************************************)
(* Taking timers out of the wheel without moving the current tick.         *)
(***************************************************************************)
LEMMA TakeOut ==
    ASSUME IInv, NEW T \in SUBSET Timers,
           tick' = [u \in Timers |-> IF u \in T THEN -1 ELSE tick[u]],
           bucket' = [i \in 0..(MaxTicks - 1) |-> bucket[i] \ T],
           UNCHANGED <<clock, seen, due>>, currentTick' \in Nat
    PROVE  /\ tick' \in [Timers -> Int] /\ bucket' \in [0..(MaxTicks - 1) -> SUBSET Timers]
           /\ BucketsConsistent'
           /\ \A u \in Timers : InTimingWheel(u)' => tick'[u] = due'[u]
           /\ \A u \in Timers : InTimingWheel(u)' <=> InTimingWheel(u) /\ u \notin T
           /\ \A u \in Timers : InTimingWheel(u)' => tick'[u] = tick[u]
<1>1. tick' \in [Timers -> Int] /\ bucket' \in [0..(MaxTicks - 1) -> SUBSET Timers]
  BY DEF IInv, WheelTypeOK
<1>2. /\ \A u \in Timers : InTimingWheel(u)' <=> InTimingWheel(u) /\ u \notin T
      /\ \A u \in Timers : InTimingWheel(u)' => tick'[u] = tick[u]
  BY DEF IInv, WheelTypeOK, InTimingWheel
<1>3. BucketsConsistent'
  <2>1. SUFFICES ASSUME NEW u \in Timers, NEW i \in 0..(MaxTicks - 1)
                 PROVE  u \in bucket'[i] <=> InTimingWheel(u)' /\ Idx(tick'[u]) = i
    BY <1>1 DEF BucketsConsistent, Idx
  <2>2. u \in bucket[i] <=> InTimingWheel(u) /\ Idx(tick[u]) = i
    BY DEF IInv, WheelTypeOK, BucketsConsistent
  <2>3. u \in bucket'[i] <=> u \in bucket[i] /\ u \notin T
    OBVIOUS
  <2>4. QED
    BY <1>2, <2>2, <2>3
<1>4. QED
  BY <1>1, <1>2, <1>3 DEF IInv

(***************************************************************************)
(* Removing one timer from the bucket of its tick removes it from every    *)
(* bucket.                                                                 *)
(***************************************************************************)
LEMMA WithoutExact ==
    ASSUME IInv, NEW t \in Timers, InTimingWheel(t)
    PROVE  Without(t) = [i \in 0..(MaxTicks - 1) |-> bucket[i] \ {t}]
<1>1. tick[t] \in Nat /\ Idx(tick[t]) \in 0..(MaxTicks - 1)
  BY IdxType DEF IInv, WheelTypeOK, InTimingWheel
<1>2. \A i \in 0..(MaxTicks - 1) : i # Idx(tick[t]) => t \notin bucket[i]
  BY DEF IInv, WheelTypeOK, BucketsConsistent
<1>3. bucket \in [0..(MaxTicks - 1) -> SUBSET Timers]
  BY DEF IInv, WheelTypeOK
<1>4. \A i \in 0..(MaxTicks - 1) : Without(t)[i] = bucket[i] \ {t}
  BY <1>1, <1>2, <1>3 DEF Without
<1>5. QED
  BY <1>3, <1>4 DEF Without

-----------------------------------------------------------------------------
(***************************************************************************)
(* The steps.                                                              *)
(***************************************************************************)
LEMMA InsertStep ==
    ASSUME Regular, IInv, NEW t \in Timers, NEW delay \in Delays,
           NEW now \in 0..MaxClock, NEW call \in {"insert", "update"}, InsertTimer(call, t, delay, now)
    PROVE  IInv'
<1> DEFINE at == (Ticks(now) + delay) % Word
<1>1. /\ at = now + delay /\ Verdict(at) \in {"SUCCESS", "UNDERFLOW", "OVERFLOW"}
      /\ Verdict(at) = "SUCCESS" => at \in (currentTick + 1)..(currentTick + MaxTicks - 1)
  BY VerdictExact
<1>2. /\ ~InTimingWheel(t) /\ Return(call, Verdict(at)) /\ UNCHANGED <<clock, seen, currentTick>>
      /\ IF Verdict(at) = "SUCCESS" THEN Place(t, at, now + delay, bucket)
                                    ELSE UNCHANGED <<tick, bucket, due>>
  BY DEF InsertTimer
<1> HIDE DEF at
<1>3. CASE Verdict(at) = "SUCCESS"
  <2>1. /\ bucket \in [0..(MaxTicks - 1) -> SUBSET Timers]
        /\ \A u \in Timers, i \in 0..(MaxTicks - 1) :
               u \in bucket[i] <=> u # t /\ InTimingWheel(u) /\ Idx(tick[u]) = i
    BY <1>2 DEF IInv, WheelTypeOK, BucketsConsistent
  <2>2. Place(t, at, at, bucket) /\ Return(call, "SUCCESS")
    BY <1>1, <1>2, <1>3
  <2>3. QED
    BY <1>1, <1>2, <1>3, <2>1, <2>2, PlaceStep
<1>4. CASE Verdict(at) # "SUCCESS"
  <2>1. UNCHANGED <<clock, seen, currentTick, tick, bucket, due>>
    BY <1>2, <1>4
  <2>2. ret' \in Results /\ ret'.call # "nextExpired"
    BY <1>1, <1>2 DEF Return, Results
  <2>3. QED
    BY <2>1, <2>2
       DEF IInv, WheelTypeOK, BucketsConsistent, WithinOneTurn, InTimingWheel, NeverEarly, NoneMissed
<1>5. QED
  BY <1>3, <1>4

LEMMA UpdateStep ==
    ASSUME Regular, IInv, NEW t \in Timers, NEW delay \in Delays, Update(t, delay)
    PROVE  IInv'
<1> DEFINE at == (Ticks(seen) + delay) % Word
<1>1. /\ at = seen + delay /\ Verdict(at) \in {"SUCCESS", "UNDERFLOW", "OVERFLOW"}
      /\ Verdict(at) = "SUCCESS" => at \in (currentTick + 1)..(currentTick + MaxTicks - 1)
  <2>1. seen \in 0..MaxClock
    BY DEF IInv, WheelTypeOK
  <2>2. QED
    BY <2>1, VerdictExact
<1>2. InTimingWheel(t) /\ Return("update", Verdict(at)) /\ UNCHANGED <<clock, seen, currentTick>>
  BY DEF Update
<1>3. /\ Verdict(at) = "SUCCESS" => Place(t, at, seen + delay, Without(t))
      /\ Verdict(at) = "UNDERFLOW" => /\ tick' = [tick EXCEPT ![t] = -1]
                                      /\ bucket' = Without(t) /\ due' = due
      /\ Verdict(at) = "OVERFLOW" => UNCHANGED <<tick, bucket, due>>
  BY <1>1 DEF Update
<1>4. Without(t) = [i \in 0..(MaxTicks - 1) |-> bucket[i] \ {t}]
  BY <1>2, WithoutExact
<1> HIDE DEF at
<1>5. CASE Verdict(at) = "SUCCESS"
  <2>1. Without(t) \in [0..(MaxTicks - 1) -> SUBSET Timers]
    BY <1>4 DEF IInv, WheelTypeOK
  <2>2. \A u \in Timers, i \in 0..(MaxTicks - 1) :
            u \in Without(t)[i] <=> u # t /\ InTimingWheel(u) /\ Idx(tick[u]) = i
    BY <1>4 DEF IInv, WheelTypeOK, BucketsConsistent
  <2>3. Place(t, at, at, Without(t)) /\ Return("update", "SUCCESS")
    BY <1>1, <1>2, <1>3, <1>5
  <2>4. QED
    BY <1>1, <1>2, <1>5, <2>1, <2>2, <2>3, PlaceStep
<1>6. CASE Verdict(at) = "UNDERFLOW"
  <2>1. tick' = [u \in Timers |-> IF u \in {t} THEN -1 ELSE tick[u]]
    BY <1>3, <1>6 DEF IInv, WheelTypeOK
  <2>2. /\ bucket' = [i \in 0..(MaxTicks - 1) |-> bucket[i] \ {t}]
        /\ UNCHANGED <<clock, seen, due, currentTick>> /\ currentTick' \in Nat
    BY <1>2, <1>3, <1>4, <1>6 DEF IInv, WheelTypeOK
  <2>3. /\ tick' \in [Timers -> Int] /\ bucket' \in [0..(MaxTicks - 1) -> SUBSET Timers]
        /\ BucketsConsistent'
        /\ \A u \in Timers : InTimingWheel(u)' => tick'[u] = due'[u]
        /\ \A u \in Timers : InTimingWheel(u)' <=> InTimingWheel(u) /\ u \notin {t}
        /\ \A u \in Timers : InTimingWheel(u)' => tick'[u] = tick[u]
    <3>1. {t} \in SUBSET Timers
      OBVIOUS
    <3>2. QED
      BY <2>1, <2>2, <3>1, TakeOut
  <2>4. ret' \in Results /\ ret'.call # "nextExpired"
    BY <1>2, <1>6 DEF Return, Results
  <2>5. WithinOneTurn'
    BY <2>2, <2>3 DEF IInv, WithinOneTurn
  <2>6. QED
    BY <2>2, <2>3, <2>4, <2>5 DEF IInv, WheelTypeOK, NeverEarly, NoneMissed
<1>7. CASE Verdict(at) = "OVERFLOW"
  <2>1. ret' \in Results /\ ret'.call # "nextExpired"
    BY <1>2, <1>7 DEF Return, Results
  <2>2. UNCHANGED <<clock, seen, currentTick, tick, bucket, due>>
    BY <1>2, <1>3, <1>7
  <2>3. QED
    BY <2>1, <2>2
       DEF IInv, WheelTypeOK, BucketsConsistent, WithinOneTurn, InTimingWheel, NeverEarly, NoneMissed
<1>8. QED
  BY <1>1, <1>5, <1>6, <1>7

LEMMA RemoveStep ==
    ASSUME IInv, NEW t \in Timers, RemoveTimer(t)
    PROVE  IInv'
<1>1. /\ InTimingWheel(t) /\ tick' = [tick EXCEPT ![t] = -1] /\ bucket' = Without(t)
      /\ UNCHANGED <<clock, seen, currentTick, due>> /\ Return("remove", "SUCCESS")
  BY DEF RemoveTimer
<1>2. /\ tick' = [u \in Timers |-> IF u \in {t} THEN -1 ELSE tick[u]]
      /\ bucket' = [i \in 0..(MaxTicks - 1) |-> bucket[i] \ {t}]
      /\ currentTick' \in Nat /\ {t} \in SUBSET Timers
  <2>1. tick' = [u \in Timers |-> IF u \in {t} THEN -1 ELSE tick[u]]
    BY <1>1 DEF IInv, WheelTypeOK
  <2>2. currentTick' \in Nat
    BY <1>1 DEF IInv, WheelTypeOK
  <2>3. QED
    BY <1>1, <2>1, <2>2, WithoutExact
<1>3. /\ tick' \in [Timers -> Int] /\ bucket' \in [0..(MaxTicks - 1) -> SUBSET Timers]
      /\ BucketsConsistent'
      /\ \A u \in Timers : InTimingWheel(u)' => tick'[u] = due'[u]
      /\ \A u \in Timers : InTimingWheel(u)' <=> InTimingWheel(u) /\ u \notin {t}
      /\ \A u \in Timers : InTimingWheel(u)' => tick'[u] = tick[u]
  BY <1>1, <1>2, TakeOut
<1>4. ret' \in Results /\ ret'.call # "nextExpired"
  BY <1>1 DEF Return, Results
<1>5. WithinOneTurn'
  BY <1>1, <1>3 DEF IInv, WithinOneTurn
<1>6. QED
  BY <1>1, <1>3, <1>4, <1>5 DEF IInv, WheelTypeOK, NeverEarly, NoneMissed

LEMMA ClearStep ==
    ASSUME IInv, Clear
    PROVE  IInv'
<1>1. DOMAIN bucket = 0..(MaxTicks - 1)
  BY DEF IInv, WheelTypeOK
<1>2. \A t \in Timers : (\E i \in DOMAIN bucket : t \in bucket[i]) <=> InTimingWheel(t)
  <2>1. TAKE t \in Timers
  <2>2. (\E i \in DOMAIN bucket : t \in bucket[i]) => InTimingWheel(t)
    BY DEF IInv, BucketsConsistent
  <2>3. InTimingWheel(t) => t \in bucket[Idx(tick[t])] /\ Idx(tick[t]) \in DOMAIN bucket
    BY <1>1, IdxType DEF IInv, WheelTypeOK, BucketsConsistent, InTimingWheel
  <2>4. QED
    BY <2>2, <2>3
<1>3. tick' = [t \in Timers |-> IF \E i \in DOMAIN bucket : t \in bucket[i] THEN -1 ELSE tick[t]]
  BY DEF Clear
<1>4. /\ bucket' = [i \in 0..(MaxTicks - 1) |-> {}]
      /\ UNCHANGED <<clock, seen, currentTick, due>> /\ Return("clear", "SUCCESS")
  BY <1>1 DEF Clear
<1>5. \A t \in Timers : tick'[t] \in Int /\ ~(tick'[t] >= 0)
  BY <1>2, <1>3 DEF IInv, WheelTypeOK, InTimingWheel
<1>6. WheelTypeOK'
  BY <1>3, <1>4, <1>5 DEF IInv, WheelTypeOK, Return, Results
<1>7. BucketsConsistent' /\ WithinOneTurn' /\ \A t \in Timers : ~InTimingWheel(t)'
  BY <1>4, <1>5 DEF BucketsConsistent, WithinOneTurn, InTimingWheel
<1>8. QED
  BY <1>4, <1>6, <1>7 DEF IInv, NeverEarly, NoneMissed, Return

(***************************************************************************)
(* nextExpired finds a timer: it has the tick of the bucket it was found   *)
(* in, and no timer is left behind when the current tick moves there.      *)
(***************************************************************************)
LEMMA NextExpiredStep ==
    ASSUME Regular, IInv, NEW t \in Timers, NextExpired(t)
    PROVE  IInv'
<1>1. seen \in Nat /\ currentTick \in Nat /\ Ticks(seen) = seen /\ currentTick <= seen
  <2>1. seen \in 0..MaxClock
    BY DEF IInv, WheelTypeOK
  <2>2. QED
    BY <2>1, TicksExact DEF IInv, WheelTypeOK
<1>2. PICK at \in currentTick..seen :
          /\ t \in bucket[Idx(at)]
          /\ \A earlier \in currentTick..(at - 1) : bucket[Idx(earlier)] = {}
          /\ bucket' = [bucket EXCEPT ![Idx(at)] = @ \ {t}]
          /\ currentTick' = IF bucket[Idx(at)] = {t} THEN at ELSE currentTick
  BY <1>1 DEF NextExpired
<1>3. /\ tick' = [tick EXCEPT ![t] = -1]
      /\ ret' = [call |-> "nextExpired", value |-> t]
      /\ UNCHANGED <<clock, seen, due>>
  BY DEF NextExpired, Return
<1>4. at \in Nat /\ Idx(at) \in 0..(MaxTicks - 1)
  BY <1>1, IdxType
<1>5. \A u \in Timers : InTimingWheel(u) => /\ tick[u] \in Nat /\ tick[u] > currentTick
                                           /\ tick[u] < currentTick + MaxTicks
                                           /\ u \in bucket[Idx(tick[u])]
  <2>1. TAKE u \in Timers
  <2>2. HAVE InTimingWheel(u)
  <2>3. tick[u] \in Nat /\ tick[u] > currentTick /\ tick[u] < currentTick + MaxTicks
    BY <1>1, <2>2, WheelAssumption DEF IInv, WheelTypeOK, WithinOneTurn, InTimingWheel
  <2>4. Idx(tick[u]) \in 0..(MaxTicks - 1)
    BY <2>3, IdxType
  <2>5. QED
    BY <2>2, <2>3, <2>4 DEF IInv, WheelTypeOK, BucketsConsistent
<1>6. \A u \in Timers : InTimingWheel(u) => ~(tick[u] < at)
  BY <1>1, <1>2, <1>4, <1>5
<1>7. InTimingWheel(t) /\ tick[t] = at
  <2>1. InTimingWheel(t) /\ Idx(tick[t]) = Idx(at)
    BY <1>2, <1>4 DEF IInv, WheelTypeOK, BucketsConsistent
  <2>2. ~(at < tick[t])
    <3>1. at < tick[t] => tick[t] < at + MaxTicks
      BY <1>1, <1>4, <1>5, <2>1, WheelAssumption
    <3>2. QED
      BY <1>4, <1>5, <2>1, <3>1, IdxInjective
  <2>3. QED
    BY <1>4, <1>5, <1>6, <2>1, <2>2
<1>8. /\ tick' = [u \in Timers |-> IF u \in {t} THEN -1 ELSE tick[u]]
      /\ bucket' = [i \in 0..(MaxTicks - 1) |-> bucket[i] \ {t}]
      /\ currentTick' \in Nat /\ {t} \in SUBSET Timers
  <2>1. tick' = [u \in Timers |-> IF u \in {t} THEN -1 ELSE tick[u]]
    BY <1>3 DEF IInv, WheelTypeOK
  <2>2. bucket' = [i \in 0..(MaxTicks - 1) |-> bucket[i] \ {t}]
    BY <1>2, <1>7, WithoutExact DEF Without
  <2>3. QED
    BY <1>1, <1>2, <1>4, <2>1, <2>2
<1>9. /\ tick' \in [Timers -> Int] /\ bucket' \in [0..(MaxTicks - 1) -> SUBSET Timers]
      /\ BucketsConsistent'
      /\ \A u \in Timers : InTimingWheel(u)' => tick'[u] = due'[u]
      /\ \A u \in Timers : InTimingWheel(u)' <=> InTimingWheel(u) /\ u \notin {t}
      /\ \A u \in Timers : InTimingWheel(u)' => tick'[u] = tick[u]
  BY <1>3, <1>8, TakeOut
<1>10. WithinOneTurn'
  <2>1. SUFFICES ASSUME NEW u \in Timers, InTimingWheel(u), u # t, tick'[u] = tick[u]
                 PROVE  tick[u] \in (currentTick' + 1)..(currentTick' + MaxTicks - 1)
    BY <1>9 DEF WithinOneTurn
  <2>2. CASE bucket[Idx(at)] = {t}
    <3>1. tick[u] # at
      BY <1>5, <2>1, <2>2
    <3>2. tick[u] > at /\ tick[u] < at + MaxTicks
      BY <1>1, <1>4, <1>5, <1>6, <2>1, <3>1, WheelAssumption
    <3>3. QED
      BY <1>2, <1>4, <1>5, <2>1, <2>2, <3>2, WheelAssumption
  <2>3. CASE bucket[Idx(at)] # {t}
    BY <1>1, <1>2, <1>5, <2>1, <2>3, WheelAssumption
  <2>4. QED
    BY <2>2, <2>3
<1>11. NeverEarly' /\ NoneMissed'
  <2>1. due[t] = at
    BY <1>7 DEF IInv
  <2>2. QED
    BY <1>1, <1>2, <1>3, <2>1, WheelAssumption DEF NeverEarly, NoneMissed
<1>12. WheelTypeOK' /\ currentTick' <= seen'
  <2>1. currentTick' \in Nat /\ currentTick' <= seen
    BY <1>1, <1>2
  <2>2. ret' \in Results
    BY <1>3 DEF Results
  <2>3. QED
    BY <1>3, <1>9, <2>1, <2>2 DEF IInv, WheelTypeOK
<1>13. QED
  BY <1>3, <1>9, <1>10, <1>11, <1>12 DEF IInv

LEMMA NoneExpiredStep ==
    ASSUME Regular, IInv, NoneExpired
    PROVE  IInv'
<1>1. seen \in Nat /\ currentTick \in Nat /\ Ticks(seen) = seen /\ currentTick <= seen
  <2>1. seen \in 0..MaxClock
    BY DEF IInv, WheelTypeOK
  <2>2. QED
    BY <2>1, TicksExact DEF IInv, WheelTypeOK
<1>2. /\ seen = currentTick \/ \A at \in currentTick..seen : bucket[Idx(at)] = {}
      /\ currentTick' = seen
      /\ ret' = [call |-> "nextExpired", value |-> NoTimer]
      /\ UNCHANGED <<clock, seen, tick, bucket, due>>
  BY <1>1 DEF NoneExpired, Return
<1>3. \A u \in Timers : InTimingWheel(u) => tick[u] \in Nat /\ tick[u] > seen /\ tick[u] < seen + MaxTicks
  <2>1. TAKE u \in Timers
  <2>2. HAVE InTimingWheel(u)
  <2>3. tick[u] \in Nat /\ tick[u] > currentTick /\ tick[u] < currentTick + MaxTicks
    BY <1>1, <2>2, WheelAssumption DEF IInv, WheelTypeOK, WithinOneTurn, InTimingWheel
  <2>4. u \in bucket[Idx(tick[u])]
    <3>1. Idx(tick[u]) \in 0..(MaxTicks - 1)
      BY <2>3, IdxType
    <3>2. QED
      BY <2>2, <3>1 DEF IInv, WheelTypeOK, BucketsConsistent
  <2>5. tick[u] > seen
    BY <1>1, <1>2, <2>3, <2>4
  <2>6. QED
    BY <1>1, <2>3, <2>5, WheelAssumption
<1>4. WheelTypeOK' /\ BucketsConsistent'
  BY <1>1, <1>2 DEF IInv, WheelTypeOK, Results, BucketsConsistent, InTimingWheel
<1>5. WithinOneTurn'
  BY <1>1, <1>2, <1>3, WheelAssumption DEF WithinOneTurn, InTimingWheel
<1>6. NeverEarly' /\ NoneMissed'
  BY <1>2, <1>3 DEF IInv, NeverEarly, NoneMissed, InTimingWheel
<1>7. QED
  BY <1>1, <1>2, <1>4, <1>5, <1>6 DEF IInv, InTimingWheel

LEMMA ClockStep ==
    ASSUME Regular, IInv, Capture \/ (\E step \in ClockSteps : Advance(step)) \/ UNCHANGED wheelVars
    PROVE  IInv'
<1>1. CASE Capture
  <2>1. /\ seen' = clock /\ UNCHANGED <<clock, currentTick, tick, bucket, due>>
        /\ ret' = [call |-> "none", value |-> "SUCCESS"]
    BY <1>1 DEF Capture
  <2>2. WheelTypeOK' /\ currentTick' <= seen'
    BY <2>1 DEF IInv, WheelTypeOK, Results
  <2>3. QED
    BY <2>1, <2>2 DEF IInv, WheelTypeOK, BucketsConsistent, WithinOneTurn, InTimingWheel, NeverEarly, NoneMissed
<1>2. CASE \E step \in ClockSteps : Advance(step)
  <2>1. /\ clock' \in 0..MaxClock /\ clock' >= clock
        /\ UNCHANGED <<seen, currentTick, tick, bucket, due, ret>>
    BY <1>2, WheelAssumption DEF Advance, Regular, IInv, WheelTypeOK
  <2>2. seen' <= clock'
    BY <2>1 DEF IInv, WheelTypeOK
  <2>3. QED
    BY <2>1, <2>2 DEF IInv, WheelTypeOK, BucketsConsistent, WithinOneTurn, InTimingWheel, NeverEarly, NoneMissed
<1>3. CASE UNCHANGED wheelVars
  BY <1>3 DEF wheelVars, IInv, WheelTypeOK, BucketsConsistent, WithinOneTurn, InTimingWheel, NeverEarly, NoneMissed
<1>4. QED
  BY <1>1, <1>2, <1>3

LEMMA InitIInv == WheelInit => IInv
<1>1. SUFFICES ASSUME WheelInit PROVE IInv
  OBVIOUS
<1>2. WheelTypeOK
  BY <1>1, WheelAssumption DEF WheelInit, WheelTypeOK, Results
<1>3. \A t \in Timers : ~InTimingWheel(t)
  <2>1. TAKE t \in Timers
  <2>2. tick[t] \in Int /\ tick[t] < 0
    BY <1>1 DEF WheelInit
  <2>3. QED
    BY <2>2 DEF InTimingWheel
<1>4. QED
  BY <1>1, <1>2, <1>3 DEF WheelInit, IInv, BucketsConsistent, WithinOneTurn, NeverEarly, NoneMissed

LEMMA NextIInv ==
    ASSUME Regular
    PROVE  IInv /\ [WheelNext]_wheelVars => IInv'
<1>1. SUFFICES ASSUME IInv, [WheelNext]_wheelVars PROVE IInv'
  OBVIOUS
<1>2. clock \in 0..MaxClock /\ seen \in 0..MaxClock
  BY <1>1 DEF IInv, WheelTypeOK
<1>3. CASE \E t \in Timers, delay \in Delays : Insert(t, delay)
  BY <1>1, <1>2, <1>3, InsertStep DEF Insert
<1>4. CASE \E t \in Timers, delay \in Delays : UpdateInserts(t, delay)
  BY <1>1, <1>2, <1>4, InsertStep DEF UpdateInserts
<1>5. QED
  BY <1>1, <1>3, <1>4, UpdateStep, RemoveStep, NextExpiredStep, NoneExpiredStep, ClearStep, ClockStep
     DEF WheelNext

-----------------------------------------------------------------------------
(***************************************************************************)
(* A timer is in the bucket of its tick and nowhere else.                  *)
(***************************************************************************)
THEOREM WheelConsistent ==
    ASSUME Regular
    PROVE  WheelSpec => []BucketsConsistent
<1>1. IInv => BucketsConsistent
  BY DEF IInv
<1>2. QED
  BY <1>1, InitIInv, NextIInv, PTL DEF WheelSpec

(***************************************************************************)
(* nextExpired() only returns timers that have expired, also when the      *)
(* clock jumps by more than one turn of the wheel and when update() uses   *)
(* an older time than insert().                                            *)
(***************************************************************************)
THEOREM WheelNeverEarly ==
    ASSUME Regular
    PROVE  WheelSpec => []NeverEarly
<1>1. IInv => NeverEarly
  BY DEF IInv
<1>2. QED
  BY <1>1, InitIInv, NextIInv, PTL DEF WheelSpec

(***************************************************************************)
(* nextExpired() returns NULL only when every timer that has expired was   *)
(* returned.                                                               *)
(***************************************************************************)
THEOREM WheelNoneMissed ==
    ASSUME Regular
    PROVE  WheelSpec => []NoneMissed
<1>1. IInv => NoneMissed
  BY DEF IInv
<1>2. QED
  BY <1>1, InitIInv, NextIInv, PTL DEF WheelSpec

=============================================================================

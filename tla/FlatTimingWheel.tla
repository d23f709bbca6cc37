--------------------------- MODULE FlatTimingWheel ---------------------------
(***************************************************************************)
(* The timing wheel of base/source/ESBFlatTimingWheel.cpp, driven the way  *)
(* ESBEpollMultiplexer.cpp drives it.  The loop captures the time once     *)
(* before it expires timers and once per batch of events (now in           *)
(* checkIdleSockets and run), so update and nextExpired see a time that    *)
(* may be older than the one insert sees.                                  *)
(*                                                                         *)
(* Times are whole ticks since _start: ticks() drops the rest of a tick,   *)
(* and a second is a whole number of ticks.  A bucket is a set: which of   *)
(* the timers of one tick comes first does not matter.  due is not in the  *)
(* code: it is the tick at which a timer was asked to expire, counted      *)
(* without wrapping.                                                       *)
(***************************************************************************)
EXTENDS Integers

CONSTANTS Timers,
          MaxTicks,        \* _maxTicks, the number of buckets
          TickMs,          \* _tickMilliSeconds
          TicksPerSecond,  \* 1000 / _tickMilliSeconds
          Word,            \* 2^32, the range of UInt32
          Delays,          \* the delays callers ask for, in ticks
          MaxClock,        \* bound: the time since _start
          ClockSteps,      \* how far the wall clock moves at once; negative: set back
          NoTimer          \* NULL

ASSUME WheelAssumption ==
    /\ MaxTicks \in Nat \ {0} /\ TickMs \in Nat \ {0} /\ TicksPerSecond \in Nat \ {0}
    /\ Word \in Nat \ {0}
    /\ Delays \subseteq Nat /\ MaxClock \in Nat /\ ClockSteps \subseteq Int
    /\ NoTimer \notin Timers

VARIABLES clock,        \* the wall clock since _start
          seen,         \* the time the loop captured last
          currentTick,  \* _currentTick
          tick,         \* Timer::_tick, -1 when not in the wheel
          bucket,       \* _timers
          due,          \* the tick at which the timer should expire
          ret           \* the last call and what it returned

wheelVars == <<clock, seen, currentTick, tick, bucket, due, ret>>

(***************************************************************************)
(* ticks(): the number of milliseconds in whole seconds wraps in 32 bits.  *)
(***************************************************************************)
Ticks(time) ==
    (((time \div TicksPerSecond) * TicksPerSecond * TickMs) % Word) \div TickMs
        + (time % TicksPerSecond)

(***************************************************************************)
(* idx().                                                                  *)
(***************************************************************************)
Idx(t) == t % MaxTicks

InTimingWheel(t) == tick[t] >= 0

WheelInit ==
    /\ clock = 0 /\ seen = 0 /\ currentTick = 0
    /\ tick = [t \in Timers |-> -1]
    /\ bucket = [i \in 0..(MaxTicks - 1) |-> {}]
    /\ due = [t \in Timers |-> 0]
    /\ ret = [call |-> "none", value |-> "SUCCESS"]

(***************************************************************************)
(* Time passes, or is set.                                                 *)
(***************************************************************************)
Advance(step) ==
    /\ clock + step \in 0..MaxClock
    /\ clock' = clock + step
    /\ UNCHANGED <<seen, currentTick, tick, bucket, due, ret>>

(***************************************************************************)
(* The loop reads the clock.                                               *)
(***************************************************************************)
Capture ==
    /\ seen' = clock
    /\ ret' = [call |-> "none", value |-> "SUCCESS"]
    /\ UNCHANGED <<clock, currentTick, tick, bucket, due>>

Return(call, value) == ret' = [call |-> call, value |-> value]

(***************************************************************************)
(* Mutant: one tick more than the wheel has room for.                      *)
(***************************************************************************)
Verdict_OffByOne(at) ==
    IF at <= currentTick THEN "UNDERFLOW"
    ELSE IF at > (currentTick + MaxTicks) % Word THEN "OVERFLOW"
    ELSE "SUCCESS"

(***************************************************************************)
(* May a timer be scheduled at this tick?                                  *)
(***************************************************************************)
Verdict(at) ==
    IF at <= currentTick THEN "UNDERFLOW"
    ELSE IF at >= (currentTick + MaxTicks) % Word THEN "OVERFLOW"
    ELSE "SUCCESS"

(***************************************************************************)
(* Put timer t, which is in none of the buckets, at tick at.               *)
(***************************************************************************)
Place(t, at, deadline, buckets) ==
    /\ tick' = [tick EXCEPT ![t] = at]
    /\ bucket' = [buckets EXCEPT ![Idx(at)] = @ \cup {t}]
    /\ due' = [due EXCEPT ![t] = deadline]

Without(t) == [bucket EXCEPT ![Idx(tick[t])] = @ \ {t}]

(***************************************************************************)
(* insert on a timer that is not in the wheel, at time now.                *)
(***************************************************************************)
InsertTimer(call, t, delay, now) ==
    LET at == (Ticks(now) + delay) % Word IN
    /\ ~InTimingWheel(t)
    /\ Return(call, Verdict(at))
    /\ IF Verdict(at) = "SUCCESS"
       THEN Place(t, at, now + delay, bucket)
       ELSE UNCHANGED <<tick, bucket, due>>
    /\ UNCHANGED <<clock, seen, currentTick>>

Insert(t, delay) == InsertTimer("insert", t, delay, clock)

(***************************************************************************)
(* update on a timer that is not in the wheel inserts it.                  *)
(***************************************************************************)
UpdateInserts(t, delay) == InsertTimer("update", t, delay, seen)

(***************************************************************************)
(* update with the captured time.  A timer whose new deadline has passed   *)
(* leaves the wheel; one whose new deadline is too far away stays where it *)
(* is.                                                                     *)
(***************************************************************************)
Update(t, delay) ==
    LET at == (Ticks(seen) + delay) % Word IN
    /\ InTimingWheel(t)
    /\ Return("update", Verdict(at))
    /\ CASE Verdict(at) = "SUCCESS"   -> Place(t, at, seen + delay, Without(t))
         [] Verdict(at) = "UNDERFLOW" -> /\ tick' = [tick EXCEPT ![t] = -1]
                                         /\ bucket' = Without(t)
                                         /\ UNCHANGED due
         [] OTHER                     -> UNCHANGED <<tick, bucket, due>>
    /\ UNCHANGED <<clock, seen, currentTick>>

RemoveTimer(t) ==
    /\ InTimingWheel(t)
    /\ Return("remove", "SUCCESS")
    /\ tick' = [tick EXCEPT ![t] = -1]
    /\ bucket' = Without(t)
    /\ UNCHANGED <<clock, seen, currentTick, due>>

(***************************************************************************)
(* nextExpired finds timer t in the first bucket that is not empty.  The   *)
(* current tick only moves there when t was the last timer in it.          *)
(***************************************************************************)
NextExpired(t) ==
    /\ Ticks(seen) # currentTick
    /\ \E at \in currentTick..Ticks(seen) :
          /\ t \in bucket[Idx(at)]
          /\ \A earlier \in currentTick..(at - 1) : bucket[Idx(earlier)] = {}
          /\ bucket' = [bucket EXCEPT ![Idx(at)] = @ \ {t}]
          /\ currentTick' = IF bucket[Idx(at)] = {t} THEN at ELSE currentTick
    /\ tick' = [tick EXCEPT ![t] = -1]
    /\ Return("nextExpired", t)
    /\ UNCHANGED <<clock, seen, due>>

(***************************************************************************)
(* Mutant: the scan stops one tick too early.                              *)
(***************************************************************************)
NoneExpired_StopsEarly ==
    /\ \/ Ticks(seen) = currentTick
       \/ \A at \in currentTick..(Ticks(seen) - 1) : bucket[Idx(at)] = {}
    /\ currentTick' = Ticks(seen)
    /\ Return("nextExpired", NoTimer)
    /\ UNCHANGED <<clock, seen, tick, bucket, due>>

(***************************************************************************)
(* nextExpired finds no timer.                                             *)
(***************************************************************************)
NoneExpired ==
    /\ \/ Ticks(seen) = currentTick
       \/ \A at \in currentTick..Ticks(seen) : bucket[Idx(at)] = {}
    /\ currentTick' = Ticks(seen)
    /\ Return("nextExpired", NoTimer)
    /\ UNCHANGED <<clock, seen, tick, bucket, due>>

Clear ==
    /\ tick' = [t \in Timers |-> IF \E i \in DOMAIN bucket : t \in bucket[i] THEN -1 ELSE tick[t]]
    /\ bucket' = [i \in DOMAIN bucket |-> {}]
    /\ Return("clear", "SUCCESS")
    /\ UNCHANGED <<clock, seen, currentTick, due>>

WheelNext ==
    \/ \E step \in ClockSteps : Advance(step)
    \/ Capture
    \/ \E t \in Timers, delay \in Delays : Insert(t, delay)
    \/ \E t \in Timers, delay \in Delays : UpdateInserts(t, delay)
    \/ \E t \in Timers, delay \in Delays : Update(t, delay)
    \/ \E t \in Timers : RemoveTimer(t)
    \/ \E t \in Timers : NextExpired(t)
    \/ NoneExpired
    \/ Clear

WheelSpec == WheelInit /\ [][WheelNext]_wheelVars

-----------------------------------------------------------------------------
Results == [call : {"none", "insert", "update", "remove", "clear"},
            value : {"SUCCESS", "UNDERFLOW", "OVERFLOW"}]
              \cup [call : {"nextExpired"}, value : Timers \cup {NoTimer}]

WheelTypeOK ==
    /\ clock \in 0..MaxClock /\ seen \in 0..MaxClock /\ currentTick \in Nat
    /\ tick \in [Timers -> Int]
    /\ bucket \in [0..(MaxTicks - 1) -> SUBSET Timers]
    /\ due \in [Timers -> Nat]
    /\ ret \in Results

(***************************************************************************)
(* A timer is in the bucket of its tick and in no other: remove() and      *)
(* update() look for it there, and EmbeddedList::remove on another list    *)
(* corrupts both.                                                          *)
(***************************************************************************)
BucketsConsistent ==
    \A t \in Timers, i \in DOMAIN bucket : t \in bucket[i] <=> InTimingWheel(t) /\ Idx(tick[t]) = i

(***************************************************************************)
(* nextExpired: "A timer which has expired", at the time it was called     *)
(* with.  A bucket is shared by all ticks that are equal modulo the size   *)
(* of the wheel, so this needs every timer to be less than one turn of the *)
(* wheel ahead of the current tick.                                        *)
(***************************************************************************)
NeverEarly ==
    ret.call = "nextExpired" /\ ret.value # NoTimer => due[ret.value] <= seen

(***************************************************************************)
(* nextExpired: "NULL if there are no more expired timers".                *)
(***************************************************************************)
NoneMissed ==
    ret.call = "nextExpired" /\ ret.value = NoTimer
        => \A t \in Timers : InTimingWheel(t) => due[t] > seen

(***************************************************************************)
(* Every timer in the wheel is less than a turn ahead of the current tick, *)
(* so a bucket never mixes two ticks.                                      *)
(***************************************************************************)
WithinOneTurn ==
    \A t \in Timers : InTimingWheel(t) => tick[t] \in (currentTick + 1)..(currentTick + MaxTicks - 1)
=============================================================================

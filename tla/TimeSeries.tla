------------------------------ MODULE TimeSeries ------------------------------
(***************************************************************************)
(* The counters of the servers: a TimeSeries (ESBTimeSeries.cpp) keeps the *)
(* last windows, each a SimplePerformanceCounter with an AveragingCounter  *)
(* of latencies (ESBSimplePerformanceCounter.cpp, ESBAveragingCounter.cpp).*)
(*                                                                         *)
(* The threads record under the lock of the series; their times of stop    *)
(* arrive in any order.  Time is in ticks, PerSecond of them a second,    *)
(* so that some stops fall inside one.  Mean and variance, which are       *)
(* floating point, are left out.                                           *)
(***************************************************************************)
EXTENDS Integers, Sequences, FiniteSets, SequencesExt

CONSTANTS MaxWindows,     \* _maxWindows
          WindowSizeSec,  \* _windowSizeSec
          PerSecond,      \* ticks of a second
          LastTick,       \* bound: latest time
          Latencies,      \* how long what is recorded took, in ticks
          MaxRecords      \* bound: calls of record()

ASSUME SeriesAssumption ==
    /\ {MaxWindows, WindowSizeSec, PerSecond, LastTick, MaxRecords} \subseteq Nat \ {0}
    /\ Latencies \subseteq Nat

VARIABLE series   \* _list, and what was recorded

SeriesInit == series = [windows |-> <<>>, samples |-> <<>>, lost |-> 0]

newCounter(start, stop) == [start |-> start, stop |-> stop, n |-> 0, min |-> 0, max |-> 0]

\* AveragingCounter::add
add(c, latency) ==
    [c EXCEPT !.n = @ + 1,
              !.min = IF c.n = 0 \/ latency < @ THEN latency ELSE @,
              !.max = IF c.n = 0 \/ @ < latency THEN latency ELSE @]

\* The window of a time, from whole seconds.
windowOf(stop) ==
    LET seconds == ((stop \div PerSecond) \div WindowSizeSec) * WindowSizeSec
    IN  [start |-> seconds * PerSecond, stop |-> (seconds + WindowSizeSec) * PerSecond]

\* The oldest counter's memory is used again without constructing a new one.
openWindowReusing(windows, stop) ==
    LET w == windowOf(stop) IN
    IF Len(windows) >= MaxWindows
    THEN Append(Tail(windows), [Head(windows) EXCEPT !.start = w.start, !.stop = w.stop])
    ELSE Append(windows, newCounter(w.start, w.stop))

openWindow(windows, stop) ==
    LET w == windowOf(stop)
        kept == IF Len(windows) >= MaxWindows THEN Tail(windows) ELSE windows
    IN  Append(kept, newCounter(w.start, w.stop))

\* A stop up to the end of the newest window counts for that window.
isNewWindow(windows, stop) == windows = <<>> \/ Last(windows).stop < stop

record(stop, latency, memory) ==
    LET new == isNewWindow(series.windows, stop)
        windows == IF new THEN openWindow(series.windows, stop) ELSE series.windows
    IN  /\ Len(series.samples) + series.lost < MaxRecords
        /\ IF new /\ Len(series.windows) < MaxWindows /\ ~memory
           THEN series' = [series EXCEPT !.lost = @ + 1]
           ELSE series' = [series EXCEPT
                             !.windows = [windows EXCEPT ![Len(windows)] = add(@, latency)],
                             !.samples = Append(@, latency)]

\* The loop of queries(): what it has counted before the first window and
\* after each.
counted(windows) ==
    CHOOSE t \in [0 .. Len(windows) -> 0 .. MaxRecords] :
        t[0] = 0 /\ \A i \in 1 .. Len(windows) : t[i] = t[i - 1] + windows[i].n

queries == counted(series.windows)[Len(series.windows)]

SeriesNext ==
    \E stop \in 0 .. LastTick, latency \in Latencies, memory \in BOOLEAN : record(stop, latency, memory)

SeriesSpec == SeriesInit /\ [][SeriesNext]_series

-----------------------------------------------------------------------------
\* The windows are at most MaxWindows, one after the other without overlap,
\* whatever the order in which the threads' times arrive.
WindowsInOrder ==
    /\ Len(series.windows) =< MaxWindows
    /\ \A i \in 1 .. Len(series.windows) - 1 : series.windows[i].stop =< series.windows[i + 1].start

\* queries() counts the most recent recordings, all of them until the first
\* window is dropped, and each window's extremes are those of its own: a
\* window that takes over the memory of the oldest starts from nothing.
CountsAreExact ==
    LET n == queries
        t == counted(series.windows)
        before == Len(series.samples) - n
        latencies(i) == {series.samples[before + j] : j \in t[i - 1] + 1 .. t[i]}
    IN  /\ n =< Len(series.samples)
        /\ Len(series.windows) < MaxWindows => n = Len(series.samples)
        /\ \A i \in DOMAIN series.windows :
             LET w == series.windows[i] IN
             /\ w.n > 0 /\ {w.min, w.max} \subseteq latencies(i)
             /\ \A l \in latencies(i) : w.min =< l /\ l =< w.max

\* The windows are in order and each has counted what was recorded in it and
\* nothing of the window whose memory it took over.  (TimeSeries::record)
SeriesIsSound == WindowsInOrder /\ CountsAreExact
=============================================================================

---------------------------- MODULE MCFoundations ----------------------------
(***************************************************************************)
(* The components that share no state, side by side: a behaviour is one of *)
(* the component chosen at the start, the others stay as they are.         *)
(***************************************************************************)
EXTENDS RedBlackMap, Allocators, WildcardIndex, ConnectionPool, HttpServers, HttpLoadgen, LinkedLists,
        Locks, AstTree, CompactStringMap, TimeSeries, FlatTimingWheel

CONSTANTS t1, t2, t3,
          Subjects   \* the components of this run

VARIABLE subject    \* the component whose behaviour this is

others == <<mapVars, allocatorVars, index, poolVars, serverVars, loadVars, listVars, lockVars,
            ast, compact, series, wheelVars>>

MCValues == [k \in MapKeys |-> IF k = 3 THEN {1, 2} ELSE {1}]

MCDomains == {"bar.com", "bar.org"}
MCBucket == [d \in MCDomains |-> 0]
foo == <<"f", "o", "o">>
MCPatterns == {<<"bar.com", foo>>, <<"bar.com", <<"f", "*">>>>, <<"bar.com", <<"*", "o">>>>,
               <<"bar.org", <<"*">>>>}
MCHosts == {foo, <<"b", "o", "o">>, <<"f", "a", "r">>, <<"b", "a", "r">>, <<"f">>, <<"b">>}
MCPeerVerify == [c \in {"c1", "c2"} |-> IF c = "c1" THEN "VERIFY_NONE" ELSE "VERIFY_ALWAYS"]

MCCertNames == [c \in {"c1", "c2"} |->
                  IF c = "c1" THEN <<<<"bar.com", foo>>, <<"bar.com", <<"f", "*">>>>>>
                  ELSE <<<<"bar.org", <<"*">>>>, <<"bar.com", <<"*", "o">>>>>>]

MCFqdns == {<<"a", "b">>, <<"a", "c", "b">>}
MCCerts == {[sans |-> {<<"*", "b">>}, cn |-> <<"a", "b">>], [sans |-> {}, cn |-> <<"a", "b">>]}
MCVerifies == [x \in {"x", "y"} |-> x = "x"]
MCKeyOrder == <<"a", "b">>
MCKeySizes == [k \in {"k", "l", "m", "n"} |-> IF k \in {"k", "l"} THEN 1 ELSE 3]
MCSymmetry == Permutations(Slots) \cup Permutations(Timers)

\* A clock that only moves forward, by one tick or by more than a turn.
ForwardSteps == {1, MaxTicks + 1}

Init ==
    /\ subject \in Subjects
    /\ MapInit /\ AllocatorInit /\ IndexInit /\ PoolInit /\ ServerInit /\ LoadInit
    /\ ListInit /\ LockInit /\ TreeInit /\ CompactInit /\ SeriesInit /\ WheelInit
    /\ subject # "loadgen" => load.disruption = "HAPPY_PATH"

Next ==
    /\ UNCHANGED subject
    /\ \/ /\ subject = "map" /\ MapNext
          /\ UNCHANGED <<buddy, arena, index, poolVars, serverVars, loadVars, listVars,
                         lockVars, ast, compact, series, wheelVars>>
       \/ /\ subject = "buddy" /\ BuddyNext
          /\ UNCHANGED <<mapVars, arena, index, poolVars, serverVars, loadVars, listVars,
                         lockVars, ast, compact, series, wheelVars>>
       \/ /\ subject = "arena" /\ ArenaNext
          /\ UNCHANGED <<mapVars, buddy, index, poolVars, serverVars, loadVars, listVars,
                         lockVars, ast, compact, series, wheelVars>>
       \/ /\ subject = "index" /\ IndexNext
          /\ UNCHANGED <<mapVars, buddy, arena, poolVars, serverVars, loadVars, listVars,
                         lockVars, ast, compact, series, wheelVars>>
       \/ /\ subject = "pool" /\ PoolNext
          /\ UNCHANGED <<mapVars, buddy, arena, index, serverVars, loadVars, listVars,
                         lockVars, ast, compact, series, wheelVars>>
       \/ /\ subject = "server" /\ ServerNext
          /\ UNCHANGED <<mapVars, buddy, arena, index, poolVars, loadVars, listVars, lockVars,
                         ast, compact, series, wheelVars>>
       \/ /\ subject = "loadgen" /\ LoadNext
          /\ UNCHANGED <<mapVars, buddy, arena, index, poolVars, serverVars, listVars,
                         lockVars, ast, compact, series, wheelVars>>
       \/ /\ subject = "list" /\ ListNext
          /\ UNCHANGED <<mapVars, buddy, arena, index, poolVars, serverVars, loadVars,
                         lockVars, ast, compact, series, wheelVars>>
       \/ /\ subject = "lock" /\ LockNext
          /\ UNCHANGED <<mapVars, buddy, arena, index, poolVars, serverVars, loadVars,
                         listVars, ast, compact, series, wheelVars>>
       \/ /\ subject = "ast" /\ TreeNext
          /\ UNCHANGED <<mapVars, buddy, arena, index, poolVars, serverVars, loadVars,
                         listVars, lockVars, compact, series, wheelVars>>
       \/ /\ subject = "compact" /\ CompactNext
          /\ UNCHANGED <<mapVars, buddy, arena, index, poolVars, serverVars, loadVars,
                         listVars, lockVars, ast, series, wheelVars>>
       \/ /\ subject = "series" /\ SeriesNext
          /\ UNCHANGED <<mapVars, buddy, arena, index, poolVars, serverVars, loadVars,
                         listVars, lockVars, ast, compact, wheelVars>>
       \/ /\ subject = "wheel" /\ WheelNext
          /\ UNCHANGED <<mapVars, buddy, arena, index, poolVars, serverVars, loadVars,
                         listVars, lockVars, ast, compact, series>>

Spec == Init /\ [][Next]_<<subject, others>>

=============================================================================

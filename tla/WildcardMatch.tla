---------------------------- MODULE WildcardMatch ----------------------------
(***************************************************************************)
(* Matching a host name against a pattern with at most one "*"             *)
(* (ESBString.cpp).  -1 means no match, 0 an exact one, and otherwise      *)
(* smaller is more specific.  Names are sequences of letters.              *)
(***************************************************************************)
EXTENDS Integers, Sequences, FiniteSetsExt, SequencesExt

Star == "*"

\* The loop from the front leaves at the first position that ends it.
ForwardEnds(pattern, str, i) ==
    i > Len(pattern) \/ i > Len(str) \/ pattern[i] = Star \/ pattern[i] # str[i]

ForwardStop(pattern, str) == Min({i \in 1..(Len(str) + 1) : ForwardEnds(pattern, str, i)})

\* <<characters matched, whether a "*" ended the match>>; <<-1, FALSE>> if none.
ForwardMatch(pattern, str) ==
    LET i == ForwardStop(pattern, str) IN
    IF Len(pattern) = 0 \/ Len(str) = 0 THEN <<IF Len(pattern) = Len(str) THEN 0 ELSE -1, FALSE>>
    ELSE IF i <= Len(pattern) /\ pattern[i] = Star THEN <<i - 1, TRUE>>
    ELSE <<IF i > Len(str) /\ i > Len(pattern) THEN i - 1 ELSE -1, FALSE>>

\* The loop from the end, after n characters matched.  The first character of
\* either ends it, without being compared when it is the string's.
ReverseEnds(pattern, str, n) ==
    LET p == Len(pattern) - n
        s == Len(str) - n
    IN  p = 1 \/ s = 1 \/ pattern[p] = Star \/ pattern[p] # str[s]

ReverseStop(pattern, str) ==
    Min({n \in 0..(Len(str) - 1) : n < Len(pattern) /\ ReverseEnds(pattern, str, n)})

ReverseMatch(pattern, str) ==
    LET n == ReverseStop(pattern, str)
        p == Len(pattern) - n
    IN IF Len(pattern) = 0 \/ Len(str) = 0 THEN IF Len(pattern) = Len(str) THEN 0 ELSE -1
       ELSE IF pattern[p] = Star THEN n
       ELSE IF n = Len(str) - 1 /\ (p = 1 \/ pattern[p - 1] = Star) THEN n + 1 ELSE -1

StringWildcardMatch(pattern, str) ==
    LET forward == ForwardMatch(pattern, str)
        reverse == ReverseMatch(pattern, str)
    IN IF forward[1] < 0 THEN -1
       ELSE IF ~forward[2] THEN Len(str) - forward[1]
       ELSE IF reverse < 0 THEN -1 ELSE Len(str) - forward[1] - reverse + 1

-----------------------------------------------------------------------------
\* What a pattern means: its "*" stands for any characters, or for none, as the
\* comment in StringWildcardMatch has it ("'bar*' ~= 'bar'").
Matches(pattern, host) ==
    \/ pattern = host
    \/ \E i \in DOMAIN pattern :
         /\ pattern[i] = Star
         /\ Len(host) >= Len(pattern) - 1 /\ host # <<>>
         /\ \A j \in 1..(i - 1) : pattern[j] = host[j]
         /\ \A j \in (i + 1)..Len(pattern) : pattern[j] = host[Len(host) - Len(pattern) + j]

\* What the loops take for a match.  What stands before the "*" and what stands
\* after it are compared apart from each other, so that they may share one
\* character of the host ("ba*ar" takes "bar", as an exact match), and the loop
\* from the end does not compare the host's first character ("*bar" takes "car").
Accepts(pattern, host) ==
    \/ pattern = host
    \/ \E i \in DOMAIN pattern :
         /\ pattern[i] = Star
         /\ Len(host) >= Len(pattern) - 2 /\ host # <<>>
         /\ Len(host) >= i - 1 /\ Len(host) >= Len(pattern) - i
         /\ \A j \in 1..(i - 1) : pattern[j] = host[j]
         /\ \A j \in (i + 1)..Len(pattern) :
              LET h == Len(host) - Len(pattern) + j IN h = 1 \/ pattern[j] = host[h]

AtMostOneStar(pattern) == \A i, j \in DOMAIN pattern : pattern[i] = Star /\ pattern[j] = Star => i = j

=============================================================================

------------------------------ MODULE HttpUtil ------------------------------
(***************************************************************************)
(* Octets and the scanning helpers of http-common/source/ESHttpUtil.cpp.   *)
(*                                                                         *)
(* An octet is a string.  The alphabet has one or two members for every    *)
(* class the parsers and formatters tell apart; a literal that they only   *)
(* compare as a whole (HTTP/1.1, a well known field name or value) is one  *)
(* octet.  A buffer's readable octets are a sequence: reading an octet     *)
(* takes it off the front, moving the read position back leaves it there.  *)
(***************************************************************************)
EXTENDS Integers, Sequences, FiniteSets

Spaces  == {"SP", "HT"}                             \* IsSpace
LWS     == Spaces \cup {"CR", "LF"}                 \* IsLWS
Digits  == <<"0", "1", "2", "3", "4", "5", "6", "7", "8", "9", "a", "b", "c", "d", "e", "f">>
Digit   == {Digits[i] : i \in 1 .. 10}
Hex     == {Digits[i] : i \in 1 .. 16}
Names   == {"Content-Length", "Transfer-Encoding", "Connection", "Expect", "Content-Type", "Host"}
Values  == {"chunked", "identity", "close", "100-continue", "multipart/byteranges"}
Alpha   == (Hex \ Digit) \cup {"h", "t", "s", "GET", "POST"}
AlphaNum == Alpha \cup Digit
Mark    == {"-", ".", "*"}
Versions == {"HTTP/1.1", "HTTP/1.0"}
Reserved == {";", "/", "?", ":", "=", "+"}
Pchar   == AlphaNum \cup Mark \cup {"%", ":", "="}
Uric    == Reserved \cup AlphaNum \cup Mark \cup {"%"}
Token   == AlphaNum \cup Mark \cup Names \cup Values \cup {"%", "#"}
Text    == Token \cup Reserved \cup Versions \cup Spaces
Octets  == Text \cup LWS

Nothing == <<"NULL">>    \* a string that has not been set

----------------------------------------------------------------------------
\* the octets of s before the first one that is not in S
Leading(s, S) ==
    LET other == {i \in 1 .. Len(s) : s[i] \notin S}
    IN  IF other = {} THEN Len(s) ELSE (CHOOSE i \in other : \A j \in other : i <= j) - 1

Drop(s, n) == SubSeq(s, n + 1, Len(s))

SkipSpaces(s) == Drop(s, Leading(s, Spaces))

\* everything up to the first LF; what a CR before it adds is not counted
SkipLine(s) ==
    LET n == Leading(s, Octets \ {"LF"})
    IN  IF n = Len(s) THEN [rc |-> "AGAIN", rest |-> s, skipped |-> 0]
        ELSE [rc |-> "SUCCESS", rest |-> Drop(s, n + 1),
              skipped |-> IF n > 0 /\ s[n] = "CR" THEN n - 1 ELSE n]

(***************************************************************************)
(* White space and line continuations: SUCCESS at the end of a line, which *)
(* needs a look at the first octet of the next one, INPROGRESS when the    *)
(* text goes on, and AGAIN, with nothing skipped, when that is not known.  *)
(***************************************************************************)
SkipLWS(s) ==
    LET ends == {i \in 1 .. Len(s) :
                    \/ s[i] \notin LWS
                    \/ i > 1 /\ s[i - 1] = "LF" /\ s[i] \notin Spaces}
    IN  IF ends = {} THEN [rc |-> "AGAIN", rest |-> s]
        ELSE LET i == CHOOSE i \in ends : \A j \in ends : i <= j
             IN  [rc |-> IF i > 1 /\ s[i - 1] = "LF" THEN "SUCCESS" ELSE "INPROGRESS",
                  rest |-> Drop(s, i - 1)]

ValueOf(octet) == (CHOOSE i \in 1 .. 16 : Digits[i] = octet) - 1

\* the integer that the digits of s make, after the digits that made n
Accumulate(n, s, radix) ==
    LET upTo[i \in 0 .. Len(s)] == IF i = 0 THEN n ELSE upTo[i - 1] * radix + ValueOf(s[i])
    IN  upTo[Len(s)]

\* -1: ES_HTTP_BAD_INTEGER
ParseInteger(s) ==
    IF \A i \in 1 .. Len(s) : s[i] \in Digit THEN Accumulate(0, s, 10) ELSE -1

\* the number of digits first, as the code does, then each of them
FormatInteger(n, radix) ==
    LET power[i \in 0 .. 16] == IF i = 0 THEN 1 ELSE power[i - 1] * radix
        length == IF n = 0 THEN 1
                  ELSE CHOOSE l \in 1 .. 8 : power[l - 1] <= n /\ n < power[l]
    IN  [i \in 1 .. length |-> Digits[((n \div power[length - i]) % radix) + 1]]

\* the octets of the alphabet that a URI cannot hold have the codes 0x20 and 0x23
Code(octet) == IF octet = "SP" THEN 32 ELSE 35

EncodeEscape(octet) == <<"%">> \o FormatInteger(Code(octet), 16)

\* Nothing: not an escape
DecodeEscape(s) ==
    IF Len(s) < 3 \/ s[1] # "%" \/ s[2] \notin Hex \/ s[3] \notin Hex THEN Nothing
    ELSE LET code == 16 * ValueOf(s[2]) + ValueOf(s[3])
         IN  IF \E o \in {"SP", "#"} : Code(o) = code
             THEN <<CHOOSE o \in {"SP", "#"} : Code(o) = code>> ELSE Nothing

Escaped(s, S) ==
    LET upTo[i \in 0 .. Len(s)] ==
            IF i = 0 THEN <<>>
            ELSE upTo[i - 1] \o (IF s[i] \in S THEN <<s[i]>> ELSE EncodeEscape(s[i]))
    IN  upTo[Len(s)]

\* Buffer::duplicate with trim
Trimmed(s) ==
    LET kept == {i \in 1 .. Len(s) : s[i] \notin LWS}
    IN  IF kept = {} THEN <<>> ELSE SubSeq(s, 1, CHOOSE i \in kept : \A j \in kept : i >= j)
=============================================================================

----------------------------- MODULE TelnetParser -----------------------------
(***************************************************************************)
(* telnetd's option parser: parse() takes the bytes of one read, removes   *)
(* the telnet commands and answers them.  Its state outlives the read, so  *)
(* a command may be cut anywhere.  Bytes are named, not numbered; a 16-bit *)
(* number in a window size is one byte here.                               *)
(***************************************************************************)
EXTENDS Integers, Sequences

Verb == {"WILL", "WONT", "DO", "DONT"}

\* Options telnetd names; any other byte is one it does not know.
Quiet == {"ECHO", "SGA", "NAWS", "LINEMODE"}
Asked == {"TTYPE", "TSPEED"}

\* sizeof(optdata), and the length of a window size.
OptdataSize == 3
NawsLength == 2

\* struct termstate, with what parse() has written and sent.
NewTermstate ==
    [state |-> "NORMAL", code |-> "NUL", optdata |-> <<>>, size |-> <<80, 30>>,
     out |-> <<>>, sent |-> <<>>]

\* parseopt: what is answered to an option.
Reply(code, option) ==
    IF option \in Quiet THEN <<>>
    ELSE IF option \in Asked THEN <<<<"DO", option>>>>
    ELSE IF code \in {"WILL", "WONT"} THEN <<<<"DONT", option>>>>
    ELSE <<<<"WONT", option>>>>

\* parseoptdat: a zero leaves the old number.
Resized(size, data) ==
    [i \in 1 .. 2 |-> IF data[i] = "NUL" THEN size[i] ELSE data[i]]

Subnegotiated(ts) ==
    IF ts.code = "NAWS" /\ Len(ts.optdata) = NawsLength
    THEN [ts EXCEPT !.size = Resized(@, ts.optdata)] ELSE ts

InNormal(ts, c) ==
    IF c = "IAC" THEN [ts EXCEPT !.state = "IAC"] ELSE [ts EXCEPT !.out = Append(@, c)]

InIac(ts, c) ==
    IF c = "IAC" THEN [ts EXCEPT !.out = Append(@, c), !.state = "NORMAL"]
    ELSE IF c \in Verb THEN [ts EXCEPT !.code = c, !.state = "OPT"]
    ELSE [ts EXCEPT !.state = IF c = "SB" THEN "SB" ELSE "NORMAL"]

InOpt(ts, c) == [ts EXCEPT !.sent = @ \o Reply(ts.code, c), !.state = "NORMAL"]

InSb(ts, c) == [ts EXCEPT !.code = c, !.optdata = <<>>, !.state = "OPTDAT"]

InOptdat(ts, c) ==
    IF c = "IAC" THEN [ts EXCEPT !.state = "SE"]
    ELSE IF Len(ts.optdata) < OptdataSize THEN [ts EXCEPT !.optdata = Append(@, c)]
    ELSE ts

\* Whatever follows the IAC ends the data; if it is SE they count.
InSe(ts, c) == [(IF c = "SE" THEN Subnegotiated(ts) ELSE ts) EXCEPT !.state = "NORMAL"]

ParseByte(ts, c) ==
    CASE ts.state = "NORMAL" -> InNormal(ts, c)
      [] ts.state = "IAC" -> InIac(ts, c)
      [] ts.state = "OPT" -> InOpt(ts, c)
      [] ts.state = "SB" -> InSb(ts, c)
      [] ts.state = "OPTDAT" -> InOptdat(ts, c)
      [] ts.state = "SE" -> InSe(ts, c)

ParseBytes(ts, bytes) ==
    LET after[i \in 0 .. Len(bytes)] == IF i = 0 THEN ts ELSE ParseByte(after[i - 1], bytes[i])
    IN  after[Len(bytes)]

\* A parser that begins every read anew.
parse_Forgetful(ts, bytes) == ParseBytes([ts EXCEPT !.out = <<>>, !.state = "NORMAL"], bytes)

parse(ts, bytes) == ParseBytes([ts EXCEPT !.out = <<>>], bytes)

-----------------------------------------------------------------------------
\* What a telnet stream means, by RFC 854 and 855 and not by the parser.

\* Where the subnegotiation data that begin at i end: at SE, or at whatever
\* else follows a single IAC; a doubled IAC is data.  0 if they are cut off.
DataEnd(s, i) ==
    LET at[j \in Nat] ==
            IF j >= Len(s) THEN 0
            ELSE IF s[j] # "IAC" THEN at[j + 1]
            ELSE IF s[j + 1] = "IAC" THEN at[j + 2]
            ELSE j + 1
    IN  at[i]

\* The bytes of the item at i: a data byte or a command.  0 if it is cut off.
ItemLength(s, i) ==
    IF s[i] # "IAC" THEN 1
    ELSE IF i = Len(s) THEN 0
    ELSE IF s[i + 1] \in Verb THEN (IF i + 2 > Len(s) THEN 0 ELSE 3)
    ELSE IF s[i + 1] # "SB" THEN 2
    ELSE IF DataEnd(s, i + 3) = 0 THEN 0 ELSE DataEnd(s, i + 3) - i + 1

\* Its byte meant for the shell, and the answer to its option.
DataAt(s, i) == IF s[i] # "IAC" \/ s[i + 1] = "IAC" THEN <<s[i]>> ELSE <<>>

AnswerAt(s, i) == IF s[i] = "IAC" /\ s[i + 1] \in Verb THEN Reply(s[i + 1], s[i + 2]) ELSE <<>>

\* It is a subnegotiation whose data hold a doubled IAC: their first IAC is, or
\* they would end there.
DoubledAt(s, i) ==
    /\ i < Len(s) /\ s[i] = "IAC" /\ s[i + 1] = "SB"
    /\ \E j \in i + 3 .. Len(s) - 1 :
          s[j] = "IAC" /\ s[j + 1] = "IAC" /\ \A k \in i + 3 .. j - 1 : s[k] # "IAC"

\* The item at i, with what those after it mean.
Joined(s, i, rest) ==
    [data |-> DataAt(s, i) \o rest.data, answers |-> AnswerAt(s, i) \o rest.answers,
     doubled |-> DoubledAt(s, i) \/ rest.doubled]

\* What a stream means, item by item; one that is cut off means nothing yet.
MeaningOf(s) ==
    LET from[i \in Nat \ {0}] ==
            IF i > Len(s) \/ ItemLength(s, i) = 0
            THEN [data |-> <<>>, answers |-> <<>>, doubled |-> DoubledAt(s, i)]
            ELSE Joined(s, i, from[i + ItemLength(s, i)])
    IN  from[1]

=============================================================================

------------------------------ MODULE NtpClock ------------------------------
(***************************************************************************)
(* The arithmetic of ntpclient: seconds since 1900 in 32 bits become       *)
(* seconds since the 1980 epoch of UniFLEX, 28 years back, where the       *)
(* calendar is the same.  The unit is 128 seconds: a day has 675, the      *)
(* constants of the code are multiples, and 32 bits are 2^25 of them.      *)
(***************************************************************************)
EXTENDS Integers

CONSTANT Years      \* when it is asked for the time

AskedYear == 2008 .. 2075

ASSUME YearsAssumption == Years \subseteq AskedYear

VARIABLES
    now,        \* the date: year, month, day
    clock       \* "asked", or the date that is set
clockvars == <<now, clock>>

Word == 33554432        \* 2^32 seconds
Day == 675

NTP_TIMESTAMP_DELTA == 19723500     \* 2524608000 seconds

LeapYear(y) == y % 4 = 0 /\ (y % 100 # 0 \/ y % 400 = 0)
MonthDays(y) == <<31, IF LeapYear(y) THEN 29 ELSE 28, 31, 30, 31, 30, 31, 31, 30, 31, 30, 31>>

\* Days from the first of January of `from' to a date.
LeapsBefore(y) == (y - 1) \div 4 - (y - 1) \div 100 + (y - 1) \div 400
MonthStart(y, m) ==
    LET sum[k \in 0 .. 12] == IF k = 0 THEN 0 ELSE sum[k - 1] + MonthDays(y)[k] IN sum[m - 1]
DaysSince(from, date) ==
    (date[1] - from) * 365 + LeapsBefore(date[1]) - LeapsBefore(from) + MonthStart(date[1], date[2]) + date[3] - 1

\* The server's time stamp: 32 bits, which begin again in 2036.
txTm_s(date) == (DaysSince(1900, date) * Day) % Word

\* main: the difference in 32 bits, then 28 years and the leap days back.
txTm(stamp) == (stamp - NTP_TIMESTAMP_DELTA - 365 * Day * 28 - 6 * Day) % Word

\* localtime of seconds since 1980.
LocalTime(t) ==
    LET days == t \div Day
        year == CHOOSE y \in 1980 .. 2060 : DaysSince(1980, <<y, 1, 1>>) <= days /\ days < DaysSince(1980, <<y + 1, 1, 1>>)
        month == CHOOSE m \in 1 .. 12 :
                    /\ DaysSince(1980, <<year, m, 1>>) <= days
                    /\ m = 12 \/ days < DaysSince(1980, <<year, m + 1, 1>>)
    IN  <<year, month, days - DaysSince(1980, <<year, month, 1>>) + 1>>

ClockInit ==
    /\ \E y \in Years, m \in 1 .. 12 : \E d \in {1, MonthDays(y)[m]} : now = <<y, m, d>>
    /\ clock = <<>>

\* A packet came from the server.
Answered ==
    /\ clock = <<>>
    /\ clock' = LocalTime(txTm(txTm_s(now)))
    /\ UNCHANGED now

\* The alarm ends the program, or a call fails.
Unanswered ==
    /\ clock = <<>>
    /\ clock' = <<0, 0, 0>>
    /\ UNCHANGED now

ClockNext == Answered \/ Unanswered

\* The clock is set to the day it is, 28 years before, from 2008 to the end of
\* what 31 bits hold, over the turn of the time stamp in 2036.
DateIsRight == clock \notin {<<>>, <<0, 0, 0>>} => clock = <<now[1] - 28, now[2], now[3]>>

=============================================================================

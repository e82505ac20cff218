----------------------------- MODULE Timestamp -----------------------------
(***************************************************************************)
(* The time stamp of a record (logger/src/LogRecord.cpp): how formatRecord() *)
(* breaks a time down and what parseTimestamp() makes of the digits.        *)
(*                                                                         *)
(* A time is a day, counted from 1970-01-01, and the milliseconds into it; *)
(* a stamp is the numbers its digits stand for.                             *)
(***************************************************************************)
EXTENDS Integers

CONSTANT LastTime   \* the last millisecond that system_clock can hold

MsPerDay == 86400000

Times == [day : Int, ms : 0..(MsPerDay - 1)]

ASSUME TimestampAssumption == LastTime \in Times

NotLater(time, last) ==
    time.day < last.day \/ (time.day = last.day /\ time.ms =< last.ms)

-----------------------------------------------------------------------------
(* timegm() and gmtime_r() of the C library.                                *)

Leap(year) == year % 4 = 0 /\ (year % 100 # 0 \/ year % 400 = 0)

LeapsUntil(year) == (year - 1) \div 4 - (year - 1) \div 100 + (year - 1) \div 400

DaysBefore == <<0, 31, 59, 90, 120, 151, 181, 212, 243, 273, 304, 334>>

DayNumber(year, month, mday) ==
    365 * (year - 1970) + LeapsUntil(year) - LeapsUntil(1970)
    + DaysBefore[month] + (IF month > 2 /\ Leap(year) THEN 1 ELSE 0) + mday - 1

\* Fields that are out of their range carry over into the next ones.
Timegm(stamp) ==
    LET year == stamp.year + (stamp.month - 1) \div 12
        month == ((stamp.month - 1) % 12) + 1
        ms == ((stamp.hour * 60 + stamp.min) * 60 + stamp.sec) * 1000 + stamp.millis
    IN  [day |-> DayNumber(year, month, stamp.mday) + ms \div MsPerDay, ms |-> ms % MsPerDay]

Gmtime(time) ==
    LET about == 1970 + (400 * time.day) \div 146097
        year == CHOOSE y \in (about - 1)..(about + 1) :
                    DayNumber(y, 1, 1) =< time.day /\ time.day < DayNumber(y + 1, 1, 1)
        month == CHOOSE m \in 1..12 :
                    /\ DayNumber(year, m, 1) =< time.day
                    /\ m < 12 => time.day < DayNumber(year, m + 1, 1)
    IN  [year |-> year, month |-> month, mday |-> time.day - DayNumber(year, month, 1) + 1,
         hour |-> time.ms \div 3600000, min |-> (time.ms \div 60000) % 60,
         sec |-> (time.ms \div 1000) % 60, millis |-> time.ms % 1000]

-----------------------------------------------------------------------------
UnknownStamp ==
    [year |-> 0, month |-> 0, mday |-> 0, hour |-> 0, min |-> 0, sec |-> 0, millis |-> 0]

\* formatRecord(): a year that does not print as four characters, of which one may be
\* a minus sign, makes the stamp unknown.
StampOf(time) ==
    LET stamp == Gmtime(time)
    IN  IF -999 =< stamp.year /\ stamp.year =< 9999 THEN stamp ELSE UnknownStamp

\* parseTimestamp(): digits only, a moment from the epoch to the end of the clock, and
\* the date that was asked for.
IsStamp(stamp) ==
    LET time == Timegm(stamp)
    IN  /\ stamp.year >= 0
        /\ time.day >= 0 /\ NotLater(time, LastTime)
        /\ Gmtime(time) = stamp

\* The reference: what a calendar says of the numbers.
DaysIn(year, month) ==
    CASE month \in {4, 6, 9, 11} -> 30
      [] month = 2 -> IF Leap(year) THEN 29 ELSE 28
      [] OTHER -> 31

IsDate(stamp) ==
    /\ stamp.month \in 1..12 /\ stamp.mday \in 1..DaysIn(stamp.year, stamp.month)
    /\ stamp.hour \in 0..23 /\ stamp.min \in 0..59 /\ stamp.sec \in 0..59

\* The times whose stamps parseRecord() takes: the README names these limits.
Stampable(time) == time.day >= 0 /\ Gmtime(time).year =< 9999
=============================================================================

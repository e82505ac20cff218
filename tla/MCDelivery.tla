----------------------------- MODULE MCDelivery -----------------------------
EXTENDS Delivery, TLC

\* The system_clock of libc++, which reaches beyond the year 9999.
MCLastTime == [day |-> 106751991, ms |-> 14454775]

\* The last moment of a leap day, and the first ones outside of what parseRecord()
\* takes, on both sides.
Moments ==
    <<[day |-> 19782, ms |-> 86399999], [day |-> -1, ms |-> 86399999],
      [day |-> 2932897, ms |-> 0]>>

MCClock == {Moments[i] : i \in DOMAIN Moments}
MCLevels == {"INFO"}

\* Their heads, from 1001 on so that none is a byte.
MCHeadText ==
    [head \in 1001..1003 |-> [stamp |-> StampOf(Moments[head - 1000]), level |-> "INFO"]]

MCLetters == Chars \ {LF}

\* Three lines, of which the second looks like a record; a backslash with an n;
\* a control character with a hexadecimal digit behind it.
MCMessages == {<<LF, 1001, LF, 97>>, <<Backslash, 110>>, <<31, 55>>}

-----------------------------------------------------------------------------
Stamps ==
    [year : {0, 1969, 1970, 1999, 2000, 2023, 2024, 2100, 9999}, month : 0..13,
     mday : {0, 1, 28, 29, 30, 31, 32}, hour : {0, 23, 24}, min : {59, 60}, sec : {59, 60},
     millis : {999}]

\* What the comparison with timegm() accepts is what a calendar says, from 1970 on
\* (test_log_record.cpp has some twenty of these).
ASSUME StampsAreDates ==
    \A stamp \in Stamps : IsStamp(stamp) <=> stamp.year >= 1970 /\ IsDate(stamp)

\* formatRecord() and parseTimestamp() are inverse to each other on its stamps.
ASSUME StampsComeBack ==
    \A time \in [day : {-366, -1, 0, 58, 59, 789, 790, 11016, 19782, 106751, 2932896},
                 ms : {0, 1, 86399999}] :
        /\ Stampable(time) <=> IsStamp(StampOf(time))
        /\ Timegm(StampOf(time)) = time
=============================================================================

----------------------------- MODULE Statistics -----------------------------
(***************************************************************************)
(* Collector::Statistics (collector/core/Statistics.cpp): the counters of  *)
(* the collector, and a ring of one bucket per minute from which the       *)
(* messages of the last hour are counted without remembering any of them.  *)
(*                                                                         *)
(* The operations add(), addMalformed() and snapshot() work on a record    *)
(* with the members of the class; CollectorApp holds one such record.      *)
(***************************************************************************)
EXTENDS Integers, Sequences

CONSTANTS
    LevelCount,     \* ELogLevel::Count
    Buckets         \* kBuckets, minutes in an "hour"

ASSUME StatisticsAssumption ==
    /\ LevelCount \in Nat \ {0}
    /\ Buckets \in Nat \ {0}

Levels == 0..(LevelCount - 1)

EmptyStatistics ==
    [total |-> 0, malformed |-> 0, byLevel |-> [l \in Levels |-> 0],
     minLength |-> 0, maxLength |-> 0, totalLength |-> 0,
     minutes |-> [b \in 0..(Buckets - 1) |-> [minute |-> -1, count |-> 0]]]

Smaller(a, b) == IF a < b THEN a ELSE b
Larger(a, b) == IF a > b THEN a ELSE b

\* Seeded fault: the bucket of the minute an hour ago is not emptied.
BucketNeverEmptied(bucket, minute) == [minute |-> minute, count |-> bucket.count + 1]

\* The bucket of a minute, with one message more.
CountInBucket(bucket, minute) ==
    IF bucket.minute = minute THEN [bucket EXCEPT !.count = @ + 1]
    ELSE [minute |-> minute, count |-> 1]

\* Seeded fault: the minimum starts from 0.
MinLengthFromZero(s, length) == Smaller(s.minLength, length)

MinLength(s, length) == IF s.total = 0 THEN length ELSE Smaller(s.minLength, length)

\* add() in the given minute of the clock.
Add(s, level, length, minute) ==
    [s EXCEPT !.total = @ + 1,
              !.byLevel[level] = @ + 1,
              !.totalLength = @ + length,
              !.minLength = MinLength(s, length),
              !.maxLength = Larger(@, length),
              !.minutes[minute % Buckets] = CountInBucket(@, minute)]

AddMalformed(s) == [s EXCEPT !.malformed = @ + 1]

\* The sum of a sequence of numbers.
SumOf(numbers) ==
    LET sum[n \in 0..Len(numbers)] == IF n = 0 THEN 0 ELSE sum[n - 1] + numbers[n]
    IN  sum[Len(numbers)]

\* lastHour of snapshot(): the loop over the buckets.
LastHour(s, now) ==
    SumOf([n \in 1..Buckets |->
              LET bucket == s.minutes[n - 1]
              IN  IF bucket.minute >= now - Buckets + 1 THEN bucket.count ELSE 0])

Snapshot(s, now) ==
    [total |-> s.total, malformed |-> s.malformed, byLevel |-> s.byLevel,
     lastHour |-> LastHour(s, now), minLength |-> s.minLength, maxLength |-> s.maxLength,
     totalLength |-> s.totalLength]
=============================================================================

---------------------------- MODULE MessageCount ----------------------------
(***************************************************************************)
(* A Statistics that is fed messages as time goes by, next to a list of    *)
(* all of them: what a snapshot says is compared with what the list says.  *)
(***************************************************************************)
EXTENDS Statistics, FiniteSets

CONSTANTS
    Lengths,        \* the lengths of messages
    MaxMessages,    \* bounds of the model: messages, what is none, and minutes
    MaxMalformed,   \* of the clock
    MaxMinute

ASSUME MessageCountAssumption == Lengths \subseteq Nat

VARIABLES
    tally,      \* the Statistics
    minute,     \* the minute of the steady clock
    messages    \* the messages added so far (history)

tallyVars == <<tally, minute, messages>>

\* The steady clock may have any start; the collector may run in its first hour.
TallyInit ==
    /\ tally = EmptyStatistics
    /\ minute = 0
    /\ messages = << >>

AddMessage(level, length) ==
    /\ Len(messages) < MaxMessages
    /\ tally' = Add(tally, level, length, minute)
    /\ messages' = Append(messages, [level |-> level, length |-> length, minute |-> minute])
    /\ UNCHANGED minute

AddRubbish ==
    /\ tally.malformed < MaxMalformed
    /\ tally' = AddMalformed(tally)
    /\ UNCHANGED <<minute, messages>>

\* Minutes may pass without a message, whole hours too.
PassMinutes(n) ==
    /\ minute + n =< MaxMinute
    /\ minute' = minute + n
    /\ UNCHANGED <<tally, messages>>

TallyNext ==
    \/ \E level \in Levels, length \in Lengths : AddMessage(level, length)
    \/ AddRubbish
    \/ \E n \in 1..(2 * Buckets) : PassMinutes(n)

TallySpec == TallyInit /\ [][TallyNext]_tallyVars

-----------------------------------------------------------------------------
\* The ring of buckets tells how many messages came in the last Buckets minutes,
\* as counting them would: no bucket carries over what it counted an hour ago,
\* and one that was not touched since does not count.
LastHourIsExact ==
    Snapshot(tally, minute).lastHour =
        Cardinality({i \in DOMAIN messages : messages[i].minute > minute - Buckets})

\* Each message is in the total, in the count of its level and in the lengths.
TotalsAreExact ==
    LET snapshot == Snapshot(tally, minute)
        lengths == {messages[i].length : i \in DOMAIN messages}
    IN  /\ snapshot.total = Len(messages)
        /\ \A level \in Levels :
              snapshot.byLevel[level] =
                  Cardinality({i \in DOMAIN messages : messages[i].level = level})
        /\ snapshot.totalLength = SumOf([i \in DOMAIN messages |-> messages[i].length])
        /\ messages # << >> =>
              /\ {snapshot.minLength, snapshot.maxLength} \subseteq lengths
              /\ \A length \in lengths : length \in snapshot.minLength..snapshot.maxLength
=============================================================================

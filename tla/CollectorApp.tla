---------------------------- MODULE CollectorApp ----------------------------
(***************************************************************************)
(* Collector::CollectorApp (collector/core/CollectorApp.cpp) as            *)
(* collector/src/main.cpp runs it: a loop that waits for the receiver until*)
(* the next report is due, counts what came, reports after `every' messages*)
(* or when the timeout is over, and ends when a signal has set the flag.   *)
(*                                                                         *)
(* The receiver is seen through IReceiver: receive() returns after poll()  *)
(* has, with some lines or none, or fails; dropped() only grows.  Time is  *)
(* counted in ticks, TicksPerMs of them in the millisecond that poll()     *)
(* counts in; a time_point is kept as the ticks left until it, 0 when it   *)
(* has passed.                                                             *)
(***************************************************************************)
EXTENDS Integers

CONSTANTS
    Every,          \* SRun::every
    Timeout,        \* SRun::timeout, in milliseconds
    TicksPerMs,     \* resolution of the steady clock
    IntMax,         \* the largest int, which poll() takes its timeout as
    MaxBatch,       \* bounds of the model: lines of a kind in one receive(), ...
    MaxReceived     \* ... and messages in all

ASSUME CollectorAppAssumption ==
    /\ Every \in Nat \ {0}          \* parseOptions() refuses 0
    /\ Timeout \in Nat \ {0}
    /\ TicksPerMs \in Nat \ {0}
    /\ IntMax \in Nat \ {0}
    /\ MaxBatch \in Nat /\ MaxReceived \in Nat

Forever == -1

VARIABLES
    pc,             \* where main() is: "listen", "start", then in run()
    stopping,       \* the flag that the signal handler sets
    deadline,       \* ticks until deadline
    poll,           \* ticks until poll() gives up, or Forever
    total,          \* m_statistics: records ...
    malformed,      \* ... and what was none
    sinceReport,    \* m_sinceReport
    counted,        \* m_dropped: the drops that are in m_statistics
    dropped,        \* m_receiver.dropped()
    exit,           \* EExitCode, "running" before
    received,       \* messages that the receiver gave or dropped (history)
    reported,       \* the sum of what the reports were about (history)
    grace,          \* ticks until the timeout of the oldest message that no
                    \* report has counted is over (history)
    late            \* calls of receive() begun after the signal (history)

statistics == <<total, malformed, sinceReport, counted>>
history == <<received, reported, grace, late>>
vars == <<pc, stopping, deadline, poll, statistics, dropped, exit, history>>

TimeoutTicks == Timeout * TicksPerMs

Init ==
    /\ pc = "listen"
    /\ stopping = FALSE
    /\ deadline = 0 /\ poll = 0
    /\ total = 0 /\ malformed = 0 /\ sinceReport = 0
    /\ counted = 0 /\ dropped = 0
    /\ exit = "running"
    /\ received = 0 /\ reported = 0 /\ grace = 0 /\ late = 0

-----------------------------------------------------------------------------
\* runCollector() up to the construction of the application.
Listens ==
    /\ pc = "listen"
    /\ pc' = "start"
    /\ UNCHANGED <<stopping, deadline, poll, statistics, dropped, exit, history>>

ListenFails ==
    /\ pc = "listen"
    /\ pc' = "done" /\ exit' = "ListenFailed"
    /\ UNCHANGED <<stopping, deadline, poll, statistics, dropped, history>>

\* deadline = now + timeout, at first and after a report.
Rearm ==
    /\ pc \in {"start", "rearm"}
    /\ deadline' = TimeoutTicks
    /\ pc' = "check"
    /\ UNCHANGED <<stopping, poll, statistics, dropped, exit, history>>

\* report()
Report == reported' = reported + sinceReport /\ sinceReport' = 0

\* Seeded fault: the flag is not looked at.
GoOnAlways ==
    /\ pc = "check"
    /\ pc' = "plan"
    /\ UNCHANGED <<stopping, deadline, poll, statistics, dropped, exit, history>>

\* The head of the loop.
GoOn ==
    /\ pc = "check" /\ ~ stopping
    /\ pc' = "plan"
    /\ UNCHANGED <<stopping, deadline, poll, statistics, dropped, exit, history>>

\* Seeded fault: no final report.
StopWithoutReport ==
    /\ pc = "check" /\ stopping
    /\ pc' = "done" /\ exit' = "Success"
    /\ UNCHANGED <<stopping, deadline, poll, statistics, dropped, history>>

Stop ==
    /\ pc = "check" /\ stopping
    /\ Report
    /\ pc' = "done" /\ exit' = "Success"
    /\ UNCHANGED <<stopping, deadline, poll, total, malformed, counted, dropped, received,
                   grace, late>>

\* Seeded fault: the wait is rounded down.
RoundDown(ticks) == ticks \div TicksPerMs

\* left and wait: whole milliseconds, rounded up; the clamp to the timeout never
\* bites, deadline being at most TimeoutTicks away.
WaitFor(ticks) == (ticks + TicksPerMs - 1) \div TicksPerMs

\* static_cast<int>, two's complement.
AsInt(n) == ((n + IntMax + 1) % (2 * IntMax + 2)) - IntMax - 1

\* Seeded fault: with nothing to report poll() waits for ever.
BeginReceiveForMessage ==
    /\ pc = "plan"
    /\ poll' = IF sinceReport = 0 THEN Forever ELSE AsInt(WaitFor(deadline)) * TicksPerMs
    /\ late' = IF stopping THEN late + 1 ELSE late
    /\ pc' = "receive"
    /\ UNCHANGED <<stopping, deadline, statistics, dropped, exit, received, reported, grace>>

\* poll() with a negative timeout waits for ever.
BeginReceive ==
    /\ pc = "plan"
    /\ LET wait == AsInt(WaitFor(deadline))
       IN  poll' = IF wait < 0 THEN Forever ELSE wait * TicksPerMs
    /\ late' = IF stopping THEN late + 1 ELSE late
    /\ pc' = "receive"
    /\ UNCHANGED <<stopping, deadline, statistics, dropped, exit, received, reported, grace>>

Batches == [records : 0..MaxBatch, rubbish : 0..MaxBatch, empty : 0..MaxBatch,
            drops : 0..MaxBatch]

\* Messages in a batch: consume() skips an empty line.
MessagesIn(batch) == batch.records + batch.rubbish + batch.drops

\* Seeded fault: the drops are counted in full each time.
ConsumeOldDrops(batch) ==
    /\ total' = total + batch.records
    /\ dropped' = dropped + batch.drops
    /\ malformed' = malformed + batch.rubbish + dropped' - counted
    /\ sinceReport' = sinceReport + batch.records + batch.rubbish + dropped' - counted
    /\ UNCHANGED counted

\* consume() for each line, then countDropped().
Consume(batch) ==
    /\ total' = total + batch.records
    /\ dropped' = dropped + batch.drops
    /\ counted' = dropped'
    /\ malformed' = malformed + batch.rubbish + dropped' - counted
    /\ sinceReport' = sinceReport + batch.records + batch.rubbish + dropped' - counted

\* receive() returns TRUE before its time is up, with lines, or without any: the
\* sockets had no whole line, or only a connection to accept.
Receive(batch) ==
    /\ pc = "receive"
    /\ received + MessagesIn(batch) =< MaxReceived
    /\ Consume(batch)
    /\ received' = received + MessagesIn(batch)
    /\ grace' = IF sinceReport = 0 /\ MessagesIn(batch) > 0 THEN TimeoutTicks ELSE grace
    /\ pc' = "review"
    /\ UNCHANGED <<stopping, deadline, poll, exit, reported, late>>

ReceiveTimesOut ==
    /\ pc = "receive" /\ poll = 0
    /\ pc' = "review"
    /\ UNCHANGED <<stopping, deadline, poll, statistics, dropped, exit, history>>

ReceiveFails ==
    /\ pc = "receive"
    /\ Report
    /\ pc' = "done" /\ exit' = "ReceiveFailed"
    /\ UNCHANGED <<stopping, deadline, poll, total, malformed, counted, dropped, received,
                   grace, late>>

\* The end of the loop's body: a report after `every' messages, ...
ReportCount ==
    /\ pc = "review" /\ sinceReport >= Every
    /\ Report
    /\ pc' = "rearm"
    /\ UNCHANGED <<stopping, deadline, poll, total, malformed, counted, dropped, exit, received,
                   grace, late>>

\* ... or on timeout; without messages there is no report, only a new deadline, ...
ReportTimeout ==
    /\ pc = "review" /\ sinceReport < Every /\ deadline = 0
    /\ Report
    /\ pc' = "rearm"
    /\ UNCHANGED <<stopping, deadline, poll, total, malformed, counted, dropped, exit, received,
                   grace, late>>

\* Seeded fault: the deadline starts anew with every batch.
NewDeadline ==
    /\ pc = "review" /\ sinceReport < Every /\ deadline > 0
    /\ pc' = "rearm"
    /\ UNCHANGED <<stopping, deadline, poll, statistics, dropped, exit, history>>

\* ... or nothing to do yet.
NothingDue ==
    /\ pc = "review" /\ sinceReport < Every /\ deadline > 0
    /\ pc' = "check"
    /\ UNCHANGED <<stopping, deadline, poll, statistics, dropped, exit, history>>

\* SIGINT or SIGTERM, with the handler installed: it interrupts poll(), which then
\* returns with EINTR and receive() with TRUE, and nothing else.
Signal ==
    /\ pc \notin {"listen", "done"}
    /\ stopping' = TRUE
    /\ pc' = IF pc = "receive" THEN "review" ELSE pc
    /\ UNCHANGED <<deadline, poll, statistics, dropped, exit, history>>

CountDown(ticks) == IF ticks > 0 THEN ticks - 1 ELSE ticks

Tick ==
    /\ pc \notin {"listen", "done"}
    /\ deadline' = CountDown(deadline)
    /\ poll' = CountDown(poll)
    /\ grace' = CountDown(grace)
    /\ UNCHANGED <<pc, stopping, statistics, dropped, exit, received, reported, late>>

Done == pc = "done" /\ UNCHANGED vars

Run ==
    \/ Listens \/ ListenFails \/ Rearm
    \/ GoOn \/ Stop \/ BeginReceive
    \/ ReceiveTimesOut
    \/ ReportCount \/ ReportTimeout \/ NothingDue

Next ==
    \/ Run
    \/ \E batch \in Batches : Receive(batch)
    \/ ReceiveFails
    \/ Signal \/ Tick \/ Done

\* The collector runs when it can and time passes.  Nothing is assumed of those
\* who send or of signals.
Fairness == WF_vars(Run) /\ WF_vars(Tick)

Spec == Init /\ [][Next]_vars /\ Fairness

-----------------------------------------------------------------------------
TypeOK ==
    /\ pc \in {"listen", "start", "check", "plan", "receive", "review", "rearm", "done"}
    /\ stopping \in BOOLEAN
    /\ deadline \in 0..TimeoutTicks
    /\ poll \in Nat \cup {Forever}
    /\ total \in Nat /\ malformed \in Nat /\ sinceReport \in Nat
    /\ counted \in Nat /\ dropped \in Nat
    /\ exit \in {"running", "Success", "ListenFailed", "ReceiveFailed"}
    /\ received \in Nat /\ reported \in Nat
    /\ grace \in 0..TimeoutTicks
    /\ late \in Nat

\* Everything that came is counted once, as a record or as malformed, and is in
\* exactly one report or still waits for one; a drop counts like a line, an empty
\* line does not (CollectorApp.cpp:68-89).
CountedOnce ==
    /\ total + malformed = received
    /\ reported + sinceReport = received

\* No exit leaves a message without a report (CollectorApp.cpp:47, 64).
ExitReportsEverything ==
    exit \in {"Success", "ReceiveFailed"} => reported = received

\* The collector never waits while a report is due: fewer than `every' messages
\* are left, and the wait ends at the latest in the millisecond in which the
\* timeout of the oldest of them is over.
NothingDueWhileWaiting ==
    pc = "receive" =>
        /\ sinceReport < Every
        /\ sinceReport > 0 => poll # Forever /\ poll < grace + TicksPerMs

\* A wait of 0 is only asked for when the deadline has passed, so that the last
\* part of a millisecond is not spent in a busy loop (CollectorApp.cpp:39).  This is
\* of the rounding only: poll() may still return at once, time and again.
NoBusyWait ==
    [][pc = "plan" /\ pc' = "receive" /\ poll' = 0 => deadline = 0]_vars

\* A signal that comes between the test of the flag and poll() does not interrupt
\* poll(); still at most one call of receive() begins after it.
OneReceiveAfterSignal == late =< 1

\* The collector stops after a signal, whether anything arrives or not.
SignalStops == stopping ~> pc = "done"

\* The usage says "report them after T seconds as well, when anything arrived"
\* (collector/core/Options.cpp:179), for whatever T it takes: with a message to
\* report the collector does not wait for ever.
ReportAfterTimeout == pc = "receive" /\ sinceReport > 0 => poll # Forever
=============================================================================

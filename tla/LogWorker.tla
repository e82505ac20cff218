----------------------------- MODULE LogWorker -----------------------------
(***************************************************************************)
(* App::LogWorker (app/core/LogWorker.hpp, LogWorker.cpp): the thread that *)
(* takes events from the queue and hands them to the logger.               *)
(*                                                                         *)
(* The logger is seen through ILogger: setLevel() stores the threshold,    *)
(* isEnabled() compares with it, and log() either writes the record, or    *)
(* returns FALSE with a reason, or throws an exception with one.  Nothing  *)
(* is assumed about which of the three it does.                            *)
(***************************************************************************)
EXTENDS Naturals, Sequences, FiniteSets

CONSTANTS
    Levels,     \* ELogLevel, as numbers
    Reasons,    \* the texts a failed log() can leave; none of them is empty
    NoReason,   \* the empty m_lastError
    MaxLines    \* bound of the model: how many lines the user types

ASSUME LogWorkerAssumption ==
    /\ Levels \subseteq Nat
    /\ NoReason \notin Reasons
    /\ MaxLines \in Nat

Main == "main"
Worker == "worker"

\* SWrite carries a message: id tells messages apart and byDefault remembers
\* that the user gave no level (history: neither is looked at by the code).
Writes == [kind : {"write"}, level : Levels, id : 1..MaxLines, byDefault : BOOLEAN]
LevelChanges == [kind : {"setLevel"}, level : Levels]
Events == Writes \cup LevelChanges

SWrite(l, n, d) == [kind |-> "write", level |-> l, id |-> n, byDefault |-> d]
SSetLevel(l) == [kind |-> "setLevel", level |-> l]

VARIABLES
    queue, closed, waiting, notifying,  \* the EventQueue
    workerPc,   \* where the worker's thread is
    event,      \* the event it has taken, last
    threshold,  \* the level of the logger
    written,    \* the messages log() has written, in order
    lastError,  \* m_lastError
    processed,  \* m_processed
    failed      \* m_failed

queueVars == <<queue, closed, waiting, notifying>>
workerVars == <<workerPc, event, threshold, written, lastError, processed, failed>>

Q == INSTANCE EventQueue WITH
        Writers <- {Main}, Readers <- {Worker}, MaxQueue <- MaxLines

-----------------------------------------------------------------------------
WorkerInit ==
    /\ workerPc = "unstarted"
    /\ threshold \in Levels
    /\ event = SSetLevel(threshold)     \* a placeholder: no event was taken yet
    /\ written = << >>
    /\ lastError = NoReason
    /\ processed = 0
    /\ failed = 0

\* pop() in loop(): sleep, take an event, or leave the thread.
WorkerWaits ==
    /\ workerPc = "pop"
    /\ Q!PopWait(Worker)
    /\ UNCHANGED workerVars

WorkerWakes == Q!SpuriousWakeup(Worker) /\ UNCHANGED workerVars

WorkerTakes ==
    /\ workerPc = "pop"
    /\ Q!PopTake(Worker)
    /\ event' = Head(queue)
    /\ workerPc' = "handle"
    /\ UNCHANGED <<threshold, written, lastError, processed, failed>>

WorkerEnds ==
    /\ workerPc = "pop"
    /\ Q!PopFinish(Worker)
    /\ workerPc' = "ended"
    /\ UNCHANGED <<event, threshold, written, lastError, processed, failed>>

\* The SSetLevel visitor.
ApplyLevel ==
    /\ workerPc = "handle" /\ event.kind = "setLevel"
    /\ threshold' = event.level
    /\ workerPc' = "pop"
    /\ UNCHANGED <<queueVars, event, written, lastError, processed, failed>>

IsEnabled(l) == l >= threshold

\* Seeded fault: write() without its own check of isEnabled(); log() returns
\* TRUE for a message below the threshold, which then counts as processed.
DroppedIsProcessed ==
    /\ workerPc = "handle" /\ event.kind = "write" /\ ~ IsEnabled(event.level)
    /\ processed' = processed + 1
    /\ workerPc' = "pop"
    /\ UNCHANGED <<queueVars, event, threshold, written, lastError, failed>>

\* write() returns at once for a message below the threshold.
DropBelowThreshold ==
    /\ workerPc = "handle" /\ event.kind = "write" /\ ~ IsEnabled(event.level)
    /\ workerPc' = "pop"
    /\ UNCHANGED <<queueVars, event, threshold, written, lastError, processed, failed>>

\* log() returns TRUE ...
LogWrites ==
    /\ workerPc = "handle" /\ event.kind = "write" /\ IsEnabled(event.level)
    /\ written' = Append(written, event.id)
    /\ workerPc' = "written"
    /\ UNCHANGED <<queueVars, event, threshold, lastError, processed, failed>>

\* ... and the success is counted.
CountProcessed ==
    /\ workerPc = "written"
    /\ processed' = processed + 1
    /\ workerPc' = "pop"
    /\ UNCHANGED <<queueVars, event, threshold, written, lastError, failed>>

\* log() returns FALSE or throws: recordFailure() stores the reason under
\* m_errorMutex ...
LogFails(reason) ==
    /\ workerPc = "handle" /\ event.kind = "write" /\ IsEnabled(event.level)
    /\ lastError' = reason
    /\ workerPc' = "failed"
    /\ UNCHANGED <<queueVars, event, threshold, written, processed, failed>>

\* ... and counts the failure after it has released that mutex.
CountFailed ==
    /\ workerPc = "failed"
    /\ failed' = failed + 1
    /\ workerPc' = "pop"
    /\ UNCHANGED <<queueVars, event, threshold, written, lastError, processed>>

WorkerRuns ==
    \/ WorkerWaits \/ WorkerTakes \/ WorkerEnds
    \/ ApplyLevel \/ DropBelowThreshold
    \/ LogWrites \/ CountProcessed
    \/ \E reason \in Reasons : LogFails(reason)
    \/ CountFailed

-----------------------------------------------------------------------------
WorkerTypeOK ==
    /\ queue \in Seq(Events)
    /\ closed \in BOOLEAN
    /\ waiting \subseteq {Worker}
    /\ notifying \in [{Main} -> {"none", "one", "all"}]
    /\ workerPc \in {"unstarted", "pop", "handle", "written", "failed", "ended"}
    /\ event \in Events
    /\ threshold \in Levels
    /\ written \in Seq(1..MaxLines)
    /\ lastError \in Reasons \cup {NoReason}
    /\ processed \in Nat
    /\ failed \in Nat
=============================================================================

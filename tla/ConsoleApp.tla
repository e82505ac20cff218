----------------------------- MODULE ConsoleApp -----------------------------
(***************************************************************************)
(* App::ConsoleApp::run() (app/core/ConsoleApp.cpp) together with the      *)
(* worker it starts and the queue between them: the main thread reads the  *)
(* lines the user types, pushes events, looks at the worker's last error   *)
(* after every line, and at the end stops the worker, prints the summary   *)
(* and returns the exit code.                                              *)
(*                                                                         *)
(* An exception of the main thread (a failed allocation while a line is    *)
(* parsed or queued, a thread that cannot be created) leaves run() through *)
(* ~LogWorker(), which calls stop() as well; main() (app/src/main.cpp)     *)
(* turns it into the exit code InternalError.                              *)
(***************************************************************************)
EXTENDS LogWorker, InputParser

CONSTANT Lines      \* the lines that may be typed, as sequences of words

ASSUME ConsoleAppAssumption == \A word \in DOMAIN LevelOf : LevelOf[word] \in Levels

VARIABLES
    mainPc,     \* where the main thread is
    level,      \* the local variable level of run(): the default of a message
    running,    \* the local variable running
    reported,   \* the local variable reportedReason
    unwinding,  \* an exception is leaving run()
    lines,      \* how many lines have been read (bound of the model)
    exit,       \* EExitCode, "none" while the program runs
    summary     \* what the last line on stderr says

mainVars == <<mainPc, level, running, reported, unwinding, lines, exit, summary>>
vars == <<queueVars, workerVars, mainVars>>

NoSummary == [processed |-> 0, failed |-> 0, reason |-> NoReason]

-----------------------------------------------------------------------------
Init ==
    /\ Q!QueueInit
    /\ WorkerInit
    /\ mainPc = "start"
    /\ level = threshold
    /\ running = TRUE
    /\ reported = NoReason
    /\ unwinding = FALSE
    /\ lines = 0
    /\ exit = "none"
    /\ summary = NoSummary

\* worker.start(), and the local variables of run().
StartWorker ==
    /\ mainPc = "start"
    /\ workerPc' = "pop"
    /\ level' = threshold
    /\ mainPc' = "read"
    /\ UNCHANGED <<queueVars, event, threshold, written, lastError, processed, failed,
                   running, reported, unwinding, lines, exit, summary>>

\* getline() returns a line: the events of the visitor in run() that push.
\* m_cv.notify_one() is still owed when they are done, see MainNotifies.
ReadsLine ==
    /\ mainPc = "read"
    /\ lines < MaxLines
    /\ lines' = lines + 1
    /\ mainPc' = "poll"
    /\ UNCHANGED <<workerVars, reported, unwinding, exit, summary>>

\* A message at level l, which is the default one if d.
ReadMessage(l, d) ==
    /\ ReadsLine
    /\ Q!Push(Main, SWrite(l, lines + 1, d))
    /\ running' = ~ closed
    /\ UNCHANGED level

\* Seeded fault: the command changes only the default.
ReadLevelKeepsLogger(l) ==
    /\ ReadsLine
    /\ level' = l
    /\ UNCHANGED <<queueVars, running>>

\* "/level <name>": the default changes at once, the logger when the worker
\* takes the event.
ReadLevel(l) ==
    /\ ReadsLine
    /\ level' = l
    /\ Q!Push(Main, SSetLevel(l))
    /\ running' = ~ closed

\* "/help", an empty line, or a line that parseUserInput() refuses.
ReadOther ==
    /\ ReadsLine
    /\ UNCHANGED <<queueVars, level, running>>

\* "/quit".
ReadQuit ==
    /\ ReadsLine
    /\ running' = FALSE
    /\ UNCHANGED <<queueVars, level>>

\* The end of the input: break.
ReadEof ==
    /\ mainPc = "read"
    /\ mainPc' = "close"
    /\ UNCHANGED <<queueVars, workerVars, level, running, reported, unwinding, lines,
                   exit, summary>>

\* The notification that push() or close() makes once the mutex is free.
MainNotifies == (Q!NotifyOne(Main) \/ Q!NotifyAll(Main)) /\ UNCHANGED <<workerVars, mainVars>>

\* worker.lastError() is read, and printed if it differs from the last one.
PollLastError ==
    /\ mainPc = "poll" /\ notifying[Main] = "none"
    /\ reported' = IF lastError # NoReason THEN lastError ELSE reported
    /\ mainPc' = IF running THEN "read" ELSE "close"
    /\ UNCHANGED <<queueVars, workerVars, level, running, unwinding, lines, exit, summary>>

\* std::thread cannot be created, or an allocation fails before the line has
\* reached the queue or while the last error is copied.
Throw ==
    /\ mainPc \in {"start", "read", "poll"} /\ notifying[Main] = "none"
    /\ unwinding' = TRUE
    /\ mainPc' = "close"
    /\ UNCHANGED <<queueVars, workerVars, level, running, reported, lines, exit, summary>>

\* LogWorker::stop(), from run() or from ~LogWorker(): close the queue ...
StopCloses ==
    /\ mainPc = "close"
    /\ Q!Close(Main)
    /\ mainPc' = "join"
    /\ UNCHANGED <<workerVars, level, running, reported, unwinding, lines, exit, summary>>

\* Seeded fault: stop() closes the queue and does not join.
NotJoined == mainPc = "join" /\ notifying[Main] = "none"

\* ... and join the thread if it was started.
Joined ==
    /\ mainPc = "join" /\ notifying[Main] = "none"
    /\ workerPc \in {"unstarted", "ended"}

\* After the join in run(): the summary and the exit code.
Return ==
    /\ Joined /\ ~ unwinding
    /\ summary' = [processed |-> processed, failed |-> failed,
                   reason |-> IF failed > 0 THEN lastError ELSE NoReason]
    /\ exit' = IF failed > 0 THEN "WriteFailed" ELSE "Success"
    /\ mainPc' = "done"
    /\ UNCHANGED <<queueVars, workerVars, level, running, reported, unwinding, lines>>

\* After the join in ~LogWorker(): main() catches the exception.
CatchException ==
    /\ Joined /\ unwinding
    /\ exit' = "InternalError"
    /\ mainPc' = "done"
    /\ UNCHANGED <<queueVars, workerVars, level, running, reported, unwinding, lines,
                   summary>>

\* The process has ended.
Done == mainPc = "done" /\ UNCHANGED vars

-----------------------------------------------------------------------------
\* The visitor of run() for what parseUserInput() has made of the line.
ReadLine(line) ==
    LET input == ParseUserInput(line, level)
    IN  \/ input.kind = "message" /\ ReadMessage(input.level, ~ GivesLevel(line))
        \/ input.kind = "level" /\ ReadLevel(input.level)
        \/ input.kind \in {"help", "empty", "error"} /\ ReadOther
        \/ input.kind = "quit" /\ ReadQuit

UserTypes == ReadEof \/ \E line \in Lines : ReadLine(line)

MainRuns ==
    \/ StartWorker \/ MainNotifies \/ PollLastError
    \/ StopCloses \/ Return \/ CatchException

WorkerStep == WorkerRuns /\ UNCHANGED mainVars

Next ==
    \/ UserTypes
    \/ MainRuns
    \/ Throw
    \/ WorkerStep
    \/ WorkerWakes /\ UNCHANGED mainVars
    \/ Done

\* The scheduler runs both threads, and log() returns. The user may stop
\* typing for ever without ending the input.
Fairness == WF_vars(MainRuns) /\ WF_vars(WorkerStep)

Spec == Init /\ [][Next]_vars /\ Fairness

-----------------------------------------------------------------------------
TypeOK ==
    /\ WorkerTypeOK
    /\ mainPc \in {"start", "read", "poll", "close", "join", "done"}
    /\ level \in Levels
    /\ running \in BOOLEAN
    /\ reported \in Reasons \cup {NoReason}
    /\ unwinding \in BOOLEAN
    /\ lines \in 0..MaxLines
    /\ exit \in {"none", "Success", "WriteFailed", "InternalError"}
    /\ summary \in [processed : Nat, failed : Nat, reason : Reasons \cup {NoReason}]

\* The events the worker has not finished with, oldest first.
InFlight == (IF workerPc = "handle" THEN <<event>> ELSE << >>) \o queue

\* The level that a logger at level start has when it gets to the i-th of the
\* events evts: that of the last SSetLevel before it, or start.
HasLevelAt(evts, start, i, l) ==
    \/ \E j \in 1..(i - 1) :
          /\ evts[j].kind = "setLevel" /\ evts[j].level = l
          /\ \A k \in (j + 1)..(i - 1) : evts[k].kind = "write"
    \/ /\ \A k \in 1..(i - 1) : evts[k].kind = "write"
       /\ l = start

\* run() keeps its own copy of the logger's level, which is ahead of the logger
\* while SSetLevel events are queued: the copy is the level the logger will
\* have when it gets to the end of the queue (ConsoleApp.cpp:47,62-63).
LevelCopyIsAhead == HasLevelAt(InFlight, threshold, Len(InFlight) + 1, level)

\* A message typed without a level is never dropped by the threshold, whatever
\* "/level" commands are typed before and after it and however far the worker
\* lags: the level it was given is the logger's level when it is handled.
DefaultMessageNotDropped ==
    workerPc = "handle" /\ event.kind = "write" /\ event.byDefault => IsEnabled(event.level)

\* run() returns, or is left by an exception, only when no thread can touch the
\* worker and the queue any more, which are local to it: the worker's thread
\* has ended, or never ran, with the queue closed and every event handled.
NothingOutlivesRun ==
    mainPc = "done" =>
        /\ workerPc \in {"unstarted", "ended"}
        /\ closed /\ queue = << >> /\ waiting = {} /\ notifying[Main] = "none"

\* While the worker sleeps on a queue that has an event or is closed, the main
\* thread is about to wake it.
WorkerNotForgotten ==
    waiting # {} /\ (queue # << >> \/ closed) => notifying[Main] # "none"

\* The exit code and the summary agree with what became of the messages: a
\* failure is never hidden, and it comes with its reason although lastError()
\* and failed() are two reads and recordFailure() two writes.
ExitTellsFailures ==
    exit \in {"Success", "WriteFailed"} =>
        /\ exit = "WriteFailed" <=> failed > 0
        /\ summary.failed > 0 => summary.reason \in Reasons
        /\ summary.processed = Len(written)

\* After the input has ended the program ends, whatever is still queued and
\* whether the worker sleeps, writes or fails.
ShutdownEnds == mainPc = "close" ~> mainPc = "done"

\* README.md:173: "prints the reason at every change of it". A reason that is
\* replaced by another one has been printed before.
EveryReasonPrinted ==
    [][lastError' # lastError => lastError \in {NoReason, reported}]_vars
=============================================================================

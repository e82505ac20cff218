------------------------- MODULE ConsoleApp_proofs -------------------------
(***************************************************************************)
(* The safety of the application for every set of levels and of reasons    *)
(* and every number of lines, and that each step of its two threads is a   *)
(* step of the log that SequentialLog promises, or none.                   *)
(***************************************************************************)
EXTENDS ConsoleAppLog, Induction, SequenceTheorems, TLAPS

\* What an event is made of.
LEMMA EventsAreTyped ==
    /\ \A l \in Levels, n \in 1..MaxLines, d \in BOOLEAN : SWrite(l, n, d) \in Events
    /\ \A l \in Levels : SSetLevel(l) \in Events
    /\ \A e \in Events : e.kind = "write" => e \in Writes
    /\ \A e \in Events : e.kind = "setLevel" => e \in LevelChanges
    /\ \A e \in Events : e.level \in Levels /\ e.kind \in {"write", "setLevel"}
  BY DEF Events, Writes, LevelChanges, SWrite, SSetLevel

\* What a line makes run() do: a message is at one of the levels, at the default
\* one if the line gives none.
UserActs ==
    \/ \E l \in Levels, d \in BOOLEAN : (d => l = level) /\ ReadMessage(l, d)
    \/ \E l \in Levels : ReadLevel(l)
    \/ ReadOther \/ ReadQuit \/ ReadEof

\* What parseUserInput() returns (InputParser.cpp:39-55).
LEMMA ParsedLine ==
    ASSUME NEW line, NEW default \in Levels
    PROVE  LET input == ParseUserInput(line, default)
           IN  \/ /\ input.kind = "message" /\ input.level \in Levels
                  /\ ~ GivesLevel(line) => input.level = default
               \/ input.kind = "level" /\ input.level \in Levels
               \/ input.kind \in {"quit", "help", "empty", "error"}
<1> USE DEF SMessage, SLevelCommand, SQuitCommand, SHelpCommand, SEmptyLine, SError
<1>1. CASE line = << >>
  BY <1>1 DEF ParseUserInput
<1>2. CASE line # << >> /\ Head(line) \in Slashed \ Escaped
  <2>1. ~ GivesLevel(line)
    BY <1>2, InputParserAssumption DEF GivesLevel
  <2>2. ParseUserInput(line, default) = ParseCommand(line)
    BY <1>2, <2>1 DEF ParseUserInput
  <2>3. CASE Head(line) = "/level" /\ NamesLevel(Tail(line))
    <3>1. ParseUserInput(line, default) = SLevelCommand(LevelOf[Tail(line)[1]])
      BY <2>2, <2>3 DEF ParseCommand
    <3>2. LevelOf[Tail(line)[1]] \in Levels
      BY <2>3, ConsoleAppAssumption DEF NamesLevel
    <3>3. PICK l \in Levels : ParseUserInput(line, default) = SLevelCommand(l)
      BY <3>1, <3>2
    <3> QED
      BY <3>3
  <2>4. CASE ~ (Head(line) = "/level" /\ NamesLevel(Tail(line)))
    <3>1. \/ ParseUserInput(line, default) = SQuitCommand
          \/ ParseUserInput(line, default) = SHelpCommand
          \/ ParseUserInput(line, default) = SError
      BY <2>2, <2>4 DEF ParseCommand
    <3> QED
      BY <3>1
  <2> QED
    BY <2>3, <2>4
<1>3. CASE GivesLevel(line) /\ Len(line) = 1
  BY <1>3, InputParserAssumption DEF ParseUserInput, GivesLevel
<1>4. CASE GivesLevel(line) /\ Len(line) > 1
  <2>1. ParseUserInput(line, default) = SMessage(LevelOf[Head(line)])
    BY <1>4, InputParserAssumption DEF ParseUserInput, GivesLevel
  <2>2. LevelOf[Head(line)] \in Levels
    BY <1>4, ConsoleAppAssumption DEF GivesLevel
  <2> QED
    BY <1>4, <2>1, <2>2
<1>5. CASE /\ line # << >> /\ Head(line) \notin Slashed \ Escaped
          /\ ~ (GivesLevel(line) /\ (Len(line) = 1 \/ Len(line) > 1))
  BY <1>5 DEF ParseUserInput, DefaultLevel
<1> QED
  BY <1>1, <1>2, <1>3, <1>4, <1>5

\* Every line does one of these (ConsoleApp.cpp:55-72).
LEMMA UserTypesActs == level \in Levels /\ UserTypes => UserActs
  BY ParsedLine DEF UserTypes, UserActs, ReadLine

\* The initial states are typed.
LEMMA TypeInitial == Init => TypeOK
<1> SUFFICES ASSUME Init PROVE TypeOK
  OBVIOUS
<1>1. queue \in Seq(Events) /\ written \in Seq(1..MaxLines)
  BY DEF Init, Q!QueueInit, WorkerInit
<1>2. notifying \in [{Main} -> {"none", "one", "all"}]
  BY DEF Init, Q!QueueInit
<1>3. event \in Events /\ threshold \in Levels /\ level \in Levels
  BY EventsAreTyped DEF Init, WorkerInit
<1>4. lines \in 0..MaxLines
  BY LogWorkerAssumption DEF Init
<1>5. summary \in [processed : Nat, failed : Nat, reason : Reasons \cup {NoReason}]
  BY DEF Init, NoSummary
<1> QED
  BY <1>1, <1>2, <1>3, <1>4, <1>5 DEF Init, Q!QueueInit, WorkerInit, TypeOK, WorkerTypeOK

\* A push of the main thread keeps the types of the queue.
LEMMA TypePush ==
    ASSUME TypeOK, NEW e \in Events, Q!Push(Main, e)
    PROVE  /\ queue' \in Seq(Events)
           /\ closed' \in BOOLEAN
           /\ waiting' \subseteq {Worker}
           /\ notifying' \in [{Main} -> {"none", "one", "all"}]
<1>1. queue' \in Seq(Events)
  <2>1. queue \in Seq(Events) /\ Append(queue, e) \in Seq(Events)
    BY AppendProperties DEF TypeOK, WorkerTypeOK
  <2> QED
    BY <2>1 DEF Q!Push
<1>2. notifying' \in [{Main} -> {"none", "one", "all"}]
  BY DEF Q!Push, TypeOK, WorkerTypeOK
<1> QED
  BY <1>1, <1>2 DEF Q!Push, TypeOK, WorkerTypeOK

\* The steps of the user keep the types.
LEMMA TypeUser == TypeOK /\ UserTypes => TypeOK'
<1> SUFFICES ASSUME TypeOK, UserActs PROVE TypeOK'
  BY UserTypesActs DEF TypeOK
<1> USE DEF TypeOK, WorkerTypeOK
<1>1. ASSUME NEW l \in Levels, NEW d \in BOOLEAN, ReadMessage(l, d) PROVE TypeOK'
  <2>1. lines + 1 \in 1..MaxLines /\ lines' = lines + 1
    BY <1>1, LogWorkerAssumption DEF ReadMessage, ReadsLine
  <2>2. SWrite(l, lines + 1, d) \in Events
    BY <2>1, EventsAreTyped
  <2>3. Q!Push(Main, SWrite(l, lines + 1, d)) /\ running' \in BOOLEAN /\ level' \in Levels
    BY <1>1 DEF ReadMessage
  <2>4. /\ queue' \in Seq(Events) /\ closed' \in BOOLEAN
        /\ waiting' \subseteq {Worker} /\ notifying' \in [{Main} -> {"none", "one", "all"}]
    BY <2>2, <2>3, TypePush
  <2> QED
    BY <1>1, <2>1, <2>3, <2>4 DEF ReadMessage, ReadsLine, workerVars
<1>2. ASSUME NEW l \in Levels, ReadLevel(l) PROVE TypeOK'
  <2>1. lines' \in 0..MaxLines
    BY <1>2, LogWorkerAssumption DEF ReadLevel, ReadsLine
  <2>2. SSetLevel(l) \in Events
    BY EventsAreTyped
  <2>3. Q!Push(Main, SSetLevel(l)) /\ running' \in BOOLEAN /\ level' \in Levels
    BY <1>2 DEF ReadLevel
  <2>4. /\ queue' \in Seq(Events) /\ closed' \in BOOLEAN
        /\ waiting' \subseteq {Worker} /\ notifying' \in [{Main} -> {"none", "one", "all"}]
    BY <2>2, <2>3, TypePush
  <2> QED
    BY <1>2, <2>1, <2>3, <2>4 DEF ReadLevel, ReadsLine, workerVars
<1>3. CASE ReadOther \/ ReadQuit
  <2>1. lines' \in 0..MaxLines
    BY <1>3, LogWorkerAssumption DEF ReadOther, ReadQuit, ReadsLine
  <2> QED
    BY <1>3, <2>1 DEF ReadOther, ReadQuit, ReadsLine, workerVars, queueVars
<1>4. CASE ReadEof
  BY <1>4 DEF ReadEof, workerVars, queueVars
<1> QED
  BY <1>1, <1>2, <1>3, <1>4 DEF UserActs

\* So do those of the main thread.
LEMMA TypeMain == TypeOK /\ (MainRuns \/ Throw) => TypeOK'
<1> SUFFICES ASSUME TypeOK, MainRuns \/ Throw PROVE TypeOK'
  OBVIOUS
<1> USE DEF TypeOK, WorkerTypeOK, workerVars, queueVars
<1>1. CASE StartWorker
  BY <1>1 DEF StartWorker
<1>2. CASE MainNotifies
  BY <1>2 DEF MainNotifies, Q!NotifyOne, Q!NotifyAll, mainVars
<1>3. CASE PollLastError
  BY <1>3 DEF PollLastError
<1>4. CASE StopCloses
  BY <1>4 DEF StopCloses, Q!Close
<1>5. CASE Return
  BY <1>5 DEF Return
<1>6. CASE CatchException
  BY <1>6 DEF CatchException
<1>7. CASE Throw
  BY <1>7 DEF Throw
<1> QED
  BY <1>1, <1>2, <1>3, <1>4, <1>5, <1>6, <1>7 DEF MainRuns

\* And those of the worker.
LEMMA TypeWorker == TypeOK /\ (WorkerRuns \/ WorkerWakes) /\ UNCHANGED mainVars => TypeOK'
<1> SUFFICES ASSUME TypeOK, WorkerRuns \/ WorkerWakes, UNCHANGED mainVars PROVE TypeOK'
  OBVIOUS
<1> USE DEF TypeOK, WorkerTypeOK, workerVars, queueVars, mainVars
<1>1. CASE WorkerWaits \/ WorkerWakes
  BY <1>1 DEF WorkerWaits, WorkerWakes, Q!PopWait, Q!SpuriousWakeup
<1>2. CASE WorkerTakes
  BY <1>2 DEF WorkerTakes, Q!PopTake
<1>3. CASE WorkerEnds
  BY <1>3 DEF WorkerEnds, Q!PopFinish, Q!queueVars
<1>4. CASE ApplyLevel
  BY <1>4, EventsAreTyped DEF ApplyLevel
<1>5. CASE DropBelowThreshold
  BY <1>5 DEF DropBelowThreshold
<1>6. CASE LogWrites
  <2>1. event.id \in 1..MaxLines
    BY <1>6, EventsAreTyped DEF LogWrites, Writes
  <2> QED
    BY <1>6, <2>1 DEF LogWrites
<1>7. CASE CountProcessed
  BY <1>7 DEF CountProcessed
<1>8. ASSUME NEW reason \in Reasons, LogFails(reason) PROVE TypeOK'
  BY <1>8 DEF LogFails
<1>9. CASE CountFailed
  BY <1>9 DEF CountFailed
<1> QED
  BY <1>1, <1>2, <1>3, <1>4, <1>5, <1>6, <1>7, <1>8, <1>9 DEF WorkerRuns

\* The variables of run(), of the worker and of the queue have their types in
\* every reachable state.
THEOREM TypeCorrect == Spec => []TypeOK
<1>1. TypeOK /\ [Next]_vars => TypeOK'
  <2> SUFFICES ASSUME TypeOK, UNCHANGED vars PROVE TypeOK'
    BY TypeUser, TypeMain, TypeWorker DEF Next, WorkerStep, Done
  <2> QED
    BY DEF TypeOK, WorkerTypeOK, vars, workerVars, queueVars, mainVars
<1> QED
  BY <1>1, TypeInitial, PTL DEF Spec

-----------------------------------------------------------------------------
(* How the phases of the two threads and of the queue go together. This is  *)
(* what makes NothingOutlivesRun and WorkerNotForgotten inductive: a worker *)
(* that has ended has left the queue closed and empty, one that never ran   *)
(* has had nothing to do, and the main thread joins with the queue closed.  *)
Phases ==
    /\ workerPc # "pop" => waiting = {}
    /\ workerPc = "ended" => closed /\ queue = << >>
    /\ workerPc = "unstarted" => mainPc \notin {"read", "poll"} /\ queue = << >>
    /\ mainPc = "start" => workerPc = "unstarted" /\ level = threshold
    /\ mainPc \in {"join", "done"} <=> closed
    /\ mainPc = "done" => workerPc \in {"unstarted", "ended"} /\ notifying[Main] = "none"
    /\ WorkerNotForgotten

\* Nothing runs and nothing is queued at first.
LEMMA PhasesInitial == Init => Phases
  BY DEF Init, Q!QueueInit, WorkerInit, Phases, WorkerNotForgotten

\* Typing: the worker has been started, and a push owes a notification.
LEMMA PhasesUser == TypeOK /\ Phases /\ UserTypes => Phases'
<1> SUFFICES ASSUME TypeOK, Phases, UserActs PROVE Phases'
  BY UserTypesActs DEF TypeOK
<1>1. /\ mainPc = "read" /\ mainPc' \in {"poll", "close"}
      /\ UNCHANGED workerVars
  BY DEF UserActs, ReadMessage, ReadLevel, ReadOther, ReadQuit, ReadEof, ReadsLine
<1>2. \/ UNCHANGED queueVars
      \/ ~ closed /\ notifying' = [notifying EXCEPT ![Main] = "one"] /\ UNCHANGED <<closed, waiting>>
  BY DEF UserActs, ReadMessage, ReadLevel, ReadOther, ReadQuit, ReadEof, ReadsLine,
         Q!Push, queueVars
<1>3. notifying \in [{Main} -> {"none", "one", "all"}]
  BY DEF TypeOK, WorkerTypeOK
<1> QED
  BY <1>1, <1>2, <1>3 DEF Phases, WorkerNotForgotten, workerVars, queueVars

\* The main thread's own steps: start, notification, poll, stop, return.
LEMMA PhasesMain == TypeOK /\ Phases /\ (MainRuns \/ Throw) => Phases'
<1> SUFFICES ASSUME TypeOK, Phases, MainRuns \/ Throw PROVE Phases'
  OBVIOUS
<1>t. notifying \in [{Main} -> {"none", "one", "all"}] /\ waiting \subseteq {Worker}
  BY DEF TypeOK, WorkerTypeOK
<1> USE DEF Phases, WorkerNotForgotten, workerVars, queueVars
<1>1. CASE StartWorker
  BY <1>1 DEF StartWorker
<1>2. CASE MainNotifies
  \* The only reader there is has been woken.
  <2>1. waiting' = {} /\ UNCHANGED <<queue, closed, workerPc, mainPc, level, threshold>>
    BY <1>2, <1>t DEF MainNotifies, Q!NotifyOne, Q!NotifyAll, mainVars
  <2>2. mainPc = "done" => FALSE
    BY <1>2 DEF MainNotifies, Q!NotifyOne, Q!NotifyAll
  <2> QED
    BY <2>1, <2>2
<1>3. CASE PollLastError
  BY <1>3 DEF PollLastError
<1>4. CASE StopCloses
  BY <1>4, <1>t DEF StopCloses, Q!Close
<1>5. CASE Return
  BY <1>5 DEF Return, Joined
<1>6. CASE CatchException
  BY <1>6 DEF CatchException, Joined
<1>7. CASE Throw
  BY <1>7 DEF Throw
<1> QED
  BY <1>1, <1>2, <1>3, <1>4, <1>5, <1>6, <1>7 DEF MainRuns

\* The steps of the worker, and its wake-ups.
LEMMA PhasesWorker ==
    TypeOK /\ Phases /\ (WorkerRuns \/ WorkerWakes) /\ UNCHANGED mainVars => Phases'
<1> SUFFICES ASSUME TypeOK, Phases, WorkerRuns \/ WorkerWakes, UNCHANGED mainVars
             PROVE  Phases'
  OBVIOUS
<1>t. notifying \in [{Main} -> {"none", "one", "all"}] /\ waiting \subseteq {Worker}
  BY DEF TypeOK, WorkerTypeOK
<1> USE DEF Phases, WorkerNotForgotten, workerVars, queueVars, mainVars
<1>1. CASE WorkerWaits
  BY <1>1 DEF WorkerWaits, Q!PopWait
<1>2. CASE WorkerWakes
  BY <1>2, <1>t DEF WorkerWakes, Q!SpuriousWakeup
<1>3. CASE WorkerTakes
  BY <1>3, <1>t DEF WorkerTakes, Q!PopTake
<1>4. CASE WorkerEnds
  BY <1>4, <1>t DEF WorkerEnds, Q!PopFinish, Q!queueVars
<1>5. ASSUME UNCHANGED queueVars, workerPc \in {"handle", "written", "failed"},
             workerPc' \in {"pop", "written", "failed"}
      PROVE  Phases'
  BY <1>5
<1> QED
  BY <1>1, <1>2, <1>3, <1>4, <1>5
     DEF WorkerRuns, ApplyLevel, DropBelowThreshold, LogWrites, CountProcessed, LogFails,
         CountFailed

\* So the phases of the two threads always agree.
LEMMA PhasesKept == Spec => []Phases
<1>1. TypeOK /\ Phases /\ [Next]_vars => Phases'
  <2> SUFFICES ASSUME Phases, UNCHANGED vars PROVE Phases'
    BY PhasesUser, PhasesMain, PhasesWorker DEF Next, WorkerStep, Done
  <2> QED
    BY DEF Phases, WorkerNotForgotten, vars, workerVars, queueVars, mainVars
<1> QED
  BY <1>1, PhasesInitial, TypeCorrect, PTL DEF Spec

\* run() is left, by return or by an exception, only when the worker's thread
\* cannot touch the queue and the worker any more (ConsoleApp.cpp:42-43,83,
\* LogWorker.cpp:14-26).
THEOREM NothingOutlives == Spec => []NothingOutlivesRun
<1>1. TypeOK /\ Phases => NothingOutlivesRun
  BY DEF Phases, NothingOutlivesRun
<1> QED
  BY <1>1, TypeCorrect, PhasesKept, PTL

\* A worker that sleeps with work or the end before it is about to be woken
\* (EventQueue.cpp:6-14,25-32).
THEOREM NotForgotten == Spec => []WorkerNotForgotten
<1>1. Phases => WorkerNotForgotten
  BY DEF Phases
<1> QED
  BY <1>1, PhasesKept, PTL

-----------------------------------------------------------------------------
(* The counters of the worker, between the two writes of each outcome.      *)
Counters ==
    /\ workerPc = "failed" \/ failed > 0 => lastError \in Reasons
    /\ Len(written) = processed + (IF workerPc = "written" THEN 1 ELSE 0)
    /\ exit # "none" => mainPc = "done"
    /\ ExitTellsFailures

\* Nothing is counted at first.
LEMMA CountersInitial == Init => Counters
  BY DEF Init, WorkerInit, Counters, ExitTellsFailures

\* The main thread reads the counters and changes none.
LEMMA CountersMain == TypeOK /\ Phases /\ Counters /\ (MainRuns \/ Throw \/ UserTypes) => Counters'
<1> SUFFICES ASSUME TypeOK, Phases, Counters, MainRuns \/ Throw \/ UserActs PROVE Counters'
  BY UserTypesActs DEF TypeOK
<1> USE DEF Counters, ExitTellsFailures, workerVars
<1>t. failed \in Nat /\ processed \in Nat /\ Len(written) \in Nat
  BY LenProperties DEF TypeOK, WorkerTypeOK
<1>1. CASE StartWorker
  BY <1>1 DEF StartWorker, Phases
<1>2. CASE MainNotifies
  BY <1>2 DEF MainNotifies, mainVars
<1>3. CASE PollLastError \/ StopCloses \/ Throw \/ UserActs
  <2>1. /\ UNCHANGED <<workerVars, exit, summary>>
        /\ mainPc # "done"
    BY <1>3 DEF PollLastError, StopCloses, Throw, UserActs, ReadMessage, ReadLevel,
                ReadOther, ReadQuit, ReadEof, ReadsLine
  <2> QED
    BY <2>1
<1>4. CASE Return
  BY <1>4, <1>t DEF Return, Joined
<1>5. CASE CatchException
  BY <1>5 DEF CatchException
<1> QED
  BY <1>1, <1>2, <1>3, <1>4, <1>5 DEF MainRuns

\* The worker stores the reason before the count (LogWorker.cpp:41-72).
LEMMA CountersWorker ==
    TypeOK /\ Phases /\ Counters /\ (WorkerRuns \/ WorkerWakes) /\ UNCHANGED mainVars
        => Counters'
<1> SUFFICES ASSUME TypeOK, Phases, Counters, WorkerRuns \/ WorkerWakes, UNCHANGED mainVars
             PROVE  Counters'
  OBVIOUS
<1> USE DEF Counters, workerVars, mainVars
<1>t. failed \in Nat /\ processed \in Nat /\ written \in Seq(1..MaxLines) /\ Len(written) \in Nat
  BY LenProperties DEF TypeOK, WorkerTypeOK
<1>1. CASE \/ WorkerWaits \/ WorkerWakes \/ WorkerTakes \/ WorkerEnds
           \/ ApplyLevel \/ DropBelowThreshold
  <2>1. /\ UNCHANGED <<written, lastError, processed, failed>>
        /\ workerPc' \in {"written", "failed"} <=> workerPc \in {"written", "failed"}
        /\ workerPc' = "written" <=> workerPc = "written"
    BY <1>1 DEF WorkerWaits, WorkerWakes, WorkerTakes, WorkerEnds, ApplyLevel,
                DropBelowThreshold
  <2> QED
    BY <2>1 DEF ExitTellsFailures
<1>2. ASSUME workerPc \in {"handle", "written", "failed"} PROVE exit = "none"
  BY <1>2 DEF Phases
<1>3. CASE LogWrites
  <2>1. event.id \in 1..MaxLines
    BY <1>3, EventsAreTyped DEF LogWrites, Writes, TypeOK, WorkerTypeOK
  <2>2. Len(written') = Len(written) + 1
    BY <1>3, <1>t, <2>1, AppendProperties DEF LogWrites
  <2> QED
    BY <1>2, <1>3, <1>t, <2>2 DEF LogWrites, ExitTellsFailures
<1>4. CASE CountProcessed
  BY <1>2, <1>4, <1>t DEF CountProcessed, ExitTellsFailures
<1>5. ASSUME NEW reason \in Reasons, LogFails(reason) PROVE Counters'
  BY <1>2, <1>5, <1>t DEF LogFails, ExitTellsFailures
<1>6. CASE CountFailed
  BY <1>2, <1>6, <1>t DEF CountFailed, ExitTellsFailures
<1> QED
  BY <1>1, <1>3, <1>4, <1>5, <1>6 DEF WorkerRuns

\* So the counters agree in every reachable state.
LEMMA CountersKept == Spec => []Counters
<1>1. TypeOK /\ Phases /\ Counters /\ [Next]_vars => Counters'
  <2> SUFFICES ASSUME Counters, UNCHANGED vars PROVE Counters'
    BY CountersMain, CountersWorker DEF Next, WorkerStep, Done
  <2> QED
    BY DEF Counters, ExitTellsFailures, vars, workerVars, mainVars
<1> QED
  BY <1>1, CountersInitial, TypeCorrect, PhasesKept, PTL DEF Spec

\* The exit code is WriteFailed exactly when a message was lost, the summary
\* then names a reason, and it counts what was written (ConsoleApp.cpp:83-92,
\* LogWorker.cpp:41-47,67-71).
THEOREM ExitIsHonest == Spec => []ExitTellsFailures
<1>1. Counters => ExitTellsFailures
  BY DEF Counters
<1> QED
  BY <1>1, CountersKept, PTL

-----------------------------------------------------------------------------
(* The level that the logger will have at each event in flight.             *)

\* An event appended at the end leaves the levels before it as they are.
LEMMA AppendKeepsLevels ==
    ASSUME NEW evts \in Seq(Events), NEW e \in Events, NEW start, NEW l,
           NEW i \in 1..(Len(evts) + 1), HasLevelAt(evts, start, i, l)
    PROVE  HasLevelAt(Append(evts, e), start, i, l)
<1>1. \A k \in 1..(i - 1) : Append(evts, e)[k] = evts[k]
  BY AppendProperties
<1> QED
  BY <1>1 DEF HasLevelAt

\* A message does not change the level, so what follows it has the same.
LEMMA AppendWriteKeepsLevel ==
    ASSUME NEW evts \in Seq(Events), NEW e \in Events, e.kind = "write",
           NEW start, NEW l, HasLevelAt(evts, start, Len(evts) + 1, l)
    PROVE  HasLevelAt(Append(evts, e), start, Len(evts) + 2, l)
<1>1. /\ \A k \in 1..Len(evts) : Append(evts, e)[k] = evts[k]
      /\ Append(evts, e)[Len(evts) + 1] = e
      /\ Len(evts) \in Nat
  BY AppendProperties, LenProperties
<1> QED
  BY <1>1 DEF HasLevelAt

\* A level change does, for all that follows it.
LEMMA AppendLevelChange ==
    ASSUME NEW evts \in Seq(Events), NEW e \in Events, e.kind = "setLevel", NEW start
    PROVE  HasLevelAt(Append(evts, e), start, Len(evts) + 2, e.level)
<1>1. Append(evts, e)[Len(evts) + 1] = e /\ Len(evts) \in Nat
  BY AppendProperties, LenProperties
<1> QED
  BY <1>1 DEF HasLevelAt

\* What the logger does with the first event is what the levels expect.
LEMMA HandlingKeepsLevels ==
    ASSUME NEW evts \in Seq(Events), evts # << >>, NEW start, NEW l,
           NEW i \in 1..Len(evts), HasLevelAt(evts, start, i + 1, l)
    PROVE  HasLevelAt(Tail(evts),
                      IF evts[1].kind = "setLevel" THEN evts[1].level ELSE start, i, l)
<1>1. /\ Len(evts) \in Nat
      /\ \A k \in 1..(i - 1) : Tail(evts)[k] = evts[k + 1]
  BY LenProperties, HeadTailProperties
<1>2. evts[1] \in Events /\ evts[1].kind \in {"write", "setLevel"}
  BY <1>1, ElementOfSeq, EventsAreTyped
<1>3. ASSUME NEW j \in 1..i, evts[j].kind = "setLevel", evts[j].level = l,
             \A k \in (j + 1)..i : evts[k].kind = "write"
      PROVE  HasLevelAt(Tail(evts),
                      IF evts[1].kind = "setLevel" THEN evts[1].level ELSE start, i, l)
  <2>1. CASE j = 1
    <3>1. \A k \in 1..(i - 1) : k + 1 \in 2..i /\ Tail(evts)[k].kind = "write"
      BY <1>1, <1>3, <2>1
    <3> QED
      BY <1>3, <2>1, <3>1 DEF HasLevelAt
  <2>2. CASE j > 1
    <3>1. j - 1 \in 1..(i - 1) /\ Tail(evts)[j - 1] = evts[j]
      BY <1>1, <2>2
    <3>2. \A k \in ((j - 1) + 1)..(i - 1) : Tail(evts)[k].kind = "write"
      <4> TAKE k \in ((j - 1) + 1)..(i - 1)
      <4>1. k \in 1..(i - 1) /\ k + 1 \in (j + 1)..i
        BY <2>2
      <4> QED
        BY <4>1, <1>1, <1>3
    <3> QED
      BY <1>3, <3>1, <3>2 DEF HasLevelAt
  <2> QED
    BY <2>1, <2>2
<1>4. ASSUME \A k \in 1..i : evts[k].kind = "write", l = start
      PROVE  HasLevelAt(Tail(evts),
                      IF evts[1].kind = "setLevel" THEN evts[1].level ELSE start, i, l)
  <2>1. \A k \in 1..(i - 1) : k + 1 \in 1..i /\ Tail(evts)[k].kind = "write"
    BY <1>1, <1>4
  <2>2. evts[1].kind = "write"
    BY <1>4
  <2> QED
    BY <1>4, <2>1, <2>2 DEF HasLevelAt
<1> QED
  BY <1>3, <1>4 DEF HasLevelAt

\* What the actions do to the events in flight: a push appends to them, taking
\* an event leaves them as they are, and the handled event is their first.
LEMMA PushIsInFlight ==
    ASSUME TypeOK, NEW e \in Events, queue' = Append(queue, e), UNCHANGED <<workerPc, event>>
    PROVE  InFlight' = Append(InFlight, e) /\ InFlight \in Seq(Events)
<1>1. queue \in Seq(Events) /\ <<event>> \in Seq(Events) /\ << >> \in Seq(Events)
      /\ <<e>> \in Seq(Events)
  BY DEF TypeOK, WorkerTypeOK
<1> DEFINE taken == IF workerPc = "handle" THEN <<event>> ELSE << >>
<1>2. taken \in Seq(Events) /\ taken' = taken
  BY <1>1
<1>3. Append(queue, e) = queue \o <<e>>
  BY <1>1, AppendIsConcat
<1>4. taken \o queue \in Seq(Events)
  BY <1>1, <1>2, ConcatProperties
<1>5. Append(taken \o queue, e) = (taken \o queue) \o <<e>>
  BY <1>4, AppendIsConcat
<1>6. (taken \o queue) \o <<e>> = taken \o (queue \o <<e>>)
  BY <1>1, <1>2, ConcatAssociative
<1>7. InFlight = taken \o queue /\ InFlight' = taken' \o queue'
  BY DEF InFlight
<1> HIDE DEF taken
<1> QED
  BY <1>2, <1>3, <1>4, <1>5, <1>6, <1>7

\* The events in flight are events, the one in work first.
LEMMA InFlightTyped ==
    ASSUME TypeOK
    PROVE  /\ InFlight \in Seq(Events) /\ queue \in Seq(Events)
           /\ workerPc # "handle" => InFlight = queue
           /\ workerPc = "handle" =>
                /\ InFlight # << >> /\ Len(InFlight) = Len(queue) + 1
                /\ InFlight[1] = event /\ Tail(InFlight) = queue
<1>1. queue \in Seq(Events) /\ <<event>> \in Seq(Events) /\ << >> \in Seq(Events)
  BY DEF TypeOK, WorkerTypeOK
<1>2. CASE workerPc # "handle"
  BY <1>1, <1>2, ConcatEmptySeq DEF InFlight
<1>3. CASE workerPc = "handle"
  <2>1. InFlight = <<event>> \o queue
    BY <1>3 DEF InFlight
  <2>2. /\ InFlight \in Seq(Events) /\ Len(InFlight) = Len(queue) + 1
        /\ InFlight[1] = event
        /\ \A k \in 1..Len(queue) : InFlight[k + 1] = queue[k]
    BY <1>1, <2>1, ConcatProperties, LenProperties
  <2>3. InFlight # << >>
    BY <1>1, <2>2, LenProperties, EmptySeq
  <2>4. /\ Tail(InFlight) \in Seq(Events) /\ Len(Tail(InFlight)) = Len(queue)
        /\ \A k \in 1..Len(queue) : Tail(InFlight)[k] = queue[k]
    BY <1>1, <2>2, <2>3, HeadTailProperties, LenProperties
  <2>5. Tail(InFlight) = queue
    BY <1>1, <2>4, SeqEqual
  <2> QED
    BY <1>1, <1>3, <2>2, <2>3, <2>5
<1> QED
  BY <1>2, <1>3

\* The event that is taken stays in flight.
LEMMA TakenIsInFlight ==
    ASSUME TypeOK, queue # << >>, queue' = Tail(queue), event' = Head(queue),
           workerPc = "pop", workerPc' = "handle"
    PROVE  InFlight' = InFlight
<1>1. queue \in Seq(Events)
  BY DEF TypeOK, WorkerTypeOK
<1>2. InFlight = queue
  BY InFlightTyped
<1>3. InFlight' = <<Head(queue)>> \o Tail(queue)
  BY DEF InFlight
<1>4. /\ Head(queue) \in Events /\ Tail(queue) \in Seq(Events)
      /\ Len(Tail(queue)) = Len(queue) - 1 /\ Len(queue) \in Nat
      /\ Head(queue) = queue[1]
      /\ \A i \in 1..Len(Tail(queue)) : Tail(queue)[i] = queue[i + 1]
  BY <1>1, HeadTailProperties, LenProperties
<1>5. <<Head(queue)>> \in Seq(Events) /\ Len(<<Head(queue)>>) = 1
  BY <1>4
<1>6. /\ <<Head(queue)>> \o Tail(queue) \in Seq(Events)
      /\ Len(<<Head(queue)>> \o Tail(queue)) = Len(queue)
      /\ \A i \in 1..Len(queue) : (<<Head(queue)>> \o Tail(queue))[i] =
             IF i <= 1 THEN <<Head(queue)>>[i] ELSE Tail(queue)[i - 1]
  BY <1>4, <1>5, ConcatProperties
<1>7. \A i \in 1..Len(queue) : (<<Head(queue)>> \o Tail(queue))[i] = queue[i]
  BY <1>4, <1>6
<1>8. <<Head(queue)>> \o Tail(queue) = queue
  BY <1>1, <1>6, <1>7, SeqEqual
<1> QED
  BY <1>2, <1>3, <1>8

(* LevelCopyIsAhead speaks of the end of the queue.  For every message in it *)
(* that was typed without a level, the logger will have the message's level. *)
InputOrder ==
    /\ LevelCopyIsAhead
    /\ \A i \in 1..Len(InFlight) :
          InFlight[i].kind = "write" /\ InFlight[i].byDefault
              => HasLevelAt(InFlight, threshold, i, InFlight[i].level)

\* Nothing is in flight at first.
LEMMA InputOrderInitial == Init => InputOrder
<1> SUFFICES ASSUME Init PROVE InputOrder
  OBVIOUS
<1>1. InFlight = << >>
  BY ConcatEmptySeq, EmptySeq DEF Init, WorkerInit, Q!QueueInit, InFlight
<1> QED
  BY <1>1 DEF InputOrder, LevelCopyIsAhead, HasLevelAt, Init

\* A push of the main thread, of a message or of a level change.
LEMMA InputOrderPush ==
    ASSUME TypeOK, InputOrder, NEW e \in Events, queue' = Append(queue, e),
           UNCHANGED <<workerPc, event, threshold>>,
           e.kind = "write" => level' = level /\ (e.byDefault => e.level = level),
           e.kind = "setLevel" => level' = e.level
    PROVE  InputOrder'
<1>1. /\ InFlight \in Seq(Events) /\ InFlight' = Append(InFlight, e)
      /\ Len(InFlight) \in Nat /\ Len(InFlight') = Len(InFlight) + 1
      /\ \A i \in 1..Len(InFlight) : InFlight'[i] = InFlight[i]
      /\ InFlight'[Len(InFlight) + 1] = e
  BY PushIsInFlight, AppendProperties, LenProperties
<1>2. HasLevelAt(InFlight, threshold, Len(InFlight) + 1, level)
  BY DEF InputOrder, LevelCopyIsAhead
<1>3. HasLevelAt(InFlight', threshold', Len(InFlight') + 1, level')
  <2>1. CASE e.kind = "write"
    <3>1. HasLevelAt(Append(InFlight, e), threshold, Len(InFlight) + 2, level)
      BY <1>1, <1>2, <2>1, AppendWriteKeepsLevel
    <3> QED
      BY <1>1, <2>1, <3>1
  <2>2. CASE e.kind = "setLevel"
    <3>1. HasLevelAt(Append(InFlight, e), threshold, Len(InFlight) + 2, e.level)
      BY <1>1, <2>2, AppendLevelChange
    <3> QED
      BY <1>1, <2>2, <3>1
  <2> QED
    BY <2>1, <2>2, EventsAreTyped
<1>4. ASSUME NEW i \in 1..Len(InFlight'),
             InFlight'[i].kind = "write", InFlight'[i].byDefault
      PROVE  HasLevelAt(InFlight', threshold', i, InFlight'[i].level)
  <2>1. i \in 1..(Len(InFlight) + 1)
    BY <1>1
  <2>2. HasLevelAt(InFlight, threshold, i, InFlight'[i].level)
    <3>1. CASE i \in 1..Len(InFlight)
      BY <1>1, <1>4, <3>1 DEF InputOrder
    <3>2. CASE i = Len(InFlight) + 1
      BY <1>1, <1>2, <1>4, <3>2
    <3> QED
      BY <2>1, <3>1, <3>2, <1>1
  <2>3. HasLevelAt(Append(InFlight, e), threshold, i, InFlight'[i].level)
    BY <1>1, <2>1, <2>2, AppendKeepsLevels
  <2> QED
    BY <1>1, <2>3
<1> QED
  BY <1>3, <1>4 DEF InputOrder, LevelCopyIsAhead

\* The worker finishes with the event it had taken.
LEMMA InputOrderHandled ==
    ASSUME TypeOK, TypeOK', InputOrder, workerPc = "handle", workerPc' # "handle",
           UNCHANGED <<queue, level>>,
           threshold' = IF event.kind = "setLevel" THEN event.level ELSE threshold
    PROVE  InputOrder'
<1>1. /\ InFlight \in Seq(Events) /\ InFlight # << >> /\ InFlight[1] = event
      /\ Tail(InFlight) = queue /\ Len(InFlight) = Len(queue) + 1
      /\ queue \in Seq(Events) /\ Len(queue) \in Nat
  BY InFlightTyped, LenProperties
<1>2. InFlight' = queue
  <2>1. InFlight' = queue'
    BY ConcatEmptySeq DEF InFlight, TypeOK, WorkerTypeOK
  <2> QED
    BY <2>1
<1>3. \A k \in 1..Len(queue) : queue[k] = InFlight[k + 1]
  BY <1>1, HeadTailProperties
<1>4. ASSUME NEW i \in 1..Len(InFlight), NEW l, HasLevelAt(InFlight, threshold, i + 1, l)
      PROVE  HasLevelAt(queue, threshold', i, l)
  BY <1>1, <1>4, HandlingKeepsLevels
<1>5. HasLevelAt(queue, threshold', Len(queue) + 1, level)
  <2>1. Len(InFlight) \in 1..Len(InFlight)
    BY <1>1
  <2> QED
    BY <1>1, <1>4, <2>1 DEF InputOrder, LevelCopyIsAhead
<1>6. ASSUME NEW i \in 1..Len(queue), queue[i].kind = "write", queue[i].byDefault
      PROVE  HasLevelAt(queue, threshold', i, queue[i].level)
  <2>1. i + 1 \in 1..Len(InFlight) /\ i \in 1..Len(InFlight) /\ InFlight[i + 1] = queue[i]
    BY <1>1, <1>3
  <2>2. HasLevelAt(InFlight, threshold, i + 1, queue[i].level)
    BY <2>1, <1>6 DEF InputOrder
  <2> QED
    BY <1>4, <2>1, <2>2
<1> QED
  BY <1>2, <1>5, <1>6 DEF InputOrder, LevelCopyIsAhead

\* Steps that leave the events in flight and both levels alone.
LEMMA InputOrderStutter ==
    ASSUME InputOrder, InFlight' = InFlight, UNCHANGED <<threshold, level>>
    PROVE  InputOrder'
  BY DEF InputOrder, LevelCopyIsAhead

\* Steps of the main thread between two lines leave the order alone.
LEMMA InputOrderMain ==
    ASSUME TypeOK, InputOrder, Phases, MainRuns \/ Throw
    PROVE  InputOrder'
<1>1. /\ UNCHANGED <<queue, event, threshold, level>>
      /\ workerPc' = "handle" <=> workerPc = "handle"
  BY DEF MainRuns, Throw, StartWorker, MainNotifies, PollLastError, StopCloses, Return,
         CatchException, Q!NotifyOne, Q!NotifyAll, Q!Close, workerVars, mainVars,
         queueVars, Phases
<1>2. InFlight' = InFlight
  BY <1>1 DEF InFlight
<1> QED
  BY <1>1, <1>2, InputOrderStutter

\* A line adds its event behind those in flight (ConsoleApp.cpp:55-72).
LEMMA InputOrderUser ==
    ASSUME TypeOK, InputOrder, Phases, UserTypes
    PROVE  InputOrder'
<1>a. UserActs
  BY UserTypesActs DEF TypeOK
<1>0. ~ closed
  BY <1>a DEF UserActs, ReadMessage, ReadLevel, ReadOther, ReadQuit, ReadEof, ReadsLine, Phases
<1>1. ASSUME NEW l \in Levels, NEW d \in BOOLEAN, d => l = level, ReadMessage(l, d)
      PROVE  InputOrder'
  <2>1. UNCHANGED <<workerPc, event, threshold, level>>
    BY <1>1 DEF ReadMessage, ReadsLine, workerVars
  <2> DEFINE e == SWrite(l, lines + 1, d)
  <2>2. queue' = Append(queue, e)
    BY <1>0, <1>1 DEF ReadMessage, Q!Push
  <2>3. lines + 1 \in 1..MaxLines
    BY <1>1, LogWorkerAssumption DEF ReadMessage, ReadsLine, TypeOK
  <2>4. e \in Events
    BY <2>3, EventsAreTyped
  <2>5. e.kind = "write" /\ (e.byDefault => e.level = level)
    BY <1>1 DEF ReadMessage, SWrite
  <2> HIDE DEF e
  <2> QED
    BY <2>1, <2>2, <2>4, <2>5, InputOrderPush
<1>2. ASSUME NEW l \in Levels, ReadLevel(l) PROVE InputOrder'
  <2> DEFINE e == SSetLevel(l)
  <2>1. /\ UNCHANGED <<workerPc, event, threshold>>
        /\ queue' = Append(queue, e)
    BY <1>0, <1>2 DEF ReadLevel, ReadsLine, Q!Push, workerVars
  <2>2. e \in Events /\ e.kind = "setLevel" /\ level' = e.level
    BY <1>2, EventsAreTyped DEF ReadLevel, SSetLevel
  <2> HIDE DEF e
  <2> QED
    BY <2>1, <2>2, InputOrderPush
<1>3. CASE ReadOther \/ ReadQuit \/ ReadEof
  <2>1. UNCHANGED <<queue, workerPc, event, threshold, level>>
    BY <1>3 DEF ReadOther, ReadQuit, ReadEof, ReadsLine, workerVars, queueVars
  <2>2. InFlight' = InFlight
    BY <2>1 DEF InFlight
  <2> QED
    BY <2>1, <2>2, InputOrderStutter
<1> QED
  BY <1>a, <1>1, <1>2, <1>3 DEF UserActs

\* The worker takes events from the front and applies them in order.
LEMMA InputOrderWorker ==
    ASSUME TypeOK, TypeOK', InputOrder, WorkerRuns \/ WorkerWakes, UNCHANGED mainVars
    PROVE  InputOrder'
<1>1. level' = level
  BY DEF mainVars
<1>2. CASE WorkerTakes
  <2>1. /\ queue \in Seq(Events) /\ queue # << >> /\ queue' = Tail(queue)
        /\ workerPc = "pop" /\ workerPc' = "handle" /\ event' = Head(queue)
        /\ threshold' = threshold
    BY <1>2 DEF WorkerTakes, Q!PopTake, TypeOK, WorkerTypeOK
  <2>2. InFlight' = InFlight
    BY <2>1, TakenIsInFlight
  <2> QED
    BY <1>1, <2>1, <2>2, InputOrderStutter
<1>3. CASE ApplyLevel \/ DropBelowThreshold \/ LogWrites
           \/ \E reason \in Reasons : LogFails(reason)
  <2>1. /\ workerPc = "handle" /\ workerPc' # "handle" /\ queue' = queue
        /\ threshold' = IF event.kind = "setLevel" THEN event.level ELSE threshold
    BY <1>3 DEF ApplyLevel, DropBelowThreshold, LogWrites, LogFails, queueVars
  <2> QED
    BY <1>1, <2>1, InputOrderHandled
<1>4. CASE WorkerWaits \/ WorkerWakes \/ WorkerEnds \/ CountProcessed \/ CountFailed
  <2>1. /\ UNCHANGED <<queue, event, threshold>>
        /\ workerPc' = "handle" <=> workerPc = "handle"
    BY <1>4 DEF WorkerWaits, WorkerWakes, WorkerEnds, CountProcessed, CountFailed, Q!PopWait,
                Q!SpuriousWakeup, Q!PopFinish, Q!queueVars, queueVars, workerVars
  <2>2. InFlight' = InFlight
    BY <2>1 DEF InFlight
  <2> QED
    BY <1>1, <2>1, <2>2, InputOrderStutter
<1> QED
  BY <1>2, <1>3, <1>4 DEF WorkerRuns

\* So levels always take effect in the order of the input.
LEMMA InputOrderKept == Spec => []InputOrder
<1>1. TypeOK /\ TypeOK' /\ Phases /\ InputOrder /\ [Next]_vars => InputOrder'
  <2> SUFFICES ASSUME InputOrder, UNCHANGED vars PROVE InputOrder'
    BY InputOrderUser, InputOrderMain, InputOrderWorker DEF Next, WorkerStep, Done
  <2>1. InFlight' = InFlight
    BY DEF InFlight, vars, workerVars, queueVars
  <2> QED
    BY <2>1, InputOrderStutter DEF vars, workerVars, mainVars
<1> QED
  BY <1>1, InputOrderInitial, TypeCorrect, PhasesKept, PTL DEF Spec

\* The copy of the level that run() keeps is the level the logger will have at
\* the end of what is queued (ConsoleApp.cpp:47,61-63, LogWorker.cpp:80).
THEOREM LevelCopyAhead == Spec => []LevelCopyIsAhead
<1>1. InputOrder => LevelCopyIsAhead
  BY DEF InputOrder
<1> QED
  BY <1>1, InputOrderKept, PTL

\* A message without a level of its own is never dropped by the threshold, for
\* any interleaving of the two threads (ConsoleApp.cpp:55-66, LogWorker.cpp:51).
THEOREM DefaultsAreLogged == Spec => []DefaultMessageNotDropped
<1>1. TypeOK /\ InputOrder => DefaultMessageNotDropped
  <2> SUFFICES ASSUME TypeOK, InputOrder, workerPc = "handle", event.kind = "write",
                      event.byDefault
               PROVE  IsEnabled(event.level)
    BY DEF DefaultMessageNotDropped
  <2>1. InFlight[1] = event /\ 1 \in 1..Len(InFlight)
    BY InFlightTyped, LenProperties
  <2>2. HasLevelAt(InFlight, threshold, 1, event.level)
    BY <2>1 DEF InputOrder
  <2>3. event.level = threshold /\ threshold \in Nat
    BY <2>2, LogWorkerAssumption DEF HasLevelAt, TypeOK, WorkerTypeOK
  <2> QED
    BY <2>3 DEF IsEnabled
<1> QED
  BY <1>1, InputOrderKept, TypeCorrect, PTL

-----------------------------------------------------------------------------
(* What is due of the events in flight, one event at a time.                *)

Messages == [level : Levels, id : 1..MaxLines]
Judgements == [level : Levels, due : Seq(Messages)]

NothingJudged(l) == [level |-> l, due |-> << >>]

\* Before the first line, at any level.
LEMMA NothingJudgedType == \A l \in Levels : NothingJudged(l) \in Judgements
  BY DEF NothingJudged, Judgements

\* The three things that can be made of an event.
LEMMA HandleCases ==
    ASSUME NEW judged \in Judgements, NEW e \in Events
    PROVE  /\ e.kind = "setLevel" =>
                  /\ Handle(judged, e).level = e.level
                  /\ Handle(judged, e).due = judged.due
           /\ e.kind = "write" /\ e.level >= judged.level =>
                  /\ [level |-> e.level, id |-> e.id] \in Messages
                  /\ Handle(judged, e).level = judged.level
                  /\ Handle(judged, e).due = Append(judged.due, [level |-> e.level, id |-> e.id])
           /\ e.kind = "write" /\ ~ (e.level >= judged.level) => Handle(judged, e) = judged
           /\ Handle(judged, e) \in Judgements
           /\ Handle(judged, e) =
                [level |-> Handle(judged, e).level, due |-> Handle(judged, e).due]
<1>1. judged.level \in Levels /\ judged.due \in Seq(Messages)
  BY DEF Judgements
<1>2. CASE e.kind = "setLevel"
  BY <1>1, <1>2, EventsAreTyped DEF Handle, Judgements
<1>3. CASE e.kind = "write" /\ e.level >= judged.level
  <2>1. e.level \in Levels /\ e.id \in 1..MaxLines
    BY <1>3, EventsAreTyped DEF Writes
  <2> DEFINE m == [level |-> e.level, id |-> e.id]
  <2>2. m \in Messages
    BY <2>1 DEF Messages
  <2>3. Handle(judged, e) = [level |-> judged.level, due |-> Append(judged.due, m)]
    BY <1>3 DEF Handle
  <2> HIDE DEF m
  <2>4. Append(judged.due, m) \in Seq(Messages)
    BY <1>1, <2>2, AppendProperties
  <2>5. Handle(judged, e) \in Judgements
    BY <1>1, <2>3, <2>4 DEF Judgements
  <2>6. /\ Handle(judged, e).level = judged.level
        /\ Handle(judged, e).due = Append(judged.due, m)
    BY <2>3
  <2>7. Handle(judged, e) = [level |-> Handle(judged, e).level, due |-> Handle(judged, e).due]
    BY <2>3, <2>6
  <2> QED
    BY <1>3, <2>2, <2>5, <2>6, <2>7 DEF m
<1>4. CASE e.kind = "write" /\ ~ (e.level >= judged.level)
  BY <1>1, <1>4 DEF Handle, Judgements
<1> QED
  BY <1>2, <1>3, <1>4, EventsAreTyped

\* The level that is left after a line.
LEMMA HandleLevel ==
    ASSUME NEW judged \in Judgements, NEW e \in Events
    PROVE  Handle(judged, e).level = IF e.kind = "setLevel" THEN e.level ELSE judged.level
BY HandleCases, EventsAreTyped

\* Appending to the second of two parts.
LEMMA AppendBehind ==
    ASSUME NEW a \in Seq(Messages), NEW b \in Seq(Messages), NEW m \in Messages
    PROVE  Append(a \o b, m) = a \o Append(b, m)
<1>1. <<m>> \in Seq(Messages) /\ a \o b \in Seq(Messages)
  BY ConcatProperties
<1>2. Append(b, m) = b \o <<m>> /\ Append(a \o b, m) = (a \o b) \o <<m>>
  BY <1>1, AppendIsConcat
<1>3. a \o (b \o <<m>>) = (a \o b) \o <<m>>
  BY <1>1, ConcatAssociative
<1>4. QED
  BY <1>2, <1>3

\* Judged() is what its recursion says.
LEMMA JudgedSteps ==
    ASSUME NEW evts \in Seq(Events), NEW l \in Levels
    PROVE  \E f \in [0..Len(evts) -> Judgements] :
              /\ f[0] = NothingJudged(l)
              /\ \A n \in 1..Len(evts) : f[n] = Handle(f[n - 1], evts[n])
              /\ Judged(evts, l) = f[Len(evts)]
<1> DEFINE N == Len(evts)
           base == NothingJudged(l)
           Solves(f) == f = [n \in 0..N |-> IF n = 0 THEN base ELSE Handle(f[n - 1], evts[n])]
           step == [n \in 1..N |-> [v \in Judgements |-> Handle(v, evts[n])]]
           judged == CHOOSE f : Solves(f)
<1>1. N \in Nat /\ \A n \in 1..N : evts[n] \in Events
  BY ElementOfSeq
<1>2. Judged(evts, l) = judged[N]
  BY DEF Judged, NothingJudged
<1>b. base \in Judgements
  BY NothingJudgedType
<1>c. base = NothingJudged(l)
  OBVIOUS
<1> HIDE DEF N, base
<1>3. \E f : Solves(f)
  <2>1. \A n \in 1..N, v \in Judgements : step[n][v] = Handle(v, evts[n]) /\ step[n][v] \in Judgements
    BY <1>1, HandleCases
  <2> HIDE DEF step
  <2>2. PICK f \in [0..N -> Judgements] :
           f[0] = base /\ \A n \in 1..N : f[n] = step[n][f[n - 1]]
    <3>1. StaysIn(Judgements, N, step)
      BY <2>1 DEF StaysIn
    <3>2. \E f \in [0..N -> Judgements] : Iterates(f, base, N, step)
      BY <1>1, <1>b, <3>1, RecursionExists
    <3>3. QED BY <3>2 DEF Iterates
  <2>3. ASSUME NEW n \in 0..N
        PROVE  f[n] = IF n = 0 THEN base ELSE Handle(f[n - 1], evts[n])
    <3>1. CASE n = 0
      BY <2>2, <3>1
    <3>2. CASE n # 0
      <4>1. n \in 1..N /\ n - 1 \in 0..N
        BY <1>1, <3>2
      <4>2. f[n] = step[n][f[n - 1]] /\ f[n - 1] \in Judgements
        BY <2>2, <3>2, <4>1
      <4>3. QED BY <2>1, <3>2, <4>1, <4>2
    <3>3. QED BY <3>1, <3>2
  <2> DEFINE g == [n \in 0..N |-> IF n = 0 THEN base ELSE Handle(f[n - 1], evts[n])]
  <2>4. f = g
    <3>1. \A n \in 0..N : f[n] = g[n]
      BY <2>3
    <3>2. f = [n \in 0..N |-> f[n]] /\ g = [n \in 0..N |-> g[n]]
      OBVIOUS
    <3> HIDE DEF g
    <3>3. QED BY <3>1, <3>2
  <2>5. Solves(f)
    BY <2>4
  <2>6. QED BY <2>5
<1>4. Solves(judged)
  <2> HIDE DEF Solves
  <2>1. QED BY <1>3
<1> HIDE DEF judged
<1>5. judged[0] = base /\ \A n \in 1..N : judged[n] = Handle(judged[n - 1], evts[n])
  BY <1>1, <1>4
<1> DEFINE K == {n \in Nat : n =< N => judged[n] \in Judgements}
<1>6. 0 \in K
  BY <1>5, <1>b
<1>7. ASSUME NEW n \in Nat, n \in K PROVE n + 1 \in K
  <2> SUFFICES ASSUME n + 1 =< N PROVE judged[n + 1] \in Judgements
    OBVIOUS
  <2>1. n + 1 \in 1..N /\ (n + 1) - 1 = n /\ judged[n] \in Judgements
    BY <1>1, <1>7
  <2>2. judged[n + 1] = Handle(judged[n], evts[n + 1])
    BY <1>5, <2>1
  <2>3. QED BY <1>1, <2>1, <2>2, HandleCases
<1>8. Nat \subseteq K
  <2> HIDE DEF K
  <2>1. QED BY <1>6, <1>7, SetInduction
<1>9. judged \in [0..N -> Judgements]
  BY <1>1, <1>4, <1>8
<1>10. QED
  BY <1>2, <1>5, <1>9, <1>c DEF N

\* Nothing is due when nothing is in flight.
LEMMA JudgedNothing ==
    ASSUME NEW l \in Levels
    PROVE  Judged(<< >>, l) = NothingJudged(l)
<1>1. << >> \in Seq(Events) /\ Len(<< >>) = 0
  OBVIOUS
<1>2. PICK f \in [0..Len(<< >>) -> Judgements] :
         f[0] = NothingJudged(l) /\ Judged(<< >>, l) = f[Len(<< >>)]
  BY <1>1, JudgedSteps
<1>3. QED
  BY <1>1, <1>2

\* Judging lines gives a judgement of them.
LEMMA JudgedType ==
    ASSUME NEW evts \in Seq(Events), NEW l \in Levels
    PROVE  Judged(evts, l) \in Judgements
<1>1. PICK f \in [0..Len(evts) -> Judgements] : Judged(evts, l) = f[Len(evts)]
  BY JudgedSteps
<1>2. QED
  BY <1>1, LenProperties

\* The event that is queued last is judged last.
LEMMA JudgedLast ==
    ASSUME NEW evts \in Seq(Events), NEW e \in Events, NEW l \in Levels
    PROVE  Judged(Append(evts, e), l) = Handle(Judged(evts, l), e)
<1> DEFINE more == Append(evts, e)
           N == Len(evts)
<1>1. /\ N \in Nat /\ more \in Seq(Events) /\ Len(more) = N + 1
      /\ more[N + 1] = e /\ \A n \in 1..N : more[n] = evts[n]
  BY AppendProperties, LenProperties
<1> HIDE DEF more, N
<1>2. PICK f \in [0..N -> Judgements] :
         /\ f[0] = NothingJudged(l)
         /\ \A n \in 1..N : f[n] = Handle(f[n - 1], evts[n])
         /\ Judged(evts, l) = f[N]
  BY JudgedSteps DEF N
<1>3. PICK g \in [0..(N + 1) -> Judgements] :
         /\ g[0] = NothingJudged(l)
         /\ \A n \in 1..(N + 1) : g[n] = Handle(g[n - 1], more[n])
         /\ Judged(more, l) = g[N + 1]
  <2>1. \E g \in [0..Len(more) -> Judgements] :
         /\ g[0] = NothingJudged(l)
         /\ \A n \in 1..Len(more) : g[n] = Handle(g[n - 1], more[n])
         /\ Judged(more, l) = g[Len(more)]
    BY <1>1, JudgedSteps
  <2>2. QED BY <1>1, <2>1
<1> DEFINE K == {n \in Nat : n =< N => f[n] = g[n]}
<1>4. 0 \in K
  BY <1>2, <1>3
<1>5. ASSUME NEW n \in Nat, n \in K PROVE n + 1 \in K
  <2> SUFFICES ASSUME n + 1 =< N PROVE f[n + 1] = g[n + 1]
    OBVIOUS
  <2>1. n + 1 \in 1..N /\ n + 1 \in 1..(N + 1) /\ (n + 1) - 1 = n /\ f[n] = g[n]
    BY <1>1, <1>5
  <2>2. f[n + 1] = Handle(f[n], evts[n + 1])
    BY <1>2, <2>1
  <2>3. g[n + 1] = Handle(g[n], more[n + 1])
    BY <1>3, <2>1
  <2>4. QED BY <1>1, <2>1, <2>2, <2>3
<1>6. Nat \subseteq K
  <2> HIDE DEF K
  <2>1. QED BY <1>4, <1>5, SetInduction
<1>7. f[N] = g[N]
  BY <1>1, <1>6
<1>8. g[N + 1] = Handle(g[N], more[N + 1])
  <2>1. N + 1 \in 1..(N + 1) /\ (N + 1) - 1 = N
    BY <1>1
  <2>2. QED BY <1>3, <2>1
<1>9. QED
  BY <1>1, <1>2, <1>3, <1>7, <1>8 DEF more

\* The event that is handled first was judged first: what it makes due comes
\* before what the others make due at the level it leaves.
LEMMA JudgedFirst ==
    ASSUME NEW evts \in Seq(Events), NEW e \in Events, NEW l \in Levels,
           NEW all \in Seq(Events), Len(all) = Len(evts) + 1, all[1] = e,
           \A n \in 1..Len(evts) : all[n + 1] = evts[n]
    PROVE  LET first == Handle(NothingJudged(l), e)
           IN  Judged(all, l).due = first.due \o Judged(evts, first.level).due
<1> DEFINE first == Handle(NothingJudged(l), e)
           N == Len(evts)
<1>1. N \in Nat /\ Len(all) = N + 1 /\ \A n \in 1..N : all[n + 1] = evts[n] /\ evts[n] \in Events
  BY LenProperties, ElementOfSeq
<1>2. first \in Judgements /\ first.level \in Levels /\ first.due \in Seq(Messages)
  BY NothingJudgedType, HandleCases DEF Judgements
<1> HIDE DEF N
<1>3. PICK g \in [0..(N + 1) -> Judgements] :
         /\ g[0] = NothingJudged(l)
         /\ \A n \in 1..(N + 1) : g[n] = Handle(g[n - 1], all[n])
         /\ Judged(all, l) = g[N + 1]
  <2>1. \E g \in [0..Len(all) -> Judgements] :
         /\ g[0] = NothingJudged(l)
         /\ \A n \in 1..Len(all) : g[n] = Handle(g[n - 1], all[n])
         /\ Judged(all, l) = g[Len(all)]
    BY JudgedSteps
  <2>2. QED BY <1>1, <2>1
<1>4. g[1] = first
  <2>1. 1 \in 1..(N + 1) /\ 1 - 1 = 0
    BY <1>1
  <2>2. QED BY <1>3, <2>1
<1> HIDE DEF first
<1>5. PICK f \in [0..N -> Judgements] :
         /\ f[0] = NothingJudged(first.level)
         /\ \A n \in 1..N : f[n] = Handle(f[n - 1], evts[n])
         /\ Judged(evts, first.level) = f[N]
  BY <1>2, JudgedSteps DEF N
<1> DEFINE Same(n) == /\ g[n + 1].level = f[n].level
                      /\ g[n + 1].due = first.due \o f[n].due
           K == {n \in Nat : n =< N => Same(n)}
<1>6. 0 \in K
  <2>1. f[0].level = first.level /\ f[0].due = << >>
    BY <1>5 DEF NothingJudged
  <2>2. first.due \o << >> = first.due
    BY <1>2, ConcatEmptySeq
  <2>3. 0 + 1 = 1
    OBVIOUS
  <2>4. Same(0)
    BY <1>4, <2>1, <2>2, <2>3
  <2> HIDE DEF Same
  <2>5. QED BY <2>4
<1>7. ASSUME NEW n \in Nat, n \in K PROVE n + 1 \in K
  <2> HIDE DEF Same
  <2> SUFFICES ASSUME n + 1 =< N PROVE Same(n + 1)
    OBVIOUS
  <2>a. Same(n)
    BY <1>1, <1>7
  <2> USE DEF Same
  <2>b. g[n + 1].level = f[n].level /\ g[n + 1].due = first.due \o f[n].due
    BY <2>a
  <2>1. /\ n + 1 \in 1..N /\ n + 2 \in 1..(N + 1) /\ (n + 1) - 1 = n /\ (n + 2) - 1 = n + 1
        /\ (n + 1) + 1 = n + 2 /\ n \in 0..N /\ n + 1 \in 0..(N + 1)
    BY <1>1
  <2> DEFINE a == evts[n + 1]
  <2>2. a \in Events /\ all[n + 2] = a
    BY <1>1, <2>1
  <2> HIDE DEF a
  <2>3. f[n + 1] = Handle(f[n], a) /\ f[n] \in Judgements
    BY <1>5, <2>1 DEF a
  <2>4. g[n + 2] = Handle(g[n + 1], a) /\ g[n + 1] \in Judgements
    BY <1>3, <2>1, <2>2
  <2> DEFINE fn == f[n]
             gn == g[n + 1]
  <2>c. f[n + 1] = Handle(fn, a) /\ g[n + 2] = Handle(gn, a)
    BY <2>3, <2>4
  <2>5. /\ fn \in Judgements /\ gn \in Judgements /\ gn.level = fn.level
        /\ gn.due = first.due \o fn.due /\ f[n + 1] = Handle(fn, a) /\ g[n + 2] = Handle(gn, a)
    BY <2>b, <2>c, <2>3, <2>4
  <2> HIDE DEF fn, gn
  <2>6. /\ Handle(gn, a).level = Handle(fn, a).level
        /\ Handle(gn, a).due = first.due \o Handle(fn, a).due
    <3>1. CASE a.kind = "setLevel"
      <4>1. Handle(fn, a).level = a.level /\ Handle(fn, a).due = fn.due
        BY <2>2, <2>5, <3>1, HandleCases
      <4>2. Handle(gn, a).level = a.level /\ Handle(gn, a).due = gn.due
        BY <2>2, <2>5, <3>1, HandleCases
      <4> QED
        BY <2>5, <4>1, <4>2
    <3>2. CASE a.kind = "write" /\ a.level >= fn.level
      <4> DEFINE m == [level |-> a.level, id |-> a.id]
      <4>1. /\ m \in Messages
            /\ Handle(fn, a).level = fn.level /\ Handle(fn, a).due = Append(fn.due, m)
        BY <2>2, <2>5, <3>2, HandleCases
      <4>2. Handle(gn, a).level = gn.level /\ Handle(gn, a).due = Append(gn.due, m)
        BY <2>2, <2>5, <3>2, HandleCases
      <4> HIDE DEF m
      <4> DEFINE before == first.due
                 due == fn.due
      <4>3. due \in Seq(Messages) /\ before \in Seq(Messages)
        BY <1>2, <2>5 DEF Judgements
      <4> HIDE DEF before, due
      <4>4. Append(before \o due, m) = before \o Append(due, m)
        BY <4>1, <4>3, AppendBehind
      <4>5. Append(first.due \o fn.due, m) = first.due \o Append(fn.due, m)
        BY <4>4 DEF before, due
      <4> QED
        BY <2>5, <4>1, <4>2, <4>5
    <3>3. CASE a.kind = "write" /\ ~ (a.level >= fn.level)
      BY <2>2, <2>5, <3>3, HandleCases
    <3> QED
      BY <2>2, <3>1, <3>2, <3>3, EventsAreTyped
  <2>7. QED
    BY <2>1, <2>5, <2>6
<1>8. Nat \subseteq K
  <2> HIDE DEF K
  <2>1. QED BY <1>6, <1>7, SetInduction
<1>9. g[N + 1].due = first.due \o f[N].due
  <2> HIDE DEF Same
  <2>1. Same(N)
    BY <1>1, <1>8
  <2> USE DEF Same
  <2>2. QED BY <2>1
<1>10. QED
  BY <1>3, <1>5, <1>9 DEF first

\* The level that HasLevelAt() gives the end of the events is the one after them.
LEMMA JudgedLevel ==
    ASSUME NEW evts \in Seq(Events), NEW start \in Levels, NEW l,
           HasLevelAt(evts, start, Len(evts) + 1, l)
    PROVE  Judged(evts, start).level = l
<1> DEFINE N == Len(evts)
<1>1. N \in Nat /\ \A n \in 1..N : evts[n] \in Events
  BY ElementOfSeq
<1>2. PICK f \in [0..N -> Judgements] :
         /\ f[0] = NothingJudged(start)
         /\ \A n \in 1..N : f[n] = Handle(f[n - 1], evts[n])
         /\ Judged(evts, start) = f[N]
  BY JudgedSteps
<1>3. \E j \in 0..N : f[j].level = l /\ \A k \in (j + 1)..N : evts[k].kind = "write"
  <2>1. (N + 1) - 1 = N
    BY <1>1
  <2>2. CASE \E j \in 1..N : /\ evts[j].kind = "setLevel" /\ evts[j].level = l
                             /\ \A k \in (j + 1)..N : evts[k].kind = "write"
    <3>1. PICK j \in 1..N : /\ evts[j].kind = "setLevel" /\ evts[j].level = l
                            /\ \A k \in (j + 1)..N : evts[k].kind = "write"
      BY <2>2
    <3>2. j - 1 \in 0..N /\ j \in 0..N
      BY <1>1
    <3>3. f[j] = Handle(f[j - 1], evts[j]) /\ f[j - 1] \in Judgements
      BY <1>2, <3>2
    <3>4. f[j].level = l
      BY <1>1, <3>1, <3>3, HandleLevel
    <3> HIDE DEF N
    <3>5. QED BY <3>1, <3>2, <3>4
  <2>3. CASE /\ \A k \in 1..N : evts[k].kind = "write"
             /\ l = start
    <3>1. f[0].level = l
      BY <1>2, <2>3 DEF NothingJudged
    <3>2. 0 \in 0..N /\ \A k \in (0 + 1)..N : evts[k].kind = "write"
      BY <1>1, <2>3
    <3> HIDE DEF N
    <3>3. QED BY <3>1, <3>2
  <2>4. QED
    BY <2>1, <2>2, <2>3 DEF HasLevelAt
<1> HIDE DEF N
<1>4. PICK j \in 0..N : f[j].level = l /\ \A k \in (j + 1)..N : evts[k].kind = "write"
  BY <1>3
<1> DEFINE K == {n \in Nat : j =< n /\ n =< N => f[n].level = l}
<1>5. 0 \in K
  BY <1>1, <1>4
<1>6. ASSUME NEW n \in Nat, n \in K PROVE n + 1 \in K
  <2> SUFFICES ASSUME j =< n + 1, n + 1 =< N PROVE f[n + 1].level = l
    OBVIOUS
  <2>1. CASE j = n + 1
    BY <1>4, <2>1
  <2>2. CASE j # n + 1
    <3>1. j =< n /\ n + 1 \in 1..N /\ n + 1 \in (j + 1)..N /\ n \in 0..N /\ (n + 1) - 1 = n
      BY <1>1, <1>4, <2>2
    <3>2. f[n + 1] = Handle(f[n], evts[n + 1]) /\ f[n] \in Judgements /\ evts[n + 1] \in Events
      BY <1>1, <1>2, <3>1
    <3>3. f[n].level = l /\ evts[n + 1].kind = "write"
      BY <1>1, <1>4, <1>6, <3>1
    <3>4. Handle(f[n], evts[n + 1]).level = f[n].level
      BY <3>2, <3>3, HandleLevel
    <3>5. QED BY <3>2, <3>3, <3>4
  <2>3. QED BY <2>1, <2>2
<1>7. Nat \subseteq K
  <2> HIDE DEF K
  <2>1. QED BY <1>5, <1>6, SetInduction
<1>8. f[N].level = l
  BY <1>1, <1>4, <1>7
<1>9. QED
  BY <1>2, <1>8

-----------------------------------------------------------------------------
(* The application is the sequential log, step by step.                     *)

\* What is due before the events in flight are handled, and after the first.
LEMMA ConsHeadTail ==
    ASSUME NEW m \in Messages, NEW s \in Seq(Messages)
    PROVE  <<m>> \o s # << >> /\ Head(<<m>> \o s) = m /\ Tail(<<m>> \o s) = s
<1> DEFINE c == <<m>> \o s
<1>1. /\ c \in Seq(Messages) /\ Len(c) = Len(s) + 1 /\ Len(s) \in Nat
      /\ c[1] = m /\ \A k \in 1..Len(s) : c[k + 1] = s[k]
  <2>1. <<m>> \in Seq(Messages) /\ Len(<<m>>) = 1 /\ <<m>>[1] = m
    OBVIOUS
  <2> QED
    BY <2>1, ConcatProperties, LenProperties
<1> HIDE DEF c
<1>2. c # << >>
  BY <1>1, EmptySeq
<1>3. /\ Head(c) = m /\ Tail(c) \in Seq(Messages) /\ Len(Tail(c)) = Len(s)
      /\ \A k \in 1..Len(s) : Tail(c)[k] = s[k]
  BY <1>1, <1>2, HeadTailProperties
<1>4. Tail(c) = s
  BY <1>1, <1>3, SeqEqual
<1> QED
  BY <1>2, <1>3, <1>4 DEF c

\* Nothing is due at first.
LEMMA PromiseInitial == Init => Promise!Init
<1> SUFFICES ASSUME Init PROVE Promise!Init
  OBVIOUS
<1>1. InFlight = << >>
  BY ConcatEmptySeq, EmptySeq DEF Init, WorkerInit, Q!QueueInit, InFlight
<1>2. threshold \in Levels /\ Judged(<< >>, threshold) = NothingJudged(threshold)
  BY JudgedNothing DEF Init, WorkerInit
<1>3. Due(InFlight, threshold) = << >>
  BY <1>1, <1>2 DEF Due, NothingJudged
<1> QED
  BY <1>2, <1>3 DEF Init, WorkerInit, Q!QueueInit, NoSummary, Promise!Init

\* A line is a message judged by the level where it was typed, a change of the
\* level, or nothing.
LEMMA PromiseUser ==
    ASSUME TypeOK, Phases, InputOrder, UserTypes
    PROVE  [Promise!Next]_(Promise!vars)
<1>a. UserActs
  BY UserTypesActs DEF TypeOK
<1>0. ~ closed
  BY <1>a DEF UserActs, ReadMessage, ReadLevel, ReadOther, ReadQuit, ReadEof, ReadsLine, Phases
<1>t. /\ threshold \in Levels /\ InFlight \in Seq(Events)
      /\ Judged(InFlight, threshold) \in Judgements
      /\ Judged(InFlight, threshold).level = level
  <2>1. threshold \in Levels /\ InFlight \in Seq(Events)
    BY InFlightTyped DEF TypeOK, WorkerTypeOK
  <2>2. HasLevelAt(InFlight, threshold, Len(InFlight) + 1, level)
    BY DEF InputOrder, LevelCopyIsAhead
  <2> QED
    BY <2>1, <2>2, JudgedType, JudgedLevel
<1>1. ASSUME NEW l \in Levels, NEW d \in BOOLEAN, ReadMessage(l, d)
      PROVE  \E m \in Promise!Messages : Promise!TypeMessage(m)
  <2> DEFINE e == SWrite(l, lines + 1, d)
             m == [level |-> l, id |-> lines + 1]
  <2>1. lines + 1 \in 1..MaxLines
    BY <1>1, LogWorkerAssumption DEF ReadMessage, ReadsLine, TypeOK
  <2>2. e \in Events /\ e.kind = "write" /\ [level |-> e.level, id |-> e.id] = m
    BY <2>1, EventsAreTyped DEF SWrite
  <2>3. m \in Promise!Messages
    BY <2>1 DEF Promise!Messages
  <2>4. queue' = Append(queue, e) /\ UNCHANGED <<workerPc, event, threshold, level>>
    BY <1>0, <1>1 DEF ReadMessage, ReadsLine, Q!Push, workerVars
  <2> HIDE DEF e
  <2>5. InFlight' = Append(InFlight, e)
    BY <2>2, <2>4, PushIsInFlight
  <2>6. Judged(InFlight', threshold') = Handle(Judged(InFlight, threshold), e)
    BY <1>t, <2>2, <2>4, <2>5, JudgedLast
  <2>7. Handle(Judged(InFlight, threshold), e).due =
           IF l >= level THEN Append(Judged(InFlight, threshold).due, m)
           ELSE Judged(InFlight, threshold).due
    <3>1. e.level = l
      BY <2>2
    <3>2. CASE l >= level
      BY <1>t, <2>2, <3>1, <3>2, HandleCases
    <3>3. CASE ~ (l >= level)
      BY <1>t, <2>2, <3>1, <3>3, HandleCases
    <3> QED
      BY <3>2, <3>3
  <2> DEFINE due == Due(InFlight, threshold)
  <2>8. due' = IF l >= level THEN Append(due, m) ELSE due
    BY <2>6, <2>7 DEF Due
  <2>9. mainPc = "read" /\ mainPc' = "poll" /\ UNCHANGED <<workerVars, level, exit, summary>>
    BY <1>1 DEF ReadMessage, ReadsLine
  <2>10. m.level = l
    OBVIOUS
  <2> HIDE DEF due, m
  <2>11. Promise!TypeMessage(m)
    BY <2>8, <2>9, <2>10 DEF Promise!TypeMessage, workerVars, due
  <2> QED
    BY <2>3, <2>11
<1>2. ASSUME NEW l \in Levels, ReadLevel(l) PROVE Promise!ChangeLevel(l)
  <2> DEFINE e == SSetLevel(l)
  <2>1. e \in Events /\ e.kind = "setLevel"
    BY EventsAreTyped DEF SSetLevel
  <2>2. queue' = Append(queue, e) /\ UNCHANGED <<workerPc, event, threshold>> /\ level' = l
    BY <1>0, <1>2 DEF ReadLevel, ReadsLine, Q!Push, workerVars
  <2> HIDE DEF e
  <2>3. InFlight' = Append(InFlight, e)
    BY <2>1, <2>2, PushIsInFlight
  <2>4. Judged(InFlight', threshold') = Handle(Judged(InFlight, threshold), e)
    BY <1>t, <2>1, <2>2, <2>3, JudgedLast
  <2>5. Due(InFlight, threshold)' = Due(InFlight, threshold)
    BY <1>t, <2>1, <2>4, HandleCases DEF Due
  <2>6. mainPc = "read" /\ mainPc' = "poll" /\ UNCHANGED <<workerVars, exit, summary>>
    BY <1>2 DEF ReadLevel, ReadsLine
  <2> QED
    BY <2>2, <2>5, <2>6 DEF Promise!ChangeLevel, workerVars
<1>3. ASSUME ReadOther \/ ReadQuit \/ ReadEof
      PROVE  Due(InFlight, threshold)' = Due(InFlight, threshold)
  <2>1. UNCHANGED <<queue, workerPc, event, threshold>>
    BY <1>3 DEF ReadOther, ReadQuit, ReadEof, ReadsLine, workerVars, queueVars
  <2>2. InFlight' = InFlight
    BY <2>1 DEF InFlight
  <2> QED
    BY <2>1, <2>2
<1>4. CASE ReadOther \/ ReadQuit
  BY <1>3, <1>4 DEF ReadOther, ReadQuit, ReadsLine, workerVars, Promise!vars
<1>5. CASE ReadEof
  <2>1. Promise!EndInput
    BY <1>3, <1>5 DEF ReadEof, workerVars, Promise!EndInput
  <2> QED
    BY <2>1 DEF Promise!Next
<1> QED
  BY <1>a, <1>1, <1>2, <1>4, <1>5 DEF UserActs, Promise!Next

\* The main thread ends the input and, once nothing is due, the program.
LEMMA PromiseMain ==
    ASSUME TypeOK, Phases, Counters, MainRuns \/ Throw
    PROVE  [Promise!Next]_(Promise!vars)
<1>1. /\ UNCHANGED <<queue, event, threshold, level, written, failed>>
      /\ workerPc' = "handle" <=> workerPc = "handle"
      /\ workerPc' = "failed" <=> workerPc = "failed"
  BY DEF MainRuns, Throw, StartWorker, MainNotifies, PollLastError, StopCloses, Return,
         CatchException, Q!NotifyOne, Q!NotifyAll, Q!Close, workerVars, mainVars,
         queueVars, Phases
<1>2. InFlight' = InFlight
  BY <1>1 DEF InFlight
<1>3. Due(InFlight, threshold)' = Due(InFlight, threshold)
  BY <1>1, <1>2
<1>4. CASE StartWorker \/ MainNotifies \/ StopCloses
  <2>1. /\ UNCHANGED <<unwinding, exit, summary>>
        /\ mainPc' \in {"start", "read", "poll"} <=> mainPc \in {"start", "read", "poll"}
    BY <1>4 DEF StartWorker, MainNotifies, StopCloses, mainVars
  <2> QED
    BY <1>1, <1>3, <2>1 DEF Promise!vars
<1>5. CASE PollLastError \/ Throw
  <2>1. CASE mainPc' = "read"
    BY <1>1, <1>3, <1>5, <2>1 DEF PollLastError, Throw, Promise!vars
  <2>2. CASE mainPc' # "read"
    <3>1. /\ mainPc \in {"start", "read", "poll"} /\ mainPc' = "close"
          /\ UNCHANGED <<exit, summary>>
      BY <1>5, <2>2 DEF PollLastError, Throw
    <3>2. Promise!EndInput
      BY <1>1, <1>3, <3>1 DEF Promise!EndInput
    <3> QED
      BY <3>2 DEF Promise!Next
  <2> QED
    BY <2>1, <2>2
<1>6. CASE Return \/ CatchException
  <2>1. /\ workerPc \in {"unstarted", "ended"} /\ mainPc = "join" /\ mainPc' = "done"
        /\ UNCHANGED <<workerPc, unwinding>>
    BY <1>6 DEF Return, CatchException, Joined, workerVars
  <2>2. queue = << >> /\ exit = "none"
    BY <2>1 DEF Phases, Counters
  <2>3. Due(InFlight, threshold) = << >>
    <3>1. InFlight = << >> /\ threshold \in Levels
      BY <2>1, <2>2, InFlightTyped DEF TypeOK, WorkerTypeOK
    <3> QED
      BY <3>1, JudgedNothing DEF Due, NothingJudged
  <2>4. Len(written) = processed
    BY <2>1 DEF Counters, TypeOK, WorkerTypeOK
  <2>5. CASE Return
    <3>1. /\ ~ unwinding
          /\ summary'.processed = processed /\ summary'.failed = failed
          /\ exit' = IF failed > 0 THEN "WriteFailed" ELSE "Success"
      BY <2>5 DEF Return
    <3>2. Promise!Exit
      BY <1>1, <1>3, <2>1, <2>2, <2>3, <2>4, <3>1 DEF Promise!Exit
    <3> QED
      BY <3>2 DEF Promise!Next
  <2>6. CASE CatchException
    <3>1. unwinding /\ exit' = "InternalError" /\ summary' = summary
      BY <2>6 DEF CatchException
    <3>2. Promise!ExitOnException
      BY <1>1, <1>3, <2>1, <2>2, <2>3, <3>1 DEF Promise!ExitOnException
    <3> QED
      BY <3>2 DEF Promise!Next
  <2> QED
    BY <1>6, <2>5, <2>6
<1> QED
  BY <1>4, <1>5, <1>6 DEF MainRuns

\* What is due when the worker is done with the event it had taken.
LEMMA DueHandled ==
    ASSUME TypeOK, TypeOK', workerPc = "handle", workerPc' # "handle", UNCHANGED queue,
           threshold' = IF event.kind = "setLevel" THEN event.level ELSE threshold
    PROVE  /\ event.kind = "write" /\ event.level >= threshold =>
                /\ Due(InFlight, threshold) # << >>
                /\ Head(Due(InFlight, threshold)).id = event.id
                /\ Due(InFlight, threshold)' = Tail(Due(InFlight, threshold))
           /\ ~ (event.kind = "write" /\ event.level >= threshold) =>
                Due(InFlight, threshold)' = Due(InFlight, threshold)
<1> DEFINE start == NothingJudged(threshold)
           first == Handle(start, event)
           later == Due(queue, threshold')
<1>1. /\ InFlight \in Seq(Events) /\ InFlight # << >> /\ InFlight[1] = event
      /\ Tail(InFlight) = queue /\ Len(InFlight) = Len(queue) + 1
      /\ queue \in Seq(Events) /\ Len(queue) \in Nat
  BY InFlightTyped, LenProperties
<1>2. \A k \in 1..Len(queue) : InFlight[k + 1] = queue[k]
  BY <1>1, HeadTailProperties
<1>3. /\ threshold \in Levels /\ threshold' \in Levels /\ event \in Events
      /\ start \in Judgements /\ start.level = threshold /\ start.due = << >>
  BY NothingJudgedType DEF TypeOK, WorkerTypeOK, NothingJudged
<1> DEFINE flying == InFlight
<1>4. Judged(InFlight, threshold).due = first.due \o Judged(queue, first.level).due
  <2>1. /\ queue \in Seq(Events) /\ event \in Events /\ threshold \in Levels
        /\ flying \in Seq(Events) /\ Len(flying) = Len(queue) + 1 /\ flying[1] = event
        /\ \A k \in 1..Len(queue) : flying[k + 1] = queue[k]
    BY <1>1, <1>2, <1>3
  <2> HIDE DEF flying, start, first, later
  <2>2. Judged(flying, threshold).due = Handle(NothingJudged(threshold), event).due
           \o Judged(queue, Handle(NothingJudged(threshold), event).level).due
    BY <2>1, JudgedFirst
  <2> QED
    BY <2>2 DEF flying, start, first
<1>5. InFlight' = queue
  <2>1. InFlight' = queue'
    BY ConcatEmptySeq DEF InFlight, TypeOK, WorkerTypeOK
  <2> QED
    BY <2>1
<1>6. Due(InFlight, threshold)' = later /\ later \in Seq(Messages)
  <2>1. Judged(queue, threshold') \in Judgements
    BY <1>1, <1>3, JudgedType
  <2> QED
    BY <1>5, <2>1 DEF Due, Judgements
<1> HIDE DEF start
<1>7. first.level = threshold'
  BY <1>3, HandleLevel
<1>8. Due(InFlight, threshold) = first.due \o later
  BY <1>4, <1>7 DEF Due
<1> HIDE DEF later
<1>9. CASE event.kind = "write" /\ event.level >= threshold
  <2> DEFINE m == [level |-> event.level, id |-> event.id]
  <2>1. m \in Messages /\ first.due = Append(start.due, m)
    BY <1>3, <1>9, HandleCases
  <2>2. Append(<< >>, m) = <<m>> /\ m.id = event.id
    OBVIOUS
  <2> HIDE DEF m, first
  <2>3. Due(InFlight, threshold) = <<m>> \o later
    BY <1>3, <1>8, <2>1, <2>2
  <2>4. <<m>> \o later # << >> /\ Head(<<m>> \o later) = m /\ Tail(<<m>> \o later) = later
    BY <1>6, <2>1, ConsHeadTail
  <2> QED
    BY <1>6, <1>9, <2>2, <2>3, <2>4
<1>10. CASE ~ (event.kind = "write" /\ event.level >= threshold)
  <2>1. first.due = << >>
    <3>1. CASE event.kind = "setLevel"
      BY <1>3, <3>1, HandleCases
    <3>2. CASE event.kind = "write"
      BY <1>3, <1>10, <3>2, HandleCases
    <3> QED
      BY <1>3, <3>1, <3>2, EventsAreTyped
  <2>2. << >> \o later = later
    BY <1>6, ConcatEmptySeq
  <2> QED
    BY <1>6, <1>8, <1>10, <2>1, <2>2
<1> QED
  BY <1>9, <1>10

\* The worker writes or loses what is due, in order.
LEMMA PromiseWorker ==
    ASSUME TypeOK, TypeOK', WorkerRuns \/ WorkerWakes, UNCHANGED mainVars
    PROVE  [Promise!Next]_(Promise!vars)
<1>0. UNCHANGED <<mainPc, level, unwinding, exit, summary>>
  BY DEF mainVars
<1>1. CASE WorkerWaits \/ WorkerWakes \/ WorkerEnds \/ CountProcessed \/ CountFailed
  <2>1. /\ UNCHANGED <<queue, event, threshold, written>>
        /\ workerPc' = "handle" <=> workerPc = "handle"
    BY <1>1 DEF WorkerWaits, WorkerWakes, WorkerEnds, CountProcessed, CountFailed, Q!PopWait,
                Q!SpuriousWakeup, Q!PopFinish, Q!queueVars, queueVars, workerVars
  <2>2. InFlight' = InFlight
    BY <2>1 DEF InFlight
  <2>3. Due(InFlight, threshold)' = Due(InFlight, threshold)
    BY <2>1, <2>2
  <2>4. (IF workerPc = "failed" THEN failed + 1 ELSE failed)'
           = IF workerPc = "failed" THEN failed + 1 ELSE failed
    BY <1>1 DEF WorkerWaits, WorkerWakes, WorkerEnds, CountProcessed, CountFailed, workerVars
  <2> QED
    BY <1>0, <2>1, <2>3, <2>4 DEF Promise!vars
<1>2. CASE WorkerTakes
  <2>1. /\ queue \in Seq(Events) /\ queue # << >> /\ queue' = Tail(queue)
        /\ workerPc = "pop" /\ workerPc' = "handle" /\ event' = Head(queue)
        /\ UNCHANGED <<threshold, written, failed>>
    BY <1>2 DEF WorkerTakes, Q!PopTake, TypeOK, WorkerTypeOK
  <2>2. InFlight' = InFlight
    BY <2>1, TakenIsInFlight
  <2>3. Due(InFlight, threshold)' = Due(InFlight, threshold)
    BY <2>1, <2>2
  <2> QED
    BY <1>0, <2>1, <2>3 DEF Promise!vars
<1>3. CASE ApplyLevel \/ DropBelowThreshold
  <2>1. /\ workerPc = "handle" /\ workerPc' = "pop" /\ UNCHANGED <<queue, written, failed>>
        /\ threshold' = IF event.kind = "setLevel" THEN event.level ELSE threshold
        /\ ~ (event.kind = "write" /\ event.level >= threshold)
    BY <1>3 DEF ApplyLevel, DropBelowThreshold, IsEnabled, queueVars
  <2>2. Due(InFlight, threshold)' = Due(InFlight, threshold)
    BY <2>1, DueHandled
  <2> QED
    BY <1>0, <2>1, <2>2 DEF Promise!vars
<1>4. CASE LogWrites
  <2>1. /\ workerPc = "handle" /\ workerPc' = "written" /\ UNCHANGED <<queue, threshold, failed>>
        /\ event.kind = "write" /\ event.level >= threshold /\ written' = Append(written, event.id)
    BY <1>4 DEF LogWrites, IsEnabled, queueVars
  <2>2. /\ Due(InFlight, threshold) # << >>
        /\ Head(Due(InFlight, threshold)).id = event.id
        /\ Due(InFlight, threshold)' = Tail(Due(InFlight, threshold))
    BY <2>1, DueHandled
  <2>3. Promise!Write
    BY <1>0, <2>1, <2>2 DEF Promise!Write
  <2> QED
    BY <2>3 DEF Promise!Next
<1>5. ASSUME NEW reason \in Reasons, LogFails(reason) PROVE Promise!Lose
  <2>1. /\ workerPc = "handle" /\ workerPc' = "failed" /\ UNCHANGED <<queue, threshold, written, failed>>
        /\ event.kind = "write" /\ event.level >= threshold
    BY <1>5 DEF LogFails, IsEnabled, queueVars
  <2>2. /\ Due(InFlight, threshold) # << >>
        /\ Due(InFlight, threshold)' = Tail(Due(InFlight, threshold))
    BY <2>1, DueHandled
  <2> QED
    BY <1>0, <2>1, <2>2 DEF Promise!Lose
<1> QED
  BY <1>1, <1>2, <1>3, <1>4, <1>5 DEF WorkerRuns, Promise!Next

\* Every behaviour of the two threads and their queue is one of the sequential
\* log: each step types a message, changes the level, writes or loses the oldest
\* message that is due, ends the input, exits, or is invisible
\* (ConsoleApp.cpp:34-93, LogWorker.cpp:41-80).  That what is due is attempted in
\* the end is the fairness of ImplementsSequentialLog, which TLC checks.
THEOREM StepsOfTheLog == Spec => Promise!Init /\ [][Promise!Next]_(Promise!vars)
<1>1. TypeOK /\ TypeOK' /\ Phases /\ Counters /\ InputOrder /\ [Next]_vars
        => [Promise!Next]_(Promise!vars)
  <2> SUFFICES ASSUME TypeOK, UNCHANGED vars PROVE UNCHANGED Promise!vars
    BY PromiseUser, PromiseMain, PromiseWorker DEF Next, WorkerStep, Done
  <2>1. InFlight' = InFlight
    BY DEF InFlight, vars, workerVars, queueVars
  <2>2. Due(InFlight, threshold)' = Due(InFlight, threshold)
    BY <2>1 DEF vars, workerVars
  <2> QED
    BY <2>2 DEF Promise!vars, vars, workerVars, mainVars
<1> QED
  BY <1>1, PromiseInitial, TypeCorrect, PhasesKept, CountersKept, InputOrderKept, PTL DEF Spec
=============================================================================

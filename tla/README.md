# Models and proofs of loggerlib

This directory holds TLA+ models of the logging library, of the console
application that uses it and of the collector that receives its records. TLC
checks the models on small instances; TLAPS proves some of the results for every
value of the constants. The reference is the code under `src/`; `PROJECT.json`
maps each definition to its lines.

To run them: `tlc -config ConsoleApp.cfg MCConsoleApp`, `tlapm
ConsoleApp_proofs.tla`, and so on. The runs are listed under "Runs".

## 1. The system

Three programs in one repository:

```
 stdin -> ConsoleApp -> EventQueue -> LogWorker -> ILogger
                                                     | SinkLogger (mutex) -> MultiSink
                                                     |-> FileSink
                                                     |-> TcpSink ---- TCP ----> TcpReceiver -> LineReader \
                                                     '-> UdpSink ---- UDP ----> UdpReceiver                > CollectorApp -> Statistics
```

The inventory below gives, for each component, its state, its operations, with
whom it interacts, what is hard about it and what makes it correct. "Model" is
the module; section 6 says what the models leave out.

### Application (`src/app`)

| Component | State | Operations | Hard | Correct when | Model |
|---|---|---|---|---|---|
| EventQueue | deque of events, `m_closed`, mutex, condition variable | `push`, `pop`, `close` | notification after unlock, several writers and readers, spurious wake-ups | no lost wake-up; a closed queue only drains; nobody sleeps on a closed queue | `EventQueue` |
| LogWorker | thread, `m_lastError` under a mutex, atomic `m_processed`, `m_failed` | `start`, `stop`, `loop`, `write`, `recordFailure` | reason and count are two stores; shutdown while the thread sleeps or writes | counts and reason describe what was written; the thread ends | `LogWorker` |
| ConsoleApp | locals of `run()`: queue, worker, level, reported reason | one visitor case per kind of input, poll of the last error, shutdown | its copy of the level runs ahead of the logger; locals must outlive the thread, also under an exception | the program behaves like a log without threads; honest summary and exit code | `ConsoleApp`, `SequentialLog`, `ConsoleAppLog` |
| InputParser | none | `parseUserInput` | order of the tests on a line | a line has the level it gives, or the default | `InputParser` |
| Options | the scan | `parseOptions` | `--proto` belongs to the last `--socket`, positional arguments change their meaning | each argv runs as it reads, or is refused because it is wrong | `AppOptions`, `Startup` |
| main | none | builds the logger, runs the app | exceptions | exit code tells what happened | `Startup`, exit of `ConsoleApp` |

### Library (`src/logger`)

| Component | State | Operations | Hard | Correct when | Model |
|---|---|---|---|---|---|
| SinkLogger, MultiSink | atomic level, mutex, sinks | `log`, `setLevel` | format outside the mutex, several sinks of which some fail | sinks agree on the order; the result of a call tells what became of its record | `SinkLogger` |
| TcpSink | socket, endpoints, last error, next attempt, cooldown, failures | `writeLine` (connect, resolve, send, pause) | the network changes between any two system calls | a failure is reported; frames are never joined; the pause is kept; a moved server is found | `TcpSink` |
| UdpSink | connected socket | `openUdpSink`, `writeLine` | several endpoints | one record per datagram | two actions of `Delivery`; `Startup` |
| FileSink | `std::ofstream` with its buffer | `openFileSink`, `writeLine` | what a failed flush leaves in the buffer | the line is written or the call fails | file sinks of `SinkLogger`; `Startup` |
| LogRecord | none | `formatRecord`, `parseRecord`, escape, unescape | messages with newlines or escapes, the limits of a stamp | parse is the inverse of format; a record is one line | `Timestamp`, `LogRecord` |
| LoggerFactory | none | `createLogger` | a target that cannot be opened after others were | all sinks or none; an error exactly if none | `Startup` |
| LogLevel, SocketProtocol | none | name tables | - | - | constants of `Endpoint` |

### Collector (`src/collector`)

| Component | State | Operations | Hard | Correct when | Model |
|---|---|---|---|---|---|
| LineReader | `m_pending`, `m_skipping` | `feed` | over-long lines over chunk boundaries | the lines of the stream, in any chunking | `LineReader`, `LineStream` |
| TcpReceiver | listener, clients with their readers, `m_dropped` | `receive` (poll, read, accept) | the waiters are indices into a vector that the loop erases from | no connection lost, mixed up or starved | `TcpReceiver` |
| UdpReceiver | listener | `receive` | lost, repeated, reordered datagrams | each datagram for itself | two actions of `Delivery` |
| Statistics | totals, ring of 60 minutes | `add`, `addMalformed`, `snapshot` | a bucket is used again an hour later | the counts of a list of all messages | `Statistics`, `MessageCount` |
| CollectorApp | deadline, `m_sinceReport`, `m_dropped`, stop flag | `run`, `consume`, `countDropped`, `report` | rounding of the wait, signals at any point, a receiver that fails | counted once, reported in time, stops on a signal | `CollectorApp` |
| Listener, Receiver factory | none | `openReceiver`, `bindListener` | several endpoints, each with six calls that may fail | an error exactly if nothing listens; no socket left over | `Startup`, outcome in `CollectorApp` |
| Options, main | the scan, stop flag | parse, signal handler, exit codes | arguments by place and by name | each argv runs as it reads; exit code tells what happened | `CollectorOptions`, `Startup`; the end in `CollectorApp` |

`src/common` wraps system calls and text helpers and keeps no state; `Endpoint` models
the helpers for `host:port`, `Startup` the loop over what `resolve()` returns. Tests and build
files were read as statements of what is intended.

The interactions are calls, except for these: ConsoleApp and LogWorker share the queue
(a mutex and a condition variable), the last error (a mutex) and two atomic counters;
several threads may share one SinkLogger; the signal handler shares one atomic flag
with CollectorApp; sinks and receivers share only the network.
Nothing is persisted but the log file, so there is no crash recovery to model.

## 2. The modules

| Module | What it models |
|---|---|
| `EventQueue` | `push`, `pop`, `close` by any number of writers and readers |
| `InputParser` | `parseUserInput()` as an operator on the words of a line |
| `LogWorker` | the worker's thread on a queue with one reader (`Q == INSTANCE EventQueue`) |
| `ConsoleApp` | EXTENDS `LogWorker` and `InputParser` with the main thread: `run()` and `~LogWorker()` |
| `SequentialLog` | the abstract specification: what the application promises, without threads |
| `ConsoleAppLog` | the refinement: `ConsoleApp` with `SequentialLog` as an expression of its state |
| `SinkLogger` | `log()` and `setLevel()` by several threads over a MultiSink of files and other sinks |
| `TcpSink` | `writeLine()` against a network that changes at every step |
| `LineReader` | `feed()` as an operator, and the reference: the lines of a stream, taken byte by byte |
| `LineStream` | a stream of bytes fed to one LineReader in chunks |
| `Statistics`, `MessageCount` | the counters as operators, and a history to compare them with |
| `TcpReceiver` | EXTENDS `LineReader`: `receive()` and the senders |
| `CollectorApp` | `run()` over any IReceiver, with a clock and signals |
| `Timestamp` | the stamp of a record: calendar, limits |
| `LogRecord` | EXTENDS `Timestamp`: the text of a record as operators |
| `Delivery` | EXTENDS `LogRecord` and `LineReader`: from `log()` to the count of the collector |
| `Endpoint` | `host:port`, ports and names as operators |
| `AppOptions`, `CollectorOptions` | EXTEND `Endpoint`: the handlers of the options as operators, and what a command line means |
| `Startup` | EXTENDS both: each program from `main()` until it runs or has exited |
| `Induction` | induction over the natural numbers and functions defined by recursion, for the proofs |
| `*_proofs` | theorems about the module named and those it extends; `LineReader_proofs` serves both `TcpReceiver_proofs` and `Delivery_proofs`, `Logging_proofs` holds those of `EventQueue`, `SinkLogger` and `TcpSink` |
| `MC*` | the constants of a run |

How state and steps correspond to the code:

**EventQueue.** A step is a critical section of the mutex. `Push(w, e)` and `Close(w)`
leave the notification in `notifying[w]`, because the code calls `notify_one()` and
`notify_all()` after the unlock; the writer sends it in `NotifyOne(w)` or
`NotifyAll(w)`, and anything may happen in between. `waiting` is the set of readers asleep on the condition variable;
`PopWait`, `PopTake` and `PopFinish` are the three ways through the predicate.
`SpuriousWakeup` is what the standard allows of `wait`. A notification without a sleeper
is lost, as in the standard.

**LogWorker and ConsoleApp.** `workerPc` says where `loop()` is: in `pop`, asleep, handling
an event (inside `log()`), between the two stores of `recordFailure()`, or ended.
`mainPc` does the same for `run()`: reading, at the poll of the last error, closing,
joining. `ReadLine` is the
visitor for what `ParseUserInput` makes of a line. A line of input is one action up to the push (nothing of it is visible
to the worker before), then the notification, then the poll. `Throw` is an exception
of the main thread (an allocation, or `std::thread`) and runs `stop()` from the
destructor. `written` is the log as a sequence.

**SinkLogger.** A call goes through the level check (a read of the atomic), the format,
the lock, one step for each sink, the unlock. `setLevel()` is atomic
and interleaves with all of these. A sink accepts a line or fails, and the code keeps
the first error and goes on with the next sink. A FileSink has a `buffer`, that of its
stream: `FileWrites` writes what an earlier call has left and the new line. `FileFails` writes
any number of whole lines and perhaps a piece of the next, and keeps what libstdc++ may keep: all
it had, with the new line or without it, or the newline alone. This is why a file may have
a line twice, or a piece of one, after a failure; `ResultTellsSinks` says what still holds.

**TcpSink.** `stage` is idle, connecting to an endpoint, or sending. `answer` and `up` are what
the resolver would say and which addresses accept; `NetworkChanges` changes them at any
time. Time runs in units of the initial cooldown. `sent` counts the parts of a frame
that the connection has taken; `result` holds what the last call returned.

**LineReader.** `Feed(reader, chunk)` applies the rounds of the `while` loop of `feed()`, each
a `Skip`, a `Keep` or a `Cut`, until the chunk is used up. `CutUp` is the reference: the lines of the
whole stream, byte by byte, without an idea of chunks; `KeptLines` are those within the limit,
`DroppedLines` counts the others.

**TcpReceiver.** `Poll` takes the snapshot (`waiters`), then each client is visited by
`SkipClient` (not ready, or `recv()` was interrupted or would block after all), `ReadSome` or
`ReadEnd`; after `ReadDone` come the rounds of `acceptClients()`, `Accept` and `AcceptCloses` (the
socket cannot be made non-blocking), and `AcceptDone`. The senders connect, send, close or reset between any two of these. `backlog` is the
kernel's queue.

**Statistics.** A record with the fields of the class; the ring is indexed as in the code,
by the minute modulo its length. The average is the total length over the total, and is
kept as the total length.

**CollectorApp.** `deadline` is the time left until the deadline in ticks of the clock,
`TicksPerMs` of them to a millisecond, and `poll` the time left of the running
`poll()`. `WaitFor` has the rounding up and the clamp of the code, `AsInt` the cast
to int. `Tick` lets time pass at any place. `grace` and `late` are history: the timeout
that runs since the oldest message was received, and the calls of `receive()` begun after the
signal.

**Timestamp, LogRecord and Delivery.** A stamp is the numbers that its digits stand for;
`StampOf` and `IsStamp` are the conversions of `formatRecord()` and `parseTimestamp()`, over
`Gmtime` and `Timegm` of the C library, up to the last moment of the clock, `LastTime`. A time is a day and the milliseconds into it,
because TLC computes with 32 bits. Bytes are numbers. The stamp with the level is one atom, a
"head", which also stands for a text that looks like one inside a message; `HeadText` says what
stamp and level it shows. `Escape` and `Unescape` are the loops of the code; a round of the second
(`UnescapeRound`) takes one, two or four bytes. A record
is formatted as the code does it, framed with a newline, and either written to a
connection piece by piece or sent as a datagram. A connection may break at any byte;
what has been taken by the kernel may still arrive. A datagram may be lost, repeated and
reordered. The other end feeds a LineReader or splits the datagram, and `Consumed` is the loop that
parses each line and counts it.

**Options and Startup.** A text is a sequence of words, colons and brackets; which words name a
level, a protocol or a number are constants. The options of both programs are operators from
a scan and a text to the next scan, in a set that is empty for a usage error. `Startup` takes a
command line one argument, or one option with its value, at a time, so that every line up to the
bound is a behaviour. Then come `createLogger()` or `openReceiver()`, a step for each
system call that may fail: `OpenFile`, `Resolve`, and for each endpoint `MakeSocket` and then
`Refused` or one of `ConnectTcp`, `ConnectUdp`, `Bind`. `descriptors` counts what is open. The
third program, "library", calls `createLogger()` with arguments that no option yields. `Throw` is an exception at any
point. `AppMeans` and `CollectorMeans` are the reference: the meaning of a command line
told from all of it at once, without a scan.

Names that end in a fault (`PushSilently`, `RoundDown`, ...) are seeded bugs, one for
each property: replacing the operation by it makes the run fail, which shows that the property
can be violated. They are no part of any specification.

## 3. Runs

Ten runs pass and two find a disagreement between the code and what is said
about it. Deadlock is checked except in the runs that say otherwise, where the model ends at a
bound (line_stream, message_count, delivery) or all senders have gone (tcp_receiver).

| Run | Question | Bounds, and why they are enough |
|---|---|---|
| event_queue | Can an interleaving of push, close and pop lose a wake-up or strand a reader? | 3 writers, as in `test_event_queue.cpp`, so that two pushes and a close overlap; 2 readers, so that `notify_one()` may wake either; up to 3 queued events, more than readers. One kind of event: these properties do not look into it. |
| console_app | Does the application behave as a log without threads, and end honestly? | 2 levels (above and below a threshold), 4 lines: a level change, messages before and after it that are still queued, and one more. The lines are those of `test_input_parser.cpp`, one for each branch of the parser. One reason is enough to tell a failure from a success. |
| tcp_sink | Is each failure reported, the pause kept, a frame never joined to another, a moved server found? | 2 addresses; the real ratio of the cooldowns (1 to 20) and the real `kResolveEvery` (5); up to 9 failures, past the cap of the cooldown (5 doublings) and past one multiple of 5; a frame of 2 parts, so that a send may stop in the middle. |
| sink_logger | Do the sinks agree on the order, does the result of a call tell what became of it? | 2 threads, a file and another sink, 3 calls, so that one thread calls twice while the other is in its call, and a file that failed is written again; 2 levels, and the `Count` enumerator (an invalid level). The threads are symmetric. |
| line_stream | Are the lines independent of the chunking? | 8 bytes over two letters and the newline, limit 3, chunks up to 3: a line may be at the limit, one over, or over by two chunks, and be followed by others. |
| message_count | Do the ring and the totals agree with a list of all messages? | a ring of 3 minutes, 4 messages, 7 minutes: each bucket is used again after one turn and after two. |
| tcp_receiver | Is a connection ever lost, mixed up, starved or kept from a free slot? | 3 senders for 2 slots: someone waits; the backlog of 1 makes connect() wait too; one sender ends its line, one stops in the middle, one says nothing; each may close or reset at any time. |
| collector_app | Is each message counted and reported once and in time, does a signal end the collector? | a report after 2 messages or 2 ms, 2 ticks to a millisecond so that rounding matters, 5 messages: two full reports and a remainder. The int is wide enough for the timeout. |
| delivery | What does the collector count of what was logged? | 2 calls over TCP and over UDP; messages with a newline followed by the text of a head, with a backslash, with a control character; three moments, in a leap day and just outside of what a stamp can show on both sides (an assumption of `MCDelivery` compares `IsStamp` with a calendar for 10584 stamps more); reads of up to 3 bytes and a limit of 8, one more than the longest line; one repeated datagram. |
| startup | Does every command line run as it reads, and does an outcome of the calls that open its targets leave an error, a file or a socket behind? | 4 options: two sockets, each with a `--proto`; three positional arguments of the collector and one too many. 11 texts: an endpoint with a host, without one, with a port out of range, with a zero in front, an IPv6 address with brackets and without; a level, a protocol, numbers, "--" and the empty text. Two addresses to a host, so that one fails and the next succeeds. |
| console_app_reasons | README.md:173: is the reason printed at every change? (no) | 3 lines and 2 reasons: two failures that differ. |
| collector_app_overflow | `Options.cpp:179`: is a message reported T seconds after it came, for every T that is accepted? (no) | as collector_app, with an int of 2 bits, which the timeout of 2 ms does not fit. |

Bounds in the models (`MaxQueue`, `MaxLines`, `MaxFailures`, `MaxCalls`,
`MaxBytes`, `MaxMessages`, `MaxMalformed`, `MaxMinute`, `MaxBatch`, `MaxReceived`,
`MaxRepeats`, `MaxArguments`) are guards of the actions of the environment or cap a counter; no
guard that the code does not have limits the code's own steps. `MaxFailures` is one
exception in form: the counter of failures goes back by a multiple of `ResolveEvery`
when it would exceed the bound, so that sequences of failures stay unbounded while the
cooldown is at its cap and the phase of the resolution is kept.

What the properties say, in short:

- **EventQueue**: `NoLostWakeup`, `CloseWakesReaders`, `ClosedQueueOnlyDrains`.
- **ConsoleApp**: `LevelCopyIsAhead` (the copy of the level in `run()` is the level the
  logger will have at the end of the queue), `DefaultMessageNotDropped` (a message typed
  without a level is never dropped by the threshold), `NothingOutlivesRun`, `ExitTellsFailures`,
  `ShutdownEnds`, and `ImplementsSequentialLog`: every behaviour is one of
  `SequentialLog`, where a message is judged by the level in force where it was
  typed. The refinement maps what is in flight (event in work and queue) to the
  messages that are due, without those the threshold will drop.
- **TcpSink**: `ErrorIffFailed`, `CooldownDoubles`, `PauseBetweenAttempts`,
  `FramesNotJoined`, `MovedServerFound`.
- **SinkLogger**: `SinksAgreeOnOrder`, `ResultTellsSinks`. A line that a file has twice counts at
  its first place: with the last one the order would be lost after two failures in a row and a
  success, in which an old line is written again behind newer ones.
- **LineReader**: `LinesOfTheStream`, `EveryDropCounted`, and a bound on its memory
  in `StreamTypeOK`.
- **Statistics**: `LastHourIsExact`, `TotalsAreExact`.
- **TcpReceiver**: `WaitersMatchClients`, `NoClientForgotten`, `LinesOfTheirSender`,
  `ClientIsRead`, `SlotIsReused`; `TypeOK` bounds the number of clients.
- **CollectorApp**: `CountedOnce`, `ExitReportsEverything`, `NothingDueWhileWaiting`,
  `NoBusyWait`, `OneReceiveAfterSignal`, `SignalStops`.
- **Delivery**: `OnlyLoggedRecords`, `FailedIsNotCounted`, `NothingMalformed`. The logger has this sink
  alone: with several targets a `log()` that fails at one may well have reached the collector. The last one
  presumes frames within the limit of LineReader, 1 MiB, as `Limit` is in the run; a
  longer record is dropped by the collector and counted as malformed, by design. A record
  before the epoch or past the year 9999, the limits of `parseRecord()`, may be malformed, once.
- **Startup**: `RunsAsAsked`, `ErrorIffNull`, `NothingLeftOpen`, `PrintedAddressIsAccepted`.

## 4. Fairness

- `ConsoleApp`: weak fairness of the main thread's own steps and of the worker's
  steps. The operating system runs both threads, and `log()` returns: each
  wait of a sink has a timeout, and each round of a send takes at least a byte of a frame that
  is finite. None for the user, who may type nothing for ever; none for
  spurious wake-ups or exceptions.
- `SequentialLog`: what is due is attempted, and an ended session exits. The refinement has
  to establish it from the fairness of the two threads.
- `TcpSink`: weak fairness of the application that logs, of the steps of a call
  (`poll()` has a timeout) and of time. Strong fairness of `Resolve` and
  `Connect`: a resolver that answers and a peer that listens do not fail each time they
  are asked. This is an assumption on the network, and without it nobody can promise a
  reconnection.
- `TcpReceiver`: weak fairness of `receive()`, which CollectorApp calls in a loop, and
  strong fairness of `Accept` and, for each client, of a read that gets its bytes or its end: the
  kernel does not fail every `accept()`, and not every `recv()` on a socket that `poll()` has
  named is interrupted. None for the senders.
- `CollectorApp`: weak fairness of its own steps and of time. None for messages and
  signals.
- `EventQueue`, `SinkLogger`, `LineStream`, `MessageCount`, `Delivery`, `Startup` state no liveness and
  no fairness: that a pushed event is popped is checked in `ConsoleApp`, where it is
  known who calls `pop`.

## 5. What is proved

TLAPS checks these for every value of the constants that satisfies the named
assumptions (`ASSUME` in the modules; TLC evaluates each of them in a run). The lemmas they rest on
are in the same modules. Most of the properties are not inductive; below is what each invariant adds.

What a recursive definition computes is proved with `Induction`: a recursive function on
`0..n` exists and satisfies its equation (`RecursionExists`), and a set of numbers with 0 and every
successor has all of them (`SetInduction`). Both speak of sets and functions, so that no
operator is a parameter.

**EventQueue** (any finite, disjoint sets of writers and readers):
`QueueTypeCorrect`, `WakeupsAreKept`, `CloseIsHeard`, `ClosedOnlyDrains`, in `Logging_proofs`. The two
about wake-ups are inductive together with the type invariant. `NoLostWakeup` compares
the length of the queue with the number of writers that owe a notification plus the number of
readers awake; the lemmas `OneMoreOwes`, `OneLessOwes` and `OneMoreAwake` say how each
step changes these numbers.

**ConsoleApp** (sessions of any length, any levels and reasons): `TypeCorrect`,
`NothingOutlives`, `NotForgotten`, `ExitIsHonest`, `LevelCopyAhead`,
`DefaultsAreLogged`, `StepsOfTheLog`. The invariant is
made of three parts, each on top of the one before:
`Phases` relates where the two threads are (the worker sleeps only inside `pop`, an ended worker
means a closed and empty queue, a sleeping worker with something to do is still owed a
notification); `Counters` says that a count of failures comes with a reason, also between
the two stores of `recordFailure()`; `InputOrder` says that the copy of the level is the
level at the end of the queue and that each queued message without a level of its own
has the level in force at its place in the queue. The lemma `ParsedLine` says what
`ParseUserInput` returns for any line.
`StepsOfTheLog` is the safety half of `ImplementsSequentialLog`: the initial states are those of
`SequentialLog`, and every step of the two threads is a step of it or none. The refinement folds the events
in flight (`Judged`); the lemmas behind it say what an event at the end of the queue, or the
first one taken, changes in that fold.

**TcpSink** (any addresses, cooldowns, frame length): `TcpSinkTypeCorrect`, `ErrorsAreTold`,
`ReasonIsKept`, `FramesStartFresh`, `CooldownIsDoubled`, `NoAttemptInThePause`, in `Logging_proofs`. The invariant adds
`SocketByPhase`: there is no socket while connecting and one while sending, which is why a call in
the pause has an error to return. The pauses are a recursive function of the number of failures
(`Pause`), and the proofs go through its being twice the one before up to the longest. They need
`BoundAssumption`: where the model wraps its counter of failures, the cooldown is at its cap.

**SinkLogger** (any threads, sinks, files, levels, number of calls): `TypeCorrect`,
`OneThreadWrites`, `SinksAgree`, `ResultIsTrue`, in `Logging_proofs`. Only one thread is in `MultiSink::writeLine()`,
because a thread is there exactly as long as it owns the mutex. For the order, each sink has a
history: the sets of records that were whole in it, one after the other, with its buffer read behind its
lines. `Agree` says that what one history tells apart, a record being there before another, every sink with
both records tells apart the same way; `InHand` that the record being written is the last in the
sinks it has come to and not in those that follow. The lemmas `Flushed`
and `FailedFlush` say what a write, and a failed one, do to the history of a file. For the result, `Told`
follows a record through the sinks of its call.

**LineReader and TcpReceiver** (any senders, slots, lines, letters, limit and chunks no longer than the limit):
`StreamTypeCorrect`, `ChunksDoNotMatter`, `DropsAreCounted`, `TypeCorrect`,
`WaitersAlwaysMatch`, `NoneForgotten`, `LinesAreOfTheirSender`. `Remembers` relates the two fields of a reader
to the stream behind it: the line that is not finished, or that it is already too long. Each of the four
rounds of `feed()` is a lemma (`SkipsAll`, `SkipsLine`, `KeepsAll`, `CutsLine`), and `FeedCorrect` puts
them together by induction over the rounds; all of these are in `LineReader_proofs`. For the receiver, `ReadersInStep` has that of every client, and the place of the loop
in the list is related to the results of `poll()` that are left, of which the erased clients have none.

**CollectorApp** (any count, timeout, clock resolution and width of int):
`TypeCorrect`, `MessagesCountedOnce`, `NothingLeftAtExit`, `SignalIsNoticed`, and, under
the assumption `Timeout =< IntMax` that is part of their statement, `ReportsAreNotLate`
and `WaitsWithoutSpinning`. The invariant has three parts: `Counters` (the
sums, by phase), `Signals` (how many waits there are after a signal, by phase) and
`Deadlines` (the deadline is never later than the timeout of the oldest message without a report).
`WaitIsRoundedUp`, from `Quotient`, is the arithmetic of the rounding. Without the
assumption both are false, which the run collector_app_overflow shows.

**Statistics** (any number of buckets, levels, lengths and moments that do not go back; in `CollectorApp_proofs`):
`LastHourCounted`, `TotalsCounted`. `Ring` says that each bucket counts the messages of the last minute
that fell on it, and that no later minute did; the sum over the ring is then the
number of messages of the hour, by induction over the buckets. `Totals` compares the sums with the list, message by message.

**Endpoint, the options and Startup** (any texts, hosts, answers of the resolver and callers, command lines of any
length): `ErrorTellsNull`, `NothingLeaks`, `SplitInvertsJoin`, `PrintedIsAccepted`, `RunsAsItReads`.
The invariant `ErrorByPhase` says where the error code is clear and where it is not;
`Ownership` says that the open descriptors are the open targets and the socket in
hand. `SplitInvertsJoin` goes through the positions of the colons: a bracketed
host has its first `]:` behind the host, another host has one colon. The theorem about the
printed address has an assumption on the network, `NetworkHasAddresses`: an address is
words and colons without brackets and not empty, as `inet_ntop()` writes it, and every port has a numeral
that is one word. For `RunsAsItReads`, `AppScanned` and `CollectorScanned` say what a scan has to do
with the line so far: no mistake yet, the targets at their ranks among the places that name one, the
last socket and whether it has its `--proto`, the texts of each option. Each handler is a
lemma: it fails exactly if the longer line is wrong, and keeps this otherwise. It uses
`CollectorOptionsAssumption`: the defaults of the usage text are the numbers and the protocol that they read as.

**LogRecord** (any clock, heads and texts): `RecordComesBack` and `OnlyDatesAreStamps`, in `Delivery_proofs`. `YearFound`
and `MonthFound` say that `Gmtime` finds the one year and month a day lies in, by linear arithmetic over
the rules of leap years, so that `TimegmOfGmtime` gives the time back; `StampTells` adds the limits:
`parseTimestamp()` takes the stamp of a time exactly if the time is `Stampable`. For the text,
`RoundUndoes` says that a round of `unescapeMessage()` at the place where `escapeMessage()` has put out a byte
takes what was put out and gives the byte; `UnescapeOfEscape` is the induction over the bytes of the message.
Together a record comes back from its line, and its line has no newline, even if the message
has some, or the text of a head.

`OnlyDatesAreStamps` is about any digits that a line may bring, stamps of no time included: `parseTimestamp()`, which compares
what it read with what `gmtime_r()` makes of it, takes exactly the dates of the calendar (`IsDate`) from 1970 to the
end of the clock. `YearLength` and `MonthLength` say that years and months are as long as the calendar has
them, `MonthHolds` that a month holds exactly its days, `OneYear`, `OneMonth` and `OneClock` that no moment
has two stamps; so `GmtimeIsDate`, nothing else comes back, and `GmtimeOfTimegm`, each date does.

**Delivery** (any clock, levels, messages, number of calls and of repeated datagrams, chunks and limit):
`AccountsAgree`, `OnlyLoggedIsCounted`, `FailureIsFinal`, `OnlyStampsAreMalformed`. The
properties speak of what has been counted, and the invariant `DeliveryInv` of what may still be: `Calls` relates
the calls to their results and to the frame in hand, `Connections` says that no connection is open but that of the
sink, `ByProtocol` that the two protocols do not mix. `Books` is the account: a set of calls that have not failed and
are not counted yet over TCP (`due`), of which each connection has some of its own and each datagram has one. What a
connection carries (`Carries`), the bytes on their way behind what its LineReader has begun, are the lines
of its calls, and behind them, unless it is closed, what has been sent of the frame in hand. Sending a piece, cutting the end off, reading a chunk and ending the connection are the lemmas
`CarriesPiece`, `CarriesClosed`, `CarriesFed` and `CarriesEnd`. A call that fails has not sent its last
byte, so no account has it. `OnlyStampsAreMalformed` has the
assumption `AllFit` in its statement, that the line of every record is within the limit of the LineReader
(1 MiB in the code): the collector drops a longer one and counts it as malformed, by design. The other three have
no such assumption.

Each invariant and each safety property of a step that a passing run checks is stated by one of these theorems.

Only model-checked:

- liveness (`ShutdownEnds`, `MovedServerFound`, `ClientIsRead`, `SlotIsReused`,
  `SignalStops`) and the fairness half of `ImplementsSequentialLog`: ENABLED is out of this prover's reach.

## 6. What is not modelled

- The texts of usage, and the names that the tables of LogLevel and SocketProtocol print: layout.
- `src/common`: the wrappers `Socket` and `AddressList`, of which only how many sockets are open is
  modelled; the folding of case and `errno`.
- The texts of messages: a line is its words, a message the number of its line.
- Texts of prompts, errors and reports, memory, real time between threads.
- Undefined behaviour: none was met. What threads share is atomic or under a
  mutex, and the locals of `run()` outlive the thread (`NothingOutlivesRun`).

## 7. Where code and documents disagree

1. README.md:173 says the application prints the reason of a failed write at every change
   of it. `run()` polls `lastError()` once after each line, so a reason that is replaced
   between two polls is never printed. (console_app_reasons)
2. `collector/core/Options.cpp:179` says messages are reported after T seconds, and any
   positive T is accepted. `receive()` casts the milliseconds to int; from T = 2147484
   on it may be negative, which `poll()` takes for "wait for ever".
   (collector_app_overflow)

Also noticed, without a run:

- README.md:241-242 says the record after a broken connection tries to connect again. `writeLine()`
  starts the first pause when the send fails (`TcpSink.cpp:164`), so a record within 50 ms of it
  fails with the old error and without an attempt.
- After a failed flush a FileSink may write a line twice, or continue a piece of one, when it works
  again (`FileFails` and then `FileWrites`); the calls told the failures.
- The collector prints "listening on" before it installs its signal handlers (`main.cpp:38-46`): a signal
  in between ends it without a final report.
- `parseRecord()` accepts more than `formatRecord()` writes: names of levels in any case, escapes of
  characters that need none, hexadecimal digits in lower case.

## 8. Plan

Done, in this order, so that the concurrent core came first: EventQueue, LogWorker, InputParser and
ConsoleApp with SequentialLog; TcpSink; SinkLogger; LineReader; Statistics;
TcpReceiver; CollectorApp; Delivery, which composes the last ones; the first proofs; then FileSink in
SinkLogger, Timestamp, the options and Startup with their proofs.

Then the proofs, from the properties of one step to those of data: the order and the results of SinkLogger, the
refinement of SequentialLog, LineReader and TcpReceiver, the pauses of TcpSink, Statistics, the options.

At last the text of a record and `Delivery`: `Timegm` and `Unescape` undo `Gmtime` and `Escape`, the
accounts of the records on their way, and the dates that `parseTimestamp()` takes.

Candidates for further comparison with the documents: one report for a batch larger than
the count (`collector/core/Options.cpp:176`); an error code that a receiver does not clear
(README.md:300); a `poll()` that does not wait while a connection has no slot (README.md:407).

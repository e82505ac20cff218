--------------------------- MODULE ConsoleAppLog ---------------------------
(***************************************************************************)
(* ConsoleApp implements SequentialLog.  The promised level is the copy    *)
(* that run() keeps; what is due is what the worker, with the level the    *)
(* logger has now, would not drop of the events in flight.                 *)
(***************************************************************************)
EXTENDS ConsoleApp

\* What the next event e makes of the level and of the messages that are due.
Handle(judged, e) ==
    IF e.kind = "setLevel" THEN [level |-> e.level, due |-> judged.due]
    ELSE IF e.level >= judged.level
         THEN [level |-> judged.level,
               due |-> Append(judged.due, [level |-> e.level, id |-> e.id])]
         ELSE judged

\* The events evts in their order, for a logger at level l.
Judged(evts, l) ==
    LET judged[n \in 0..Len(evts)] ==
            IF n = 0 THEN [level |-> l, due |-> << >>] ELSE Handle(judged[n - 1], evts[n])
    IN  judged[Len(evts)]

Due(evts, l) == Judged(evts, l).due

Promise == INSTANCE SequentialLog WITH
    Ids <- 1..MaxLines,
    pending <- Due(InFlight, threshold),
    log <- written,
    lost <- IF workerPc = "failed" THEN failed + 1 ELSE failed,
    input <- IF mainPc \in {"start", "read", "poll"} THEN "open"
             ELSE IF unwinding THEN "failed" ELSE "ended",
    summary <- [processed |-> summary.processed, failed |-> summary.failed]

\* The application, with its threads and its queue, is the sequential log: a
\* message is judged by the level in force where it was typed, attempted once
\* and in order, and everything due is attempted before the program ends.
ImplementsSequentialLog == Promise!Spec
=============================================================================

----------------------------- MODULE LineReader -----------------------------
(***************************************************************************)
(* Collector::LineReader (collector/core/LineReader.cpp): cuts the bytes   *)
(* of one connection into lines, keeps an unfinished line for the next     *)
(* chunk and drops a line longer than the limit.  TcpReceiver::read() feeds*)
(* it what one recv() returned and counts the calls that dropped something.*)
(***************************************************************************)
EXTENDS Integers, Sequences

CONSTANTS
    Letters,    \* the bytes that are not '\n'
    Newline,    \* '\n'
    Limit,      \* m_limit
    ChunkSize   \* kChunk of TcpReceiver, the most that one recv() returns

ASSUME LineReaderAssumption ==
    /\ Newline \notin Letters
    /\ Limit \in Nat /\ ChunkSize \in Nat \ {0}
    /\ ChunkSize =< Limit       \* 4096 and 1 MiB

Bytes == Letters \cup {Newline}

\* A new reader.
Fresh == [pending |-> << >>, skipping |-> FALSE]

\* chunk.find('\n'), 0 for npos.
FirstNewline(chunk) ==
    IF \E i \in DOMAIN chunk : chunk[i] = Newline
    THEN CHOOSE i \in DOMAIN chunk :
            chunk[i] = Newline /\ \A j \in 1..(i - 1) : chunk[j] # Newline
    ELSE 0

After(chunk, end) == SubSeq(chunk, end + 1, Len(chunk))

-----------------------------------------------------------------------------
(* One round of the loop of feed() in each of its cases: s is the reader    *)
(* with what is left of the chunk, the lines found and the result so far.   *)

\* Seeded faults: the end of a skipped line is not noticed, or the limit of an
\* unfinished line forgets what is pending.
SkipOn(s, end) == [s EXCEPT !.chunk = IF end = 0 THEN << >> ELSE After(s.chunk, end)]

KeepPastLimit(s) ==
    IF Len(s.chunk) > Limit
    THEN [s EXCEPT !.pending = << >>, !.skipping = TRUE, !.complete = FALSE, !.chunk = << >>]
    ELSE [s EXCEPT !.pending = @ \o s.chunk, !.chunk = << >>]

Skip(s, end) ==
    IF end = 0 THEN [s EXCEPT !.chunk = << >>]
    ELSE [s EXCEPT !.chunk = After(s.chunk, end), !.skipping = FALSE]

Keep(s) ==
    IF Len(s.pending) + Len(s.chunk) > Limit
    THEN [s EXCEPT !.pending = << >>, !.skipping = TRUE, !.complete = FALSE, !.chunk = << >>]
    ELSE [s EXCEPT !.pending = @ \o s.chunk, !.chunk = << >>]

\* Seeded fault: a line that is too long is not reported.
CutUnreported(s, end) ==
    IF Len(s.pending) + end - 1 > Limit
    THEN [s EXCEPT !.chunk = After(s.chunk, end), !.pending = << >>]
    ELSE [s EXCEPT !.chunk = After(s.chunk, end), !.pending = << >>,
                   !.lines = Append(@, s.pending \o SubSeq(s.chunk, 1, end - 1))]

Cut(s, end) ==
    IF Len(s.pending) + end - 1 > Limit
    THEN [s EXCEPT !.chunk = After(s.chunk, end), !.pending = << >>, !.complete = FALSE]
    ELSE [s EXCEPT !.chunk = After(s.chunk, end), !.pending = << >>,
                   !.lines = Append(@, s.pending \o SubSeq(s.chunk, 1, end - 1))]

Round(s) ==
    LET end == FirstNewline(s.chunk)
    IN  CASE s.chunk = << >> -> s
          [] s.chunk # << >> /\ s.skipping -> Skip(s, end)
          [] s.chunk # << >> /\ ~ s.skipping /\ end = 0 -> Keep(s)
          [] s.chunk # << >> /\ ~ s.skipping /\ end # 0 -> Cut(s, end)

\* feed(): a round takes at least one byte, so as many rounds as bytes are enough.
Feed(reader, chunk) ==
    LET start == [chunk |-> chunk, pending |-> reader.pending, skipping |-> reader.skipping,
                  lines |-> << >>, complete |-> TRUE]
        after[n \in 0..Len(chunk)] == IF n = 0 THEN start ELSE Round(after[n - 1])
        end == after[Len(chunk)]
    IN  [reader |-> [pending |-> end.pending, skipping |-> end.skipping],
         lines |-> end.lines, complete |-> end.complete]

-----------------------------------------------------------------------------
(* What the reader should do with a whole stream, byte by byte: lines are   *)
(* all that have ended, kept those within the limit, and rest is the one    *)
(* that has not ended.                                                      *)

NothingYet == [lines |-> << >>, kept |-> << >>, rest |-> << >>]

Fits(l) == Len(l) =< Limit

NextByte(cut, byte) ==
    IF byte # Newline
    THEN [lines |-> cut.lines, kept |-> cut.kept, rest |-> Append(cut.rest, byte)]
    ELSE [lines |-> Append(cut.lines, cut.rest),
          kept |-> IF Fits(cut.rest) THEN Append(cut.kept, cut.rest) ELSE cut.kept,
          rest |-> << >>]

CutUp(stream) ==
    LET cut[n \in 0..Len(stream)] ==
            IF n = 0 THEN NothingYet ELSE NextByte(cut[n - 1], stream[n])
    IN  cut[Len(stream)]

LinesOf(stream) == CutUp(stream).lines
KeptLines(stream) == CutUp(stream).kept
Unfinished(stream) == CutUp(stream).rest

\* The lines that are too long, with one that is too long already.
DroppedLines(stream) ==
    Len(LinesOf(stream)) - Len(KeptLines(stream))
        + (IF Fits(Unfinished(stream)) THEN 0 ELSE 1)
=============================================================================

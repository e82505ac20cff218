----------------------------- MODULE LineStream -----------------------------
(***************************************************************************)
(* A stream of bytes fed to a LineReader in arbitrary chunks, as recv()    *)
(* returns them.                                                           *)
(***************************************************************************)
EXTENDS LineReader

CONSTANT MaxBytes       \* bound of the model: the length of the stream

VARIABLES
    reader,     \* the LineReader
    output,     \* the lines it has cut, in order
    drops,      \* m_dropped of the TcpReceiver
    stream      \* the bytes so far (history)

streamVars == <<reader, output, drops, stream>>

StreamInit ==
    /\ reader = Fresh
    /\ output = << >>
    /\ drops = 0
    /\ stream = << >>

Chunks == UNION {[1..n -> Bytes] : n \in 1..ChunkSize}

\* TcpReceiver::read() with recv() > 0.
Feeding(chunk) ==
    /\ Len(stream) + Len(chunk) =< MaxBytes
    /\ LET fed == Feed(reader, chunk)
       IN  /\ reader' = fed.reader
           /\ output' = output \o fed.lines
           /\ drops' = IF fed.complete THEN drops ELSE drops + 1
    /\ stream' = stream \o chunk

StreamNext == \E chunk \in Chunks : Feeding(chunk)

StreamSpec == StreamInit /\ [][StreamNext]_streamVars

-----------------------------------------------------------------------------
\* A sender that never ends a line cannot make the collector keep more of it than
\* the limit.
StreamTypeOK ==
    /\ reader \in [pending : Seq(Letters), skipping : BOOLEAN]
    /\ Len(reader.pending) =< Limit
    /\ output \in Seq(Seq(Letters))
    /\ drops \in Nat
    /\ stream \in Seq(Bytes)

\* The lines do not depend on where recv() cuts the stream: they are those of
\* the whole stream, whole and in order, without the ones over the limit.
LinesOfTheStream == output = KeptLines(stream)

\* Every line over the limit is counted, once, although feed() only says whether
\* it dropped any: a chunk is too short to end two of them.
EveryDropCounted == drops = DroppedLines(stream)

=============================================================================

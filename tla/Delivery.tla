------------------------------ MODULE Delivery ------------------------------
(***************************************************************************)
(* From Logger::SinkLogger::log() to Collector::Statistics: a record is    *)
(* formatted, sent by a TcpSink or a UdpSink, carried by a network that    *)
(* breaks connections, loses, repeats and reorders datagrams, received by  *)
(* a TcpReceiver or a UdpReceiver, cut into lines and parsed.              *)
(*                                                                         *)
(* The logger has this one target.  When TcpSink connects and which client *)
(* TcpReceiver reads next are left to modules of those names: here a call  *)
(* may find a connection or not, and any connection may be read.           *)
(***************************************************************************)
EXTENDS LogRecord, LineReader, FiniteSets

CONSTANTS
    Clock,          \* what system_clock shows, whose milliseconds are floored
    Levels,         \* the levels at or above the threshold
    Messages,       \* the texts that are logged
    MaxCalls,       \* bounds of the model: calls of log(), and repeated datagrams
    MaxRepeats

ASSUME DeliveryAssumption ==
    /\ Newline = LF /\ Letters = Chars \ {LF}
    /\ Messages \subseteq Seq(Chars)
    /\ \A time \in Clock : time \in Times /\ NotLater(time, LastTime)
    /\ \A time \in Clock, level \in Levels :
          [stamp |-> StampOf(time), level |-> level] \in {HeadText[h] : h \in Heads}
    /\ MaxCalls \in Nat /\ MaxRepeats \in Nat

VARIABLES
    protocol,       \* "tcp" or "udp"
    logged,         \* the records of the calls of log(), in order
    result,         \* what each of them returned, "none" before
    frame, sent,    \* m_frame, and how much of it the connection has taken
    link,           \* the number of TcpSink's connection, 0 without one
    wires,          \* the connections: the bytes on their way, whether the sender's
                    \* end is closed, and the LineReader at the other end
    datagrams,      \* the frames on their way, by the number of their call
    repeats,        \* datagrams that were delivered once more (bound of the model)
    counted,        \* the records that the collector has counted
    malformed       \* lines that are none, and lines that were dropped

sender == <<logged, result, frame, sent, link>>
collector == <<counted, malformed>>
vars == <<protocol, sender, wires, datagrams, repeats, collector>>

Init ==
    /\ protocol \in {"tcp", "udp"}
    /\ logged = << >> /\ result = << >>
    /\ frame = << >> /\ sent = 0 /\ link = 0
    /\ wires = << >>
    /\ datagrams = {} /\ repeats = 0
    /\ counted = << >> /\ malformed = 0

-----------------------------------------------------------------------------
(* log() and the sinks.                                                     *)

Idle == frame = << >>

\* log() up to writeLine(): every call has a moment of its own.
Format(record) ==
    /\ Idle /\ Len(logged) < MaxCalls
    /\ \A i \in DOMAIN logged : logged[i].time # record.time
    /\ logged' = Append(logged, record)
    /\ UNCHANGED <<protocol, repeats, collector>>

FrameOf(record) == Append(FormatRecord(record), LF)

\* TcpSink::writeLine() on its connection, or on a new one, ...
LogToStream(record) ==
    /\ protocol = "tcp"
    /\ Format(record)
    /\ frame' = FrameOf(record)
    /\ sent' = 0
    /\ \/ link # 0 /\ UNCHANGED <<link, wires>>
       \/ /\ link = 0
          /\ wires' = Append(wires, [bytes |-> << >>, closed |-> FALSE, reader |-> Fresh])
          /\ link' = Len(wires')
    /\ UNCHANGED <<result, datagrams>>

\* ... or without one, in the pause or because nobody answers.
LogToNobody(record) ==
    /\ protocol = "tcp" /\ link = 0
    /\ Format(record)
    /\ result' = Append(result, FALSE)
    /\ UNCHANGED <<frame, sent, link, wires, datagrams>>

\* UdpSink::writeLine(): send() takes the whole frame ...
LogToDatagram(record) ==
    /\ protocol = "udp"
    /\ Format(record)
    /\ result' = Append(result, TRUE)
    /\ datagrams' = datagrams \cup {FrameOf(record)}
    /\ UNCHANGED <<frame, sent, link, wires>>

\* ... or nothing of it: it is too long, or an earlier one was refused.
LogRefused(record) ==
    /\ protocol = "udp"
    /\ Format(record)
    /\ result' = Append(result, FALSE)
    /\ UNCHANGED <<frame, sent, link, wires, datagrams>>

Returns(ok) ==
    /\ result' = Append(result, ok)
    /\ frame' = << >>
    /\ sent' = 0

\* A round of sendAll(): send() takes some bytes, which get lost on a connection
\* that the other end has given up already.
SendSome ==
    /\ ~ Idle
    /\ \E n \in 1..(Len(frame) - sent) :
          /\ sent' = sent + n
          /\ wires' = IF wires[link].closed THEN wires
                      ELSE [wires EXCEPT ![link].bytes = @ \o SubSeq(frame, sent + 1, sent + n)]
    /\ UNCHANGED <<protocol, logged, result, frame, link, datagrams, repeats, collector>>

SendDone ==
    /\ ~ Idle /\ sent = Len(frame)
    /\ Returns(TRUE)
    /\ UNCHANGED <<protocol, logged, link, wires, datagrams, repeats, collector>>

\* Seeded fault: a failure after the last byte is reported too.
SendFailsLate ==
    /\ ~ Idle
    /\ Returns(FALSE)
    /\ wires' = [wires EXCEPT ![link].closed = TRUE]
    /\ link' = 0
    /\ UNCHANGED <<protocol, logged, datagrams, repeats, collector>>

\* Seeded fault: the next frame goes on where this one has stopped.
SendFailsKeepsLink ==
    /\ ~ Idle /\ sent < Len(frame)
    /\ Returns(FALSE)
    /\ UNCHANGED <<protocol, logged, link, wires, datagrams, repeats, collector>>

\* send() fails, or takes too long: the socket is closed.
SendFails ==
    /\ ~ Idle /\ sent < Len(frame)
    /\ Returns(FALSE)
    /\ wires' = [wires EXCEPT ![link].closed = TRUE]
    /\ link' = 0
    /\ UNCHANGED <<protocol, logged, datagrams, repeats, collector>>

-----------------------------------------------------------------------------
(* The network and the collector.                                           *)

\* A connection breaks, and the end of what it carried is lost.
Break(k) ==
    /\ ~ wires[k].closed
    /\ \E n \in 0..Len(wires[k].bytes) :
          wires' = [wires EXCEPT ![k].bytes = SubSeq(@, 1, n), ![k].closed = TRUE]
    /\ UNCHANGED <<protocol, sender, datagrams, repeats, collector>>

\* CollectorApp::consume() of a line, on the two counts ...
ConsumeLine(tally, line) ==
    CASE line = << >> -> tally
      [] line # << >> /\ ~ IsRecord(line) -> [tally EXCEPT !.malformed = @ + 1]
      [] IsRecord(line) -> [tally EXCEPT !.counted = Append(@, ParseRecord(line))]

Consumed(tally, lines) ==
    LET after[n \in 0..Len(lines)] ==
            IF n = 0 THEN tally ELSE ConsumeLine(after[n - 1], lines[n])
    IN  after[Len(lines)]

\* ... and of each line that receive() gives, with countDropped() behind it.
Consume(lines, drops) ==
    LET tally == Consumed([counted |-> counted, malformed |-> malformed], lines)
    IN  /\ counted' = tally.counted
        /\ malformed' = tally.malformed + drops

\* TcpReceiver::read() gets bytes of a client, ...
ReceiveBytes(k) ==
    /\ wires[k].bytes # << >>
    /\ LET bytes == wires[k].bytes
           n == IF Len(bytes) < ChunkSize THEN Len(bytes) ELSE ChunkSize
           fed == Feed(wires[k].reader, SubSeq(bytes, 1, n))
       IN  /\ wires' = [wires EXCEPT ![k].bytes = SubSeq(bytes, n + 1, Len(bytes)),
                                     ![k].reader = fed.reader]
           /\ Consume(fed.lines, IF fed.complete THEN 0 ELSE 1)
    /\ UNCHANGED <<protocol, sender, datagrams, repeats>>

\* ... or sees that the client has gone, and its LineReader goes with it.
ReceiveEnd(k) ==
    /\ wires[k].bytes = << >> /\ wires[k].closed
    /\ wires' = [wires EXCEPT ![k].reader = Fresh]
    /\ UNCHANGED <<protocol, sender, datagrams, repeats, collector>>

\* splitDatagram(): a last line needs no '\n'.
SplitDatagram(data) ==
    LET rest == Unfinished(data)
    IN  LinesOf(data) \o (IF rest = << >> THEN << >> ELSE <<rest>>)

\* UdpReceiver::receive() gets a datagram, any of those on their way; the network
\* may deliver it once more, or never.
ReceiveDatagram(datagram) ==
    /\ datagram \in datagrams
    /\ \/ datagrams' = datagrams \ {datagram} /\ UNCHANGED repeats
       \/ repeats < MaxRepeats /\ repeats' = repeats + 1 /\ UNCHANGED datagrams
    /\ Consume(SplitDatagram(datagram), 0)
    /\ UNCHANGED <<protocol, sender, wires>>

-----------------------------------------------------------------------------
Next ==
    \/ \E record \in [time : Clock, level : Levels, message : Messages] :
          \/ LogToStream(record) \/ LogToNobody(record)
          \/ LogToDatagram(record) \/ LogRefused(record)
    \/ SendSome \/ SendDone \/ SendFails
    \/ \E k \in DOMAIN wires : Break(k) \/ ReceiveBytes(k) \/ ReceiveEnd(k)
    \/ \E datagram \in datagrams : ReceiveDatagram(datagram)

Spec == Init /\ [][Next]_vars

-----------------------------------------------------------------------------
\* What the collector counts are records that were logged, with the text they were
\* logged with: no half of a record, no two in one, and none made of the text of
\* a message with several lines.  TCP repeats none.
OnlyLoggedRecords ==
    /\ \A i \in DOMAIN counted : counted[i] \in {logged[k] : k \in DOMAIN logged}
    /\ protocol = "tcp" =>
          \A i, j \in DOMAIN counted : counted[i] = counted[j] => i = j

\* A record that log() has called a failure is never counted: a failed send has
\* left a part of the frame at most, so the failure is safe to log again.  This is of
\* a logger with one target: another target of a MultiSink may fail by itself.
FailedIsNotCounted ==
    \A k \in DOMAIN result :
        ~ result[k] => \A i \in DOMAIN counted : counted[i].time # logged[k].time

\* Every whole line that the collector gets from the library is a record for
\* parseRecord(), and none is over the limit; the exceptions are records of a clock
\* before 1970 or past the year 9999 (README.md:269-279), each malformed once.
NothingMalformed ==
    malformed =< repeats + Cardinality({k \in DOMAIN logged : ~ Stampable(logged[k].time)})
=============================================================================

------------------------- MODULE TcpReceiver_proofs -------------------------
(***************************************************************************)
(* The receiver of connections for any senders, any number of slots and    *)
(* any lines: what it reads off a stream is the stream cut up byte by      *)
(* byte, however recv() cuts it into chunks, and every connection keeps    *)
(* its own place in the list that poll() is given.                         *)
(***************************************************************************)
EXTENDS TcpReceiver, LineStream, LineReader_proofs

-----------------------------------------------------------------------------
(* LineStream: one stream, whatever the chunks that it comes in.            *)

\* The reader is in step with the reference at every moment.
StreamInv ==
    /\ stream \in Seq(Bytes)
    /\ reader \in Readers
    /\ Remembers(reader.pending, reader.skipping, CutUp(stream))
    /\ output \in Seq(Seq(Letters)) /\ LinesOfTheStream
    /\ drops \in Nat /\ EveryDropCounted

\* No chunk is longer than the limit of a line.
LEMMA ChunksAreShort ==
  ASSUME NEW chunk \in Chunks PROVE chunk \in Seq(Bytes) /\ Len(chunk) =< Limit
<1>1. PICK n \in 1..ChunkSize : chunk \in [1..n -> Bytes]
  BY DEF Chunks
<1>2. n \in Nat /\ n =< ChunkSize
  BY LineReaderAssumption
<1>3. chunk \in Seq(Bytes) /\ Len(chunk) = n
  BY <1>1, <1>2, IsASeq, LenProperties
<1>4. QED
  BY <1>2, <1>3, LineReaderAssumption

\* Every chunk keeps the reader with the stream.
LEMMA StreamInvInductive == StreamInv /\ [StreamNext]_streamVars => StreamInv'
<1> SUFFICES ASSUME StreamInv, [StreamNext]_streamVars PROVE StreamInv'
  OBVIOUS
<1>1. CASE UNCHANGED streamVars
  BY <1>1 DEF streamVars, StreamInv, LinesOfTheStream, EveryDropCounted
<1>2. ASSUME NEW chunk \in Chunks, Feeding(chunk) PROVE StreamInv'
  <2> DEFINE fed == Feed(reader, chunk)
             more == stream \o chunk
  <2>1. chunk \in Seq(Bytes) /\ Len(chunk) =< Limit
    BY ChunksAreShort
  <2>2. /\ fed.reader \in Readers /\ fed.lines \in Seq(Seq(Letters)) /\ fed.complete \in BOOLEAN
        /\ Remembers(fed.reader.pending, fed.reader.skipping, CutUp(more))
        /\ KeptLines(more) = KeptLines(stream) \o fed.lines
        /\ DroppedLines(more) = DroppedLines(stream) + (IF fed.complete THEN 0 ELSE 1)
    BY <2>1, FeedCorrect, Zenon DEF StreamInv
  <2>3. more \in Seq(Bytes)
    BY <2>1, ConcatProperties DEF StreamInv
  <2>4. /\ reader' = fed.reader /\ output' = output \o fed.lines /\ stream' = more
        /\ drops' = IF fed.complete THEN drops ELSE drops + 1
    BY <1>2, Zenon DEF Feeding
  <2>5. output \in Seq(Seq(Letters)) /\ output = KeptLines(stream)
        /\ drops \in Nat /\ drops = DroppedLines(stream)
    BY DEF StreamInv, LinesOfTheStream, EveryDropCounted
  <2> HIDE DEF fed, more
  <2>6. output' \in Seq(Seq(Letters)) /\ output' = KeptLines(more)
    BY <2>2, <2>4, <2>5, ConcatProperties
  <2>7. drops' \in Nat /\ drops' = DroppedLines(more)
    BY <2>2, <2>4, <2>5
  <2>8. QED
    BY <2>2, <2>3, <2>4, <2>6, <2>7, Zenon DEF StreamInv, LinesOfTheStream, EveryDropCounted
<1>3. QED
  BY <1>1, <1>2 DEF StreamNext

\* The reader is with the stream throughout.
LEMMA StreamInvAlways == StreamSpec => []StreamInv
<1>1. StreamInit => StreamInv
  <2> SUFFICES ASSUME StreamInit PROVE StreamInv
    OBVIOUS
  <2>1. reader = Fresh /\ output = << >> /\ drops = 0 /\ stream = << >>
    BY DEF StreamInit
  <2>2. << >> \in Seq(Bytes) /\ << >> \in Seq(Seq(Letters)) /\ 0 \in Nat
    OBVIOUS
  <2>3. QED
    BY <2>1, <2>2, NothingCut, FreshReader, Zenon
       DEF StreamInv, LinesOfTheStream, EveryDropCounted
<1>2. QED
  BY <1>1, StreamInvInductive, PTL DEF StreamSpec

\* The types of a stream, and that a reader never keeps more of an unfinished
\* line than the limit (LineReader::feed()).
THEOREM StreamTypeCorrect == StreamSpec => []StreamTypeOK
<1>1. StreamInv => StreamTypeOK
  <2> SUFFICES ASSUME StreamInv PROVE StreamTypeOK
    OBVIOUS
  <2>1. Len(reader.pending) =< Limit
    BY RemembersLittle DEF StreamInv
  <2>2. QED BY <2>1 DEF StreamInv, StreamTypeOK, Readers
<1>2. QED
  BY <1>1, StreamInvAlways, PTL

\* The lines that LineReader::feed() gives are those of the whole stream within the
\* limit, however recv() has cut it into chunks.
THEOREM ChunksDoNotMatter == StreamSpec => []LinesOfTheStream
<1>1. StreamInv => LinesOfTheStream
  BY DEF StreamInv
<1>2. QED
  BY <1>1, StreamInvAlways, PTL

\* The count of TcpReceiver::read() is that of the lines over the limit: one call of
\* feed() drops at most one of them, for a chunk is not longer than the limit.
THEOREM DropsAreCounted == StreamSpec => []EveryDropCounted
<1>1. StreamInv => EveryDropCounted
  BY DEF StreamInv
<1>2. QED
  BY <1>1, StreamInvAlways, PTL

-----------------------------------------------------------------------------
(* TcpReceiver.                                                             *)

\* What has been taken of a text is what has arrived of it, or less, and nothing
\* before the connection is a client.
TakenInOrder ==
    \A s \in Senders :
        /\ taken[s] =< sent[s] /\ sent[s] =< Len(Text(s))
        /\ s \notin Clients \cup over => taken[s] = 0

\* What poll() said matches the clients that the loop has yet to visit.
PollMatches ==
    pc = "read" =>
        /\ left =< Len(clients) /\ left =< Len(waiters.clients)
        /\ \A i \in 1..left : waiters.clients[i].conn = clients[i].conn

Distinct == \A i, j \in DOMAIN backlog : backlog[i] = backlog[j] => i = j

\* Every client has a reader that is in step with what was taken of its text.
ReadersInStep ==
    \A i \in DOMAIN clients :
        LET s == clients[i].conn
        IN  Remembers(clients[i].reader.pending, clients[i].reader.skipping,
                      CutUp(SubSeq(Text(s), 1, taken[s])))

ReceiverInv ==
    /\ TypeOK /\ TakenInOrder /\ PollMatches
    /\ NoClientForgotten /\ Distinct
    /\ ReadersInStep /\ LinesOfTheirSender

\* A chunk is the next part of the text of its sender.
LEMMA ChunkTaken ==
  ASSUME NEW s \in Senders, sent[s] \in Nat, taken[s] \in Nat,
         taken[s] =< sent[s], sent[s] =< Len(Text(s))
  PROVE  /\ Chunk(s) \in Seq(Bytes) /\ Len(Chunk(s)) \in Nat /\ Len(Chunk(s)) =< Limit
         /\ taken[s] + Len(Chunk(s)) =< sent[s]
         /\ SubSeq(Text(s), 1, taken[s]) \in Seq(Bytes)
         /\ SubSeq(Text(s), 1, taken[s] + Len(Chunk(s)))
              = SubSeq(Text(s), 1, taken[s]) \o Chunk(s)
<1> DEFINE text == Text(s)
           n == IF sent[s] - taken[s] > ChunkSize THEN ChunkSize ELSE sent[s] - taken[s]
           from == taken[s]
<1>1. text \in Seq(Bytes) /\ Len(text) \in Nat /\ from \in Nat
  BY TcpReceiverAssumption, LenProperties
<1>2. n \in Nat /\ n =< ChunkSize /\ from + n =< sent[s] /\ from + n =< Len(text)
  BY <1>1, LineReaderAssumption
<1>3. Chunk(s) = SubSeq(text, from + 1, from + n)
  BY DEF Chunk
<1> HIDE DEF n, text, from
<1>4. \A i \in 1..(from + n) : text[i] \in Bytes
  BY <1>1, <1>2, ElementOfSeq
<1>5. SubSeq(text, from + 1, from + n) \in Seq(Bytes) /\ SubSeq(text, 1, from) \in Seq(Bytes)
  BY <1>1, <1>2, <1>4, SubSeqProperties
<1>6. Len(SubSeq(text, from + 1, from + n)) = n
  <2>1. \A i \in (from + 1)..(from + n) : text[i] \in Bytes
    BY <1>1, <1>2, <1>4
  <2>2. Len(SubSeq(text, from + 1, from + n))
          = IF from + 1 =< from + n THEN (from + n) - (from + 1) + 1 ELSE 0
    BY <1>1, <1>2, <2>1, SubSeqProperties
  <2> DEFINE taking == Len(SubSeq(text, from + 1, from + n))
  <2>3. taking = IF from + 1 =< from + n THEN (from + n) - (from + 1) + 1 ELSE 0
    BY <2>2
  <2>4. (from + n) - (from + 1) + 1 = n /\ (from + 1 =< from + n \/ n = 0)
    BY <1>1, <1>2
  <2> HIDE DEF taking
  <2>5. taking = n
    BY <2>3, <2>4
  <2>6. QED BY <2>5 DEF taking
<1>7. SubSeq(text, 1, from) \o SubSeq(text, from + 1, from + n) = SubSeq(text, 1, from + n)
  <2>1. 1 \in 1..(Len(text) + 1) /\ from \in (1 - 1)..Len(text) /\ from + n \in from..Len(text)
    BY <1>1, <1>2
  <2>2. QED BY <1>1, <2>1, ConcatAdjacentSubSeq
<1>8. n =< Limit
  BY <1>2, LineReaderAssumption
<1>9. QED
  BY <1>2, <1>3, <1>5, <1>6, <1>7, <1>8 DEF text, from

\* What the steps that read nothing leave as it is.
LEMMA NothingRead ==
  ASSUME ReadersInStep, LinesOfTheirSender, UNCHANGED <<clients, taken, lines>>
  PROVE  ReadersInStep' /\ LinesOfTheirSender'
BY DEF ReadersInStep, LinesOfTheirSender

\* A sender that connects is waiting and has sent nothing that is read.
LEMMA ConnectKeepsInv ==
  ASSUME ReceiverInv, NEW s \in Senders, Connect(s)
  PROVE  ReceiverInv'
<1> USE DEF ReceiverInv
<1>1. /\ link[s] = "new" /\ Len(backlog) < Backlog
      /\ link' = [link EXCEPT ![s] = "open"] /\ backlog' = Append(backlog, s)
      /\ UNCHANGED <<sent, clients, pc, waiters, left, lines, dropped, taken, over>>
  BY DEF Connect, receiver
<1>2. /\ Append(backlog, s) \in Seq(Senders) /\ Len(backlog) \in Nat
      /\ Len(backlog') = Len(backlog) + 1 /\ backlog'[Len(backlog) + 1] = s
      /\ \A i \in 1..Len(backlog) : backlog'[i] = backlog[i]
      /\ DOMAIN backlog = 1..Len(backlog) /\ DOMAIN backlog' = 1..(Len(backlog) + 1)
  BY <1>1, AppendProperties, LenProperties DEF TypeOK
<1>3. TypeOK'
  BY <1>1, <1>2, TcpReceiverAssumption DEF TypeOK
<1>4. Clients' = Clients /\ Waiting' = Waiting \cup {s}
  BY <1>1, <1>2 DEF Clients, Waiting
<1>5. s \notin Waiting \cup Clients \cup over
  BY <1>1 DEF NoClientForgotten
<1>6. NoClientForgotten'
  BY <1>1, <1>4, <1>5 DEF NoClientForgotten, TypeOK
<1>7. Distinct'
  BY <1>2, <1>5 DEF Distinct, Waiting
<1>8. TakenInOrder' /\ PollMatches'
  BY <1>1, <1>4 DEF TakenInOrder, PollMatches
<1>9. QED
  BY <1>1, <1>3, <1>6, <1>7, <1>8, NothingRead

\* What a sender does to its own end.
LEMMA SenderKeepsInv ==
  ASSUME ReceiverInv, NEW s \in Senders, Send(s) \/ Close(s) \/ Reset(s)
  PROVE  ReceiverInv'
<1> USE DEF ReceiverInv
<1>1. /\ link[s] = "open" /\ UNCHANGED <<backlog, clients, pc, waiters, left, lines, dropped, taken, over>>
      /\ link' \in [Senders -> {"new", "open", "closed", "reset"}]
      /\ \A r \in Senders : link'[r] # "new" <=> link[r] # "new"
  BY DEF Send, Close, Reset, receiver, TypeOK
<1>2. sent' \in [Senders -> Nat] /\ \A r \in Senders : taken[r] =< sent'[r] /\ sent'[r] =< Len(Text(r))
  <2>1. Len(Text(s)) \in Nat
    BY TcpReceiverAssumption, LenProperties
  <2>2. CASE Send(s)
    BY <2>1, <2>2 DEF Send, TypeOK, TakenInOrder
  <2>3. CASE Close(s)
    BY <2>3 DEF Close, TypeOK, TakenInOrder
  <2>4. CASE Reset(s)
    <3>1. PICK n \in taken[s]..sent[s] : sent' = [sent EXCEPT ![s] = n]
      BY <2>4 DEF Reset
    <3>2. taken[s] \in Nat /\ sent[s] \in Nat /\ sent[s] =< Len(Text(s))
      BY DEF TypeOK, TakenInOrder
    <3>3. n \in Nat /\ taken[s] =< n /\ n =< Len(Text(s))
      BY <2>1, <3>1, <3>2
    <3>4. QED BY <3>1, <3>3 DEF TypeOK, TakenInOrder
  <2>5. QED BY <2>2, <2>3, <2>4
<1>3. Clients' = Clients /\ Waiting' = Waiting
  BY <1>1 DEF Clients, Waiting
<1>4. TypeOK' /\ PollMatches' /\ Distinct'
  BY <1>1, <1>2 DEF TypeOK, PollMatches, Distinct
<1>5. NoClientForgotten'
  BY <1>1, <1>3 DEF NoClientForgotten
<1>6. TakenInOrder'
  BY <1>1, <1>2, <1>3 DEF TakenInOrder
<1>7. QED
  BY <1>1, <1>4, <1>5, <1>6, NothingRead

\* The steps of receive() that read and accept nothing.
LEMMA ControlKeepsInv ==
  ASSUME ReceiverInv, Poll \/ PollFails \/ SkipClient \/ ReadDone \/ AcceptDone
  PROVE  ReceiverInv'
<1> USE DEF ReceiverInv
<1>1. UNCHANGED <<link, sent, backlog, clients, lines, dropped, taken, over>>
  BY DEF Poll, PollFails, SkipClient, ReadDone, AcceptDone, network
<1>2. Clients' = Clients /\ Waiting' = Waiting
  BY <1>1 DEF Clients, Waiting
<1>3. NoClientForgotten' /\ TakenInOrder' /\ Distinct'
  BY <1>1, <1>2 DEF NoClientForgotten, TakenInOrder, Distinct
<1>4. /\ Len(clients) \in Nat /\ DOMAIN clients = 1..Len(clients)
      /\ \A i \in 1..Len(clients) : clients[i].conn \in Senders
  <2>1. clients \in Seq([conn : Senders, reader : [pending : Seq(Letters), skipping : BOOLEAN]])
    BY DEF TypeOK
  <2>2. \A i \in 1..Len(clients) :
           clients[i] \in [conn : Senders, reader : [pending : Seq(Letters), skipping : BOOLEAN]]
    BY <2>1, ElementOfSeq
  <2>3. QED BY <2>1, <2>2, LenProperties
<1>5. pc' \in {"idle", "read", "accept", "failed"} /\ left' \in Nat
      /\ waiters' \in [listener : BOOLEAN, clients : Seq([conn : Senders, ready : BOOLEAN])]
      /\ PollMatches'
  <2>1. CASE Poll
    <3> DEFINE asked == [i \in DOMAIN clients |-> [conn |-> clients[i].conn,
                                                   ready |-> Ready(clients[i].conn)]]
    <3>1. /\ waiters' = [listener |-> backlog # << >>, clients |-> asked]
          /\ left' = Len(clients) /\ pc' = "read"
      BY <2>1 DEF Poll, Polled
    <3>2. \A i \in 1..Len(clients) : /\ asked[i].conn = clients[i].conn
                                     /\ asked[i] \in [conn : Senders, ready : BOOLEAN]
      BY <1>4 DEF Ready
    <3>3. asked \in Seq([conn : Senders, ready : BOOLEAN]) /\ Len(asked) = Len(clients)
      <4> DEFINE S == [conn : Senders, ready : BOOLEAN]
      <4>1. asked \in [1..Len(clients) -> S]
        BY <1>4, <3>2
      <4> HIDE DEF asked, S
      <4>2. asked \in Seq(S) /\ Len(asked) = Len(clients)
        BY <1>4, <4>1, IsASeq, LenProperties
      <4>3. QED BY <4>2 DEF S
    <3> HIDE DEF asked
    <3>4. (backlog # << >>) \in BOOLEAN
      OBVIOUS
    <3>5. waiters'.clients = asked
          /\ waiters' \in [listener : BOOLEAN, clients : Seq([conn : Senders, ready : BOOLEAN])]
      BY <3>1, <3>3, <3>4
    <3>6. QED BY <1>1, <1>4, <3>1, <3>2, <3>3, <3>5 DEF PollMatches
  <2>2. CASE PollFails
    BY <2>2 DEF PollFails, TypeOK, PollMatches
  <2>3. CASE SkipClient
    <3>1. pc = "read" /\ pc' = pc /\ waiters' = waiters /\ clients' = clients
          /\ left' = left - 1 /\ left > 0
      BY <2>3 DEF SkipClient, Visits
    <3>2. left \in Nat /\ PollMatches /\ Len(waiters.clients) \in Nat
      BY LenProperties DEF TypeOK
    <3>3. left' \in Nat /\ left' =< left /\ \A i \in 1..left' : i \in 1..left
      BY <3>1, <3>2
    <3>4. PollMatches'
      BY <1>4, <3>1, <3>2, <3>3 DEF PollMatches
    <3>5. QED BY <3>1, <3>3, <3>4 DEF TypeOK
  <2>4. CASE ReadDone
    <3>1. << >> \in Seq([conn : Senders, ready : BOOLEAN])
      OBVIOUS
    <3>2. QED BY <2>4, <3>1 DEF ReadDone, NobodyPolled, TypeOK, PollMatches
  <2>5. CASE AcceptDone
    BY <2>5 DEF AcceptDone, TypeOK, PollMatches
  <2>6. QED BY <2>1, <2>2, <2>3, <2>4, <2>5
<1>6. TypeOK'
  BY <1>1, <1>5 DEF TypeOK
<1>7. QED
  BY <1>1, <1>3, <1>5, <1>6, NothingRead

ClientRecords == [conn : Senders, reader : Readers]

\* What a client is made of, field by field.
LEMMA ClientsAre ==
  ASSUME TypeOK
  PROVE  /\ clients \in Seq(ClientRecords) /\ Len(clients) \in Nat
         /\ DOMAIN clients = 1..Len(clients)
         /\ \A i \in 1..Len(clients) :
               /\ clients[i] \in ClientRecords
               /\ clients[i].conn \in Senders /\ clients[i].reader \in Readers
<1>1. clients \in Seq(ClientRecords)
  BY DEF TypeOK, ClientRecords, Readers
<1>2. \A i \in 1..Len(clients) : clients[i] \in ClientRecords
  BY <1>1, ElementOfSeq
<1>3. QED
  BY <1>1, <1>2, LenProperties DEF ClientRecords

\* A chunk that is read goes to the reader of its connection.
LEMMA ReadSomeKeepsInv ==
  ASSUME ReceiverInv, ReadSome
  PROVE  ReceiverInv'
<1> USE DEF ReceiverInv
<1> DEFINE s == clients[left].conn
           r == clients[left].reader
           fed == Feed(r, Chunk(s))
           seen == SubSeq(Text(s), 1, taken[s])
<1>1. /\ pc = "read" /\ left > 0 /\ left' = left - 1
      /\ clients' = [clients EXCEPT ![left].reader = fed.reader]
      /\ lines' = [lines EXCEPT ![s] = @ \o fed.lines]
      /\ taken' = [taken EXCEPT ![s] = @ + Len(Chunk(s))]
      /\ dropped' = IF fed.complete THEN dropped ELSE dropped + 1
      /\ UNCHANGED <<link, sent, backlog, pc, waiters, over>>
  BY DEF ReadSome, Visits, Position, network
<1>2. left \in 1..Len(clients) /\ left =< Len(waiters.clients)
  <2>1. left =< Len(clients) /\ left =< Len(waiters.clients)
    BY <1>1 DEF PollMatches
  <2>2. left \in Nat /\ Len(clients) \in Nat
    BY ClientsAre DEF TypeOK
  <2>3. QED BY <1>1, <2>1, <2>2
<1>3. s \in Senders /\ r \in Readers /\ s \in Clients
  BY <1>2, ClientsAre DEF Clients
<1>4. Remembers(r.pending, r.skipping, CutUp(seen))
  BY <1>2, ClientsAre DEF ReadersInStep
<1>5. sent[s] \in Nat /\ taken[s] \in Nat /\ taken[s] =< sent[s] /\ sent[s] =< Len(Text(s))
      /\ lines[s] \in Seq(Seq(Letters)) /\ lines[s] = KeptLines(seen)
  BY <1>3 DEF TypeOK, TakenInOrder, LinesOfTheirSender
<1> HIDE DEF s, r
<1>6. /\ Chunk(s) \in Seq(Bytes) /\ Len(Chunk(s)) \in Nat /\ Len(Chunk(s)) =< Limit
      /\ taken[s] + Len(Chunk(s)) =< sent[s] /\ seen \in Seq(Bytes)
      /\ SubSeq(Text(s), 1, taken[s] + Len(Chunk(s))) = seen \o Chunk(s)
  BY <1>3, <1>5, ChunkTaken
<1> HIDE DEF seen
<1>7. /\ fed.reader \in Readers /\ fed.lines \in Seq(Seq(Letters)) /\ fed.complete \in BOOLEAN
      /\ Remembers(fed.reader.pending, fed.reader.skipping, CutUp(seen \o Chunk(s)))
      /\ KeptLines(seen \o Chunk(s)) = KeptLines(seen) \o fed.lines
  BY <1>3, <1>4, <1>6, FeedCorrect, Zenon
<1> HIDE DEF fed
<1>8. /\ clients' \in Seq(ClientRecords) /\ Len(clients') = Len(clients)
      /\ \A i \in 1..Len(clients) :
            /\ clients'[i].conn = clients[i].conn
            /\ clients'[i].reader = IF i = left THEN fed.reader ELSE clients[i].reader
  <2> DEFINE new == [clients[left] EXCEPT !.reader = fed.reader]
  <2>1. /\ new \in ClientRecords /\ new.conn = clients[left].conn /\ new.reader = fed.reader
    BY <1>2, <1>7, ClientsAre DEF ClientRecords
  <2>2. clients' = [clients EXCEPT ![left] = new]
    BY <1>1
  <2> HIDE DEF new
  <2>3. clients' \in Seq(ClientRecords) /\ Len(clients') = Len(clients)
        /\ \A i \in 1..Len(clients) : clients'[i] = IF i = left THEN new ELSE clients[i]
    BY <1>2, <2>1, <2>2, ClientsAre, ExceptSeq
  <2>4. QED BY <2>1, <2>3
<1>9. DOMAIN clients = 1..Len(clients) /\ DOMAIN clients' = 1..Len(clients)
  BY <1>8, ClientsAre, LenProperties
<1>10. Clients' = Clients /\ Waiting' = Waiting
  BY <1>1, <1>8, <1>9 DEF Clients, Waiting
<1>11. /\ taken' \in [Senders -> Nat] /\ taken'[s] = taken[s] + Len(Chunk(s))
       /\ \A q \in Senders : q # s => taken'[q] = taken[q]
       /\ lines' \in [Senders -> Seq(Seq(Letters))] /\ lines'[s] = lines[s] \o fed.lines
       /\ \A q \in Senders : q # s => lines'[q] = lines[q]
  <2>1. taken[s] + Len(Chunk(s)) \in Nat
    BY <1>5, <1>6
  <2>2. lines[s] \o fed.lines \in Seq(Seq(Letters))
    BY <1>5, <1>7, ConcatProperties
  <2>3. QED BY <1>1, <1>3, <2>1, <2>2 DEF TypeOK
<1>12. TypeOK'
  <2>1. left' \in Nat /\ dropped' \in Nat
    BY <1>1, <1>7 DEF TypeOK
  <2>2. clients' \in Seq([conn : Senders, reader : [pending : Seq(Letters), skipping : BOOLEAN]])
        /\ Len(clients') =< MaxClients
    BY <1>8 DEF TypeOK, ClientRecords, Readers
  <2>3. QED BY <1>1, <1>11, <2>1, <2>2 DEF TypeOK
<1>13. NoClientForgotten'
  BY <1>1, <1>8, <1>9, <1>10 DEF NoClientForgotten
<1>14. Distinct'
  BY <1>1 DEF Distinct
<1>15. TakenInOrder'
  BY <1>1, <1>3, <1>6, <1>10, <1>11 DEF TakenInOrder
<1>16. PollMatches'
  <2>1. left' \in Nat /\ left' =< left /\ \A i \in 1..left' : i \in 1..left /\ i \in 1..Len(clients)
    BY <1>1, <1>2, ClientsAre
  <2>2. left' =< Len(clients') /\ left' =< Len(waiters'.clients)
    <3>1. left \in Nat /\ Len(clients) \in Nat /\ left =< Len(clients)
      BY <1>2, ClientsAre
    <3>2. waiters.clients \in Seq([conn : Senders, ready : BOOLEAN])
      BY DEF TypeOK
    <3>3. Len(waiters.clients) \in Nat /\ left =< Len(waiters.clients)
      BY <1>2, <3>2, LenProperties
    <3>4. waiters' = waiters /\ Len(clients') = Len(clients)
      BY <1>1, <1>8
    <3>5. left' =< Len(waiters.clients) /\ left' =< Len(clients)
      BY <2>1, <3>1, <3>3
    <3>6. QED BY <3>4, <3>5
  <2>3. \A i \in 1..left' : waiters'.clients[i].conn = clients'[i].conn
    BY <1>1, <1>8, <2>1 DEF PollMatches
  <2>4. QED BY <2>2, <2>3 DEF PollMatches
<1>17. SubSeq(Text(s), 1, taken'[s]) = seen \o Chunk(s)
  BY <1>6, <1>11
<1>18. ReadersInStep'
  <2> SUFFICES ASSUME NEW i \in 1..Len(clients)
               PROVE  Remembers(clients'[i].reader.pending, clients'[i].reader.skipping,
                                CutUp(SubSeq(Text(clients'[i].conn), 1, taken'[clients'[i].conn])))
    BY <1>9 DEF ReadersInStep
  <2>1. CASE i = left
    <3>1. clients'[i].conn = s /\ clients'[i].reader = fed.reader
      BY <1>8, <2>1 DEF s
    <3>2. QED BY <1>7, <1>17, <3>1, Zenon
  <2>2. CASE i # left
    <3>1. clients'[i].conn = clients[i].conn /\ clients'[i].reader = clients[i].reader
      BY <1>8, <2>2
    <3>2. clients[i].conn # s /\ clients[i].conn \in Senders
      BY <1>2, <1>9, <2>2, ClientsAre DEF NoClientForgotten, s
    <3>3. taken'[clients[i].conn] = taken[clients[i].conn]
      BY <1>11, <3>2
    <3>4. QED BY <1>9, <3>1, <3>3 DEF ReadersInStep
  <2>3. QED BY <2>1, <2>2
<1>19. LinesOfTheirSender'
  <2> SUFFICES ASSUME NEW q \in Senders
               PROVE  lines'[q] = KeptLines(SubSeq(Text(q), 1, taken'[q]))
    BY DEF LinesOfTheirSender
  <2>1. CASE q = s
    BY <1>5, <1>7, <1>11, <1>17, <2>1, Zenon
  <2>2. CASE q # s
    BY <1>11, <2>2 DEF LinesOfTheirSender
  <2>3. QED BY <2>1, <2>2
<1>20. QED
  BY <1>12, <1>13, <1>14, <1>15, <1>16, <1>18, <1>19

\* What erase() leaves.
LEMMA Erased ==
  ASSUME TypeOK, NEW k \in 1..Len(clients)
  PROVE  /\ Erase(k) \in Seq(ClientRecords) /\ Len(Erase(k)) = Len(clients) - 1
         /\ \A i \in 1..(k - 1) : Erase(k)[i] = clients[i]
         /\ \A i \in k..(Len(clients) - 1) : Erase(k)[i] = clients[i + 1]
<1> DEFINE N == Len(clients)
           front == SubSeq(clients, 1, k - 1)
           back == SubSeq(clients, k + 1, N)
<1>1. N \in Nat /\ k \in Nat /\ 1 =< k /\ k =< N /\ \A i \in 1..N : clients[i] \in ClientRecords
  BY ClientsAre
<1>2. /\ front \in Seq(ClientRecords) /\ Len(front) = k - 1
      /\ \A i \in 1..(k - 1) : front[i] = clients[i]
  <2>1. \A i \in 1..(k - 1) : clients[i] \in ClientRecords
    BY <1>1
  <2>2. /\ front \in Seq(ClientRecords)
        /\ Len(front) = IF 1 =< k - 1 THEN (k - 1) - 1 + 1 ELSE 0
        /\ \A i \in 1..((k - 1) - 1 + 1) : front[i] = clients[1 + i - 1]
    BY <1>1, <2>1, SubSeqProperties
  <2> HIDE DEF front
  <2>3. QED BY <1>1, <2>2
<1>3. /\ back \in Seq(ClientRecords) /\ Len(back) = N - k
      /\ \A i \in 1..(N - k) : back[i] = clients[k + i]
  <2>1. \A i \in (k + 1)..N : clients[i] \in ClientRecords
    BY <1>1
  <2>2. /\ back \in Seq(ClientRecords)
        /\ Len(back) = IF k + 1 =< N THEN N - (k + 1) + 1 ELSE 0
        /\ \A i \in 1..(N - (k + 1) + 1) : back[i] = clients[(k + 1) + i - 1]
    BY <1>1, <2>1, SubSeqProperties
  <2> HIDE DEF back, N
  <2>3. QED BY <1>1, <2>2
<1>4. Erase(k) = front \o back
  BY DEF Erase
<1> HIDE DEF front, back, N
<1>5. /\ front \o back \in Seq(ClientRecords) /\ Len(front \o back) = Len(front) + Len(back)
      /\ \A i \in 1..(Len(front) + Len(back)) :
            (front \o back)[i] = IF i =< Len(front) THEN front[i] ELSE back[i - Len(front)]
  BY <1>2, <1>3, ConcatProperties
<1>6. Len(front \o back) = N - 1
  BY <1>1, <1>2, <1>3, <1>5
<1>7. ASSUME NEW i \in 1..(k - 1) PROVE (front \o back)[i] = clients[i]
  <2>1. i \in 1..(Len(front) + Len(back)) /\ i =< Len(front)
    BY <1>1, <1>2, <1>3
  <2>2. QED BY <1>2, <1>5, <2>1
<1>8. ASSUME NEW i \in k..(N - 1) PROVE (front \o back)[i] = clients[i + 1]
  <2>1. i \in 1..(Len(front) + Len(back)) /\ ~ (i =< Len(front))
        /\ i - Len(front) \in 1..(N - k) /\ k + (i - Len(front)) = i + 1
    BY <1>1, <1>2, <1>3
  <2>2. QED BY <1>3, <1>5, <2>1
<1>9. QED
  BY <1>4, <1>5, <1>6, <1>7, <1>8 DEF N

\* A connection that has ended leaves the clients.
LEMMA ReadEndKeepsInv ==
  ASSUME ReceiverInv, ReadEnd
  PROVE  ReceiverInv'
<1> USE DEF ReceiverInv
<1> DEFINE s == clients[left].conn
           N == Len(clients)
           gone(i) == IF i < left THEN i ELSE i + 1
<1>1. /\ pc = "read" /\ left > 0 /\ left' = left - 1
      /\ clients' = Erase(left) /\ over' = over \cup {s}
      /\ UNCHANGED <<link, sent, backlog, pc, waiters, lines, dropped, taken>>
  BY DEF ReadEnd, Visits, Position, network
<1>2. left \in 1..N /\ left =< Len(waiters.clients) /\ N \in Nat /\ DOMAIN clients = 1..N
      /\ s \in Senders /\ s \in Clients
  <2>1. left \in Nat /\ left =< N /\ left =< Len(waiters.clients) /\ N \in Nat
    BY <1>1, ClientsAre DEF PollMatches, TypeOK
  <2>2. left \in 1..N
    BY <1>1, <2>1
  <2>3. DOMAIN clients = 1..N /\ s \in Senders
    BY <2>2, ClientsAre
  <2>4. QED BY <2>1, <2>2, <2>3 DEF Clients
<1>3. /\ clients' \in Seq(ClientRecords) /\ Len(clients') = N - 1
      /\ \A i \in 1..(N - 1) : clients'[i] = clients[gone(i)]
  <2>1. \A i \in 1..(N - 1) : i \in 1..(left - 1) \/ i \in left..(N - 1)
    BY <1>2
  <2>2. /\ Erase(left) \in Seq(ClientRecords) /\ Len(Erase(left)) = N - 1
        /\ \A i \in 1..(left - 1) : Erase(left)[i] = clients[i]
        /\ \A i \in left..(N - 1) : Erase(left)[i] = clients[i + 1]
    BY <1>2, Erased
  <2>3. \A i \in 1..(N - 1) : Erase(left)[i] = clients[gone(i)]
    BY <1>2, <2>1, <2>2
  <2>4. QED BY <1>1, <2>2, <2>3
<1>4. DOMAIN clients' = 1..(N - 1)
  BY <1>3, LenProperties
<1>5. /\ \A i \in 1..(N - 1) : gone(i) \in 1..N /\ gone(i) # left
      /\ \A i, j \in 1..(N - 1) : gone(i) = gone(j) => i = j
      /\ \A k \in 1..N : k # left => \E i \in 1..(N - 1) : gone(i) = k
  <2>1. \A i \in 1..(N - 1) : gone(i) \in 1..N /\ gone(i) # left
    BY <1>2
  <2>2. \A i, j \in 1..(N - 1) : gone(i) = gone(j) => i = j
    BY <1>2
  <2>3. ASSUME NEW k \in 1..N, k # left PROVE \E i \in 1..(N - 1) : gone(i) = k
    <3>1. CASE k < left
      <4>1. k \in 1..(N - 1) /\ gone(k) = k
        BY <1>2, <3>1
      <4>2. QED BY <4>1
    <3>2. CASE k > left
      <4>1. k - 1 \in 1..(N - 1) /\ gone(k - 1) = k
        BY <1>2, <3>2
      <4>2. QED BY <4>1
    <3>3. QED BY <1>2, <2>3, <3>1, <3>2
  <2>4. QED BY <2>1, <2>2, <2>3
<1> HIDE DEF gone
<1>6. \A i, j \in 1..N : clients[i].conn = clients[j].conn => i = j
  BY <1>2 DEF NoClientForgotten
<1>7. Clients' = Clients \ {s} /\ Waiting' = Waiting
  <2>1. Waiting' = Waiting
    BY <1>1 DEF Waiting
  <2>2. ASSUME NEW q \in Clients' PROVE q \in Clients \ {s}
    <3>1. PICK i \in 1..(N - 1) : q = clients'[i].conn
      BY <1>4 DEF Clients
    <3>2. q = clients[gone(i)].conn /\ gone(i) \in 1..N /\ gone(i) # left
      BY <1>3, <1>5, <3>1
    <3>3. QED BY <1>2, <1>6, <3>2 DEF Clients
  <2>3. ASSUME NEW q \in Clients \ {s} PROVE q \in Clients'
    <3>1. PICK k \in 1..N : q = clients[k].conn
      BY <1>2 DEF Clients
    <3>2. k # left
      BY <3>1
    <3>3. PICK i \in 1..(N - 1) : gone(i) = k
      BY <1>5, <3>2
    <3>4. q = clients'[i].conn
      BY <1>3, <3>1, <3>3
    <3>5. QED BY <1>4, <3>4 DEF Clients
  <2>4. QED BY <2>1, <2>2, <2>3
<1>8. TypeOK'
  <2>1. left' \in Nat
    BY <1>1, <1>2
  <2>2. clients' \in Seq([conn : Senders, reader : [pending : Seq(Letters), skipping : BOOLEAN]])
        /\ Len(clients') =< MaxClients
    BY <1>2, <1>3, TcpReceiverAssumption DEF TypeOK, ClientRecords, Readers
  <2>3. QED BY <1>1, <1>2, <2>1, <2>2 DEF TypeOK
<1>9. NoClientForgotten'
  <2>1. \A i, j \in DOMAIN clients' : clients'[i].conn = clients'[j].conn => i = j
    <3> SUFFICES ASSUME NEW i \in 1..(N - 1), NEW j \in 1..(N - 1),
                        clients'[i].conn = clients'[j].conn
                 PROVE  i = j
      BY <1>4
    <3>1. clients[gone(i)].conn = clients[gone(j)].conn
      BY <1>3
    <3>2. gone(i) \in 1..N /\ gone(j) \in 1..N
      BY <1>5
    <3>3. gone(i) = gone(j)
      BY <1>6, <3>1, <3>2
    <3>4. QED BY <1>5, <3>3
  <2>2. QED BY <1>1, <1>2, <1>7, <2>1 DEF NoClientForgotten
<1>10. Distinct' /\ LinesOfTheirSender'
  BY <1>1 DEF Distinct, LinesOfTheirSender
<1>11. TakenInOrder'
  BY <1>1, <1>2, <1>7 DEF TakenInOrder
<1>12. PollMatches'
  <2>1. left' \in Nat /\ left' =< N - 1 /\ left' =< left
        /\ \A i \in 1..left' : i \in 1..left /\ i \in 1..(N - 1) /\ i < left
    BY <1>1, <1>2
  <2>2. waiters.clients \in Seq([conn : Senders, ready : BOOLEAN])
    BY DEF TypeOK
  <2>3. left' =< Len(waiters.clients)
    BY <1>2, <2>1, <2>2, LenProperties
  <2>4. \A i \in 1..left' : waiters'.clients[i].conn = clients'[i].conn
    BY <1>1, <1>3, <2>1 DEF PollMatches, gone
  <2>5. QED BY <1>1, <1>3, <2>1, <2>3, <2>4 DEF PollMatches
<1>13. ReadersInStep'
  BY <1>1, <1>2, <1>3, <1>4, <1>5 DEF ReadersInStep
<1>14. QED
  BY <1>8, <1>9, <1>10, <1>11, <1>12, <1>13

\* The connection that has waited longest leaves the backlog, and only that one.
LEMMA FirstLeavesBacklog ==
  ASSUME TypeOK, Distinct, backlog # << >>, backlog' = Tail(backlog)
  PROVE  /\ Head(backlog) \in Senders /\ Head(backlog) \in Waiting
         /\ Waiting' = Waiting \ {Head(backlog)}
         /\ backlog' \in Seq(Senders) /\ Len(backlog') =< Backlog /\ Distinct'
<1> DEFINE h == Head(backlog)
           B == Len(backlog)
<1>1. backlog \in Seq(Senders) /\ DOMAIN backlog = 1..B /\ B \in Nat
  BY LenProperties DEF TypeOK
<1>2. /\ h \in Senders /\ h = backlog[1] /\ B # 0
      /\ backlog' \in Seq(Senders) /\ Len(backlog') = B - 1
      /\ \A i \in 1..(B - 1) : backlog'[i] = backlog[i + 1]
  <2>1. B # 0
    BY <1>1, EmptySeq
  <2>2. h = backlog[1] /\ h \in Senders
    BY <1>1, <2>1, HeadTailProperties, ElementOfSeq
  <2>3. /\ Tail(backlog) \in Seq(Senders) /\ Len(Tail(backlog)) = B - 1
        /\ \A i \in 1..(B - 1) : Tail(backlog)[i] = backlog[i + 1]
    BY <1>1, HeadTailProperties
  <2>4. QED BY <2>1, <2>2, <2>3
<1>3. DOMAIN backlog' = 1..(B - 1)
  BY <1>2, LenProperties
<1> HIDE DEF h
<1>4. Waiting' = Waiting \ {h} /\ h \in Waiting
  <2>1. 1 \in 1..B /\ \A i \in 1..(B - 1) : i + 1 \in 1..B /\ i + 1 # 1
    BY <1>1, <1>2
  <2>2. h \in Waiting
    BY <1>1, <1>2, <2>1 DEF Waiting
  <2>3. ASSUME NEW q \in Waiting' PROVE q \in Waiting \ {h}
    <3>1. PICK i \in 1..(B - 1) : q = backlog'[i]
      BY <1>3 DEF Waiting
    <3>2. QED BY <1>1, <1>2, <2>1, <3>1, SMTT(30) DEF Waiting, Distinct
  <2>4. ASSUME NEW q \in Waiting \ {h} PROVE q \in Waiting'
    <3>1. PICK k \in 1..B : q = backlog[k]
      BY <1>1 DEF Waiting
    <3>2. k # 1
      BY <1>2, <3>1
    <3>3. k - 1 \in 1..(B - 1) /\ (k - 1) + 1 = k
      BY <1>1, <3>2
    <3>4. q = backlog'[k - 1]
      BY <1>2, <3>1, <3>3
    <3>5. QED BY <1>3, <3>3, <3>4 DEF Waiting
  <2>5. QED BY <2>2, <2>3, <2>4
<1>5. Distinct'
  <2>1. \A i \in 1..(B - 1) : i + 1 \in 1..B
    BY <1>1
  <2>2. \A i, j \in 1..(B - 1) : i + 1 = j + 1 => i = j
    BY <1>1
  <2>3. QED BY <1>1, <1>2, <1>3, <2>1, <2>2 DEF Distinct
<1>6. Len(backlog') =< Backlog
  BY <1>1, <1>2, TcpReceiverAssumption DEF TypeOK
<1>7. QED
  BY <1>2, <1>4, <1>5, <1>6 DEF h

\* A connection that is accepted becomes a client of its own.
LEMMA AcceptKeepsInv ==
  ASSUME ReceiverInv, Accept
  PROVE  ReceiverInv'
<1> USE DEF ReceiverInv
<1> DEFINE h == Head(backlog)
           N == Len(clients)
           new == [conn |-> h, reader |-> Fresh]
<1>1. /\ pc = "accept" /\ N < MaxClients /\ backlog # << >>
      /\ clients' = Append(clients, new) /\ backlog' = Tail(backlog)
      /\ UNCHANGED <<link, sent, pc, waiters, left, lines, dropped, taken, over>>
  BY DEF Accept, HasRoom
<1>2. N \in Nat /\ DOMAIN clients = 1..N /\ clients \in Seq(ClientRecords)
      /\ \A i \in 1..N : clients[i].conn \in Senders
  BY ClientsAre
<1>3. /\ h \in Senders /\ h \in Waiting /\ Waiting' = Waiting \ {h}
      /\ backlog' \in Seq(Senders) /\ Len(backlog') =< Backlog /\ Distinct'
  BY <1>1, FirstLeavesBacklog
<1> HIDE DEF h
<1>4. new \in ClientRecords /\ new.conn = h /\ new.reader = Fresh
  BY <1>3, FreshReader DEF ClientRecords
<1> HIDE DEF new
<1>5. /\ clients' \in Seq(ClientRecords) /\ Len(clients') = N + 1
      /\ clients'[N + 1] = new /\ \A i \in 1..N : clients'[i] = clients[i]
  BY <1>1, <1>2, <1>4, AppendProperties
<1>6. DOMAIN clients' = 1..(N + 1)
  BY <1>5, LenProperties
<1>7. Clients' = Clients \cup {h}
  <2>1. \A i \in 1..(N + 1) : i \in 1..N \/ i = N + 1
    BY <1>2
  <2>2. \A i \in 1..N : i \in 1..(N + 1)
    BY <1>2
  <2>3. N + 1 \in 1..(N + 1)
    BY <1>2
  <2>4. QED BY <1>2, <1>4, <1>5, <1>6, <2>1, <2>2, <2>3 DEF Clients
<1>8. h \notin Clients /\ h \notin over /\ taken[h] = 0
  BY <1>3 DEF NoClientForgotten, TakenInOrder
<1>9. TypeOK'
  <2>1. clients' \in Seq([conn : Senders, reader : [pending : Seq(Letters), skipping : BOOLEAN]])
        /\ Len(clients') =< MaxClients
    BY <1>1, <1>2, <1>5, TcpReceiverAssumption DEF ClientRecords, Readers
  <2>2. QED BY <1>1, <1>3, <2>1 DEF TypeOK
<1>10. NoClientForgotten'
  <2>1. \A i \in 1..N : clients[i].conn # h
    BY <1>2, <1>8 DEF Clients
  <2>2. \A i \in 1..(N + 1) : i \in 1..N \/ i = N + 1
    BY <1>2
  <2>3. \A i, j \in DOMAIN clients' : clients'[i].conn = clients'[j].conn => i = j
    BY <1>2, <1>4, <1>5, <1>6, <2>1, <2>2 DEF NoClientForgotten
  <2>4. QED BY <1>1, <1>3, <1>7, <1>8, <2>3 DEF NoClientForgotten
<1>11. TakenInOrder' /\ PollMatches' /\ LinesOfTheirSender'
  BY <1>1, <1>7 DEF TakenInOrder, PollMatches, LinesOfTheirSender
<1>12. ReadersInStep'
  <2> SUFFICES ASSUME NEW i \in 1..(N + 1)
               PROVE  Remembers(clients'[i].reader.pending, clients'[i].reader.skipping,
                                CutUp(SubSeq(Text(clients'[i].conn), 1, taken[clients'[i].conn])))
    BY <1>1, <1>6 DEF ReadersInStep
  <2>1. CASE i \in 1..N
    BY <1>2, <1>5, <2>1 DEF ReadersInStep
  <2>2. CASE i = N + 1
    <3>1. SubSeq(Text(h), 1, taken[h]) = << >>
      BY <1>8, SubSeqEmpty
    <3>2. clients'[i].conn = h /\ clients'[i].reader = Fresh
      BY <1>4, <1>5, <2>2
    <3>3. QED BY <3>1, <3>2, FreshReader
  <2>3. QED BY <1>2, <2>1, <2>2
<1>13. QED
  BY <1>3, <1>9, <1>10, <1>11, <1>12

\* A connection that is closed at once is nowhere else.
LEMMA AcceptClosesKeepsInv ==
  ASSUME ReceiverInv, AcceptCloses
  PROVE  ReceiverInv'
<1> USE DEF ReceiverInv
<1> DEFINE h == Head(backlog)
<1>1. /\ backlog # << >> /\ backlog' = Tail(backlog)
      /\ link' = [link EXCEPT ![h] = "closed"] /\ over' = over \cup {h}
      /\ UNCHANGED <<sent, clients, pc, waiters, left, lines, dropped, taken>>
  BY DEF AcceptCloses
<1>2. /\ h \in Senders /\ h \in Waiting /\ Waiting' = Waiting \ {h}
      /\ backlog' \in Seq(Senders) /\ Len(backlog') =< Backlog /\ Distinct'
  BY <1>1, FirstLeavesBacklog
<1> HIDE DEF h
<1>3. Clients' = Clients
  BY <1>1 DEF Clients
<1>4. h \notin Clients /\ h \notin over /\ link[h] # "new"
  BY <1>2 DEF NoClientForgotten
<1>5. TypeOK'
  BY <1>1, <1>2 DEF TypeOK
<1>6. NoClientForgotten'
  BY <1>1, <1>2, <1>3, <1>4 DEF NoClientForgotten, TypeOK
<1>7. TakenInOrder' /\ PollMatches'
  BY <1>1, <1>3 DEF TakenInOrder, PollMatches
<1>8. QED
  BY <1>1, <1>2, <1>5, <1>6, <1>7, NothingRead

\* Every step keeps the invariant of the receiver.
LEMMA ReceiverInvInductive == ReceiverInv /\ [Next]_vars => ReceiverInv'
<1> SUFFICES ASSUME ReceiverInv, [Next]_vars PROVE ReceiverInv'
  OBVIOUS
<1>1. CASE UNCHANGED vars
  <2>1. UNCHANGED <<link, sent, backlog, clients, pc, waiters, left, lines, dropped, taken, over>>
    BY <1>1 DEF vars, network, receiver
  <2>2. Clients' = Clients /\ Waiting' = Waiting
    BY <2>1 DEF Clients, Waiting
  <2>3. TypeOK'
    BY <2>1 DEF ReceiverInv, TypeOK
  <2>4. NoClientForgotten' /\ TakenInOrder' /\ PollMatches' /\ Distinct'
    BY <2>1, <2>2 DEF ReceiverInv, NoClientForgotten, TakenInOrder, PollMatches, Distinct
  <2>5. QED BY <2>1, <2>3, <2>4, NothingRead DEF ReceiverInv
<1>2. CASE Next
  <2>1. CASE Receive
    BY <2>1, ControlKeepsInv, ReadSomeKeepsInv, ReadEndKeepsInv DEF Receive
  <2>2. CASE Accept
    BY <2>2, AcceptKeepsInv
  <2>3. CASE PollFails
    BY <2>3, ControlKeepsInv
  <2>4. ASSUME NEW s \in Senders, Connect(s) \/ Send(s) \/ Close(s) \/ Reset(s)
        PROVE  ReceiverInv'
    BY <2>4, ConnectKeepsInv, SenderKeepsInv
  <2>5. CASE AcceptCloses
    BY <2>5, AcceptClosesKeepsInv
  <2>6. QED BY <1>2, <2>1, <2>2, <2>3, <2>4, <2>5 DEF Next
<1>3. QED
  BY <1>1, <1>2

\* The invariant of the receiver holds throughout.
LEMMA ReceiverInvAlways == Spec => []ReceiverInv
<1>1. Init => ReceiverInv
  <2> SUFFICES ASSUME Init PROVE ReceiverInv
    OBVIOUS
  <2> USE DEF Init
  <2>1. \A s \in Senders : /\ Len(Text(s)) \in Nat /\ SubSeq(Text(s), 1, 0) = << >>
    BY TcpReceiverAssumption, LenProperties, SubSeqEmpty
  <2>2. Clients = {} /\ Waiting = {}
    BY DEF Clients, Waiting
  <2>3. TypeOK
    <3>1. /\ << >> \in Seq(Senders) /\ << >> \in Seq([conn : Senders, ready : BOOLEAN])
          /\ << >> \in Seq([conn : Senders, reader : [pending : Seq(Letters), skipping : BOOLEAN]])
          /\ << >> \in Seq(Seq(Letters)) /\ Len(<< >>) = 0
      OBVIOUS
    <3>2. waiters \in [listener : BOOLEAN, clients : Seq([conn : Senders, ready : BOOLEAN])]
      BY <3>1 DEF NobodyPolled
    <3>3. QED BY <3>1, <3>2, TcpReceiverAssumption DEF TypeOK
  <2>4. TakenInOrder
    BY <2>1 DEF TakenInOrder
  <2>5. PollMatches /\ Distinct /\ ReadersInStep
    BY DEF PollMatches, Distinct, ReadersInStep
  <2>6. NoClientForgotten
    BY <2>2 DEF NoClientForgotten
  <2>7. LinesOfTheirSender
    BY <2>1, NothingCut DEF LinesOfTheirSender
  <2>8. QED BY <2>3, <2>4, <2>5, <2>6, <2>7 DEF ReceiverInv
<1>2. QED
  BY <1>1, ReceiverInvInductive, PTL DEF Spec

\* The types of the receiver: never more clients than kMaxClients.
THEOREM TypeCorrect == Spec => []TypeOK
<1>1. ReceiverInv => TypeOK
  BY DEF ReceiverInv
<1>2. QED
  BY <1>1, ReceiverInvAlways, PTL

\* The loop of receive() may erase a client at any position it visits: every answer
\* of poll() is used for the client that it is about.
THEOREM WaitersAlwaysMatch == Spec => []WaitersMatchClients
<1>1. ReceiverInv => WaitersMatchClients
  <2> SUFFICES ASSUME ReceiverInv, pc = "read", left > 0
               PROVE  left \in DOMAIN clients /\ waiters.clients[left].conn = clients[left].conn
    BY DEF WaitersMatchClients, Position
  <2>1. left \in 1..left /\ left \in 1..Len(clients)
    BY ClientsAre DEF ReceiverInv, PollMatches, TypeOK
  <2>2. QED BY <2>1, ClientsAre DEF ReceiverInv, PollMatches
<1>2. QED
  BY <1>1, ReceiverInvAlways, PTL

\* acceptClients() and receive() keep every connection in exactly one place until the
\* collector closes it.
THEOREM NoneForgotten == Spec => []NoClientForgotten
<1>1. ReceiverInv => NoClientForgotten
  BY DEF ReceiverInv
<1>2. QED
  BY <1>1, ReceiverInvAlways, PTL

\* Whatever the senders do and however many there are, receive() gives the lines of
\* each one as they were sent, whole and in order.
THEOREM LinesAreOfTheirSender == Spec => []LinesOfTheirSender
<1>1. ReceiverInv => LinesOfTheirSender
  BY DEF ReceiverInv
<1>2. QED
  BY <1>1, ReceiverInvAlways, PTL
=============================================================================

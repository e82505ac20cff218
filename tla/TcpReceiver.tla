---------------------------- MODULE TcpReceiver ----------------------------
(***************************************************************************)
(* Collector::TcpReceiver (collector/core/net/TcpReceiver.cpp): one        *)
(* receive() polls the listening socket and those of the clients, reads    *)
(* once from each client that is ready, the last one first, drops those    *)
(* whose connection has ended, and accepts new ones while there is room.   *)
(*                                                                         *)
(* poll(), each recv() and each accept() are actions of their own: senders *)
(* connect, send and leave between any two of them.  The bytes go through  *)
(* the LineReader of their connection.                                     *)
(***************************************************************************)
EXTENDS LineReader, FiniteSets

CONSTANTS
    Senders,        \* each of them connects once
    Text(_),        \* what a sender sends; bound of the model: it is finite
    MaxClients,     \* kMaxClients
    Backlog         \* kBacklog

ASSUME TcpReceiverAssumption ==
    /\ \A s \in Senders : Text(s) \in Seq(Bytes)
    /\ MaxClients \in Nat \ {0} /\ Backlog \in Nat \ {0}

VARIABLES
    link,       \* a sender's end: "new", "open", "closed" or "reset"
    sent,       \* bytes of its text that have arrived at the collector's host
    backlog,    \* connections that wait for accept(), the oldest first
    clients,    \* m_clients
    pc,         \* where receive() is, "idle" between two calls
    waiters,    \* what poll() said: of the listening socket, and of the clients
    left,       \* clients that the loop has yet to visit
    lines,      \* the lines that receive() gave, by their sender (history)
    dropped,    \* m_dropped
    taken,      \* bytes that recv() has returned, by their sender (history)
    over        \* senders whose connection the collector has closed (history)

network == <<link, sent, backlog>>
receiver == <<clients, pc, waiters, left, lines, dropped, taken, over>>
vars == <<network, receiver>>

NobodyPolled == [listener |-> FALSE, clients |-> << >>]

\* A recv() on the connection would not block.
Ready(s) == sent[s] > taken[s] \/ link[s] \in {"closed", "reset"}

Init ==
    /\ link = [s \in Senders |-> "new"]
    /\ sent = [s \in Senders |-> 0]
    /\ backlog = << >>
    /\ clients = << >>
    /\ pc = "idle"
    /\ waiters = NobodyPolled
    /\ left = 0
    /\ lines = [s \in Senders |-> << >>]
    /\ dropped = 0
    /\ taken = [s \in Senders |-> 0]
    /\ over = {}

-----------------------------------------------------------------------------
(* The senders and the network.                                             *)

Connect(s) ==
    /\ link[s] = "new" /\ Len(backlog) < Backlog
    /\ link' = [link EXCEPT ![s] = "open"]
    /\ backlog' = Append(backlog, s)
    /\ UNCHANGED <<sent, receiver>>

\* One more byte arrives, before the connection is accepted too.
Send(s) ==
    /\ link[s] = "open" /\ sent[s] < Len(Text(s))
    /\ sent' = [sent EXCEPT ![s] = @ + 1]
    /\ UNCHANGED <<link, backlog, receiver>>

Close(s) ==
    /\ link[s] = "open"
    /\ link' = [link EXCEPT ![s] = "closed"]
    /\ UNCHANGED <<sent, backlog, receiver>>

\* A reset may lose what was not read yet.
Reset(s) ==
    /\ link[s] = "open"
    /\ link' = [link EXCEPT ![s] = "reset"]
    /\ \E n \in taken[s]..sent[s] : sent' = [sent EXCEPT ![s] = n]
    /\ UNCHANGED <<backlog, receiver>>

-----------------------------------------------------------------------------
(* receive()                                                                *)

\* Seeded fault: while somebody waits for accept(), no client is read.
PolledListenerFirst ==
    [listener |-> backlog # << >>,
     clients |-> [i \in DOMAIN clients |-> [conn |-> clients[i].conn,
                                            ready |-> backlog = << >> /\ Ready(clients[i].conn)]]]

Polled ==
    [listener |-> backlog # << >>,
     clients |-> [i \in DOMAIN clients |-> [conn |-> clients[i].conn,
                                            ready |-> Ready(clients[i].conn)]]]

\* poll() returns when a socket is ready.  When none is until the timeout, or a
\* signal comes first, receive() returns and nothing has changed.
Poll ==
    /\ pc = "idle"
    /\ waiters' = Polled
    /\ waiters'.listener \/ \E i \in DOMAIN waiters'.clients : waiters'.clients[i].ready
    /\ left' = Len(clients)
    /\ pc' = "read"
    /\ UNCHANGED <<network, clients, lines, dropped, taken, over>>

PollFails ==
    /\ pc = "idle"
    /\ pc' = "failed"
    /\ UNCHANGED <<network, clients, waiters, left, lines, dropped, taken, over>>

\* Seeded fault: the loop starts with the first client.
FirstToLast == Len(waiters.clients) - left + 1

\* The loop goes from the last client to the first.
Position == left

Visits == pc = "read" /\ left > 0 /\ left' = left - 1

\* poll() did not name the client, or recv() is interrupted or would block after
\* all: the client stays, with nothing read.
SkipClient ==
    /\ Visits
    /\ UNCHANGED <<network, clients, pc, waiters, lines, dropped, taken, over>>

\* The bytes that a recv() returns now.
Chunk(s) ==
    LET n == IF sent[s] - taken[s] > ChunkSize THEN ChunkSize ELSE sent[s] - taken[s]
    IN  SubSeq(Text(s), taken[s] + 1, taken[s] + n)

\* Seeded fault: the reader of the first client takes the bytes of all of them.
ReadSharesReader ==
    /\ Visits
    /\ waiters.clients[Position].ready
    /\ LET s == clients[Position].conn
           fed == Feed(clients[1].reader, Chunk(s))
       IN  /\ Chunk(s) # << >>
           /\ clients' = [clients EXCEPT ![1].reader = fed.reader]
           /\ lines' = [lines EXCEPT ![s] = @ \o fed.lines]
           /\ taken' = [taken EXCEPT ![s] = @ + Len(Chunk(s))]
           /\ dropped' = IF fed.complete THEN dropped ELSE dropped + 1
    /\ UNCHANGED <<network, pc, waiters, over>>

\* read(): recv() returns bytes, ...
ReadSome ==
    /\ Visits
    /\ waiters.clients[Position].ready
    /\ LET s == clients[Position].conn
           fed == Feed(clients[Position].reader, Chunk(s))
       IN  /\ Chunk(s) # << >>
           /\ clients' = [clients EXCEPT ![Position].reader = fed.reader]
           /\ lines' = [lines EXCEPT ![s] = @ \o fed.lines]
           /\ taken' = [taken EXCEPT ![s] = @ + Len(Chunk(s))]
           /\ dropped' = IF fed.complete THEN dropped ELSE dropped + 1
    /\ UNCHANGED <<network, pc, waiters, over>>

\* Seeded fault: m_clients.erase(m_clients.begin() + i)
EraseNext(position) ==
    SubSeq(clients, 1, position) \o SubSeq(clients, position + 2, Len(clients))

Erase(position) ==
    SubSeq(clients, 1, position - 1) \o SubSeq(clients, position + 1, Len(clients))

\* ... or 0, or another error: the client goes, with the line it has not finished.
ReadEnd ==
    /\ Visits
    /\ waiters.clients[Position].ready
    /\ Chunk(clients[Position].conn) = << >>
    /\ clients' = Erase(Position)
    /\ over' = over \cup {clients[Position].conn}
    /\ UNCHANGED <<network, pc, waiters, lines, dropped, taken>>

ReadDone ==
    /\ pc = "read" /\ left = 0
    /\ pc' = IF waiters.listener THEN "accept" ELSE "idle"
    /\ waiters' = NobodyPolled
    /\ UNCHANGED <<network, clients, left, lines, dropped, taken, over>>

\* Seeded fault: one client too many.
RoomForOneMore == Len(clients) =< MaxClients

HasRoom == Len(clients) < MaxClients

\* Seeded fault: the clients that have gone keep their slots.
AcceptCountsAll ==
    /\ pc = "accept" /\ Len(clients) + Cardinality(over) < MaxClients /\ backlog # << >>
    /\ clients' = Append(clients, [conn |-> Head(backlog), reader |-> Fresh])
    /\ backlog' = Tail(backlog)
    /\ UNCHANGED <<link, sent, pc, waiters, left, lines, dropped, taken, over>>

\* A round of acceptClients(): the connection becomes a client, ...
Accept ==
    /\ pc = "accept" /\ HasRoom /\ backlog # << >>
    /\ clients' = Append(clients, [conn |-> Head(backlog), reader |-> Fresh])
    /\ backlog' = Tail(backlog)
    /\ UNCHANGED <<link, sent, pc, waiters, left, lines, dropped, taken, over>>

\* ... or its socket cannot be made non-blocking and goes out of scope, which closes
\* it; the loop goes on.
AcceptCloses ==
    /\ pc = "accept" /\ HasRoom /\ backlog # << >>
    /\ link' = [link EXCEPT ![Head(backlog)] = "closed"]
    /\ backlog' = Tail(backlog)
    /\ over' = over \cup {Head(backlog)}
    /\ UNCHANGED <<sent, clients, pc, waiters, left, lines, dropped, taken>>

\* There is no room or nobody waits; accept() may fail otherwise too, for want of
\* a file descriptor for example.
AcceptDone ==
    /\ pc = "accept"
    /\ pc' = "idle"
    /\ UNCHANGED <<network, clients, waiters, left, lines, dropped, taken, over>>

Receive ==
    \/ Poll \/ SkipClient \/ ReadSome \/ ReadEnd \/ ReadDone \/ AcceptDone

Next ==
    \/ Receive \/ Accept \/ AcceptCloses \/ PollFails
    \/ \E s \in Senders : Connect(s) \/ Send(s) \/ Close(s) \/ Reset(s)

\* recv() on the socket of s answers with its bytes or its end.
Reads(s) ==
    /\ pc = "read" /\ Position \in DOMAIN clients /\ clients[Position].conn = s
    /\ ReadSome \/ ReadEnd

\* CollectorApp calls receive() again and again; accept(), and recv() on a socket that
\* poll() has named, do not fail every time.  Nothing is assumed of the senders.
Fairness == WF_vars(Receive) /\ SF_vars(Accept) /\ \A s \in Senders : SF_vars(Reads(s))

Spec == Init /\ [][Next]_vars /\ Fairness

-----------------------------------------------------------------------------
Clients == {clients[i].conn : i \in DOMAIN clients}
Waiting == {backlog[i] : i \in DOMAIN backlog}

TypeOK ==
    /\ link \in [Senders -> {"new", "open", "closed", "reset"}]
    /\ sent \in [Senders -> Nat]
    /\ backlog \in Seq(Senders) /\ Len(backlog) =< Backlog
    /\ clients \in Seq([conn : Senders,
                        reader : [pending : Seq(Letters), skipping : BOOLEAN]])
    /\ Len(clients) =< MaxClients
    /\ pc \in {"idle", "read", "accept", "failed"}
    /\ waiters \in [listener : BOOLEAN, clients : Seq([conn : Senders, ready : BOOLEAN])]
    /\ left \in Nat
    /\ lines \in [Senders -> Seq(Seq(Letters))]
    /\ dropped \in Nat
    /\ taken \in [Senders -> Nat]
    /\ over \subseteq Senders

\* waiters[i] is about m_clients[i - 1] for every client that the loop has yet to
\* visit, whatever it has erased (TcpReceiver.cpp:49-56).
WaitersMatchClients ==
    pc = "read" /\ left > 0 =>
        /\ Position \in DOMAIN clients
        /\ waiters.clients[Position].conn = clients[Position].conn

\* A connection is in exactly one place: it waits for accept(), or is one of the
\* clients, or the collector has closed it; none is forgotten or taken twice.
NoClientForgotten ==
    /\ \A s \in Senders : link[s] # "new" <=> s \in Waiting \cup Clients \cup over
    /\ Waiting \cap Clients = {} /\ over \cap (Waiting \cup Clients) = {}
    /\ \A i, j \in DOMAIN clients : clients[i].conn = clients[j].conn => i = j

\* What receive() gives of a sender are the lines of what that sender sent, no
\* byte of another mixed in, and nothing of an unfinished line.
LinesOfTheirSender ==
    \A s \in Senders : lines[s] = KeptLines(SubSeq(Text(s), 1, taken[s]))

\* The bytes of a client are read in the end, however many others are ready.
ClientIsRead ==
    \A s \in Senders :
        s \in Clients /\ sent[s] > taken[s] ~> sent[s] = taken[s] \/ pc = "failed"

\* A slot that comes free goes to a connection that waits.
SlotIsReused ==
    backlog # << >> /\ HasRoom ~> backlog = << >> \/ ~ HasRoom \/ pc = "failed"

=============================================================================

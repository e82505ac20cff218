--------------------------- MODULE Startup_proofs ---------------------------
(***************************************************************************)
(* That an endpoint reads as it was written; the contract of               *)
(* createLogger() and openReceiver(), for any list of targets, any answers *)
(* of the resolver and any failures; and that a command line of any length *)
(* is run as it reads.                                                     *)
(***************************************************************************)
EXTENDS Startup, Induction, FiniteSetTheorems, SequenceTheorems, TLAPS

-----------------------------------------------------------------------------
(* joinHostPort() against splitHostPort(), for hosts of any length.         *)

\* What a sequence is with two more elements.
LEMMA TwoMore ==
    ASSUME NEW S, NEW s \in Seq(S), NEW a \in S, NEW b \in S
    PROVE  /\ s \o <<a, b>> \in Seq(S) /\ Len(s \o <<a, b>>) = Len(s) + 2
           /\ \A i \in 1..Len(s) : (s \o <<a, b>>)[i] = s[i]
           /\ (s \o <<a, b>>)[Len(s) + 1] = a /\ (s \o <<a, b>>)[Len(s) + 2] = b
<1>1. <<a, b>> \in Seq(S) /\ Len(<<a, b>>) = 2 /\ <<a, b>>[1] = a /\ <<a, b>>[2] = b
  OBVIOUS
<1>2. Len(s) \in Nat /\ \A i \in 1..(Len(s) + 2) :
        (s \o <<a, b>>)[i] = IF i <= Len(s) THEN s[i] ELSE <<a, b>>[i - Len(s)]
  BY <1>1, ConcatProperties, LenProperties
<1>3. s \o <<a, b>> \in Seq(S) /\ Len(s \o <<a, b>>) = Len(s) + 2
  BY <1>1, ConcatProperties
<1>4. \A i \in 1..Len(s) : (s \o <<a, b>>)[i] = s[i]
  BY <1>2
<1>5. (s \o <<a, b>>)[Len(s) + 1] = <<a, b>>[1]
  BY <1>2
<1>6. (s \o <<a, b>>)[Len(s) + 2] = <<a, b>>[2]
  BY <1>2
<1> QED
  BY <1>1, <1>3, <1>4, <1>5, <1>6

\* What a sequence is between a first element and a last one.
LEMMA Between ==
    ASSUME NEW S, NEW s \in Seq(S), NEW a \in S, NEW b \in S
    PROVE  /\ <<a>> \o s \o <<b>> \in Seq(S) /\ Len(<<a>> \o s \o <<b>>) = Len(s) + 2
           /\ (<<a>> \o s \o <<b>>)[1] = a
           /\ \A i \in 1..Len(s) : (<<a>> \o s \o <<b>>)[i + 1] = s[i]
           /\ (<<a>> \o s \o <<b>>)[Len(s) + 2] = b
<1> DEFINE t == <<a>> \o s
           u == t \o <<b>>
<1>1. /\ <<a>> \in Seq(S) /\ Len(<<a>>) = 1 /\ <<a>>[1] = a
      /\ <<b>> \in Seq(S) /\ Len(<<b>>) = 1 /\ <<b>>[1] = b
  OBVIOUS
<1>2. Len(s) \in Nat
  BY LenProperties
<1>3. t \in Seq(S) /\ Len(t) = Len(s) + 1
  BY <1>1, <1>2, ConcatProperties
<1>4. \A i \in 1..(Len(s) + 1) : t[i] = IF i <= 1 THEN <<a>>[i] ELSE s[i - 1]
  BY <1>1, <1>2, ConcatProperties
<1> HIDE DEF t
<1>5. u \in Seq(S) /\ Len(u) = Len(s) + 2
  BY <1>1, <1>2, <1>3, ConcatProperties
<1>6. \A i \in 1..(Len(s) + 2) : u[i] = IF i <= Len(s) + 1 THEN t[i] ELSE <<b>>[i - (Len(s) + 1)]
  BY <1>1, <1>2, <1>3, ConcatProperties
<1> HIDE DEF u
<1>7. u[1] = a
  <2>1. t[1] = a
    BY <1>1, <1>2, <1>4
  <2>2. u[1] = t[1]
    BY <1>2, <1>6
  <2> QED
    BY <2>1, <2>2
<1>8. \A i \in 1..Len(s) : u[i + 1] = s[i]
  BY <1>2, <1>4, <1>6
<1>9. u[Len(s) + 2] = <<b>>[1]
  BY <1>2, <1>6
<1> QED
  BY <1>1, <1>5, <1>7, <1>8, <1>9 DEF t, u

\* The last element of a sequence, cut off as a sequence.
LEMMA LastOne ==
    ASSUME NEW S, NEW s \in Seq(S), NEW i \in 1..Len(s)
    PROVE  SubSeq(s, i, i) = <<s[i]>>
<1>1. s[i] \in S /\ i \in Int
  BY LenProperties
<1> DEFINE one == SubSeq(s, i, i)
<1>2. one \in Seq(S) /\ Len(one) = 1 /\ one[1] = s[i]
  BY <1>1, SubSeqProperties
<1>3. <<s[i]>> \in Seq(S) /\ Len(<<s[i]>>) = 1 /\ <<s[i]>>[1] = s[i]
  BY <1>1
<1> HIDE DEF one
<1>4. \A j \in 1..Len(one) : one[j] = <<s[i]>>[j]
  BY <1>2, <1>3
<1> QED
  BY <1>2, <1>3, <1>4, SeqEqual DEF one

-----------------------------------------------------------------------------
\* A host of getsockname() or of an option has no bracket in it.
HasNoBracket(host) == \A i \in 1..Len(host) : host[i] \notin {"[", "]"}

Delimiters == {"[", "]", ":"}

\* What splitHostPort() makes of a text.
Splits(text, host, portText) ==
    HasParts(text) /\ HostOf(text) = host /\ PortTextOf(text) = <<portText>>

\* The colon before the port is the only one.
LEMMA SplitPlain ==
    ASSUME NEW Atoms, Delimiters \subseteq Atoms,
           NEW host \in Seq(Atoms), HasNoBracket(host), ColonsOf(host) = {},
           NEW port \in Atoms \ Delimiters
    PROVE  Splits(host \o <<":", port>>, host, port)
<1> DEFINE text == host \o <<":", port>>
           n == Len(host)
<1>1. n \in Nat /\ ":" \in Atoms
  BY LenProperties DEF Delimiters
<1>2. /\ text \in Seq(Atoms) /\ Len(text) = n + 2
      /\ \A i \in 1..n : text[i] = host[i]
      /\ text[n + 1] = ":" /\ text[n + 2] = port
  BY <1>1, TwoMore
<1> HIDE DEF text
<1>3. \A i \in 1..n : text[i] \notin {"[", ":"}
  BY <1>1, <1>2 DEF HasNoBracket, ColonsOf
<1>4. ~ Bracketed(text)
  BY <1>1, <1>2, <1>3 DEF Bracketed, Empty
<1>5. ColonsOf(text) = {n + 1}
  BY <1>1, <1>2, <1>3 DEF ColonsOf, Delimiters
<1>6. HasParts(text) /\ Cut(text) = n + 1
  <2>1. n + 1 \in DOMAIN text
    BY <1>5 DEF ColonsOf
  <2>2. HasParts(text)
    BY <1>4, <1>5, <2>1 DEF HasParts
  <2>3. Cut(text) = CHOOSE i \in {n + 1} : TRUE
    BY <1>4, <1>5 DEF Cut
  <2>4. QED BY <2>2, <2>3
<1>7. HostOf(text) = host
  <2>1. HostOf(text) = SubSeq(text, 1, n)
    BY <1>1, <1>4, <1>6 DEF HostOf
  <2> QED
    BY <2>1, <1>1, <1>2
<1>8. PortTextOf(text) = <<port>>
  <2>1. PortTextOf(text) = SubSeq(text, n + 2, n + 2)
    BY <1>1, <1>2, <1>6 DEF PortTextOf
  <2> QED
    BY <2>1, <1>1, <1>2, LastOne
<1> QED
  BY <1>6, <1>7, <1>8 DEF Splits, text

\* The bracket before the port is the only one that closes.
LEMMA SplitBracketed ==
    ASSUME NEW Atoms, Delimiters \subseteq Atoms,
           NEW host \in Seq(Atoms), HasNoBracket(host),
           NEW port \in Atoms \ Delimiters
    PROVE  Splits(<<"[">> \o host \o <<"]">> \o <<":", port>>, host, port)
<1> DEFINE inner == <<"[">> \o host \o <<"]">>
           text == inner \o <<":", port>>
           n == Len(host)
<1>1. n \in Nat /\ "[" \in Atoms /\ "]" \in Atoms /\ ":" \in Atoms
  BY LenProperties DEF Delimiters
<1>2. /\ inner \in Seq(Atoms) /\ Len(inner) = n + 2
      /\ inner[1] = "[" /\ inner[n + 2] = "]"
      /\ \A i \in 1..n : inner[i + 1] = host[i]
  BY <1>1, Between
<1> HIDE DEF inner
<1>3. /\ text \in Seq(Atoms) /\ Len(text) = n + 4
      /\ \A i \in 1..(n + 2) : text[i] = inner[i]
      /\ text[n + 3] = ":" /\ text[n + 4] = port
  BY <1>1, <1>2, TwoMore
<1> HIDE DEF text
<1>4. /\ text[1] = "[" /\ text[n + 2] = "]"
      /\ \A i \in 1..n : text[i + 1] = host[i]
  <2>1. 1 \in 1..(n + 2) /\ n + 2 \in 1..(n + 2) /\ \A i \in 1..n : i + 1 \in 1..(n + 2)
    BY <1>1
  <2>2. QED BY <1>2, <1>3, <2>1
<1>5. Bracketed(text)
  BY <1>1, <1>3, <1>4 DEF Bracketed, Empty
<1>6. \A i \in 3..(n + 4) : i # n + 3 => text[i - 1] # "]" \/ text[i] # ":"
  <2> SUFFICES ASSUME NEW i \in 3..(n + 4), i # n + 3 PROVE text[i - 1] # "]" \/ text[i] # ":"
    OBVIOUS
  <2>1. CASE i = n + 4
    BY <2>1, <1>1, <1>3 DEF Delimiters
  <2>2. CASE i # n + 4
    <3>1. i - 2 \in 1..n /\ (i - 2) + 1 = i - 1
      BY <2>2, <1>1
    <3> QED
      BY <3>1, <1>4 DEF HasNoBracket
  <2> QED
    BY <2>1, <2>2
<1>7. Closes(text) = {n + 3}
  <2>1. n + 3 \in Closes(text)
    BY <1>1, <1>3, <1>4 DEF Closes, ColonsOf
  <2>2. ASSUME NEW i \in Closes(text) PROVE i = n + 3
    BY <2>2, <1>1, <1>3, <1>6 DEF Closes, ColonsOf
  <2> QED
    BY <2>1, <2>2
<1>8. HasParts(text) /\ Cut(text) = n + 3
  BY <1>1, <1>5, <1>7 DEF HasParts, Cut
<1>9. HostOf(text) = host
  <2>1. HostOf(text) = SubSeq(text, 2, n + 1)
    BY <1>1, <1>5, <1>8 DEF HostOf
  <2>2. /\ SubSeq(text, 2, n + 1) \in Seq(Atoms) /\ Len(SubSeq(text, 2, n + 1)) = n
        /\ \A i \in 1..n : SubSeq(text, 2, n + 1)[i] = text[i + 1]
    BY <1>1, <1>3
  <2> QED
    BY <2>1, <2>2, <1>4, SeqEqual
<1>10. PortTextOf(text) = <<port>>
  <2>1. PortTextOf(text) = SubSeq(text, n + 4, n + 4)
    BY <1>1, <1>3, <1>8 DEF PortTextOf
  <2> QED
    BY <2>1, <1>1, <1>3, LastOne
<1> QED
  BY <1>8, <1>9, <1>10 DEF Splits, text, inner

\* splitHostPort() and parsePort() take joinHostPort() back, for a host of any
\* length without brackets and every port but 0 (Endpoint.hpp:35).
THEOREM SplitInvertsJoin ==
    ASSUME NEW Atoms, Delimiters \subseteq Atoms,
           NEW host \in Seq(Atoms), HasNoBracket(host),
           NEW port \in DOMAIN Numeral, port \in PortNumbers,
           Numeral[port] \in Atoms \ Delimiters
    PROVE  LET text == JoinHostPort(host, port)
           IN  IsEndpoint(text) /\ HostOf(text) = host /\ PortOf(text) = port
<1> DEFINE text == JoinHostPort(host, port)
<1>1. Splits(text, host, Numeral[port])
  BY SplitPlain, SplitBracketed DEF JoinHostPort
<1> HIDE DEF text
<1>2. PortTextOf(text) = <<Numeral[port]>>
  BY <1>1 DEF Splits
<1>3. Len(PortTextOf(text)) = 1 /\ PortTextOf(text)[1] = Numeral[port]
  BY <1>2
<1>4. Numeral[port] \in DOMAIN NumberOf /\ NumberOf[Numeral[port]] = port
  BY EndpointAssumption
<1>5. Names(PortTextOf(text), NumberOf) /\ Named(PortTextOf(text), NumberOf) = port
  BY <1>3, <1>4 DEF Names, Named
<1>6. IsPort(PortTextOf(text))
  BY <1>5 DEF IsPort
<1>7. IsEndpoint(text) /\ HostOf(text) = host /\ PortOf(text) = port
  BY <1>1, <1>5, <1>6 DEF Splits, IsEndpoint, PortOf
<1> QED
  BY <1>7 DEF text

-----------------------------------------------------------------------------
(* The way of createLogger() and openReceiver() to a logger or a receiver.  *)

\* What the error code says at each place of the way.
ErrorByPhase ==
    /\ phase \in {"open", "running"} => ec = "none"
    /\ phase \in {"try", "returned"} => ec # "none"

\* The error code is left exactly if nullptr is returned (README.md:300-301).
THEOREM ErrorTellsNull == Spec => []ErrorIffNull
<1>1. Init => ErrorByPhase
  BY DEF Init, ErrorByPhase
<1>2. ErrorByPhase /\ [Next]_vars => ErrorByPhase'
  <2> SUFFICES ASSUME ErrorByPhase, [Next]_vars PROVE ErrorByPhase'
    OBVIOUS
  <2> USE DEF ErrorByPhase
  <2>1. CASE Scan
    BY <2>1 DEF Scan, EndOptions, BadOption, Help, EndOfArguments, Positional, Option, Takes,
       Scanning, Exit, openVars
  <2>2. ASSUME CreateLogger \/ OpenReceiver \/ OpenFile PROVE ErrorByPhase'
    BY <2>2 DEF CreateLogger, OpenReceiver, OpenFile, IsNext, ReturnsNull
  <2>3. ASSUME UnknownProtocol \/ Resolve \/ NoneLeft PROVE ErrorByPhase'
    BY <2>3 DEF UnknownProtocol, Resolve, NoneLeft, IsNext, ReturnsNull
  <2>4. ASSUME MakeSocket \/ Refused PROVE ErrorByPhase'
    BY <2>4 DEF MakeSocket, Refused, Trying
  <2>5. ASSUME ConnectUdp \/ ConnectTcp \/ Bind PROVE ErrorByPhase'
    BY <2>5 DEF ConnectUdp, ConnectTcp, Bind, Keeps
  <2>6. CASE AllOpen
    BY <2>6 DEF AllOpen, openVars
  <2>7. CASE Throw
    BY <2>7 DEF Throw, Exit
  <2>8. CASE UNCHANGED vars
    BY <2>8 DEF vars, openVars
  <2> QED
    BY <2>1, <2>2, <2>3, <2>4, <2>5, <2>6, <2>7, <2>8 DEF Next, Open, Done
<1>3. ErrorByPhase => ErrorIffNull
  BY DEF ErrorByPhase, ErrorIffNull
<1> QED
  BY <1>1, <1>2, <1>3, PTL DEF Spec

-----------------------------------------------------------------------------
\* Each descriptor belongs to a target that is open or to the socket in hand.
Ownership ==
    /\ opened \in Nat /\ inHand \in {0, 1} /\ descriptors = opened + inHand
    /\ inHand = 1 => phase = "try"
    /\ phase \in {"scan", "parsed", "returned", "exited"} => opened = 0
    /\ phase = "running" => opened = Len(Targets)

\* Every step leaves each descriptor with its owner.
LEMMA OwnershipHolds == ASSUME Ownership, [Next]_vars PROVE Ownership'
<1> USE DEF Ownership
<1>1. CASE Scan
  BY <1>1 DEF Scan, EndOptions, BadOption, Help, EndOfArguments, Positional, Option, Takes,
     Scanning, Exit, openVars
<1>2. ASSUME CreateLogger \/ OpenReceiver PROVE Ownership'
  BY <1>2 DEF CreateLogger, OpenReceiver, ReturnsNull
<1>3. CASE OpenFile
  <2>1. phase = "open" /\ inHand = 0 /\ descriptors = opened
    BY <1>3 DEF OpenFile, IsNext
  <2>2. ASSUME ReturnsNull("system") PROVE Ownership'
    BY <2>1, <2>2 DEF ReturnsNull
  <2>3. ASSUME opened' = opened + 1, descriptors' = descriptors + 1, UNCHANGED <<phase, inHand>>
        PROVE  Ownership'
    BY <2>1, <2>3
  <2> QED
    BY <1>3, <2>2, <2>3 DEF OpenFile
<1>4. ASSUME UnknownProtocol \/ Resolve \/ NoneLeft PROVE Ownership'
  BY <1>4 DEF UnknownProtocol, Resolve, NoneLeft, IsNext, ReturnsNull
<1>5. ASSUME MakeSocket \/ Refused PROVE Ownership'
  BY <1>5 DEF MakeSocket, Refused, Trying
<1>6. ASSUME ConnectUdp \/ ConnectTcp \/ Bind PROVE Ownership'
  BY <1>6 DEF ConnectUdp, ConnectTcp, Bind, Keeps, Trying
<1>7. CASE AllOpen
  BY <1>7 DEF AllOpen, openVars, Opening, Targets, Run, IsCollector
<1>8. CASE Throw
  BY <1>8 DEF Throw, Exit
<1>9. CASE UNCHANGED vars
  BY <1>9 DEF vars, openVars, Targets, Run, IsCollector
<1> QED
  BY <1>1, <1>2, <1>3, <1>4, <1>5, <1>6, <1>7, <1>8, <1>9 DEF Next, Open, Done

\* Exactly one descriptor for each target, or none (LoggerFactory.cpp:45-51).
THEOREM NothingLeaks == Spec => []NothingLeftOpen
<1>1. Init => Ownership
  BY DEF Init, Ownership
<1>2. Ownership /\ [Next]_vars => Ownership'
  BY OwnershipHolds
<1>3. Ownership => NothingLeftOpen
  BY DEF Ownership, NothingLeftOpen
<1> QED
  BY <1>1, <1>2, <1>3, PTL DEF Spec

-----------------------------------------------------------------------------
\* The resolver answers with addresses, and each port of an option has a numeral.
Hosts(Atoms) == {host \in Seq(Atoms) : HasNoBracket(host) /\ host # Empty}
Ports(Atoms) == {port \in DOMAIN Numeral \cap PortNumbers : Numeral[port] \in Atoms \ Delimiters}

NetworkHasAddresses(Atoms) ==
    /\ Delimiters \subseteq Atoms
    /\ \A host \in DOMAIN AnswersOf : AnswersOf[host] \in Seq(Hosts(Atoms))
    /\ \A word \in DOMAIN NumberOf : NumberOf[word] \in PortNumbers => NumberOf[word] \in Ports(Atoms)

\* A collector is asked for a port, tries addresses, and is bound to one of them.
Listening(Atoms) ==
    /\ program = "collector" => \A run \in asked : run.port \in Ports(Atoms)
    /\ program = "collector" /\ phase \notin {"scan", "exited"} => asked # {}
    /\ candidates \in Seq(Hosts(Atoms))
    /\ inHand = 1 => candidates # << >>
    /\ program = "collector" /\ opened # 0 => address \in Hosts(Atoms)

\* The run of a collector has a port that an option may name.
LEMMA RunHasPort ==
    ASSUME NEW Atoms, NetworkHasAddresses(Atoms), NEW s, NEW run \in CollectorRun(s)
    PROVE  run.port \in Ports(Atoms)
<1> DEFINE listen == Value(s.listen, Empty)
<1>1. s.listen # {} /\ \A text \in s.listen : IsEndpoint(text)
  BY DEF CollectorRun
<1>2. listen \in s.listen
  BY <1>1 DEF Value
<1>3. run.port = PortOf(listen)
  BY DEF CollectorRun
<1> HIDE DEF listen
<1>4. IsPort(PortTextOf(listen))
  BY <1>1, <1>2 DEF IsEndpoint
<1> DEFINE text == PortTextOf(listen)
<1> HIDE DEF text
<1>5. Names(text, NumberOf) /\ Named(text, NumberOf) \in PortNumbers
  BY <1>4 DEF IsPort, text
<1>6. text[1] \in DOMAIN NumberOf
  BY <1>5 DEF Names
<1>7. NumberOf[text[1]] \in PortNumbers /\ PortOf(listen) = NumberOf[text[1]]
  BY <1>5 DEF PortOf, Named, text
<1> QED
  BY <1>3, <1>6, <1>7 DEF NetworkHasAddresses

\* Every step keeps what is known of the address and the port.
LEMMA ListeningHolds ==
    ASSUME NEW Atoms, NetworkHasAddresses(Atoms), Listening(Atoms), Ownership, [Next]_vars
    PROVE  Listening(Atoms)'
<1> USE DEF Listening
<1>1. ASSUME Scan PROVE Listening(Atoms)'
  <2>1. UNCHANGED <<program, candidates, inHand, opened, address>>
    BY <1>1 DEF Scan, EndOptions, BadOption, Help, EndOfArguments, Positional, Option, Takes,
       Scanning, openVars
  <2>2. CASE EndOfArguments
    <3>1. \/ asked' = asked /\ phase' = "exited"
          \/ program = "collector" => asked' = CollectorRun(scan) /\ asked' # {}
      BY <2>2 DEF EndOfArguments, Exit, IsApp
    <3>2. program = "collector" => \A run \in asked' : run.port \in Ports(Atoms)
      BY <3>1, RunHasPort
    <3> QED
      BY <2>1, <3>1, <3>2
  <2>3. CASE ~ EndOfArguments
    <3>1. asked' = asked /\ phase' \in {"scan", "exited"}
      BY <1>1, <2>3 DEF Scan, EndOptions, BadOption, Help, Positional, Option, Takes, Scanning, Exit
    <3> QED
      BY <2>1, <3>1
  <2> QED
    BY <2>2, <2>3
<1>2. ASSUME CreateLogger \/ OpenReceiver PROVE Listening(Atoms)'
  BY <1>2 DEF CreateLogger, OpenReceiver, ReturnsNull
<1>3. ASSUME OpenFile \/ UnknownProtocol \/ NoneLeft \/ AllOpen PROVE Listening(Atoms)'
  <2>1. CASE OpenFile
    <3>1. program # "collector"
      BY <2>1 DEF OpenFile, IsNext, Target, Targets, IsCollector, SocketTarget, Ownership
    <3> QED
      BY <3>1, <2>1 DEF OpenFile, IsNext, Opening, ReturnsNull
  <2>2. CASE UnknownProtocol \/ NoneLeft
    BY <2>2 DEF UnknownProtocol, NoneLeft, IsNext, Opening, ReturnsNull
  <2>3. CASE AllOpen
    BY <2>3 DEF AllOpen, Opening, openVars
  <2> QED
    BY <1>3, <2>1, <2>2, <2>3
<1>4. CASE Resolve
  BY <1>4 DEF Resolve, IsNext, Opening, ReturnsNull, NetworkHasAddresses, Ownership
<1>5. ASSUME MakeSocket \/ Refused PROVE Listening(Atoms)'
  <2>1. candidates # << >> => Tail(candidates) \in Seq(Hosts(Atoms))
    OBVIOUS
  <2> QED
    BY <1>5, <2>1 DEF MakeSocket, Refused, Trying, Opening, Ownership
<1>6. ASSUME ConnectUdp \/ ConnectTcp \/ Bind PROVE Listening(Atoms)'
  <2>1. candidates # << >> => Head(candidates) \in Hosts(Atoms)
    OBVIOUS
  <2>2. << >> \in Seq(Hosts(Atoms))
    OBVIOUS
  <2>3. /\ UNCHANGED <<program, asked>> /\ phase' = "open" /\ inHand' = 0 /\ candidates' = << >>
        /\ phase = "try" /\ candidates # << >>
    BY <1>6 DEF ConnectUdp, ConnectTcp, Bind, Keeps, Trying, Opening
  <2>4. program = "collector" => address' \in Hosts(Atoms)
    BY <1>6, <2>1, <2>3 DEF ConnectUdp, ConnectTcp, Bind, IsCollector
  <2> QED
    BY <2>2, <2>3, <2>4
<1>7. CASE Throw
  BY <1>7 DEF Throw, Exit
<1>8. CASE UNCHANGED vars
  BY <1>8 DEF vars, openVars
<1> QED
  BY <1>1, <1>2, <1>3, <1>4, <1>5, <1>6, <1>7, <1>8 DEF Next, Open, Done

\* Whatever address a collector is bound to, what it prints is taken back
\* (Endpoint.hpp:35, main.cpp:38 of the collector).
THEOREM PrintedIsAccepted ==
    ASSUME NEW Atoms, NetworkHasAddresses(Atoms)
    PROVE  Spec => []PrintedAddressIsAccepted
<1>1. Init => Listening(Atoms) /\ Ownership
  BY DEF Init, Listening, Ownership
<1>2. Listening(Atoms) /\ Ownership /\ [Next]_vars => Listening(Atoms)'
  BY ListeningHolds
<1>3. Ownership /\ [Next]_vars => Ownership'
  BY OwnershipHolds
<1>4. Listening(Atoms) /\ Ownership => PrintedAddressIsAccepted
  <2> SUFFICES ASSUME Listening(Atoms), Ownership, phase = "running", program = "collector"
               PROVE  \E next \in AddSocket(AppScan, JoinHostPort(address, Run.port)) :
                        next.targets = <<SocketTarget(address, Run.port, "tcp")>>
    BY DEF PrintedAddressIsAccepted, IsCollector
  <2> DEFINE text == JoinHostPort(address, Run.port)
  <2>1. Run.port \in Ports(Atoms)
    BY DEF Listening, Run
  <2>2. opened = 1
    BY DEF Ownership, Targets, IsCollector
  <2>3. address \in Hosts(Atoms)
    BY <2>2 DEF Listening
  <2>4. /\ Delimiters \subseteq Atoms
        /\ address \in Seq(Atoms) /\ HasNoBracket(address) /\ address # Empty
        /\ Run.port \in DOMAIN Numeral /\ Run.port \in PortNumbers
        /\ Numeral[Run.port] \in Atoms \ Delimiters
    BY <2>1, <2>3 DEF Hosts, Ports, NetworkHasAddresses
  <2>5. IsEndpoint(text) /\ HostOf(text) = address /\ PortOf(text) = Run.port
    BY <2>4, SplitInvertsJoin
  <2> DEFINE target == SocketTarget(address, Run.port, "tcp")
             next == [AppScan EXCEPT !.targets = Append(@, target),
                                     !.lastSocket = Len(AppScan.targets) + 1,
                                     !.protocolGiven = FALSE]
  <2> HIDE DEF text, target
  <2>6. AddSocket(AppScan, text) = {next}
    BY <2>4, <2>5 DEF AddSocket, target
  <2>7. next.targets = Append(<< >>, target)
    BY DEF AppScan
  <2>8. next.targets = <<target>>
    BY <2>7
  <2> HIDE DEF next
  <2> QED
    BY <2>6, <2>8 DEF text, target
<1> QED
  BY <1>1, <1>2, <1>3, <1>4, PTL DEF Spec

-----------------------------------------------------------------------------
(* The options of a command line, and one more.                             *)

Entries ==
    [option : AppOptionNames \cup CollectorOptionNames \cup {"bare", "?"}, value : Texts \cup {Empty}]

Lines == Seq(Entries)

\* A set of at most one element.
AtMostOne(S) == \A x, y \in S : x = y

\* A finite set has no two elements exactly if it has at most one.
LEMMA FewElements ==
    ASSUME NEW S, IsFiniteSet(S)
    PROVE  Cardinality(S) =< 1 <=> AtMostOne(S)
<1>1. Cardinality(S) \in Nat
  BY FS_CardinalityType
<1>2. ASSUME AtMostOne(S) PROVE Cardinality(S) =< 1
  <2>1. CASE S = {}
    BY <2>1, FS_EmptySet
  <2>2. CASE S # {}
    <3>1. PICK x \in S : TRUE
      BY <2>2
    <3>2. S = {x}
      BY <1>2, <3>1 DEF AtMostOne
    <3> QED BY <3>2, FS_Singleton
  <2> QED BY <2>1, <2>2
<1>3. ASSUME ~ AtMostOne(S) PROVE ~ (Cardinality(S) =< 1)
  <2>1. PICK x \in S, y \in S : x # y
    BY <1>3 DEF AtMostOne
  <2>2. Cardinality({x}) = 1 /\ IsFiniteSet({x})
    BY FS_Singleton
  <2>3. Cardinality({x} \cup {y}) = 2 /\ IsFiniteSet({x} \cup {y})
    BY <2>1, <2>2, FS_AddElement
  <2>4. Cardinality({x} \cup {y}) =< Cardinality(S)
    <3>1. {x} \cup {y} \subseteq S
      BY <2>1
    <3> QED BY <3>1, FS_Subset
  <2> QED BY <1>1, <2>3, <2>4
<1> QED BY <1>2, <1>3

\* A line with one option more.
LEMMA OneMoreEntry ==
    ASSUME NEW line \in Lines, NEW entry \in Entries
    PROVE  /\ Append(line, entry) \in Lines
           /\ Len(line) \in Nat
           /\ DOMAIN line = 1..Len(line)
           /\ DOMAIN Append(line, entry) = DOMAIN line \cup {Len(line) + 1}
           /\ Len(line) + 1 \notin DOMAIN line
           /\ \A i \in DOMAIN line : Append(line, entry)[i] = line[i] /\ i < Len(line) + 1
           /\ Append(line, entry)[Len(line) + 1] = entry
           /\ Len(Append(line, entry)) = Len(line) + 1
<1>1. /\ Append(line, entry) \in Lines /\ Len(Append(line, entry)) = Len(line) + 1
      /\ \A i \in 1..Len(line) : Append(line, entry)[i] = line[i]
      /\ Append(line, entry)[Len(line) + 1] = entry
  BY AppendProperties DEF Lines
<1>2. /\ Len(line) \in Nat /\ DOMAIN line = 1..Len(line)
      /\ DOMAIN Append(line, entry) = 1..Len(Append(line, entry))
  BY <1>1, LenProperties DEF Lines
<1> QED BY <1>1, <1>2

\* What is before an option of a line is an option of it.
LEMMA Earlier ==
    ASSUME NEW line \in Lines, NEW i \in DOMAIN line, NEW j \in 1..(i - 1)
    PROVE  j \in DOMAIN line /\ j < i
<1>1. Len(line) \in Nat /\ DOMAIN line = 1..Len(line)
  BY LenProperties DEF Lines
<1>2. i \in Nat /\ i =< Len(line)
  BY <1>1
<1>3. j \in Nat /\ 1 =< j /\ j =< i - 1
  BY <1>2
<1>4. j \in 1..Len(line)
  BY <1>1, <1>2, <1>3
<1> QED BY <1>1, <1>2, <1>3, <1>4

\* Where the options of a line stand.
LEMMA LinePlaces ==
    ASSUME NEW line \in Lines
    PROVE  /\ \A o : With(line, o) \subseteq DOMAIN line /\ IsFiniteSet(With(line, o))
           /\ AppBareFile(line) \subseteq With(line, "bare")
           /\ Places(line) \subseteq DOMAIN line /\ IsFiniteSet(Places(line))
           /\ AppLevels(line) \subseteq DOMAIN line /\ IsFiniteSet(AppLevels(line))
           /\ \A i : ProtocolsOf(line, i) \subseteq DOMAIN line /\ IsFiniteSet(ProtocolsOf(line, i))
           /\ DOMAIN line \subseteq Nat
<1>1. DOMAIN line = 1..Len(line) /\ Len(line) \in Nat
  BY LenProperties DEF Lines
<1>2. IsFiniteSet(DOMAIN line)
  BY <1>1, FS_Interval
<1>3. \A S \in SUBSET DOMAIN line : IsFiniteSet(S)
  BY <1>2, FS_Subset
<1>4. \A o : With(line, o) \in SUBSET DOMAIN line
  BY DEF With
<1>5. AppBareFile(line) \subseteq With(line, "bare")
  BY DEF AppBareFile
<1>6. Places(line) \in SUBSET DOMAIN line
  BY <1>4, <1>5 DEF Places, AppFiles
<1>7. AppLevels(line) \in SUBSET DOMAIN line
  BY <1>4 DEF AppLevels
<1>8. \A i : ProtocolsOf(line, i) \in SUBSET DOMAIN line
  BY <1>4 DEF ProtocolsOf
<1>9. DOMAIN line \subseteq Nat
  BY <1>1
<1> QED BY <1>3, <1>4, <1>5, <1>6, <1>7, <1>8, <1>9

\* Nothing on the line names a target yet.
NoTarget(line) == \A j \in DOMAIN line : line[j].option \in {"--proto", "--level"}

\* What one more option adds.
LEMMA WithMore ==
    ASSUME NEW line \in Lines, NEW entry \in Entries, NEW o
    PROVE  With(Append(line, entry), o) =
              With(line, o) \cup (IF entry.option = o THEN {Len(line) + 1} ELSE {})
  BY OneMoreEntry DEF With

\* An argument more is a file if nothing names a target before it.
LEMMA BareFileMore ==
    ASSUME NEW line \in Lines, NEW entry \in Entries
    PROVE  AppBareFile(Append(line, entry)) =
              AppBareFile(line) \cup (IF entry.option = "bare" /\ NoTarget(line) THEN {Len(line) + 1} ELSE {})
<1> DEFINE more == Append(line, entry)
           n == Len(line) + 1
<1>1. /\ Len(line) \in Nat
      /\ DOMAIN line = 1..Len(line)
      /\ DOMAIN more = DOMAIN line \cup {n}
      /\ \A i \in DOMAIN line : more[i] = line[i]
      /\ more[n] = entry
  BY OneMoreEntry
<1>2. With(more, "bare") = With(line, "bare") \cup (IF entry.option = "bare" THEN {n} ELSE {})
  BY WithMore
<1> HIDE DEF more
<1>3. With(line, "bare") \subseteq DOMAIN line /\ n \notin DOMAIN line
  <2>1. With(line, "bare") \subseteq DOMAIN line
    BY DEF With
  <2>2. n \notin DOMAIN line
    BY OneMoreEntry
  <2> QED BY <2>1, <2>2
<1>4. \A i \in With(line, "bare") : \A j \in 1..(i - 1) : more[j] = line[j]
  <2> SUFFICES ASSUME NEW i \in With(line, "bare"), NEW j \in 1..(i - 1) PROVE more[j] = line[j]
    OBVIOUS
  <2>1. i \in DOMAIN line
    BY <1>3
  <2>2. j \in DOMAIN line
    BY <2>1, Earlier
  <2> QED BY <1>1, <2>2
<1>5. (\A j \in 1..(n - 1) : more[j].option \in {"--proto", "--level"}) <=> NoTarget(line)
  BY <1>1 DEF NoTarget
<1>6. \A i : i \in AppBareFile(more) <=>
         i \in AppBareFile(line) \/ (i = n /\ entry.option = "bare" /\ NoTarget(line))
  BY <1>2, <1>3, <1>4, <1>5 DEF AppBareFile
<1> HIDE DEF n
<1>7. AppBareFile(more) = AppBareFile(line) \cup (IF entry.option = "bare" /\ NoTarget(line) THEN {n} ELSE {})
  BY <1>6
<1> QED BY <1>7 DEF more, n

\* A --proto more belongs to the last socket.
LEMMA ProtocolsMore ==
    ASSUME NEW line \in Lines, NEW entry \in Entries
    PROVE  /\ \A i \in DOMAIN line : ProtocolsOf(Append(line, entry), i) =
                 ProtocolsOf(line, i) \cup
                    (IF entry.option = "--proto" /\ \A k \in With(line, "--socket") : k =< i
                     THEN {Len(line) + 1} ELSE {})
           /\ ProtocolsOf(Append(line, entry), Len(line) + 1) = {}
<1> DEFINE more == Append(line, entry)
           n == Len(line) + 1
<1>1. /\ Len(line) \in Nat
      /\ DOMAIN line = 1..Len(line)
      /\ DOMAIN more = DOMAIN line \cup {n}
  BY OneMoreEntry
<1>2. /\ With(more, "--proto") = With(line, "--proto") \cup (IF entry.option = "--proto" THEN {n} ELSE {})
      /\ With(more, "--socket") = With(line, "--socket") \cup (IF entry.option = "--socket" THEN {n} ELSE {})
  BY WithMore
<1>3. With(line, "--proto") \subseteq DOMAIN line /\ With(line, "--socket") \subseteq DOMAIN line
  BY DEF With
<1> HIDE DEF more
<1>4. ASSUME NEW i \in DOMAIN line, NEW j
      PROVE  j \in ProtocolsOf(more, i) <=>
                \/ j \in ProtocolsOf(line, i)
                \/ j = n /\ entry.option = "--proto" /\ \A k \in With(line, "--socket") : k =< i
  <2>1. CASE j = n
    <3>1. j \notin ProtocolsOf(line, i)
      BY <1>1, <1>3, <2>1 DEF ProtocolsOf
    <3>2. j \in With(more, "--proto") <=> entry.option = "--proto"
      BY <1>1, <1>2, <1>3, <2>1
    <3>3. i < n /\ \A k \in With(line, "--socket") : k < n /\ k \in Nat
      BY <1>1, <1>3
    <3>4. (~ \E k \in With(more, "--socket") : i < k /\ k < n) <=> (\A k \in With(line, "--socket") : k =< i)
      BY <1>1, <1>2, <1>3, <3>3
    <3> QED BY <2>1, <3>1, <3>2, <3>3, <3>4 DEF ProtocolsOf
  <2>2. CASE j # n
    <3>1. j \in With(more, "--proto") <=> j \in With(line, "--proto")
      BY <1>2, <2>2
    <3>2. j \in DOMAIN line => (\A k : k \in With(more, "--socket") /\ i < k /\ k < j
                                    <=> k \in With(line, "--socket") /\ i < k /\ k < j)
      BY <1>1, <1>2
    <3> QED BY <1>3, <2>2, <3>1, <3>2 DEF ProtocolsOf
  <2> QED BY <2>1, <2>2
<1>5. ProtocolsOf(more, n) = {}
  <2>1. \A j \in With(more, "--proto") : ~ (n < j)
    BY <1>1, <1>2, <1>3
  <2> QED BY <2>1 DEF ProtocolsOf
<1>6. \A i \in DOMAIN line : ProtocolsOf(more, i) = ProtocolsOf(line, i) \cup
        (IF entry.option = "--proto" /\ \A k \in With(line, "--socket") : k =< i THEN {n} ELSE {})
  BY <1>4
<1> QED BY <1>5, <1>6 DEF more

-----------------------------------------------------------------------------
(* What AppOptions has scanned against the line.                            *)

\* The targets that a line can name.
AppTargets ==
    {FileTarget(text) : text \in Texts \cup {Empty}} \cup
    {SocketTarget(HostOf(text), PortOf(text), protocol) :
        text \in Texts \cup {Empty},
        protocol \in {"tcp"} \cup {ProtocolOf[word] : word \in DOMAIN ProtocolOf}}

\* The number of the target at i.
RankIn(line, i) == Rank(Places(line), i)

\* No target is wrong so far, nor a --proto, nor a level given twice.
NoMistake(line) ==
    /\ \A i \in DOMAIN line : line[i].option \in AppOptionNames \cup {"bare"}
    /\ \A i \in AppFiles(line) : line[i].value # Empty
    /\ \A i \in With(line, "--socket") :
          /\ IsEndpoint(line[i].value) /\ HostOf(line[i].value) # Empty
          /\ AtMostOne(ProtocolsOf(line, i))
    /\ \A j \in With(line, "--proto") :
          /\ Names(line[j].value, ProtocolOf)
          /\ \E i \in With(line, "--socket") : i < j
    /\ AtMostOne(AppLevels(line))

\* The targets stand in the order of their places.
InPlace(line, targets) ==
    /\ targets \in Seq(AppTargets)
    /\ Len(targets) = Cardinality(Places(line))
    /\ \A i \in Places(line) : RankIn(line, i) \in 1..Len(targets)
    /\ \A i \in Places(line) : targets[RankIn(line, i)] = TargetAt(line, i)
    /\ \A m \in 1..Len(targets) : \E i \in Places(line) : RankIn(line, i) = m

IsLast(line, i) == i \in With(line, "--socket") /\ \A k \in With(line, "--socket") : k =< i

\* lastSocket and protocolGiven are about the last socket.
OfLastSocket(line, s) ==
    /\ With(line, "--socket") = {} => s.lastSocket = 0
    /\ \A i : IsLast(line, i) =>
          s.lastSocket = RankIn(line, i) /\ (s.protocolGiven <=> ProtocolsOf(line, i) # {})
    /\ With(line, "--socket") # {} => \E i : IsLast(line, i)

LevelsOf(line) == {line[i].value : i \in AppLevels(line)}

AppScanned(line, s) ==
    /\ s = [targets |-> s.targets, lastSocket |-> s.lastSocket, levelText |-> s.levelText,
            protocolGiven |-> s.protocolGiven]
    /\ NoMistake(line)
    /\ InPlace(line, s.targets)
    /\ OfLastSocket(line, s)
    /\ s.levelText = LevelsOf(line)

\* A line without a target has only options that need one before them.
LEMMA NoTargetNoPlace ==
    ASSUME NEW line \in Lines, \A i \in DOMAIN line : line[i].option \in AppOptionNames \cup {"bare"}
    PROVE  Places(line) = {} <=> NoTarget(line)
<1>1. NoTarget(line) => Places(line) = {}
  <2> SUFFICES ASSUME NoTarget(line) PROVE With(line, "--file") = {} /\ With(line, "bare") = {} /\ With(line, "--socket") = {}
    BY DEF Places, AppFiles, AppBareFile
  <2> QED BY DEF NoTarget, With
<1>2. ASSUME ~ NoTarget(line) PROVE Places(line) # {}
  <2> DEFINE named == {j \in DOMAIN line : line[j].option \notin {"--proto", "--level"}}
  <2>1. named \in SUBSET Nat /\ named # {}
    BY <1>2, LinePlaces DEF NoTarget
  <2> HIDE DEF named
  <2>2. PICK i \in named : \A j \in named : i =< j
    BY <2>1, LeastNumber
  <2>3. i \in DOMAIN line /\ line[i].option \in {"--file", "--socket", "bare"} /\ i \in Nat
    BY <2>1, <2>2 DEF named, AppOptionNames
  <2>4. ASSUME NEW j \in DOMAIN line, line[j].option \notin {"--proto", "--level"}
        PROVE  ~ (j < i)
    <3>1. j \in named /\ j \in Nat
      BY <2>4, LinePlaces DEF named
    <3>2. i =< j
      BY <2>2, <3>1
    <3> QED BY <2>3, <3>1, <3>2
  <2>5. ASSUME NEW j \in 1..(i - 1) PROVE line[j].option \in {"--proto", "--level"}
    <3>1. j \in DOMAIN line /\ j < i
      BY <2>3, Earlier
    <3> QED BY <2>4, <3>1
  <2> QED
    BY <2>3, <2>5 DEF Places, AppFiles, AppBareFile, With
<1> QED BY <1>1, <1>2

\* The ranks of the places that were there stay, and a new one has the next rank.
LEMMA RanksMore ==
    ASSUME NEW S, IsFiniteSet(S), S \subseteq Nat, NEW n \in Nat, \A i \in S : i < n
    PROVE  /\ \A i \in S : Rank(S \cup {n}, i) = Rank(S, i)
           /\ Rank(S \cup {n}, n) = Cardinality(S) + 1
           /\ Cardinality(S \cup {n}) = Cardinality(S) + 1
           /\ Cardinality(S) \in Nat
<1>1. n \notin S
  OBVIOUS
<1>2. Cardinality(S \cup {n}) = Cardinality(S) + 1 /\ Cardinality(S) \in Nat
  BY <1>1, FS_AddElement, FS_CardinalityType
<1>3. \A i \in S : {j \in S \cup {n} : j =< i} = {j \in S : j =< i}
  OBVIOUS
<1>4. {j \in S \cup {n} : j =< n} = S \cup {n}
  <2>1. \A j \in S \cup {n} : j =< n
    OBVIOUS
  <2> QED BY <2>1
<1> QED BY <1>2, <1>3, <1>4 DEF Rank

\* An argument or option that names a file.
GivesFile(line, entry) == entry.option = "--file" \/ (entry.option = "bare" /\ NoTarget(line))
GivesLevel(line, entry) == entry.option = "--level" \/ (entry.option = "bare" /\ ~ NoTarget(line))

\* What one option more adds to the files, the levels and the targets.
LEMMA PlacesMore ==
    ASSUME NEW line \in Lines, NEW entry \in Entries
    PROVE  /\ AppFiles(Append(line, entry)) =
                 AppFiles(line) \cup (IF GivesFile(line, entry) THEN {Len(line) + 1} ELSE {})
           /\ AppLevels(Append(line, entry)) =
                 AppLevels(line) \cup (IF GivesLevel(line, entry) THEN {Len(line) + 1} ELSE {})
           /\ Places(Append(line, entry)) =
                 Places(line) \cup
                    (IF GivesFile(line, entry) \/ entry.option = "--socket" THEN {Len(line) + 1} ELSE {})
           /\ Len(line) + 1 \notin Places(line) /\ Len(line) + 1 \notin AppLevels(line)
           /\ Len(line) + 1 \notin AppFiles(line)
<1> DEFINE more == Append(line, entry)
           n == Len(line) + 1
           Added(o) == IF entry.option = o THEN {n} ELSE {}
           bareFile == IF entry.option = "bare" /\ NoTarget(line) THEN {n} ELSE {}
<1>1. \A o : With(more, o) = With(line, o) \cup Added(o)
  BY WithMore
<1>2. AppBareFile(more) = AppBareFile(line) \cup bareFile
  BY BareFileMore
<1>3. n \notin DOMAIN line /\ (\A o : With(line, o) \subseteq DOMAIN line) /\ AppBareFile(line) \subseteq With(line, "bare")
  BY OneMoreEntry, LinePlaces
<1>4. n \notin Places(line) /\ n \notin AppLevels(line)
  BY <1>3, LinePlaces
<1> HIDE DEF more, n
<1>5. AppFiles(more) = AppFiles(line) \cup (IF GivesFile(line, entry) THEN {n} ELSE {})
  BY <1>1, <1>2 DEF AppFiles, GivesFile
<1>6. AppLevels(more) = AppLevels(line) \cup (IF GivesLevel(line, entry) THEN {n} ELSE {})
  BY <1>1, <1>2, <1>3 DEF AppLevels, GivesLevel
<1>7. Places(more) = Places(line) \cup (IF GivesFile(line, entry) \/ entry.option = "--socket" THEN {n} ELSE {})
  BY <1>1, <1>5 DEF Places
<1>8. n \notin AppFiles(line)
  BY <1>4 DEF Places
<1> QED BY <1>4, <1>5, <1>6, <1>7, <1>8 DEF more, n

\* A target is what it was as long as no --proto of it is added.
LEMMA TargetStays ==
    ASSUME NEW line \in Lines, NEW entry \in Entries, NEW i \in Places(line),
           ProtocolsOf(Append(line, entry), i) = ProtocolsOf(line, i)
    PROVE  TargetAt(Append(line, entry), i) = TargetAt(line, i)
<1> DEFINE more == Append(line, entry)
           chosen == CHOOSE j \in ProtocolsOf(line, i) : TRUE
<1>1. i \in DOMAIN line /\ ProtocolsOf(line, i) \subseteq DOMAIN line /\ \A j \in DOMAIN line : more[j] = line[j]
  BY LinePlaces, OneMoreEntry
<1>2. i \in AppFiles(more) <=> i \in AppFiles(line)
  <2>1. i # Len(line) + 1
    BY <1>1, OneMoreEntry
  <2> QED BY <2>1, PlacesMore
<1>3. ProtocolsOf(line, i) # {} => more[chosen] = line[chosen]
  <2>1. ProtocolsOf(line, i) # {} => chosen \in ProtocolsOf(line, i)
    OBVIOUS
  <2> QED BY <1>1, <2>1
<1>4. more[i] = line[i] /\ ProtocolsOf(more, i) = ProtocolsOf(line, i)
  BY <1>1
<1> HIDE DEF more
<1>5. TargetAt(more, i) = TargetAt(line, i)
  BY <1>2, <1>3, <1>4 DEF TargetAt
<1> QED BY <1>5 DEF more

\* The next target is appended where the next place is ...
LEMMA InPlaceMore ==
    ASSUME NEW line \in Lines, NEW entry \in Entries, NEW targets, InPlace(line, targets),
           GivesFile(line, entry) \/ entry.option = "--socket",
           NEW target \in AppTargets, target = TargetAt(Append(line, entry), Len(line) + 1),
           \A i \in Places(line) : TargetAt(Append(line, entry), i) = TargetAt(line, i)
    PROVE  /\ InPlace(Append(line, entry), Append(targets, target))
           /\ RankIn(Append(line, entry), Len(line) + 1) = Len(targets) + 1
           /\ \A i \in Places(line) : RankIn(Append(line, entry), i) = RankIn(line, i)
<1> DEFINE more == Append(line, entry)
           n == Len(line) + 1
           added == Append(targets, target)
<1>1. Places(more) = Places(line) \cup {n}
  BY PlacesMore
<1>2. IsFiniteSet(Places(line)) /\ Places(line) \subseteq Nat /\ n \in Nat /\ \A i \in Places(line) : i < n
  BY LinePlaces, OneMoreEntry
<1>3. targets \in Seq(AppTargets) /\ Len(targets) = Cardinality(Places(line)) /\ Len(targets) \in Nat
  BY LenProperties DEF InPlace
<1>4. /\ \A i \in Places(line) : RankIn(more, i) = RankIn(line, i)
      /\ RankIn(more, n) = Len(targets) + 1
      /\ Cardinality(Places(more)) = Len(targets) + 1
  <2> HIDE DEF n, more
  <2>1. /\ \A i \in Places(line) : Rank(Places(line) \cup {n}, i) = Rank(Places(line), i)
        /\ Rank(Places(line) \cup {n}, n) = Cardinality(Places(line)) + 1
        /\ Cardinality(Places(line) \cup {n}) = Cardinality(Places(line)) + 1
    BY <1>2, RanksMore
  <2> QED BY <1>1, <1>3, <2>1 DEF RankIn
<1>5. /\ added \in Seq(AppTargets) /\ Len(added) = Len(targets) + 1
      /\ \A m \in 1..Len(targets) : added[m] = targets[m]
      /\ added[Len(targets) + 1] = target
  BY <1>3, AppendProperties
<1>6. TargetAt(more, n) = target /\ \A i \in Places(line) : TargetAt(more, i) = TargetAt(line, i)
  OBVIOUS
<1> HIDE DEF more, n, added
<1>7. \A i \in Places(line) :
         /\ RankIn(line, i) \in 1..Len(targets)
         /\ targets[RankIn(line, i)] = TargetAt(line, i)
  BY DEF InPlace
<1>8. \A i \in Places(more) : RankIn(more, i) \in 1..Len(added)
  BY <1>1, <1>3, <1>4, <1>5, <1>7
<1>9. \A i \in Places(more) : added[RankIn(more, i)] = TargetAt(more, i)
  BY <1>1, <1>4, <1>5, <1>6, <1>7
<1>10. \A m \in 1..Len(added) : \E i \in Places(more) : RankIn(more, i) = m
  <2> SUFFICES ASSUME NEW m \in 1..Len(added) PROVE \E i \in Places(more) : RankIn(more, i) = m
    OBVIOUS
  <2>1. CASE m = Len(targets) + 1
    BY <1>1, <1>4, <2>1
  <2>2. CASE m # Len(targets) + 1
    <3>1. m \in 1..Len(targets)
      BY <1>3, <1>5, <2>2
    <3>2. PICK i \in Places(line) : RankIn(line, i) = m
      BY <3>1 DEF InPlace
    <3> QED BY <1>1, <1>4, <3>2
  <2> QED BY <2>1, <2>2
<1>11. InPlace(more, added)
  BY <1>4, <1>5, <1>8, <1>9, <1>10 DEF InPlace
<1> QED BY <1>4, <1>11 DEF more, n, added

\* ... and without one the targets stay.
LEMMA InPlaceStays ==
    ASSUME NEW line \in Lines, NEW entry \in Entries, NEW targets, InPlace(line, targets),
           ~ GivesFile(line, entry), entry.option # "--socket",
           \A i \in Places(line) : TargetAt(Append(line, entry), i) = TargetAt(line, i)
    PROVE  InPlace(Append(line, entry), targets)
<1>1. Places(Append(line, entry)) = Places(line)
  BY PlacesMore
<1>2. \A i : RankIn(Append(line, entry), i) = RankIn(line, i)
  BY <1>1 DEF RankIn
<1> QED BY <1>1, <1>2 DEF InPlace

\* The mistakes of a line with one more option.
LEMMA MistakesMore ==
    ASSUME NEW line \in Lines, NEW entry \in Entries, NoMistake(line),
           entry.option \in AppOptionNames \cup {"bare"},
           GivesFile(line, entry) => entry.value # Empty,
           GivesLevel(line, entry) => AppLevels(line) = {},
           entry.option = "--socket" => IsEndpoint(entry.value) /\ HostOf(entry.value) # Empty,
           entry.option = "--proto" =>
              /\ Names(entry.value, ProtocolOf)
              /\ With(line, "--socket") # {}
              /\ \A i : IsLast(line, i) => ProtocolsOf(line, i) = {}
    PROVE  NoMistake(Append(line, entry))
<1> DEFINE more == Append(line, entry)
           n == Len(line) + 1
<1>1. /\ Len(line) \in Nat
      /\ DOMAIN more = DOMAIN line \cup {n}
      /\ \A i \in DOMAIN line : more[i] = line[i] /\ i < n
      /\ more[n] = entry
  BY OneMoreEntry
<1>2. /\ AppFiles(more) = AppFiles(line) \cup (IF GivesFile(line, entry) THEN {n} ELSE {})
      /\ AppLevels(more) = AppLevels(line) \cup (IF GivesLevel(line, entry) THEN {n} ELSE {})
  BY PlacesMore
<1>3. \A o : With(more, o) = With(line, o) \cup (IF entry.option = o THEN {n} ELSE {})
  BY WithMore
<1>4. /\ \A o : With(line, o) \subseteq DOMAIN line
      /\ AppFiles(line) \subseteq DOMAIN line
  BY LinePlaces DEF Places
<1>5. /\ ProtocolsOf(more, n) = {}
      /\ \A i \in DOMAIN line : ProtocolsOf(more, i) = ProtocolsOf(line, i) \cup
            (IF entry.option = "--proto" /\ \A k \in With(line, "--socket") : k =< i THEN {n} ELSE {})
  BY ProtocolsMore
<1> HIDE DEF more, n
<1>6. \A i \in DOMAIN more : more[i].option \in AppOptionNames \cup {"bare"}
  BY <1>1 DEF NoMistake
<1>7. \A i \in AppFiles(more) : more[i].value # Empty
  <2>1. \A i \in AppFiles(line) : more[i] = line[i] /\ line[i].value # Empty
    BY <1>1, <1>4 DEF NoMistake
  <2> QED BY <1>1, <1>2, <2>1
<1>8. ASSUME NEW i \in With(more, "--socket")
      PROVE  /\ IsEndpoint(more[i].value) /\ HostOf(more[i].value) # Empty
             /\ AtMostOne(ProtocolsOf(more, i))
  <2>1. CASE i = n
    <3>1. entry.option = "--socket"
      <4>1. n \notin With(line, "--socket")
        BY <1>1, <1>4
      <4> QED BY <1>3, <2>1, <4>1
    <3> QED BY <1>1, <1>5, <2>1, <3>1 DEF AtMostOne
  <2>2. CASE i # n
    <3>1. i \in With(line, "--socket") /\ i \in DOMAIN line
      BY <1>3, <1>4, <2>2
    <3>2. more[i] = line[i]
      BY <1>1, <3>1
    <3>3. IsEndpoint(line[i].value) /\ HostOf(line[i].value) # Empty /\ AtMostOne(ProtocolsOf(line, i))
      BY <3>1 DEF NoMistake
    <3>4. ProtocolsOf(more, i) = ProtocolsOf(line, i) \/ ProtocolsOf(more, i) = {n}
      <4>1. CASE entry.option = "--proto" /\ \A k \in With(line, "--socket") : k =< i
        <5>1. IsLast(line, i)
          BY <3>1, <4>1 DEF IsLast
        <5> QED BY <1>5, <3>1, <4>1, <5>1
      <4>2. CASE ~ (entry.option = "--proto" /\ \A k \in With(line, "--socket") : k =< i)
        BY <1>5, <3>1, <4>2
      <4> QED BY <4>1, <4>2
    <3> QED BY <3>2, <3>3, <3>4 DEF AtMostOne
  <2> QED BY <2>1, <2>2
<1>9. ASSUME NEW j \in With(more, "--proto")
      PROVE  Names(more[j].value, ProtocolOf) /\ \E i \in With(more, "--socket") : i < j
  <2>1. CASE j = n
    <3>1. entry.option = "--proto"
      <4>1. n \notin With(line, "--proto")
        BY <1>1, <1>4
      <4> QED BY <1>3, <2>1, <4>1
    <3>2. PICK i \in With(line, "--socket") : TRUE
      BY <3>1
    <3>3. i \in With(more, "--socket") /\ i < n
      BY <1>1, <1>3, <1>4, <3>2
    <3> QED BY <1>1, <2>1, <3>1, <3>3
  <2>2. CASE j # n
    <3>1. j \in With(line, "--proto") /\ j \in DOMAIN line
      BY <1>3, <1>4, <2>2
    <3>2. more[j] = line[j]
      BY <1>1, <3>1
    <3>3. Names(line[j].value, ProtocolOf) /\ \E i \in With(line, "--socket") : i < j
      BY <3>1 DEF NoMistake
    <3> QED BY <1>3, <3>2, <3>3
  <2> QED BY <2>1, <2>2
<1>10. AtMostOne(AppLevels(more))
  BY <1>2 DEF NoMistake, AtMostOne
<1>11. NoMistake(more)
  BY <1>6, <1>7, <1>8, <1>9, <1>10 DEF NoMistake
<1> QED BY <1>11 DEF more

\* The levels of a line with one more option.
LEMMA LevelsMore ==
    ASSUME NEW line \in Lines, NEW entry \in Entries
    PROVE  LevelsOf(Append(line, entry)) =
              LevelsOf(line) \cup (IF GivesLevel(line, entry) THEN {entry.value} ELSE {})
<1> DEFINE more == Append(line, entry)
           n == Len(line) + 1
<1>1. more[n] = entry /\ AppLevels(line) \subseteq DOMAIN line /\ \A i \in DOMAIN line : more[i] = line[i]
  BY OneMoreEntry, LinePlaces
<1>2. AppLevels(more) = AppLevels(line) \cup (IF GivesLevel(line, entry) THEN {n} ELSE {})
  BY PlacesMore
<1> HIDE DEF more, n
<1>3. LevelsOf(more) = LevelsOf(line) \cup (IF GivesLevel(line, entry) THEN {entry.value} ELSE {})
  BY <1>1, <1>2 DEF LevelsOf
<1> QED BY <1>3 DEF more

\* The last socket stays the last if the option is neither a socket nor a --proto.
LEMMA LastStays ==
    ASSUME NEW line \in Lines, NEW entry \in Entries, NEW s, NEW next, OfLastSocket(line, s),
           next.lastSocket = s.lastSocket, next.protocolGiven = s.protocolGiven,
           entry.option # "--socket", entry.option # "--proto",
           \A i \in Places(line) : RankIn(Append(line, entry), i) = RankIn(line, i)
    PROVE  OfLastSocket(Append(line, entry), next)
<1> DEFINE more == Append(line, entry)
<1>1. With(more, "--socket") = With(line, "--socket")
  <2>1. With(more, "--socket") =
           With(line, "--socket") \cup (IF entry.option = "--socket" THEN {Len(line) + 1} ELSE {})
    BY WithMore
  <2> HIDE DEF more
  <2> QED BY <2>1
<1>2. \A i \in With(line, "--socket") : i \in DOMAIN line /\ i \in Places(line)
  BY LinePlaces DEF Places
<1>3. \A i \in DOMAIN line : ProtocolsOf(more, i) = ProtocolsOf(line, i)
  <2>1. \A i \in DOMAIN line : ProtocolsOf(more, i) = ProtocolsOf(line, i) \cup
            (IF entry.option = "--proto" /\ \A k \in With(line, "--socket") : k =< i
             THEN {Len(line) + 1} ELSE {})
    BY ProtocolsMore
  <2> HIDE DEF more
  <2> QED BY <2>1
<1> HIDE DEF more
<1>4. \A i : IsLast(more, i) <=> IsLast(line, i)
  BY <1>1 DEF IsLast
<1>5. \A i : IsLast(line, i) => i \in With(line, "--socket")
  BY DEF IsLast
<1>6. \A i \in Places(line) : RankIn(more, i) = RankIn(line, i)
  BY DEF more
<1>7. OfLastSocket(more, next)
  BY <1>1, <1>2, <1>3, <1>4, <1>5, <1>6 DEF OfLastSocket
<1> QED BY <1>7 DEF more

\* Without a --proto the targets that were there stay.
LEMMA TargetsStay ==
    ASSUME NEW line \in Lines, NEW entry \in Entries, entry.option # "--proto"
    PROVE  \A i \in Places(line) : TargetAt(Append(line, entry), i) = TargetAt(line, i)
<1> SUFFICES ASSUME NEW i \in Places(line)
             PROVE  TargetAt(Append(line, entry), i) = TargetAt(line, i)
  OBVIOUS
<1>1. i \in DOMAIN line
  BY LinePlaces
<1>2. ProtocolsOf(Append(line, entry), i) = ProtocolsOf(line, i)
  <2>1. ProtocolsOf(Append(line, entry), i) = ProtocolsOf(line, i) \cup
            (IF entry.option = "--proto" /\ \A k \in With(line, "--socket") : k =< i
             THEN {Len(line) + 1} ELSE {})
    BY <1>1, ProtocolsMore
  <2> QED BY <2>1
<1> QED BY <1>2, TargetStays

\* The value of an option.
LEMMA EntryParts == ASSUME NEW entry \in Entries PROVE entry.value \in Texts \cup {Empty}
  BY DEF Entries

\* AddFile() for an argument that names a file.
LEMMA AddFileRight ==
    ASSUME NEW line \in Lines, NEW entry \in Entries, NEW s, AppScanned(line, s),
           GivesFile(line, entry)
    PROVE  /\ AddFile(s, entry.value) = {} => ~ AppIsRight(Append(line, entry))
           /\ \A next \in AddFile(s, entry.value) : AppScanned(Append(line, entry), next)
<1> DEFINE more == Append(line, entry)
           n == Len(line) + 1
           target == FileTarget(entry.value)
<1>1. n \in AppFiles(more) /\ more[n] = entry
  BY PlacesMore, OneMoreEntry
<1>2. AddFile(s, entry.value) = {} => entry.value = Empty
  BY DEF AddFile
<1>3. AddFile(s, entry.value) = {} => ~ AppIsRight(more)
  BY <1>1, <1>2 DEF AppIsRight
<1>4. ASSUME NEW next \in AddFile(s, entry.value) PROVE AppScanned(more, next)
  <2>1. entry.value # Empty /\ next = [s EXCEPT !.targets = Append(s.targets, target)]
    BY <1>4 DEF AddFile
  <2>2. /\ s = [targets |-> s.targets, lastSocket |-> s.lastSocket, levelText |-> s.levelText,
                protocolGiven |-> s.protocolGiven]
        /\ NoMistake(line) /\ InPlace(line, s.targets) /\ OfLastSocket(line, s)
        /\ s.levelText = LevelsOf(line)
    BY DEF AppScanned
  <2> HIDE DEF target
  <2>3. next = [targets |-> Append(s.targets, target), lastSocket |-> s.lastSocket,
                levelText |-> s.levelText, protocolGiven |-> s.protocolGiven]
    BY <2>1, <2>2
  <2>4. /\ next.targets = Append(s.targets, target) /\ next.lastSocket = s.lastSocket
        /\ next.levelText = s.levelText /\ next.protocolGiven = s.protocolGiven
    BY <2>3
  <2>5. /\ ~ GivesLevel(line, entry) /\ entry.option \in AppOptionNames \cup {"bare"}
        /\ entry.option # "--proto" /\ entry.option # "--socket"
    BY DEF GivesFile, GivesLevel, AppOptionNames
  <2>6. NoMistake(more)
    BY <2>1, <2>2, <2>5, MistakesMore
  <2>7. target \in AppTargets
    BY EntryParts DEF AppTargets, target
  <2>8. target = TargetAt(more, n)
    <3> HIDE DEF more, n
    <3> QED BY <1>1 DEF TargetAt, target
  <2>9. InPlace(more, Append(s.targets, target)) /\ \A i \in Places(line) : RankIn(more, i) = RankIn(line, i)
    BY <2>2, <2>5, <2>7, <2>8, TargetsStay, InPlaceMore
  <2>10. OfLastSocket(more, next)
    BY <2>2, <2>4, <2>5, <2>9, LastStays
  <2>11. LevelsOf(more) = LevelsOf(line)
    <3>1. LevelsOf(more) = LevelsOf(line) \cup (IF GivesLevel(line, entry) THEN {entry.value} ELSE {})
      BY LevelsMore
    <3> QED BY <2>5, <3>1
  <2> HIDE DEF more
  <2> QED BY <2>2, <2>3, <2>4, <2>6, <2>9, <2>10, <2>11 DEF AppScanned
<1> QED BY <1>3, <1>4

\* SetLevel() for an argument that names a level.
LEMMA SetLevelRight ==
    ASSUME NEW line \in Lines, NEW entry \in Entries, NEW s, AppScanned(line, s),
           GivesLevel(line, entry)
    PROVE  /\ SetLevel(s, entry.value) = {} => ~ AppIsRight(Append(line, entry))
           /\ \A next \in SetLevel(s, entry.value) : AppScanned(Append(line, entry), next)
<1> DEFINE more == Append(line, entry)
           n == Len(line) + 1
<1>1. /\ s = [targets |-> s.targets, lastSocket |-> s.lastSocket, levelText |-> s.levelText,
              protocolGiven |-> s.protocolGiven]
      /\ NoMistake(line) /\ InPlace(line, s.targets) /\ OfLastSocket(line, s)
      /\ s.levelText = LevelsOf(line)
  BY DEF AppScanned
<1>2. /\ AppLevels(more) = AppLevels(line) \cup {n} /\ n \notin AppLevels(line)
      /\ IsFiniteSet(AppLevels(more))
  <2>1. more \in Lines
    BY OneMoreEntry
  <2> QED BY <2>1, PlacesMore, LinePlaces
<1>3. SetLevel(s, entry.value) = {} => ~ AppIsRight(more)
  <2> SUFFICES ASSUME SetLevel(s, entry.value) = {} PROVE ~ (Cardinality(AppLevels(more)) =< 1)
    BY DEF AppIsRight
  <2>1. AppLevels(line) # {}
    BY <1>1 DEF SetLevel, LevelsOf
  <2>2. ~ AtMostOne(AppLevels(more))
    BY <1>2, <2>1 DEF AtMostOne
  <2> QED BY <1>2, <2>2, FewElements
<1>4. ASSUME NEW next \in SetLevel(s, entry.value) PROVE AppScanned(more, next)
  <2>1. s.levelText = {} /\ next = [s EXCEPT !.levelText = {entry.value}]
    BY <1>4 DEF SetLevel
  <2>2. next = [targets |-> s.targets, lastSocket |-> s.lastSocket,
                levelText |-> {entry.value}, protocolGiven |-> s.protocolGiven]
    BY <1>1, <2>1
  <2>3. /\ next.targets = s.targets /\ next.lastSocket = s.lastSocket
        /\ next.levelText = {entry.value} /\ next.protocolGiven = s.protocolGiven
    BY <2>2
  <2>4. /\ ~ GivesFile(line, entry) /\ entry.option \in AppOptionNames \cup {"bare"}
        /\ entry.option # "--proto" /\ entry.option # "--socket"
    BY DEF GivesFile, GivesLevel, AppOptionNames
  <2>5. AppLevels(line) = {}
    BY <1>1, <2>1 DEF LevelsOf
  <2>6. NoMistake(more)
    BY <1>1, <2>4, <2>5, MistakesMore
  <2>7. InPlace(more, s.targets)
    BY <1>1, <2>4, TargetsStay, InPlaceStays
  <2>8. \A i \in Places(line) : RankIn(more, i) = RankIn(line, i)
    <3>1. Places(more) = Places(line)
      BY <2>4, PlacesMore
    <3> QED BY <3>1 DEF RankIn
  <2>9. OfLastSocket(more, next)
    BY <1>1, <2>3, <2>4, <2>8, LastStays
  <2>10. LevelsOf(more) = {entry.value}
    <3>1. LevelsOf(more) = LevelsOf(line) \cup (IF GivesLevel(line, entry) THEN {entry.value} ELSE {})
      BY LevelsMore
    <3> QED BY <1>1, <2>1, <3>1
  <2> HIDE DEF more
  <2> QED BY <2>2, <2>3, <2>6, <2>7, <2>9, <2>10 DEF AppScanned
<1> QED BY <1>3, <1>4

\* Different places have different ranks.
LEMMA RanksDiffer ==
    ASSUME NEW S, IsFiniteSet(S), S \subseteq Nat, NEW i \in S, NEW j \in S, i < j
    PROVE  Rank(S, i) # Rank(S, j)
<1> DEFINE before == {k \in S : k =< i}
           upTo == {k \in S : k =< j}
<1>1. i \in Nat /\ j \in Nat
  OBVIOUS
<1>2. before \subseteq S /\ upTo \subseteq S /\ j \notin before /\ j \in upTo /\ before \subseteq upTo
  <2>1. \A k \in S : k \in Nat /\ (k =< i => k =< j)
    BY <1>1
  <2>2. j \notin before /\ j \in upTo
    BY <1>1
  <2> QED BY <2>1, <2>2
<1> HIDE DEF before, upTo
<1>3. IsFiniteSet(before) /\ IsFiniteSet(upTo)
  BY <1>2, FS_Subset
<1>4. Cardinality(before \cup {j}) = Cardinality(before) + 1 /\ Cardinality(before) \in Nat
  BY <1>2, <1>3, FS_AddElement, FS_CardinalityType
<1>5. Cardinality(before \cup {j}) =< Cardinality(upTo) /\ Cardinality(upTo) \in Nat
  <2>1. before \cup {j} \subseteq upTo
    BY <1>2
  <2> QED BY <1>3, <2>1, FS_Subset, FS_CardinalityType
<1>6. Cardinality(before) # Cardinality(upTo)
  BY <1>4, <1>5
<1> QED BY <1>6 DEF Rank, before, upTo

\* A socket is not a file.
LEMMA SocketIsNoFile ==
    ASSUME NEW line, NEW i \in With(line, "--socket")
    PROVE  i \notin AppFiles(line)
<1>1. line[i].option = "--socket"
  BY DEF With
<1> QED BY <1>1 DEF AppFiles, AppBareFile, With

\* AddSocket() for --socket.
LEMMA AddSocketRight ==
    ASSUME NEW line \in Lines, NEW entry \in Entries, NEW s, AppScanned(line, s),
           entry.option = "--socket"
    PROVE  /\ AddSocket(s, entry.value) = {} => ~ AppIsRight(Append(line, entry))
           /\ \A next \in AddSocket(s, entry.value) : AppScanned(Append(line, entry), next)
<1> DEFINE more == Append(line, entry)
           n == Len(line) + 1
           target == SocketTarget(HostOf(entry.value), PortOf(entry.value), "tcp")
<1>1. /\ s = [targets |-> s.targets, lastSocket |-> s.lastSocket, levelText |-> s.levelText,
              protocolGiven |-> s.protocolGiven]
      /\ NoMistake(line) /\ InPlace(line, s.targets) /\ OfLastSocket(line, s)
      /\ s.levelText = LevelsOf(line)
  BY DEF AppScanned
<1>2. /\ With(more, "--socket") = With(line, "--socket") \cup {n} /\ more[n] = entry
      /\ ProtocolsOf(more, n) = {}
      /\ \A i \in With(line, "--socket") : i < n
      /\ n \in Nat
  <2>1. With(more, "--socket") = With(line, "--socket") \cup {n}
    BY WithMore
  <2>2. \A i \in DOMAIN line : i < n
    BY OneMoreEntry
  <2> QED BY <2>1, <2>2, OneMoreEntry, ProtocolsMore, LinePlaces
<1>3. AddSocket(s, entry.value) = {} => ~ AppIsRight(more)
  BY <1>2 DEF AppIsRight, AddSocket
<1>4. ASSUME NEW next \in AddSocket(s, entry.value) PROVE AppScanned(more, next)
  <2>1. /\ IsEndpoint(entry.value) /\ HostOf(entry.value) # Empty
        /\ next = [s EXCEPT !.targets = Append(s.targets, target),
                            !.lastSocket = Len(s.targets) + 1, !.protocolGiven = FALSE]
    BY <1>4 DEF AddSocket
  <2> HIDE DEF target
  <2>2. next = [targets |-> Append(s.targets, target), lastSocket |-> Len(s.targets) + 1,
                levelText |-> s.levelText, protocolGiven |-> FALSE]
    BY <1>1, <2>1
  <2>3. /\ next.targets = Append(s.targets, target) /\ next.lastSocket = Len(s.targets) + 1
        /\ next.levelText = s.levelText /\ next.protocolGiven = FALSE
    BY <2>2
  <2>4. /\ ~ GivesLevel(line, entry) /\ entry.option \in AppOptionNames \cup {"bare"}
        /\ ~ GivesFile(line, entry) /\ entry.option # "--proto"
    BY DEF GivesFile, GivesLevel, AppOptionNames
  <2>5. NoMistake(more)
    BY <1>1, <2>1, <2>4, MistakesMore
  <2>6. target \in AppTargets
    BY EntryParts DEF AppTargets, target
  <2>7. target = TargetAt(more, n)
    <3>1. n \notin AppFiles(more)
      BY <1>2, SocketIsNoFile
    <3> HIDE DEF more, n
    <3> QED BY <1>2, <3>1 DEF TargetAt, target
  <2>8. InPlace(more, Append(s.targets, target)) /\ RankIn(more, n) = Len(s.targets) + 1
    BY <1>1, <2>4, <2>6, <2>7, TargetsStay, InPlaceMore
  <2>9. OfLastSocket(more, next)
    <3> HIDE DEF more, n
    <3>1. \A i : IsLast(more, i) <=> i = n
      <4>1. \A i \in With(line, "--socket") : i \in Nat /\ i < n /\ ~ (n =< i) /\ i =< n
        <5>1. With(line, "--socket") \subseteq Nat
          BY LinePlaces
        <5> QED BY <1>2, <5>1
      <4>2. n =< n
        BY <1>2
      <4>3. \A i : i \in With(more, "--socket") <=> i \in With(line, "--socket") \/ i = n
        BY <1>2
      <4>4. IsLast(more, n)
        BY <4>1, <4>2, <4>3 DEF IsLast
      <4>5. \A i : IsLast(more, i) => i = n
        BY <4>1, <4>3 DEF IsLast
      <4> QED BY <4>4, <4>5
    <3> QED BY <1>2, <2>3, <2>8, <3>1 DEF OfLastSocket
  <2>10. LevelsOf(more) = LevelsOf(line)
    <3>1. LevelsOf(more) = LevelsOf(line) \cup (IF GivesLevel(line, entry) THEN {entry.value} ELSE {})
      BY LevelsMore
    <3> QED BY <2>4, <3>1
  <2> HIDE DEF more
  <2> QED BY <1>1, <2>2, <2>3, <2>5, <2>8, <2>9, <2>10 DEF AppScanned
<1> QED BY <1>3, <1>4

\* SetTargetProtocol() for --proto.
LEMMA SetTargetProtocolRight ==
    ASSUME NEW line \in Lines, NEW entry \in Entries, NEW s, AppScanned(line, s),
           entry.option = "--proto"
    PROVE  /\ SetTargetProtocol(s, entry.value) = {} => ~ AppIsRight(Append(line, entry))
           /\ \A next \in SetTargetProtocol(s, entry.value) : AppScanned(Append(line, entry), next)
<1> DEFINE more == Append(line, entry)
           n == Len(line) + 1
           sockets == With(line, "--socket")
           named == Named(entry.value, ProtocolOf)
<1>1. /\ s = [targets |-> s.targets, lastSocket |-> s.lastSocket, levelText |-> s.levelText,
              protocolGiven |-> s.protocolGiven]
      /\ NoMistake(line) /\ InPlace(line, s.targets) /\ OfLastSocket(line, s)
      /\ s.levelText = LevelsOf(line)
  BY DEF AppScanned
<1>2. /\ With(more, "--socket") = sockets
      /\ n \in With(more, "--proto")
      /\ more[n] = entry /\ \A i \in DOMAIN line : more[i] = line[i]
      /\ n \notin DOMAIN line
      /\ sockets \subseteq DOMAIN line /\ sockets \subseteq Places(line)
  <2>1. /\ With(more, "--socket") = sockets \cup (IF entry.option = "--socket" THEN {n} ELSE {})
        /\ With(more, "--proto") = With(line, "--proto") \cup (IF entry.option = "--proto" THEN {n} ELSE {})
    BY WithMore
  <2>2. With(more, "--socket") = sockets /\ n \in With(more, "--proto")
    BY <2>1
  <2>3. more[n] = entry /\ (\A i \in DOMAIN line : more[i] = line[i]) /\ n \notin DOMAIN line
    BY OneMoreEntry
  <2>4. sockets \subseteq DOMAIN line
    BY LinePlaces
  <2>5. sockets \subseteq Places(line)
    BY DEF Places
  <2> QED BY <2>2, <2>3, <2>4, <2>5
<1>3. \A i \in DOMAIN line : ProtocolsOf(more, i) =
         ProtocolsOf(line, i) \cup (IF \A k \in sockets : k =< i THEN {n} ELSE {})
  <2>1. \A i \in DOMAIN line : ProtocolsOf(more, i) = ProtocolsOf(line, i) \cup
          (IF entry.option = "--proto" /\ \A k \in With(line, "--socket") : k =< i
           THEN {Len(line) + 1} ELSE {})
    BY ProtocolsMore
  <2> HIDE DEF more
  <2> QED BY <2>1
<1>4. \A i \in DOMAIN line : ProtocolsOf(line, i) \subseteq DOMAIN line /\ IsFiniteSet(ProtocolsOf(more, i))
  <2>1. more \in Lines
    BY OneMoreEntry
  <2> QED BY <2>1, LinePlaces
<1>5. SetTargetProtocol(s, entry.value) = {} => ~ AppIsRight(more)
  <2> SUFFICES ASSUME SetTargetProtocol(s, entry.value) = {}, AppIsRight(more) PROVE FALSE
    OBVIOUS
  <2>1. Names(entry.value, ProtocolOf) /\ sockets # {}
    BY <1>2 DEF AppIsRight
  <2>2. PICK i : IsLast(line, i)
    BY <1>1, <2>1 DEF OfLastSocket
  <2>3. i \in sockets /\ (\A k \in sockets : k =< i) /\ i \in DOMAIN line /\ i \in Places(line)
    BY <1>2, <2>2 DEF IsLast
  <2>4. s.lastSocket # 0
    <3>1. s.lastSocket = RankIn(line, i) /\ RankIn(line, i) \in 1..Len(s.targets)
      BY <1>1, <2>2, <2>3 DEF OfLastSocket, InPlace
    <3> QED BY <3>1
  <2>5. s.protocolGiven
    BY <2>1, <2>4 DEF SetTargetProtocol
  <2>6. ProtocolsOf(line, i) # {}
    BY <1>1, <2>2, <2>5 DEF OfLastSocket
  <2>7. ~ AtMostOne(ProtocolsOf(more, i))
    <3>1. ProtocolsOf(more, i) = ProtocolsOf(line, i) \cup {n} /\ n \notin ProtocolsOf(line, i)
      BY <1>2, <1>3, <1>4, <2>3
    <3> QED BY <2>6, <3>1 DEF AtMostOne
  <2>8. Cardinality(ProtocolsOf(more, i)) =< 1
    BY <1>2, <2>3 DEF AppIsRight
  <2> QED BY <1>4, <2>3, <2>7, <2>8, FewElements
<1>6. ASSUME NEW next \in SetTargetProtocol(s, entry.value) PROVE AppScanned(more, next)
  <2> DEFINE last == s.lastSocket
             changed == [s.targets EXCEPT ![last].protocol = named]
  <2>1. /\ last # 0 /\ ~ s.protocolGiven /\ Names(entry.value, ProtocolOf)
        /\ next = [s EXCEPT !.targets = changed, !.protocolGiven = TRUE]
    <3>1. /\ last # 0 /\ ~ s.protocolGiven /\ Names(entry.value, ProtocolOf)
          /\ next = [s EXCEPT !.targets[s.lastSocket].protocol = named, !.protocolGiven = TRUE]
      BY <1>6 DEF SetTargetProtocol
    <3> QED BY <3>1
  <2> HIDE DEF changed, named
  <2>2. next = [targets |-> changed, lastSocket |-> last, levelText |-> s.levelText, protocolGiven |-> TRUE]
    BY <1>1, <2>1
  <2>3. /\ next.targets = changed /\ next.lastSocket = last /\ next.levelText = s.levelText
        /\ next.protocolGiven = TRUE
    BY <2>2
  <2>4. PICK i : IsLast(line, i)
    BY <1>1, <2>1 DEF OfLastSocket
  <2>5. i \in sockets /\ (\A k \in sockets : k =< i) /\ i \in DOMAIN line /\ i \in Places(line)
    BY <1>2, <2>4 DEF IsLast
  <2>6. /\ last = RankIn(line, i) /\ last \in 1..Len(s.targets)
        /\ s.targets[last] = TargetAt(line, i) /\ ProtocolsOf(line, i) = {}
    BY <1>1, <2>1, <2>4, <2>5 DEF OfLastSocket, InPlace
  <2>7. \A k : IsLast(line, k) => k = i
    <3>1. \A k \in sockets : k \in Nat
      BY <1>2, LinePlaces
    <3> QED BY <2>4, <3>1 DEF IsLast
  <2>8. /\ ~ GivesLevel(line, entry) /\ ~ GivesFile(line, entry) /\ entry.option # "--socket"
        /\ entry.option \in AppOptionNames \cup {"bare"}
    BY DEF GivesFile, GivesLevel, AppOptionNames
  <2>9. NoMistake(more)
    <3>1. sockets # {} /\ \A k : IsLast(line, k) => ProtocolsOf(line, k) = {}
      BY <2>5, <2>6, <2>7
    <3> QED BY <1>1, <2>1, <2>8, <3>1, MistakesMore
  <2>10. /\ AppFiles(more) = AppFiles(line) /\ Places(more) = Places(line)
         /\ AppLevels(more) = AppLevels(line)
    BY <2>8, PlacesMore
  <2>11. \A k : RankIn(more, k) = RankIn(line, k)
    BY <2>10 DEF RankIn
  <2> DEFINE host == HostOf(line[i].value)
             port == PortOf(line[i].value)
  <2>12. s.targets[last] = SocketTarget(host, port, "tcp") /\ TargetAt(more, i) = SocketTarget(host, port, named)
    <3>1. i \notin AppFiles(line) /\ i \notin AppFiles(more) /\ more[i] = line[i]
      BY <1>2, <2>5, <2>10, SocketIsNoFile
    <3>2. TargetAt(line, i) = SocketTarget(host, port, "tcp")
      BY <2>6, <3>1 DEF TargetAt
    <3>3. ProtocolsOf(more, i) = {n}
      BY <1>3, <2>5, <2>6
    <3>4. (CHOOSE j \in {n} : TRUE) = n
      OBVIOUS
    <3> HIDE DEF more, n
    <3>5. TargetAt(more, i) = SocketTarget(host, port, named)
      BY <1>2, <3>1, <3>3, <3>4 DEF TargetAt, named
    <3> QED BY <2>6, <3>2, <3>5
  <2>13. /\ s.targets \in Seq(AppTargets) /\ DOMAIN s.targets = 1..Len(s.targets)
         /\ Len(s.targets) \in Nat
    BY <1>1, LenProperties DEF InPlace
  <2>14. changed = [s.targets EXCEPT ![last] = SocketTarget(host, port, named)]
    <3>1. changed = [s.targets EXCEPT ![last] = [s.targets[last] EXCEPT !.protocol = named]]
      BY DEF changed
    <3>2. [s.targets[last] EXCEPT !.protocol = named] = SocketTarget(host, port, named)
      BY <2>12 DEF SocketTarget
    <3> QED BY <3>1, <3>2
  <2>15. SocketTarget(host, port, named) \in AppTargets
    <3>1. line[i] \in Entries
      BY <2>5, ElementOfSeq, LenProperties DEF Lines
    <3>2. line[i].value \in Texts \cup {Empty}
      BY <3>1, EntryParts
    <3>3. named \in {ProtocolOf[word] : word \in DOMAIN ProtocolOf}
      BY <2>1 DEF named, Names, Named
    <3> QED BY <3>2, <3>3 DEF AppTargets
  <2> HIDE DEF host, port
  <2>16. /\ changed \in Seq(AppTargets) /\ Len(changed) = Len(s.targets)
         /\ changed[last] = TargetAt(more, i)
         /\ \A m \in 1..Len(s.targets) : m # last => changed[m] = s.targets[m]
    BY <2>6, <2>12, <2>13, <2>14, <2>15, ExceptSeq
  <2>17. ASSUME NEW k \in Places(line), k # i
         PROVE  TargetAt(more, k) = TargetAt(line, k) /\ RankIn(line, k) # last
    <3>1. k \in Nat /\ i \in Nat /\ k \in DOMAIN line /\ IsFiniteSet(Places(line)) /\ Places(line) \subseteq Nat
      BY <2>5, LinePlaces
    <3>2. RankIn(line, k) # RankIn(line, i)
      <4>1. CASE k < i
        BY <2>5, <3>1, <4>1, RanksDiffer DEF RankIn
      <4>2. CASE i < k
        BY <2>5, <3>1, <4>2, RanksDiffer DEF RankIn
      <4> QED BY <2>17, <3>1, <4>1, <4>2
    <3>3. TargetAt(more, k) = TargetAt(line, k)
      <4>1. CASE k \in AppFiles(line)
        <5>1. k \in AppFiles(more) /\ more[k] = line[k]
          BY <1>2, <2>10, <3>1, <4>1
        <5> HIDE DEF more
        <5> QED BY <4>1, <5>1 DEF TargetAt
      <4>2. CASE k \notin AppFiles(line)
        <5>1. k \in sockets
          BY <4>2 DEF Places
        <5>2. ~ (i =< k)
          BY <2>5, <2>17, <3>1, <5>1
        <5>3. ProtocolsOf(more, k) = ProtocolsOf(line, k)
          BY <1>3, <2>5, <3>1, <5>2
        <5> QED BY <5>3, TargetStays
      <4> QED BY <4>1, <4>2
    <3> QED BY <2>6, <3>2, <3>3
  <2>18. InPlace(more, changed)
    <3> HIDE DEF more
    <3>1. Len(changed) = Cardinality(Places(more))
      BY <1>1, <2>10, <2>16 DEF InPlace
    <3>2. \A k \in Places(more) : RankIn(more, k) \in 1..Len(changed)
      BY <1>1, <2>10, <2>11, <2>16 DEF InPlace
    <3>3. \A k \in Places(more) : changed[RankIn(more, k)] = TargetAt(more, k)
      <4> SUFFICES ASSUME NEW k \in Places(line) PROVE changed[RankIn(line, k)] = TargetAt(more, k)
        BY <2>10, <2>11
      <4>1. CASE k = i
        BY <2>6, <2>16, <4>1
      <4>2. CASE k # i
        <5>1. RankIn(line, k) \in 1..Len(s.targets) /\ s.targets[RankIn(line, k)] = TargetAt(line, k)
          BY <1>1 DEF InPlace
        <5> QED BY <2>16, <2>17, <4>2, <5>1
      <4> QED BY <4>1, <4>2
    <3>4. \A m \in 1..Len(changed) : \E k \in Places(more) : RankIn(more, k) = m
      BY <1>1, <2>10, <2>11, <2>16 DEF InPlace
    <3> QED BY <2>16, <3>1, <3>2, <3>3, <3>4 DEF InPlace
  <2>19. OfLastSocket(more, next)
    <3>1. ProtocolsOf(more, i) # {}
      BY <1>3, <2>5
    <3> HIDE DEF more
    <3>2. \A k : IsLast(more, k) <=> IsLast(line, k)
      BY <1>2 DEF IsLast
    <3> QED BY <1>2, <2>3, <2>4, <2>5, <2>6, <2>7, <2>11, <3>1, <3>2 DEF OfLastSocket
  <2>20. LevelsOf(more) = LevelsOf(line)
    <3>1. LevelsOf(more) = LevelsOf(line) \cup (IF GivesLevel(line, entry) THEN {entry.value} ELSE {})
      BY LevelsMore
    <3> QED BY <2>8, <3>1
  <2> HIDE DEF more
  <2> QED BY <1>1, <2>2, <2>3, <2>9, <2>18, <2>19, <2>20 DEF AppScanned
<1> QED BY <1>5, <1>6

\* buildRun() of the application.
LEMMA AppRunRight ==
    ASSUME NEW line \in Lines, NEW s, AppScanned(line, s)
    PROVE  /\ AppRun(s) = {} => ~ AppIsRight(line)
           /\ AppRun(s) # {} => AppIsRight(line) /\ AppRun(s) = {AppMeans(line)}
<1>1. /\ NoMistake(line) /\ InPlace(line, s.targets) /\ s.levelText = LevelsOf(line)
  BY DEF AppScanned
<1>2. /\ IsFiniteSet(Places(line)) /\ IsFiniteSet(AppLevels(line))
      /\ \A i : IsFiniteSet(ProtocolsOf(line, i))
  BY LinePlaces
<1>3. /\ s.targets \in Seq(AppTargets) /\ Len(s.targets) = Cardinality(Places(line))
      /\ Len(s.targets) \in Nat /\ DOMAIN s.targets = 1..Len(s.targets)
      /\ s.targets = [m \in 1..Len(s.targets) |-> s.targets[m]]
  <2>1. s.targets \in Seq(AppTargets) /\ Len(s.targets) = Cardinality(Places(line))
    BY <1>1 DEF InPlace
  <2>2. s.targets \in [1..Len(s.targets) -> AppTargets] /\ Len(s.targets) \in Nat
    BY <2>1, LenProperties
  <2> QED BY <2>1, <2>2
<1>4. s.targets = << >> <=> Places(line) = {}
  <2>1. s.targets = << >> <=> Len(s.targets) = 0
    BY <1>3, EmptySeq
  <2>2. Cardinality(Places(line)) = 0 <=> Places(line) = {}
    BY <1>2, FS_EmptySet
  <2> QED BY <1>3, <2>1, <2>2
<1>5. (\E text \in s.levelText : ~ Names(text, LevelOf)) <=>
         \E i \in AppLevels(line) : ~ Names(line[i].value, LevelOf)
  BY <1>1 DEF LevelsOf
<1>6. AppRun(s) = {} <=> s.targets = << >> \/ \E text \in s.levelText : ~ Names(text, LevelOf)
  BY DEF AppRun
<1>7. AppRun(s) = {} => ~ AppIsRight(line)
  BY <1>4, <1>5, <1>6 DEF AppIsRight
<1>8. ASSUME AppRun(s) # {} PROVE AppIsRight(line)
  <2>1. \A i \in With(line, "--socket") : Cardinality(ProtocolsOf(line, i)) =< 1
    BY <1>1, <1>2, FewElements DEF NoMistake
  <2>2. Cardinality(AppLevels(line)) =< 1
    BY <1>1, <1>2, FewElements DEF NoMistake
  <2> QED BY <1>1, <1>4, <1>5, <1>6, <1>8, <2>1, <2>2 DEF AppIsRight, NoMistake
<1>9. ASSUME AppRun(s) # {} PROVE AppRun(s) = {AppMeans(line)}
  <2> DEFINE nth(m) == CHOOSE i \in Places(line) : Rank(Places(line), i) = m
             targets == [m \in 1..Cardinality(Places(line)) |-> TargetAt(line, nth(m))]
             level == IF AppLevels(line) = {} THEN LevelOf["INFO"]
                      ELSE Named(line[CHOOSE i \in AppLevels(line) : TRUE].value, LevelOf)
             scanned == IF s.levelText = {} THEN LevelOf["INFO"]
                        ELSE Named(CHOOSE text \in s.levelText : TRUE, LevelOf)
  <2>1. s.targets = targets
    <3>1. \A m \in 1..Len(s.targets) : s.targets[m] = TargetAt(line, nth(m))
      <4> SUFFICES ASSUME NEW m \in 1..Len(s.targets) PROVE s.targets[m] = TargetAt(line, nth(m))
        OBVIOUS
      <4>1. \E i \in Places(line) : Rank(Places(line), i) = m
        BY <1>1 DEF InPlace, RankIn
      <4>2. nth(m) \in Places(line) /\ RankIn(line, nth(m)) = m
        BY <4>1 DEF RankIn
      <4> HIDE DEF nth
      <4> QED BY <1>1, <4>2 DEF InPlace
    <3> HIDE DEF nth
    <3> QED BY <1>3, <3>1
  <2>2. scanned = level
    <3>1. CASE AppLevels(line) = {}
      <4>1. s.levelText = {}
        BY <1>1, <3>1 DEF LevelsOf
      <4> QED BY <3>1, <4>1
    <3>2. CASE AppLevels(line) # {}
      <4>1. PICK i \in AppLevels(line) : AppLevels(line) = {i}
        BY <1>1, <3>2 DEF NoMistake, AtMostOne
      <4>2. s.levelText = {line[i].value}
        BY <1>1, <4>1 DEF LevelsOf
      <4>3. (CHOOSE j \in AppLevels(line) : TRUE) = i /\ (CHOOSE text \in s.levelText : TRUE) = line[i].value
        BY <4>1, <4>2
      <4> QED BY <3>2, <4>2, <4>3
    <3> QED BY <3>1, <3>2
  <2>3. AppRun(s) = {[targets |-> s.targets, level |-> scanned]}
    BY <1>9 DEF AppRun
  <2>4. AppMeans(line) = [targets |-> targets, level |-> level]
    BY DEF AppMeans
  <2> HIDE DEF targets, level, scanned
  <2> QED BY <2>1, <2>2, <2>3, <2>4
<1> QED BY <1>7, <1>8, <1>9

-----------------------------------------------------------------------------
(* What CollectorOptions has scanned against the line.                      *)

BarePlace(line) == Cardinality(With(line, "bare")) + 1

GivesValue(line, entry, o) ==
    \/ entry.option = o
    \/ entry.option = "bare" /\ BarePlace(line) =< 3 /\ PlaceNames[BarePlace(line)] = o

\* What one option more adds to the values of an option of the collector.
LEMMA ValuesMore ==
    ASSUME NEW line \in Lines, NEW entry \in Entries, NEW o
    PROVE  /\ ValuesFor(Append(line, entry), o) =
                 ValuesFor(line, o) \cup (IF GivesValue(line, entry, o) THEN {Len(line) + 1} ELSE {})
           /\ ValuesFor(line, o) \subseteq DOMAIN line
           /\ Cardinality(With(Append(line, entry), "bare")) =
                 IF entry.option = "bare" THEN BarePlace(line) ELSE Cardinality(With(line, "bare"))
           /\ BarePlace(line) \in Nat /\ BarePlace(line) >= 1
<1> DEFINE more == Append(line, entry)
           n == Len(line) + 1
           bare == With(line, "bare")
           Placed(S) == {i \in S : Rank(S, i) =< 3 /\ PlaceNames[Rank(S, i)] = o}
<1>1. /\ \A p : With(more, p) = With(line, p) \cup (IF entry.option = p THEN {n} ELSE {})
      /\ \A p : With(line, p) \subseteq DOMAIN line
      /\ IsFiniteSet(bare) /\ bare \subseteq Nat /\ n \in Nat /\ \A i \in bare : i < n
  <2>1. \A p : With(more, p) = With(line, p) \cup (IF entry.option = p THEN {n} ELSE {})
    BY WithMore
  <2>2. /\ \A p : With(line, p) \subseteq DOMAIN line
        /\ IsFiniteSet(bare) /\ bare \subseteq Nat
    BY LinePlaces
  <2>3. n \in Nat /\ \A i \in DOMAIN line : i < n
    BY OneMoreEntry
  <2> QED BY <2>1, <2>2, <2>3
<1>2. /\ \A i \in bare : Rank(bare \cup {n}, i) = Rank(bare, i)
      /\ Rank(bare \cup {n}, n) = Cardinality(bare) + 1
      /\ Cardinality(bare \cup {n}) = Cardinality(bare) + 1
      /\ Cardinality(bare) \in Nat
  <2> HIDE DEF bare, n
  <2> QED BY <1>1, RanksMore
<1>3. ValuesFor(line, o) = With(line, o) \cup Placed(bare)
  BY DEF ValuesFor, With, Rank
<1>4. ValuesFor(more, o) = With(more, o) \cup Placed(With(more, "bare"))
  BY DEF ValuesFor, With, Rank
<1> HIDE DEF more, n, bare
<1>5. Placed(With(more, "bare")) = Placed(bare) \cup
        (IF entry.option = "bare" /\ BarePlace(line) =< 3 /\ PlaceNames[BarePlace(line)] = o THEN {n} ELSE {})
  <2>1. CASE entry.option = "bare"
    <3>1. With(more, "bare") = bare \cup {n}
      BY <1>1, <2>1 DEF bare
    <3>2. BarePlace(line) = Rank(bare \cup {n}, n)
      BY <1>2 DEF BarePlace, bare
    <3> QED BY <1>2, <2>1, <3>1, <3>2
  <2>2. CASE entry.option # "bare"
    <3>1. With(more, "bare") = bare
      BY <1>1, <2>2 DEF bare
    <3> QED BY <2>2, <3>1
  <2> QED BY <2>1, <2>2
<1>6. ValuesFor(more, o) = ValuesFor(line, o) \cup (IF GivesValue(line, entry, o) THEN {n} ELSE {})
  <2> HIDE DEF Placed
  <2> QED BY <1>1, <1>3, <1>4, <1>5 DEF GivesValue
<1>7. ValuesFor(line, o) \subseteq DOMAIN line
  BY <1>1, <1>3 DEF bare
<1>8. Cardinality(With(more, "bare")) = IF entry.option = "bare" THEN BarePlace(line) ELSE Cardinality(With(line, "bare"))
  <2>1. With(more, "bare") = bare \cup (IF entry.option = "bare" THEN {n} ELSE {})
    BY <1>1 DEF bare
  <2>2. BarePlace(line) = Cardinality(bare) + 1 /\ bare = With(line, "bare")
    BY DEF BarePlace, bare
  <2>3. CASE entry.option = "bare"
    BY <1>2, <2>1, <2>2, <2>3
  <2>4. CASE entry.option # "bare"
    BY <2>1, <2>2, <2>4
  <2> QED BY <2>3, <2>4
<1>9. BarePlace(line) \in Nat /\ BarePlace(line) >= 1
  BY <1>2 DEF BarePlace, bare
<1> QED BY <1>6, <1>7, <1>8, <1>9 DEF more, n

TextsFor(line, o) == {line[i].value : i \in ValuesFor(line, o)}

\* Every value so far is that of one option, and no option has two.
CollectorSound(line) ==
    /\ \A i \in DOMAIN line : \E o \in CollectorOptionNames : i \in ValuesFor(line, o)
    /\ \A o \in CollectorOptionNames : AtMostOne(ValuesFor(line, o))
    /\ \A text \in TextsFor(line, "--proto") : Names(text, ProtocolOf)

CollectorTexts(line, s) ==
    /\ s = [listen |-> s.listen, countText |-> s.countText, timeoutText |-> s.timeoutText,
            protocol |-> s.protocol, positional |-> s.positional]
    /\ s.listen = TextsFor(line, "--listen")
    /\ s.countText = TextsFor(line, "--count")
    /\ s.timeoutText = TextsFor(line, "--timeout")
    /\ s.protocol = {Named(text, ProtocolOf) : text \in TextsFor(line, "--proto")}
    /\ CollectorSound(line)

CollectorScanned(line, s) ==
    /\ CollectorTexts(line, s)
    /\ s.positional = Cardinality(With(line, "bare")) /\ s.positional =< 3

\* A value is of one option.
LEMMA OneOption ==
    ASSUME NEW line \in Lines, NEW entry \in Entries, NEW o \in CollectorOptionNames,
           NEW p \in CollectorOptionNames, GivesValue(line, entry, o), GivesValue(line, entry, p)
    PROVE  o = p
  BY DEF GivesValue, CollectorOptionNames

\* The first value of an option ...
LEMMA FirstValue ==
    ASSUME NEW line \in Lines, NEW entry \in Entries, NEW o \in CollectorOptionNames,
           CollectorSound(line), GivesValue(line, entry, o), TextsFor(line, o) = {},
           o = "--proto" => Names(entry.value, ProtocolOf)
    PROVE  /\ CollectorSound(Append(line, entry))
           /\ TextsFor(Append(line, entry), o) = {entry.value}
           /\ \A p \in CollectorOptionNames : p # o => TextsFor(Append(line, entry), p) = TextsFor(line, p)
<1> DEFINE more == Append(line, entry)
           n == Len(line) + 1
<1>1. /\ DOMAIN more = DOMAIN line \cup {n} /\ more[n] = entry
      /\ \A i \in DOMAIN line : more[i] = line[i]
  BY OneMoreEntry
<1>2. \A p \in CollectorOptionNames :
         /\ ValuesFor(line, p) \subseteq DOMAIN line
         /\ ValuesFor(more, p) = ValuesFor(line, p) \cup (IF GivesValue(line, entry, p) THEN {n} ELSE {})
  BY ValuesMore
<1>3. \A p \in CollectorOptionNames : p # o => ~ GivesValue(line, entry, p)
  BY OneOption
<1>4. ValuesFor(line, o) = {}
  BY DEF TextsFor
<1> HIDE DEF more, n
<1>5. ValuesFor(more, o) = {n}
  BY <1>2, <1>4
<1>6. \A p \in CollectorOptionNames : p # o => ValuesFor(more, p) = ValuesFor(line, p)
  BY <1>2, <1>3
<1>7. TextsFor(more, o) = {entry.value}
  BY <1>1, <1>5 DEF TextsFor
<1>8. \A p \in CollectorOptionNames : p # o => TextsFor(more, p) = TextsFor(line, p)
  BY <1>1, <1>2, <1>6 DEF TextsFor
<1>9. \A i \in DOMAIN more : \E p \in CollectorOptionNames : i \in ValuesFor(more, p)
  <2>1. \A i \in DOMAIN line : \E p \in CollectorOptionNames : i \in ValuesFor(more, p)
    BY <1>2 DEF CollectorSound
  <2> QED BY <1>1, <1>5, <2>1
<1>10. \A p \in CollectorOptionNames : AtMostOne(ValuesFor(more, p))
  BY <1>5, <1>6 DEF CollectorSound, AtMostOne
<1>11. \A text \in TextsFor(more, "--proto") : Names(text, ProtocolOf)
  <2>1. "--proto" \in CollectorOptionNames
    BY DEF CollectorOptionNames
  <2>2. CASE o = "--proto"
    BY <1>7, <2>2
  <2>3. CASE o # "--proto"
    BY <1>8, <2>1, <2>3 DEF CollectorSound
  <2> QED BY <2>2, <2>3
<1>12. CollectorSound(more)
  BY <1>9, <1>10, <1>11 DEF CollectorSound
<1> QED BY <1>7, <1>8, <1>12 DEF more

\* ... and the second, which is wrong.
LEMMA SecondValue ==
    ASSUME NEW line \in Lines, NEW entry \in Entries, NEW o \in CollectorOptionNames,
           GivesValue(line, entry, o), TextsFor(line, o) # {}
    PROVE  ~ CollectorIsRight(Append(line, entry))
<1> DEFINE more == Append(line, entry)
           n == Len(line) + 1
<1>1. n \notin DOMAIN line /\ more \in Lines
  BY OneMoreEntry
<1>2. ValuesFor(line, o) \subseteq DOMAIN line /\ ValuesFor(more, o) \subseteq DOMAIN more
  BY <1>1, ValuesMore
<1>3. ValuesFor(more, o) = ValuesFor(line, o) \cup {n}
  BY ValuesMore
<1>4. ValuesFor(line, o) # {}
  BY DEF TextsFor
<1>5. IsFiniteSet(ValuesFor(more, o))
  <2>1. DOMAIN more = 1..Len(more) /\ Len(more) \in Nat
    BY <1>1, LenProperties DEF Lines
  <2> HIDE DEF more
  <2>2. IsFiniteSet(DOMAIN more)
    BY <2>1, FS_Interval
  <2> QED BY <1>2, <2>2, FS_Subset
<1> HIDE DEF more, n
<1>6. ~ AtMostOne(ValuesFor(more, o))
  BY <1>1, <1>2, <1>3, <1>4 DEF AtMostOne
<1>7. ~ (Cardinality(ValuesFor(more, o)) =< 1)
  BY <1>5, <1>6, FewElements
<1> QED BY <1>7 DEF CollectorIsRight, more

\* An entry that is of no option is wrong.
LEMMA NoOption ==
    ASSUME NEW line \in Lines, NEW entry \in Entries,
           \A o \in CollectorOptionNames : ~ GivesValue(line, entry, o)
    PROVE  ~ CollectorIsRight(Append(line, entry))
<1> DEFINE more == Append(line, entry)
           n == Len(line) + 1
<1>1. n \in DOMAIN more /\ n \notin DOMAIN line
  BY OneMoreEntry
<1>2. \A o \in CollectorOptionNames : n \notin ValuesFor(more, o)
  BY <1>1, ValuesMore
<1> HIDE DEF more, n
<1> QED BY <1>1, <1>2 DEF CollectorIsRight, more

\* setListen(), setCount() and setTimeout().
LEMMA SetTextRight ==
    ASSUME NEW line \in Lines, NEW entry \in Entries, NEW s, CollectorTexts(line, s)
    PROVE  /\ GivesValue(line, entry, "--listen") =>
                 /\ SetListen(s, entry.value) = {} => ~ CollectorIsRight(Append(line, entry))
                 /\ \A next \in SetListen(s, entry.value) :
                       CollectorTexts(Append(line, entry), next) /\ next.positional = s.positional
           /\ GivesValue(line, entry, "--count") =>
                 /\ SetCount(s, entry.value) = {} => ~ CollectorIsRight(Append(line, entry))
                 /\ \A next \in SetCount(s, entry.value) :
                       CollectorTexts(Append(line, entry), next) /\ next.positional = s.positional
           /\ GivesValue(line, entry, "--timeout") =>
                 /\ SetTimeout(s, entry.value) = {} => ~ CollectorIsRight(Append(line, entry))
                 /\ \A next \in SetTimeout(s, entry.value) :
                       CollectorTexts(Append(line, entry), next) /\ next.positional = s.positional
<1> DEFINE more == Append(line, entry)
<1>1. /\ s = [listen |-> s.listen, countText |-> s.countText, timeoutText |-> s.timeoutText,
              protocol |-> s.protocol, positional |-> s.positional]
      /\ s.listen = TextsFor(line, "--listen")
      /\ s.countText = TextsFor(line, "--count")
      /\ s.timeoutText = TextsFor(line, "--timeout")
      /\ s.protocol = {Named(text, ProtocolOf) : text \in TextsFor(line, "--proto")}
      /\ CollectorSound(line)
  BY DEF CollectorTexts
<1>2. {"--listen", "--count", "--timeout", "--proto"} = CollectorOptionNames
  BY DEF CollectorOptionNames
<1>3. ASSUME GivesValue(line, entry, "--listen")
      PROVE  /\ SetListen(s, entry.value) = {} => ~ CollectorIsRight(more)
             /\ \A next \in SetListen(s, entry.value) :
                   CollectorTexts(more, next) /\ next.positional = s.positional
  <2>1. SetListen(s, entry.value) = {} => TextsFor(line, "--listen") # {}
    BY <1>1 DEF SetListen
  <2>2. TextsFor(line, "--listen") # {} => ~ CollectorIsRight(more)
    BY <1>2, <1>3, SecondValue
  <2>3. ASSUME NEW next \in SetListen(s, entry.value)
        PROVE  CollectorTexts(more, next) /\ next.positional = s.positional
    <3>1. TextsFor(line, "--listen") = {} /\ next = [s EXCEPT !.listen = {entry.value}]
      BY <1>1, <2>3 DEF SetListen
    <3>2. next = [listen |-> {entry.value}, countText |-> s.countText, timeoutText |-> s.timeoutText,
                  protocol |-> s.protocol, positional |-> s.positional]
      BY <1>1, <3>1
    <3>3. /\ CollectorSound(more) /\ TextsFor(more, "--listen") = {entry.value}
          /\ \A p \in CollectorOptionNames : p # "--listen" => TextsFor(more, p) = TextsFor(line, p)
      BY <1>1, <1>2, <1>3, <3>1, FirstValue
    <3> HIDE DEF more
    <3>4. TextsFor(more, "--count") = s.countText /\ TextsFor(more, "--timeout") = s.timeoutText
          /\ TextsFor(more, "--proto") = TextsFor(line, "--proto")
      BY <1>1, <1>2, <3>3
    <3> QED BY <1>1, <3>2, <3>3, <3>4 DEF CollectorTexts
  <2> QED BY <2>1, <2>2, <2>3
<1>4. ASSUME GivesValue(line, entry, "--count")
      PROVE  /\ SetCount(s, entry.value) = {} => ~ CollectorIsRight(more)
             /\ \A next \in SetCount(s, entry.value) :
                   CollectorTexts(more, next) /\ next.positional = s.positional
  <2>1. SetCount(s, entry.value) = {} => TextsFor(line, "--count") # {}
    BY <1>1 DEF SetCount
  <2>2. TextsFor(line, "--count") # {} => ~ CollectorIsRight(more)
    BY <1>2, <1>4, SecondValue
  <2>3. ASSUME NEW next \in SetCount(s, entry.value)
        PROVE  CollectorTexts(more, next) /\ next.positional = s.positional
    <3>1. TextsFor(line, "--count") = {} /\ next = [s EXCEPT !.countText = {entry.value}]
      BY <1>1, <2>3 DEF SetCount
    <3>2. next = [listen |-> s.listen, countText |-> {entry.value}, timeoutText |-> s.timeoutText,
                  protocol |-> s.protocol, positional |-> s.positional]
      BY <1>1, <3>1
    <3>3. /\ CollectorSound(more) /\ TextsFor(more, "--count") = {entry.value}
          /\ \A p \in CollectorOptionNames : p # "--count" => TextsFor(more, p) = TextsFor(line, p)
      BY <1>1, <1>2, <1>4, <3>1, FirstValue
    <3> HIDE DEF more
    <3>4. TextsFor(more, "--listen") = s.listen /\ TextsFor(more, "--timeout") = s.timeoutText
          /\ TextsFor(more, "--proto") = TextsFor(line, "--proto")
      BY <1>1, <1>2, <3>3
    <3> QED BY <1>1, <3>2, <3>3, <3>4 DEF CollectorTexts
  <2> QED BY <2>1, <2>2, <2>3
<1>5. ASSUME GivesValue(line, entry, "--timeout")
      PROVE  /\ SetTimeout(s, entry.value) = {} => ~ CollectorIsRight(more)
             /\ \A next \in SetTimeout(s, entry.value) :
                   CollectorTexts(more, next) /\ next.positional = s.positional
  <2>1. SetTimeout(s, entry.value) = {} => TextsFor(line, "--timeout") # {}
    BY <1>1 DEF SetTimeout
  <2>2. TextsFor(line, "--timeout") # {} => ~ CollectorIsRight(more)
    BY <1>2, <1>5, SecondValue
  <2>3. ASSUME NEW next \in SetTimeout(s, entry.value)
        PROVE  CollectorTexts(more, next) /\ next.positional = s.positional
    <3>1. TextsFor(line, "--timeout") = {} /\ next = [s EXCEPT !.timeoutText = {entry.value}]
      BY <1>1, <2>3 DEF SetTimeout
    <3>2. next = [listen |-> s.listen, countText |-> s.countText, timeoutText |-> {entry.value},
                  protocol |-> s.protocol, positional |-> s.positional]
      BY <1>1, <3>1
    <3>3. /\ CollectorSound(more) /\ TextsFor(more, "--timeout") = {entry.value}
          /\ \A p \in CollectorOptionNames : p # "--timeout" => TextsFor(more, p) = TextsFor(line, p)
      BY <1>1, <1>2, <1>5, <3>1, FirstValue
    <3> HIDE DEF more
    <3>4. TextsFor(more, "--listen") = s.listen /\ TextsFor(more, "--count") = s.countText
          /\ TextsFor(more, "--proto") = TextsFor(line, "--proto")
      BY <1>1, <1>2, <3>3
    <3> QED BY <1>1, <3>2, <3>3, <3>4 DEF CollectorTexts
  <2> QED BY <2>1, <2>2, <2>3
<1> QED BY <1>3, <1>4, <1>5

\* setProtocol() of the collector.
LEMMA SetListenProtocolRight ==
    ASSUME NEW line \in Lines, NEW entry \in Entries, NEW s, CollectorTexts(line, s),
           GivesValue(line, entry, "--proto")
    PROVE  /\ SetListenProtocol(s, entry.value) = {} => ~ CollectorIsRight(Append(line, entry))
           /\ \A next \in SetListenProtocol(s, entry.value) :
                 CollectorTexts(Append(line, entry), next) /\ next.positional = s.positional
<1> DEFINE more == Append(line, entry)
           n == Len(line) + 1
           named == Named(entry.value, ProtocolOf)
<1>1. /\ s = [listen |-> s.listen, countText |-> s.countText, timeoutText |-> s.timeoutText,
              protocol |-> s.protocol, positional |-> s.positional]
      /\ s.listen = TextsFor(line, "--listen")
      /\ s.countText = TextsFor(line, "--count")
      /\ s.timeoutText = TextsFor(line, "--timeout")
      /\ s.protocol = {Named(text, ProtocolOf) : text \in TextsFor(line, "--proto")}
      /\ CollectorSound(line)
  BY DEF CollectorTexts
<1>2. {"--listen", "--count", "--timeout", "--proto"} = CollectorOptionNames
  BY DEF CollectorOptionNames
<1>3. TextsFor(line, "--proto") # {} => ~ CollectorIsRight(more)
  BY <1>2, SecondValue
<1>4. ~ Names(entry.value, ProtocolOf) => ~ CollectorIsRight(more)
  <2>1. n \in ValuesFor(more, "--proto") /\ more[n] = entry
    BY ValuesMore, OneMoreEntry
  <2> HIDE DEF more, n
  <2> QED BY <2>1 DEF CollectorIsRight
<1>5. SetListenProtocol(s, entry.value) = {} =>
         TextsFor(line, "--proto") # {} \/ ~ Names(entry.value, ProtocolOf)
  BY <1>1 DEF SetListenProtocol
<1>6. ASSUME NEW next \in SetListenProtocol(s, entry.value)
      PROVE  CollectorTexts(more, next) /\ next.positional = s.positional
  <2>1. /\ TextsFor(line, "--proto") = {} /\ Names(entry.value, ProtocolOf)
        /\ next = [s EXCEPT !.protocol = {named}]
    BY <1>1, <1>6 DEF SetListenProtocol
  <2>2. next = [listen |-> s.listen, countText |-> s.countText, timeoutText |-> s.timeoutText,
                protocol |-> {named}, positional |-> s.positional]
    BY <1>1, <2>1
  <2>3. /\ CollectorSound(more) /\ TextsFor(more, "--proto") = {entry.value}
        /\ \A p \in CollectorOptionNames : p # "--proto" => TextsFor(more, p) = TextsFor(line, p)
    BY <1>1, <1>2, <2>1, FirstValue
  <2> HIDE DEF more
  <2>4. /\ TextsFor(more, "--listen") = s.listen /\ TextsFor(more, "--timeout") = s.timeoutText
        /\ TextsFor(more, "--count") = s.countText
        /\ {named} = {Named(text, ProtocolOf) : text \in TextsFor(more, "--proto")}
    BY <1>1, <1>2, <2>3
  <2> QED BY <1>1, <2>2, <2>3, <2>4 DEF CollectorTexts
<1> QED BY <1>3, <1>4, <1>5, <1>6

\* handle() of the collector.
LEMMA CollectorHandleRight ==
    ASSUME NEW line \in Lines, NEW entry \in Entries, NEW s, CollectorScanned(line, s),
           entry.option \in CollectorOptionNames
    PROVE  /\ CollectorHandle(entry.option, s, entry.value) = {} => ~ CollectorIsRight(Append(line, entry))
           /\ \A next \in CollectorHandle(entry.option, s, entry.value) :
                 CollectorScanned(Append(line, entry), next)
<1> DEFINE more == Append(line, entry)
           scans == CollectorHandle(entry.option, s, entry.value)
<1>1. CollectorTexts(line, s) /\ s.positional = Cardinality(With(line, "bare")) /\ s.positional =< 3
  BY DEF CollectorScanned
<1>2. GivesValue(line, entry, entry.option)
  BY DEF GivesValue
<1>3. Cardinality(With(more, "bare")) = Cardinality(With(line, "bare"))
  <2>1. entry.option # "bare"
    BY DEF CollectorOptionNames
  <2> QED BY <2>1, ValuesMore
<1>4. /\ scans = {} => ~ CollectorIsRight(more)
      /\ \A next \in scans : CollectorTexts(more, next) /\ next.positional = s.positional
  <2>1. CASE entry.option = "--listen"
    <3>1. scans = SetListen(s, entry.value)
      BY <2>1 DEF CollectorHandle
    <3> HIDE DEF more, scans
    <3> QED BY <1>1, <1>2, <2>1, <3>1, SetTextRight DEF more
  <2>2. CASE entry.option = "--count"
    <3>1. scans = SetCount(s, entry.value)
      BY <2>2 DEF CollectorHandle
    <3> HIDE DEF more, scans
    <3> QED BY <1>1, <1>2, <2>2, <3>1, SetTextRight DEF more
  <2>3. CASE entry.option = "--timeout"
    <3>1. scans = SetTimeout(s, entry.value)
      BY <2>3 DEF CollectorHandle
    <3> HIDE DEF more, scans
    <3> QED BY <1>1, <1>2, <2>3, <3>1, SetTextRight DEF more
  <2>4. CASE entry.option = "--proto"
    <3>1. scans = SetListenProtocol(s, entry.value)
      BY <2>4 DEF CollectorHandle
    <3> HIDE DEF more, scans
    <3> QED BY <1>1, <1>2, <2>4, <3>1, SetListenProtocolRight DEF more
  <2> QED BY <2>1, <2>2, <2>3, <2>4 DEF CollectorOptionNames
<1> HIDE DEF more, scans
<1>5. \A next \in scans : CollectorScanned(more, next)
  BY <1>1, <1>3, <1>4 DEF CollectorScanned
<1> QED BY <1>4, <1>5 DEF more, scans

\* addPositional() of the collector.
LEMMA CollectorPositionalRight ==
    ASSUME NEW line \in Lines, NEW entry \in Entries, NEW s, CollectorScanned(line, s),
           entry.option = "bare"
    PROVE  /\ CollectorPositional(s, entry.value) = {} => ~ CollectorIsRight(Append(line, entry))
           /\ \A next \in CollectorPositional(s, entry.value) :
                 CollectorScanned(Append(line, entry), next)
<1> DEFINE more == Append(line, entry)
           counted == [s EXCEPT !.positional = @ + 1]
           scans == CollectorPositional(s, entry.value)
<1>1. /\ CollectorTexts(line, s)
      /\ s = [listen |-> s.listen, countText |-> s.countText, timeoutText |-> s.timeoutText,
              protocol |-> s.protocol, positional |-> s.positional]
      /\ s.positional = Cardinality(With(line, "bare")) /\ s.positional =< 3
  BY DEF CollectorScanned, CollectorTexts
<1>2. counted = [listen |-> s.listen, countText |-> s.countText, timeoutText |-> s.timeoutText,
                 protocol |-> s.protocol, positional |-> s.positional + 1]
  BY <1>1
<1> HIDE DEF counted
<1>3. CollectorTexts(line, counted) /\ counted.positional = s.positional + 1
  BY <1>1, <1>2 DEF CollectorTexts
<1>4. /\ Cardinality(With(more, "bare")) = BarePlace(line)
      /\ BarePlace(line) = s.positional + 1
      /\ s.positional \in Nat
  <2>1. Cardinality(With(more, "bare")) = BarePlace(line)
    BY ValuesMore
  <2>2. BarePlace(line) = s.positional + 1
    BY <1>1 DEF BarePlace
  <2>3. s.positional \in Nat
    BY <1>1, LinePlaces, FS_CardinalityType
  <2> QED BY <2>1, <2>2, <2>3
<1>5. /\ scans = {} => ~ CollectorIsRight(more)
      /\ \A next \in scans : /\ CollectorTexts(more, next) /\ next.positional = s.positional + 1
                            /\ s.positional < 3
  <2>1. CASE s.positional = 0
    <3>1. scans = SetListen(counted, entry.value)
      BY <2>1 DEF CollectorPositional, counted
    <3>2. GivesValue(line, entry, "--listen")
      BY <1>4, <2>1 DEF GivesValue, PlaceNames
    <3> HIDE DEF more, scans
    <3> QED BY <1>3, <2>1, <3>1, <3>2, SetTextRight DEF more
  <2>2. CASE s.positional = 1
    <3>1. scans = SetCount(counted, entry.value)
      BY <2>2 DEF CollectorPositional, counted
    <3>2. GivesValue(line, entry, "--count")
      BY <1>4, <2>2 DEF GivesValue, PlaceNames
    <3> HIDE DEF more, scans
    <3> QED BY <1>3, <2>2, <3>1, <3>2, SetTextRight DEF more
  <2>3. CASE s.positional = 2
    <3>1. scans = SetTimeout(counted, entry.value)
      BY <2>3 DEF CollectorPositional, counted
    <3>2. GivesValue(line, entry, "--timeout")
      BY <1>4, <2>3 DEF GivesValue, PlaceNames
    <3> HIDE DEF more, scans
    <3> QED BY <1>3, <2>3, <3>1, <3>2, SetTextRight DEF more
  <2>4. CASE s.positional = 3
    <3>1. scans = {}
      BY <2>4 DEF CollectorPositional
    <3>2. \A o \in CollectorOptionNames : ~ GivesValue(line, entry, o)
      BY <1>4, <2>4 DEF GivesValue, CollectorOptionNames
    <3>3. ~ CollectorIsRight(more)
      BY <3>2, NoOption
    <3> HIDE DEF more, scans
    <3> QED BY <3>1, <3>3
  <2> QED BY <1>1, <1>4, <2>1, <2>2, <2>3, <2>4
<1> HIDE DEF more, scans
<1>6. \A next \in scans : CollectorScanned(more, next)
  BY <1>4, <1>5 DEF CollectorScanned
<1> QED BY <1>5, <1>6 DEF more, scans

\* readCounts() and buildRun() of the collector.
LEMMA CollectorRunRight ==
    ASSUME NEW line \in Lines, NEW s, CollectorScanned(line, s)
    PROVE  /\ CollectorRun(s) = {} => ~ CollectorIsRight(line)
           /\ CollectorRun(s) # {} => CollectorIsRight(line) /\ CollectorRun(s) = {CollectorMeans(line)}
<1>1. /\ s.listen = TextsFor(line, "--listen")
      /\ s.countText = TextsFor(line, "--count")
      /\ s.timeoutText = TextsFor(line, "--timeout")
      /\ s.protocol = {Named(text, ProtocolOf) : text \in TextsFor(line, "--proto")}
      /\ CollectorSound(line)
  BY DEF CollectorScanned, CollectorTexts
<1>2. "--listen" \in CollectorOptionNames /\ "--count" \in CollectorOptionNames
      /\ "--timeout" \in CollectorOptionNames /\ "--proto" \in CollectorOptionNames
  BY DEF CollectorOptionNames
<1>3. \A o \in CollectorOptionNames : IsFiniteSet(ValuesFor(line, o))
  <2>1. DOMAIN line = 1..Len(line) /\ Len(line) \in Nat
    BY LenProperties DEF Lines
  <2>2. IsFiniteSet(DOMAIN line)
    BY <2>1, FS_Interval
  <2>3. \A o : ValuesFor(line, o) \subseteq DOMAIN line
    BY DEF ValuesFor
  <2> QED BY <2>2, <2>3, FS_Subset
<1>4. \A o \in CollectorOptionNames : Cardinality(ValuesFor(line, o)) =< 1
  BY <1>1, <1>3, FewElements DEF CollectorSound
<1>5. \A o \in CollectorOptionNames : TextsFor(line, o) = {} \/ \E text : TextsFor(line, o) = {text}
  <2> SUFFICES ASSUME NEW o \in CollectorOptionNames, TextsFor(line, o) # {}
               PROVE  \E text : TextsFor(line, o) = {text}
    OBVIOUS
  <2>1. PICK i : i \in ValuesFor(line, o)
    BY DEF TextsFor
  <2>2. ValuesFor(line, o) = {i}
    BY <1>1, <2>1 DEF CollectorSound, AtMostOne
  <2>3. TextsFor(line, o) = {line[i].value}
    BY <2>2 DEF TextsFor
  <2> QED BY <2>3
<1>6. CollectorIsRight(line) <=>
         /\ TextsFor(line, "--listen") # {}
         /\ \A text \in TextsFor(line, "--listen") : IsEndpoint(text)
         /\ \A text \in TextsFor(line, "--count") \cup TextsFor(line, "--timeout") : IsPositive(text)
  BY <1>1, <1>4 DEF CollectorIsRight, CollectorSound, TextsFor
<1>7. CollectorRun(s) # {} <=> CollectorIsRight(line)
  BY <1>1, <1>6 DEF CollectorRun
<1>8. ASSUME CollectorRun(s) # {} PROVE CollectorRun(s) = {CollectorMeans(line)}
  <2> DEFINE endpoint == Value(TextsFor(line, "--listen"), Empty)
             protocol == Named(Value(TextsFor(line, "--proto"), <<"tcp">>), ProtocolOf)
             every == Named(Value(TextsFor(line, "--count"), <<"100">>), NumberOf)
             timeout == Named(Value(TextsFor(line, "--timeout"), <<"10">>), NumberOf)
             number(texts, default) == IF texts = {} THEN default ELSE Named(Value(texts, Empty), NumberOf)
  <2>1. CollectorRun(s) = {[host |-> HostOf(endpoint), port |-> PortOf(endpoint),
                            protocol |-> Value(s.protocol, "tcp"),
                            every |-> number(s.countText, 100), timeout |-> number(s.timeoutText, 10)]}
    BY <1>1, <1>8 DEF CollectorRun
  <2>2. CollectorMeans(line) = [host |-> HostOf(endpoint), port |-> PortOf(endpoint),
                                protocol |-> protocol, every |-> every, timeout |-> timeout]
    BY DEF CollectorMeans, TextsFor
  <2>3. \A word, words : Named(<<word>>, words) = words[word]
    BY DEF Named
  <2>4. \A text, default : Value({text}, default) = text
    BY DEF Value
  <2>5. \A default : Value({}, default) = default
    BY DEF Value
  <2>6. Value(s.protocol, "tcp") = protocol
    <3>1. CASE TextsFor(line, "--proto") = {}
      <4>1. s.protocol = {}
        BY <1>1, <3>1
      <4>2. protocol = Named(<<"tcp">>, ProtocolOf)
        BY <2>5, <3>1
      <4>3. protocol = "tcp"
        BY <2>3, <4>2, CollectorOptionsAssumption
      <4> QED BY <2>5, <4>1, <4>3
    <3>2. CASE TextsFor(line, "--proto") # {}
      <4>1. PICK text : TextsFor(line, "--proto") = {text}
        BY <1>2, <1>5, <3>2
      <4>2. s.protocol = {Named(text, ProtocolOf)}
        BY <1>1, <4>1
      <4> QED BY <2>4, <4>1, <4>2
    <3> QED BY <3>1, <3>2
  <2>7. number(s.countText, 100) = every
    <3>1. CASE s.countText = {}
      <4>1. every = Named(<<"100">>, NumberOf)
        BY <1>1, <2>5, <3>1
      <4> QED BY <2>3, <3>1, <4>1, CollectorOptionsAssumption
    <3>2. CASE s.countText # {}
      <4>1. PICK text : s.countText = {text}
        BY <1>1, <1>2, <1>5, <3>2
      <4>2. Value(s.countText, Empty) = text
        BY <2>4, <4>1
      <4>3. Value(TextsFor(line, "--count"), <<"100">>) = text
        BY <1>1, <2>4, <4>1
      <4>4. every = Named(text, NumberOf)
        BY <4>3
      <4>5. number(s.countText, 100) = Named(text, NumberOf)
        BY <3>2, <4>2
      <4> QED BY <4>4, <4>5
    <3> QED BY <3>1, <3>2
  <2>8. number(s.timeoutText, 10) = timeout
    <3>1. CASE s.timeoutText = {}
      <4>1. timeout = Named(<<"10">>, NumberOf)
        BY <1>1, <2>5, <3>1
      <4> QED BY <2>3, <3>1, <4>1, CollectorOptionsAssumption
    <3>2. CASE s.timeoutText # {}
      <4>1. PICK text : s.timeoutText = {text}
        BY <1>1, <1>2, <1>5, <3>2
      <4>2. Value(s.timeoutText, Empty) = text
        BY <2>4, <4>1
      <4>3. Value(TextsFor(line, "--timeout"), <<"10">>) = text
        BY <1>1, <2>4, <4>1
      <4>4. timeout = Named(text, NumberOf)
        BY <4>3
      <4>5. number(s.timeoutText, 10) = Named(text, NumberOf)
        BY <3>2, <4>2
      <4> QED BY <4>4, <4>5
    <3> QED BY <3>1, <3>2
  <2> HIDE DEF endpoint, protocol, every, timeout, number
  <2> QED BY <2>1, <2>2, <2>6, <2>7, <2>8
<1> QED BY <1>7, <1>8

-----------------------------------------------------------------------------
(* The command line from its first option to its last.                      *)

\* Before the first option.
LEMMA NothingScanned == AppScanned(<< >>, AppScan) /\ CollectorScanned(<< >>, CollectorScan)
<1>1. DOMAIN << >> = {} /\ << >> \in Lines
  BY EmptySeq DEF Lines
<1>2. \A o : With(<< >>, o) = {} /\ ValuesFor(<< >>, o) = {} /\ TextsFor(<< >>, o) = {}
  BY <1>1 DEF With, ValuesFor, TextsFor
<1>3. Places(<< >>) = {} /\ AppFiles(<< >>) = {} /\ AppLevels(<< >>) = {} /\ LevelsOf(<< >>) = {}
  BY <1>2 DEF Places, AppFiles, AppBareFile, AppLevels, LevelsOf
<1>4. Cardinality({}) = 0
  BY FS_EmptySet
<1>5. NoMistake(<< >>)
  BY <1>1, <1>2, <1>3 DEF NoMistake, AtMostOne
<1>6. InPlace(<< >>, << >>)
  <2>1. << >> \in Seq(AppTargets) /\ Len(<< >>) = 0
    BY EmptySeq
  <2>2. 1..0 = {}
    OBVIOUS
  <2> QED BY <1>3, <1>4, <2>1, <2>2 DEF InPlace
<1>7. AppScanned(<< >>, AppScan)
  BY <1>2, <1>3, <1>5, <1>6 DEF AppScanned, AppScan, OfLastSocket, IsLast
<1>8. CollectorSound(<< >>)
  BY <1>1, <1>2 DEF CollectorSound, AtMostOne
<1>9. CollectorTexts(<< >>, CollectorScan)
  BY <1>2, <1>8 DEF CollectorTexts, CollectorScan
<1>10. CollectorScan.positional = 0
  BY DEF CollectorScan
<1>11. Cardinality(With(<< >>, "bare")) = 0
  BY <1>2, <1>4
<1>12. CollectorScanned(<< >>, CollectorScan)
  BY <1>9, <1>10, <1>11 DEF CollectorScanned
<1> QED BY <1>7, <1>12

\* handle() and addPositional() of the application.
LEMMA AppTakesRight ==
    ASSUME NEW line \in Lines, NEW entry \in Entries, NEW s, AppScanned(line, s), NEW scans,
           \/ entry.option = "bare" /\ scans = AppPositional(s, entry.value)
           \/ entry.option \in AppOptionNames /\ scans = AppHandle(entry.option, s, entry.value)
    PROVE  /\ scans = {} => ~ AppIsRight(Append(line, entry))
           /\ \A next \in scans : AppScanned(Append(line, entry), next)
<1>1. s.targets = << >> <=> NoTarget(line)
  <2>1. NoMistake(line) /\ InPlace(line, s.targets)
    BY DEF AppScanned
  <2>2. s.targets \in Seq(AppTargets) /\ Len(s.targets) = Cardinality(Places(line))
    BY <2>1 DEF InPlace
  <2>3. s.targets = << >> <=> Len(s.targets) = 0
    BY <2>2, EmptySeq
  <2>4. IsFiniteSet(Places(line))
    BY LinePlaces
  <2>5. Cardinality(Places(line)) = 0 <=> Places(line) = {}
    BY <2>4, FS_EmptySet
  <2>6. Places(line) = {} <=> NoTarget(line)
    BY <2>1, NoTargetNoPlace DEF NoMistake
  <2> QED BY <2>2, <2>3, <2>5, <2>6
<1>2. CASE entry.option = "bare" /\ scans = AppPositional(s, entry.value)
  <2>1. CASE NoTarget(line)
    <3>1. GivesFile(line, entry) /\ scans = AddFile(s, entry.value)
      BY <1>1, <1>2, <2>1 DEF GivesFile, AppPositional
    <3> QED BY <3>1, AddFileRight
  <2>2. CASE ~ NoTarget(line)
    <3>1. GivesLevel(line, entry) /\ scans = SetLevel(s, entry.value)
      BY <1>1, <1>2, <2>2 DEF GivesLevel, AppPositional
    <3> QED BY <3>1, SetLevelRight
  <2> QED BY <2>1, <2>2
<1>3. CASE entry.option \in AppOptionNames /\ scans = AppHandle(entry.option, s, entry.value)
  <2>1. CASE entry.option = "--file"
    <3>1. GivesFile(line, entry) /\ scans = AddFile(s, entry.value)
      BY <1>3, <2>1 DEF GivesFile, AppHandle
    <3> QED BY <3>1, AddFileRight
  <2>2. CASE entry.option = "--socket"
    <3>1. scans = AddSocket(s, entry.value)
      BY <1>3, <2>2 DEF AppHandle
    <3> QED BY <2>2, <3>1, AddSocketRight
  <2>3. CASE entry.option = "--proto"
    <3>1. scans = SetTargetProtocol(s, entry.value)
      BY <1>3, <2>3 DEF AppHandle
    <3> QED BY <2>3, <3>1, SetTargetProtocolRight
  <2>4. CASE entry.option = "--level"
    <3>1. GivesLevel(line, entry) /\ scans = SetLevel(s, entry.value)
      BY <1>3, <2>4 DEF GivesLevel, AppHandle
    <3> QED BY <3>1, SetLevelRight
  <2> QED BY <1>3, <2>1, <2>2, <2>3, <2>4 DEF AppOptionNames
<1> QED BY <1>2, <1>3

\* An option nobody knows is right in neither program.
LEMMA UnknownIsWrong ==
    ASSUME NEW line \in Lines, NEW entry \in Entries, entry.option = "?"
    PROVE  ~ AppIsRight(Append(line, entry)) /\ ~ CollectorIsRight(Append(line, entry))
<1>1. ~ AppIsRight(Append(line, entry))
  <2> DEFINE more == Append(line, entry)
             n == Len(line) + 1
  <2>1. n \in DOMAIN more /\ more[n].option = "?"
    BY OneMoreEntry
  <2> HIDE DEF more, n
  <2> QED BY <2>1 DEF AppIsRight, AppOptionNames, more
<1>2. \A o \in CollectorOptionNames : ~ GivesValue(line, entry, o)
  BY DEF GivesValue, CollectorOptionNames
<1> QED BY <1>1, <1>2, NoOption

\* What was scanned is what the line says so far, and so is what is asked.
Scanned ==
    /\ program \in {"app", "collector", "library"}
    /\ given \in Lines
    /\ phase = "scan" =>
          /\ outcome = "none" /\ program # "library"
          /\ IsApp => AppScanned(given, scan)
          /\ IsCollector => CollectorScanned(given, scan)
    /\ outcome = "Usage" => phase = "exited"
    /\ RunsAsAsked

\* One more option or argument.
LEMMA TakesHolds ==
    ASSUME Scanned, Scanning, NEW option, NEW text, NEW scans,
           Takes(option, text, scans), [option |-> option, value |-> text] \in Entries,
           /\ scans = {} =>
                 /\ IsApp => ~ AppIsRight(Append(given, [option |-> option, value |-> text]))
                 /\ IsCollector => ~ CollectorIsRight(Append(given, [option |-> option, value |-> text]))
           /\ \A next \in scans :
                 /\ IsApp => AppScanned(Append(given, [option |-> option, value |-> text]), next)
                 /\ IsCollector => CollectorScanned(Append(given, [option |-> option, value |-> text]), next)
    PROVE  Scanned'
<1> DEFINE more == Append(given, [option |-> option, value |-> text])
<1>1. /\ phase = "scan" /\ program' = program /\ asked' = asked
      /\ program \in {"app", "collector"} /\ given \in Lines /\ outcome = "none"
  BY DEF Scanned, Scanning
<1>2. given' = more /\ more \in Lines
  BY <1>1, OneMoreEntry DEF Takes
<1> HIDE DEF more
<1>3. CASE scans # {} /\ scan' \in scans /\ UNCHANGED <<phase, outcome>>
  <2>1. /\ IsApp => AppScanned(more, scan')
        /\ IsCollector => CollectorScanned(more, scan')
    BY <1>3 DEF more
  <2> QED BY <1>1, <1>2, <1>3, <2>1 DEF Scanned, RunsAsAsked, IsApp, IsCollector
<1>4. CASE scans = {} /\ Exit("Usage")
  <2>1. /\ IsApp => ~ AppIsRight(more)
        /\ IsCollector => ~ CollectorIsRight(more)
    BY <1>4 DEF more
  <2> QED BY <1>1, <1>2, <1>4, <2>1 DEF Scanned, RunsAsAsked, IsApp, IsCollector, Exit
<1> QED BY <1>3, <1>4 DEF Takes

\* Every argument there can be, and the end of the line.
LEMMA ScanHolds == ASSUME Scanned, Scan PROVE Scanned'
<1>1. /\ phase = "scan" /\ program' = program
      /\ program \in {"app", "collector"} /\ given \in Lines /\ outcome = "none"
      /\ IsApp => AppScanned(given, scan)
      /\ IsCollector => CollectorScanned(given, scan)
  BY DEF Scanned, Scan, EndOptions, BadOption, Help, EndOfArguments, Positional, Option, Scanning
<1>2. CASE EndOptions
  BY <1>1, <1>2 DEF EndOptions, Scanning, Scanned, RunsAsAsked, IsApp, IsCollector
<1>3. CASE Help
  BY <1>1, <1>3 DEF Help, Exit, Scanning, scanVars, Scanned, RunsAsAsked, IsApp, IsCollector
<1>4. CASE BadOption
  <2>1. [option |-> "?", value |-> Empty] \in Entries
    BY DEF Entries
  <2>2. Scanning /\ Takes("?", Empty, {})
    BY <1>4 DEF BadOption
  <2>3. LET more == Append(given, [option |-> "?", value |-> Empty])
        IN  ~ AppIsRight(more) /\ ~ CollectorIsRight(more)
    BY <1>1, <2>1, UnknownIsWrong
  <2> QED BY <2>1, <2>2, <2>3, TakesHolds
<1>5. ASSUME NEW text \in Texts, Positional(text) PROVE Scanned'
  <2> DEFINE entry == [option |-> "bare", value |-> text]
             scans == IF IsApp THEN AppPositional(scan, text) ELSE CollectorPositional(scan, text)
  <2>1. Scanning /\ Takes("bare", text, scans)
    BY <1>5 DEF Positional
  <2>2. entry \in Entries /\ entry.option = "bare" /\ entry.value = text
    BY DEF Entries
  <2>3. IsApp => /\ scans = {} => ~ AppIsRight(Append(given, entry))
                 /\ \A next \in scans : AppScanned(Append(given, entry), next)
    <3> HIDE DEF entry
    <3> QED BY <1>1, <2>2, AppTakesRight
  <2>4. IsCollector => /\ scans = {} => ~ CollectorIsRight(Append(given, entry))
                       /\ \A next \in scans : CollectorScanned(Append(given, entry), next)
    <3>1. IsCollector => scans = CollectorPositional(scan, text)
      BY DEF IsApp, IsCollector
    <3> HIDE DEF entry, scans
    <3> QED BY <1>1, <2>2, <3>1, CollectorPositionalRight
  <2> HIDE DEF scans
  <2> QED BY <2>1, <2>2, <2>3, <2>4, TakesHolds
<1>6. ASSUME NEW text \in Texts,
             NEW option \in IF IsApp THEN AppOptionNames ELSE CollectorOptionNames,
             Option(option, text)
      PROVE  Scanned'
  <2> DEFINE entry == [option |-> option, value |-> text]
             scans == IF IsApp THEN AppHandle(option, scan, text) ELSE CollectorHandle(option, scan, text)
  <2>1. Scanning /\ Takes(option, text, scans)
    BY <1>6 DEF Option
  <2>2. entry \in Entries /\ entry.option = option /\ entry.value = text
    BY DEF Entries
  <2>3. IsApp => /\ scans = {} => ~ AppIsRight(Append(given, entry))
                 /\ \A next \in scans : AppScanned(Append(given, entry), next)
    <3>1. IsApp => option \in AppOptionNames /\ scans = AppHandle(option, scan, text)
      OBVIOUS
    <3> HIDE DEF entry, scans
    <3> QED BY <1>1, <2>2, <3>1, AppTakesRight
  <2>4. IsCollector => /\ scans = {} => ~ CollectorIsRight(Append(given, entry))
                       /\ \A next \in scans : CollectorScanned(Append(given, entry), next)
    <3>1. IsCollector => option \in CollectorOptionNames /\ scans = CollectorHandle(option, scan, text)
      BY DEF IsApp, IsCollector
    <3> HIDE DEF entry, scans
    <3> QED BY <1>1, <2>2, <3>1, CollectorHandleRight
  <2> HIDE DEF scans
  <2> QED BY <2>1, <2>2, <2>3, <2>4, TakesHolds
<1>7. CASE EndOfArguments
  <2> DEFINE runs == IF IsApp THEN AppRun(scan) ELSE CollectorRun(scan)
  <2>1. /\ given' = given
        /\ \/ runs # {} /\ phase' = "parsed" /\ asked' = runs /\ outcome' = outcome
           \/ runs = {} /\ phase' = "exited" /\ outcome' = "Usage"
    BY <1>7 DEF EndOfArguments, Exit, scanVars
  <2>2. IsApp => /\ runs = {} => ~ AppIsRight(given)
                 /\ runs # {} => AppIsRight(given) /\ runs = {AppMeans(given)}
    BY <1>1, AppRunRight
  <2>3. IsCollector => /\ runs = {} => ~ CollectorIsRight(given)
                       /\ runs # {} => CollectorIsRight(given) /\ runs = {CollectorMeans(given)}
    <3>1. IsCollector => runs = CollectorRun(scan)
      BY DEF IsApp, IsCollector
    <3> HIDE DEF runs
    <3> QED BY <1>1, <3>1, CollectorRunRight
  <2> HIDE DEF runs
  <2> QED BY <1>1, <2>1, <2>2, <2>3 DEF Scanned, RunsAsAsked, IsApp, IsCollector
<1> QED BY <1>2, <1>3, <1>4, <1>5, <1>6, <1>7 DEF Scan

\* Whatever comes after the command line says nothing of it any more.
LEMMA OpenHolds == ASSUME Scanned, Open PROVE Scanned'
<1>1. /\ program' = program /\ given' \in {given, << >>}
      /\ phase \in {"parsed", "open", "try"}
      /\ phase' \in {"open", "try", "running", "returned"}
      /\ outcome' \in {outcome, Failure[program]}
  BY DEF Open, CreateLogger, OpenReceiver, OpenFile, UnknownProtocol, Resolve, MakeSocket, Refused,
         ConnectUdp, ConnectTcp, Bind, NoneLeft, AllOpen, ReturnsNull, Opening, Trying, Keeps, IsNext,
         scanVars, openVars
<1>2. program \in {"app", "collector", "library"} /\ given \in Lines /\ outcome # "Usage"
  BY <1>1 DEF Scanned
<1>3. Failure[program] # "Usage"
  BY <1>2 DEF Failure
<1>4. << >> \in Lines
  BY EmptySeq DEF Lines
<1> QED BY <1>1, <1>2, <1>3, <1>4 DEF Scanned, RunsAsAsked

\* Every step of either program.
LEMMA ScannedHolds == ASSUME Scanned, [Next]_vars PROVE Scanned'
<1>1. CASE Scan
  BY <1>1, ScanHolds
<1>2. CASE Open
  BY <1>2, OpenHolds
<1>3. CASE Throw
  <2>1. << >> \in Lines
    BY EmptySeq DEF Lines
  <2> QED BY <1>3, <2>1 DEF Throw, Exit, Scanned, RunsAsAsked
<1>4. CASE UNCHANGED vars
  BY <1>4 DEF vars, scanVars, openVars, Scanned, RunsAsAsked, IsApp, IsCollector
<1> QED BY <1>1, <1>2, <1>3, <1>4 DEF Next, Done

\* A command line is run as it reads as a whole, and refused only if it is wrong: the
\* handlers, which see an option at a time and edit the last target, agree with a
\* reading of the whole line, for every line of any length (both Options.cpp).
THEOREM RunsAsItReads == Spec => []RunsAsAsked
<1>1. Init => Scanned
  <2> SUFFICES ASSUME Init PROVE Scanned
    OBVIOUS
  <2>1. << >> \in Lines
    BY EmptySeq DEF Lines
  <2> QED BY <2>1, NothingScanned DEF Init, Scanned, RunsAsAsked, IsApp, IsCollector
<1>2. Scanned /\ [Next]_vars => Scanned'
  BY ScannedHolds
<1>3. Scanned => RunsAsAsked
  BY DEF Scanned
<1> QED BY <1>1, <1>2, <1>3, PTL DEF Spec
=============================================================================

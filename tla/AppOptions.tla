----------------------------- MODULE AppOptions -----------------------------
(***************************************************************************)
(* The handlers of app/core/Options.cpp.  Each takes what was scanned so   *)
(* far and a text, and returns the next scan in a set, which is empty for  *)
(* a usage error.                                                          *)
(***************************************************************************)
EXTENDS Endpoint

AppOptionNames == {"--file", "--socket", "--proto", "--level"}

FileTarget(path) == [kind |-> "file", path |-> path]
SocketTarget(host, port, protocol) ==
    [kind |-> "socket", host |-> host, port |-> port, protocol |-> protocol]

\* SScan: lastSocket is an index of targets, 0 for none, and a text that is not
\* there an empty set.
AppScan == [targets |-> << >>, lastSocket |-> 0, levelText |-> {}, protocolGiven |-> FALSE]

AddFile(scan, path) ==
    IF path = Empty THEN {} ELSE {[scan EXCEPT !.targets = Append(@, FileTarget(path))]}

\* Seeded fault: --proto stays with the first socket.
AddSocketKeepsFirst(scan, text) ==
    IF ~ IsEndpoint(text) \/ HostOf(text) = Empty THEN {}
    ELSE {[scan EXCEPT !.targets = Append(@, SocketTarget(HostOf(text), PortOf(text), "tcp")),
                       !.lastSocket = IF @ = 0 THEN Len(scan.targets) + 1 ELSE @,
                       !.protocolGiven = FALSE]}

AddSocket(scan, text) ==
    IF ~ IsEndpoint(text) \/ HostOf(text) = Empty THEN {}
    ELSE {[scan EXCEPT !.targets = Append(@, SocketTarget(HostOf(text), PortOf(text), "tcp")),
                       !.lastSocket = Len(scan.targets) + 1,
                       !.protocolGiven = FALSE]}

SetTargetProtocol(scan, text) ==
    IF scan.lastSocket = 0 \/ scan.protocolGiven \/ ~ Names(text, ProtocolOf) THEN {}
    ELSE {[scan EXCEPT !.targets[scan.lastSocket].protocol = Named(text, ProtocolOf),
                       !.protocolGiven = TRUE]}

SetLevel(scan, text) ==
    IF scan.levelText # {} THEN {} ELSE {[scan EXCEPT !.levelText = {text}]}

AppHandle(option, scan, text) ==
    CASE option = "--file" -> AddFile(scan, text)
      [] option = "--socket" -> AddSocket(scan, text)
      [] option = "--proto" -> SetTargetProtocol(scan, text)
      [] option = "--level" -> SetLevel(scan, text)

AppPositional(scan, text) ==
    IF scan.targets = << >> THEN AddFile(scan, text) ELSE SetLevel(scan, text)

\* buildRun(): the SRun, in a set as well.
AppRun(scan) ==
    IF scan.targets = << >> \/ \E text \in scan.levelText : ~ Names(text, LevelOf) THEN {}
    ELSE {[targets |-> scan.targets,
           level |-> IF scan.levelText = {} THEN LevelOf["INFO"]
                     ELSE Named(CHOOSE text \in scan.levelText : TRUE, LevelOf)]}

-----------------------------------------------------------------------------
(* The reference: what a command line means (README.md:126-134), told from  *)
(* all of it at once.  given is the sequence of its options, each with its  *)
(* value, "bare" being the option of an argument without one.               *)

With(given, option) == {i \in DOMAIN given : given[i].option = option}

\* An argument without an option is a file if nothing names a target before it.
AppBareFile(given) ==
    {i \in With(given, "bare") : \A j \in 1..(i - 1) : given[j].option \in {"--proto", "--level"}}

AppFiles(given) == With(given, "--file") \cup AppBareFile(given)
AppLevels(given) == With(given, "--level") \cup (With(given, "bare") \ AppBareFile(given))

\* Where the targets are.
Places(given) == AppFiles(given) \cup With(given, "--socket")

\* The --proto that belong to the --socket at i: those before the next one.
ProtocolsOf(given, i) ==
    {j \in With(given, "--proto") :
        i < j /\ ~ \E k \in With(given, "--socket") : i < k /\ k < j}

AppIsRight(given) ==
    /\ \A i \in DOMAIN given : given[i].option \in AppOptionNames \cup {"bare"}
    /\ Places(given) # {}
    /\ \A i \in AppFiles(given) : given[i].value # Empty
    /\ \A i \in With(given, "--socket") :
          /\ IsEndpoint(given[i].value) /\ HostOf(given[i].value) # Empty
          /\ Cardinality(ProtocolsOf(given, i)) =< 1
    /\ \A j \in With(given, "--proto") :
          /\ Names(given[j].value, ProtocolOf)
          /\ \E i \in With(given, "--socket") : i < j
    /\ Cardinality(AppLevels(given)) =< 1
    /\ \A i \in AppLevels(given) : Names(given[i].value, LevelOf)

\* How many of the places are not behind i.
Rank(places, i) == Cardinality({j \in places : j =< i})

TargetAt(given, i) ==
    LET text == given[i].value
        protocols == ProtocolsOf(given, i)
    IN  IF i \in AppFiles(given) THEN FileTarget(text)
        ELSE SocketTarget(HostOf(text), PortOf(text),
                IF protocols = {} THEN "tcp"
                ELSE Named(given[CHOOSE j \in protocols : TRUE].value, ProtocolOf))

AppMeans(given) ==
    LET places == Places(given)
        nth(n) == CHOOSE i \in places : Rank(places, i) = n
        levels == AppLevels(given)
    IN  [targets |-> [n \in 1..Cardinality(places) |-> TargetAt(given, nth(n))],
         level |-> IF levels = {} THEN LevelOf["INFO"]
                   ELSE Named(given[CHOOSE i \in levels : TRUE].value, LevelOf)]
=============================================================================

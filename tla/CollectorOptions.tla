-------------------------- MODULE CollectorOptions --------------------------
(***************************************************************************)
(* The handlers of collector/core/Options.cpp, in the form of AppOptions.  *)
(***************************************************************************)
EXTENDS Endpoint

\* What the defaults of the usage text stand for.
ASSUME CollectorOptionsAssumption ==
    ProtocolOf["tcp"] = "tcp" /\ NumberOf["100"] = 100 /\ NumberOf["10"] = 10

CollectorOptionNames == {"--listen", "--count", "--timeout", "--proto"}

\* SScan
CollectorScan ==
    [listen |-> {}, countText |-> {}, timeoutText |-> {}, protocol |-> {}, positional |-> 0]

\* setListen(), setCount() and setTimeout(), none of which may come twice.
SetListen(scan, text) ==
    IF scan.listen # {} THEN {} ELSE {[scan EXCEPT !.listen = {text}]}
SetCount(scan, text) ==
    IF scan.countText # {} THEN {} ELSE {[scan EXCEPT !.countText = {text}]}
SetTimeout(scan, text) ==
    IF scan.timeoutText # {} THEN {} ELSE {[scan EXCEPT !.timeoutText = {text}]}

SetListenProtocol(scan, text) ==
    IF scan.protocol # {} \/ ~ Names(text, ProtocolOf) THEN {}
    ELSE {[scan EXCEPT !.protocol = {Named(text, ProtocolOf)}]}

CollectorHandle(option, scan, text) ==
    CASE option = "--listen" -> SetListen(scan, text)
      [] option = "--count" -> SetCount(scan, text)
      [] option = "--timeout" -> SetTimeout(scan, text)
      [] option = "--proto" -> SetListenProtocol(scan, text)

\* addPositional(): the place is counted, whatever was given by name.
CollectorPositional(scan, text) ==
    LET next == [scan EXCEPT !.positional = @ + 1]
    IN  CASE scan.positional = 0 -> SetListen(next, text)
          [] scan.positional = 1 -> SetCount(next, text)
          [] scan.positional = 2 -> SetTimeout(next, text)
          [] OTHER -> {}

IsPositive(text) == Names(text, NumberOf) /\ Named(text, NumberOf) > 0

Value(texts, default) == IF texts = {} THEN default ELSE CHOOSE text \in texts : TRUE

\* buildRun() and readCounts(): 100 messages and 10 seconds unless said otherwise.
CollectorRun(scan) ==
    IF \/ scan.listen = {}
       \/ \E text \in scan.listen : ~ IsEndpoint(text)
       \/ \E text \in scan.countText \cup scan.timeoutText : ~ IsPositive(text)
    THEN {}
    ELSE LET address == Value(scan.listen, Empty)
             number(texts, default) ==
                 IF texts = {} THEN default ELSE Named(Value(texts, Empty), NumberOf)
         IN  {[host |-> HostOf(address), port |-> PortOf(address),
               protocol |-> Value(scan.protocol, "tcp"),
               every |-> number(scan.countText, 100),
               timeout |-> number(scan.timeoutText, 10)]}

-----------------------------------------------------------------------------
(* The reference: what a command line means, told from all of it at once.   *)

\* The values that are given for an option, by its name or by their place.
PlaceNames == <<"--listen", "--count", "--timeout">>

ValuesFor(given, option) ==
    LET bare == {i \in DOMAIN given : given[i].option = "bare"}
        place(i) == Cardinality({j \in bare : j =< i})
    IN  {i \in DOMAIN given : given[i].option = option}
        \cup {i \in bare : place(i) =< 3 /\ PlaceNames[place(i)] = option}

CollectorIsRight(given) ==
    LET texts(option) == {given[i].value : i \in ValuesFor(given, option)}
    IN  /\ \A i \in DOMAIN given : \E o \in CollectorOptionNames : i \in ValuesFor(given, o)
        /\ \A o \in CollectorOptionNames : Cardinality(ValuesFor(given, o)) =< 1
        /\ texts("--listen") # {} /\ \A t \in texts("--listen") : IsEndpoint(t)
        /\ \A t \in texts("--count") \cup texts("--timeout") : IsPositive(t)
        /\ \A t \in texts("--proto") : Names(t, ProtocolOf)

CollectorMeans(given) ==
    LET says(option, default) == Value({given[i].value : i \in ValuesFor(given, option)}, default)
        address == says("--listen", Empty)
    IN  [host |-> HostOf(address), port |-> PortOf(address),
         protocol |-> Named(says("--proto", <<"tcp">>), ProtocolOf),
         every |-> Named(says("--count", <<"100">>), NumberOf),
         timeout |-> Named(says("--timeout", <<"10">>), NumberOf)]
=============================================================================

----------------------------- MODULE MCStartup -----------------------------
(* Command lines over eleven texts, and a host with two addresses.          *)
EXTENDS Startup, TLC

MCLevelOf == [INFO |-> 1, warn |-> 2]
MCProtocolOf == [tcp |-> "tcp", UDP |-> "udp"]

\* A port, the same with a zero, no port, too large a port, and the defaults of a collector.
MCNumberOf == "7" :> 7 @@ "07" :> 7 @@ "0" :> 0 @@ "70000" :> 70000
              @@ "10" :> 10 @@ "100" :> 100
MCNumeral == 7 :> "7"

Loopback == <<":", ":", "1">>

MCTexts == {
    Empty, <<"--">>, <<"UDP">>, <<"warn">>, <<"7">>, <<"0">>,
    <<"h", ":", "7">>, <<":", "07">>, <<"h", ":", "70000">>,
    Loopback \o <<":", "7">>, <<"[">> \o Loopback \o <<"]", ":", "7">> }

MCAnswersOf ==
    Empty :> << <<"0.0.0.0">>, <<":", ":">> >> @@ <<"h">> :> << <<"10.0.0.1">>, <<"fd", ":", ":", "1">> >>
    @@ Loopback :> <<Loopback>>

\* No target, a level out of range, and an enumerator that is no protocol.
MCCalls == {
    [targets |-> << >>, level |-> 1],
    [targets |-> <<FileTarget(<<"f">>)>>, level |-> 3],
    [targets |-> <<FileTarget(<<"f">>), SocketTarget(<<"h">>, 0, "Count")>>, level |-> 1],
    [targets |-> <<SocketTarget(<<"h">>, 0, "udp"), SocketTarget(Empty, 7, "tcp")>>, level |-> 2] }
=============================================================================

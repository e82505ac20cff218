------------------------------ MODULE Endpoint ------------------------------
(***************************************************************************)
(* common/Endpoint.hpp and the names that the options are made of          *)
(* (Text.hpp, LogLevel.cpp, SocketProtocol.cpp).  A text is the sequence   *)
(* of its pieces: brackets, colons, and the words between them.            *)
(***************************************************************************)
EXTENDS Integers, Sequences, FiniteSets

CONSTANTS
    LevelOf,        \* string2level(): the level of each word that names one,
    ProtocolOf,     \* string2protocol(), in any case of the letters
    NumberOf,       \* parseNumber(): the value of each numeral
    Numeral         \* to_string(): the numeral that is written for a value

ASSUME EndpointAssumption ==
    \A n \in DOMAIN Numeral : Numeral[n] \in DOMAIN NumberOf /\ NumberOf[Numeral[n]] = n

Empty == << >>

\* The whole text is one word of these, and what the word stands for.
Names(text, words) == Len(text) = 1 /\ text[1] \in DOMAIN words
Named(text, words) == words[text[1]]

ColonsOf(text) == {i \in DOMAIN text : text[i] = ":"}
Bracketed(text) == text # Empty /\ text[1] = "["
Closes(text) == {i \in ColonsOf(text) : i > 2 /\ text[i - 1] = "]"}

\* splitHostPort(): the first "]:" after a bracket, or the only colon, if there is one.
HasParts(text) ==
    IF Bracketed(text) THEN Closes(text) # {} ELSE \E i \in DOMAIN text : ColonsOf(text) = {i}

Cut(text) ==
    IF Bracketed(text) THEN CHOOSE i \in Closes(text) : \A j \in Closes(text) : i =< j
    ELSE CHOOSE i \in ColonsOf(text) : TRUE

HostOf(text) == IF Bracketed(text) THEN SubSeq(text, 2, Cut(text) - 2)
                ELSE SubSeq(text, 1, Cut(text) - 1)

PortTextOf(text) == SubSeq(text, Cut(text) + 1, Len(text))

\* parsePort(): a std::uint16_t but zero
PortNumbers == 1..65535
IsPort(text) == Names(text, NumberOf) /\ Named(text, NumberOf) \in PortNumbers

\* Seeded fault: an IPv6 address is written without brackets.
JoinPlainly(host, port) == host \o <<":", Numeral[port]>>

\* joinHostPort()
JoinHostPort(host, port) ==
    (IF ColonsOf(host) # {} THEN <<"[">> \o host \o <<"]">> ELSE host) \o <<":", Numeral[port]>>

\* What both parsers ask of an endpoint.
IsEndpoint(text) == HasParts(text) /\ IsPort(PortTextOf(text))
PortOf(text) == Named(PortTextOf(text), NumberOf)
=============================================================================

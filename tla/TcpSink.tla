------------------------------ MODULE TcpSink ------------------------------
(***************************************************************************)
(* Logger::TcpSink (logger/src/net/TcpSink.hpp, TcpSink.cpp): writeLine()  *)
(* sends one frame over a connection that the sink opens, gives up after a *)
(* failed send and opens again, with a pause between attempts that doubles *)
(* and with a new resolution of the host after every ResolveEvery failures *)
(* in a row.                                                               *)
(*                                                                         *)
(* One system call is one action, so time passes and the network changes   *)
(* between them; the object itself has one user at a time, SinkLogger's    *)
(* mutex sees to that.  Time is counted in ticks of the initial cooldown;  *)
(* m_nextAttempt is kept as the ticks left until it.                       *)
(***************************************************************************)
EXTENDS Naturals, Sequences

CONSTANTS
    Addresses,          \* what the host may resolve to
    NoSocket,           \* the invalid socket
    InitialCooldown,    \* STcpSettings, in ticks
    MaxCooldown,
    ResolveEvery,       \* STcpSettings, 0 for never
    FrameLength,        \* bytes of a frame
    MaxFailures         \* bound of the model: m_failures stays below it, keeping
                        \* its remainder by ResolveEvery

ASSUME TcpSinkAssumption ==
    /\ NoSocket \notin Addresses
    /\ InitialCooldown \in Nat \ {0}
    /\ MaxCooldown \in Nat /\ MaxCooldown >= InitialCooldown
    /\ ResolveEvery \in Nat
    /\ FrameLength \in Nat \ {0}
    /\ MaxFailures \in Nat \ {0} /\ MaxFailures >= ResolveEvery

\* The answers of the resolver: getaddrinfo() lists an address once.
Answers == {<<a>> : a \in Addresses}
           \cup {ab \in Addresses \X Addresses : ab[1] # ab[2]}

NoFault == "none"
ConnectError == "connect"
SendError == "send"

VARIABLES
    socket,         \* m_socket: NoSocket or the address it is connected to
    endpoints,      \* m_endpoints
    lastError,      \* m_lastError
    nextAttempt,    \* m_nextAttempt, as ticks from now
    cooldown,       \* m_cooldown
    failures,       \* m_failures
    stage,          \* where writeLine() is, "idle" when nobody is in it
    index,          \* the endpoint connectAny() is at
    sent,           \* sent of sendAll(); in "idle" the bytes of an unfinished
                    \* frame that the connection has carried (history)
    result,         \* what the last writeLine() returned: its value and its ec
                    \* (history)
    since,          \* ticks since the last failure (history, see Tick)
    answer, up      \* the network: what the host resolves to, who listens

sink == <<socket, endpoints, lastError, nextAttempt, cooldown, failures>>
writing == <<stage, index, sent, result>>
network == <<answer, up>>
tcpSinkVars == <<sink, writing, since, network>>

Smaller(a, b) == IF a < b THEN a ELSE b
One(r) == IF r = 0 THEN 1 ELSE r

\* InitialCooldown * 2^n, and the pause after n + 1 failures in a row: it doubles
\* with every failure "from 50 ms to a second" (README.md:242).
Doubled(n) ==
    LET doubled[i \in 0..n] == IF i = 0 THEN InitialCooldown ELSE 2 * doubled[i - 1]
    IN  doubled[n]

Pause(n) == Smaller(Doubled(n), MaxCooldown)

\* The bound is so high that failures turns back only where the pause is longest.
ASSUME BoundAssumption == Pause(MaxFailures + 1 - One(ResolveEvery)) = MaxCooldown

-----------------------------------------------------------------------------
\* openTcpSink() has resolved the host and connected: noteSuccess().
TcpSinkInit ==
    /\ answer \in Answers /\ up \in SUBSET Addresses
    /\ endpoints = answer
    /\ socket \in {endpoints[i] : i \in DOMAIN endpoints}
    /\ lastError = NoFault /\ failures = 0
    /\ cooldown = InitialCooldown /\ nextAttempt = 0
    /\ stage = "idle" /\ index = 1 /\ sent = 0
    /\ result = [ok |-> TRUE, ec |-> NoFault]
    /\ since = MaxCooldown

\* Seeded faults: a success that keeps the cooldown, and failures that are not
\* remembered, or pause without doubling.
NoteSuccessKeepsCooldown ==
    /\ lastError' = NoFault
    /\ failures' = 0
    /\ cooldown' = cooldown
    /\ nextAttempt' = 0

NoteFailureForgets(ec) ==
    /\ failures' = Smaller(failures + 1, MaxFailures)
    /\ nextAttempt' = cooldown
    /\ cooldown' = Smaller(2 * cooldown, MaxCooldown)
    /\ since' = 0
    /\ UNCHANGED lastError

NoteFailureFixedPause(ec) ==
    /\ lastError' = ec
    /\ failures' = Smaller(failures + 1, MaxFailures)
    /\ nextAttempt' = InitialCooldown
    /\ cooldown' = Smaller(2 * cooldown, MaxCooldown)
    /\ since' = 0

\* noteSuccess() and noteFailure().
NoteSuccess ==
    /\ lastError' = NoFault
    /\ failures' = 0
    /\ cooldown' = InitialCooldown
    /\ nextAttempt' = 0

NoteFailure(ec) ==
    /\ lastError' = ec
    /\ failures' = IF failures < MaxFailures THEN failures + 1
                   ELSE failures + 1 - One(ResolveEvery)
    /\ nextAttempt' = cooldown
    /\ cooldown' = Smaller(2 * cooldown, MaxCooldown)
    /\ since' = 0

Return(ok, ec) ==
    /\ stage' = "idle"
    /\ result' = [ok |-> ok, ec |-> ec]

\* writeLine() with a valid socket: on to sendAll().
WriteConnected ==
    /\ stage = "idle" /\ socket # NoSocket
    /\ stage' = "send" /\ sent' = 0
    /\ UNCHANGED <<sink, index, result, since, network>>

\* ensureConnected() during the pause: the last error again.
WriteInCooldown ==
    /\ stage = "idle" /\ socket = NoSocket
    /\ nextAttempt > 0
    /\ Return(FALSE, lastError)
    /\ UNCHANGED <<sink, index, sent, since, network>>

\* Seeded fault: the host is never resolved again.
NeverResolve == FALSE

ShouldResolve == ResolveEvery > 0 /\ failures % ResolveEvery = 0

\* ensureConnected() after it, on to connectAny().
Reconnects ==
    /\ stage = "idle" /\ socket = NoSocket
    /\ nextAttempt = 0
    /\ stage' = "connect" /\ index' = 1
    /\ UNCHANGED <<socket, lastError, nextAttempt, cooldown, failures, sent, result, since,
                   network>>

\* The host is resolved again if it is time to; otherwise, and when that
\* fails, the endpoints are those of the last time.
Resolve == Reconnects /\ ShouldResolve /\ endpoints' = answer

ResolveFails == Reconnects /\ ShouldResolve /\ UNCHANGED endpoints

KeepEndpoints == Reconnects /\ ~ ShouldResolve /\ UNCHANGED endpoints

\* One round of connectAny(): a listening peer answers ...
Connect ==
    /\ stage = "connect" /\ index =< Len(endpoints)
    /\ endpoints[index] \in up
    /\ socket' = endpoints[index]
    /\ NoteSuccess
    /\ stage' = "send" /\ sent' = 0
    /\ UNCHANGED <<endpoints, index, result, since, network>>

\* ... or the connection is refused, or the answer takes too long.
ConnectFails ==
    /\ stage = "connect" /\ index =< Len(endpoints)
    /\ index' = index + 1
    /\ UNCHANGED <<sink, stage, sent, result, since, network>>

NoEndpointLeft ==
    /\ stage = "connect" /\ index > Len(endpoints)
    /\ NoteFailure(ConnectError)
    /\ Return(FALSE, ConnectError)
    /\ UNCHANGED <<socket, endpoints, index, sent, network>>

\* One round of sendAll(): send() takes some of the bytes ...
SendSome ==
    /\ stage = "send" /\ sent < FrameLength
    /\ \E n \in (sent + 1)..FrameLength : sent' = n
    /\ UNCHANGED <<sink, stage, index, result, since, network>>

SendDone ==
    /\ stage = "send" /\ sent = FrameLength
    /\ Return(TRUE, NoFault)
    /\ sent' = 0
    /\ UNCHANGED <<sink, index, since, network>>

\* Seeded fault: the failed connection is kept.
SendFailsKeepsSocket ==
    /\ stage = "send" /\ sent < FrameLength
    /\ NoteFailure(SendError)
    /\ Return(FALSE, SendError)
    /\ UNCHANGED <<socket, endpoints, index, sent, network>>

\* ... or fails, or the peer does not read for too long: the connection is
\* given up with an unfinished frame on it.
SendFails ==
    /\ stage = "send" /\ sent < FrameLength
    /\ socket' = NoSocket
    /\ NoteFailure(SendError)
    /\ Return(FALSE, SendError)
    /\ UNCHANGED <<endpoints, index, sent, network>>

\* The clock. since stops at MaxCooldown: it is only compared with pauses.
Tick ==
    /\ nextAttempt' = IF nextAttempt > 0 THEN nextAttempt - 1 ELSE 0
    /\ since' = Smaller(since + 1, MaxCooldown)
    /\ UNCHANGED <<socket, endpoints, lastError, cooldown, failures, writing, network>>

\* The network: the host moves, its servers come and go.
NetworkChanges ==
    /\ answer' \in Answers /\ up' \in SUBSET Addresses
    /\ UNCHANGED <<sink, writing, since>>

-----------------------------------------------------------------------------
WriteLine == WriteConnected \/ WriteInCooldown \/ Resolve \/ ResolveFails \/ KeepEndpoints

Proceed ==
    \/ Connect \/ ConnectFails \/ NoEndpointLeft
    \/ SendSome \/ SendDone \/ SendFails

TcpSinkNext == WriteLine \/ Proceed \/ Tick \/ NetworkChanges

\* The application goes on logging, a call goes on (poll() in waitReady() has a
\* timeout), time passes, and neither the resolver nor a listening peer fails
\* every time it is asked.
Fairness ==
    /\ WF_tcpSinkVars(WriteLine) /\ WF_tcpSinkVars(Proceed) /\ WF_tcpSinkVars(Tick)
    /\ SF_tcpSinkVars(Resolve) /\ SF_tcpSinkVars(Connect)

TcpSinkSpec == TcpSinkInit /\ [][TcpSinkNext]_tcpSinkVars /\ Fairness

-----------------------------------------------------------------------------
TcpSinkTypeOK ==
    /\ socket \in Addresses \cup {NoSocket}
    /\ endpoints \in Answers
    /\ lastError \in {NoFault, ConnectError, SendError}
    /\ nextAttempt \in 0..MaxCooldown
    /\ cooldown \in InitialCooldown..MaxCooldown
    /\ failures \in 0..MaxFailures
    /\ stage \in {"idle", "connect", "send"}
    /\ index \in 1..3
    /\ sent \in 0..FrameLength
    /\ result \in [ok : BOOLEAN, ec : {NoFault, ConnectError, SendError}]
    /\ since \in 0..MaxCooldown
    /\ answer \in Answers
    /\ up \subseteq Addresses

\* README.md:300: the error code of a call is set exactly when it failed, also
\* for a call that fails without a system call of its own, in the pause.
ErrorIffFailed == result.ec # NoFault <=> ~ result.ok

\* What makes the above true: while there is no connection there has been a
\* failure since the last success, and its reason is kept.
DisconnectedHasReason ==
    socket = NoSocket => failures > 0 /\ lastError # NoFault

\* The cooldown after k failures in a row is InitialCooldown * 2^k, but at most
\* MaxCooldown.
CooldownDoubles == cooldown = Pause(failures)

\* No attempt to connect is made before the pause that followed the last failure
\* is over: InitialCooldown after the first, twice that after the second, ...
PauseBetweenAttempts ==
    [][stage = "idle" /\ stage' = "connect" => since >= Pause(failures - 1)]_tcpSinkVars

\* A frame starts on a connection that has carried only whole frames, so the
\* collector never sees the rest of a broken line glued to the next one.
FramesNotJoined ==
    stage = "idle" /\ socket # NoSocket => sent = 0

\* A server that moves is found again: once the host resolves to a new address for
\* good and only that one listens, the sink is connected to it time and again, unless
\* from some time on a connection, an old one perhaps, never breaks.
MovedServerFound ==
    \A a \in Addresses :
        <>[](answer = <<a>> /\ up = {a}) => []<>(socket = a) \/ <>[](socket # NoSocket)
=============================================================================

------------------------------ MODULE Startup ------------------------------
(***************************************************************************)
(* Both programs from main() until they run: parseOptions(), then          *)
(* createLogger() or openReceiver() with a network that may refuse         *)
(* anything.  "library" is a caller of createLogger() without options,     *)
(* with the error code of an earlier failure.                              *)
(***************************************************************************)
EXTENDS AppOptions, CollectorOptions

CONSTANTS
    Texts,          \* what a value or an argument without an option may be
    Dashed,         \* the words of Texts that begin with '-'
    MaxArguments,   \* bound of the options on a command line
    AnswersOf,      \* the addresses of each host that has some
    Calls           \* the arguments of createLogger() from another program

VARIABLES
    program, phase,
    ended,          \* optionsEnded
    given,          \* history: the options so far, each with its value
    scan,
    asked,          \* the SRun, in a set
    opened,         \* how many targets have been opened
    candidates,     \* the endpoints that are left to try
    inHand,         \* how many sockets the loop over the endpoints has: one or none
    descriptors,    \* history: files and sockets that are open
    ec,
    address,        \* the address that the listener is bound to
    outcome         \* the exit code, or that nullptr was returned

scanVars == <<ended, given, scan>>
openVars == <<opened, candidates, inHand, descriptors, ec, address>>
vars == <<program, phase, asked, outcome, scanVars, openVars>>

IsApp == program = "app"
IsCollector == program = "collector"

Init ==
    /\ \/ program = "app" /\ phase = "scan" /\ scan = AppScan /\ asked = {} /\ ec = "none"
       \/ program = "collector" /\ phase = "scan" /\ scan = CollectorScan /\ asked = {} /\ ec = "none"
       \/ /\ program = "library" /\ phase = "parsed" /\ scan = {} /\ ec = "system"
          /\ \E call \in Calls : asked = {call}
    /\ ended = FALSE /\ given = << >> /\ outcome = "none" /\ address = Empty
    /\ opened = 0 /\ candidates = << >> /\ inHand = 0 /\ descriptors = 0

-----------------------------------------------------------------------------
(* parseOptions(), an argument or an option with its value at a time.       *)

Exit(code) == phase' = "exited" /\ outcome' = code

Scanning == phase = "scan" /\ Len(given) < MaxArguments /\ UNCHANGED <<program, asked, openVars>>

Takes(option, text, scans) ==
    /\ given' = Append(given, [option |-> option, value |-> text])
    /\ UNCHANGED ended
    /\ \/ scans # {} /\ scan' \in scans /\ UNCHANGED <<phase, outcome>>
       \/ scans = {} /\ Exit("Usage") /\ UNCHANGED scan

EndOptions ==
    /\ Scanning /\ ~ ended /\ ended' = TRUE
    /\ UNCHANGED <<phase, outcome, given, scan>>

BeginsWithDash(text) == text # Empty /\ text[1] \in Dashed

Positional(text) ==
    /\ Scanning /\ (ended \/ ~ BeginsWithDash(text))
    /\ Takes("bare", text, IF IsApp THEN AppPositional(scan, text) ELSE CollectorPositional(scan, text))

Option(option, text) ==
    /\ Scanning /\ ~ ended
    /\ Takes(option, text, IF IsApp THEN AppHandle(option, scan, text)
                           ELSE CollectorHandle(option, scan, text))

\* An option nobody knows, or one that ends the line without its value.
BadOption == Scanning /\ ~ ended /\ Takes("?", Empty, {})

Help == Scanning /\ ~ ended /\ Exit("Success") /\ UNCHANGED scanVars

EndOfArguments ==
    LET runs == IF IsApp THEN AppRun(scan) ELSE CollectorRun(scan)
    IN  /\ phase = "scan" /\ UNCHANGED <<program, scanVars, openVars>>
        /\ \/ runs # {} /\ phase' = "parsed" /\ asked' = runs /\ UNCHANGED outcome
           \/ runs = {} /\ Exit("Usage") /\ UNCHANGED asked

Scan ==
    \/ EndOptions \/ BadOption \/ Help \/ EndOfArguments
    \/ \E text \in Texts : Positional(text)
    \/ \E text \in Texts, option \in IF IsApp THEN AppOptionNames ELSE CollectorOptionNames :
          Option(option, text)

-----------------------------------------------------------------------------
(* createLogger() and openReceiver(), a system call at a time.              *)

Run == CHOOSE run \in asked : TRUE

\* A collector opens one socket, the one it listens on.
Targets == IF IsCollector THEN <<SocketTarget(Run.host, Run.port, Run.protocol)>> ELSE Run.targets
Target == Targets[opened + 1]
IsNext(kind) == phase = "open" /\ opened < Len(Targets) /\ Target.kind = kind

Failure == [app |-> "LogUnavailable", collector |-> "ListenFailed", library |-> "null"]

\* nullptr is returned: the sinks that were opened are destroyed.
ReturnsNull(error) ==
    /\ ec' = error /\ phase' = "returned"
    /\ outcome' = Failure[program]
    /\ opened' = 0 /\ descriptors' = descriptors - opened
    /\ UNCHANGED <<candidates, inHand, address>>

Opening == UNCHANGED <<program, asked, scanVars>>

ValidLevels == {LevelOf[word] : word \in DOMAIN LevelOf}

CreateLogger ==
    /\ phase = "parsed" /\ ~ IsCollector
    /\ \/ /\ Run.targets = << >> \/ Run.level \notin ValidLevels
          /\ ReturnsNull("invalid")
       \/ /\ Run.targets # << >> /\ Run.level \in ValidLevels
          /\ ec' = "none" /\ phase' = "open"
          /\ UNCHANGED <<outcome, opened, candidates, inHand, descriptors, address>>
    /\ given' = << >> /\ scan' = {} /\ ended' = FALSE /\ UNCHANGED <<program, asked>>

OpenReceiver ==
    /\ phase = "parsed" /\ IsCollector
    /\ ec' = "none" /\ phase' = "open"
    /\ given' = << >> /\ scan' = {} /\ ended' = FALSE
    /\ UNCHANGED <<program, asked, outcome, opened, candidates, inHand, descriptors, address>>

OpenFile ==
    /\ IsNext("file") /\ Opening
    /\ \/ ReturnsNull("system")
       \/ /\ opened' = opened + 1 /\ descriptors' = descriptors + 1
          /\ UNCHANGED <<phase, outcome, candidates, inHand, ec, address>>

UnknownProtocol ==
    IsNext("socket") /\ Target.protocol = "Count" /\ ReturnsNull("invalid") /\ Opening

\* The error that is returned if no endpoint is tried with a better reason.
Resolve ==
    /\ IsNext("socket") /\ Target.protocol # "Count" /\ Opening
    /\ \/ ReturnsNull("resolve")
       \/ /\ Target.host \in DOMAIN AnswersOf
          /\ candidates' = AnswersOf[Target.host] /\ ec' = "unreachable" /\ phase' = "try"
          /\ UNCHANGED <<outcome, opened, inHand, descriptors, address>>

Trying == phase = "try" /\ Opening /\ UNCHANGED outcome

MakeSocket ==
    /\ Trying /\ inHand = 0 /\ candidates # << >>
    /\ \/ inHand' = 1 /\ descriptors' = descriptors + 1 /\ UNCHANGED <<candidates, ec>>
       \/ ec' = "system" /\ candidates' = Tail(candidates) /\ UNCHANGED <<inHand, descriptors>>
    /\ UNCHANGED <<phase, opened, address>>

\* Seeded fault: the socket of a failed attempt is not closed.
RefusedLeaks ==
    /\ Trying /\ inHand = 1
    /\ inHand' = 0 /\ ec' = "system" /\ candidates' = Tail(candidates)
    /\ UNCHANGED <<phase, opened, descriptors, address>>

Refused ==
    /\ Trying /\ inHand = 1
    /\ inHand' = 0 /\ descriptors' = descriptors - 1
    /\ ec' = "system" /\ candidates' = Tail(candidates)
    /\ UNCHANGED <<phase, opened, address>>

\* The socket moves into the sink or the receiver.
Keeps(error) ==
    /\ Trying /\ inHand = 1 /\ inHand' = 0 /\ ec' = error /\ opened' = opened + 1
    /\ phase' = "open" /\ candidates' = << >> /\ UNCHANGED descriptors

\* Seeded fault: the error of the endpoint before stays.
ConnectUdpKeepsError ==
    Keeps(ec) /\ ~ IsCollector /\ Target.protocol = "udp" /\ UNCHANGED address

ConnectUdp == Keeps("none") /\ ~ IsCollector /\ Target.protocol = "udp" /\ UNCHANGED address
ConnectTcp == Keeps("none") /\ ~ IsCollector /\ Target.protocol = "tcp" /\ UNCHANGED address
Bind == Keeps("none") /\ IsCollector /\ address' = Head(candidates)

NoneLeft == phase = "try" /\ inHand = 0 /\ candidates = << >> /\ ReturnsNull(ec) /\ Opening

AllOpen ==
    /\ phase = "open" /\ opened = Len(Targets)
    /\ phase' = "running" /\ Opening /\ UNCHANGED <<outcome, openVars>>

\* An exception, which main() catches after the stack is unwound.
Throw ==
    /\ phase \in {"scan", "parsed", "open", "try"} /\ program # "library"
    /\ Exit("InternalError")
    /\ descriptors' = descriptors - opened - inHand
    /\ opened' = 0 /\ inHand' = 0 /\ candidates' = << >>
    /\ ended' = FALSE /\ given' = << >> /\ scan' = {} /\ asked' = {}
    /\ UNCHANGED <<program, ec, address>>

Open ==
    \/ CreateLogger \/ OpenReceiver \/ OpenFile \/ UnknownProtocol \/ Resolve
    \/ MakeSocket \/ Refused \/ ConnectUdp \/ ConnectTcp \/ Bind \/ NoneLeft \/ AllOpen

Done == phase \in {"running", "returned", "exited"} /\ UNCHANGED vars

Next == Scan \/ Open \/ Throw \/ Done

Spec == Init /\ [][Next]_vars
-----------------------------------------------------------------------------
\* A command line is run as it reads as a whole, in the files, the sockets each
\* with its own --proto, the level, and the counts it names; it is refused only
\* if it is wrong (README.md:126-134, both Options.cpp).
RunsAsAsked ==
    /\ phase = "parsed" =>
          /\ IsApp => AppIsRight(given) /\ asked = {AppMeans(given)}
          /\ IsCollector => CollectorIsRight(given) /\ asked = {CollectorMeans(given)}
    /\ outcome = "Usage" =>
          /\ IsApp => ~ AppIsRight(given)
          /\ IsCollector => ~ CollectorIsRight(given)

\* An error code is left exactly if nullptr is returned, however many endpoints
\* failed before one took the connection (README.md:300-301).
ErrorIffNull ==
    phase \in {"running", "returned"} => (ec # "none" <=> phase = "returned")

\* A logger or receiver holds one descriptor for each target, and what was opened on
\* the way to a failure, for earlier targets and earlier endpoints, is closed.
NothingLeftOpen ==
    /\ phase = "running" => descriptors = Len(Targets)
    /\ phase \in {"returned", "exited"} => descriptors = 0

\* What the collector prints after "listening on" is accepted by --socket of the
\* application and names the same address and port (Endpoint.hpp:35).
PrintedAddressIsAccepted ==
    phase = "running" /\ IsCollector =>
        \E next \in AddSocket(AppScan, JoinHostPort(address, Run.port)) :
            next.targets = <<SocketTarget(address, Run.port, "tcp")>>
=============================================================================

---------------------------- MODULE MCConsoleApp ----------------------------
EXTENDS ConsoleAppLog, TLC

CONSTANTS r1, r2

\* Two severities: a message is above or below the threshold.
MCLevels == 0..1

MCLevelOf == ("INFO" :> 0) @@ ("ERROR" :> 1)
MCEscaped == {"//quit"}
MCSlashed == MCEscaped \cup {"/quit", "/help", "/level", "/bogus"}

\* The lines of test_input_parser.cpp, and a command with more words than it takes.
MCLines == {
    << >>, <<"hello">>, <<"the", "ERROR", "happened">>, <<"INFO", "hello">>,
    <<"ERROR", "hello">>, <<"ERROR">>, <<"//quit">>, <<"/quit">>, <<"/help">>, <<"/bogus">>,
    <<"/level">>, <<"/level", "INFO">>, <<"/level", "ERROR">>, <<"/level", "INFO", "ERROR">>}

\* One reason tells a failure from a success; whether a change of the reason
\* is noticed takes two.
MCReason == {r1}
MCReasons == {r1, r2}
=============================================================================

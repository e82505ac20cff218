--------------------------- MODULE SequentialLog ---------------------------
(***************************************************************************)
(* What the console application promises, without threads or a queue.      *)
(*                                                                         *)
(* The user types messages and level changes.  A message is judged at once,*)
(* by the level in force where it was typed; a message that is due is      *)
(* attempted later, in the order of the input and exactly once, and is     *)
(* then either in the log or counted as lost.  The application ends only   *)
(* when nothing is due any more, and its exit code and its summary tell    *)
(* how the attempts went.                                                  *)
(***************************************************************************)
EXTENDS Naturals, Sequences

CONSTANTS
    Levels,     \* the severities, as numbers: a higher one is more important
    Ids         \* the identities of the messages

VARIABLES
    level,      \* the level in force for what is typed next
    pending,    \* the messages that are due and not attempted yet
    log,        \* the messages written, in the order they were written
    lost,       \* how many attempts failed
    input,      \* "open", "ended" by the user, or "failed" by an exception
    exit,       \* the exit code, "none" while the application runs
    summary     \* the counts printed at the end

vars == <<level, pending, log, lost, input, exit, summary>>

Messages == [level : Levels, id : Ids]

Init ==
    /\ level \in Levels
    /\ pending = << >>
    /\ log = << >>
    /\ lost = 0
    /\ input = "open"
    /\ exit = "none"
    /\ summary = [processed |-> 0, failed |-> 0]

TypeMessage(m) ==
    /\ input = "open"
    /\ pending' = IF m.level >= level THEN Append(pending, m) ELSE pending
    /\ UNCHANGED <<level, log, lost, input, exit, summary>>

ChangeLevel(l) ==
    /\ input = "open"
    /\ level' = l
    /\ UNCHANGED <<pending, log, lost, input, exit, summary>>

Write ==
    /\ pending # << >>
    /\ log' = Append(log, Head(pending).id)
    /\ pending' = Tail(pending)
    /\ UNCHANGED <<level, lost, input, exit, summary>>

Lose ==
    /\ pending # << >>
    /\ lost' = lost + 1
    /\ pending' = Tail(pending)
    /\ UNCHANGED <<level, log, input, exit, summary>>

EndInput ==
    /\ input = "open"
    /\ input' \in {"ended", "failed"}
    /\ UNCHANGED <<level, pending, log, lost, exit, summary>>

\* The summary and the exit code of a normal end.
Exit ==
    /\ input = "ended" /\ pending = << >> /\ exit = "none"
    /\ summary' = [processed |-> Len(log), failed |-> lost]
    /\ exit' = IF lost > 0 THEN "WriteFailed" ELSE "Success"
    /\ UNCHANGED <<level, pending, log, lost, input>>

\* An exception of the main thread still drains what is due, without summary.
ExitOnException ==
    /\ input = "failed" /\ pending = << >> /\ exit = "none"
    /\ exit' = "InternalError"
    /\ UNCHANGED <<level, pending, log, lost, input, summary>>

Next ==
    \/ \E m \in Messages : TypeMessage(m)
    \/ \E l \in Levels : ChangeLevel(l)
    \/ Write \/ Lose
    \/ EndInput
    \/ Exit \/ ExitOnException

\* What is due is attempted and an ended session exits; the user may stop typing.
Fairness ==
    /\ WF_vars(Write \/ Lose)
    /\ WF_vars(Exit \/ ExitOnException)

Spec == Init /\ [][Next]_vars /\ Fairness
=============================================================================

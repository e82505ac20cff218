----------------------------- MODULE SinkLogger -----------------------------
(***************************************************************************)
(* Logger::SinkLogger over a Logger::MultiSink (logger/src/SinkLogger.cpp, *)
(* MultiSink.cpp): log() may be called from any number of threads.  It     *)
(* reads the threshold, formats the record with the time it is now, and    *)
(* only then takes the mutex under which every sink gets the line.         *)
(*                                                                         *)
(* A sink is seen through ISink::writeLine(): it takes the line or fails   *)
(* with an error of its own.  A FileSink (FileSink.cpp) has a buffer       *)
(* besides, that of its ofstream, in which a failed call may leave text    *)
(* for the next one.                                                       *)
(***************************************************************************)
EXTENDS Naturals, Sequences, FiniteSets

CONSTANTS
    Threads,    \* the threads that call log() and setLevel()
    NoOne,      \* the owner of a free mutex
    Count,      \* ELogLevel::Count: the levels below it are valid
    SinkCount,  \* how many sinks the MultiSink has
    Files,      \* those that are FileSinks
    MaxCalls    \* bound of the model: calls of log()

ASSUME SinkLoggerAssumption ==
    /\ Count \in Nat \ {0}
    /\ SinkCount \in Nat \ {0}
    /\ Files \subseteq 1..SinkCount
    /\ MaxCalls \in Nat
    /\ NoOne \notin Threads

Sinks == 1..SinkCount
Calls == 1..MaxCalls

Levels == 0..(Count - 1)    \* those that isValidLevel() accepts

\* The values of an error code: clear, from a sink, or of an invalid level.
NoError == 0
SinkErrors == Sinks
Invalid == SinkCount + 1

VARIABLES
    level,      \* m_level
    owner,      \* who holds m_mutex
    pc,         \* where each thread is in log()
    call,       \* what each thread logs: its number and its level
    line,       \* the record each thread has formatted
    next,       \* the sink MultiSink::writeLine() is at, per thread
    ec,         \* the ec of each thread
    ok,         \* written in MultiSink::writeLine(), the result of log() at last
    lines,      \* what each sink has taken, in order; of a file also pieces of lines
    buffer,     \* what the ofstream of each file has kept
    calls,      \* how many calls there were
    failedAt    \* the sinks that failed in each call (history)

locals == <<pc, call, line, next, ec, ok>>
vars == <<level, owner, locals, lines, buffer, calls, failedAt>>

-----------------------------------------------------------------------------
NoLine == [number |-> 0, part |-> "whole"]

Init ==
    /\ level \in Levels
    /\ owner = NoOne
    /\ pc = [t \in Threads |-> "idle"]
    /\ call = [t \in Threads |-> [number |-> 0, level |-> Count]]
    /\ line = [t \in Threads |-> NoLine]
    /\ next = [t \in Threads |-> 1]
    /\ ec = [t \in Threads |-> NoError]
    /\ ok = [t \in Threads |-> TRUE]
    /\ lines = [s \in Sinks |-> << >>]
    /\ buffer = [s \in Files |-> << >>]
    /\ calls = 0
    /\ failedAt = [n \in Calls |-> {}]

\* log() is entered: ec.clear(), and an invalid level is refused.
Log(t, l) ==
    /\ pc[t] = "idle" /\ calls < MaxCalls
    /\ calls' = calls + 1
    /\ call' = [call EXCEPT ![t] = [number |-> calls + 1, level |-> l]]
    /\ IF l \notin Levels
       THEN /\ ec' = [ec EXCEPT ![t] = Invalid]
            /\ ok' = [ok EXCEPT ![t] = FALSE]
            /\ UNCHANGED pc
       ELSE /\ ec' = [ec EXCEPT ![t] = NoError]
            /\ pc' = [pc EXCEPT ![t] = "check"]
            /\ UNCHANGED ok
    /\ UNCHANGED <<level, owner, line, next, lines, buffer, failedAt>>

\* isEnabled(): one load of the atomic level.
CheckLevel(t) ==
    /\ pc[t] = "check"
    /\ IF call[t].level >= level
       THEN /\ pc' = [pc EXCEPT ![t] = "format"]
            /\ UNCHANGED ok
       ELSE /\ pc' = [pc EXCEPT ![t] = "idle"]
            /\ ok' = [ok EXCEPT ![t] = TRUE]
    /\ UNCHANGED <<level, owner, call, line, next, ec, lines, buffer, calls, failedAt>>

\* formatRecord(now(), ...), before the mutex is taken: the time in it is not told.
Format(t) ==
    /\ pc[t] = "format"
    /\ line' = [line EXCEPT ![t] = [number |-> call[t].number, part |-> "whole"]]
    /\ pc' = [pc EXCEPT ![t] = "lock"]
    /\ UNCHANGED <<level, owner, call, next, ec, ok, lines, buffer, calls, failedAt>>

\* Seeded fault: no lock_guard.
LockNot(t) ==
    /\ pc[t] = "lock"
    /\ owner' = t
    /\ next' = [next EXCEPT ![t] = 1]
    /\ ok' = [ok EXCEPT ![t] = TRUE]
    /\ pc' = [pc EXCEPT ![t] = "write"]
    /\ UNCHANGED <<level, call, line, ec, lines, buffer, calls, failedAt>>

\* The lock_guard, and the start of MultiSink::writeLine().
Lock(t) ==
    /\ pc[t] = "lock" /\ owner = NoOne
    /\ owner' = t
    /\ next' = [next EXCEPT ![t] = 1]
    /\ ok' = [ok EXCEPT ![t] = TRUE]
    /\ pc' = [pc EXCEPT ![t] = "write"]
    /\ UNCHANGED <<level, call, line, ec, lines, buffer, calls, failedAt>>

\* One round of its loop, at sink s: it takes the line ...
At(t, s) == pc[t] = "write" /\ next[t] = s

Succeeds(t) ==
    /\ next' = [next EXCEPT ![t] = @ + 1]
    /\ UNCHANGED <<level, owner, pc, call, line, ec, ok, calls, failedAt>>

SinkWrites(t, s) ==
    /\ At(t, s) /\ s \notin Files
    /\ lines' = [lines EXCEPT ![s] = Append(@, line[t])]
    /\ Succeeds(t)
    /\ UNCHANGED buffer

\* Seeded fault: no flush.
FileWritesUnflushed(t, s) ==
    /\ At(t, s) /\ s \in Files
    /\ buffer' = [buffer EXCEPT ![s] = Append(@, line[t])]
    /\ Succeeds(t)
    /\ UNCHANGED lines

\* FileSink::writeLine(): what an earlier call has left in the buffer goes first.
FileWrites(t, s) ==
    /\ At(t, s) /\ s \in Files
    /\ lines' = [lines EXCEPT ![s] = @ \o Append(buffer[s], line[t])]
    /\ buffer' = [buffer EXCEPT ![s] = << >>]
    /\ Succeeds(t)

\* ... or fails, and the first failure gives the reason.
Fails(t, s) ==
    /\ ec' = [ec EXCEPT ![t] = IF ok[t] THEN s ELSE @]
    /\ ok' = [ok EXCEPT ![t] = FALSE]
    /\ failedAt' = [failedAt EXCEPT ![call[t].number] = @ \cup {s}]
    /\ next' = [next EXCEPT ![t] = @ + 1]
    /\ UNCHANGED <<level, owner, pc, call, line, calls>>

SinkFails(t, s) ==
    /\ At(t, s) /\ s \notin Files
    /\ Fails(t, s)
    /\ UNCHANGED <<lines, buffer>>

\* The stream fails: some lines are written and perhaps a piece of the next one.
\* The buffer keeps all it had, those lines included, with the new line if that
\* has gone through it, or the newline alone if the text has gone past it.
FileFails(t, s) ==
    /\ At(t, s) /\ s \in Files
    /\ LET pending == Append(buffer[s], line[t])
           last == Len(pending)
       IN  \E n \in 0..(last - 1), piece \in {"none", "cut"} :
              /\ lines' = [lines EXCEPT ![s] =
                     @ \o SubSeq(pending, 1, n)
                       \o (IF piece = "none" THEN << >>
                           ELSE <<[pending[n + 1] EXCEPT !.part = piece]>>)]
              /\ \E kept \in {pending, buffer[s]}
                             \cup (IF n = last - 1 /\ piece = "cut"
                                   THEN {<<[line[t] EXCEPT !.part = "newline"]>>} ELSE {}) :
                    buffer' = [buffer EXCEPT ![s] = kept]
    /\ Fails(t, s)

\* log() returns and the lock_guard with it.
Unlock(t) ==
    /\ pc[t] = "write" /\ next[t] > SinkCount
    /\ owner' = NoOne
    /\ pc' = [pc EXCEPT ![t] = "idle"]
    /\ next' = [next EXCEPT ![t] = 1]
    /\ line' = [line EXCEPT ![t] = NoLine]
    /\ UNCHANGED <<level, call, ec, ok, lines, buffer, calls, failedAt>>

\* setLevel() of any thread: it does not ask isValidLevel(), so Count, at which
\* nothing is logged, is a threshold too.
SetLevel(l) ==
    /\ level' = l
    /\ UNCHANGED <<owner, locals, lines, buffer, calls, failedAt>>

-----------------------------------------------------------------------------
Continue(t) ==
    \/ CheckLevel(t) \/ Format(t) \/ Lock(t)
    \/ Unlock(t)
    \/ \E s \in Sinks :
          SinkWrites(t, s) \/ SinkFails(t, s) \/ FileWrites(t, s) \/ FileFails(t, s)

Next ==
    \/ \E t \in Threads :
          \/ \E l \in 0..Count : Log(t, l)
          \/ Continue(t)
    \/ \E l \in 0..Count : SetLevel(l)

Spec == Init /\ [][Next]_vars

-----------------------------------------------------------------------------
Texts == [number : Calls, part : {"whole", "cut", "newline"}]

TypeOK ==
    /\ level \in 0..Count
    /\ owner \in Threads \cup {NoOne}
    /\ pc \in [Threads -> {"idle", "check", "format", "lock", "write"}]
    /\ call \in [Threads -> [number : 0..MaxCalls, level : 0..Count]]
    /\ line \in [Threads -> [number : 0..MaxCalls, part : {"whole"}]]
    /\ next \in [Threads -> 1..(SinkCount + 1)]
    /\ ec \in [Threads -> SinkErrors \cup {NoError, Invalid}]
    /\ ok \in [Threads -> BOOLEAN]
    /\ lines \in [Sinks -> Seq(Texts)]
    /\ buffer \in [Files -> Seq(Texts)]
    /\ calls \in 0..MaxCalls
    /\ failedAt \in [Calls -> SUBSET Sinks]

\* Where sink s has the whole line of call n, and the calls it has the line of.
Places(s, n) == {i \in DOMAIN lines[s] : lines[s][i].number = n /\ lines[s][i].part = "whole"}
Numbers(s) == {n \in Calls : Places(s, n) # {}}

\* n comes before m in sink s: a file that failed may have lines twice, of which
\* the first counts.
Before(s, n, m) == \E i \in Places(s, n) : \A j \in Places(s, m) : i < j

\* Two lines that reach the same two sinks reach them in the same order,
\* whichever of the threads was faster to format its line.
SinksAgreeOnOrder ==
    \A s, r \in Sinks :
        \A n, m \in Numbers(s) \cap Numbers(r) : Before(s, n, m) <=> Before(r, n, m)

\* What the last log() of a thread has returned is what became of its record
\* (README.md:235-236, 300-302): the error is set exactly when the result is
\* FALSE, it is that of the first sink that failed, every other sink has the line
\* whole and once, also a file that has failed before, and a dropped message is a
\* success that no sink has seen.  Only a file may still get a line it has failed for.
ResultTellsSinks ==
    \A t \in Threads :
        LET n == call[t].number
            missed == failedAt[n]
            got == {s \in Sinks : n \in Numbers(s)}
        IN  pc[t] = "idle" /\ n # 0 =>
                /\ ok[t] <=> ec[t] = NoError
                /\ ec[t] \in SinkErrors =>
                       ec[t] \in missed /\ \A s \in missed : ec[t] =< s
                /\ ok[t] => missed = {} /\ got \in {{}, Sinks}
                /\ ~ ok[t] => got \ (missed \cap Files) =
                                 (IF ec[t] = Invalid THEN {} ELSE Sinks \ missed)
                /\ \A s \in Sinks \ (missed \cap Files) : Cardinality(Places(s, n)) =< 1

=============================================================================

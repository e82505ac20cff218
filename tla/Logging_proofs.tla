--------------------------- MODULE Logging_proofs ---------------------------
(***************************************************************************)
(* What a message passes on its way out of an application, for any number  *)
(* of threads, calls and failures.  The three components share nothing but *)
(* the order in which they are called, and each is proved by itself.       *)
(*                                                                         *)
(* EventQueue: no wake-up is lost, whatever its clients call.              *)
(*                                                                         *)
(* SinkLogger: one thread writes at a time, the sinks agree on the order   *)
(* of the records whatever fails, and the result of a call tells which     *)
(* sinks have it.                                                          *)
(*                                                                         *)
(* TcpSink: what a call reports agrees with what it did, a connection that *)
(* was given up has left its reason, a frame never starts behind the rest  *)
(* of another one, and the pauses between the attempts to connect double   *)
(* with every failure and are kept.                                        *)
(***************************************************************************)
EXTENDS EventQueue, SinkLogger, TcpSink, Induction, SequenceTheorems, FiniteSetTheorems, TLAPS

-----------------------------------------------------------------------------
(* EventQueue.                                                              *)

\* The state of the queue has its type, whatever its clients call
\* (EventQueue.hpp:38-42).
THEOREM QueueTypeCorrect == QueueSpec => []QueueTypeOK
<1>1. QueueInit => QueueTypeOK
  <2> SUFFICES ASSUME QueueInit PROVE QueueTypeOK
    OBVIOUS
  <2>1. queue \in Seq(Events)
    BY DEF QueueInit
  <2>2. notifying \in [Writers -> {"none", "one", "all"}]
    BY DEF QueueInit
  <2> QED
    BY <2>1, <2>2 DEF QueueInit, QueueTypeOK
<1>2. QueueTypeOK /\ [QueueNext]_queueVars => QueueTypeOK'
  <2> SUFFICES ASSUME QueueTypeOK, [QueueNext]_queueVars PROVE QueueTypeOK'
    OBVIOUS
  <2> USE DEF QueueTypeOK
  <2>1. ASSUME NEW w \in Writers, NEW e \in Events, Push(w, e) PROVE QueueTypeOK'
    BY <2>1, SMTT(30) DEF Push
  <2>2. ASSUME NEW w \in Writers, Close(w) PROVE QueueTypeOK'
    BY <2>2 DEF Close
  <2>3. ASSUME NEW w \in Writers, NotifyOne(w) \/ NotifyAll(w) PROVE QueueTypeOK'
    BY <2>3 DEF NotifyOne, NotifyAll
  <2>4. ASSUME NEW r \in Readers, PopWait(r) PROVE QueueTypeOK'
    BY <2>4 DEF PopWait
  <2>5. ASSUME NEW r \in Readers, PopTake(r) PROVE QueueTypeOK'
    BY <2>5 DEF PopTake
  <2>6. ASSUME NEW r \in Readers, PopFinish(r) PROVE QueueTypeOK'
    BY <2>6 DEF PopFinish, queueVars
  <2>7. ASSUME NEW r \in Readers, SpuriousWakeup(r) PROVE QueueTypeOK'
    BY <2>7 DEF SpuriousWakeup
  <2>8. CASE UNCHANGED queueVars
    BY <2>8 DEF queueVars
  <2> QED
    BY <2>1, <2>2, <2>3, <2>4, <2>5, <2>6, <2>7, <2>8 DEF QueueNext, Pop
<1> QED
  BY <1>1, <1>2, PTL DEF QueueSpec

-----------------------------------------------------------------------------
\* The sets that NoLostWakeup counts are finite, so their sizes are numbers.
LEMMA CountsAreNumbers ==
    /\ IsFiniteSet(Owing) /\ Cardinality(Owing) \in Nat
    /\ IsFiniteSet(Awake) /\ Cardinality(Awake) \in Nat
<1>1. Owing \subseteq Writers /\ Awake \subseteq Readers
  BY DEF Owing, Awake
<1> QED
  BY <1>1, EventQueueAssumption, FS_Subset, FS_CardinalityType

\* A writer that comes to owe a notification is one more of them.
LEMMA OneMoreOwes ==
    ASSUME NEW w \in Writers, notifying[w] = "none", QueueTypeOK,
           NEW n \in {"one", "all"}, notifying' = [notifying EXCEPT ![w] = n]
    PROVE  Cardinality(Owing') = Cardinality(Owing) + 1
<1>1. w \notin Owing /\ Owing' = Owing \cup {w}
  BY DEF Owing, QueueTypeOK
<1> QED
  BY <1>1, CountsAreNumbers, FS_AddElement

\* A writer that has notified is one less.
LEMMA OneLessOwes ==
    ASSUME NEW w \in Writers, notifying[w] # "none", QueueTypeOK,
           notifying' = [notifying EXCEPT ![w] = "none"]
    PROVE  Cardinality(Owing') = Cardinality(Owing) - 1
<1>1. w \in Owing /\ Owing' = Owing \ {w}
  BY DEF Owing, QueueTypeOK
<1> QED
  BY <1>1, CountsAreNumbers, FS_RemoveElement

\* A reader that is woken is one more awake.
LEMMA OneMoreAwake ==
    ASSUME NEW r \in waiting, QueueTypeOK, waiting' = waiting \ {r}
    PROVE  Cardinality(Awake') = Cardinality(Awake) + 1
<1>1. r \notin Awake /\ Awake' = Awake \cup {r}
  BY DEF Awake, QueueTypeOK
<1> QED
  BY <1>1, CountsAreNumbers, FS_AddElement

\* While a reader sleeps there is a notification to come or a reader awake for
\* every queued event: notify_one() after the unlock loses no wake-up
\* (EventQueue.cpp:6-23).
THEOREM WakeupsAreKept == QueueSpec => []NoLostWakeup
<1>1. QueueInit => NoLostWakeup
  BY DEF QueueInit, NoLostWakeup
<1>2. QueueTypeOK /\ NoLostWakeup /\ [QueueNext]_queueVars => NoLostWakeup'
  <2> SUFFICES ASSUME QueueTypeOK, NoLostWakeup, [QueueNext]_queueVars, waiting' # {}
               PROVE  Len(queue') =< Cardinality(Owing') + Cardinality(Awake')
    BY DEF NoLostWakeup
  <2>0. /\ Cardinality(Owing) \in Nat /\ Cardinality(Awake) \in Nat
        /\ Cardinality(Owing') \in Nat /\ Cardinality(Awake') \in Nat
    <3>1. Owing' \subseteq Writers /\ Awake' \subseteq Readers
      BY DEF Owing, Awake
    <3> QED
      BY <3>1, CountsAreNumbers, EventQueueAssumption, FS_Subset, FS_CardinalityType
  <2>q. queue \in Seq(Events) /\ Len(queue) \in Nat
    BY DEF QueueTypeOK
  <2>1. ASSUME NEW w \in Writers, NEW e \in Events, Push(w, e)
        PROVE  Len(queue') =< Cardinality(Owing') + Cardinality(Awake')
    <3>a. waiting # {} /\ Awake' = Awake
      BY <2>1 DEF Push, Awake
    <3>1. CASE closed
      BY <2>1, <3>1, <3>a DEF Push, NoLostWakeup, Owing
    <3>2. CASE ~ closed
      <4>1. Cardinality(Owing') = Cardinality(Owing) + 1
        BY <2>1, <3>2, OneMoreOwes DEF Push
      <4>2. Len(queue') = Len(queue) + 1
        BY <2>1, <3>2, <2>q DEF Push
      <4> QED
        BY <4>1, <4>2, <3>a, <2>0, <2>q DEF NoLostWakeup
    <3> QED
      BY <3>1, <3>2
  <2>2. ASSUME NEW w \in Writers, Close(w)
        PROVE  Len(queue') =< Cardinality(Owing') + Cardinality(Awake')
    <3>a. waiting # {} /\ Awake' = Awake /\ queue' = queue
      BY <2>2 DEF Close, Awake
    <3>1. CASE closed
      <4>1. Owing' = Owing
        BY <2>2, <3>1 DEF Close, Owing, QueueTypeOK
      <4> QED
        BY <4>1, <3>a DEF NoLostWakeup
    <3>2. CASE ~ closed
      <4>1. Cardinality(Owing') = Cardinality(Owing) + 1
        BY <2>2, <3>2, OneMoreOwes DEF Close
      <4> QED
        BY <4>1, <3>a, <2>0, <2>q DEF NoLostWakeup
    <3> QED
      BY <3>1, <3>2
  <2>3. ASSUME NEW w \in Writers, NotifyOne(w)
        PROVE  Len(queue') =< Cardinality(Owing') + Cardinality(Awake')
    <3>1. PICK r \in waiting : waiting' = waiting \ {r}
      BY <2>3 DEF NotifyOne
    <3>2. Cardinality(Awake') = Cardinality(Awake) + 1
      BY <3>1, OneMoreAwake
    <3>3. Cardinality(Owing') = Cardinality(Owing) - 1
      BY <2>3, OneLessOwes DEF NotifyOne
    <3> QED
      BY <2>3, <3>1, <3>2, <3>3, <2>0, <2>q DEF NotifyOne, NoLostWakeup
  <2>4. ASSUME NEW w \in Writers, NotifyAll(w) PROVE FALSE
    BY <2>4 DEF NotifyAll
  <2>5. ASSUME NEW r \in Readers, PopWait(r)
        PROVE  Len(queue') =< Cardinality(Owing') + Cardinality(Awake')
    BY <2>5, <2>0 DEF PopWait
  <2>6. ASSUME NEW r \in Readers, PopTake(r)
        PROVE  Len(queue') =< Cardinality(Owing') + Cardinality(Awake')
    <3>1. waiting # {} /\ Awake' = Awake /\ Owing' = Owing
      BY <2>6 DEF PopTake, Awake, Owing
    <3>2. Len(queue') = Len(queue) - 1
      BY <2>6, <2>q DEF PopTake
    <3> QED
      BY <3>1, <3>2, <2>0, <2>q DEF NoLostWakeup
  <2>7. ASSUME NEW r \in Readers, SpuriousWakeup(r)
        PROVE  Len(queue') =< Cardinality(Owing') + Cardinality(Awake')
    <3>1. r \in waiting /\ waiting' = waiting \ {r} /\ queue' = queue /\ Owing' = Owing
      BY <2>7 DEF SpuriousWakeup, Owing
    <3>2. Cardinality(Awake') = Cardinality(Awake) + 1
      BY <3>1, OneMoreAwake
    <3> QED
      BY <3>1, <3>2, <2>0, <2>q DEF NoLostWakeup
  <2>8. CASE UNCHANGED queueVars
    BY <2>8 DEF queueVars, NoLostWakeup, Owing, Awake
  <2>9. ASSUME NEW r \in Readers, PopFinish(r) PROVE UNCHANGED queueVars
    BY <2>9 DEF PopFinish
  <2> QED
    BY <2>1, <2>2, <2>3, <2>4, <2>5, <2>6, <2>7, <2>8, <2>9 DEF QueueNext, Pop
<1> QED
  BY <1>1, <1>2, QueueTypeCorrect, PTL DEF QueueSpec

\* A reader that waits on a closed queue will be woken by the notify_all() of
\* close(), whatever else runs between the unlock and the call
\* (EventQueue.cpp:16-32).
THEOREM CloseIsHeard == QueueSpec => []CloseWakesReaders
<1>1. QueueInit => CloseWakesReaders
  BY DEF QueueInit, CloseWakesReaders
<1>2. QueueTypeOK /\ CloseWakesReaders /\ [QueueNext]_queueVars => CloseWakesReaders'
  <2> SUFFICES ASSUME QueueTypeOK, CloseWakesReaders, [QueueNext]_queueVars, closed', waiting' # {}
               PROVE  \E w \in Writers : notifying'[w] = "all"
    BY DEF CloseWakesReaders
  <2> USE DEF QueueTypeOK, CloseWakesReaders
  <2>1. ASSUME NEW w \in Writers, NEW e \in Events, Push(w, e)
        PROVE  \E v \in Writers : notifying'[v] = "all"
    BY <2>1 DEF Push
  <2>2. ASSUME NEW w \in Writers, Close(w)
        PROVE  \E v \in Writers : notifying'[v] = "all"
    BY <2>2 DEF Close
  <2>3. ASSUME NEW w \in Writers, NotifyOne(w) \/ NotifyAll(w)
        PROVE  \E v \in Writers : notifying'[v] = "all"
    BY <2>3 DEF NotifyOne, NotifyAll
  <2>4. ASSUME NEW r \in Readers, Pop(r) \/ SpuriousWakeup(r)
        PROVE  \E v \in Writers : notifying'[v] = "all"
    BY <2>4 DEF Pop, PopWait, PopTake, PopFinish, SpuriousWakeup, queueVars
  <2>5. CASE UNCHANGED queueVars
    BY <2>5 DEF queueVars
  <2> QED
    BY <2>1, <2>2, <2>3, <2>4, <2>5 DEF QueueNext
<1> QED
  BY <1>1, <1>2, QueueTypeCorrect, PTL DEF QueueSpec

\* A closed queue stays closed, takes no event any more and loses those it has
\* only at its front, one at a time ("close() refuses new events but keeps the
\* queued ones", EventQueue.hpp:23).
THEOREM ClosedOnlyDrains == QueueSpec => ClosedQueueOnlyDrains
<1>1. [QueueNext]_queueVars /\ closed
        => closed' /\ (queue' = queue \/ (queue # << >> /\ queue' = Tail(queue)))
  BY DEF QueueNext, Push, Close, NotifyOne, NotifyAll, Pop, PopWait, PopTake,
         PopFinish, SpuriousWakeup, queueVars
<1> QED
  BY <1>1, PTL DEF QueueSpec, ClosedQueueOnlyDrains

-----------------------------------------------------------------------------
(* SinkLogger.                                                              *)

\* What a failed flush writes and keeps is made of texts as well.
LEMMA FailedFlush ==
    ASSUME NEW pending \in Seq(Texts), pending # << >>, NEW n \in 0..(Len(pending) - 1),
           NEW piece \in {"none", "cut"}, NEW before \in Seq(Texts)
    PROVE  before \o SubSeq(pending, 1, n)
             \o (IF piece = "none" THEN << >> ELSE <<[pending[n + 1] EXCEPT !.part = piece]>>)
           \in Seq(Texts)
<1>1. Len(pending) \in Nat /\ n \in Nat /\ n + 1 \in 1..Len(pending)
  BY LenProperties
<1>2. SubSeq(pending, 1, n) \in Seq(Texts)
  BY <1>1, SubSeqProperties
<1>3. before \o SubSeq(pending, 1, n) \in Seq(Texts)
  BY <1>2, ConcatProperties
<1>4. pending[n + 1] \in Texts
  BY <1>1, ElementOfSeq
<1>5. [pending[n + 1] EXCEPT !.part = "cut"] \in Texts
  BY <1>4 DEF Texts
<1>6. << >> \in Seq(Texts) /\ <<[pending[n + 1] EXCEPT !.part = "cut"]>> \in Seq(Texts)
  BY <1>5
<1> QED
  BY <1>3, <1>6, ConcatProperties

\* The line that a thread has formatted before it takes the mutex.
Formatted == \A t \in Threads : pc[t] \in {"lock", "write"} => line[t].number \in Calls

\* A thread is called with a number once it is past the entry.
Called == \A t \in Threads : pc[t] # "idle" => call[t].number \in Calls

Typed == TypeOK /\ Called /\ Formatted

\* Every step keeps the types.
LEMMA TypedHolds ==
    ASSUME Typed, [Next]_vars
    PROVE  Typed'
<1> USE SinkLoggerAssumption DEF Typed, TypeOK, Called, Formatted
<1>1. ASSUME NEW t \in Threads, NEW l \in 0..Count, Log(t, l) PROVE Typed'
  <2>1. calls + 1 \in Calls /\ calls' \in 0..MaxCalls
    BY <1>1 DEF Log, Calls
  <2>2. call' \in [Threads -> [number : 0..MaxCalls, level : 0..Count]]
    BY <1>1, <2>1 DEF Log, Calls
  <2>3. ec' \in [Threads -> SinkErrors \cup {NoError, Invalid}] /\ ok' \in [Threads -> BOOLEAN]
    BY <1>1 DEF Log
  <2>4. pc' \in [Threads -> {"idle", "check", "format", "lock", "write"}]
    BY <1>1 DEF Log
  <2>5. \A u \in Threads : pc'[u] # "idle" => call'[u].number \in Calls
    BY <1>1, <2>1 DEF Log
  <2>6. \A u \in Threads : pc'[u] \in {"lock", "write"} => line'[u].number \in Calls
    BY <1>1 DEF Log
  <2> QED
    BY <1>1, <2>1, <2>2, <2>3, <2>4, <2>5, <2>6 DEF Log
<1>2. ASSUME NEW t \in Threads, CheckLevel(t) PROVE Typed'
  BY <1>2 DEF CheckLevel
<1>3. ASSUME NEW t \in Threads, Format(t) PROVE Typed'
  <2>1. call[t].number \in 0..MaxCalls /\ call[t].number \in Calls
    BY <1>3 DEF Format
  <2> QED
    BY <1>3, <2>1 DEF Format
<1>4. ASSUME NEW t \in Threads, Lock(t) PROVE Typed'
  BY <1>4 DEF Lock
<1>5. ASSUME NEW t \in Threads, Unlock(t) PROVE Typed'
  BY <1>5 DEF Unlock, NoLine
<1>6. ASSUME NEW t \in Threads, NEW s \in Sinks,
             SinkWrites(t, s) \/ SinkFails(t, s) \/ FileWrites(t, s) \/ FileFails(t, s)
      PROVE  Typed'
  <2>1. pc[t] = "write" /\ next[t] = s
    BY <1>6 DEF SinkWrites, SinkFails, FileWrites, FileFails, At
  <2>2. line[t] \in Texts /\ call[t].number \in Calls
    <3>1. line[t] \in [number : 0..MaxCalls, part : {"whole"}] /\ line[t].number \in Calls
      BY <2>1
    <3> QED
      BY <2>1, <3>1 DEF Texts
  <2>3. next[t] + 1 \in 1..(SinkCount + 1)
    BY <2>1 DEF Sinks
  <2>4. /\ next' = [next EXCEPT ![t] = @ + 1]
        /\ UNCHANGED <<level, owner, pc, call, line, calls>>
    BY <1>6 DEF SinkWrites, SinkFails, FileWrites, FileFails, Succeeds, Fails
  <2>5. next' \in [Threads -> 1..(SinkCount + 1)]
    BY <2>3, <2>4
  <2>6. /\ ec' \in [Threads -> SinkErrors \cup {NoError, Invalid}]
        /\ ok' \in [Threads -> BOOLEAN]
        /\ failedAt' \in [Calls -> SUBSET Sinks]
    <3>1. CASE Succeeds(t)
      BY <3>1 DEF Succeeds
    <3>2. CASE Fails(t, s)
      <4>1. failedAt' \in [Calls -> SUBSET Sinks]
        BY <2>2, <3>2 DEF Fails
      <4>2. ec' \in [Threads -> SinkErrors \cup {NoError, Invalid}]
        BY <3>2 DEF Fails, SinkErrors
      <4>3. ok' \in [Threads -> BOOLEAN]
        BY <3>2 DEF Fails
      <4> QED
        BY <4>1, <4>2, <4>3
    <3> QED
      BY <1>6, <3>1, <3>2 DEF SinkWrites, SinkFails, FileWrites, FileFails
  <2>7. lines' \in [Sinks -> Seq(Texts)] /\ buffer' \in [Files -> Seq(Texts)]
    <3>1. CASE SinkWrites(t, s)
      <4>1. Append(lines[s], line[t]) \in Seq(Texts)
        BY <2>2, AppendProperties
      <4> QED
        BY <3>1, <4>1 DEF SinkWrites
    <3>2. CASE SinkFails(t, s)
      BY <3>2 DEF SinkFails
    <3>3. CASE FileWrites(t, s)
      <4>1. s \in Files
        BY <3>3 DEF FileWrites
      <4>2. Append(buffer[s], line[t]) \in Seq(Texts)
        BY <2>2, <4>1, AppendProperties
      <4>3. lines[s] \o Append(buffer[s], line[t]) \in Seq(Texts)
        BY <4>2, ConcatProperties
      <4>4. << >> \in Seq(Texts)
        OBVIOUS
      <4> QED
        BY <3>3, <4>3, <4>4 DEF FileWrites
    <3>4. CASE FileFails(t, s)
      <4>1. s \in Files
        BY <3>4 DEF FileFails
      <4> DEFINE pending == Append(buffer[s], line[t])
                 newline == <<[line[t] EXCEPT !.part = "newline"]>>
      <4>2. pending \in Seq(Texts) /\ pending # << >>
        BY <2>2, <4>1, AppendProperties, SMTT(30)
      <4>3. [line[t] EXCEPT !.part = "newline"] \in Texts
        BY <2>2 DEF Texts
      <4>4. newline \in Seq(Texts)
        BY <4>3
      <4>5. PICK n \in 0..(Len(pending) - 1), piece \in {"none", "cut"} :
              lines' = [lines EXCEPT ![s] =
                 @ \o SubSeq(pending, 1, n)
                   \o (IF piece = "none" THEN << >>
                       ELSE <<[pending[n + 1] EXCEPT !.part = piece]>>)]
        BY <3>4 DEF FileFails
      <4>6. PICK kept \in {pending, buffer[s], newline} :
              buffer' = [buffer EXCEPT ![s] = kept]
        BY <3>4 DEF FileFails
      <4> HIDE DEF pending, newline
      <4>7. lines' \in [Sinks -> Seq(Texts)]
        BY <4>2, <4>5, FailedFlush
      <4>8. buffer' \in [Files -> Seq(Texts)]
        <5>1. kept \in Seq(Texts)
          <6>1. buffer[s] \in Seq(Texts)
            BY <4>1
          <6> QED
            BY <4>2, <4>4, <4>6, <6>1
        <5> QED
          BY <4>6, <5>1
      <4> QED
        BY <4>7, <4>8
    <3> QED
      BY <1>6, <3>1, <3>2, <3>3, <3>4
  <2> QED
    BY <2>4, <2>5, <2>6, <2>7
<1>7. ASSUME NEW l \in 0..Count, SetLevel(l) PROVE Typed'
  BY <1>7 DEF SetLevel, locals
<1>8. CASE UNCHANGED vars
  BY <1>8 DEF vars, locals
<1> QED
  BY <1>1, <1>2, <1>3, <1>4, <1>5, <1>6, <1>7, <1>8 DEF Next, Continue

\* Type correctness of the logger, its sinks and the buffers of its files.
THEOREM TypeCorrect == Spec => []TypeOK
<1>1. Init => Typed
  BY SinkLoggerAssumption
  DEF Init, Typed, TypeOK, Called, Formatted, NoLine, Levels, Calls, SinkErrors, NoError
<1>2. Typed /\ [Next]_vars => Typed'
  BY TypedHolds
<1>3. Typed => TypeOK
  BY DEF Typed
<1> QED
  BY <1>1, <1>2, <1>3, PTL DEF Spec

-----------------------------------------------------------------------------
\* The owner of the mutex is in MultiSink::writeLine(), and nobody else is.
Owned ==
    /\ pc \in [Threads -> {"idle", "check", "format", "lock", "write"}]
    /\ \A t \in Threads : pc[t] = "write" <=> owner = t

\* The sinks are entered by one thread at a time (the lock_guard of log()).
OneInSinks == \A t, u \in Threads : pc[t] = "write" /\ pc[u] = "write" => t = u

\* Every step leaves at most one caller among the sinks, the holder of the mutex.
LEMMA OwnedHolds ==
    ASSUME Owned, [Next]_vars
    PROVE  Owned'
<1> USE SinkLoggerAssumption DEF Owned
<1>1. ASSUME NEW t \in Threads, NEW l \in 0..Count, Log(t, l) PROVE Owned'
  BY <1>1 DEF Log
<1>2. ASSUME NEW t \in Threads, CheckLevel(t) PROVE Owned'
  BY <1>2 DEF CheckLevel
<1>3. ASSUME NEW t \in Threads, Format(t) PROVE Owned'
  BY <1>3 DEF Format
<1>4. ASSUME NEW t \in Threads, Lock(t) PROVE Owned'
  BY <1>4 DEF Lock
<1>5. ASSUME NEW t \in Threads, Unlock(t) PROVE Owned'
  BY <1>5 DEF Unlock
<1>6. ASSUME NEW t \in Threads, NEW s \in Sinks,
             SinkWrites(t, s) \/ SinkFails(t, s) \/ FileWrites(t, s) \/ FileFails(t, s)
      PROVE  Owned'
  BY <1>6 DEF SinkWrites, SinkFails, FileWrites, FileFails, Succeeds, Fails
<1>7. ASSUME NEW l \in 0..Count, SetLevel(l) PROVE Owned'
  BY <1>7 DEF SetLevel, locals
<1>8. CASE UNCHANGED vars
  BY <1>8 DEF vars, locals
<1> QED
  BY <1>1, <1>2, <1>3, <1>4, <1>5, <1>6, <1>7, <1>8 DEF Next, Continue

\* No two threads are in the sinks at once, whatever they log and whoever fails.
THEOREM OneThreadWrites == Spec => []OneInSinks
<1>1. Init => Owned
  BY SinkLoggerAssumption DEF Init, Owned
<1>2. Owned /\ [Next]_vars => Owned'
  BY OwnedHolds
<1>3. Owned => OneInSinks
  BY DEF Owned, OneInSinks
<1> QED
  BY <1>1, <1>2, <1>3, PTL DEF Spec

-----------------------------------------------------------------------------
(* The order in which lines come first in a sequence of texts: the sets of  *)
(* the whole lines in its beginnings, from the empty one to that of all.    *)

Wholes(q, i) == {q[j].number : j \in {k \in 1..i : q[k].part = "whole"}}
AllOf(q) == Wholes(q, Len(q))
History(q) == {Wholes(q, i) : i \in 0..Len(q)}

\* A whole record of the first i texts is one of their whole records.
LEMMA InWholes ==
    ASSUME NEW q, NEW i, NEW j \in 1..i, q[j].part = "whole"
    PROVE  q[j].number \in Wholes(q, i)
BY DEF Wholes

\* A history begins with nothing and ends with all there is.
LEMMA HistoryEnds ==
    ASSUME NEW q \in Seq(Texts)
    PROVE  /\ AllOf(q) \in History(q) /\ {} \in History(q)
           /\ \A h \in History(q) : h \subseteq AllOf(q)
<1>1. Len(q) \in Nat
  BY LenProperties
<1>2. AllOf(q) \in History(q)
  BY <1>1 DEF AllOf, History
<1>3. {} \in History(q)
  <2>1. Wholes(q, 0) = {} /\ 0 \in 0..Len(q)
    BY <1>1 DEF Wholes
  <2> QED
    BY <2>1 DEF History
<1>4. ASSUME NEW i \in 0..Len(q) PROVE Wholes(q, i) \subseteq Wholes(q, Len(q))
  BY <1>1 DEF Wholes
<1> QED
  BY <1>2, <1>3, <1>4 DEF AllOf, History

\* The history of two parts is that of the first, and then that of the second on top of it.
LEMMA HistoryConcat ==
    ASSUME NEW a \in Seq(Texts), NEW b \in Seq(Texts)
    PROVE  /\ AllOf(a \o b) = AllOf(a) \cup AllOf(b)
           /\ History(a \o b) = History(a) \cup {AllOf(a) \cup h : h \in History(b)}
<1> DEFINE q == a \o b
           m == Len(a)
           n == Len(b)
<1>1. /\ m \in Nat /\ n \in Nat /\ Len(q) = m + n
      /\ \A j \in 1..m : q[j] = a[j]
      /\ \A j \in 1..n : q[m + j] = b[j]
  <2>1. m \in Nat /\ n \in Nat /\ Len(q) = m + n
        /\ \A j \in 1..(m + n) : q[j] = IF j =< m THEN a[j] ELSE b[j - m]
    BY ConcatProperties, LenProperties
  <2> HIDE DEF q, m, n
  <2>2. \A j \in 1..m : j \in 1..(m + n) /\ j =< m
    BY <2>1
  <2>3. \A j \in 1..n : m + j \in 1..(m + n) /\ ~ (m + j =< m) /\ (m + j) - m = j
    BY <2>1
  <2> QED
    BY <2>1, <2>2, <2>3
<1> HIDE DEF q, m, n
<1>2. ASSUME NEW i \in 0..m PROVE Wholes(q, i) = Wholes(a, i)
  <2>1. \A j \in 1..i : j \in 1..m
    BY <1>1
  <2> QED
    BY <1>1, <2>1 DEF Wholes
<1>3. ASSUME NEW d \in 0..n PROVE Wholes(q, m + d) = Wholes(a, m) \cup Wholes(b, d)
  <2>1. ASSUME NEW x \in Wholes(q, m + d) PROVE x \in Wholes(a, m) \cup Wholes(b, d)
    <3>1. PICK j \in 1..(m + d) : q[j].part = "whole" /\ x = q[j].number
      BY DEF Wholes
    <3>2. CASE j =< m
      <4>1. j \in 1..m
        BY <1>1, <3>2
      <4>2. a[j] = q[j]
        BY <1>1, <4>1
      <4>3. a[j].number \in Wholes(a, m)
        BY <3>1, <4>1, <4>2, InWholes
      <4> QED
        BY <3>1, <4>1, <4>2, <4>3
    <3>3. CASE j > m
      <4>1. j - m \in 1..d /\ j - m \in 1..n /\ m + (j - m) = j
        BY <1>1, <3>3
      <4>2. b[j - m] = q[m + (j - m)]
        BY <1>1, <4>1
      <4>3. b[j - m].number \in Wholes(b, d)
        BY <3>1, <4>1, <4>2, InWholes
      <4> QED
        BY <3>1, <4>1, <4>2, <4>3
    <3> QED
      BY <1>1, <3>2, <3>3
  <2>2. ASSUME NEW x \in Wholes(a, m) PROVE x \in Wholes(q, m + d)
    <3>1. PICK j \in 1..m : a[j].part = "whole" /\ x = a[j].number
      BY <2>2 DEF Wholes
    <3>2. j \in 1..(m + d)
      BY <1>1
    <3> QED
      BY <1>1, <3>1, <3>2 DEF Wholes
  <2>3. ASSUME NEW x \in Wholes(b, d) PROVE x \in Wholes(q, m + d)
    <3>1. PICK j \in 1..d : b[j].part = "whole" /\ x = b[j].number
      BY <2>3 DEF Wholes
    <3>2. m + j \in 1..(m + d) /\ j \in 1..n
      BY <1>1
    <3>3. q[m + j] = b[j]
      BY <1>1, <3>2
    <3>4. q[m + j].number \in Wholes(q, m + d)
      BY <3>1, <3>2, <3>3, InWholes
    <3> QED
      BY <3>1, <3>3, <3>4
  <2> QED
    BY <2>1, <2>2, <2>3
<1>4. AllOf(q) = AllOf(a) \cup AllOf(b)
  <2>1. n \in 0..n
    BY <1>1
  <2> QED
    BY <1>1, <1>3, <2>1 DEF AllOf, m, n
<1>5. ASSUME NEW h \in History(q) PROVE h \in History(a) \cup {AllOf(a) \cup g : g \in History(b)}
  <2>1. PICK i \in 0..(m + n) : h = Wholes(q, i)
    BY <1>1 DEF History
  <2>2. CASE i =< m
    <3>1. i \in 0..m
      BY <1>1, <2>2
    <3> QED
      BY <1>2, <2>1, <3>1 DEF History, m
  <2>3. CASE i > m
    <3>1. i - m \in 0..n /\ m + (i - m) = i
      BY <1>1, <2>3
    <3>2. h = AllOf(a) \cup Wholes(b, i - m)
      BY <1>3, <2>1, <3>1 DEF AllOf, m
    <3> QED
      BY <3>1, <3>2 DEF History, n
  <2> QED
    BY <1>1, <2>2, <2>3
<1>6. ASSUME NEW h \in History(a) PROVE h \in History(q)
  <2>1. PICK i \in 0..m : h = Wholes(a, i)
    BY <1>6 DEF History, m
  <2>2. i \in 0..(m + n)
    BY <1>1
  <2> QED
    BY <1>1, <1>2, <2>1, <2>2 DEF History
<1>7. ASSUME NEW g \in History(b) PROVE AllOf(a) \cup g \in History(q)
  <2>1. PICK d \in 0..n : g = Wholes(b, d)
    BY <1>7 DEF History, n
  <2>2. m + d \in 0..(m + n)
    BY <1>1
  <2>3. AllOf(a) \cup g = Wholes(q, m + d)
    BY <1>3, <2>1 DEF AllOf, m
  <2> QED
    BY <1>1, <2>2, <2>3 DEF History
<1> QED
  BY <1>4, <1>5, <1>6, <1>7 DEF q

\* One text more.
LEMMA HistoryOfOne ==
    ASSUME NEW x \in Texts
    PROVE  /\ <<x>> \in Seq(Texts)
           /\ x.part = "whole" => AllOf(<<x>>) = {x.number} /\ History(<<x>>) = {{}, {x.number}}
           /\ x.part # "whole" => AllOf(<<x>>) = {} /\ History(<<x>>) = {{}}
<1>1. <<x>> \in Seq(Texts) /\ Len(<<x>>) = 1 /\ <<x>>[1] = x
  OBVIOUS
<1> DEFINE q == <<x>>
<1> HIDE DEF q
<1>2. q \in Seq(Texts) /\ Len(q) = 1 /\ q[1] = x
  BY <1>1 DEF q
<1>3. Wholes(q, 0) = {}
  BY DEF Wholes
<1>4. 1..1 = {1} /\ 0..1 = {0, 1}
  OBVIOUS
<1>5. Wholes(q, 1) = IF x.part = "whole" THEN {x.number} ELSE {}
  BY <1>2, <1>4 DEF Wholes
<1>6. AllOf(q) = Wholes(q, 1) /\ History(q) = {Wholes(q, 0), Wholes(q, 1)}
  BY <1>2, <1>4 DEF AllOf, History
<1> QED
  BY <1>2, <1>3, <1>5, <1>6 DEF q

\* The history of a sink that has nothing yet.
LEMMA HistoryOfNone == << >> \in Seq(Texts) /\ AllOf(<< >>) = {} /\ History(<< >>) = {{}}
<1> DEFINE q == << >>
<1>1. q \in Seq(Texts) /\ Len(q) = 0
  OBVIOUS
<1> HIDE DEF q
<1>2. Wholes(q, 0) = {} /\ 0..0 = {0}
  BY DEF Wholes
<1>3. AllOf(q) = {} /\ History(q) = {{}}
  BY <1>1, <1>2 DEF AllOf, History
<1> QED
  BY <1>1, <1>3 DEF q

\* A text that is not whole adds nothing.
LEMMA HistoryAddsNothing ==
    ASSUME NEW a \in Seq(Texts), NEW c \in Seq(Texts), AllOf(c) = {}, History(c) = {{}}
    PROVE  AllOf(a \o c) = AllOf(a) /\ History(a \o c) = History(a)
<1>1. AllOf(a) \in History(a)
  BY HistoryEnds
<1>2. {AllOf(a) \cup h : h \in {{}}} = {AllOf(a)}
  OBVIOUS
<1>3. AllOf(a \o c) = AllOf(a) \cup AllOf(c)
      /\ History(a \o c) = History(a) \cup {AllOf(a) \cup h : h \in History(c)}
  BY HistoryConcat
<1>4. History(a \o c) = History(a) \cup {AllOf(a)}
  BY <1>2, <1>3
<1> QED
  BY <1>1, <1>3, <1>4

\* The beginning of a sequence, and then all of it: the first lines are the same.
LEMMA HistoryRepeats ==
    ASSUME NEW a \in Seq(Texts), NEW b \in Seq(Texts), NEW n \in 0..Len(b)
    PROVE  LET p == SubSeq(b, 1, n)
           IN  /\ p \in Seq(Texts)
               /\ AllOf((a \o p) \o b) = AllOf(a \o b)
               /\ History((a \o p) \o b) = History(a \o b)
<1> DEFINE p == SubSeq(b, 1, n)
<1>1. Len(b) \in Nat /\ \A i \in 1..Len(b) : b[i] \in Texts
  BY ElementOfSeq, LenProperties
<1>2. p \in Seq(Texts) /\ Len(p) = n /\ \A i \in 1..n : p[i] = b[i]
  <2>1. \A i \in 1..n : b[i] \in Texts
    BY <1>1
  <2>2. /\ p \in Seq(Texts) /\ Len(p) = IF 1 =< n THEN n - 1 + 1 ELSE 0
        /\ \A i \in 1..(n - 1 + 1) : p[i] = b[1 + i - 1]
    BY <1>1, <2>1, SubSeqProperties
  <2> HIDE DEF p
  <2> QED
    BY <1>1, <2>2
<1> HIDE DEF p
<1>3. ASSUME NEW i \in 0..n PROVE Wholes(p, i) = Wholes(b, i)
  <2>1. \A j \in 1..i : j \in 1..n
    BY <1>1
  <2> QED
    BY <1>2, <2>1 DEF Wholes
<1>4. AllOf(p) = Wholes(b, n)
  BY <1>1, <1>2, <1>3 DEF AllOf
<1>5. ASSUME NEW i \in 0..Len(b), NEW j \in 0..Len(b), i =< j
      PROVE  Wholes(b, i) \cup Wholes(b, j) = Wholes(b, j)
  BY <1>1, <1>5 DEF Wholes
<1>6. ASSUME NEW h \in History(p) PROVE h \in History(b)
  <2>1. PICK i \in 0..n : h = Wholes(p, i)
    BY <1>2, <1>6 DEF History
  <2>2. i \in 0..Len(b)
    BY <1>1
  <2> QED
    BY <1>3, <2>1, <2>2 DEF History
<1>7. ASSUME NEW h \in History(b)
      PROVE  AllOf(p) \cup h \in History(b) /\ (h \in History(p) \/ AllOf(p) \cup h = h)
  <2>1. PICK i \in 0..Len(b) : h = Wholes(b, i)
    BY <1>7 DEF History
  <2>2. n \in 0..Len(b)
    OBVIOUS
  <2>3. CASE i =< n
    <3>1. i \in 0..n /\ h = Wholes(p, i)
      BY <1>1, <1>3, <2>1, <2>3
    <3>2. h \in History(p)
      BY <1>2, <3>1 DEF History
    <3>3. AllOf(p) \cup h = Wholes(b, n)
      BY <1>4, <1>5, <2>1, <2>2, <2>3
    <3> QED
      BY <2>2, <3>2, <3>3 DEF History
  <2>4. CASE n =< i
    <3>1. AllOf(p) \cup h = h
      BY <1>4, <1>5, <2>1, <2>2, <2>4
    <3> QED
      BY <3>1
  <2> QED
    BY <1>1, <2>3, <2>4
<1>8. AllOf(p) \cup AllOf(b) = AllOf(b)
  <2>1. Len(b) \in 0..Len(b) /\ n =< Len(b)
    BY <1>1
  <2> QED
    BY <1>4, <1>5, <2>1 DEF AllOf
<1>9. a \o p \in Seq(Texts)
  BY <1>2, ConcatProperties
<1>10. AllOf(a \o p) = AllOf(a) \cup AllOf(p)
       /\ History(a \o p) = History(a) \cup {AllOf(a) \cup h : h \in History(p)}
  BY <1>2, HistoryConcat
<1>11. AllOf((a \o p) \o b) = AllOf(a \o p) \cup AllOf(b)
       /\ History((a \o p) \o b) = History(a \o p) \cup {AllOf(a \o p) \cup h : h \in History(b)}
  BY <1>9, HistoryConcat
<1>12. AllOf(a \o b) = AllOf(a) \cup AllOf(b)
       /\ History(a \o b) = History(a) \cup {AllOf(a) \cup h : h \in History(b)}
  BY HistoryConcat
<1>13. AllOf((a \o p) \o b) = AllOf(a \o b)
  BY <1>8, <1>10, <1>11, <1>12
<1> DEFINE A == AllOf(a)
           B == AllOf(p)
           P == History(p)
           H == History(b)
<1> HIDE DEF A, B, P, H
<1>14. {A \cup h : h \in P} \cup {(A \cup B) \cup h : h \in H} = {A \cup h : h \in H}
  <2>1. \A h \in P : h \in H
    BY <1>6 DEF P, H
  <2>2. \A h \in H : B \cup h \in H /\ (h \in P \/ B \cup h = h)
    BY <1>7 DEF P, H, B
  <2>3. ASSUME NEW h \in H PROVE (A \cup B) \cup h \in {A \cup g : g \in H}
    <3>1. (A \cup B) \cup h = A \cup (B \cup h)
      OBVIOUS
    <3> QED
      BY <2>2, <3>1
  <2>4. ASSUME NEW h \in H
        PROVE  A \cup h \in {A \cup g : g \in P} \cup {(A \cup B) \cup g : g \in H}
    <3>1. CASE h \in P
      BY <3>1
    <3>2. CASE B \cup h = h
      <4>1. (A \cup B) \cup h = A \cup h
        BY <3>2
      <4> QED
        BY <4>1
    <3> QED
      BY <2>2, <3>1, <3>2
  <2> QED
    BY <2>1, <2>3, <2>4
<1>15. History((a \o p) \o b) = History(a \o b)
  BY <1>10, <1>11, <1>12, <1>14 DEF A, B, P, H
<1> QED
  BY <1>2, <1>13, <1>15 DEF p

\* Sequences in which the same lines come first in the same order.
Alike(a, b) == AllOf(a) = AllOf(b) /\ History(a) = History(b)

\* Two sinks that are alike stay so with the same texts behind.
LEMMA AlikeConcat ==
    ASSUME NEW a \in Seq(Texts), NEW b \in Seq(Texts), NEW c \in Seq(Texts), Alike(a, b)
    PROVE  Alike(a \o c, b \o c)
<1>1. AllOf(a) = AllOf(b) /\ History(a) = History(b)
  BY DEF Alike
<1>2. AllOf(a \o c) = AllOf(a) \cup AllOf(c)
      /\ History(a \o c) = History(a) \cup {AllOf(a) \cup h : h \in History(c)}
  BY HistoryConcat
<1>3. AllOf(b \o c) = AllOf(b) \cup AllOf(c)
      /\ History(b \o c) = History(b) \cup {AllOf(b) \cup h : h \in History(c)}
  BY HistoryConcat
<1> QED
  BY <1>1, <1>2, <1>3 DEF Alike

\* A sequence b that is a with line k after it.
Longer(b, a, k) == AllOf(b) = AllOf(a) \cup {k} /\ History(b) = History(a) \cup {AllOf(a) \cup {k}}

\* A whole record more lengthens the history by one set.
LEMMA HistoryGrows ==
    ASSUME NEW a \in Seq(Texts), NEW x \in Texts, x.part = "whole"
    PROVE  Append(a, x) \in Seq(Texts) /\ Longer(Append(a, x), a, x.number)
<1>1. Append(a, x) \in Seq(Texts) /\ Append(a, x) = a \o <<x>>
  BY AppendProperties, AppendIsConcat
<1>2. /\ <<x>> \in Seq(Texts) /\ AllOf(<<x>>) = {x.number}
      /\ History(<<x>>) = {{}, {x.number}}
  BY HistoryOfOne
<1>3. AllOf(a \o <<x>>) = AllOf(a) \cup AllOf(<<x>>)
      /\ History(a \o <<x>>) = History(a) \cup {AllOf(a) \cup h : h \in History(<<x>>)}
  BY <1>2, HistoryConcat
<1>4. {AllOf(a) \cup h : h \in {{}, {x.number}}} = {AllOf(a), AllOf(a) \cup {x.number}}
  OBVIOUS
<1>5. AllOf(a) \in History(a)
  BY HistoryEnds
<1>6. AllOf(a \o <<x>>) = AllOf(a) \cup {x.number}
  BY <1>2, <1>3
<1>7. History(a \o <<x>>) = History(a) \cup {AllOf(a) \cup {x.number}}
  <2>1. History(a \o <<x>>) = History(a) \cup {AllOf(a) \cup h : h \in {{}, {x.number}}}
    BY <1>2, <1>3
  <2>2. History(a \o <<x>>) = History(a) \cup {AllOf(a), AllOf(a) \cup {x.number}}
    BY <1>4, <2>1
  <2> QED
    BY <1>5, <2>2
<1> QED
  BY <1>1, <1>6, <1>7 DEF Longer

\* A sink like one that has grown has grown as well.
LEMMA AlikeLonger ==
    ASSUME NEW a, NEW b, NEW c, NEW k, Alike(b, c), Longer(c, a, k)
    PROVE  Longer(b, a, k)
BY DEF Alike, Longer

\* A file with lines a and buffer b gets line x: flushed ...
LEMMA Flushed ==
    ASSUME NEW a \in Seq(Texts), NEW b \in Seq(Texts), NEW x \in Texts, x.part = "whole"
    PROVE  Longer((a \o Append(b, x)) \o << >>, a \o b, x.number)
<1>1. Append(b, x) \in Seq(Texts) /\ Append(b, x) = b \o <<x>> /\ <<x>> \in Seq(Texts)
  BY AppendProperties, AppendIsConcat
<1>2. a \o b \in Seq(Texts) /\ a \o Append(b, x) \in Seq(Texts)
  BY <1>1, ConcatProperties
<1>3. (a \o Append(b, x)) \o << >> = a \o Append(b, x)
  BY <1>2, ConcatEmptySeq
<1>4. Append(a \o b, x) = (a \o b) \o <<x>>
  BY <1>2, AppendIsConcat
<1>5. (a \o b) \o <<x>> = a \o (b \o <<x>>)
  BY <1>1, ConcatAssociative
<1>6. Longer(Append(a \o b, x), a \o b, x.number)
  BY <1>2, HistoryGrows
<1> QED
  BY <1>1, <1>3, <1>4, <1>5, <1>6

\* ... or flushed in part, c being the piece of a line, with some of it still there.
LEMMA FlushedInPart ==
    ASSUME NEW a \in Seq(Texts), NEW b \in Seq(Texts), NEW c \in Seq(Texts),
           AllOf(c) = {}, History(c) = {{}}, NEW n \in 0..Len(b)
    PROVE  LET new == (a \o SubSeq(b, 1, n)) \o c
           IN  new \in Seq(Texts) /\ Alike(new \o b, a \o b)
<1> DEFINE p == SubSeq(b, 1, n)
<1>1. /\ p \in Seq(Texts)
      /\ AllOf((a \o p) \o b) = AllOf(a \o b)
      /\ History((a \o p) \o b) = History(a \o b)
  BY HistoryRepeats
<1> HIDE DEF p
<1>2. a \o p \in Seq(Texts)
  BY <1>1, ConcatProperties
<1>3. (a \o p) \o c \in Seq(Texts)
  BY <1>2, ConcatProperties
<1>4. Alike((a \o p) \o c, a \o p)
  BY <1>2, HistoryAddsNothing DEF Alike
<1>5. Alike(((a \o p) \o c) \o b, (a \o p) \o b)
  BY <1>2, <1>3, <1>4, AlikeConcat
<1>6. Alike(((a \o p) \o c) \o b, a \o b)
  BY <1>1, <1>5 DEF Alike
<1> QED
  BY <1>3, <1>6 DEF p

\* The beginnings of a sequence stay with one element more.
LEMMA BeginningOfAppend ==
    ASSUME NEW b \in Seq(Texts), NEW x \in Texts, NEW n \in 0..Len(b)
    PROVE  SubSeq(Append(b, x), 1, n) = SubSeq(b, 1, n)
<1> DEFINE q == Append(b, x)
<1>1. /\ q \in Seq(Texts) /\ Len(q) = Len(b) + 1 /\ Len(b) \in Nat
      /\ \A i \in 1..Len(b) : q[i] = b[i]
  BY AppendProperties, LenProperties
<1> HIDE DEF q
<1>2. /\ \A i \in 1..n : b[i] \in Texts /\ q[i] = b[i]
      /\ n \in Nat
  BY <1>1, ElementOfSeq
<1>3. /\ SubSeq(b, 1, n) \in Seq(Texts)
      /\ Len(SubSeq(b, 1, n)) = IF 1 =< n THEN n - 1 + 1 ELSE 0
      /\ \A i \in 1..(n - 1 + 1) : SubSeq(b, 1, n)[i] = b[1 + i - 1]
  BY <1>2, SubSeqProperties
<1>4. /\ SubSeq(q, 1, n) \in Seq(Texts)
      /\ Len(SubSeq(q, 1, n)) = IF 1 =< n THEN n - 1 + 1 ELSE 0
      /\ \A i \in 1..(n - 1 + 1) : SubSeq(q, 1, n)[i] = q[1 + i - 1]
  BY <1>2, SubSeqProperties
<1> DEFINE u == SubSeq(b, 1, n)
           v == SubSeq(q, 1, n)
<1> HIDE DEF u, v
<1>5. /\ u \in Seq(Texts) /\ Len(u) = n /\ \A i \in 1..n : u[i] = b[i]
  BY <1>2, <1>3 DEF u
<1>6. /\ v \in Seq(Texts) /\ Len(v) = n /\ \A i \in 1..n : v[i] = q[i]
  BY <1>2, <1>4 DEF v
<1>7. \A i \in 1..Len(u) : u[i] = v[i]
  BY <1>2, <1>5, <1>6
<1>8. u = v
  BY <1>5, <1>6, <1>7, SeqEqual
<1> QED
  BY <1>8 DEF u, v, q

\* The piece of a line that a failed flush may write is no line.
LEMMA PieceIsNoLine ==
    ASSUME NEW q \in Seq(Texts), NEW n \in 0..(Len(q) - 1), NEW piece \in {"none", "cut"}
    PROVE  LET c == IF piece = "none" THEN << >> ELSE <<[q[n + 1] EXCEPT !.part = piece]>>
           IN  c \in Seq(Texts) /\ AllOf(c) = {} /\ History(c) = {{}}
<1> DEFINE c == IF piece = "none" THEN << >> ELSE <<[q[n + 1] EXCEPT !.part = piece]>>
           x == [q[n + 1] EXCEPT !.part = "cut"]
<1>1. CASE piece = "none"
  BY <1>1, HistoryOfNone
<1>2. CASE piece = "cut"
  <2>1. n + 1 \in 1..Len(q)
    BY LenProperties
  <2>2. q[n + 1] \in Texts
    BY <2>1, ElementOfSeq
  <2>3. x \in Texts /\ x.part # "whole"
    BY <2>2 DEF Texts
  <2>4. c = <<x>>
    BY <1>2
  <2> HIDE DEF x, c
  <2>5. <<x>> \in Seq(Texts) /\ AllOf(<<x>>) = {} /\ History(<<x>>) = {{}}
    BY <2>3, HistoryOfOne
  <2>6. c \in Seq(Texts) /\ AllOf(c) = {} /\ History(c) = {{}}
    BY <2>4, <2>5
  <2> QED
    BY <2>6 DEF c
<1> QED
  BY <1>1, <1>2

\* What a failed flush leaves, for each thing that the buffer may keep.
LEMMA NotFlushed ==
    ASSUME NEW a \in Seq(Texts), NEW b \in Seq(Texts), NEW x \in Texts, x.part = "whole",
           NEW c \in Seq(Texts), AllOf(c) = {}, History(c) = {{}},
           NEW n \in 0..Len(b), NEW kept
    PROVE  LET full == ((a \o SubSeq(Append(b, x), 1, n)) \o c) \o kept
           IN  /\ kept = Append(b, x) => Longer(full, a \o b, x.number)
               /\ kept = b => Alike(full, a \o b)
               /\ kept = <<[x EXCEPT !.part = "newline"]>> /\ n = Len(b) => Alike(full, a \o b)
<1> DEFINE q == Append(b, x)
           nl == <<[x EXCEPT !.part = "newline"]>>
           new == (a \o SubSeq(q, 1, n)) \o c
<1>1. /\ q \in Seq(Texts) /\ Len(q) = Len(b) + 1 /\ Len(b) \in Nat /\ n \in 0..Len(q)
      /\ SubSeq(q, 1, n) = SubSeq(b, 1, n) /\ a \o b \in Seq(Texts)
  BY AppendProperties, LenProperties, BeginningOfAppend, ConcatProperties
<1>2. new \in Seq(Texts) /\ Alike(new \o q, a \o q)
  <2> HIDE DEF q
  <2> QED
    BY <1>1, FlushedInPart
<1>3. Alike(new \o b, a \o b)
  <2> HIDE DEF q
  <2>1. Alike(((a \o SubSeq(b, 1, n)) \o c) \o b, a \o b)
    BY FlushedInPart
  <2> QED
    BY <1>1, <2>1
<1>4. Longer(new \o q, a \o b, x.number)
  <2>1. Longer((a \o q) \o << >>, a \o b, x.number)
    BY Flushed
  <2>2. (a \o q) \o << >> = a \o q
    <3>1. a \o q \in Seq(Texts)
      BY <1>1, ConcatProperties
    <3> QED
      BY <3>1, ConcatEmptySeq
  <2> HIDE DEF q, new
  <2> QED
    BY <1>2, <2>1, <2>2, AlikeLonger
<1>5. ASSUME n = Len(b) PROVE Alike(new \o nl, a \o b)
  <2>1. SubSeq(b, 1, n) = b
    BY <1>5, SubSeqFull
  <2>2. new = (a \o b) \o c
    BY <1>1, <2>1
  <2>3. Alike(new, a \o b)
    BY <1>1, <2>2, HistoryAddsNothing DEF Alike
  <2>4. [x EXCEPT !.part = "newline"] \in Texts /\ [x EXCEPT !.part = "newline"].part # "whole"
    BY DEF Texts
  <2>5. nl \in Seq(Texts) /\ AllOf(nl) = {} /\ History(nl) = {{}}
    BY <2>4, HistoryOfOne
  <2> HIDE DEF new, nl
  <2>6. AllOf(new \o nl) = AllOf(new) /\ History(new \o nl) = History(new)
    BY <1>2, <2>5, HistoryAddsNothing
  <2> QED
    BY <2>3, <2>6 DEF Alike
<1> QED
  BY <1>3, <1>4, <1>5

-----------------------------------------------------------------------------
\* All a sink has or will have first, and in which order: of a file with the text
\* in its buffer, which goes out before the line of any later call.
Full(s) == IF s \in Files THEN lines[s] \o buffer[s] ELSE lines[s]
Has(s) == AllOf(Full(s))
Hist(s) == History(Full(s))

\* Line n has come before line m.
Apart(histories, n, m) == \E h \in histories : n \in h /\ m \notin h

\* Every call has a number of its own, which goes with its line.
Numbered ==
    \A t \in Threads :
        /\ call[t].number =< calls
        /\ pc[t] \in {"lock", "write"} => line[t].number = call[t].number
        /\ \A u \in Threads : call[t].number = call[u].number => t = u \/ call[t].number = 0

\* The sinks have lines of calls only.
Logged == \A s \in Sinks : \A n \in Has(s) : n =< calls

\* No sink has the line of a call that has not had the mutex.
NotYet ==
    \A t \in Threads, s \in Sinks :
        pc[t] \in {"check", "format", "lock"} => call[t].number \notin Has(s)

\* The line that is being written has not come to the sinks that follow, and it is
\* the last one in those it has come to.
InHand ==
    \A t \in Threads : pc[t] = "write" =>
        \A s \in Sinks :
            /\ s >= next[t] => call[t].number \notin Has(s)
            /\ call[t].number \in Has(s) =>
                   /\ Has(s) \ {call[t].number} \in Hist(s)
                   /\ \A h \in Hist(s) : call[t].number \in h => h = Has(s)

\* The order is the same in all sinks, what is in the buffers included.
Agree ==
    \A s, r \in Sinks : \A n, m \in Has(s) \cap Has(r) :
        Apart(Hist(s), n, m) => Apart(Hist(r), n, m)

Ordered == Numbered /\ Logged /\ NotYet /\ InHand /\ Agree

\* What a sink was given, and its history, have their types.
LEMMA FullTyped ==
    ASSUME Typed, NEW s \in Sinks
    PROVE  /\ Full(s) \in Seq(Texts)
           /\ Has(s) \in Hist(s) /\ {} \in Hist(s)
           /\ \A h \in Hist(s) : h \subseteq Has(s)
<1>1. Full(s) \in Seq(Texts)
  BY ConcatProperties DEF Typed, TypeOK, Full
<1> QED
  BY <1>1, HistoryEnds DEF Has, Hist

SinkStep(t, s) == SinkWrites(t, s) \/ SinkFails(t, s) \/ FileWrites(t, s) \/ FileFails(t, s)

\* A step at a sink changes that sink only: what it has stays the same, or gets the
\* line of the call at its end.
LEMMA StepAtSink ==
    ASSUME Typed, Numbered, NEW t \in Threads, NEW s \in Sinks, SinkStep(t, s)
    PROVE  /\ \A r \in Sinks : r # s => Full(r)' = Full(r)
           /\ Alike(Full(s)', Full(s)) \/ Longer(Full(s)', Full(s), call[t].number)
<1>1. /\ pc[t] = "write" /\ next[t] = s
      /\ line[t] \in Texts /\ line[t].part = "whole" /\ line[t].number = call[t].number
  <2>1. pc[t] = "write" /\ next[t] = s
    BY DEF SinkStep, SinkWrites, SinkFails, FileWrites, FileFails, At
  <2>2. line[t] \in [number : 0..MaxCalls, part : {"whole"}] /\ line[t].number \in Calls
    BY <2>1 DEF Typed, TypeOK, Formatted
  <2> QED
    BY <2>1, <2>2 DEF Numbered, Texts
<1>2. lines \in [Sinks -> Seq(Texts)] /\ buffer \in [Files -> Seq(Texts)]
  BY DEF Typed, TypeOK
<1>3. CASE SinkWrites(t, s)
  <2>1. s \notin Files /\ lines' = [lines EXCEPT ![s] = Append(@, line[t])] /\ UNCHANGED buffer
    BY <1>3 DEF SinkWrites
  <2>2. \A r \in Sinks : r # s => Full(r)' = Full(r)
    BY <1>2, <2>1 DEF Full
  <2>3. Full(s)' = Append(lines[s], line[t]) /\ Full(s) = lines[s]
    BY <1>2, <2>1 DEF Full
  <2>4. Longer(Append(lines[s], line[t]), lines[s], line[t].number)
    BY <1>1, <1>2, HistoryGrows
  <2> QED
    BY <1>1, <2>2, <2>3, <2>4
<1>4. CASE SinkFails(t, s)
  <2>1. \A r \in Sinks : Full(r)' = Full(r)
    BY <1>4 DEF SinkFails, Full
  <2> QED
    BY <2>1 DEF Alike
<1>5. CASE FileWrites(t, s)
  <2>1. /\ s \in Files
        /\ lines' = [lines EXCEPT ![s] = @ \o Append(buffer[s], line[t])]
        /\ buffer' = [buffer EXCEPT ![s] = << >>]
    BY <1>5 DEF FileWrites
  <2>2. \A r \in Sinks : r # s => Full(r)' = Full(r)
    BY <1>2, <2>1 DEF Full
  <2>3. /\ Full(s)' = (lines[s] \o Append(buffer[s], line[t])) \o << >>
        /\ Full(s) = lines[s] \o buffer[s]
    BY <1>2, <2>1 DEF Full
  <2>4. Longer((lines[s] \o Append(buffer[s], line[t])) \o << >>, lines[s] \o buffer[s],
               line[t].number)
    BY <1>1, <1>2, <2>1, Flushed
  <2> QED
    BY <1>1, <2>2, <2>3, <2>4
<1>6. CASE FileFails(t, s)
  <2> DEFINE q == Append(buffer[s], line[t])
             nl == <<[line[t] EXCEPT !.part = "newline"]>>
  <2>1. s \in Files /\ lines[s] \in Seq(Texts) /\ buffer[s] \in Seq(Texts)
    BY <1>2, <1>6 DEF FileFails
  <2>2. q \in Seq(Texts) /\ Len(q) = Len(buffer[s]) + 1 /\ Len(buffer[s]) \in Nat
    BY <1>1, <2>1, AppendProperties, LenProperties
  <2>3. PICK n \in 0..(Len(q) - 1), piece \in {"none", "cut"} :
          /\ lines' = [lines EXCEPT ![s] =
                 @ \o SubSeq(q, 1, n)
                   \o (IF piece = "none" THEN << >> ELSE <<[q[n + 1] EXCEPT !.part = piece]>>)]
          /\ \E kept \in {q, buffer[s]} \cup (IF n = Len(q) - 1 /\ piece = "cut"
                                              THEN {nl} ELSE {}) :
                buffer' = [buffer EXCEPT ![s] = kept]
    BY <1>6 DEF FileFails
  <2>4. PICK kept : /\ kept = q \/ kept = buffer[s] \/ (kept = nl /\ n = Len(q) - 1)
                    /\ buffer' = [buffer EXCEPT ![s] = kept]
    BY <2>3
  <2> DEFINE c == IF piece = "none" THEN << >> ELSE <<[q[n + 1] EXCEPT !.part = piece]>>
  <2>5. c \in Seq(Texts) /\ AllOf(c) = {} /\ History(c) = {{}}
    BY <2>2, <2>3, PieceIsNoLine
  <2>6. /\ lines' = [lines EXCEPT ![s] = (lines[s] \o SubSeq(q, 1, n)) \o c]
        /\ n \in 0..Len(buffer[s])
    BY <2>2, <2>3
  <2> HIDE DEF c
  <2>7. LET full == ((lines[s] \o SubSeq(q, 1, n)) \o c) \o kept
        IN  /\ kept = q => Longer(full, lines[s] \o buffer[s], line[t].number)
            /\ kept = buffer[s] => Alike(full, lines[s] \o buffer[s])
            /\ kept = nl /\ n = Len(buffer[s]) => Alike(full, lines[s] \o buffer[s])
    BY <1>1, <2>1, <2>5, <2>6, NotFlushed
  <2> HIDE DEF q, nl
  <2>8. /\ Full(s)' = ((lines[s] \o SubSeq(q, 1, n)) \o c) \o kept
        /\ Full(s) = lines[s] \o buffer[s]
    BY <1>2, <2>1, <2>4, <2>6 DEF Full
  <2>9. \A r \in Sinks : r # s => Full(r)' = Full(r)
    BY <1>2, <2>4, <2>6 DEF Full
  <2>10. n = Len(q) - 1 => n = Len(buffer[s])
    BY <2>2, <2>3
  <2> QED
    BY <1>1, <2>4, <2>7, <2>8, <2>9, <2>10
<1> QED
  BY <1>3, <1>4, <1>5, <1>6 DEF SinkStep

\* What a step at sink s does to the sets of lines of all sinks.
LEMMA LinesAtSink ==
    ASSUME Typed, Numbered, NEW t \in Threads, NEW s \in Sinks, SinkStep(t, s)
    PROVE  /\ \A r \in Sinks : r # s => Has(r)' = Has(r) /\ Hist(r)' = Hist(r)
           /\ \/ Has(s)' = Has(s) /\ Hist(s)' = Hist(s)
              \/ /\ Has(s)' = Has(s) \cup {call[t].number}
                 /\ Hist(s)' = Hist(s) \cup {Has(s) \cup {call[t].number}}
<1>1. /\ \A r \in Sinks : r # s => Full(r)' = Full(r)
      /\ Alike(Full(s)', Full(s)) \/ Longer(Full(s)', Full(s), call[t].number)
  BY StepAtSink
<1>2. ASSUME NEW r \in Sinks, r # s PROVE Has(r)' = Has(r) /\ Hist(r)' = Hist(r)
  BY <1>1, <1>2 DEF Has, Hist
<1>3. Alike(Full(s)', Full(s)) => Has(s)' = Has(s) /\ Hist(s)' = Hist(s)
  BY DEF Alike, Has, Hist
<1>4. Longer(Full(s)', Full(s), call[t].number)
      => /\ Has(s)' = Has(s) \cup {call[t].number}
         /\ Hist(s)' = Hist(s) \cup {Has(s) \cup {call[t].number}}
  BY DEF Longer, Has, Hist
<1> QED
  BY <1>1, <1>2, <1>3, <1>4

\* A call of one sink keeps the order of the records.
LEMMA OrderAtSink ==
    ASSUME Typed, Owned, Ordered, NEW t \in Threads, NEW s \in Sinks, SinkStep(t, s)
    PROVE  Ordered'
<1> DEFINE k == call[t].number
<1>1. /\ pc[t] = "write" /\ next[t] = s /\ next' = [next EXCEPT ![t] = @ + 1]
      /\ UNCHANGED <<pc, call, line, calls, owner>>
  BY DEF SinkStep, SinkWrites, SinkFails, FileWrites, FileFails, At, Succeeds, Fails
<1>2. Numbered /\ Logged /\ NotYet /\ InHand /\ Agree
  BY DEF Ordered
<1>3. /\ \A r \in Sinks : r # s => Has(r)' = Has(r) /\ Hist(r)' = Hist(r)
      /\ \/ Has(s)' = Has(s) /\ Hist(s)' = Hist(s)
         \/ Has(s)' = Has(s) \cup {k} /\ Hist(s)' = Hist(s) \cup {Has(s) \cup {k}}
  BY <1>2, LinesAtSink
<1>4. /\ k \in Calls /\ k =< calls /\ k \notin Has(s)
      /\ \A u \in Threads : pc[u] = "write" => u = t
      /\ \A u \in Threads : pc[u] \in {"check", "format", "lock"} => call[u].number # k
      /\ \A r \in Sinks : k \in Has(r) =>
            /\ r < s
            /\ Has(r) \ {k} \in Hist(r)
            /\ \A h \in Hist(r) : k \in h => h = Has(r)
  <2>1. k \in Calls /\ k =< calls
    BY <1>1, <1>2 DEF Typed, Called, Numbered
  <2>2. \A u \in Threads : pc[u] = "write" => u = t
    BY <1>1 DEF Owned
  <2>3. s \in Nat /\ \A r \in Sinks : r \in Nat /\ (r < s \/ r >= s)
    BY SinkLoggerAssumption DEF Sinks
  <2>4. \A r \in Sinks : r >= s => k \notin Has(r)
    BY <1>1, <1>2 DEF InHand
  <2>5. \A r \in Sinks : k \in Has(r) => Has(r) \ {k} \in Hist(r)
                                          /\ \A h \in Hist(r) : k \in h => h = Has(r)
    BY <1>1, <1>2 DEF InHand
  <2>6. ASSUME NEW u \in Threads, pc[u] \in {"check", "format", "lock"}, call[u].number = k
        PROVE  FALSE
    <3>1. u = t
      BY <1>2, <2>1, <2>6, SinkLoggerAssumption DEF Numbered, Calls
    <3> QED
      BY <1>1, <2>6, <3>1
  <2> QED
    BY <2>1, <2>2, <2>3, <2>4, <2>5, <2>6
<1>5. \A r \in Sinks : Has(r) \in Hist(r) /\ \A h \in Hist(r) : h \subseteq Has(r)
  BY FullTyped
<1>6. ASSUME NEW r \in Sinks PROVE Has(r)' \subseteq Has(r) \cup {k}
  BY <1>3
<1> HIDE DEF k
<1>7. Numbered'
  BY <1>1, <1>2 DEF Numbered
<1>8. Logged'
  BY <1>1, <1>2, <1>4, <1>6 DEF Logged
<1>9. NotYet'
  BY <1>1, <1>2, <1>4, <1>6 DEF NotYet
<1>10. InHand'
  <2> SUFFICES ASSUME NEW u \in Threads, pc'[u] = "write", NEW r \in Sinks
               PROVE  /\ r >= next'[u] => call'[u].number \notin Has(r)'
                      /\ call'[u].number \in Has(r)' =>
                             /\ Has(r)' \ {call'[u].number} \in Hist(r)'
                             /\ \A h \in Hist(r)' : call'[u].number \in h => h = Has(r)'
    BY DEF InHand
  <2>1. u = t /\ call'[u].number = k /\ next'[u] = s + 1
    BY <1>1, <1>4 DEF k, Typed, TypeOK
  <2>2. s \in Nat /\ r \in Nat
    BY SinkLoggerAssumption DEF Sinks
  <2>3. CASE r # s
    <3>1. Has(r)' = Has(r) /\ Hist(r)' = Hist(r)
      BY <1>3, <2>3
    <3>2. k \in Has(r) => r < s
      BY <1>4
    <3> QED
      BY <1>4, <2>1, <2>2, <3>1, <3>2
  <2>4. CASE r = s
    <3>1. ~ (r >= next'[u])
      BY <2>1, <2>2, <2>4
    <3>2. ASSUME Has(s)' = Has(s) \cup {k}, Hist(s)' = Hist(s) \cup {Has(s) \cup {k}}
          PROVE  /\ Has(s)' \ {k} \in Hist(s)'
                 /\ \A h \in Hist(s)' : k \in h => h = Has(s)'
      <4>1. Has(s)' \ {k} = Has(s)
        BY <1>4, <3>2
      <4>2. \A h \in Hist(s) : k \notin h
        BY <1>4, <1>5
      <4> QED
        BY <1>5, <3>2, <4>1, <4>2
    <3>3. k \in Has(s)' => /\ Has(s)' \ {k} \in Hist(s)'
                           /\ \A h \in Hist(s)' : k \in h => h = Has(s)'
      BY <1>3, <1>4, <3>2
    <3> QED
      BY <2>1, <2>4, <3>1, <3>3
  <2> QED
    BY <2>3, <2>4
<1>11. Agree'
  <2> SUFFICES ASSUME NEW r \in Sinks, NEW q \in Sinks,
                      NEW n \in Has(r)' \cap Has(q)', NEW m \in Has(r)' \cap Has(q)',
                      Apart(Hist(r)', n, m)
               PROVE  Apart(Hist(q)', n, m)
    BY DEF Agree
  <2>1. n # m
    BY DEF Apart
  <2>2. PICK h \in Hist(r)' : n \in h /\ m \notin h
    BY DEF Apart
  <2>3. CASE r = q
    BY <2>3
  <2>4. CASE r # q /\ m = k
    <3>1. Has(q)' \ {k} \in Hist(q)'
      BY <1>1, <1>10, <2>4 DEF InHand, k
    <3> QED
      BY <2>1, <2>4, <3>1 DEF Apart
  <2>5. CASE r # q /\ n = k
    <3>1. \A g \in Hist(r)' : k \in g => g = Has(r)'
      BY <1>1, <1>10, <2>5 DEF InHand, k
    <3> QED
      BY <2>2, <2>5, <3>1
  <2>6. CASE n # k /\ m # k
    <3>1. n \in Has(r) \cap Has(q) /\ m \in Has(r) \cap Has(q)
      BY <1>6, <2>6
    <3>2. h \in Hist(r)
      BY <1>3, <2>2, <3>1
    <3>3. Apart(Hist(r), n, m)
      BY <2>2, <3>2 DEF Apart
    <3>4. Apart(Hist(q), n, m)
      BY <1>2, <3>1, <3>3 DEF Agree
    <3>5. Hist(q) \subseteq Hist(q)'
      BY <1>3
    <3> QED
      BY <3>4, <3>5 DEF Apart
  <2> QED
    BY <2>3, <2>4, <2>5, <2>6
<1> QED
  BY <1>7, <1>8, <1>9, <1>10, <1>11 DEF Ordered

\* A step that leaves the sinks alone.
LEMMA SinksAlone ==
    ASSUME UNCHANGED <<lines, buffer>>
    PROVE  \A s \in Sinks : Has(s)' = Has(s) /\ Hist(s)' = Hist(s)
BY DEF Has, Hist, Full

\* Where no sink changes, what the callers have in hand stays right.
LEMMA StillInHand ==
    ASSUME InHand, \A s \in Sinks : Has(s)' = Has(s) /\ Hist(s)' = Hist(s),
           \A u \in Threads : pc'[u] = "write" => /\ pc[u] = "write"
                                                 /\ call'[u].number = call[u].number
                                                 /\ next'[u] = next[u]
    PROVE  InHand'
<1> SUFFICES ASSUME NEW t \in Threads, pc'[t] = "write", NEW s \in Sinks
             PROVE  /\ s >= next'[t] => call'[t].number \notin Has(s)'
                    /\ call'[t].number \in Has(s)' =>
                           /\ Has(s)' \ {call'[t].number} \in Hist(s)'
                           /\ \A h \in Hist(s)' : call'[t].number \in h => h = Has(s)'
  BY DEF InHand
<1>1. pc[t] = "write" /\ call'[t].number = call[t].number /\ next'[t] = next[t]
  OBVIOUS
<1>2. Has(s)' = Has(s) /\ Hist(s)' = Hist(s)
  OBVIOUS
<1> QED
  BY <1>1, <1>2 DEF InHand

\* Every step keeps the order of the records.
LEMMA OrderHolds ==
    ASSUME Typed, Owned, Ordered, [Next]_vars
    PROVE  Ordered'
<1> USE SinkLoggerAssumption DEF Ordered
<1>1. calls \in Nat /\ pc \in [Threads -> {"idle", "check", "format", "lock", "write"}]
      /\ call \in [Threads -> [number : 0..MaxCalls, level : 0..Count]]
      /\ line \in [Threads -> [number : 0..MaxCalls, part : {"whole"}]]
      /\ next \in [Threads -> 1..(SinkCount + 1)]
  BY DEF Typed, TypeOK
<1>2. ASSUME NEW t \in Threads, NEW l \in 0..Count, Log(t, l) PROVE Ordered'
  <2>1. /\ pc[t] = "idle" /\ calls' = calls + 1
        /\ call' = [call EXCEPT ![t] = [number |-> calls + 1, level |-> l]]
        /\ pc' \in {pc, [pc EXCEPT ![t] = "check"]}
        /\ UNCHANGED <<line, next, lines, buffer>>
    BY <1>2 DEF Log
  <2>2. \A s \in Sinks : Has(s)' = Has(s) /\ Hist(s)' = Hist(s)
    BY <2>1, SinksAlone
  <2>3. \A u \in Threads : call'[u].number = IF u = t THEN calls + 1 ELSE call[u].number
    BY <1>1, <2>1
  <2>4. /\ \A u \in Threads : u # t => pc'[u] = pc[u]
        /\ pc'[t] \in {"idle", "check"}
    BY <1>1, <2>1
  <2>5. \A u \in Threads : call[u].number \in Nat
    BY <1>1
  <2>6. Numbered'
    BY <1>1, <2>1, <2>3, <2>4, <2>5 DEF Numbered
  <2>7. Logged'
    <3>1. \A s \in Sinks : \A n \in Has(s) : n =< calls + 1
      <4>1. \A s \in Sinks : \A n \in Has(s) : n \in Nat
        <5> SUFFICES ASSUME NEW s \in Sinks PROVE \A n \in Has(s) : n \in Nat
          OBVIOUS
        <5>1. Full(s) \in Seq(Texts)
          BY FullTyped
        <5> DEFINE q == Full(s)
        <5> HIDE DEF q
        <5>2. \A i \in 1..Len(q) : q[i] \in Texts
          BY <5>1, ElementOfSeq DEF q
        <5>3. \A i \in 1..Len(q) : q[i].number \in Nat
          BY <5>2 DEF Texts, Calls
        <5>4. \A n \in Wholes(q, Len(q)) : n \in Nat
          BY <5>3 DEF Wholes
        <5> QED
          BY <5>4 DEF Has, AllOf, q
      <4> QED
        BY <1>1, <4>1 DEF Logged
    <3> QED
      BY <2>1, <2>2, <3>1 DEF Logged
  <2>8. NotYet'
    <3>1. \A s \in Sinks : calls + 1 \notin Has(s)
      BY <1>1 DEF Logged
    <3> QED
      BY <2>2, <2>3, <2>4, <3>1 DEF NotYet
  <2>9. InHand'
    <3>1. \A u \in Threads : pc'[u] = "write" => /\ pc[u] = "write"
                                                 /\ call'[u].number = call[u].number
                                                 /\ next'[u] = next[u]
      BY <2>1, <2>3, <2>4
    <3> QED
      BY <2>2, <3>1, StillInHand
  <2>10. Agree'
    BY <2>2 DEF Agree
  <2> QED
    BY <2>6, <2>7, <2>8, <2>9, <2>10
<1>3. ASSUME NEW t \in Threads, CheckLevel(t) \/ Format(t) \/ Lock(t) \/ Unlock(t)
      PROVE  Ordered'
  <2>1. UNCHANGED <<call, calls, lines, buffer>>
    BY <1>3 DEF CheckLevel, Format, Lock, Unlock
  <2>2. \A s \in Sinks : Has(s)' = Has(s) /\ Hist(s)' = Hist(s)
    BY <2>1, SinksAlone
  <2>3. Numbered'
    <3>1. \A u \in Threads : pc'[u] \in {"lock", "write"} => line'[u].number = call[u].number
      BY <1>1, <1>3 DEF CheckLevel, Format, Lock, Unlock, Numbered
    <3> QED
      BY <2>1, <3>1 DEF Numbered
  <2>4. Logged' /\ Agree'
    BY <2>1, <2>2 DEF Logged, Agree
  <2>5. NotYet'
    <3>1. \A u \in Threads : pc'[u] \in {"check", "format", "lock"}
                             => pc[u] \in {"check", "format", "lock"}
      BY <1>1, <1>3 DEF CheckLevel, Format, Lock, Unlock
    <3> QED
      BY <2>1, <2>2, <3>1 DEF NotYet
  <2>6. InHand'
    <3>1. CASE Lock(t)
      <4>1. \A s \in Sinks : call[t].number \notin Has(s)
        BY <3>1 DEF Lock, NotYet
      <4>2. \A u \in Threads : u # t => pc'[u] = pc[u] /\ next'[u] = next[u]
        BY <1>1, <3>1 DEF Lock
      <4> QED
        BY <2>1, <2>2, <4>1, <4>2 DEF InHand
    <3>2. CASE ~ Lock(t)
      <4>1. \A u \in Threads : pc'[u] = "write" => /\ pc[u] = "write"
                                                   /\ call'[u].number = call[u].number
                                                   /\ next'[u] = next[u]
        BY <1>1, <1>3, <3>2 DEF CheckLevel, Format, Unlock
      <4> QED
        BY <2>2, <4>1, StillInHand
    <3> QED
      BY <3>1, <3>2
  <2> QED
    BY <2>3, <2>4, <2>5, <2>6
<1>4. ASSUME NEW t \in Threads, NEW s \in Sinks, SinkStep(t, s) PROVE Ordered'
  BY <1>4, OrderAtSink
<1>5. CASE UNCHANGED vars \/ \E l \in 0..Count : SetLevel(l)
  <2>1. UNCHANGED <<pc, call, line, next, calls, lines, buffer>>
    BY <1>5 DEF vars, SetLevel, locals
  <2>2. \A s \in Sinks : Has(s)' = Has(s) /\ Hist(s)' = Hist(s)
    BY <2>1, SinksAlone
  <2>3. Numbered' /\ NotYet'
    BY <2>1, <2>2 DEF Numbered, NotYet
  <2>4. Logged' /\ Agree'
    BY <2>1, <2>2 DEF Logged, Agree
  <2>5. InHand'
    <3>1. \A u \in Threads : pc'[u] = "write" => /\ pc[u] = "write"
                                                 /\ call'[u].number = call[u].number
                                                 /\ next'[u] = next[u]
      BY <2>1
    <3> QED
      BY <2>2, <3>1, StillInHand
  <2> QED
    BY <2>3, <2>4, <2>5
<1> QED
  BY <1>2, <1>3, <1>4, <1>5 DEF Next, Continue, SinkStep

\* Which of two lines has come first to a sink.
LEMMA BeforeIsApart ==
    ASSUME Typed, NEW s \in Sinks, NEW n \in Numbers(s), NEW m \in Numbers(s)
    PROVE  /\ n \in Has(s) /\ m \in Has(s)
           /\ Before(s, n, m) <=> Apart(Hist(s), n, m)
<1> DEFINE q == lines[s]
<1>1. q \in Seq(Texts) /\ Len(q) \in Nat /\ DOMAIN q = 1..Len(q)
  BY LenProperties DEF Typed, TypeOK
<1>2. s \in Files => buffer[s] \in Seq(Texts)
  BY DEF Typed, TypeOK
<1>3. /\ AllOf(q) \subseteq Has(s)
      /\ \A h \in Hist(s) : h \in History(q) \/ AllOf(q) \subseteq h
      /\ History(q) \subseteq Hist(s)
  <2>1. CASE s \in Files
    <3>1. /\ AllOf(q \o buffer[s]) = AllOf(q) \cup AllOf(buffer[s])
          /\ History(q \o buffer[s])
               = History(q) \cup {AllOf(q) \cup h : h \in History(buffer[s])}
      BY <1>1, <1>2, <2>1, HistoryConcat
    <3>2. Has(s) = AllOf(q \o buffer[s]) /\ Hist(s) = History(q \o buffer[s])
      BY <2>1 DEF Has, Hist, Full
    <3> QED
      BY <3>1, <3>2
  <2>2. CASE s \notin Files
    BY <2>2 DEF Has, Hist, Full
  <2> QED
    BY <2>1, <2>2
<1> HIDE DEF q
<1>4. /\ \A i \in Places(s, n) : i \in 1..Len(q) /\ q[i].number = n /\ q[i].part = "whole"
      /\ \A i \in Places(s, m) : i \in 1..Len(q) /\ q[i].number = m /\ q[i].part = "whole"
      /\ \A i \in 1..Len(q) : q[i].number = n /\ q[i].part = "whole" => i \in Places(s, n)
      /\ \A i \in 1..Len(q) : q[i].number = m /\ q[i].part = "whole" => i \in Places(s, m)
      /\ Places(s, n) # {} /\ Places(s, m) # {}
  BY <1>1 DEF q, Places, Numbers
<1>5. n \in AllOf(q) /\ m \in AllOf(q)
  BY <1>4, InWholes DEF AllOf
<1>6. ASSUME Before(s, n, m) PROVE Apart(Hist(s), n, m)
  <2>1. PICK i \in Places(s, n) : \A j \in Places(s, m) : i < j
    BY <1>6 DEF Before
  <2>2. i \in 1..Len(q) /\ q[i].number = n /\ q[i].part = "whole" /\ i \in 1..i /\ i \in Nat
    BY <1>1, <1>4
  <2>3. n \in Wholes(q, i)
    BY <2>2, InWholes
  <2>4. m \notin Wholes(q, i)
    <3> SUFFICES ASSUME NEW j \in 1..i, q[j].part = "whole", q[j].number = m PROVE FALSE
      BY DEF Wholes
    <3>1. j \in 1..Len(q) /\ j =< i
      BY <1>1, <2>2
    <3> QED
      BY <1>4, <2>1, <2>2, <3>1
  <2>5. Wholes(q, i) \in Hist(s)
    <3>1. i \in 0..Len(q)
      BY <1>1, <2>2
    <3> QED
      BY <1>3, <3>1 DEF History
  <2> QED
    BY <2>3, <2>4, <2>5 DEF Apart
<1>7. ASSUME Apart(Hist(s), n, m) PROVE Before(s, n, m)
  <2>1. PICK h \in Hist(s) : n \in h /\ m \notin h
    BY <1>7 DEF Apart
  <2>2. h \in History(q)
    BY <1>3, <1>5, <2>1
  <2>3. PICK i \in 0..Len(q) : h = Wholes(q, i)
    BY <2>2 DEF History
  <2>4. PICK f \in 1..i : q[f].part = "whole" /\ q[f].number = n
    BY <2>1, <2>3 DEF Wholes
  <2>5. f \in Places(s, n)
    <3>1. f \in 1..Len(q)
      BY <1>1
    <3> QED
      BY <1>4, <2>4, <3>1
  <2>6. ASSUME NEW j \in Places(s, m) PROVE f < j
    <3>1. j \in 1..Len(q) /\ q[j].number = m /\ q[j].part = "whole"
      BY <1>4
    <3>2. ~ (j \in 1..i)
      BY <2>1, <2>3, <3>1, InWholes
    <3> QED
      BY <1>1, <3>1, <3>2
  <2> QED
    BY <2>5, <2>6 DEF Before
<1> QED
  BY <1>3, <1>5, <1>6, <1>7

\* No record is in any order at the start.
LEMMA OrderedAtFirst ==
    ASSUME Init
    PROVE  Typed /\ Owned /\ Ordered
<1>1. Typed /\ Owned
  BY SinkLoggerAssumption DEF Init, Typed, TypeOK, Called, Formatted, NoLine, Levels,
     Calls, SinkErrors, NoError, Owned
<1>2. \A s \in Sinks : Full(s) = << >>
  <2>1. \A s \in Sinks : lines[s] = << >> /\ (s \in Files => buffer[s] = << >>)
    BY DEF Init
  <2>2. << >> \o << >> = << >>
    BY HistoryOfNone, ConcatEmptySeq
  <2> QED
    BY <2>1, <2>2 DEF Full
<1>3. \A s \in Sinks : Has(s) = {}
  BY <1>2, HistoryOfNone DEF Has
<1>4. Numbered
  BY DEF Init, Numbered
<1>5. Logged /\ NotYet /\ Agree
  BY <1>3 DEF Logged, NotYet, Agree
<1>6. InHand
  BY <1>3 DEF InHand
<1> QED
  BY <1>1, <1>4, <1>5, <1>6 DEF Ordered

\* Two lines that reach the same two sinks reach them in the same order, whatever the
\* threads log and whichever sinks fail (MultiSink::writeLine() under the lock_guard).
THEOREM SinksAgree == Spec => []SinksAgreeOnOrder
<1> DEFINE Inv == Typed /\ Owned /\ Ordered
<1>1. Init => Inv
  BY OrderedAtFirst
<1>2. Inv /\ [Next]_vars => Inv'
  BY TypedHolds, OwnedHolds, OrderHolds
<1>3. Inv => SinksAgreeOnOrder
  <2> SUFFICES ASSUME Typed, Ordered, NEW s \in Sinks, NEW r \in Sinks,
                      NEW n \in Numbers(s) \cap Numbers(r), NEW m \in Numbers(s) \cap Numbers(r)
               PROVE  Before(s, n, m) <=> Before(r, n, m)
    BY DEF SinksAgreeOnOrder
  <2>1. /\ n \in Has(s) /\ m \in Has(s) /\ (Before(s, n, m) <=> Apart(Hist(s), n, m))
        /\ n \in Has(r) /\ m \in Has(r) /\ (Before(r, n, m) <=> Apart(Hist(r), n, m))
    BY BeforeIsApart
  <2>2. Apart(Hist(s), n, m) <=> Apart(Hist(r), n, m)
    BY <2>1 DEF Ordered, Agree
  <2> QED
    BY <2>1, <2>2
<1> QED
  <2> HIDE DEF Inv
  <2> QED
    BY <1>1, <1>2, <1>3, PTL DEF Spec

-----------------------------------------------------------------------------
\* The whole lines that wait in the buffer of a file.
Waiting(s) == IF s \in Files THEN buffer[s] ELSE << >>
Kept(s) == AllOf(Waiting(s))

Once(s, n) == \A i, j \in Places(s, n) : i = j

\* What waits is what the file has failed to take.
Behind == \A s \in Sinks : \A n \in Kept(s) : s \in failedAt[n]

\* A sink without a buffer does not get a line it has failed to take.
Missed == \A s \in Sinks \ Files, n \in Calls : s \in failedAt[n] => n \notin Numbers(s)

\* What a sink has taken without a failure it has once.
OnlyOnce == \A s \in Sinks, n \in Calls : s \notin failedAt[n] => Once(s, n)

\* Nothing fails in a call before it is made, ...
Unused == \A n \in Calls : n > calls => failedAt[n] = {}

\* ... nor before it has the mutex.
Fresh(t) == ec[t] = NoError /\ failedAt[call[t].number] = {}

\* The error is that of the first sink that has failed.
Reason(t) ==
    LET missed == failedAt[call[t].number]
    IN  /\ ok[t] <=> missed = {}
        /\ ok[t] => ec[t] = NoError
        /\ ~ ok[t] => ec[t] \in missed /\ \A s \in missed : ec[t] =< s

\* In the loop this is true of the sinks it has passed ...
Underway(t) ==
    /\ Reason(t)
    /\ \A s \in failedAt[call[t].number] : s < next[t]
    /\ \A s \in Sinks : s < next[t] /\ s \notin failedAt[call[t].number]
                        => call[t].number \in Numbers(s)

\* ... and after it of all, unless the message was refused or dropped.
Refused(t) ==
    /\ failedAt[call[t].number] = {}
    /\ \A s \in Sinks : call[t].number \notin Has(s)
    /\ ec[t] = IF ok[t] THEN NoError ELSE Invalid

Written(t) ==
    /\ Reason(t)
    /\ \A s \in Sinks : s \notin failedAt[call[t].number] => call[t].number \in Numbers(s)

Story(t) ==
    /\ pc[t] \in {"check", "format", "lock"} => Fresh(t)
    /\ pc[t] = "write" => Underway(t)
    /\ pc[t] = "idle" /\ call[t].number # 0 => Refused(t) \/ Written(t)

Told == Behind /\ Missed /\ OnlyOnce /\ Unused /\ \A t \in Threads : Story(t)

\* The places of a line in a sequence of texts.
PlacesIn(q, n) == {i \in DOMAIN q : q[i].number = n /\ q[i].part = "whole"}

\* A record is among the whole ones if it has a place.
LEMMA PlacesOfLine ==
    ASSUME NEW q \in Seq(Texts), NEW n
    PROVE  n \in AllOf(q) <=> PlacesIn(q, n) # {}
<1>1. DOMAIN q = 1..Len(q)
  BY LenProperties
<1>2. ASSUME n \in AllOf(q) PROVE PlacesIn(q, n) # {}
  <2>1. PICK j \in 1..Len(q) : q[j].part = "whole" /\ n = q[j].number
    BY <1>2 DEF AllOf, Wholes
  <2> QED
    BY <1>1, <2>1 DEF PlacesIn
<1>3. ASSUME NEW i \in PlacesIn(q, n) PROVE n \in AllOf(q)
  <2>1. i \in 1..Len(q) /\ q[i].number = n /\ q[i].part = "whole"
    BY <1>1 DEF PlacesIn
  <2> QED
    BY <2>1, InWholes DEF AllOf
<1> QED
  BY <1>2, <1>3

\* The places of a record in two parts.
LEMMA PlacesConcat ==
    ASSUME NEW a \in Seq(Texts), NEW b \in Seq(Texts), NEW n, n \notin AllOf(b)
    PROVE  PlacesIn(a \o b, n) = PlacesIn(a, n)
<1> DEFINE q == a \o b
<1>1. /\ Len(a) \in Nat /\ Len(b) \in Nat /\ Len(q) = Len(a) + Len(b)
      /\ DOMAIN a = 1..Len(a) /\ DOMAIN b = 1..Len(b) /\ DOMAIN q = 1..Len(q)
      /\ \A i \in 1..(Len(a) + Len(b)) : q[i] = IF i =< Len(a) THEN a[i] ELSE b[i - Len(a)]
  BY ConcatProperties, LenProperties
<1> HIDE DEF q
<1>2. PlacesIn(b, n) = {}
  BY PlacesOfLine
<1>3. ASSUME NEW i \in PlacesIn(q, n) PROVE i \in PlacesIn(a, n)
  <2>1. i \in 1..(Len(a) + Len(b)) /\ q[i].number = n /\ q[i].part = "whole"
    BY <1>1 DEF PlacesIn
  <2>2. CASE i =< Len(a)
    <3>1. i \in 1..Len(a) /\ q[i] = a[i]
      BY <1>1, <2>1, <2>2
    <3> QED
      BY <1>1, <2>1, <3>1 DEF PlacesIn
  <2>3. CASE ~ (i =< Len(a))
    <3>1. i - Len(a) \in 1..Len(b) /\ q[i] = b[i - Len(a)]
      BY <1>1, <2>1, <2>3
    <3>2. i - Len(a) \in PlacesIn(b, n)
      BY <1>1, <2>1, <3>1 DEF PlacesIn
    <3> QED
      BY <1>2, <3>2
  <2> QED
    BY <2>2, <2>3
<1>4. ASSUME NEW i \in PlacesIn(a, n) PROVE i \in PlacesIn(q, n)
  <2>1. i \in 1..Len(a) /\ a[i].number = n /\ a[i].part = "whole"
    BY <1>1 DEF PlacesIn
  <2>2. i \in 1..(Len(a) + Len(b)) /\ i =< Len(a)
    BY <1>1, <2>1
  <2>3. q[i] = a[i] /\ i \in DOMAIN q
    BY <1>1, <2>2
  <2> QED
    BY <2>1, <2>3 DEF PlacesIn
<1> QED
  BY <1>3, <1>4 DEF q

\* A new record has one place, the last.
LEMMA PlaceOfLast ==
    ASSUME NEW q \in Seq(Texts), NEW x \in Texts, x.part = "whole", x.number \notin AllOf(q)
    PROVE  /\ x.number \in AllOf(Append(q, x))
           /\ \A i, j \in PlacesIn(Append(q, x), x.number) : i = j
<1> DEFINE p == Append(q, x)
<1>1. /\ p \in Seq(Texts) /\ Len(q) \in Nat /\ Len(p) = Len(q) + 1 /\ p[Len(q) + 1] = x
      /\ \A i \in 1..Len(q) : p[i] = q[i]
      /\ DOMAIN p = 1..Len(p) /\ DOMAIN q = 1..Len(q)
  BY AppendProperties, LenProperties
<1> HIDE DEF p
<1>2. PlacesIn(q, x.number) = {}
  BY PlacesOfLine
<1>3. ASSUME NEW i \in PlacesIn(p, x.number) PROVE i = Len(q) + 1
  <2>1. i \in 1..(Len(q) + 1) /\ p[i].number = x.number /\ p[i].part = "whole"
    BY <1>1 DEF PlacesIn
  <2>2. ~ (i \in 1..Len(q))
    BY <1>1, <1>2, <2>1 DEF PlacesIn
  <2> QED
    BY <1>1, <2>1, <2>2
<1>4. Len(q) + 1 \in 1..Len(p)
  BY <1>1
<1>5. x.number \in AllOf(p)
  BY <1>1, <1>4, InWholes DEF AllOf
<1> QED
  BY <1>3, <1>5 DEF p

\* The numbers of records among the texts of a sink.
LEMMA NumbersIn ==
    ASSUME NEW q \in Seq(Texts)
    PROVE  /\ AllOf(q) \subseteq Calls
           /\ {n \in Calls : PlacesIn(q, n) # {}} = AllOf(q)
<1>1. \A j \in 1..Len(q) : q[j] \in Texts
  BY ElementOfSeq
<1>2. \A j \in 1..Len(q) : q[j].number \in Calls
  BY <1>1 DEF Texts
<1>3. AllOf(q) \subseteq Calls
  BY <1>2 DEF AllOf, Wholes
<1>4. \A n : n \in AllOf(q) <=> PlacesIn(q, n) # {}
  BY PlacesOfLine
<1> QED
  BY <1>3, <1>4

\* The numbers of records that a sink was given.
LEMMA NumbersOfSink ==
    ASSUME Typed, NEW s \in Sinks
    PROVE  /\ Numbers(s) = AllOf(lines[s]) /\ Numbers(s) \subseteq Has(s) /\ Kept(s) \subseteq Has(s)
           /\ Kept(s) \subseteq Calls
           /\ Waiting(s) \in Seq(Texts) /\ lines[s] \in Seq(Texts)
<1>1. lines[s] \in Seq(Texts) /\ Waiting(s) \in Seq(Texts)
  <2>1. << >> \in Seq(Texts)
    OBVIOUS
  <2> QED
    BY <2>1 DEF Typed, TypeOK, Waiting
<1>2. AllOf(Waiting(s)) \subseteq Calls
  BY <1>1, NumbersIn
<1>3. \A n : Places(s, n) = PlacesIn(lines[s], n)
  BY DEF Places, PlacesIn
<1>4. {n \in Calls : PlacesIn(lines[s], n) # {}} = AllOf(lines[s])
  BY <1>1, NumbersIn
<1>5. Numbers(s) = AllOf(lines[s])
  BY <1>3, <1>4 DEF Numbers
<1>6. Full(s) = lines[s] \o Waiting(s)
  BY <1>1, ConcatEmptySeq DEF Full, Waiting
<1>7. AllOf(lines[s] \o Waiting(s)) = AllOf(lines[s]) \cup AllOf(Waiting(s))
  BY <1>1, HistoryConcat
<1> QED
  BY <1>1, <1>2, <1>5, <1>6, <1>7 DEF Has, Kept

\* A beginning of a sequence has none but its lines.
LEMMA BeginningHas ==
    ASSUME NEW b \in Seq(Texts), NEW n \in 0..Len(b)
    PROVE  SubSeq(b, 1, n) \in Seq(Texts) /\ AllOf(SubSeq(b, 1, n)) \subseteq AllOf(b)
<1> DEFINE p == SubSeq(b, 1, n)
<1>1. Len(b) \in Nat /\ \A i \in 1..n : b[i] \in Texts
  BY ElementOfSeq, LenProperties
<1>2. /\ p \in Seq(Texts) /\ Len(p) = IF 1 =< n THEN n - 1 + 1 ELSE 0
      /\ \A i \in 1..(n - 1 + 1) : p[i] = b[1 + i - 1]
  BY <1>1, SubSeqProperties
<1> HIDE DEF p
<1>3. Len(p) = n /\ \A i \in 1..n : p[i] = b[i] /\ i \in 1..Len(b)
  BY <1>1, <1>2
<1>4. AllOf(p) \subseteq AllOf(b)
  <2> SUFFICES ASSUME NEW m \in AllOf(p) PROVE m \in AllOf(b)
    OBVIOUS
  <2>1. PICK j \in 1..n : p[j].part = "whole" /\ m = p[j].number
    BY <1>3 DEF AllOf, Wholes
  <2>2. j \in 1..Len(b) /\ b[j].part = "whole" /\ m = b[j].number
    BY <1>3, <2>1
  <2> QED
    BY <2>2, InWholes DEF AllOf
<1> QED
  BY <1>2, <1>4 DEF p

\* Brackets in a concatenation of three do not matter.
LEMMA Regroup ==
    ASSUME NEW a \in Seq(Texts), NEW b \in Seq(Texts), NEW c \in Seq(Texts)
    PROVE  (a \o b) \o c = a \o (b \o c)
BY ConcatAssociative

\* A step at a sink either takes what waits there and the line, or fails, and takes at
\* most what waits.
LEMMA TextsAtSink ==
    ASSUME Typed, Numbered, NEW t \in Threads, NEW s \in Sinks, SinkStep(t, s)
    PROVE  /\ \A r \in Sinks : r # s => lines'[r] = lines[r] /\ Waiting(r)' = Waiting(r)
           /\ s \notin Files => Waiting(s) = << >> /\ Waiting(s)' = << >>
           /\ \E added \in Seq(Texts) :
                 /\ lines'[s] = lines[s] \o added
                 /\ \/ /\ Succeeds(t)
                       /\ added = Append(Waiting(s), line[t])
                       /\ Waiting(s)' = << >>
                    \/ /\ Fails(t, s)
                       /\ AllOf(added) \subseteq Kept(s)
                       /\ Kept(s)' \subseteq Kept(s) \cup {call[t].number}
<1>1. /\ pc[t] = "write" /\ next[t] = s
      /\ line[t] \in Texts /\ line[t].part = "whole" /\ line[t].number = call[t].number
  <2>1. pc[t] = "write" /\ next[t] = s
    BY DEF SinkStep, SinkWrites, SinkFails, FileWrites, FileFails, At
  <2>2. line[t] \in [number : 0..MaxCalls, part : {"whole"}] /\ line[t].number \in Calls
    BY <2>1 DEF Typed, TypeOK, Formatted
  <2> QED
    BY <2>1, <2>2 DEF Numbered, Texts
<1>2. /\ lines \in [Sinks -> Seq(Texts)] /\ buffer \in [Files -> Seq(Texts)]
      /\ << >> \in Seq(Texts)
  BY HistoryOfNone DEF Typed, TypeOK
<1>3. CASE SinkWrites(t, s)
  <2>1. /\ s \notin Files /\ lines' = [lines EXCEPT ![s] = Append(@, line[t])]
        /\ UNCHANGED buffer /\ Succeeds(t)
    BY <1>3 DEF SinkWrites
  <2>2. /\ \A r \in Sinks : r # s => lines'[r] = lines[r] /\ Waiting(r)' = Waiting(r)
        /\ Waiting(s) = << >> /\ Waiting(s)' = << >>
        /\ lines'[s] = Append(lines[s], line[t])
    BY <1>2, <2>1 DEF Waiting
  <2>3. /\ Append(<< >>, line[t]) \in Seq(Texts)
        /\ lines[s] \o Append(<< >>, line[t]) = Append(lines[s], line[t])
    <3>1. /\ Append(<< >>, line[t]) = << >> \o <<line[t]>>
          /\ << >> \o <<line[t]>> = <<line[t]>> /\ <<line[t]>> \in Seq(Texts)
      BY <1>1, <1>2, AppendIsConcat, ConcatEmptySeq, HistoryOfOne
    <3>2. Append(lines[s], line[t]) = lines[s] \o <<line[t]>>
      BY <1>1, <1>2, AppendIsConcat
    <3> QED
      BY <3>1, <3>2
  <2> QED
    BY <2>1, <2>2, <2>3
<1>4. CASE SinkFails(t, s)
  <2>1. /\ s \notin Files /\ UNCHANGED <<lines, buffer>> /\ Fails(t, s)
    BY <1>4 DEF SinkFails
  <2>2. /\ \A r \in Sinks : lines'[r] = lines[r] /\ Waiting(r)' = Waiting(r)
        /\ Waiting(s) = << >> /\ Kept(s)' = Kept(s)
    BY <2>1 DEF Waiting, Kept
  <2>3. lines'[s] = lines[s] \o << >> /\ AllOf(<< >>) \subseteq Kept(s)
    BY <1>2, <2>2, ConcatEmptySeq, HistoryOfNone
  <2> QED
    BY <1>2, <2>1, <2>2, <2>3
<1>5. CASE FileWrites(t, s)
  <2>1. /\ s \in Files
        /\ lines' = [lines EXCEPT ![s] = @ \o Append(buffer[s], line[t])]
        /\ buffer' = [buffer EXCEPT ![s] = << >>] /\ Succeeds(t)
    BY <1>5 DEF FileWrites
  <2>2. /\ \A r \in Sinks : r # s => lines'[r] = lines[r] /\ Waiting(r)' = Waiting(r)
        /\ Waiting(s) = buffer[s] /\ Waiting(s)' = << >>
        /\ lines'[s] = lines[s] \o Append(buffer[s], line[t])
    BY <1>2, <2>1 DEF Waiting
  <2>3. Append(buffer[s], line[t]) \in Seq(Texts)
    BY <1>1, <1>2, <2>1, AppendProperties
  <2> QED
    BY <2>1, <2>2, <2>3
<1>6. CASE FileFails(t, s)
  <2> DEFINE q == Append(buffer[s], line[t])
             nl == <<[line[t] EXCEPT !.part = "newline"]>>
  <2>1. s \in Files /\ lines[s] \in Seq(Texts) /\ buffer[s] \in Seq(Texts) /\ Fails(t, s)
    BY <1>2, <1>6 DEF FileFails
  <2>2. q \in Seq(Texts) /\ Len(q) = Len(buffer[s]) + 1 /\ Len(buffer[s]) \in Nat
    BY <1>1, <2>1, AppendProperties, LenProperties
  <2>3. PICK n \in 0..(Len(q) - 1), piece \in {"none", "cut"} :
          /\ lines' = [lines EXCEPT ![s] =
                 @ \o SubSeq(q, 1, n)
                   \o (IF piece = "none" THEN << >> ELSE <<[q[n + 1] EXCEPT !.part = piece]>>)]
          /\ \E kept \in {q, buffer[s], nl} : buffer' = [buffer EXCEPT ![s] = kept]
    BY <1>6 DEF FileFails
  <2>4. PICK kept \in {q, buffer[s], nl} : buffer' = [buffer EXCEPT ![s] = kept]
    BY <2>3
  <2> DEFINE c == IF piece = "none" THEN << >> ELSE <<[q[n + 1] EXCEPT !.part = piece]>>
             p == SubSeq(buffer[s], 1, n)
  <2>5. c \in Seq(Texts) /\ AllOf(c) = {}
    BY <1>1, <2>2, <2>3, PieceIsNoLine
  <2>6. n \in 0..Len(buffer[s])
    BY <2>2
  <2>7. SubSeq(q, 1, n) = p /\ p \in Seq(Texts) /\ AllOf(p) \subseteq AllOf(buffer[s])
    BY <1>1, <2>1, <2>6, BeginningOfAppend, BeginningHas
  <2>8. lines' = [lines EXCEPT ![s] = (lines[s] \o p) \o c]
    BY <2>3, <2>7
  <2>9. AllOf(q) = AllOf(buffer[s]) \cup {call[t].number} /\ AllOf(nl) = {}
    <3>1. Longer(q, buffer[s], line[t].number)
      BY <1>1, <2>1, HistoryGrows
    <3>2. [line[t] EXCEPT !.part = "newline"] \in Texts
          /\ [line[t] EXCEPT !.part = "newline"].part # "whole"
      BY <1>1 DEF Texts
    <3>3. AllOf(nl) = {}
      BY <3>2, HistoryOfOne
    <3> QED
      BY <1>1, <3>1, <3>3 DEF Longer
  <2> HIDE DEF c, p, q, nl
  <2>10. /\ p \o c \in Seq(Texts) /\ (lines[s] \o p) \o c = lines[s] \o (p \o c)
         /\ AllOf(p \o c) = AllOf(p) \cup AllOf(c)
    <3>1. p \o c \in Seq(Texts)
      BY <2>5, <2>7, ConcatProperties
    <3>2. (lines[s] \o p) \o c = lines[s] \o (p \o c)
      BY <2>1, <2>5, <2>7, Regroup
    <3>3. AllOf(p \o c) = AllOf(p) \cup AllOf(c)
      BY <2>5, <2>7, HistoryConcat
    <3> QED
      BY <3>1, <3>2, <3>3
  <2>11. /\ \A r \in Sinks : r # s => lines'[r] = lines[r] /\ Waiting(r)' = Waiting(r)
         /\ Waiting(s) = buffer[s] /\ Waiting(s)' = kept
         /\ lines'[s] = (lines[s] \o p) \o c
    BY <1>2, <2>1, <2>4, <2>8 DEF Waiting
  <2>12. Kept(s) = AllOf(buffer[s]) /\ Kept(s)' = AllOf(kept)
    BY <2>11 DEF Kept
  <2>13. AllOf(p \o c) \subseteq Kept(s) /\ Kept(s)' \subseteq Kept(s) \cup {call[t].number}
    BY <2>4, <2>5, <2>7, <2>9, <2>10, <2>12
  <2> QED
    BY <2>1, <2>10, <2>11, <2>13
<1> QED
  BY <1>3, <1>4, <1>5, <1>6 DEF SinkStep

\* What that does to the lines of the sinks and to what waits there.
LEMMA NumbersAtSink ==
    ASSUME Typed, Numbered, NEW t \in Threads, NEW s \in Sinks, SinkStep(t, s)
    PROVE  /\ \A r \in Sinks : r # s =>
                 /\ Numbers(r)' = Numbers(r) /\ Kept(r)' = Kept(r)
                 /\ \A n : Places(r, n)' = Places(r, n)
           /\ Numbers(s) \subseteq Numbers(s)'
           /\ \A n : n \notin Kept(s) /\ n # call[t].number => Places(s, n)' = Places(s, n)
           /\ s \notin Files => Kept(s) = {} /\ Kept(s)' = {}
           /\ \/ /\ Succeeds(t)
                 /\ Numbers(s)' = Numbers(s) \cup Kept(s) \cup {call[t].number}
                 /\ Kept(s)' = {}
                 /\ \A n : n = call[t].number /\ n \notin Has(s) => Once(s, n)'
              \/ /\ Fails(t, s)
                 /\ Numbers(s)' \subseteq Numbers(s) \cup Kept(s)
                 /\ Kept(s)' \subseteq Kept(s) \cup {call[t].number}
<1> DEFINE k == call[t].number
           a == lines[s]
           b == Waiting(s)
           x == line[t]
<1>1. x \in Texts /\ x.part = "whole" /\ x.number = k
  <2>1. pc[t] = "write"
    BY DEF SinkStep, SinkWrites, SinkFails, FileWrites, FileFails, At
  <2>2. x \in [number : 0..MaxCalls, part : {"whole"}] /\ x.number \in Calls
    BY <2>1 DEF Typed, TypeOK, Formatted
  <2> QED
    BY <2>1, <2>2 DEF Numbered, Texts
<1>2. /\ a \in Seq(Texts) /\ b \in Seq(Texts)
      /\ Numbers(s) = AllOf(a) /\ Kept(s) = AllOf(b) /\ Has(s) = AllOf(a) \cup AllOf(b)
  <2>1. /\ a \in Seq(Texts) /\ b \in Seq(Texts)
        /\ Numbers(s) = AllOf(a) /\ Kept(s) = AllOf(b)
    BY NumbersOfSink DEF Kept
  <2>2. Full(s) = a \o b
    BY <2>1, ConcatEmptySeq DEF Full, Waiting
  <2> HIDE DEF a, b
  <2>3. AllOf(a \o b) = AllOf(a) \cup AllOf(b)
    BY <2>1, HistoryConcat
  <2> QED
    BY <2>1, <2>2, <2>3 DEF Has
<1>3. ASSUME NEW r \in Sinks, r # s
      PROVE  /\ Numbers(r)' = Numbers(r) /\ Kept(r)' = Kept(r)
             /\ \A n : Places(r, n)' = Places(r, n)
  <2>1. lines'[r] = lines[r] /\ Waiting(r)' = Waiting(r)
    BY <1>3, TextsAtSink
  <2>2. \A n : Places(r, n)' = Places(r, n)
    BY <2>1 DEF Places
  <2>3. Numbers(r)' = Numbers(r) /\ Kept(r)' = Kept(r)
    BY <2>1, <2>2 DEF Numbers, Kept
  <2> QED
    BY <2>2, <2>3
<1>4. s \notin Files => Kept(s) = {} /\ Kept(s)' = {}
  <2>1. s \notin Files => Waiting(s) = << >> /\ Waiting(s)' = << >>
    BY TextsAtSink
  <2> QED
    BY <2>1, HistoryOfNone DEF Kept
<1>5. PICK added \in Seq(Texts) :
        /\ lines'[s] = a \o added
        /\ \/ /\ Succeeds(t)
              /\ added = Append(b, x)
              /\ Waiting(s)' = << >>
           \/ /\ Fails(t, s)
              /\ AllOf(added) \subseteq Kept(s)
              /\ Kept(s)' \subseteq Kept(s) \cup {k}
  BY TextsAtSink
<1>6. \A n : Places(s, n) = PlacesIn(a, n) /\ Places(s, n)' = PlacesIn(lines'[s], n)
  BY DEF Places, PlacesIn
<1>7. AllOf(Append(b, x)) = AllOf(b) \cup {k}
  BY <1>1, <1>2, HistoryGrows DEF Longer
<1> HIDE DEF k, a, b, x
<1>8. /\ a \o added \in Seq(Texts)
      /\ AllOf(a \o added) = AllOf(a) \cup AllOf(added)
      /\ \A n : n \notin AllOf(added) => PlacesIn(a \o added, n) = PlacesIn(a, n)
  <2>1. a \o added \in Seq(Texts)
    BY <1>2, ConcatProperties
  <2>2. AllOf(a \o added) = AllOf(a) \cup AllOf(added)
    BY <1>2, HistoryConcat
  <2>3. \A n : n \notin AllOf(added) => PlacesIn(a \o added, n) = PlacesIn(a, n)
    BY <1>2, PlacesConcat
  <2> QED
    BY <2>1, <2>2, <2>3
<1>9. Numbers(s)' = AllOf(a \o added)
  <2>1. Numbers(s)' = {n \in Calls : Places(s, n)' # {}}
    BY DEF Numbers
  <2>2. Numbers(s)' = {n \in Calls : PlacesIn(a \o added, n) # {}}
    BY <1>5, <1>6, <2>1
  <2> QED
    BY <1>8, <2>2, NumbersIn
<1>10. AllOf(added) \subseteq Kept(s) \cup {k}
  BY <1>2, <1>5, <1>7
<1>11. \A n : n \notin Kept(s) /\ n # k => Places(s, n)' = Places(s, n)
  BY <1>5, <1>6, <1>8, <1>10
<1>12. CASE Succeeds(t) /\ added = Append(b, x) /\ Waiting(s)' = << >>
  <2>1. Numbers(s)' = Numbers(s) \cup Kept(s) \cup {k}
    BY <1>2, <1>7, <1>8, <1>9, <1>12
  <2>2. Kept(s)' = {}
    BY <1>12, HistoryOfNone DEF Kept
  <2>3. ASSUME NEW n, n = k, n \notin Has(s) PROVE Once(s, n)'
    <3>1. a \o b \in Seq(Texts) /\ AllOf(a \o b) = AllOf(a) \cup AllOf(b)
      BY <1>2, ConcatProperties, HistoryConcat
    <3>2. a \o added = Append(a \o b, x)
      <4>1. Append(b, x) = b \o <<x>> /\ Append(a \o b, x) = (a \o b) \o <<x>>
        BY <1>1, <1>2, <3>1, AppendIsConcat
      <4>2. <<x>> \in Seq(Texts)
        BY <1>1, HistoryOfOne
      <4>3. (a \o b) \o <<x>> = a \o (b \o <<x>>)
        BY <1>2, <4>2, ConcatAssociative
      <4> QED
        BY <1>12, <4>1, <4>3
    <3>3. \A i, j \in PlacesIn(Append(a \o b, x), n) : i = j
      BY <1>1, <1>2, <2>3, <3>1, PlaceOfLast
    <3>4. Places(s, n)' = PlacesIn(Append(a \o b, x), n)
      BY <1>5, <1>6, <3>2
    <3> QED
      BY <3>3, <3>4 DEF Once
  <2> QED
    BY <1>3, <1>4, <1>2, <1>8, <1>9, <1>11, <1>12, <2>1, <2>2, <2>3 DEF k
<1>13. CASE /\ Fails(t, s)
            /\ AllOf(added) \subseteq Kept(s)
            /\ Kept(s)' \subseteq Kept(s) \cup {k}
  BY <1>2, <1>3, <1>4, <1>8, <1>9, <1>11, <1>13 DEF k
<1> QED
  BY <1>5, <1>12, <1>13

\* What becomes of a call is not changed by the calls of other threads.
LEMMA StoryStays ==
    ASSUME NEW u \in Threads, Story(u),
           pc'[u] = pc[u], call'[u] = call[u], next'[u] = next[u],
           ec'[u] = ec[u], ok'[u] = ok[u],
           call[u].number # 0 => failedAt'[call[u].number] = failedAt[call[u].number],
           pc[u] # "idle" => call[u].number # 0,
           \A r \in Sinks : call[u].number \in Numbers(r) => call[u].number \in Numbers(r)',
           \A r \in Sinks : call[u].number # 0 /\ call[u].number \notin Has(r)
                            => call[u].number \notin Has(r)'
    PROVE  Story(u)'
<1>1. ASSUME pc[u] \in {"check", "format", "lock"} PROVE Fresh(u)'
  BY <1>1 DEF Story, Fresh
<1>2. ASSUME call[u].number # 0, Reason(u) PROVE Reason(u)'
  BY <1>2 DEF Reason
<1>3. ASSUME pc[u] = "write" PROVE Underway(u)'
  BY <1>2, <1>3 DEF Story, Underway
<1>4. ASSUME pc[u] = "idle", call[u].number # 0 PROVE Refused(u)' \/ Written(u)'
  <2>1. CASE Refused(u)
    BY <1>4, <2>1 DEF Refused
  <2>2. CASE Written(u)
    BY <1>2, <1>4, <2>2 DEF Written
  <2> QED
    BY <1>4, <2>1, <2>2 DEF Story
<1> QED
  BY <1>1, <1>3, <1>4 DEF Story

\* A call of one sink keeps the results of the callers true.
LEMMA ToldAtSink ==
    ASSUME Typed, Owned, Ordered, Told, NEW t \in Threads, NEW s \in Sinks, SinkStep(t, s)
    PROVE  Told'
<1> DEFINE k == call[t].number
<1>1. /\ pc[t] = "write" /\ next[t] = s /\ next' = [next EXCEPT ![t] = @ + 1]
      /\ UNCHANGED <<pc, call, line, calls, owner>>
  BY DEF SinkStep, SinkWrites, SinkFails, FileWrites, FileFails, At, Succeeds, Fails
<1>2. /\ pc \in [Threads -> {"idle", "check", "format", "lock", "write"}]
      /\ call \in [Threads -> [number : 0..MaxCalls, level : 0..Count]]
      /\ next \in [Threads -> 1..(SinkCount + 1)]
      /\ ec \in [Threads -> SinkErrors \cup {NoError, Invalid}] /\ ok \in [Threads -> BOOLEAN]
      /\ failedAt \in [Calls -> SUBSET Sinks] /\ calls \in Nat
      /\ k \in Calls /\ k =< calls /\ k # 0 /\ s \in Nat /\ \A r \in Sinks : r \in Nat
  <2>1. k \in Calls /\ k =< calls
    BY <1>1 DEF Typed, Called, Ordered, Numbered
  <2>2. k # 0 /\ s \in Nat /\ \A r \in Sinks : r \in Nat
    BY <2>1, SinkLoggerAssumption DEF Calls, Sinks
  <2> QED
    BY <2>1, <2>2, SinkLoggerAssumption DEF Typed, TypeOK
<1>3. /\ Behind /\ Missed /\ OnlyOnce /\ Unused
      /\ \A u \in Threads : Story(u)
  BY DEF Told
<1>4. Underway(t)
  BY <1>1, <1>3 DEF Story
<1>5. s \notin failedAt[k] /\ \A r \in failedAt[k] : r < s
  BY <1>1, <1>2, <1>4 DEF Underway
<1>6. k \notin Has(s) /\ k \notin Numbers(s) /\ k \notin Kept(s)
  <2>1. k \notin Has(s)
    <3>1. s >= s /\ InHand
      BY <1>2 DEF Ordered
    <3> QED
      BY <1>1, <3>1 DEF InHand
  <2> QED
    BY <2>1, NumbersOfSink
<1>7. /\ \A r \in Sinks : r # s =>
             /\ Numbers(r)' = Numbers(r) /\ Kept(r)' = Kept(r)
             /\ \A n : Places(r, n)' = Places(r, n)
      /\ Numbers(s) \subseteq Numbers(s)'
      /\ \A n : n \notin Kept(s) /\ n # k => Places(s, n)' = Places(s, n)
      /\ s \notin Files => Kept(s) = {} /\ Kept(s)' = {}
      /\ \/ /\ Succeeds(t)
            /\ Numbers(s)' = Numbers(s) \cup Kept(s) \cup {k}
            /\ Kept(s)' = {}
            /\ \A n : n = k /\ n \notin Has(s) => Once(s, n)'
         \/ /\ Fails(t, s)
            /\ Numbers(s)' \subseteq Numbers(s) \cup Kept(s)
            /\ Kept(s)' \subseteq Kept(s) \cup {k}
  <2>1. Numbered
    BY DEF Ordered
  <2> QED
    BY <2>1, NumbersAtSink
<1>8. \A r \in Sinks : Kept(r) \subseteq Calls
  BY NumbersOfSink
<1>9. /\ \A n \in Calls : n # k => failedAt'[n] = failedAt[n]
      /\ Succeeds(t) => failedAt'[k] = failedAt[k]
      /\ Fails(t, s) => failedAt'[k] = failedAt[k] \cup {s}
  <2>1. CASE Succeeds(t)
    <3>1. failedAt' = failedAt
      BY <2>1 DEF Succeeds
    <3>2. next'[t] = s + 1 /\ ~ (failedAt' # failedAt)
      BY <1>1, <1>2, <3>1
    <3>3. Fails(t, s) => failedAt[k] = failedAt[k] \cup {s}
      BY <1>2, <3>1 DEF Fails
    <3> QED
      BY <3>1, <3>3
  <2>2. CASE Fails(t, s)
    <3>1. failedAt' = [failedAt EXCEPT ![k] = @ \cup {s}]
      BY <2>2 DEF Fails
    <3>2. Succeeds(t) => failedAt' = failedAt
      BY DEF Succeeds
    <3> HIDE DEF k
    <3> QED
      BY <1>2, <3>1, <3>2
  <2> QED
    BY <1>7, <2>1, <2>2
<1>10. \A n \in Calls : /\ failedAt[n] \subseteq failedAt'[n]
                        /\ failedAt'[n] \subseteq failedAt[n] \cup {s}
  BY <1>7, <1>9
<1>11. /\ \A u \in Threads : u # t => ec'[u] = ec[u] /\ ok'[u] = ok[u] /\ next'[u] = next[u]
       /\ next'[t] = s + 1
       /\ Succeeds(t) => ec'[t] = ec[t] /\ ok'[t] = ok[t]
       /\ Fails(t, s) => ec'[t] = (IF ok[t] THEN s ELSE ec[t]) /\ ok'[t] = FALSE
  BY <1>1, <1>2, <1>7 DEF Succeeds, Fails
<1>12. call'[t].number = k
  BY <1>1
<1> HIDE DEF k
<1>13. Behind'
  <2> SUFFICES ASSUME NEW r \in Sinks, NEW n \in Kept(r)' PROVE r \in failedAt'[n]
    BY DEF Behind
  <2>1. CASE r # s
    BY <1>3, <1>7, <1>8, <1>10, <2>1 DEF Behind
  <2>2. CASE r = s
    <3>1. Fails(t, s) /\ n \in Kept(s) \cup {k}
      BY <1>7, <2>2
    <3> QED
      BY <1>2, <1>3, <1>8, <1>9, <1>10, <2>2, <3>1 DEF Behind
  <2> QED
    BY <2>1, <2>2
<1>14. Missed'
  <2> SUFFICES ASSUME NEW r \in Sinks, r \notin Files, NEW n \in Calls, r \in failedAt'[n]
               PROVE  n \notin Numbers(r)'
    BY DEF Missed
  <2>1. CASE r # s
    BY <1>3, <1>7, <1>10, <2>1 DEF Missed
  <2>2. CASE r = s /\ n # k
    BY <1>3, <1>7, <1>9, <2>2 DEF Missed
  <2>3. CASE r = s /\ n = k
    BY <1>5, <1>6, <1>7, <1>9, <2>3
  <2> QED
    BY <2>1, <2>2, <2>3
<1>15. OnlyOnce'
  <2> SUFFICES ASSUME NEW r \in Sinks, NEW n \in Calls, r \notin failedAt'[n]
               PROVE  Once(r, n)'
    BY DEF OnlyOnce
  <2>1. Once(r, n) /\ n \notin Kept(r)
    BY <1>3, <1>10 DEF OnlyOnce, Behind
  <2>2. CASE r # s \/ n # k
    <3>1. Places(r, n)' = Places(r, n)
      BY <1>7, <2>1, <2>2
    <3> QED
      BY <2>1, <3>1 DEF Once
  <2>3. CASE r = s /\ n = k
    BY <1>6, <1>7, <1>9, <2>3
  <2> QED
    BY <2>2, <2>3
<1>16. Unused'
  <2>1. \A n \in Calls : n > calls => n # k
    BY <1>2, SinkLoggerAssumption DEF Calls
  <2>2. calls' = calls
    BY <1>1
  <2> QED
    BY <1>3, <1>9, <2>1, <2>2 DEF Unused
<1>17. ASSUME NEW u \in Threads, u # t PROVE Story(u)'
  <2> DEFINE n == call[u].number
  <2>1. /\ n \in 0..MaxCalls /\ n # k
        /\ n # 0 => n \in Calls
    BY <1>2, <1>17, SinkLoggerAssumption DEF Ordered, Numbered, Calls, k
  <2>2. pc[u] # "idle" => n # 0
    BY SinkLoggerAssumption DEF Typed, Called, Calls
  <2>3. n # 0 => failedAt'[n] = failedAt[n]
    BY <1>9, <2>1
  <2>4. \A r \in Sinks : n \in Numbers(r) => n \in Numbers(r)'
    BY <1>7
  <2>5. \A r \in Sinks : n # 0 /\ n \notin Has(r) => n \notin Has(r)'
    <3>1. Numbered
      BY DEF Ordered
    <3>2. \A r \in Sinks : Has(r)' \subseteq Has(r) \cup {k}
      BY <3>1, LinesAtSink DEF k
    <3> QED
      BY <2>1, <3>2
  <2>6. /\ pc'[u] = pc[u] /\ call'[u] = call[u] /\ next'[u] = next[u]
        /\ ec'[u] = ec[u] /\ ok'[u] = ok[u] /\ Story(u)
    BY <1>1, <1>3, <1>11, <1>17
  <2> QED
    BY <2>2, <2>3, <2>4, <2>5, <2>6, StoryStays
<1>18. Story(t)'
  <2>1. pc'[t] = "write"
    BY <1>1
  <2>2. Reason(t)'
    <3>1. /\ ok[t] <=> failedAt[k] = {}
          /\ ok[t] => ec[t] = NoError
          /\ ~ ok[t] => ec[t] \in failedAt[k] /\ \A r \in failedAt[k] : ec[t] =< r
      BY <1>4 DEF Underway, Reason, k
    <3>2. ok[t] \in BOOLEAN /\ \A r \in failedAt[k] : r \in Nat
      BY <1>2
    <3>3. /\ ok'[t] <=> failedAt'[k] = {}
          /\ ok'[t] => ec'[t] = NoError
          /\ ~ ok'[t] => ec'[t] \in failedAt'[k] /\ \A r \in failedAt'[k] : ec'[t] =< r
      <4>1. CASE Succeeds(t)
        BY <1>9, <1>11, <3>1, <4>1
      <4>2. CASE Fails(t, s)
        <5>1. ok'[t] = FALSE /\ failedAt'[k] = failedAt[k] \cup {s}
          BY <1>9, <1>11, <4>2
        <5>2. CASE ok[t]
          BY <1>2, <1>11, <3>1, <4>2, <5>1, <5>2
        <5>3. CASE ~ ok[t]
          <6>1. ec'[t] = ec[t]
            BY <1>11, <4>2, <5>3
          <6>2. ec[t] \in failedAt[k] /\ \A r \in failedAt[k] : ec[t] =< r
            BY <3>1, <5>3
          <6>3. ec[t] \in Nat /\ ec[t] < s /\ s \in Nat
            BY <1>2, <1>5, <3>2, <6>2
          <6>4. ec[t] =< s
            BY <6>3
          <6> QED
            BY <5>1, <6>1, <6>2, <6>4
        <5> QED
          BY <5>2, <5>3
      <4> QED
        BY <1>7, <4>1, <4>2
    <3> QED
      BY <1>12, <3>3 DEF Reason
  <2>3. \A r \in failedAt'[k] : r < s + 1
    <3>1. failedAt'[k] \subseteq failedAt[k] \cup {s}
      BY <1>2, <1>10
    <3>2. \A r \in failedAt[k] : r \in Nat /\ r < s
      BY <1>2, <1>5
    <3>3. s \in Nat
      BY <1>2
    <3>4. \A r \in failedAt[k] : r < s + 1
      BY <3>2, <3>3
    <3> QED
      BY <3>1, <3>3, <3>4
  <2>4. ASSUME NEW r \in Sinks, r < s + 1, r \notin failedAt'[k] PROVE k \in Numbers(r)'
    <3>1. CASE r = s
      BY <1>7, <1>9, <2>4, <3>1
    <3>2. CASE r # s
      <4>1. r < s /\ r \notin failedAt[k]
        BY <1>2, <1>10, <2>4, <3>2
      <4>2. k \in Numbers(r)
        BY <1>1, <1>4, <4>1 DEF Underway, k
      <4> QED
        BY <1>7, <3>2, <4>2
    <3> QED
      BY <3>1, <3>2
  <2>5. Underway(t)'
    BY <1>11, <1>12, <2>2, <2>3, <2>4 DEF Underway
  <2> QED
    BY <2>1, <2>5 DEF Story
<1> QED
  BY <1>13, <1>14, <1>15, <1>16, <1>17, <1>18 DEF Told

\* A step that leaves the sinks alone and lets none of them fail.
LEMMA TextsAlone ==
    ASSUME UNCHANGED <<lines, buffer, failedAt>>
    PROVE  /\ \A s \in Sinks : Numbers(s)' = Numbers(s) /\ Has(s)' = Has(s)
           /\ Behind => Behind'
           /\ Missed => Missed'
           /\ OnlyOnce => OnlyOnce'
<1>1. \A s \in Sinks : \A n : Places(s, n)' = Places(s, n)
  BY DEF Places
<1>2. \A s \in Sinks : Numbers(s)' = Numbers(s)
  BY <1>1 DEF Numbers
<1>3. \A s \in Sinks : Has(s)' = Has(s)
  BY SinksAlone
<1>4. \A s \in Sinks : Kept(s)' = Kept(s)
  BY DEF Kept, Waiting
<1>5. Behind => Behind'
  BY <1>4 DEF Behind
<1>6. Missed => Missed'
  BY <1>2 DEF Missed
<1>7. \A s \in Sinks : \A n : Once(s, n) => Once(s, n)'
  BY <1>1 DEF Once
<1>8. OnlyOnce => OnlyOnce'
  BY <1>7 DEF OnlyOnce
<1> QED
  BY <1>2, <1>3, <1>5, <1>6, <1>8

\* Every step keeps the results of the callers true.
LEMMA ToldHolds ==
    ASSUME Typed, Owned, Ordered, Told, [Next]_vars
    PROVE  Told'
<1>1. /\ pc \in [Threads -> {"idle", "check", "format", "lock", "write"}]
      /\ call \in [Threads -> [number : 0..MaxCalls, level : 0..Count]]
      /\ next \in [Threads -> 1..(SinkCount + 1)]
      /\ ec \in [Threads -> SinkErrors \cup {NoError, Invalid}] /\ ok \in [Threads -> BOOLEAN]
      /\ failedAt \in [Calls -> SUBSET Sinks] /\ calls \in Nat
  BY SinkLoggerAssumption DEF Typed, TypeOK
<1>2. Behind /\ Missed /\ OnlyOnce /\ Unused
  BY DEF Told
<1>3. \A u \in Threads : Story(u) /\ (pc[u] # "idle" => call[u].number # 0)
  BY SinkLoggerAssumption DEF Told, Typed, Called, Calls
<1>4. ASSUME UNCHANGED <<lines, buffer, failedAt>>,
             NEW u \in Threads, pc'[u] = pc[u], call'[u] = call[u], next'[u] = next[u],
             ec'[u] = ec[u], ok'[u] = ok[u]
      PROVE  Story(u)'
  <2>1. \A s \in Sinks : Numbers(s)' = Numbers(s) /\ Has(s)' = Has(s)
    BY <1>4, TextsAlone
  <2> QED
    BY <1>3, <1>4, <2>1, StoryStays
<1>5. ASSUME NEW t \in Threads, NEW l \in 0..Count, Log(t, l) PROVE Told'
  <2>1. /\ UNCHANGED <<next, lines, buffer, failedAt>>
        /\ pc[t] = "idle" /\ calls < MaxCalls /\ calls' = calls + 1
        /\ call' = [call EXCEPT ![t] = [number |-> calls + 1, level |-> l]]
    BY <1>5 DEF Log
  <2>2. Behind' /\ Missed' /\ OnlyOnce'
    BY <1>2, <2>1, TextsAlone
  <2>3. Unused'
    <3>1. \A n \in Calls : n > calls + 1 => n > calls
      BY <1>1, SinkLoggerAssumption DEF Calls
    <3> QED
      BY <1>2, <2>1, <3>1 DEF Unused
  <2>4. ASSUME NEW u \in Threads, u # t PROVE Story(u)'
    <3>1. /\ pc'[u] = pc[u] /\ call'[u] = call[u] /\ next'[u] = next[u]
          /\ ec'[u] = ec[u] /\ ok'[u] = ok[u]
      BY <1>1, <1>5, <2>1, <2>4 DEF Log
    <3> QED
      BY <1>4, <2>1, <3>1
  <2>5. Story(t)'
    <3>1. /\ call'[t].number = calls + 1 /\ calls + 1 \in Calls /\ calls + 1 > calls
      BY <1>1, <2>1, SinkLoggerAssumption DEF Calls
    <3>2. failedAt'[call'[t].number] = {}
      BY <1>2, <2>1, <3>1 DEF Unused
    <3>3. \A s \in Sinks : call'[t].number \notin Has(s)'
      <4>1. \A s \in Sinks : Has(s)' = Has(s)
        BY <2>1, TextsAlone
      <4>2. \A s \in Sinks : calls + 1 \notin Has(s)
        BY <1>1 DEF Ordered, Logged
      <4> QED
        BY <3>1, <4>1, <4>2
    <3>4. CASE l \in Levels
      <4>1. pc'[t] = "check" /\ ec'[t] = NoError
        BY <1>1, <1>5, <3>4 DEF Log
      <4>2. Fresh(t)'
        BY <3>2, <4>1 DEF Fresh
      <4> QED
        BY <4>1, <4>2 DEF Story
    <3>5. CASE l \notin Levels
      <4>1. pc'[t] = "idle" /\ ec'[t] = Invalid /\ ok'[t] = FALSE
        BY <1>1, <1>5, <2>1, <3>5 DEF Log
      <4>2. Refused(t)'
        BY <3>2, <3>3, <4>1 DEF Refused
      <4> QED
        BY <4>1, <4>2 DEF Story
    <3> QED
      BY <3>4, <3>5
  <2> QED
    BY <2>2, <2>3, <2>4, <2>5 DEF Told
<1>6. ASSUME NEW t \in Threads, CheckLevel(t) \/ Format(t) \/ Lock(t) \/ Unlock(t) PROVE Told'
  <2>1. UNCHANGED <<call, calls, ec, lines, buffer, failedAt>>
    BY <1>6 DEF CheckLevel, Format, Lock, Unlock
  <2>2. Behind' /\ Missed' /\ OnlyOnce'
    BY <1>2, <2>1, TextsAlone
  <2>3. Unused'
    BY <1>2, <2>1 DEF Unused
  <2>4. \A s \in Sinks : Numbers(s)' = Numbers(s) /\ Has(s)' = Has(s)
    BY <2>1, TextsAlone
  <2>5. ASSUME NEW u \in Threads, u # t PROVE Story(u)'
    <3>1. pc'[u] = pc[u] /\ next'[u] = next[u] /\ ok'[u] = ok[u]
      BY <1>1, <1>6, <2>5 DEF CheckLevel, Format, Lock, Unlock
    <3> QED
      BY <1>4, <2>1, <3>1
  <2>6. Story(t)'
    <3>1. CASE CheckLevel(t) /\ call[t].level >= level
      <4>1. pc[t] = "check" /\ pc'[t] = "format"
        BY <1>1, <3>1 DEF CheckLevel
      <4>2. Fresh(t)'
        BY <1>3, <2>1, <4>1 DEF Story, Fresh
      <4> QED
        BY <4>1, <4>2 DEF Story
    <3>2. CASE CheckLevel(t) /\ ~ (call[t].level >= level)
      <4>1. pc[t] = "check" /\ pc'[t] = "idle" /\ ok'[t] = TRUE
        BY <1>1, <3>2 DEF CheckLevel
      <4>2. Fresh(t) /\ \A s \in Sinks : call[t].number \notin Has(s)
        BY <1>3, <4>1 DEF Story, Ordered, NotYet
      <4>3. Refused(t)'
        BY <2>1, <2>4, <4>1, <4>2 DEF Fresh, Refused
      <4> QED
        BY <4>1, <4>3 DEF Story
    <3>3. CASE Format(t)
      <4>1. pc[t] = "format" /\ pc'[t] = "lock"
        BY <1>1, <3>3 DEF Format
      <4>2. Fresh(t)'
        BY <1>3, <2>1, <4>1 DEF Story, Fresh
      <4> QED
        BY <4>1, <4>2 DEF Story
    <3>4. CASE Lock(t)
      <4>1. pc[t] = "lock" /\ pc'[t] = "write" /\ next'[t] = 1 /\ ok'[t] = TRUE
        BY <1>1, <3>4 DEF Lock
      <4>2. Fresh(t)
        BY <1>3, <4>1 DEF Story
      <4>3. Reason(t)'
        BY <2>1, <4>1, <4>2 DEF Fresh, Reason
      <4>4. \A s \in Sinks : ~ (s < 1)
        BY SinkLoggerAssumption DEF Sinks
      <4>5. Underway(t)'
        BY <2>1, <4>1, <4>2, <4>3, <4>4 DEF Fresh, Underway
      <4> QED
        BY <4>1, <4>5 DEF Story
    <3>5. CASE Unlock(t)
      <4>1. pc[t] = "write" /\ next[t] > SinkCount /\ pc'[t] = "idle" /\ ok'[t] = ok[t]
        BY <1>1, <3>5 DEF Unlock
      <4>2. Underway(t)
        BY <1>3, <4>1 DEF Story
      <4>3. \A s \in Sinks : s < next[t]
        BY <1>1, <4>1, SinkLoggerAssumption DEF Sinks
      <4>4. Reason(t)'
        BY <2>1, <4>1, <4>2 DEF Underway, Reason
      <4>5. Written(t)'
        BY <2>1, <2>4, <4>2, <4>3, <4>4 DEF Underway, Written
      <4> QED
        BY <4>1, <4>5 DEF Story
    <3> QED
      BY <1>6, <3>1, <3>2, <3>3, <3>4, <3>5
  <2> QED
    BY <2>2, <2>3, <2>5, <2>6 DEF Told
<1>7. ASSUME NEW t \in Threads, NEW s \in Sinks, SinkStep(t, s) PROVE Told'
  BY <1>7, ToldAtSink
<1>8. CASE UNCHANGED vars \/ \E l \in 0..Count : SetLevel(l)
  <2>1. UNCHANGED <<locals, calls, lines, buffer, failedAt>>
    BY <1>8 DEF vars, SetLevel
  <2>2. Behind' /\ Missed' /\ OnlyOnce'
    BY <1>2, <2>1, TextsAlone
  <2>3. Unused'
    BY <1>2, <2>1 DEF Unused
  <2>4. \A u \in Threads : Story(u)'
    BY <1>4, <2>1 DEF locals
  <2> QED
    BY <2>2, <2>3, <2>4 DEF Told
<1> QED
  BY <1>5, <1>6, <1>7, <1>8 DEF Next, Continue, SinkStep

\* A set without two elements has at most one.
LEMMA AtMostOne ==
    ASSUME NEW S, \A i, j \in S : i = j
    PROVE  Cardinality(S) =< 1
<1>1. CASE S = {}
  BY <1>1, FS_EmptySet
<1>2. ASSUME NEW i \in S PROVE Cardinality(S) =< 1
  <2>1. S = {i}
    OBVIOUS
  <2>2. Cardinality(S) = 1
    BY <2>1, FS_Singleton
  <2> QED
    BY <2>2
<1> QED
  BY <1>1, <1>2

\* What log() has returned is what became of the record, whatever was logged and
\* failed before, in any of the threads.
THEOREM ResultIsTrue == Spec => []ResultTellsSinks
<1> DEFINE Inv == Typed /\ Owned /\ Ordered /\ Told
<1>1. Init => Inv
  <2> SUFFICES ASSUME Init PROVE Inv
    OBVIOUS
  <2>1. Typed /\ Owned /\ Ordered
    BY OrderedAtFirst
  <2>2. \A s \in Sinks : lines[s] = << >> /\ Waiting(s) = << >>
    BY DEF Init, Waiting
  <2>3. \A s \in Sinks : Kept(s) = {}
    BY <2>2, HistoryOfNone DEF Kept
  <2>4. \A s \in Sinks : \A n : Places(s, n) = {}
    BY <2>2 DEF Places
  <2>5. \A n \in Calls : failedAt[n] = {}
    BY DEF Init
  <2>6. \A t \in Threads : Story(t)
    BY DEF Init, Story
  <2> QED
    BY <2>1, <2>3, <2>4, <2>5, <2>6 DEF Told, Behind, Missed, OnlyOnce, Once, Unused
<1>2. Inv /\ [Next]_vars => Inv'
  BY TypedHolds, OwnedHolds, OrderHolds, ToldHolds
<1>3. Inv => ResultTellsSinks
  <2> SUFFICES ASSUME Inv, NEW t \in Threads, pc[t] = "idle", call[t].number # 0
               PROVE  LET n == call[t].number
                          missed == failedAt[n]
                          got == {s \in Sinks : n \in Numbers(s)}
                      IN  /\ ok[t] <=> ec[t] = NoError
                          /\ ec[t] \in SinkErrors =>
                                 ec[t] \in missed /\ \A s \in missed : ec[t] =< s
                          /\ ok[t] => missed = {} /\ got \in {{}, Sinks}
                          /\ ~ ok[t] => got \ (missed \cap Files) =
                                           (IF ec[t] = Invalid THEN {} ELSE Sinks \ missed)
                          /\ \A s \in Sinks \ (missed \cap Files) : Cardinality(Places(s, n)) =< 1
    BY DEF ResultTellsSinks
  <2> DEFINE n == call[t].number
             missed == failedAt[n]
             got == {s \in Sinks : n \in Numbers(s)}
  <2>1. n \in Calls /\ missed \subseteq Sinks
    BY SinkLoggerAssumption DEF Typed, TypeOK, Calls
  <2>2. /\ NoError \notin SinkErrors /\ Invalid \notin SinkErrors /\ NoError # Invalid
        /\ missed \subseteq SinkErrors
    BY <2>1, SinkLoggerAssumption DEF NoError, Invalid, SinkErrors, Sinks
  <2>3. Missed /\ OnlyOnce /\ (Refused(t) \/ Written(t))
    BY DEF Told, Story
  <2>4. ASSUME NEW s \in Sinks, s \in missed, s \notin Files PROVE n \notin Numbers(s)
    BY <2>1, <2>3, <2>4 DEF Missed
  <2>5. \A s \in Sinks : Numbers(s) \subseteq Has(s)
    BY NumbersOfSink
  <2>6. ASSUME NEW s \in Sinks, s \notin missed \cap Files PROVE Cardinality(Places(s, n)) =< 1
    <3>1. \A i, j \in Places(s, n) : i = j
      <4>1. CASE s \in missed
        BY <2>1, <2>4, <2>6, <4>1 DEF Numbers
      <4>2. CASE s \notin missed
        BY <2>1, <2>3, <4>2 DEF OnlyOnce, Once
      <4> QED
        BY <4>1, <4>2
    <3> QED
      BY <3>1, AtMostOne
  <2> HIDE DEF n
  <2>7. CASE Refused(t)
    <3>1. /\ missed = {} /\ \A s \in Sinks : n \notin Has(s)
          /\ ec[t] = IF ok[t] THEN NoError ELSE Invalid
      BY <2>7 DEF Refused, n
    <3>2. got = {}
      BY <2>5, <3>1
    <3> QED
      BY <2>2, <2>6, <3>1, <3>2 DEF n
  <2>8. CASE Written(t)
    <3>1. /\ ok[t] <=> missed = {}
          /\ ok[t] => ec[t] = NoError
          /\ ~ ok[t] => ec[t] \in missed /\ \A s \in missed : ec[t] =< s
          /\ \A s \in Sinks : s \notin missed => n \in Numbers(s)
      BY <2>8 DEF Written, Reason, n
    <3>2. ok[t] => got = Sinks
      BY <3>1
    <3>3. ~ ok[t] => got \ (missed \cap Files) = Sinks \ missed
      BY <2>4, <3>1
    <3> QED
      BY <2>2, <2>6, <3>1, <3>2, <3>3 DEF n
  <2> QED
    BY <2>3, <2>7, <2>8
<1> QED
  <2> HIDE DEF Inv
  <2> QED
    BY <1>1, <1>2, <1>3, PTL DEF Spec

-----------------------------------------------------------------------------
(* TcpSink.                                                                 *)

\* Where the socket is invalid: in connectAny(), and not in sendAll().
SocketByPhase ==
    /\ stage = "connect" => socket = NoSocket
    /\ stage = "send" => socket # NoSocket

TcpSinkInv == TcpSinkTypeOK /\ SocketByPhase /\ ErrorIffFailed /\ DisconnectedHasReason /\ FramesNotJoined

-----------------------------------------------------------------------------
\* An answer of the resolver is a list of one or two addresses.
LEMMA AnswerType ==
    ASSUME NEW e \in Answers
    PROVE  Len(e) \in 1..2 /\ \A i \in 1..Len(e) : e[i] \in Addresses
<1>1. CASE e \in {<<a>> : a \in Addresses}
  BY <1>1
<1>2. CASE e \in {ab \in Addresses \X Addresses : ab[1] # ab[2]}
  <2>1. PICK a \in Addresses, b \in Addresses : e = <<a, b>>
    BY <1>2
  <2> QED BY <2>1
<1> QED BY <1>1, <1>2 DEF Answers

\* What noteFailure() leaves.
LEMMA FailureNoted ==
    ASSUME TcpSinkTypeOK, NEW error \in {ConnectError, SendError}, NoteFailure(error)
    PROVE  /\ lastError' = error
           /\ failures' \in 1..MaxFailures
           /\ nextAttempt' \in 0..MaxCooldown
           /\ cooldown' \in InitialCooldown..MaxCooldown
           /\ since' = 0
<1>1. failures \in 0..MaxFailures /\ MaxFailures \in Nat \ {0} /\ MaxFailures >= ResolveEvery
  BY TcpSinkAssumption DEF TcpSinkTypeOK
<1>2. One(ResolveEvery) \in 1..MaxFailures
  BY <1>1, TcpSinkAssumption DEF One
<1>3. failures' \in 1..MaxFailures
  BY <1>1, <1>2 DEF NoteFailure
<1>4. /\ nextAttempt' = cooldown
      /\ cooldown \in InitialCooldown..MaxCooldown
      /\ cooldown' = IF 2 * cooldown < MaxCooldown THEN 2 * cooldown ELSE MaxCooldown
  BY DEF NoteFailure, TcpSinkTypeOK, Smaller
<1>5. nextAttempt' \in 0..MaxCooldown /\ cooldown' \in InitialCooldown..MaxCooldown
  BY <1>4, TcpSinkAssumption
<1> QED BY <1>3, <1>5 DEF NoteFailure

\* What noteSuccess() leaves.
LEMMA SuccessNoted ==
    ASSUME NoteSuccess
    PROVE  /\ lastError' = NoFault /\ failures' \in 0..MaxFailures
           /\ nextAttempt' \in 0..MaxCooldown
           /\ cooldown' \in InitialCooldown..MaxCooldown
  BY TcpSinkAssumption DEF NoteSuccess

\* The codes differ.
LEMMA ErrorsDiffer == NoFault # ConnectError /\ NoFault # SendError
  BY DEF NoFault, ConnectError, SendError

\* The invariant holds for a sink that was just opened.
LEMMA TcpSinkStart == TcpSinkInit => TcpSinkInv
<1> SUFFICES ASSUME TcpSinkInit PROVE TcpSinkInv
  OBVIOUS
<1>1. socket \in Addresses /\ socket # NoSocket
  <2>1. PICK i \in DOMAIN endpoints : socket = endpoints[i]
    BY DEF TcpSinkInit
  <2>2. endpoints \in Answers
    BY DEF TcpSinkInit
  <2>3. endpoints[i] \in Addresses
    BY <2>1, <2>2, AnswerType DEF Answers
  <2> QED BY <2>1, <2>3, TcpSinkAssumption
<1>2. TcpSinkTypeOK
  BY <1>1, TcpSinkAssumption DEF TcpSinkInit, TcpSinkTypeOK
<1> QED BY <1>1, <1>2 DEF TcpSinkInit, TcpSinkInv, SocketByPhase, ErrorIffFailed, DisconnectedHasReason,
                          FramesNotJoined

\* writeLine(), wherever it is, and the network keep the invariant.
LEMMA TcpSinkStep == TcpSinkInv /\ [TcpSinkNext]_tcpSinkVars => TcpSinkInv'
<1> SUFFICES ASSUME TcpSinkInv, [TcpSinkNext]_tcpSinkVars PROVE TcpSinkInv'
  OBVIOUS
<1> USE DEF TcpSinkInv, TcpSinkTypeOK, SocketByPhase, ErrorIffFailed, DisconnectedHasReason, FramesNotJoined
<1>1. CASE WriteConnected
  BY <1>1 DEF WriteConnected, sink, network
<1>2. CASE WriteInCooldown
  BY <1>2 DEF WriteInCooldown, Return, sink, network
<1>3. CASE Resolve \/ ResolveFails \/ KeepEndpoints
  <2>1. Reconnects /\ endpoints' \in Answers
    BY <1>3 DEF Resolve, ResolveFails, KeepEndpoints
  <2> QED BY <2>1 DEF Reconnects, network
<1>4. CASE Connect
  <2>1. endpoints[index] \in Addresses
    BY <1>4, AnswerType DEF Connect
  <2>2. socket' \in Addresses /\ socket' # NoSocket
    BY <1>4, <2>1, TcpSinkAssumption DEF Connect
  <2> QED BY <1>4, <2>2, SuccessNoted, TcpSinkAssumption DEF Connect, network
<1>5. CASE ConnectFails
  <2>1. index' \in 1..3
    BY <1>5, AnswerType DEF ConnectFails
  <2> QED BY <1>5, <2>1 DEF ConnectFails, sink, network
<1>6. CASE NoEndpointLeft
  <2>1. /\ lastError' = ConnectError /\ failures' \in 1..MaxFailures
        /\ nextAttempt' \in 0..MaxCooldown
        /\ cooldown' \in InitialCooldown..MaxCooldown /\ since' = 0
    BY <1>6, FailureNoted DEF NoEndpointLeft
  <2> QED BY <1>6, <2>1, ErrorsDiffer, TcpSinkAssumption DEF NoEndpointLeft, Return, network
<1>7. CASE SendSome
  BY <1>7, TcpSinkAssumption DEF SendSome, sink, network
<1>8. CASE SendDone
  BY <1>8, TcpSinkAssumption DEF SendDone, Return, sink, network
<1>9. CASE SendFails
  <2>1. /\ lastError' = SendError /\ failures' \in 1..MaxFailures
        /\ nextAttempt' \in 0..MaxCooldown
        /\ cooldown' \in InitialCooldown..MaxCooldown /\ since' = 0
    BY <1>9, FailureNoted DEF SendFails
  <2> QED BY <1>9, <2>1, ErrorsDiffer, TcpSinkAssumption DEF SendFails, Return, network
<1>10. CASE Tick
  <2>1. nextAttempt' \in 0..MaxCooldown /\ since' \in 0..MaxCooldown
    BY <1>10, TcpSinkAssumption DEF Tick, Smaller
  <2> QED BY <1>10, <2>1 DEF Tick, writing, network
<1>11. CASE NetworkChanges
  BY <1>11 DEF NetworkChanges, sink, writing
<1>12. CASE UNCHANGED tcpSinkVars
  BY <1>12 DEF tcpSinkVars, sink, writing, network
<1> QED BY <1>1, <1>2, <1>3, <1>4, <1>5, <1>6, <1>7, <1>8, <1>9, <1>10, <1>11, <1>12
        DEF TcpSinkNext, WriteLine, Proceed

\* So it holds in every state.
LEMMA TcpSinkInvariant == TcpSinkSpec => []TcpSinkInv
  BY TcpSinkStart, TcpSinkStep, PTL DEF TcpSinkSpec

-----------------------------------------------------------------------------
\* The members keep their types for any settings: the pause never exceeds
\* MaxCooldown and connectAny() stays within the list of endpoints.
THEOREM TcpSinkTypeCorrect == TcpSinkSpec => []TcpSinkTypeOK
<1>1. TcpSinkInv => TcpSinkTypeOK
  BY DEF TcpSinkInv
<1> QED BY <1>1, TcpSinkInvariant, PTL

\* writeLine() returns FALSE exactly when it leaves an error, in the pause too.
THEOREM ErrorsAreTold == TcpSinkSpec => []ErrorIffFailed
<1>1. TcpSinkInv => ErrorIffFailed
  BY DEF TcpSinkInv
<1> QED BY <1>1, TcpSinkInvariant, PTL

\* A sink without a connection knows why it has none.
THEOREM ReasonIsKept == TcpSinkSpec => []DisconnectedHasReason
<1>1. TcpSinkInv => DisconnectedHasReason
  BY DEF TcpSinkInv
<1> QED BY <1>1, TcpSinkInvariant, PTL

\* A frame starts on a connection that has carried whole frames only.
THEOREM FramesStartFresh == TcpSinkSpec => []FramesNotJoined
<1>1. TcpSinkInv => FramesNotJoined
  BY DEF TcpSinkInv
<1> QED BY <1>1, TcpSinkInvariant, PTL

-----------------------------------------------------------------------------
(* The pause doubles.                                                       *)

\* Doubled() is what its recursion says.
LEMMA DoubledSteps ==
    ASSUME NEW N \in Nat
    PROVE  \E f \in [0..N -> Nat] :
              /\ f[0] = InitialCooldown
              /\ \A n \in 1..N : f[n] = 2 * f[n - 1]
              /\ Doubled(N) = f[N]
<1> DEFINE Solves(f) == f = [n \in 0..N |-> IF n = 0 THEN InitialCooldown ELSE 2 * f[n - 1]]
           step == [n \in 1..N |-> [v \in Nat |-> 2 * v]]
           doubled == CHOOSE f : Solves(f)
<1>1. Doubled(N) = doubled[N]
  BY DEF Doubled
<1>2. InitialCooldown \in Nat
  BY TcpSinkAssumption
<1>3. \E f : Solves(f)
  <2>1. \A n \in 1..N, v \in Nat : step[n][v] = 2 * v /\ step[n][v] \in Nat
    OBVIOUS
  <2> HIDE DEF step
  <2>2. PICK f \in [0..N -> Nat] :
           f[0] = InitialCooldown /\ \A n \in 1..N : f[n] = step[n][f[n - 1]]
    <3>1. StaysIn(Nat, N, step)
      BY <2>1 DEF StaysIn
    <3>2. \E f \in [0..N -> Nat] : Iterates(f, InitialCooldown, N, step)
      BY <1>2, <3>1, RecursionExists
    <3> QED BY <3>2 DEF Iterates
  <2>3. ASSUME NEW n \in 0..N
        PROVE  f[n] = IF n = 0 THEN InitialCooldown ELSE 2 * f[n - 1]
    <3>1. CASE n = 0
      BY <2>2, <3>1
    <3>2. CASE n # 0
      <4>1. n \in 1..N /\ n - 1 \in 0..N
        BY <3>2
      <4>2. f[n] = step[n][f[n - 1]] /\ f[n - 1] \in Nat
        BY <2>2, <4>1
      <4> QED BY <2>1, <3>2, <4>1, <4>2
    <3> QED BY <3>1, <3>2
  <2> DEFINE g == [n \in 0..N |-> IF n = 0 THEN InitialCooldown ELSE 2 * f[n - 1]]
  <2>4. f = g
    <3>1. \A n \in 0..N : f[n] = g[n]
      BY <2>3
    <3>2. f = [n \in 0..N |-> f[n]] /\ g = [n \in 0..N |-> g[n]]
      OBVIOUS
    <3> HIDE DEF g
    <3> QED BY <3>1, <3>2
  <2>5. Solves(f)
    BY <2>4
  <2> QED BY <2>5
<1>4. Solves(doubled)
  <2> HIDE DEF Solves
  <2> QED BY <1>3
<1> HIDE DEF doubled
<1>5. doubled[0] = InitialCooldown /\ \A n \in 1..N : doubled[n] = 2 * doubled[n - 1]
  BY <1>4
<1> DEFINE K == {n \in Nat : n =< N => doubled[n] \in Nat}
<1>6. 0 \in K
  BY <1>2, <1>5
<1>7. ASSUME NEW n \in Nat, n \in K PROVE n + 1 \in K
  <2> SUFFICES ASSUME n + 1 =< N PROVE doubled[n + 1] \in Nat
    OBVIOUS
  <2>1. n + 1 \in 1..N /\ (n + 1) - 1 = n /\ doubled[n] \in Nat
    BY <1>7
  <2>2. doubled[n + 1] = 2 * doubled[n]
    BY <1>5, <2>1
  <2> QED BY <2>1, <2>2
<1>8. Nat \subseteq K
  <2> HIDE DEF K
  <2> QED BY <1>6, <1>7, SetInduction
<1>9. doubled \in [0..N -> Nat]
  <2>1. \A n \in 0..N : doubled[n] \in Nat
    BY <1>8
  <2>2. doubled = [n \in 0..N |-> IF n = 0 THEN InitialCooldown ELSE 2 * doubled[n - 1]]
    BY <1>4
  <2>3. doubled = [n \in 0..N |-> doubled[n]]
    BY <2>2
  <2> QED BY <2>1, <2>3
<1> QED BY <1>1, <1>5, <1>9

\* The first pause, and each in terms of the one before.
LEMMA DoubledNumber == ASSUME NEW n \in Nat PROVE Doubled(n) \in Nat
<1>1. PICK f \in [0..n -> Nat] : Doubled(n) = f[n]
  BY DoubledSteps
<1> QED BY <1>1

\* The doubling begins with the first pause.
LEMMA DoubledFirst == Doubled(0) = InitialCooldown
<1>1. PICK f \in [0..0 -> Nat] : f[0] = InitialCooldown /\ Doubled(0) = f[0]
  BY DoubledSteps
<1> QED BY <1>1

\* Each further failure doubles it.
LEMMA DoubledNext == ASSUME NEW n \in Nat PROVE Doubled(n + 1) = 2 * Doubled(n)
<1>1. PICK f \in [0..n -> Nat] :
         /\ f[0] = InitialCooldown
         /\ \A i \in 1..n : f[i] = 2 * f[i - 1]
         /\ Doubled(n) = f[n]
  BY DoubledSteps
<1>2. PICK g \in [0..(n + 1) -> Nat] :
         /\ g[0] = InitialCooldown
         /\ \A i \in 1..(n + 1) : g[i] = 2 * g[i - 1]
         /\ Doubled(n + 1) = g[n + 1]
  <2>1. n + 1 \in Nat
    OBVIOUS
  <2> QED BY <2>1, DoubledSteps
<1> DEFINE K == {i \in Nat : i =< n => f[i] = g[i]}
<1>3. 0 \in K
  BY <1>1, <1>2
<1>4. ASSUME NEW i \in Nat, i \in K PROVE i + 1 \in K
  <2> SUFFICES ASSUME i + 1 =< n PROVE f[i + 1] = g[i + 1]
    OBVIOUS
  <2>1. i + 1 \in 1..n /\ i + 1 \in 1..(n + 1) /\ (i + 1) - 1 = i /\ f[i] = g[i]
    BY <1>4
  <2>2. f[i + 1] = 2 * f[i] /\ g[i + 1] = 2 * g[i]
    BY <1>1, <1>2, <2>1
  <2> QED BY <2>1, <2>2
<1>5. Nat \subseteq K
  <2> HIDE DEF K
  <2> QED BY <1>3, <1>4, SetInduction
<1>6. f[n] = g[n]
  BY <1>5
<1>7. g[n + 1] = 2 * g[n]
  <2>1. n + 1 \in 1..(n + 1) /\ (n + 1) - 1 = n
    OBVIOUS
  <2> QED BY <1>2, <2>1
<1> QED BY <1>1, <1>2, <1>6, <1>7

\* The pause doubles up to MaxCooldown, and does not shrink.
LEMMA PauseNumber == ASSUME NEW n \in Nat PROVE Pause(n) \in 0..MaxCooldown
  BY DoubledNumber, TcpSinkAssumption DEF Pause, Smaller

\* The first pause.
LEMMA PauseFirst == Pause(0) = InitialCooldown
  BY DoubledFirst, TcpSinkAssumption DEF Pause, Smaller

\* Each further pause is twice the one before, up to the longest.
LEMMA PauseNext == ASSUME NEW n \in Nat PROVE Pause(n + 1) = Smaller(2 * Pause(n), MaxCooldown)
  BY DoubledNumber, DoubledNext, TcpSinkAssumption DEF Pause, Smaller

\* No pause is shorter than an earlier one.
LEMMA PauseGrows == ASSUME NEW m \in Nat, NEW n \in Nat, m =< n PROVE Pause(m) =< Pause(n)
<1> DEFINE K == {k \in Nat : Pause(m) =< Pause(m + k)}
<1>1. 0 \in K
  <2>1. m + 0 = m /\ Pause(m) \in Nat
    BY PauseNumber, TcpSinkAssumption
  <2> QED BY <2>1
<1>2. ASSUME NEW k \in Nat, k \in K PROVE k + 1 \in K
  <2>1. m + k \in Nat /\ m + (k + 1) = (m + k) + 1 /\ Pause(m) =< Pause(m + k)
    BY <1>2
  <2>2. Pause((m + k) + 1) = Smaller(2 * Pause(m + k), MaxCooldown)
    BY <2>1, PauseNext
  <2>3. Pause(m) \in 0..MaxCooldown /\ Pause(m + k) \in 0..MaxCooldown
    BY <2>1, PauseNumber
  <2>4. Pause(m) =< Pause((m + k) + 1)
    BY <2>1, <2>2, <2>3, TcpSinkAssumption DEF Smaller
  <2> QED BY <2>1, <2>4
<1>3. Nat \subseteq K
  <2> HIDE DEF K
  <2> QED BY <1>1, <1>2, SetInduction
<1>4. n - m \in K /\ m + (n - m) = n
  BY <1>3
<1> QED BY <1>4

-----------------------------------------------------------------------------
(* A sink without a connection has still to wait what is left of the pause. *)
Paused == socket = NoSocket => since + nextAttempt >= Pause(failures - 1)

Pauses == CooldownDoubles /\ Paused

\* What a failure does to both, also where the count of failures turns back.
LEMMA FailurePauses ==
    ASSUME TcpSinkTypeOK, CooldownDoubles, NEW error, NoteFailure(error)
    PROVE  Pauses'
<1>1. /\ failures \in 0..MaxFailures /\ MaxFailures \in Nat /\ MaxFailures >= 1
      /\ One(ResolveEvery) \in 1..MaxFailures /\ cooldown = Pause(failures)
  BY TcpSinkAssumption DEF TcpSinkTypeOK, One, CooldownDoubles
<1>2. /\ nextAttempt' = Pause(failures) /\ since' = 0
      /\ cooldown' = Smaller(2 * Pause(failures), MaxCooldown)
  BY <1>1 DEF NoteFailure
<1>3. cooldown' = Pause(failures + 1) /\ Pause(failures) \in 0..MaxCooldown
  BY <1>1, <1>2, PauseNext, PauseNumber
<1>4. CASE failures < MaxFailures
  <2>1. failures' = failures + 1 /\ (failures + 1) - 1 = failures
    BY <1>1, <1>4 DEF NoteFailure
  <2> QED BY <1>2, <1>3, <2>1, TcpSinkAssumption DEF Pauses, CooldownDoubles, Paused
<1>5. CASE ~ (failures < MaxFailures)
  <2> DEFINE back == MaxFailures + 1 - One(ResolveEvery)
  <2>1. failures = MaxFailures /\ failures' = back /\ back \in 1..MaxFailures /\ Pause(back) = MaxCooldown
    BY <1>1, <1>5, BoundAssumption DEF NoteFailure
  <2> HIDE DEF back
  <2>2. Pause(back) =< Pause(failures + 1) /\ Pause(failures + 1) \in 0..MaxCooldown
    <3>1. back \in Nat /\ failures + 1 \in Nat /\ back =< failures + 1
      BY <1>1, <2>1
    <3> QED BY <3>1, PauseGrows, PauseNumber
  <2>3. cooldown' = Pause(failures')
    BY <1>3, <2>1, <2>2, TcpSinkAssumption
  <2>4. Pause(back - 1) =< Pause(failures) /\ Pause(back - 1) \in 0..MaxCooldown
    <3>1. back - 1 \in Nat /\ failures \in Nat /\ back - 1 =< failures
      BY <1>1, <2>1
    <3> QED BY <3>1, PauseGrows, PauseNumber
  <2> QED
    BY <1>2, <1>3, <2>1, <2>3, <2>4, TcpSinkAssumption DEF Pauses, CooldownDoubles, Paused
<1> QED BY <1>4, <1>5

\* The pauses hold for a sink that was just opened.
LEMMA PausesStart == TcpSinkInit => Pauses
<1> SUFFICES ASSUME TcpSinkInit PROVE Pauses
  OBVIOUS
<1>1. socket # NoSocket
  BY TcpSinkStart DEF TcpSinkInv, DisconnectedHasReason, TcpSinkInit
<1>2. cooldown = Pause(failures)
  BY PauseFirst DEF TcpSinkInit
<1> QED BY <1>1, <1>2 DEF Pauses, CooldownDoubles, Paused

\* And every step of writeLine() and of the clock keeps them.
LEMMA PausesStep == TcpSinkInv /\ Pauses /\ [TcpSinkNext]_tcpSinkVars => Pauses'
<1> SUFFICES ASSUME TcpSinkInv, Pauses, [TcpSinkNext]_tcpSinkVars PROVE Pauses'
  OBVIOUS
<1>0. TcpSinkTypeOK /\ CooldownDoubles
  BY DEF TcpSinkInv, Pauses
<1>1. CASE \/ UNCHANGED tcpSinkVars \/ WriteConnected \/ WriteInCooldown \/ Resolve \/ ResolveFails
           \/ KeepEndpoints \/ ConnectFails \/ SendSome \/ SendDone \/ NetworkChanges
  <2>1. UNCHANGED <<socket, nextAttempt, cooldown, failures, since>>
    BY <1>1 DEF tcpSinkVars, sink, WriteConnected, WriteInCooldown, Resolve, ResolveFails,
                KeepEndpoints, Reconnects, ConnectFails, SendSome, SendDone, NetworkChanges
  <2> QED BY <2>1 DEF Pauses, CooldownDoubles, Paused
<1>2. CASE Connect
  <2>1. socket' # NoSocket
    <3>1. endpoints[index] \in Addresses
      BY <1>0, <1>2, AnswerType DEF Connect, TcpSinkTypeOK
    <3> QED BY <1>2, <3>1, TcpSinkAssumption DEF Connect
  <2>2. cooldown' = InitialCooldown /\ failures' = 0
    BY <1>2 DEF Connect, NoteSuccess
  <2> QED BY <2>1, <2>2, PauseFirst DEF Pauses, CooldownDoubles, Paused
<1>3. CASE NoEndpointLeft
  BY <1>0, <1>3, FailurePauses DEF NoEndpointLeft
<1>4. CASE SendFails
  BY <1>0, <1>4, FailurePauses DEF SendFails
<1>5. CASE Tick
  <2>1. /\ UNCHANGED <<socket, cooldown, failures>>
        /\ nextAttempt' = IF nextAttempt > 0 THEN nextAttempt - 1 ELSE 0
        /\ since' = IF since + 1 < MaxCooldown THEN since + 1 ELSE MaxCooldown
    BY <1>5 DEF Tick, Smaller
  <2>2. ASSUME socket = NoSocket PROVE since' + nextAttempt' >= Pause(failures - 1)
    <3>1. failures - 1 \in Nat
      BY <1>0, <2>2 DEF TcpSinkInv, DisconnectedHasReason, TcpSinkTypeOK
    <3>2. Pause(failures - 1) \in 0..MaxCooldown
      BY <3>1, PauseNumber
    <3>3. since + nextAttempt >= Pause(failures - 1)
      BY <2>2 DEF Pauses, Paused
    <3>4. since \in 0..MaxCooldown /\ nextAttempt \in 0..MaxCooldown
      BY <1>0 DEF TcpSinkTypeOK
    <3> QED BY <2>1, <3>2, <3>3, <3>4, TcpSinkAssumption
  <2> QED BY <2>1, <2>2 DEF Pauses, CooldownDoubles, Paused
<1> QED BY <1>1, <1>2, <1>3, <1>4, <1>5 DEF TcpSinkNext, WriteLine, Proceed

\* So they hold in every state.
LEMMA PausesKept == TcpSinkSpec => []Pauses
  BY PausesStart, PausesStep, TcpSinkInvariant, PTL DEF TcpSinkSpec

\* After k failures in a row the cooldown is InitialCooldown doubled k times, at
\* most MaxCooldown, whatever came before them (TcpSink.cpp:168-180).
THEOREM CooldownIsDoubled == TcpSinkSpec => []CooldownDoubles
<1>1. Pauses => CooldownDoubles
  BY DEF Pauses
<1> QED BY <1>1, PausesKept, PTL

\* Nothing is tried before the pause that the last failure asked for is over
\* (TcpSink.cpp:110-113,168-173).
THEOREM NoAttemptInThePause == TcpSinkSpec => PauseBetweenAttempts
<1>1. TcpSinkInv /\ Pauses /\ [TcpSinkNext]_tcpSinkVars
        => [stage = "idle" /\ stage' = "connect" => since >= Pause(failures - 1)]_tcpSinkVars
  <2> SUFFICES ASSUME TcpSinkInv, Pauses, [TcpSinkNext]_tcpSinkVars, stage = "idle", stage' = "connect"
               PROVE  since >= Pause(failures - 1)
    OBVIOUS
  <2>1. Reconnects
    BY DEF TcpSinkNext, WriteLine, Proceed, WriteConnected, WriteInCooldown, Resolve, ResolveFails,
           KeepEndpoints, Connect, ConnectFails, NoEndpointLeft, SendSome, SendDone, SendFails,
           Tick, NetworkChanges, Return, writing, tcpSinkVars
  <2>2. socket = NoSocket /\ nextAttempt = 0
    BY <2>1 DEF Reconnects
  <2>3. since + nextAttempt >= Pause(failures - 1) /\ since \in Nat
    BY <2>2, TcpSinkAssumption DEF Pauses, Paused, TcpSinkInv, TcpSinkTypeOK
  <2> QED BY <2>2, <2>3
<1> QED BY <1>1, TcpSinkInvariant, PausesKept, PTL DEF TcpSinkSpec, PauseBetweenAttempts
=============================================================================

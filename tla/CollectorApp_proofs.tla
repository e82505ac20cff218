------------------------- MODULE CollectorApp_proofs -------------------------
(***************************************************************************)
(* Proofs about CollectorApp: whatever `every', the timeout, the clock's   *)
(* resolution and the batches are, nothing is counted twice or left out of *)
(* the reports, a report that is due is not waited for, and a signal is    *)
(* noticed after one call of receive().  The last two need a timeout that  *)
(* an int can hold in milliseconds, which parseOptions() does not check.   *)
(*                                                                         *)
(* And about the Statistics it reports (MessageCount): whatever was added  *)
(* and whenever, a snapshot tells the messages of the last hour and the    *)
(* totals exactly.                                                         *)
(***************************************************************************)
EXTENDS CollectorApp, MessageCount, Induction, FiniteSetTheorems, SequenceTheorems, TLAPS

-----------------------------------------------------------------------------
(* What the inductive invariant is made of.                                 *)

\* The counters agree with each other.
Counters ==
    /\ CountedOnce
    /\ counted = dropped
    /\ pc \in {"listen", "start", "rearm", "done"} => sinceReport = 0
    /\ exit # "running" <=> pc = "done"

\* late changes only once, on the way from a flag seen clear to receive().
Signals ==
    /\ late =< 1
    /\ late = 1 => stopping /\ pc # "plan"

\* The deadline is not later than the timeout of the oldest message without a
\* report, and poll() ends in the millisecond of the deadline.
Deadlines ==
    /\ pc \in {"check", "plan", "receive"} => sinceReport < Every
    /\ sinceReport > 0 => deadline =< grace
    /\ pc = "receive" => poll # Forever /\ poll < deadline + TicksPerMs

-----------------------------------------------------------------------------
(* Arithmetic.                                                              *)

\* TimeoutTicks is a number.
LEMMA TimeoutTicksType == TimeoutTicks \in Nat \ {0}
  BY CollectorAppAssumption DEF TimeoutTicks

\* The quotient of a division.
LEMMA Quotient ==
    ASSUME NEW a \in Nat, NEW b \in Nat \ {0}
    PROVE  /\ a \div b \in Nat
           /\ (a \div b) * b =< a
           /\ a < (a \div b) * b + b
  OBVIOUS

\* An int keeps a number that it can hold.
LEMMA AsIntKeeps ==
    ASSUME NEW n \in Nat, n =< IntMax
    PROVE  AsInt(n) = n
  BY CollectorAppAssumption DEF AsInt

\* The wait is the deadline rounded up to milliseconds.
LEMMA WaitIsRoundedUp ==
    ASSUME NEW ticks \in 0..TimeoutTicks
    PROVE  /\ WaitFor(ticks) \in 0..Timeout
           /\ ticks =< WaitFor(ticks) * TicksPerMs
           /\ WaitFor(ticks) * TicksPerMs < ticks + TicksPerMs
<1>1. ticks \in Nat /\ TicksPerMs \in Nat \ {0} /\ Timeout \in Nat
  BY CollectorAppAssumption, TimeoutTicksType
<1> DEFINE a == ticks + TicksPerMs - 1
<1>2. a \in Nat /\ a =< Timeout * TicksPerMs + TicksPerMs - 1
  BY <1>1, TimeoutTicksType DEF TimeoutTicks
<1>3. /\ WaitFor(ticks) \in Nat
      /\ WaitFor(ticks) * TicksPerMs =< a
      /\ a < WaitFor(ticks) * TicksPerMs + TicksPerMs
  BY <1>1, <1>2, Quotient DEF WaitFor
<1>4. WaitFor(ticks) =< Timeout
  <2> DEFINE w == WaitFor(ticks)
  <2>1. SUFFICES ASSUME w >= Timeout + 1 PROVE FALSE
    BY <1>1, <1>3
  <2>2. w * TicksPerMs >= (Timeout + 1) * TicksPerMs
    <3> HIDE DEF w
    <3>1. w \in Nat
      BY <1>3 DEF w
    <3> QED BY <1>1, <2>1, <3>1
  <2>3. (Timeout + 1) * TicksPerMs = Timeout * TicksPerMs + TicksPerMs
    BY <1>1
  <2> QED BY <1>1, <1>2, <1>3, <2>2, <2>3
<1> QED BY <1>1, <1>3, <1>4

-----------------------------------------------------------------------------
(* Type correctness.                                                        *)

\* A batch is made of numbers.
LEMMA BatchType ==
    ASSUME NEW batch \in Batches
    PROVE  /\ batch.records \in Nat /\ batch.rubbish \in Nat /\ batch.drops \in Nat
           /\ MessagesIn(batch) = batch.records + batch.rubbish + batch.drops
  BY CollectorAppAssumption DEF Batches, MessagesIn

\* CountDown stays in a range that starts at 0.
LEMMA CountDownType ==
    ASSUME NEW n \in Nat
    PROVE  CountDown(n) \in Nat /\ CountDown(n) =< n
  BY DEF CountDown

\* A step of the collector, a signal or the clock keeps the types.
LEMMA TypeStep == TypeOK /\ counted = dropped /\ [Next]_vars => TypeOK'
<1> SUFFICES ASSUME TypeOK, counted = dropped, [Next]_vars PROVE TypeOK'
  OBVIOUS
<1> USE DEF TypeOK
<1>0. TimeoutTicks \in Nat \ {0}
  BY TimeoutTicksType
<1>1. CASE Listens \/ ListenFails
  BY <1>1 DEF Listens, ListenFails, statistics, history
<1>2. CASE Rearm
  BY <1>0, <1>2 DEF Rearm, statistics, history
<1>3. CASE GoOn \/ NothingDue \/ ReceiveTimesOut
  BY <1>3 DEF GoOn, NothingDue, ReceiveTimesOut, statistics, history
<1>4. CASE Stop \/ ReceiveFails \/ ReportCount \/ ReportTimeout
  BY <1>4 DEF Stop, ReceiveFails, ReportCount, ReportTimeout, Report
<1>5. CASE BeginReceive
  <2> DEFINE wait == AsInt(WaitFor(deadline))
  <2>1. WaitFor(deadline) \in Int
    BY <1>0, WaitIsRoundedUp
  <2>2. wait \in Int
    <3> HIDE DEF TypeOK
    <3>1. 2 * IntMax + 2 \in Nat \ {0} /\ IntMax \in Int
      BY CollectorAppAssumption
    <3> QED BY <2>1, <3>1 DEF AsInt
  <2>3. wait >= 0 => wait * TicksPerMs \in Nat
    <3> HIDE DEF wait
    <3> QED BY <2>2, CollectorAppAssumption
  <2> HIDE DEF wait
  <2>4. poll' = IF wait < 0 THEN Forever ELSE wait * TicksPerMs
    BY <1>5 DEF BeginReceive, wait
  <2>5. poll' \in Nat \cup {Forever}
    BY <2>2, <2>3, <2>4
  <2> QED BY <1>5, <2>5 DEF BeginReceive, statistics
<1>6. ASSUME NEW batch \in Batches, Receive(batch) PROVE TypeOK'
  BY <1>0, <1>6, BatchType DEF Receive, Consume
<1>7. CASE Signal
  BY <1>7 DEF Signal, statistics, history
<1>8. CASE Tick
  <2>1. poll \in Nat => poll' \in Nat
    BY <1>8, CountDownType DEF Tick
  <2>2. poll = Forever => poll' = Forever
    BY <1>8 DEF Tick, CountDown, Forever
  <2>3. deadline' \in 0..TimeoutTicks /\ grace' \in 0..TimeoutTicks
    BY <1>0, <1>8, CountDownType DEF Tick
  <2> QED BY <1>8, <2>1, <2>2, <2>3 DEF Tick, statistics
<1>9. CASE Done \/ UNCHANGED vars
  BY <1>9 DEF Done, vars, statistics, history
<1> QED BY <1>1, <1>2, <1>3, <1>4, <1>5, <1>6, <1>7, <1>8, <1>9 DEF Next, Run

-----------------------------------------------------------------------------
(* The conjuncts of the inductive invariant.                                *)

\* No step counts a message twice or loses one (CollectorApp.cpp:68-94).
LEMMA CountersStep == TypeOK /\ Counters /\ [Next]_vars => Counters'
<1> SUFFICES ASSUME TypeOK, Counters, [Next]_vars PROVE Counters'
  OBVIOUS
<1> USE DEF TypeOK, Counters, CountedOnce
<1>1. CASE Listens \/ ListenFails
  BY <1>1 DEF Listens, ListenFails, statistics, history
<1>2. CASE Rearm \/ GoOn \/ BeginReceive \/ NothingDue \/ ReceiveTimesOut
  BY <1>2 DEF Rearm, GoOn, BeginReceive, NothingDue, ReceiveTimesOut, statistics, history
<1>3. CASE Stop \/ ReceiveFails \/ ReportCount \/ ReportTimeout
  BY <1>3 DEF Stop, ReceiveFails, ReportCount, ReportTimeout, Report
<1>4. ASSUME NEW batch \in Batches, Receive(batch) PROVE Counters'
  <2>1. /\ pc = "receive" /\ pc' = "review" /\ exit' = exit /\ reported' = reported
        /\ received' = received + MessagesIn(batch)
        /\ Consume(batch)
    BY <1>4 DEF Receive
  <2>2. /\ total' = total + batch.records
        /\ malformed' = malformed + batch.rubbish + batch.drops
        /\ sinceReport' = sinceReport + batch.records + batch.rubbish + batch.drops
        /\ counted' = dropped'
    BY <2>1, BatchType DEF Consume
  <2>3. CountedOnce'
    BY <2>1, <2>2, BatchType
  <2> QED BY <2>1, <2>2, <2>3
<1>5. CASE Signal \/ Tick
  BY <1>5 DEF Signal, Tick, statistics, history
<1>6. CASE Done \/ UNCHANGED vars
  BY <1>6 DEF Done, vars, statistics, history
<1> QED BY <1>1, <1>2, <1>3, <1>4, <1>5, <1>6 DEF Next, Run

\* No step begins a second wait after a signal (CollectorApp.cpp:37-44).
LEMMA SignalsStep == TypeOK /\ Signals /\ [Next]_vars => Signals'
<1> SUFFICES ASSUME TypeOK, Signals, [Next]_vars PROVE Signals'
  OBVIOUS
<1> USE DEF TypeOK, Signals
<1>1. CASE Listens \/ ListenFails \/ Rearm \/ NothingDue \/ ReceiveTimesOut
  BY <1>1 DEF Listens, ListenFails, Rearm, NothingDue, ReceiveTimesOut, history
<1>2. CASE GoOn \/ BeginReceive
  BY <1>2 DEF GoOn, BeginReceive, history
<1>3. CASE Stop \/ ReceiveFails \/ ReportCount \/ ReportTimeout
  BY <1>3 DEF Stop, ReceiveFails, ReportCount, ReportTimeout
<1>4. ASSUME NEW batch \in Batches, Receive(batch) PROVE Signals'
  BY <1>4 DEF Receive
<1>5. CASE Signal \/ Tick
  BY <1>5 DEF Signal, Tick, history
<1>6. CASE Done \/ UNCHANGED vars
  BY <1>6 DEF Done, vars, history
<1> QED BY <1>1, <1>2, <1>3, <1>4, <1>5, <1>6 DEF Next, Run

\* The wait that poll() gets, for a timeout that fits into an int.
LEMMA PollIsRoundedUp ==
    ASSUME Timeout =< IntMax, TypeOK, BeginReceive
    PROVE  poll' \in Nat /\ poll' >= deadline /\ poll' < deadline + TicksPerMs
<1>1. deadline \in 0..TimeoutTicks
  BY DEF TypeOK
<1>2. /\ WaitFor(deadline) \in 0..Timeout
      /\ WaitFor(deadline) * TicksPerMs >= deadline
      /\ WaitFor(deadline) * TicksPerMs < deadline + TicksPerMs
  BY <1>1, WaitIsRoundedUp, TimeoutTicksType, CollectorAppAssumption
<1>3. AsInt(WaitFor(deadline)) = WaitFor(deadline)
  <2>1. WaitFor(deadline) \in Nat /\ WaitFor(deadline) =< IntMax
    BY <1>2, CollectorAppAssumption
  <2> QED BY <2>1, AsIntKeeps
<1>4. poll' = WaitFor(deadline) * TicksPerMs
  BY <1>2, <1>3 DEF BeginReceive
<1>5. poll' \in Nat
  BY <1>2, <1>4, CollectorAppAssumption
<1> QED BY <1>2, <1>4, <1>5

\* No step puts a deadline past the timeout of a message that waits.
LEMMA DeadlinesStep ==
    ASSUME Timeout =< IntMax
    PROVE  TypeOK /\ Counters /\ Deadlines /\ [Next]_vars => Deadlines'
<1> SUFFICES ASSUME TypeOK, Counters, Deadlines, [Next]_vars PROVE Deadlines'
  OBVIOUS
<1> USE DEF TypeOK, Deadlines
<1>0. TimeoutTicks \in Nat \ {0} /\ TicksPerMs \in Nat \ {0} /\ Every \in Nat \ {0}
  BY TimeoutTicksType, CollectorAppAssumption
<1>1. CASE Listens \/ ListenFails \/ GoOn \/ NothingDue \/ ReceiveTimesOut
  BY <1>1 DEF Listens, ListenFails, GoOn, NothingDue, ReceiveTimesOut, statistics, history
<1>2. CASE Rearm
  BY <1>0, <1>2 DEF Rearm, Counters, statistics, history
<1>3. CASE BeginReceive
  <2>1. poll' \in Nat /\ poll' < deadline + TicksPerMs
    BY <1>3, PollIsRoundedUp
  <2> QED BY <1>3, <2>1 DEF BeginReceive, statistics, Forever
<1>4. CASE Stop \/ ReceiveFails \/ ReportCount \/ ReportTimeout
  BY <1>4 DEF Stop, ReceiveFails, ReportCount, ReportTimeout, Report
<1>5. ASSUME NEW batch \in Batches, Receive(batch) PROVE Deadlines'
  <2>1. /\ pc' = "review" /\ deadline' = deadline
        /\ grace' = IF sinceReport = 0 /\ MessagesIn(batch) > 0 THEN TimeoutTicks ELSE grace
    BY <1>5 DEF Receive
  <2>2. sinceReport' = sinceReport + MessagesIn(batch)
    BY <1>5, BatchType DEF Receive, Consume, Counters
  <2>3. MessagesIn(batch) \in Nat
    BY BatchType
  <2> QED BY <1>0, <2>1, <2>2, <2>3
<1>6. CASE Signal
  BY <1>6 DEF Signal, statistics, history
<1>7. CASE Tick
  BY <1>0, <1>7 DEF Tick, CountDown, statistics, Forever
<1>8. CASE Done \/ UNCHANGED vars
  BY <1>8 DEF Done, vars, statistics, history
<1> QED BY <1>1, <1>2, <1>3, <1>4, <1>5, <1>6, <1>7, <1>8 DEF Next, Run

-----------------------------------------------------------------------------
\* The invariants hold before run() is called.
LEMMA Start == Init => TypeOK /\ Counters /\ Signals /\ Deadlines
<1> SUFFICES ASSUME Init PROVE TypeOK /\ Counters /\ Signals /\ Deadlines
  OBVIOUS
<1> USE DEF Init
<1>1. TypeOK
  <2>1. deadline \in 0..TimeoutTicks /\ grace \in 0..TimeoutTicks
    BY TimeoutTicksType
  <2>2. poll \in Nat \cup {Forever} /\ late \in Nat
    OBVIOUS
  <2>3. /\ total \in Nat /\ malformed \in Nat /\ sinceReport \in Nat
        /\ counted \in Nat /\ dropped \in Nat /\ received \in Nat /\ reported \in Nat
    OBVIOUS
  <2>4. stopping \in BOOLEAN
    OBVIOUS
  <2> QED BY <2>1, <2>2, <2>3, <2>4 DEF TypeOK
<1>2. Counters
  BY DEF Counters, CountedOnce
<1>3. Signals /\ Deadlines
  BY DEF Signals, Deadlines
<1> QED BY <1>1, <1>2, <1>3

\* What holds for every timeout.
LEMMA Always == Spec => [](TypeOK /\ Counters /\ Signals)
<1>1. Init => TypeOK /\ Counters /\ Signals
  BY Start
<1>2. TypeOK /\ Counters /\ Signals /\ [Next]_vars => (TypeOK /\ Counters /\ Signals)'
  BY TypeStep, CountersStep, SignalsStep DEF Counters
<1> QED BY <1>1, <1>2, PTL DEF Spec

\* The variables of the loop keep their types: the counters never go below zero,
\* although countDropped() works with a difference, and the deadline is never
\* further away than the timeout.
THEOREM TypeCorrect == Spec => []TypeOK
  BY Always, PTL

\* Each message is counted once and is in one report at most, for any batches
\* and however the receiver drops lines between two calls.
THEOREM MessagesCountedOnce == Spec => []CountedOnce
<1>1. Counters => CountedOnce
  BY DEF Counters
<1> QED BY <1>1, Always, PTL

\* The collector does not end with messages that no report has counted.
THEOREM NothingLeftAtExit == Spec => []ExitReportsEverything
<1>1. TypeOK /\ Counters => ExitReportsEverything
  BY DEF TypeOK, Counters, CountedOnce, ExitReportsEverything
<1> QED BY <1>1, Always, PTL

\* At most one call of receive() begins after the signal, wherever in the loop
\* it comes.
THEOREM SignalIsNoticed == Spec => []OneReceiveAfterSignal
<1>1. Signals => OneReceiveAfterSignal
  BY DEF Signals, OneReceiveAfterSignal
<1> QED BY <1>1, Always, PTL

\* No report that is due is waited for, if the timeout fits into an int.
THEOREM ReportsAreNotLate ==
    ASSUME Timeout =< IntMax
    PROVE  Spec => []NothingDueWhileWaiting
<1>1. TypeOK /\ Counters /\ Deadlines /\ [Next]_vars => Deadlines'
  BY DeadlinesStep
<1>2. Init => Deadlines
  BY Start
<1>3. TypeOK /\ Deadlines => NothingDueWhileWaiting
  BY CollectorAppAssumption, TimeoutTicksType
     DEF TypeOK, Deadlines, NothingDueWhileWaiting, Forever
<1> QED BY <1>1, <1>2, <1>3, Always, PTL DEF Spec

\* poll() is asked not to wait only when the deadline has passed, if the timeout
\* fits into an int.
THEOREM WaitsWithoutSpinning ==
    ASSUME Timeout =< IntMax
    PROVE  Spec => NoBusyWait
<1>1. ASSUME TypeOK, [Next]_vars
      PROVE  pc = "plan" /\ pc' = "receive" /\ poll' = 0 => deadline = 0
  <2> SUFFICES ASSUME pc = "plan", pc' = "receive", poll' = 0 PROVE deadline = 0
    OBVIOUS
  <2>1. BeginReceive
    BY <1>1 DEF Next, Run, Listens, ListenFails, Rearm, GoOn, Stop, ReceiveTimesOut,
                ReportCount, ReportTimeout, NothingDue, Receive, ReceiveFails, Signal, Tick,
                Done, vars
  <2>2. poll' >= deadline
    BY <1>1, <2>1, PollIsRoundedUp
  <2> QED BY <1>1, <2>2 DEF TypeOK
<1>2. TypeOK /\ [Next]_vars
        => [pc = "plan" /\ pc' = "receive" /\ poll' = 0 => deadline = 0]_vars
  BY <1>1
<1> QED BY <1>2, TypeCorrect, PTL DEF Spec, NoBusyWait

-----------------------------------------------------------------------------
(* The sum of a sequence.                                                   *)

\* SumOf() is what its recursion says.
LEMMA SumSteps ==
    ASSUME NEW numbers \in Seq(Nat)
    PROVE  \E f \in [0..Len(numbers) -> Nat] :
              /\ f[0] = 0
              /\ \A n \in 1..Len(numbers) : f[n] = f[n - 1] + numbers[n]
              /\ SumOf(numbers) = f[Len(numbers)]
<1> DEFINE N == Len(numbers)
           Solves(f) == f = [n \in 0..N |-> IF n = 0 THEN 0 ELSE f[n - 1] + numbers[n]]
           step == [n \in 1..N |-> [v \in Nat |-> v + numbers[n]]]
           sum == CHOOSE f : Solves(f)
<1>1. N \in Nat /\ \A n \in 1..N : numbers[n] \in Nat
  BY ElementOfSeq
<1>2. SumOf(numbers) = sum[N]
  BY DEF SumOf
<1> HIDE DEF N
<1>3. \E f : Solves(f)
  <2>1. \A n \in 1..N, v \in Nat : step[n][v] = v + numbers[n] /\ step[n][v] \in Nat
    BY <1>1
  <2> HIDE DEF step
  <2>2. PICK f \in [0..N -> Nat] : f[0] = 0 /\ \A n \in 1..N : f[n] = step[n][f[n - 1]]
    <3>1. StaysIn(Nat, N, step)
      BY <2>1 DEF StaysIn
    <3>2. \E f \in [0..N -> Nat] : Iterates(f, 0, N, step)
      BY <1>1, <3>1, RecursionExists
    <3> QED BY <3>2 DEF Iterates
  <2>3. ASSUME NEW n \in 0..N
        PROVE  f[n] = IF n = 0 THEN 0 ELSE f[n - 1] + numbers[n]
    <3>1. CASE n = 0
      BY <2>2, <3>1
    <3>2. CASE n # 0
      <4>1. n \in 1..N /\ n - 1 \in 0..N
        BY <1>1, <3>2
      <4>2. f[n] = step[n][f[n - 1]] /\ f[n - 1] \in Nat
        BY <2>2, <4>1
      <4> QED BY <2>1, <3>2, <4>1, <4>2
    <3> QED BY <3>1, <3>2
  <2> DEFINE g == [n \in 0..N |-> IF n = 0 THEN 0 ELSE f[n - 1] + numbers[n]]
  <2>4. f = g
    <3>1. \A n \in 0..N : f[n] = g[n]
      BY <2>3
    <3>2. f = [n \in 0..N |-> f[n]] /\ g = [n \in 0..N |-> g[n]]
      OBVIOUS
    <3> HIDE DEF g
    <3> QED BY <3>1, <3>2
  <2>5. Solves(f)
    BY <2>4
  <2> QED BY <2>5
<1>4. Solves(sum)
  <2> HIDE DEF Solves
  <2> QED BY <1>3
<1> HIDE DEF sum
<1>5. sum[0] = 0 /\ \A n \in 1..N : sum[n] = sum[n - 1] + numbers[n]
  BY <1>1, <1>4
<1> DEFINE K == {n \in Nat : n =< N => sum[n] \in Nat}
<1>6. 0 \in K
  BY <1>5
<1>7. ASSUME NEW n \in Nat, n \in K PROVE n + 1 \in K
  <2> SUFFICES ASSUME n + 1 =< N PROVE sum[n + 1] \in Nat
    OBVIOUS
  <2>1. n + 1 \in 1..N /\ (n + 1) - 1 = n /\ sum[n] \in Nat
    BY <1>1, <1>7
  <2>2. sum[n + 1] = sum[n] + numbers[n + 1] /\ numbers[n + 1] \in Nat
    BY <1>1, <1>5, <2>1
  <2> QED BY <2>1, <2>2
<1>8. Nat \subseteq K
  <2> HIDE DEF K
  <2> QED BY <1>6, <1>7, SetInduction
<1>9. sum \in [0..N -> Nat]
  <2>1. \A n \in 0..N : sum[n] \in Nat
    BY <1>1, <1>8
  <2>2. sum = [n \in 0..N |-> IF n = 0 THEN 0 ELSE sum[n - 1] + numbers[n]]
    BY <1>4
  <2>3. sum = [n \in 0..N |-> sum[n]]
    BY <2>2
  <2> QED BY <2>1, <2>3
<1> QED
  BY <1>2, <1>5, <1>9 DEF N

\* Nothing sums to zero.
LEMMA SumOfNothing == ASSUME NEW numbers \in Seq(Nat), Len(numbers) = 0 PROVE SumOf(numbers) = 0
<1>1. PICK f \in [0..Len(numbers) -> Nat] : f[0] = 0 /\ SumOf(numbers) = f[Len(numbers)]
  BY SumSteps
<1> QED BY <1>1

\* The last number of a sequence is added last.
LEMMA SumOfMore ==
    ASSUME NEW numbers \in Seq(Nat), NEW more \in Seq(Nat), Len(more) = Len(numbers) + 1,
           \A n \in 1..Len(numbers) : more[n] = numbers[n]
    PROVE  SumOf(more) = SumOf(numbers) + more[Len(more)]
<1> DEFINE N == Len(numbers)
<1>1. N \in Nat /\ Len(more) = N + 1 /\ \A n \in 1..N : more[n] = numbers[n]
  BY LenProperties
<1>2. PICK f \in [0..N -> Nat] :
         /\ f[0] = 0
         /\ \A n \in 1..N : f[n] = f[n - 1] + numbers[n]
         /\ SumOf(numbers) = f[N]
  BY SumSteps
<1> HIDE DEF N
<1>3. PICK g \in [0..(N + 1) -> Nat] :
         /\ g[0] = 0
         /\ \A n \in 1..(N + 1) : g[n] = g[n - 1] + more[n]
         /\ SumOf(more) = g[N + 1]
  <2>1. \E g \in [0..Len(more) -> Nat] :
         /\ g[0] = 0
         /\ \A n \in 1..Len(more) : g[n] = g[n - 1] + more[n]
         /\ SumOf(more) = g[Len(more)]
    BY SumSteps
  <2> QED BY <1>1, <2>1
<1> DEFINE K == {n \in Nat : n =< N => f[n] = g[n]}
<1>4. 0 \in K
  BY <1>2, <1>3
<1>5. ASSUME NEW n \in Nat, n \in K PROVE n + 1 \in K
  <2> SUFFICES ASSUME n + 1 =< N PROVE f[n + 1] = g[n + 1]
    OBVIOUS
  <2>1. n + 1 \in 1..N /\ n + 1 \in 1..(N + 1) /\ (n + 1) - 1 = n /\ f[n] = g[n]
    BY <1>1, <1>5
  <2>2. f[n + 1] = f[n] + numbers[n + 1] /\ g[n + 1] = g[n] + more[n + 1]
    BY <1>2, <1>3, <2>1
  <2> QED BY <1>1, <2>1, <2>2
<1>6. Nat \subseteq K
  <2> HIDE DEF K
  <2> QED BY <1>4, <1>5, SetInduction
<1>7. f[N] = g[N]
  BY <1>1, <1>6
<1>8. g[N + 1] = g[N] + more[N + 1]
  <2>1. N + 1 \in 1..(N + 1) /\ (N + 1) - 1 = N
    BY <1>1
  <2> QED BY <1>3, <2>1
<1> QED BY <1>1, <1>2, <1>3, <1>7, <1>8

\* Two minutes of one bucket that are less than an hour apart are the same.
LEMMA SameMinute ==
    ASSUME NEW a \in Nat, NEW b \in Nat, a % Buckets = b % Buckets, a - b < Buckets, b - a < Buckets
    PROVE  a = b
<1>1. Buckets \in Nat /\ Buckets > 0
  BY StatisticsAssumption
<1> DEFINE p == a \div Buckets
           q == b \div Buckets
<1>2. /\ p \in Int /\ q \in Int
      /\ a = Buckets * p + (a % Buckets) /\ b = Buckets * q + (b % Buckets)
  BY <1>1
<1>3. a - b = Buckets * (p - q)
  BY <1>1, <1>2
<1> HIDE DEF p, q
<1>4. p = q
  <2>1. CASE p - q >= 1
    <3>1. Buckets * (p - q) >= Buckets
      BY <1>1, <1>2, <2>1
    <3> QED BY <1>3, <3>1, <1>1
  <2>2. CASE q - p >= 1
    <3>1. Buckets * (q - p) >= Buckets /\ Buckets * (q - p) = - (Buckets * (p - q))
      BY <1>1, <1>2, <2>2
    <3> QED BY <1>3, <3>1, <1>1
  <2> QED BY <1>2, <2>1, <2>2
<1> QED BY <1>1, <1>2, <1>3, <1>4

\* A minute has a bucket of the ring.
LEMMA BucketOf == ASSUME NEW m \in Nat PROVE m % Buckets \in 0..(Buckets - 1)
  BY StatisticsAssumption

-----------------------------------------------------------------------------
(* Messages that were added, and how many there are of a kind.              *)

Messages == [level : Levels, length : Lengths, minute : Nat]

OfMinute(list, m) == {i \in DOMAIN list : list[i].minute = m}

OfLevel(list, l) == {i \in DOMAIN list : list[i].level = l}

\* The messages are numbered, and a new one gets the next number.
LEMMA OneMore ==
    ASSUME NEW list \in Seq(Messages), NEW message \in Messages
    PROVE  /\ Append(list, message) \in Seq(Messages)
           /\ DOMAIN list = 1..Len(list)
           /\ Len(list) \in Nat
           /\ Len(list) + 1 \notin DOMAIN list
           /\ DOMAIN Append(list, message) = DOMAIN list \cup {Len(list) + 1}
           /\ Len(Append(list, message)) = Len(list) + 1
           /\ Append(list, message)[Len(list) + 1] = message
           /\ \A i \in DOMAIN list : Append(list, message)[i] = list[i] /\ list[i] \in Messages
<1>1. Len(list) \in Nat /\ DOMAIN list = 1..Len(list) /\ \A i \in 1..Len(list) : list[i] \in Messages
  BY LenProperties, ElementOfSeq
<1>2. /\ Append(list, message) \in Seq(Messages)
      /\ Len(Append(list, message)) = Len(list) + 1
      /\ \A i \in 1..Len(list) : Append(list, message)[i] = list[i]
      /\ Append(list, message)[Len(list) + 1] = message
  BY AppendProperties
<1>3. DOMAIN Append(list, message) = 1..(Len(list) + 1)
  BY <1>2, LenProperties
<1> QED BY <1>1, <1>2, <1>3

\* What a message is made of, field by field.
LEMMA MessageTypes ==
    ASSUME NEW list \in Seq(Messages), NEW i \in DOMAIN list
    PROVE  list[i].minute \in Nat /\ list[i].length \in Nat
<1>1. list[i] \in Messages
  BY LenProperties, ElementOfSeq
<1> DEFINE message == list[i]
<1> HIDE DEF message
<1>2. message \in Messages => message.minute \in Nat /\ message.length \in Nat
  BY MessageCountAssumption DEF Messages
<1> QED BY <1>1, <1>2 DEF message

\* One message more is one more of its minute and of its level.
LEMMA CountsGrow ==
    ASSUME NEW list \in Seq(Messages), NEW message \in Messages
    PROVE  /\ \A m \in Int :
                 Cardinality(OfMinute(Append(list, message), m)) =
                    Cardinality(OfMinute(list, m)) + (IF message.minute = m THEN 1 ELSE 0)
           /\ \A l \in Levels :
                 Cardinality(OfLevel(Append(list, message), l)) =
                    Cardinality(OfLevel(list, l)) + (IF message.level = l THEN 1 ELSE 0)
<1> DEFINE next == Len(list) + 1
           more == Append(list, message)
<1>1. /\ next \notin DOMAIN list /\ DOMAIN more = DOMAIN list \cup {next}
      /\ more[next] = message
      /\ \A i \in DOMAIN list : more[i] = list[i]
  BY OneMore
<1>2. IsFiniteSet(DOMAIN list)
  BY OneMore, FS_Interval
<1> HIDE DEF next, more
<1>3. ASSUME NEW m \in Int
      PROVE  Cardinality(OfMinute(more, m)) =
                Cardinality(OfMinute(list, m)) + (IF message.minute = m THEN 1 ELSE 0)
  <2> DEFINE old == OfMinute(list, m)
  <2>1. IsFiniteSet(old) /\ next \notin old
    BY <1>1, <1>2, FS_Subset DEF OfMinute
  <2>2. OfMinute(more, m) = IF message.minute = m THEN old \cup {next} ELSE old
    BY <1>1 DEF OfMinute
  <2> HIDE DEF old
  <2>3. Cardinality(old) \in Nat /\ Cardinality(old \cup {next}) = Cardinality(old) + 1
    BY <2>1, FS_AddElement, FS_CardinalityType
  <2>4. Cardinality(OfMinute(more, m)) = Cardinality(old) + (IF message.minute = m THEN 1 ELSE 0)
    BY <2>2, <2>3
  <2> QED BY <2>4 DEF old
<1>4. ASSUME NEW l \in Levels
      PROVE  Cardinality(OfLevel(more, l)) =
                Cardinality(OfLevel(list, l)) + (IF message.level = l THEN 1 ELSE 0)
  <2> DEFINE old == OfLevel(list, l)
  <2>1. IsFiniteSet(old) /\ next \notin old
    BY <1>1, <1>2, FS_Subset DEF OfLevel
  <2>2. OfLevel(more, l) = IF message.level = l THEN old \cup {next} ELSE old
    BY <1>1 DEF OfLevel
  <2> HIDE DEF old
  <2>3. Cardinality(old) \in Nat /\ Cardinality(old \cup {next}) = Cardinality(old) + 1
    BY <2>1, FS_AddElement, FS_CardinalityType
  <2>4. Cardinality(OfLevel(more, l)) = Cardinality(old) + (IF message.level = l THEN 1 ELSE 0)
    BY <2>2, <2>3
  <2> QED BY <2>4 DEF old
<1> QED BY <1>3, <1>4 DEF more

\* A bucket counts the messages of its minute, and no message of the minutes
\* that share it is newer.
BucketRight(bucket, b, list) ==
    /\ bucket.minute \in Nat => bucket.minute % Buckets = b
    /\ bucket.count = Cardinality(OfMinute(list, bucket.minute))
    /\ \A i \in DOMAIN list : list[i].minute % Buckets = b => list[i].minute =< bucket.minute

\* A bucket counts the newest of its minutes, with one message more as well.
LEMMA BucketStaysRight ==
    ASSUME NEW list \in Seq(Messages), NEW message \in Messages,
           \A i \in DOMAIN list : list[i].minute =< message.minute,
           NEW b \in 0..(Buckets - 1), NEW bucket \in [minute : Nat \cup {-1}, count : Nat],
           BucketRight(bucket, b, list), bucket.minute =< message.minute
    PROVE  LET next == IF message.minute % Buckets = b
                       THEN CountInBucket(bucket, message.minute) ELSE bucket
           IN  /\ next \in [minute : Nat \cup {-1}, count : Nat]
               /\ BucketRight(next, b, Append(list, message))
               /\ next.minute \in {bucket.minute, message.minute}
<1> DEFINE more == Append(list, message)
           time == message.minute
<1>1. /\ DOMAIN more = DOMAIN list \cup {Len(list) + 1}
      /\ more[Len(list) + 1] = message
      /\ \A i \in DOMAIN list : more[i] = list[i] /\ list[i] \in Messages
  BY OneMore
<1>2. /\ \A i \in DOMAIN list : more[i].minute = list[i].minute /\ list[i].minute \in Nat
      /\ more[Len(list) + 1].minute = time
      /\ time \in Nat
      /\ bucket.minute =< time
  BY <1>1 DEF Messages
<1>3. /\ bucket.minute \in Nat \cup {-1} /\ bucket.count \in Nat
      /\ \A m \in Int : Cardinality(OfMinute(more, m)) =
            Cardinality(OfMinute(list, m)) + (IF time = m THEN 1 ELSE 0)
  BY CountsGrow
<1>4. time % Buckets \in 0..(Buckets - 1)
  BY <1>2, BucketOf
<1> HIDE DEF more, time
<1>5. CASE time % Buckets # b
  <2>1. bucket.minute # time
    BY <1>2, <1>5 DEF BucketRight
  <2>2. Cardinality(OfMinute(more, bucket.minute)) = Cardinality(OfMinute(list, bucket.minute))
    <3>1. Cardinality(OfMinute(more, bucket.minute)) = Cardinality(OfMinute(list, bucket.minute)) + 0
      BY <1>3, <2>1
    <3> QED BY <1>3, <3>1 DEF BucketRight
  <2>3. \A i \in DOMAIN more : more[i].minute % Buckets = b => more[i].minute =< bucket.minute
    BY <1>1, <1>2, <1>5 DEF BucketRight
  <2>4. BucketRight(bucket, b, more)
    BY <2>2, <2>3 DEF BucketRight
  <2> QED BY <1>5, <2>4 DEF more, time
<1>6. CASE time % Buckets = b /\ bucket.minute = time
  <2> DEFINE next == CountInBucket(bucket, time)
  <2>1. next \in [minute : Nat \cup {-1}, count : Nat] /\ next.minute = time /\ next.count = bucket.count + 1
    BY <1>3, <1>6 DEF CountInBucket
  <2> HIDE DEF next
  <2>2. next.count = Cardinality(OfMinute(more, next.minute))
    BY <1>2, <1>3, <1>6, <2>1 DEF BucketRight
  <2>3. \A i \in DOMAIN more : more[i].minute % Buckets = b => more[i].minute =< next.minute
    BY <1>1, <1>2, <1>6, <2>1 DEF BucketRight
  <2>4. BucketRight(next, b, more)
    BY <1>6, <2>1, <2>2, <2>3 DEF BucketRight
  <2> QED BY <1>6, <2>1, <2>4 DEF more, time, next
<1>7. CASE time % Buckets = b /\ bucket.minute # time
  <2> DEFINE next == CountInBucket(bucket, time)
  <2>1. next \in [minute : Nat \cup {-1}, count : Nat] /\ next.minute = time /\ next.count = 1
    BY <1>2, <1>7 DEF CountInBucket
  <2> HIDE DEF next
  <2>2. OfMinute(list, time) = {}
    <3>1. \A i \in DOMAIN list : list[i].minute # time
      <4> SUFFICES ASSUME NEW i \in DOMAIN list, list[i].minute = time PROVE FALSE
        OBVIOUS
      <4>1. time =< bucket.minute
        BY <1>7 DEF BucketRight
      <4> QED BY <1>2, <1>3, <1>7, <4>1
    <3> QED BY <3>1 DEF OfMinute
  <2>3. Cardinality(OfMinute(more, time)) = 1
    <3>1. Cardinality(OfMinute(list, time)) = 0
      BY <2>2, FS_EmptySet
    <3> QED BY <1>2, <1>3, <3>1
  <2>4. \A i \in DOMAIN more : more[i].minute % Buckets = b => more[i].minute =< next.minute
    BY <1>1, <1>2, <2>1
  <2>5. BucketRight(next, b, more)
    BY <1>2, <1>7, <2>1, <2>3, <2>4 DEF BucketRight
  <2> QED BY <1>7, <2>1, <2>5 DEF more, time, next
<1> QED BY <1>5, <1>6, <1>7

-----------------------------------------------------------------------------
(* A Statistics that counts right.                                          *)

BucketSet == [minute : Nat \cup {-1}, count : Nat]

Tallies ==
    [total : Nat, malformed : Nat, byLevel : [Levels -> Nat], minLength : Nat, maxLength : Nat,
     totalLength : Nat, minutes : [0..(Buckets - 1) -> BucketSet]]

TallyTyped ==
    /\ tally \in Tallies
    /\ minute \in Nat
    /\ messages \in Seq(Messages)
    /\ \A i \in DOMAIN messages : messages[i].minute =< minute

\* Every bucket counts right, and none is ahead of the clock.
Ring ==
    \A b \in 0..(Buckets - 1) :
        /\ BucketRight(tally.minutes[b], b, messages)
        /\ tally.minutes[b].minute =< minute

LengthsOf(list) == [i \in DOMAIN list |-> list[i].length]

Totals ==
    /\ tally.total = Len(messages)
    /\ \A l \in Levels : tally.byLevel[l] = Cardinality(OfLevel(messages, l))
    /\ tally.totalLength = SumOf(LengthsOf(messages))
    /\ messages = << >> => tally.maxLength = 0
    /\ messages # << >> =>
          /\ \E i \in DOMAIN messages : messages[i].length = tally.minLength
          /\ \E i \in DOMAIN messages : messages[i].length = tally.maxLength
          /\ \A i \in DOMAIN messages : messages[i].length \in tally.minLength..tally.maxLength

\* t is the Statistics s after add() of one message.
OneAdded(t, s, l, n, m) ==
    /\ t.total = s.total + 1
    /\ \A k \in Levels : t.byLevel[k] = s.byLevel[k] + (IF k = l THEN 1 ELSE 0)
    /\ t.totalLength = s.totalLength + n
    /\ t.minLength = MinLength(s, n)
    /\ t.maxLength = Larger(s.maxLength, n)
    /\ \A b \in 0..(Buckets - 1) :
          t.minutes[b] = IF m % Buckets = b THEN CountInBucket(s.minutes[b], m) ELSE s.minutes[b]
    /\ t \in Tallies

\* add() counts one message of its level, length and minute.
LEMMA AddFields ==
    ASSUME NEW s \in Tallies, NEW l \in Levels, NEW n \in Nat, NEW m \in Nat
    PROVE  OneAdded(Add(s, l, n, m), s, l, n, m)
<1> DEFINE w == m % Buckets
           least == MinLength(s, n)
           most == Larger(s.maxLength, n)
           bucket == CountInBucket(s.minutes[w], m)
<1>1. /\ s.total \in Nat /\ s.malformed \in Nat /\ s.byLevel \in [Levels -> Nat]
      /\ s.minLength \in Nat /\ s.maxLength \in Nat /\ s.totalLength \in Nat
      /\ s.minutes \in [0..(Buckets - 1) -> BucketSet]
  BY DEF Tallies
<1>2. w \in 0..(Buckets - 1)
  BY BucketOf
<1>3. least \in Nat /\ most \in Nat
  BY <1>1 DEF MinLength, Smaller, Larger
<1>4. bucket \in BucketSet
  <2>1. s.minutes[w] \in BucketSet
    BY <1>1, <1>2
  <2> QED BY <2>1 DEF CountInBucket, BucketSet
<1>5. Add(s, l, n, m) =
        [s EXCEPT !.total = s.total + 1,
                  !.byLevel = [s.byLevel EXCEPT ![l] = s.byLevel[l] + 1],
                  !.totalLength = s.totalLength + n,
                  !.minLength = least,
                  !.maxLength = most,
                  !.minutes = [s.minutes EXCEPT ![w] = bucket]]
  BY DEF Add, Tallies
<1> DEFINE levels == [s.byLevel EXCEPT ![l] = s.byLevel[l] + 1]
           ring == [s.minutes EXCEPT ![w] = bucket]
<1>6. /\ levels \in [Levels -> Nat]
      /\ \A k \in Levels : levels[k] = s.byLevel[k] + (IF k = l THEN 1 ELSE 0)
  BY <1>1
<1>7. /\ ring \in [0..(Buckets - 1) -> BucketSet]
      /\ \A b \in 0..(Buckets - 1) : ring[b] = IF w = b THEN bucket ELSE s.minutes[b]
  BY <1>1, <1>2, <1>4
<1>8. \A b \in 0..(Buckets - 1) :
         ring[b] = IF m % Buckets = b THEN CountInBucket(s.minutes[b], m) ELSE s.minutes[b]
  BY <1>7
<1> HIDE DEF w, least, most, bucket, levels, ring
<1>9. Add(s, l, n, m) =
        [s EXCEPT !.total = s.total + 1, !.byLevel = levels, !.totalLength = s.totalLength + n,
                  !.minLength = least, !.maxLength = most, !.minutes = ring]
  BY <1>5 DEF levels, ring
<1>10. /\ Add(s, l, n, m).total = s.total + 1
       /\ Add(s, l, n, m).malformed = s.malformed
       /\ Add(s, l, n, m).byLevel = levels
       /\ Add(s, l, n, m).totalLength = s.totalLength + n
       /\ Add(s, l, n, m).minLength = least
       /\ Add(s, l, n, m).maxLength = most
       /\ Add(s, l, n, m).minutes = ring
  BY <1>9 DEF Tallies
<1>11. Add(s, l, n, m) \in Tallies
  <2>1. Add(s, l, n, m) =
          [total |-> s.total + 1, malformed |-> s.malformed, byLevel |-> levels,
           minLength |-> least, maxLength |-> most, totalLength |-> s.totalLength + n,
           minutes |-> ring]
    BY <1>9 DEF Tallies
  <2>2. s.total + 1 \in Nat /\ s.totalLength + n \in Nat
    BY <1>1
  <2> QED BY <1>1, <1>3, <1>6, <1>7, <2>1, <2>2, SMTT(30) DEF Tallies
<1> QED
  BY <1>6, <1>8, <1>10, <1>11 DEF least, most, OneAdded

\* addMalformed() counts one message without a level.
LEMMA AddMalformedFields ==
    ASSUME NEW s \in Tallies
    PROVE  /\ AddMalformed(s).total = s.total
           /\ AddMalformed(s).byLevel = s.byLevel
           /\ AddMalformed(s).minLength = s.minLength
           /\ AddMalformed(s).maxLength = s.maxLength
           /\ AddMalformed(s).totalLength = s.totalLength
           /\ AddMalformed(s).minutes = s.minutes
           /\ AddMalformed(s) \in Tallies
<1>1. AddMalformed(s) = [s EXCEPT !.malformed = s.malformed + 1] /\ s.malformed + 1 \in Nat
  BY DEF AddMalformed, Tallies
<1> QED BY <1>1 DEF Tallies

\* A function on 1..n whose values are numbers is a sequence of numbers.
LEMMA NumberSeq ==
    ASSUME NEW n \in Nat, NEW numbers \in [1..n -> Nat]
    PROVE  numbers \in Seq(Nat) /\ Len(numbers) = n
<1>1. numbers \in Seq(Nat)
  BY IsASeq
<1> QED BY <1>1, LenProperties

\* The lengths of messages are numbers.
LEMMA LengthsAreNumbers ==
    ASSUME NEW list \in Seq(Messages)
    PROVE  LengthsOf(list) \in Seq(Nat) /\ Len(LengthsOf(list)) = Len(list)
<1>1. Len(list) \in Nat /\ DOMAIN list = 1..Len(list) /\ \A i \in 1..Len(list) : list[i] \in Messages
  BY LenProperties, ElementOfSeq
<1>2. \A i \in 1..Len(list) : list[i].length \in Nat
  BY <1>1, MessageCountAssumption DEF Messages
<1> DEFINE n == Len(list)
           lengths == [i \in 1..n |-> list[i].length]
<1>3. LengthsOf(list) = lengths
  BY <1>1 DEF LengthsOf
<1>4. lengths \in [1..n -> Nat]
  BY <1>2
<1> HIDE DEF n, lengths
<1>5. n \in Nat
  BY <1>1 DEF n
<1>6. lengths \in Seq(Nat) /\ Len(lengths) = n
  BY <1>4, <1>5, NumberSeq
<1> QED
  BY <1>3, <1>6 DEF n

\* Nothing is counted at the start.
LEMMA TallyStart == TallyInit => TallyTyped /\ Ring /\ Totals
<1> SUFFICES ASSUME TallyInit PROVE TallyTyped /\ Ring /\ Totals
  OBVIOUS
<1> DEFINE none == [l \in Levels |-> 0]
           empty == [b \in 0..(Buckets - 1) |-> [minute |-> -1, count |-> 0]]
<1>1. /\ tally = [total |-> 0, malformed |-> 0, byLevel |-> none, minLength |-> 0,
                  maxLength |-> 0, totalLength |-> 0, minutes |-> empty]
      /\ minute = 0 /\ messages = << >>
  BY DEF TallyInit, EmptyStatistics
<1>2. none \in [Levels -> Nat] /\ \A l \in Levels : none[l] = 0
  OBVIOUS
<1>3. /\ empty \in [0..(Buckets - 1) -> BucketSet]
      /\ \A b \in 0..(Buckets - 1) : empty[b].minute = -1 /\ empty[b].count = 0
  BY DEF BucketSet
<1>4. messages \in Seq(Messages) /\ Len(messages) = 0 /\ DOMAIN messages = {}
  BY <1>1, EmptySeq
<1> HIDE DEF none, empty
<1>5. TallyTyped
  BY <1>1, <1>2, <1>3, <1>4 DEF TallyTyped, Tallies
<1>6. \A m : OfMinute(messages, m) = {}
  BY <1>4 DEF OfMinute
<1>7. \A l : OfLevel(messages, l) = {}
  BY <1>4 DEF OfLevel
<1>8. Ring
  <2> SUFFICES ASSUME NEW b \in 0..(Buckets - 1)
               PROVE  /\ BucketRight(tally.minutes[b], b, messages)
                      /\ tally.minutes[b].minute =< minute
    BY DEF Ring
  <2> DEFINE bucket == tally.minutes[b]
  <2>1. bucket.minute = -1 /\ bucket.count = 0
    BY <1>1, <1>3
  <2> HIDE DEF bucket
  <2>2. bucket.count = Cardinality(OfMinute(messages, bucket.minute))
    BY <1>6, <2>1, FS_EmptySet
  <2>3. BucketRight(bucket, b, messages)
    BY <1>4, <2>1, <2>2 DEF BucketRight
  <2>4. bucket.minute =< minute
    BY <1>1, <2>1
  <2> QED BY <2>3, <2>4 DEF bucket
<1>9. Totals
  <2>1. SumOf(LengthsOf(messages)) = 0
    BY <1>4, LengthsAreNumbers, SumOfNothing
  <2> QED BY <1>1, <1>2, <1>4, <1>7, <2>1, FS_EmptySet DEF Totals
<1> QED BY <1>5, <1>8, <1>9

\* Each message keeps the ring and the totals right.
LEMMA TallyStep == TallyTyped /\ Ring /\ Totals /\ [TallyNext]_tallyVars => (TallyTyped /\ Ring /\ Totals)'
<1> SUFFICES ASSUME TallyTyped, Ring, Totals, [TallyNext]_tallyVars
             PROVE  TallyTyped' /\ Ring' /\ Totals'
  OBVIOUS
<1>1. /\ tally \in Tallies /\ minute \in Nat /\ messages \in Seq(Messages)
      /\ tally.minutes \in [0..(Buckets - 1) -> BucketSet]
      /\ tally.total \in Nat /\ tally.byLevel \in [Levels -> Nat]
      /\ tally.minLength \in Nat /\ tally.maxLength \in Nat
  BY DEF TallyTyped, Tallies
<1>2. ASSUME NEW level \in Levels, NEW length \in Lengths, AddMessage(level, length)
      PROVE  TallyTyped' /\ Ring' /\ Totals'
  <2> DEFINE message == [level |-> level, length |-> length, minute |-> minute]
             next == Len(messages) + 1
  <2>1. /\ message \in Messages /\ message.level = level /\ message.length = length
        /\ message.minute = minute /\ length \in Nat
    BY <1>1, MessageCountAssumption DEF Messages
  <2>2. messages' = Append(messages, message) /\ tally' = Add(tally, level, length, minute) /\ minute' = minute
    BY <1>2 DEF AddMessage
  <2>3. /\ tally'.total = tally.total + 1
        /\ \A k \in Levels : tally'.byLevel[k] = tally.byLevel[k] + (IF k = level THEN 1 ELSE 0)
        /\ tally'.totalLength = tally.totalLength + length
        /\ tally'.minLength = MinLength(tally, length)
        /\ tally'.maxLength = Larger(tally.maxLength, length)
        /\ \A b \in 0..(Buckets - 1) :
              tally'.minutes[b] = IF minute % Buckets = b THEN CountInBucket(tally.minutes[b], minute)
                                  ELSE tally.minutes[b]
        /\ tally' \in Tallies
    <3>1. OneAdded(Add(tally, level, length, minute), tally, level, length, minute)
      BY <1>1, <2>1, AddFields
    <3> QED BY <2>2, <3>1 DEF OneAdded
  <2> HIDE DEF message
  <2>4. /\ messages' \in Seq(Messages)
        /\ DOMAIN messages' = DOMAIN messages \cup {next}
        /\ Len(messages') = Len(messages) + 1
        /\ messages'[next] = message
        /\ \A i \in DOMAIN messages : messages'[i] = messages[i]
        /\ Len(messages) \in Nat /\ DOMAIN messages = 1..Len(messages)
        /\ next \notin DOMAIN messages
    BY <1>1, <2>1, <2>2, OneMore
  <2>5. TallyTyped'
    BY <1>1, <2>1, <2>2, <2>3, <2>4 DEF TallyTyped
  <2>6. Ring'
    <3> SUFFICES ASSUME NEW b \in 0..(Buckets - 1)
                 PROVE  /\ BucketRight(tally'.minutes[b], b, messages')
                        /\ tally'.minutes[b].minute =< minute
      BY <2>2 DEF Ring
    <3> DEFINE bucket == tally.minutes[b]
    <3>1. bucket \in [minute : Nat \cup {-1}, count : Nat] /\ bucket.minute =< message.minute
      BY <1>1, <2>1 DEF BucketSet, Ring
    <3>2. BucketRight(bucket, b, messages) /\ \A i \in DOMAIN messages : messages[i].minute =< message.minute
      BY <2>1 DEF Ring, TallyTyped
    <3> HIDE DEF bucket
    <3> DEFINE changed == IF message.minute % Buckets = b THEN CountInBucket(bucket, message.minute) ELSE bucket
    <3>3. BucketRight(changed, b, Append(messages, message)) /\ changed.minute \in {bucket.minute, message.minute}
      BY <1>1, <2>1, <3>1, <3>2, BucketStaysRight, SMTT(30)
    <3>4. tally'.minutes[b] = changed
      BY <2>1, <2>3 DEF bucket
    <3> HIDE DEF changed
    <3> QED BY <1>1, <2>1, <2>2, <3>1, <3>3, <3>4
  <2>7. Totals'
    <3>1. tally'.total = Len(messages')
      BY <2>3, <2>4 DEF Totals
    <3>2. \A l \in Levels : tally'.byLevel[l] = Cardinality(OfLevel(messages', l))
      <4> SUFFICES ASSUME NEW l \in Levels
                   PROVE  tally'.byLevel[l] = Cardinality(OfLevel(messages', l))
        OBVIOUS
      <4>1. Cardinality(OfLevel(messages', l)) =
              Cardinality(OfLevel(messages, l)) + (IF message.level = l THEN 1 ELSE 0)
        BY <1>1, <2>1, <2>2, CountsGrow
      <4>2. tally.byLevel[l] = Cardinality(OfLevel(messages, l))
        BY DEF Totals
      <4>3. tally'.byLevel[l] = tally.byLevel[l] + (IF l = level THEN 1 ELSE 0)
        BY <2>3
      <4> QED BY <2>1, <4>1, <4>2, <4>3
    <3>3. tally'.totalLength = SumOf(LengthsOf(messages'))
      <4>1. /\ LengthsOf(messages) \in Seq(Nat) /\ Len(LengthsOf(messages)) = Len(messages)
            /\ LengthsOf(messages') \in Seq(Nat) /\ Len(LengthsOf(messages')) = Len(messages) + 1
        BY <1>1, <2>4, LengthsAreNumbers
      <4>2. /\ \A i \in 1..Len(messages) : LengthsOf(messages')[i] = LengthsOf(messages)[i]
            /\ LengthsOf(messages')[next] = length
        BY <2>1, <2>4 DEF LengthsOf
      <4>3. SumOf(LengthsOf(messages')) = SumOf(LengthsOf(messages)) + LengthsOf(messages')[next]
        BY <4>1, <4>2, SumOfMore
      <4> QED BY <2>3, <4>2, <4>3 DEF Totals
    <3>4. messages' # << >>
      BY <2>4
    <3>5. /\ \E i \in DOMAIN messages' : messages'[i].length = tally'.minLength
          /\ \E i \in DOMAIN messages' : messages'[i].length = tally'.maxLength
          /\ \A i \in DOMAIN messages' : messages'[i].length \in tally'.minLength..tally'.maxLength
      <4>1. \A i \in DOMAIN messages : messages'[i].length = messages[i].length /\ messages[i].length \in Nat
        <5>1. \A i \in DOMAIN messages : messages[i].length \in Nat
          BY <1>1, MessageTypes
        <5> QED BY <2>4, <5>1
      <4>2. messages'[next].length = length /\ next \in DOMAIN messages' /\ DOMAIN messages \subseteq DOMAIN messages'
        BY <2>1, <2>4
      <4>3. CASE messages = << >>
        <5>1. DOMAIN messages = {} /\ Len(messages) = 0
          BY <4>3
        <5>2. tally'.minLength = length /\ tally'.maxLength = length
          BY <2>1, <2>3, <4>3, <5>1 DEF Totals, MinLength, Larger
        <5> QED BY <2>1, <2>4, <4>2, <5>1, <5>2
      <4>4. CASE messages # << >>
        <5>1. /\ \E i \in DOMAIN messages : messages[i].length = tally.minLength
              /\ \E i \in DOMAIN messages : messages[i].length = tally.maxLength
              /\ \A i \in DOMAIN messages : messages[i].length \in tally.minLength..tally.maxLength
          BY <4>4 DEF Totals
        <5>2. tally.total # 0
          BY <2>4, <5>1 DEF Totals
        <5>3. tally'.minLength = Smaller(tally.minLength, length) /\ tally'.maxLength = Larger(tally.maxLength, length)
          BY <2>3, <5>2 DEF MinLength
        <5>4. \E i \in DOMAIN messages' : messages'[i].length = tally'.minLength
          BY <4>1, <4>2, <5>1, <5>3 DEF Smaller
        <5>5. \E i \in DOMAIN messages' : messages'[i].length = tally'.maxLength
          BY <4>1, <4>2, <5>1, <5>3 DEF Larger
        <5>6. \A i \in DOMAIN messages' : messages'[i].length \in tally'.minLength..tally'.maxLength
          <6>1. tally'.minLength =< tally.minLength /\ tally.maxLength =< tally'.maxLength
            BY <1>1, <2>1, <5>3 DEF Smaller, Larger
          <6>2. tally'.minLength =< length /\ length =< tally'.maxLength
            BY <1>1, <2>1, <5>3 DEF Smaller, Larger
          <6>3. tally'.minLength \in Nat /\ tally'.maxLength \in Nat
            BY <2>3 DEF Tallies
          <6> QED BY <1>1, <2>1, <2>4, <4>1, <4>2, <5>1, <6>1, <6>2, <6>3, SMTT(30)
        <5> QED BY <5>4, <5>5, <5>6
      <4> QED BY <4>3, <4>4
    <3> QED BY <3>1, <3>2, <3>3, <3>4, <3>5 DEF Totals
  <2> QED BY <2>5, <2>6, <2>7
<1>3. CASE AddRubbish
  <2>1. /\ tally' = AddMalformed(tally)
        /\ minute' = minute /\ messages' = messages
    BY <1>3 DEF AddRubbish
  <2>2. /\ tally'.total = tally.total /\ tally'.byLevel = tally.byLevel
        /\ tally'.minLength = tally.minLength /\ tally'.maxLength = tally.maxLength
        /\ tally'.totalLength = tally.totalLength /\ tally'.minutes = tally.minutes
        /\ tally' \in Tallies
    BY <1>1, <2>1, AddMalformedFields
  <2>3. TallyTyped'
    BY <2>1, <2>2 DEF TallyTyped
  <2>4. Ring'
    BY <2>1, <2>2 DEF Ring
  <2>5. Totals'
    BY <2>1, <2>2 DEF Totals
  <2> QED BY <2>3, <2>4, <2>5
<1>4. ASSUME NEW n \in 1..(2 * Buckets), PassMinutes(n)
      PROVE  TallyTyped' /\ Ring' /\ Totals'
  <2>1. tally' = tally /\ messages' = messages /\ minute' = minute + n /\ n \in Nat
    BY <1>4, StatisticsAssumption DEF PassMinutes
  <2>2. TallyTyped'
    <3>1. \A i \in DOMAIN messages : messages[i].minute \in Nat
      BY <1>1, MessageTypes
    <3> QED BY <1>1, <2>1, <3>1 DEF TallyTyped
  <2>3. Ring'
    <3>1. \A b \in 0..(Buckets - 1) : tally.minutes[b].minute \in Int
      <4>1. \A bucket \in BucketSet : bucket.minute \in Int
        BY DEF BucketSet
      <4> QED BY <1>1, <4>1
    <3> QED BY <1>1, <2>1, <3>1 DEF Ring
  <2>4. Totals'
    BY <2>1 DEF Totals
  <2> QED BY <2>2, <2>3, <2>4
<1>5. CASE UNCHANGED tallyVars
  BY <1>5 DEF tallyVars, TallyTyped, Ring, Totals
<1> QED
  BY <1>2, <1>3, <1>4, <1>5 DEF TallyNext

\* The ring and the totals are right throughout.
LEMMA TallyAlways == TallySpec => [](TallyTyped /\ Ring /\ Totals)
<1>1. TallyTyped /\ Ring /\ Totals /\ [TallyNext]_tallyVars => (TallyTyped /\ Ring /\ Totals)'
  BY TallyStep
<1> QED
  BY TallyStart, <1>1, PTL DEF TallySpec

\* The messages of the last hour in the first k buckets.
Recent(list, now, k) ==
    {i \in DOMAIN list : list[i].minute > now - Buckets /\ list[i].minute % Buckets < k}

\* The bucket k counts all the messages of the last hour that belong to it, or
\* there are none.
LEMMA RecentInBucket ==
    ASSUME NEW list \in Seq(Messages), NEW now \in Nat,
           \A i \in DOMAIN list : list[i].minute =< now,
           NEW k \in 0..(Buckets - 1), NEW bucket \in [minute : Nat \cup {-1}, count : Nat],
           BucketRight(bucket, k, list), bucket.minute =< now
    PROVE  Cardinality(Recent(list, now, k + 1)) =
              Cardinality(Recent(list, now, k)) +
                 (IF bucket.minute >= now - Buckets + 1 THEN bucket.count ELSE 0)
<1> DEFINE before == Recent(list, now, k)
           after == Recent(list, now, k + 1)
           own == {i \in DOMAIN list : list[i].minute > now - Buckets /\ list[i].minute % Buckets = k}
<1>1. \A i \in DOMAIN list : list[i].minute \in Nat /\ list[i].minute % Buckets \in 0..(Buckets - 1)
  BY MessageTypes, BucketOf
<1>2. bucket.minute \in Nat \cup {-1} /\ bucket.count \in Nat /\ Buckets \in Nat \ {0} /\ k \in Nat
  BY StatisticsAssumption
<1>3. after = before \cup own /\ before \cap own = {}
  BY <1>1, <1>2 DEF Recent
<1>4. IsFiniteSet(DOMAIN list)
  <2>1. DOMAIN list = 1..Len(list) /\ Len(list) \in Nat
    BY LenProperties
  <2> QED BY <2>1, FS_Interval
<1>5. IsFiniteSet(before) /\ IsFiniteSet(own)
  BY <1>4, FS_Subset DEF Recent
<1>6. own = IF bucket.minute >= now - Buckets + 1 THEN OfMinute(list, bucket.minute) ELSE {}
  <2>1. CASE bucket.minute >= now - Buckets + 1
    <3>1. ASSUME NEW i \in DOMAIN list, list[i].minute > now - Buckets, list[i].minute % Buckets = k
          PROVE  list[i].minute = bucket.minute
      <4>1. list[i].minute =< bucket.minute
        BY <3>1 DEF BucketRight
      <4>2. bucket.minute \in Nat /\ bucket.minute % Buckets = k
        BY <1>1, <1>2, <4>1 DEF BucketRight
      <4>3. bucket.minute - list[i].minute < Buckets /\ list[i].minute - bucket.minute < Buckets
        BY <1>1, <1>2, <3>1, <4>1
      <4> QED BY <1>1, <3>1, <4>2, <4>3, SameMinute
    <3>2. ASSUME NEW i \in DOMAIN list, list[i].minute = bucket.minute
          PROVE  list[i].minute > now - Buckets /\ list[i].minute % Buckets = k
      BY <1>1, <1>2, <2>1, <3>2 DEF BucketRight
    <3> QED BY <2>1, <3>1, <3>2 DEF OfMinute
  <2>2. CASE ~ (bucket.minute >= now - Buckets + 1)
    <3>1. \A i \in DOMAIN list : list[i].minute % Buckets = k => ~ (list[i].minute > now - Buckets)
      BY <1>1, <1>2, <2>2, SMTT(30) DEF BucketRight
    <3> QED BY <2>2, <3>1
  <2> QED BY <2>1, <2>2
<1> HIDE DEF before, after, own
<1>7. Cardinality(own) = IF bucket.minute >= now - Buckets + 1 THEN bucket.count ELSE 0
  BY <1>6, FS_EmptySet DEF BucketRight
<1>8. Cardinality(after) = Cardinality(before) + Cardinality(own)
  <2>1. /\ Cardinality(before \cup own) = Cardinality(before) + Cardinality(own) - Cardinality(before \cap own)
        /\ Cardinality(before) \in Nat /\ Cardinality(own) \in Nat
    BY <1>5, FS_Union, FS_CardinalityType
  <2>2. Cardinality(before \cap own) = 0
    BY <1>3, FS_EmptySet
  <2> QED BY <1>3, <2>1, <2>2
<1>9. Cardinality(after) = Cardinality(before) + (IF bucket.minute >= now - Buckets + 1 THEN bucket.count ELSE 0)
  BY <1>7, <1>8
<1> QED BY <1>9 DEF before, after

\* The buckets of the last hour add up to its messages.
LEMMA RingIsExact ==
    ASSUME TallyTyped, Ring
    PROVE  LastHour(tally, minute) = Cardinality({i \in DOMAIN messages : messages[i].minute > minute - Buckets})
<1> DEFINE inHour(b) == IF tally.minutes[b].minute >= minute - Buckets + 1 THEN tally.minutes[b].count ELSE 0
           counts == [n \in 1..Buckets |-> inHour(n - 1)]
           recent(k) == Cardinality(Recent(messages, minute, k))
<1>1. /\ minute \in Nat /\ messages \in Seq(Messages) /\ Buckets \in Nat
      /\ \A i \in DOMAIN messages : messages[i].minute =< minute
      /\ \A b \in 0..(Buckets - 1) : tally.minutes[b] \in [minute : Nat \cup {-1}, count : Nat]
  BY StatisticsAssumption DEF TallyTyped, Tallies, BucketSet
<1>2. \A b \in 0..(Buckets - 1) : inHour(b) \in Nat
  BY <1>1
<1>3. LastHour(tally, minute) = SumOf(counts)
  BY DEF LastHour
<1>4. \A k \in 0..(Buckets - 1) : recent(k + 1) = recent(k) + inHour(k)
  <2> SUFFICES ASSUME NEW k \in 0..(Buckets - 1) PROVE recent(k + 1) = recent(k) + inHour(k)
    OBVIOUS
  <2> DEFINE bucket == tally.minutes[k]
  <2>1. BucketRight(bucket, k, messages) /\ bucket.minute =< minute
    BY DEF Ring
  <2>2. bucket \in [minute : Nat \cup {-1}, count : Nat]
    BY <1>1
  <2> HIDE DEF bucket
  <2>3. Cardinality(Recent(messages, minute, k + 1)) =
              Cardinality(Recent(messages, minute, k)) +
                 (IF bucket.minute >= minute - Buckets + 1 THEN bucket.count ELSE 0)
    BY <1>1, <2>1, <2>2, RecentInBucket
  <2> QED BY <2>3 DEF bucket
<1>5. \A n \in 1..Buckets : n - 1 \in 0..(Buckets - 1) /\ counts[n] = inHour(n - 1)
  BY <1>1
<1>6. counts \in [1..Buckets -> Nat]
  BY <1>2, <1>5
<1>7. recent(0) = 0
  <2>1. Recent(messages, minute, 0) = {}
    <3>1. \A i \in DOMAIN messages : ~ (messages[i].minute % Buckets < 0)
      <4>1. \A i \in DOMAIN messages : messages[i].minute % Buckets \in 0..(Buckets - 1)
        BY <1>1, MessageTypes, BucketOf
      <4> QED BY <1>1, <4>1
    <3> QED BY <3>1 DEF Recent
  <2> QED BY <2>1, FS_EmptySet
<1>8. Recent(messages, minute, Buckets) = {i \in DOMAIN messages : messages[i].minute > minute - Buckets}
  <2>1. \A i \in DOMAIN messages : messages[i].minute % Buckets < Buckets
    <3>1. \A i \in DOMAIN messages : messages[i].minute % Buckets \in 0..(Buckets - 1)
      BY <1>1, MessageTypes, BucketOf
    <3> QED BY <1>1, <3>1
  <2> QED BY <2>1 DEF Recent
<1> HIDE DEF counts, recent, inHour
<1>9. counts \in Seq(Nat) /\ Len(counts) = Buckets
  BY <1>1, <1>6, NumberSeq
<1>10. PICK f \in [0..Buckets -> Nat] :
          /\ f[0] = 0
          /\ \A n \in 1..Buckets : f[n] = f[n - 1] + counts[n]
          /\ SumOf(counts) = f[Buckets]
  <2>1. \E f \in [0..Len(counts) -> Nat] :
          /\ f[0] = 0
          /\ \A n \in 1..Len(counts) : f[n] = f[n - 1] + counts[n]
          /\ SumOf(counts) = f[Len(counts)]
    BY <1>9, SumSteps
  <2> QED BY <1>9, <2>1
<1> DEFINE K == {k \in Nat : k =< Buckets => f[k] = recent(k)}
<1>11. 0 \in K
  BY <1>7, <1>10
<1>12. ASSUME NEW k \in Nat, k \in K PROVE k + 1 \in K
  <2> SUFFICES ASSUME k + 1 =< Buckets PROVE f[k + 1] = recent(k + 1)
    OBVIOUS
  <2>1. k + 1 \in 1..Buckets /\ (k + 1) - 1 = k /\ k \in 0..(Buckets - 1) /\ f[k] = recent(k)
    BY <1>1, <1>12
  <2>2. f[k + 1] = f[k] + counts[k + 1] /\ counts[k + 1] = inHour(k)
    BY <1>5, <1>10, <2>1
  <2>3. recent(k + 1) = recent(k) + inHour(k)
    BY <1>4, <2>1
  <2> QED BY <2>1, <2>2, <2>3
<1>13. Nat \subseteq K
  <2> HIDE DEF K
  <2> QED BY <1>11, <1>12, SetInduction
<1>14. f[Buckets] = recent(Buckets)
  BY <1>1, <1>13
<1> QED
  BY <1>3, <1>8, <1>10, <1>14 DEF recent

\* The ring of buckets counts the messages of the last hour, however many buckets
\* it has, whatever was added and however long nothing was
\* (Statistics::snapshot()).
THEOREM LastHourCounted == TallySpec => []LastHourIsExact
<1>1. TallyTyped /\ Ring => LastHourIsExact
  <2> SUFFICES ASSUME TallyTyped, Ring PROVE LastHourIsExact
    OBVIOUS
  <2>1. Snapshot(tally, minute).lastHour = LastHour(tally, minute)
    BY DEF Snapshot
  <2> QED BY <2>1, RingIsExact DEF LastHourIsExact
<1> QED
  BY <1>1, TallyAlways, PTL

\* The totals, the counts of the levels and the lengths of a snapshot are those of
\* the messages (Statistics::add()).
THEOREM TotalsCounted == TallySpec => []TotalsAreExact
<1>1. TallyTyped /\ Totals => TotalsAreExact
  <2> SUFFICES ASSUME TallyTyped, Totals PROVE TotalsAreExact
    OBVIOUS
  <2> DEFINE snapshot == Snapshot(tally, minute)
  <2>1. /\ snapshot.total = tally.total /\ snapshot.byLevel = tally.byLevel
        /\ snapshot.totalLength = tally.totalLength
        /\ snapshot.minLength = tally.minLength /\ snapshot.maxLength = tally.maxLength
    BY DEF Snapshot
  <2> HIDE DEF snapshot
  <2> DEFINE lengths == {messages[i].length : i \in DOMAIN messages}
  <2>2. snapshot.total = Len(messages)
    BY <2>1 DEF Totals
  <2>3. \A level \in Levels :
           snapshot.byLevel[level] = Cardinality({i \in DOMAIN messages : messages[i].level = level})
    BY <2>1 DEF Totals, OfLevel
  <2>4. snapshot.totalLength = SumOf([i \in DOMAIN messages |-> messages[i].length])
    BY <2>1 DEF Totals, LengthsOf
  <2>5. messages # << >> =>
           /\ {snapshot.minLength, snapshot.maxLength} \subseteq lengths
           /\ \A length \in lengths : length \in snapshot.minLength..snapshot.maxLength
    BY <2>1 DEF Totals
  <2> QED BY <2>2, <2>3, <2>4, <2>5 DEF TotalsAreExact, snapshot
<1> QED
  BY <1>1, TallyAlways, PTL
=============================================================================

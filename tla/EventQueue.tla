----------------------------- MODULE EventQueue -----------------------------
(***************************************************************************)
(* App::EventQueue (app/core/EventQueue.hpp, EventQueue.cpp): an unbounded *)
(* queue guarded by a mutex, with one condition variable for its readers.  *)
(*                                                                         *)
(* A critical section of the mutex is one action. What the code does after *)
(* it has released the mutex - notify_one() in push(), notify_all() in     *)
(* close() - is an action of its own, so every other thread may run between*)
(* the change of the queue and the notification.  m_cv.wait() releases the *)
(* mutex and joins the waiting threads in one step, as the standard says.  *)
(*                                                                         *)
(* The operations are used by ConsoleApp with one writer and one reader;   *)
(* QueueSpec below lets any number of threads call them in any order.      *)
(***************************************************************************)
EXTENDS Naturals, Sequences, FiniteSets

CONSTANTS
    Writers,    \* threads that call push() and close()
    Readers,    \* threads that call pop() in a loop
    Events,     \* the events that are queued
    MaxQueue    \* bound of the model: longest queue that a writer extends

ASSUME EventQueueAssumption ==
    /\ Writers \cap Readers = {}
    /\ IsFiniteSet(Writers)
    /\ IsFiniteSet(Readers)
    /\ MaxQueue \in Nat

VARIABLES
    queue,      \* m_queue
    closed,     \* m_closed
    waiting,    \* the readers blocked in m_cv.wait()
    notifying   \* the notification that a writer still owes: it has left the
                \* critical section of push() or close() and not yet notified

queueVars == <<queue, closed, waiting, notifying>>

-----------------------------------------------------------------------------
(* The operations, one action for each critical section or notification.   *)

QueueInit ==
    /\ queue = << >>
    /\ closed = FALSE
    /\ waiting = {}
    /\ notifying = [w \in Writers |-> "none"]

\* Seeded faults, to show that the properties below can fail: push() that
\* forgets to notify, or that ignores m_closed.
PushSilently(w, e) ==
    /\ notifying[w] = "none"
    /\ queue' = IF closed THEN queue ELSE Append(queue, e)
    /\ UNCHANGED <<closed, waiting, notifying>>

PushAfterClose(w, e) ==
    /\ notifying[w] = "none"
    /\ queue' = Append(queue, e)
    /\ notifying' = [notifying EXCEPT ![w] = "one"]
    /\ UNCHANGED <<closed, waiting>>

\* push(): refused when the queue is closed, appended otherwise.
Push(w, e) ==
    /\ notifying[w] = "none"
    /\ IF closed
       THEN UNCHANGED <<queue, notifying>>
       ELSE /\ queue' = Append(queue, e)
            /\ notifying' = [notifying EXCEPT ![w] = "one"]
    /\ UNCHANGED <<closed, waiting>>

\* Seeded faults: close() that notifies one reader, or none.
CloseNotifiesOne(w) ==
    /\ notifying[w] = "none"
    /\ closed' = TRUE
    /\ notifying' = [notifying EXCEPT ![w] = IF closed THEN "none" ELSE "one"]
    /\ UNCHANGED <<queue, waiting>>

CloseSilently(w) ==
    /\ notifying[w] = "none"
    /\ closed' = TRUE
    /\ UNCHANGED <<queue, waiting, notifying>>

\* close(): only the first call notifies.
Close(w) ==
    /\ notifying[w] = "none"
    /\ closed' = TRUE
    /\ notifying' = [notifying EXCEPT ![w] = IF closed THEN "none" ELSE "all"]
    /\ UNCHANGED <<queue, waiting>>

\* m_cv.notify_one(): any one of the waiting readers, if there is one.
NotifyOne(w) ==
    /\ notifying[w] = "one"
    /\ notifying' = [notifying EXCEPT ![w] = "none"]
    /\ \/ waiting = {} /\ UNCHANGED waiting
       \/ \E r \in waiting : waiting' = waiting \ {r}
    /\ UNCHANGED <<queue, closed>>

\* m_cv.notify_all().
NotifyAll(w) ==
    /\ notifying[w] = "all"
    /\ notifying' = [notifying EXCEPT ![w] = "none"]
    /\ waiting' = {}
    /\ UNCHANGED <<queue, closed>>

\* pop() with the predicate of m_cv.wait() false: the reader goes to sleep.
PopWait(r) ==
    /\ r \notin waiting
    /\ ~ closed /\ queue = << >>
    /\ waiting' = waiting \cup {r}
    /\ UNCHANGED <<queue, closed, notifying>>

\* pop() that returns TRUE with the front of the queue.
PopTake(r) ==
    /\ r \notin waiting
    /\ queue # << >>
    /\ queue' = Tail(queue)
    /\ UNCHANGED <<closed, waiting, notifying>>

\* Seeded fault: a closed queue is not drained.
PopFinishEarly(r) ==
    /\ r \notin waiting
    /\ closed
    /\ UNCHANGED queueVars

\* pop() that returns FALSE.
PopFinish(r) ==
    /\ r \notin waiting
    /\ closed /\ queue = << >>
    /\ UNCHANGED queueVars

\* m_cv.wait() may return without a notification; the predicate is then
\* evaluated again by PopWait, PopTake or PopFinish.
SpuriousWakeup(r) ==
    /\ r \in waiting
    /\ waiting' = waiting \ {r}
    /\ UNCHANGED <<queue, closed, notifying>>

-----------------------------------------------------------------------------

Pop(r) == PopWait(r) \/ PopTake(r) \/ PopFinish(r)

QueueNext ==
    \/ \E w \in Writers :
          \/ \E e \in Events : Len(queue) < MaxQueue /\ Push(w, e)
          \/ Close(w)
          \/ NotifyOne(w) \/ NotifyAll(w)
    \/ \E r \in Readers : Pop(r) \/ SpuriousWakeup(r)

QueueSpec == QueueInit /\ [][QueueNext]_queueVars

-----------------------------------------------------------------------------
QueueTypeOK ==
    /\ queue \in Seq(Events)
    /\ closed \in BOOLEAN
    /\ waiting \subseteq Readers
    /\ notifying \in [Writers -> {"none", "one", "all"}]

\* The writers that still owe a notification, and the readers not asleep.
Owing == {w \in Writers : notifying[w] # "none"}
Awake == Readers \ waiting

\* No wake-up is lost: while a reader sleeps there is, for every queued event,
\* a reader that is awake or a notification that is still to come.  notify_one()
\* is called after the mutex is released, so this has to hold whatever runs in
\* between (EventQueue.cpp:6-14).
NoLostWakeup ==
    waiting # {} => Len(queue) =< Cardinality(Owing) + Cardinality(Awake)

\* No reader sleeps through the end: while a reader waits on a closed queue,
\* the notify_all() of the close() that closed it is still to come.
CloseWakesReaders ==
    closed /\ waiting # {} => \E w \in Writers : notifying[w] = "all"

\* "close() refuses new events but keeps the queued ones" (EventQueue.hpp:23):
\* from then on the queue only loses events, one at a time and at its front.
ClosedQueueOnlyDrains ==
    [][closed => closed' /\ (queue' = queue \/ (queue # << >> /\ queue' = Tail(queue)))]_queueVars

=============================================================================

---------------------------- MODULE MCEventQueue ----------------------------
(* Three writers, as in test_event_queue.cpp, may close and push at once;    *)
(* with two readers notify_one() has a choice of whom to wake.               *)
EXTENDS EventQueue

CONSTANTS w1, w2, w3, r1, r2, e1

MCWriters == {w1, w2, w3}
MCReaders == {r1, r2}
MCEvents == {e1}
=============================================================================

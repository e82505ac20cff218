---------------------------- MODULE MCSinkLogger ----------------------------
EXTENDS SinkLogger, TLC

CONSTANTS t1, t2

\* Two threads race for the mutex and with setLevel(); neither is special.
MCThreads == {t1, t2}
MCSymmetry == Permutations(MCThreads)
=============================================================================

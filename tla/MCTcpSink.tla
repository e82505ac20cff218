----------------------------- MODULE MCTcpSink -----------------------------
EXTENDS TcpSink

CONSTANTS a, b

\* A server that moves from one address to another, or listens on both.
MCAddresses == {a, b}
=============================================================================

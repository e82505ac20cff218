--------------------------- MODULE MCTcpReceiver ---------------------------
EXTENDS TcpReceiver

CONSTANTS a, b, c, x, nl

MCSenders == {a, b, c}
MCLetters == {x}

\* a sends a line, b stops in the middle of a line, c only connects.
MCText(s) ==
    CASE s = a -> <<x, nl>>
      [] s = b -> <<x>>
      [] s = c -> << >>
=============================================================================

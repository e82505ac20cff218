---------------------------- MODULE MCLineStream ----------------------------
EXTENDS LineStream

CONSTANTS x, y, nl

\* Two letters tell whether bytes are lost or reordered.
MCLetters == {x, y}
=============================================================================

----------------------------- MODULE LogRecord -----------------------------
(***************************************************************************)
(* logger/src/LogRecord.cpp: the text of a record, which the sinks write   *)
(* and the collector reads.  A line is a sequence of bytes, except that the *)
(* stamp with the level, "YYYY-MM-DD hh:mm:ss.mmmZ [LEVEL] ", is one head. *)
(*                                                                         *)
(* A message may contain the text of a head as well.                       *)
(***************************************************************************)
EXTENDS Timestamp, Sequences

CONSTANT HeadText   \* the heads, with the stamp and the level that each shows

Heads == DOMAIN HeadText

ASSUME LogRecordAssumption == Heads \subseteq Nat \ 0..255

\* What a line or a message is made of.
Chars == 0..255 \cup Heads

Backslash == 92
LF == 10
LetterX == 120

\* shortEscape() and shortUnescape(), where they do not return '\0'.
ShortEscape == [c \in {Backslash, LF, 13, 9} |->
                    CASE c = LF -> 110 [] c = 13 -> 114 [] c = 9 -> 116 [] OTHER -> c]
ShortUnescape == [c \in {Backslash, 110, 114, 116} |->
                    CASE c = 110 -> LF [] c = 114 -> 13 [] c = 116 -> 9 [] OTHER -> c]

HexDigit(value) == IF value < 10 THEN 48 + value ELSE 55 + value

HexDigits == 48..57 \cup 65..70 \cup 97..102
HexValue(c) == CASE c \in 48..57 -> c - 48 [] c \in 65..70 -> c - 55 [] c \in 97..102 -> c - 87

IsControl(b) == b < 32 \/ b = 127

\* Seeded fault: a newline is not escaped.
EscapeByteKeepsNewline(b) ==
    IF b \in DOMAIN ShortEscape \ {LF} THEN <<Backslash, ShortEscape[b]>> ELSE <<b>>

EscapeByte(b) ==
    CASE b \in DOMAIN ShortEscape -> <<Backslash, ShortEscape[b]>>
      [] b \notin DOMAIN ShortEscape /\ IsControl(b) ->
            <<Backslash, LetterX, HexDigit(b \div 16), HexDigit(b % 16)>>
      [] OTHER -> <<b>>

\* escapeMessage()
Escape(message) ==
    LET of[n \in 0..Len(message)] ==
            IF n = 0 THEN << >> ELSE of[n - 1] \o EscapeByte(message[n])
    IN  of[Len(message)]

\* A round of the loop of unescapeMessage() in each of its cases: s is its place in
\* the text and what it has put out.  A broken escape stays as it is.
Put(s, taken, c) == [at |-> s.at + taken, out |-> Append(s.out, c)]

UnescapeRound(text, s) ==
    LET c(n) == IF s.at + n =< Len(text) THEN text[s.at + n] ELSE -1
    IN  CASE s.at > Len(text) -> s
          [] c(0) = Backslash /\ c(1) \in DOMAIN ShortUnescape -> Put(s, 2, ShortUnescape[c(1)])
          [] c(0) = Backslash /\ c(1) = LetterX /\ c(2) \in HexDigits /\ c(3) \in HexDigits ->
                Put(s, 4, 16 * HexValue(c(2)) + HexValue(c(3)))
          [] OTHER -> Put(s, 1, c(0))

\* unescapeMessage(): a round takes at least one byte.
Unescape(text) ==
    LET after[n \in 0..Len(text)] ==
            IF n = 0 THEN [at |-> 1, out |-> << >>] ELSE UnescapeRound(text, after[n - 1])
    IN  after[Len(text)].out

FormatRecord(record) ==
    LET text == [stamp |-> StampOf(record.time), level |-> record.level]
    IN  <<CHOOSE head \in Heads : HeadText[head] = text>> \o Escape(record.message)

\* The heads that parseRecord() takes; what is left of a head that was cut is none.
GoodHeads == {head \in Heads : IsStamp(HeadText[head].stamp)}

IsRecord(line) == line # << >> /\ line[1] \in GoodHeads

ParseRecord(line) ==
    [time |-> Timegm(HeadText[line[1]].stamp), level |-> HeadText[line[1]].level,
     message |-> Unescape(Tail(line))]
=============================================================================

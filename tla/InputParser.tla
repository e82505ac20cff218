---------------------------- MODULE InputParser ----------------------------
(***************************************************************************)
(* App::parseUserInput() (app/core/InputParser.cpp): what a line that the  *)
(* user types asks for.                                                    *)
(*                                                                         *)
(* A line is the sequence of its words, so that trim() and                 *)
(* splitFirstWord() are Head and Tail: the blanks around the words are     *)
(* trimmed, and those between them are only part of a text.  The text of a *)
(* message is not kept, ConsoleApp tells messages apart by their lines.    *)
(***************************************************************************)
EXTENDS Naturals, Sequences

CONSTANTS
    LevelOf,    \* string2level(): the level of each word that names one
    Slashed,    \* the words that begin with '/'
    Escaped     \* those that begin with "//"

ASSUME InputParserAssumption ==
    /\ Escaped \subseteq Slashed
    /\ DOMAIN LevelOf \cap Slashed = {}
    /\ {"/quit", "/help", "/level"} \subseteq Slashed \ Escaped

\* TUserInput
SMessage(l) == [kind |-> "message", level |-> l]
SLevelCommand(l) == [kind |-> "level", level |-> l]
SQuitCommand == [kind |-> "quit"]
SHelpCommand == [kind |-> "help"]
SEmptyLine == [kind |-> "empty"]
SError == [kind |-> "error"]

\* The argument of "/level" is the rest of the line: two words name no level.
NamesLevel(words) == Len(words) = 1 /\ words[1] \in DOMAIN LevelOf

ParseCommand(line) ==
    CASE Head(line) = "/quit" -> SQuitCommand
      [] Head(line) = "/help" -> SHelpCommand
      [] Head(line) = "/level" /\ NamesLevel(Tail(line)) -> SLevelCommand(LevelOf[Tail(line)[1]])
      [] OTHER -> SError

\* The first word names the level of the line.
GivesLevel(line) == line # << >> /\ Head(line) \in DOMAIN LevelOf

\* Seeded fault: a message without a level gets the one that SMessage{} has.
FixedLevel(default) == SMessage(LevelOf["INFO"])

\* A message without a level, which begins with "//" or with any other word.
DefaultLevel(default) == SMessage(default)

ParseUserInput(line, default) ==
    CASE line = << >> -> SEmptyLine
      [] line # << >> /\ Head(line) \in Slashed \ Escaped -> ParseCommand(line)
      [] GivesLevel(line) /\ Len(line) = 1 -> SError
      [] GivesLevel(line) /\ Len(line) > 1 -> SMessage(LevelOf[Head(line)])
      [] OTHER -> DefaultLevel(default)
=============================================================================

--------------------------- MODULE MCTranscripts ---------------------------
(* An instance of Transcripts: two files, three turns, one of which stands *)
(* in both files with other tokens, and lines that are too long.  A line   *)
(* may have two half buffers, one full buffer, at most.                    *)
EXTENDS Transcripts

L(turn, session, message, request, parent, at, tokens, size) ==
  [turn |-> turn, session |-> session, message |-> message, request |-> request,
   parent |-> parent, at |-> at, tokens |-> tokens, size |-> size, state |-> "ended"]

ByMessage  == L("t1", "s", "m", "", "", 1, 1, 1)
Streamed   == L("t1", "s", "m", "", "", 1, 2, 2)
ByRequest  == L("t2", "s", "", "r", "", 1, 1, 2)
ByParent   == L("t3", "", "", "", "p", 1, 1, 1)
ByTime     == L("t4", "s", "", "", "", 1, 1, 1)
Nameless   == L("t5", "s", "", "", "", 0, 1, 1)
TooLong    == L("t6", "s", "n", "", "", 1, 1, 5)
JustTooLong == L("t6", "s", "n", "", "", 1, 1, 3)
NoTurn     == L("t0", "s", "", "", "", 1, 0, 1)

MCPaths    == <<"a.jsonl", "b.jsonl">>
MCContents == {<<>>, <<ByMessage, NoTurn>>, <<TooLong, ByRequest>>,
               <<JustTooLong, Streamed, ByParent>>, <<Nameless, ByTime, ByRequest>>}
MCNewLines == {ByMessage, Streamed, TooLong}

ASSUME NamesAssumption == NamesTellTurns
=============================================================================

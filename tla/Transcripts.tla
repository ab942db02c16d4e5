---------------------------- MODULE Transcripts ----------------------------
(***************************************************************************)
(* Claude's transcript source: the lines of the CLI's session files are    *)
(* read one buffer at a time and the tokens of every turn are added up,    *)
(* while the CLI goes on writing to the same files.                        *)
(***************************************************************************)
EXTENDS Integers, Sequences, FiniteSets, FiniteSetsExt

CONSTANTS
  Paths,      \* the session files, in the order of the walk
  Contents,   \* what they may hold at first, each a sequence of lines
  NewLines,   \* the lines the CLI may write
  Sinces,     \* the instants from which tokens count, 0 for all
  MaxLine,    \* the longest line taken, in half buffers
  LastNow, MaxWrites   \* bounds on the clock and on the lines written

\* A line: the turn it is of, what it is known by, when it was written (0 if it
\* does not say), its tokens and its size; and whether it ends in a newline, lacks
\* only that, or is half a line.
Written == {"ended", "open", "torn"}
Lines   ==
  [turn : STRING, session : STRING, message : STRING, request : STRING, parent : STRING,
   at : Nat, tokens : Nat, size : Nat, state : Written]

ASSUME TranscriptAssumption ==
  /\ Paths \in Seq(STRING)
  /\ Sinces \subseteq Nat
  /\ MaxLine \in Nat
  /\ NewLines \subseteq Lines
  /\ Contents \subseteq Seq(Lines)
  /\ \A lines \in Contents : \A i \in DOMAIN lines :
       lines[i].at <= 1 /\ (i < Len(lines) => lines[i].state = "ended")

VARIABLES
  ctx, pc, fetched,   \* as in FetchCall
  now, writes,        \* the clock, and the lines the CLI has written
  since,              \* the instant from which tokens count
  dir,                \* the projects directory: there, missing, a file, or denied
  files,              \* the lines of each file
  mtime,              \* when each was written last
  denied,             \* the files that cannot be read, or no longer
  listed,             \* the files the walk meets
  file,               \* the file the walk is at, 0 before the first
  pos, off, tooLong,  \* the lines read of it, the half buffers of the next, and
                      \* whether the rest of that line is to be passed over
  seen,               \* the keys of the turns counted
  total,              \* their tokens
  counted,            \* history: the lines counted
  atStart             \* history: how many lines of each file were whole at first

disk  == <<now, writes, since, dir, files, mtime, denied>>
place == <<file, pos, off, tooLong>>
sum   == <<seen, total, counted>>
vars  == <<ctx, pc, fetched, disk, listed, place, sum, atStart>>

Files   == DOMAIN Paths
Nothing == "nothing"
Fetched == {"report", "timeout", "upstream_error", "not_installed"}

Ended(line) == [line EXCEPT !.state = "ended"]

Init ==
  /\ ctx = "live"
  /\ pc = "start"
  /\ fetched = Nothing
  /\ now = 1
  /\ writes = 0
  /\ since \in Sinces
  /\ dir \in {"there", "missing", "file", "denied"}
  /\ files \in IF dir = "there" THEN [Files -> Contents] ELSE {[f \in Files |-> <<>>]}
  /\ mtime = [f \in Files |-> 1]
  /\ denied = {}
  /\ listed = {}
  /\ file = 0
  /\ pos = 0 /\ off = 0 /\ tooLong = FALSE
  /\ seen = {} /\ total = 0 /\ counted = {}
  /\ atStart = [f \in Files |-> 0]

-----------------------------------------------------------------------------
(* The CLI, the clock and the context.                                     *)

Busy == pc # "returned" /\ dir = "there"

Tick ==
  /\ Busy
  /\ now < LastNow
  /\ now' = now + 1
  /\ UNCHANGED <<ctx, pc, fetched, writes, since, dir, files, mtime, denied, listed, place, sum, atStart>>

ContextEnds ==
  /\ pc # "returned"
  /\ ctx = "live"
  /\ ctx' \in {"canceled", "deadline"}
  /\ UNCHANGED <<pc, fetched, disk, listed, place, sum, atStart>>

Touched(f, lines) ==
  /\ Busy
  /\ files' = [files EXCEPT ![f] = lines]
  /\ mtime' = [mtime EXCEPT ![f] = now]
  /\ UNCHANGED <<ctx, pc, fetched, now, since, dir, denied, place, sum, atStart>>

\* Whether the file's last line ends in a newline.
Whole(lines) == IF lines = <<>> THEN TRUE ELSE lines[Len(lines)].state = "ended"

(* A line is written, all of it or not yet: of a turn, of the same turn    *)
(* once more, or copied from another session.  A file the walk has not     *)
(* listed may come in time to be.                                          *)
WriteLine(f) ==
  /\ writes < MaxWrites
  /\ writes' = writes + 1
  /\ Whole(files[f])
  /\ \E line \in NewLines, state \in Written :
       Touched(f, Append(files[f], [line EXCEPT !.at = IF @ = 0 THEN 0 ELSE now, !.state = state]))
  /\ listed' \in {listed} \cup IF pc # "start" /\ f > file THEN {listed \cup {f}} ELSE {}

FinishLine(f) ==
  /\ ~ Whole(files[f])
  /\ Touched(f, [files[f] EXCEPT ![Len(files[f])] = Ended(@)])
  /\ UNCHANGED <<writes, listed>>

\* A file goes, or may no longer be read.
Deny(f) ==
  /\ Busy
  /\ f \notin denied
  /\ denied' = denied \cup {f}
  /\ UNCHANGED <<ctx, pc, fetched, now, writes, since, dir, files, mtime, listed, place, sum, atStart>>

-----------------------------------------------------------------------------
(* The walk.                                                               *)

Return(answer) ==
  /\ fetched' = answer
  /\ pc' = "returned"

\* Mutant: every context's end is a timeout.
AlwaysTime == "timeout"

\* Why a call whose context has ended failed.
CtxReason == IF ctx = "deadline" THEN "timeout" ELSE "upstream_error"

Begin ==
  /\ pc = "start"
  /\ IF ctx # "live" THEN Return(CtxReason) /\ UNCHANGED <<listed, atStart>>
     ELSE IF dir = "denied" THEN Return("upstream_error") /\ UNCHANGED <<listed, atStart>>
     ELSE IF dir # "there" THEN Return("not_installed") /\ UNCHANGED <<listed, atStart>>
     ELSE /\ pc' = "walking"
          /\ listed' = {f \in Files : files[f] # <<>>}
          /\ atStart' = [f \in Files |-> Cardinality({i \in DOMAIN files[f] : files[f][i].state = "ended"})]
          /\ UNCHANGED fetched
  /\ UNCHANGED <<ctx, disk, place, sum>>

Ahead == {f \in listed : f > file}

\* Mutant: a file written at the very instant is too old.
StaleOrEven(f) == since # 0 /\ mtime[f] <= since

\* Whether a file was last written before any of its lines can count.
TooOld(f) == since # 0 /\ mtime[f] < since

\* A file too old, or not to be opened, is passed over.
VisitFile ==
  /\ pc = "walking"
  /\ ctx = "live"
  /\ Ahead # {}
  /\ LET f == Min(Ahead)
     IN  /\ file' = f
         /\ pc' = IF TooOld(f) \/ f \in denied THEN "walking" ELSE "reading"
  /\ pos' = 0 /\ off' = 0 /\ tooLong' = FALSE
  /\ UNCHANGED <<ctx, fetched, disk, listed, sum, atStart>>

EndWalk ==
  /\ pc = "walking"
  /\ Ahead = {}
  /\ Return("report")
  /\ UNCHANGED <<ctx, disk, listed, place, sum, atStart>>

(* The context is looked at before every read and at whatever the walk     *)
(* meets: the directory itself, which comes first, the session files, and  *)
(* the directories and other files that are not modelled.                  *)
CutShort ==
  /\ ctx # "live"
  /\ pc \in {"walking", "reading"}
  /\ Return(CtxReason)
  /\ UNCHANGED <<ctx, disk, listed, place, sum, atStart>>

-----------------------------------------------------------------------------
(* The lines.                                                              *)

Reading == pc = "reading" /\ ctx = "live"

LeaveFile ==
  /\ pc' = "walking"
  /\ UNCHANGED <<ctx, fetched, disk, listed, place, sum, atStart>>

(* A read fails: what was counted of the file stays counted, the rest is   *)
(* left out.                                                               *)
ReadFails ==
  /\ Reading
  /\ file \in denied
  /\ LeaveFile

More      == pos < Len(files[file])
Line      == files[file][pos + 1]
Remaining == Line.size - off

\* The file ends, also within a line that fills its last buffer and has no
\* newline yet: that line is lost.
AtEnd == IF More THEN Line.state = "open" /\ off > 0 /\ Remaining = 0 ELSE TRUE

EndOfFile ==
  /\ Reading
  /\ AtEnd
  /\ LeaveFile

(* A buffer full without a newline in it.                                  *)
ReadPrefix ==
  /\ Reading
  /\ More
  /\ Remaining >= 2
  /\ off' = off + 2
  /\ tooLong' = (tooLong \/ off + 2 > MaxLine)
  /\ UNCHANGED <<ctx, pc, fetched, disk, listed, file, pos, sum, atStart>>

\* Mutant: a turn is known by the file it stands in.
KeyByFile(line, f) == <<Paths[f], "message", line.message, line.request, line.parent, line.tokens>>

\* What a turn is known by: the session, and the best name the line has for it.
dedupKey(line, f) ==
  LET session == IF line.session # "" THEN line.session ELSE Paths[f]
  IN  CASE line.message # "" -> <<session, "id", line.message>>
        [] line.message = "" /\ line.request # "" -> <<session, "id", line.request>>
        [] line.message = "" /\ line.request = "" /\ line.parent # "" ->
             <<session, "parent", line.parent, line.tokens>>
        [] line.message = "" /\ line.request = "" /\ line.parent = "" /\ line.at # 0 ->
             <<session, "at", line.at, line.tokens>>
        [] OTHER -> <<session, "tokens", line.tokens>>

\* Whether a line is one to count: JSON with tokens in it, recent enough.
Counts(line) ==
  /\ line.state # "torn"
  /\ since # 0 => line.at # 0 /\ line.at >= since
  /\ line.tokens > 0

(* The rest of a line, which may be empty.                                 *)
ReadRest ==
  /\ Reading
  /\ More
  /\ ~ AtEnd
  /\ Remaining < 2
  /\ pos' = pos + 1
  /\ off' = 0
  /\ tooLong' = FALSE
  /\ LET key == dedupKey(Line, file)
     IN  IF ~ tooLong /\ Line.size <= MaxLine /\ Counts(Line) /\ key \notin seen
         THEN /\ seen' = seen \cup {key}
              /\ total' = total + Line.tokens
              /\ counted' = counted \cup {[turn |-> Line.turn, file |-> file, line |-> pos + 1]}
         ELSE UNCHANGED sum
  /\ UNCHANGED <<ctx, pc, fetched, disk, listed, file, atStart>>

-----------------------------------------------------------------------------
FetchStep ==
  \/ Begin \/ VisitFile \/ EndWalk \/ CutShort
  \/ ReadFails \/ EndOfFile \/ ReadPrefix \/ ReadRest

Next ==
  \/ FetchStep
  \/ Tick \/ ContextEnds
  \/ \E f \in Files : WriteLine(f) \/ FinishLine(f) \/ Deny(f)

Spec == Init /\ [][Next]_vars

(* The scan never waits for anyone.                                        *)
FairSpec == Spec /\ WF_vars(FetchStep)

-----------------------------------------------------------------------------
(* Properties.                                                             *)

\* Whether a line's turn has a name of its own, wherever the line stands.
Named(line) == line.session # "" /\ (line.message # "" \/ line.request # "")

\* What that takes for granted of the CLI, for the proofs: lines known by the same
\* session and message or request are of one turn, and a turn that has such a name
\* has no other.
IdOf(line)       == IF line.message # "" THEN line.message ELSE line.request
SessionOf(l, f)  == IF l.session # "" THEN l.session ELSE Paths[f]
KnownLines       == NewLines \cup UNION {{lines[i] : i \in DOMAIN lines} : lines \in Contents}
NamesTellTurns   ==
  \A l, m \in KnownLines, f \in Files :
    Named(m) => (l.turn = m.turn <=> IdOf(l) = IdOf(m) /\ SessionOf(l, f) = m.session)

\* No turn that has a name is counted on two lines.
OncePerTurn ==
  \A c, d \in counted : c.turn = d.turn /\ Named(files[c.file][c.line]) => c = d

\* A turn that has a name is counted once at most, in however many files it
\* stands, however often the CLI wrote it and whenever; the tokens are those of
\* the lines counted.
TurnsCountOnce ==
  /\ OncePerTurn
  /\ total = MapThenSumSet(LAMBDA c : files[c.file][c.line].tokens, counted)

\* A report leaves out no named turn that stood on disk when the scan began, in
\* a file that can be read, on a line that is whole, not too long and not too
\* old: not by the file's age, not for a line passed over before it, and not
\* for the context's sake.
NothingIsMissed ==
  fetched = "report" =>
    \A f \in Files \ denied : \A i \in 1 .. atStart[f] :
      LET line == files[f][i]
      IN  Named(line) /\ line.size <= MaxLine /\ Counts(line) =>
            \E c \in counted : c.turn = line.turn

\* Fetch is the call of a cooperative source that Resolver's runs suppose.
Contract == INSTANCE SourceCall WITH
  Answers  <- Fetched,
  TimedOut <- "timeout",
  NoAnswer <- Nothing,
  answer   <- fetched

KeepsContract == Contract!Spec
=============================================================================

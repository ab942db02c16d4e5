-------------------------- MODULE TranscriptsProofs --------------------------
(***************************************************************************)
(* The transcript scan, for any session files, any lines in them and any   *)
(* writing by the CLI while the scan goes on: no turn that has a name is   *)
(* counted twice, none that stood on disk is left out, and Fetch answers   *)
(* as its contract says.                                                   *)
(***************************************************************************)
EXTENDS Transcripts, FiniteSetTheorems, WellFoundedInduction, TLAPS

-----------------------------------------------------------------------------
\* The types, and where the scan is.
ScanTypes ==
  /\ ctx \in {"live", "canceled", "deadline"}
  /\ pc \in {"start", "walking", "reading", "returned"}
  /\ fetched \in Fetched \cup {Nothing}
  /\ pc = "returned" <=> fetched # Nothing
  /\ fetched = "timeout" => ctx = "deadline"
  /\ since \in Nat /\ now \in Nat \ {0}
  /\ files \in [Files -> Seq(Lines)]
  /\ mtime \in [Files -> Nat]
  /\ denied \subseteq Files /\ listed \subseteq Files
  /\ file \in Nat /\ pos \in Nat /\ off \in Nat /\ tooLong \in BOOLEAN
  /\ atStart \in [Files -> Nat]
  /\ pc = "reading" => file \in Files
  /\ pc = "start" => file = 0

\* Whether x is what became of the line b: when it is written, a line is given its
\* instant and its state, and it may be finished later.
Became(x, b) ==
  /\ x.turn = b.turn /\ x.session = b.session /\ x.message = b.message
  /\ x.request = b.request /\ x.parent = b.parent /\ x.tokens = b.tokens /\ x.size = b.size

\* Only the last line of a file is unfinished, and none is younger than its file.
FilesInv ==
  \A f \in Files :
    /\ mtime[f] <= now
    /\ \A i \in DOMAIN files[f] :
         /\ i < Len(files[f]) => files[f][i].state = "ended"
         /\ files[f][i].at <= mtime[f]
         /\ \E b \in KnownLines : Became(files[f][i], b)

\* The lines that were whole when the scan began are still there and are whole,
\* and their file is listed.
StartInv ==
  \A f \in Files :
    /\ atStart[f] <= Len(files[f])
    /\ \A i \in 1 .. atStart[f] : files[f][i].state = "ended"
    /\ pc = "start" => atStart[f] = 0
    /\ atStart[f] > 0 => f \in listed

\* The line being read, and how much of it has been: what makes it too long is
\* its own size.
PlaceInv ==
  pc = "reading" =>
    /\ pos <= Len(files[file])
    /\ off > 0 => pos < Len(files[file]) /\ off <= files[file][pos + 1].size
    /\ tooLong => off > MaxLine

\* The keys seen are those of the lines counted, each of one line.
KeyOf(c) == dedupKey(files[c.file][c.line], c.file)

CountInv ==
  /\ \A c \in counted :
       /\ c.file \in Files /\ c.line \in DOMAIN files[c.file]
       /\ c.turn = files[c.file][c.line].turn
       /\ KeyOf(c) \in seen
  /\ \A k \in seen : \E c \in counted : KeyOf(c) = k
  /\ \A c, d \in counted : KeyOf(c) = KeyOf(d) => c = d

\* Whether a report is to have the line's turn.
Wanted(line) == Named(line) /\ line.size <= MaxLine /\ Counts(line)

\* No line up to the n-th that should count has been missed.
Told(f, n) ==
  \A i \in 1 .. n :
    i <= atStart[f] /\ Wanted(files[f][i]) => \E c \in counted : c.turn = files[f][i].turn

Passed(f) == f < file \/ (f = file /\ pc = "walking") \/ fetched = "report"

MissInv ==
  /\ \A f \in Files \ denied : pc # "start" /\ Passed(f) => Told(f, atStart[f])
  /\ pc = "reading" /\ file \notin denied => Told(file, pos)

-----------------------------------------------------------------------------
(* The files.                                                              *)

\* Whether the line y is what the line x is now.
Stays(y, x) ==
  /\ y \in Lines
  /\ Became(y, x)
  /\ y.at = x.at
  /\ x.state # "torn" => y.state # "torn"
  /\ x.state = "ended" => y.state = "ended"

\* The files only grow.
Grown ==
  /\ since' = since
  /\ now' \in Nat /\ now <= now'
  /\ denied \subseteq denied'
  /\ ~ Begin => listed \subseteq listed'
  /\ \A f \in Files :
       /\ mtime'[f] \in {mtime[f], now'}
       /\ Len(files[f]) <= Len(files'[f])
       /\ \A i \in DOMAIN files[f] : i \in DOMAIN files'[f] /\ Stays(files'[f][i], files[f][i])

\* The files, as TLAPS is told of them.
LEMMA FilesAreSequences ==
  /\ Files = 1 .. Len(Paths)
  /\ Files \subseteq Nat
  /\ Len(Paths) \in Nat
BY TranscriptAssumption DEF Files

\* The longer line's fields.
LEMMA LineFields ==
  ASSUME NEW line \in Lines
  PROVE  /\ line.turn \in STRING /\ line.session \in STRING /\ line.message \in STRING
         /\ line.request \in STRING /\ line.parent \in STRING
         /\ line.at \in Nat /\ line.tokens \in Nat /\ line.size \in Nat
         /\ line.state \in {"ended", "open", "torn"}
BY DEF Lines, Written

\* A line finished is the line it was.
LEMMA EndedStays ==
  ASSUME NEW line \in Lines
  PROVE  Stays(Ended(line), line) /\ Ended(line).state = "ended"
BY DEF Lines, Written, Ended, Stays, Became

\* A line written is of its file's time.
LEMMA WrittenLine ==
  ASSUME NEW line \in Lines, NEW state \in Written, NEW n \in Nat
  PROVE  LET new == [line EXCEPT !.at = IF @ = 0 THEN 0 ELSE n, !.state = state]
         IN  new \in Lines /\ Became(new, line) /\ new.at <= n
<1> DEFINE t   == IF line.at = 0 THEN 0 ELSE n
           mid == [line EXCEPT !.at = t]
           new == [mid EXCEPT !.state = state]
<1>1. t \in Nat /\ t <= n
  OBVIOUS
<1> HIDE DEF t
<1>2. mid \in Lines /\ Became(mid, line) /\ mid.at = t
  BY <1>1 DEF Lines, Became
<1> HIDE DEF mid
<1>3. new \in Lines /\ Became(new, mid) /\ new.at = t
  BY <1>2 DEF Lines, Became
<1>4. Became(new, line)
  BY <1>2, <1>3 DEF Became
<1> QED BY <1>1, <1>3, <1>4 DEF new, mid, t

\* A file changes only at its end.
LEMMA TouchedFiles ==
  ASSUME ScanTypes, FilesInv, NEW f \in Files, WriteLine(f) \/ FinishLine(f)
  PROVE  \E lines \in Seq(Lines) :
           /\ files' = [files EXCEPT ![f] = lines]
           /\ mtime' = [mtime EXCEPT ![f] = now]
           /\ Len(files[f]) <= Len(lines)
           /\ \A i \in DOMAIN files[f] : i \in DOMAIN lines /\ Stays(lines[i], files[f][i])
           /\ \A i \in DOMAIN lines :
                /\ i < Len(lines) => lines[i].state = "ended"
                /\ lines[i].at <= now
                /\ \E b \in KnownLines : Became(lines[i], b)
<1>0. /\ files[f] \in Seq(Lines) /\ now \in Nat /\ mtime[f] \in Nat
      /\ mtime[f] <= now
      /\ \A i \in DOMAIN files[f] : files[f][i] \in Lines
  BY DEF ScanTypes, FilesInv
<1>1. \A i \in DOMAIN files[f] : Stays(files[f][i], files[f][i])
  BY <1>0 DEF Stays, Became
<1>2. ASSUME NEW i \in DOMAIN files[f]
      PROVE  /\ i < Len(files[f]) => files[f][i].state = "ended"
             /\ files[f][i].at <= now
             /\ \E b \in KnownLines : Became(files[f][i], b)
  <2>1. /\ i < Len(files[f]) => files[f][i].state = "ended"
        /\ files[f][i].at <= mtime[f]
        /\ \E b \in KnownLines : Became(files[f][i], b)
    BY DEF FilesInv
  <2>2. files[f][i].at \in Nat
    BY <1>0, LineFields
  <2> QED BY <1>0, <2>1, <2>2
<1>3. CASE WriteLine(f)
  <2>1. PICK line \in NewLines, state \in Written :
          Touched(f, Append(files[f], [line EXCEPT !.at = IF @ = 0 THEN 0 ELSE now, !.state = state]))
    BY <1>3 DEF WriteLine
  <2> DEFINE new   == [line EXCEPT !.at = IF @ = 0 THEN 0 ELSE now, !.state = state]
             lines == Append(files[f], new)
  <2>2. line \in Lines /\ line \in KnownLines
    BY TranscriptAssumption DEF KnownLines
  <2>3. new \in Lines /\ Became(new, line) /\ new.at <= now
    BY <1>0, <2>2, WrittenLine
  <2>4. files' = [files EXCEPT ![f] = lines] /\ mtime' = [mtime EXCEPT ![f] = now]
    BY <2>1 DEF Touched
  <2> HIDE DEF new
  <2>5. /\ lines \in Seq(Lines)
        /\ Len(lines) = Len(files[f]) + 1
        /\ DOMAIN lines = DOMAIN files[f] \cup {Len(files[f]) + 1}
        /\ \A i \in DOMAIN files[f] : i \in DOMAIN lines /\ lines[i] = files[f][i]
        /\ lines[Len(files[f]) + 1] = new
    BY <1>0, <2>3
  <2>6. ASSUME NEW i \in DOMAIN files[f] PROVE files[f][i].state = "ended"
    <3>1. Whole(files[f])
      BY <1>3 DEF WriteLine
    <3>2. i \in 1 .. Len(files[f]) /\ Len(files[f]) \in Nat
      BY <1>0
    <3>3. i < Len(files[f]) \/ i = Len(files[f])
      BY <3>2
    <3>4. files[f] # <<>>
      BY <1>0, <3>2
    <3> QED BY <1>2, <3>1, <3>3, <3>4 DEF Whole
  <2>7. ASSUME NEW i \in DOMAIN lines
        PROVE  /\ i < Len(lines) => lines[i].state = "ended"
               /\ lines[i].at <= now
               /\ \E b \in KnownLines : Became(lines[i], b)
    <3>1. CASE i \in DOMAIN files[f]
      BY <1>2, <2>5, <2>6, <3>1
    <3>2. CASE i = Len(files[f]) + 1
      <4>1. ~ (i < Len(lines))
        BY <1>0, <2>5, <3>2
      <4> QED BY <2>2, <2>3, <2>5, <3>2, <4>1
    <3> QED BY <2>5, <3>1, <3>2
  <2>8. Len(files[f]) <= Len(lines)
    BY <1>0, <2>5
  <2> HIDE DEF lines
  <2> QED BY <1>1, <2>4, <2>5, <2>7, <2>8
<1>4. CASE FinishLine(f)
  <2> DEFINE n     == Len(files[f])
             lines == [files[f] EXCEPT ![n] = Ended(@)]
  <2>1. files' = [files EXCEPT ![f] = lines] /\ mtime' = [mtime EXCEPT ![f] = now]
    BY <1>4 DEF FinishLine, Touched
  <2>2. files[f] # <<>>
    BY <1>4 DEF FinishLine, Whole
  <2>3. n \in DOMAIN files[f] /\ n \in Nat
    BY <1>0, <2>2
  <2>4. Stays(Ended(files[f][n]), files[f][n]) /\ Ended(files[f][n]).state = "ended"
    BY <1>0, <2>3, EndedStays
  <2>5. Ended(files[f][n]) \in Lines
    BY <2>4 DEF Stays
  <2>6. /\ lines \in Seq(Lines)
        /\ DOMAIN lines = DOMAIN files[f]
        /\ Len(lines) = n
        /\ \A i \in DOMAIN files[f] : i # n => lines[i] = files[f][i]
        /\ lines[n] = Ended(files[f][n])
    BY <1>0, <2>3, <2>5
  <2> HIDE DEF lines
  <2>7. ASSUME NEW i \in DOMAIN files[f] PROVE Stays(lines[i], files[f][i])
    BY <1>1, <2>4, <2>6
  <2>8. ASSUME NEW i \in DOMAIN lines
        PROVE  /\ i < Len(lines) => lines[i].state = "ended"
               /\ lines[i].at <= now
               /\ \E b \in KnownLines : Became(lines[i], b)
    <3>1. i \in DOMAIN files[f] /\ Stays(lines[i], files[f][i])
      BY <2>6, <2>7
    <3>2. PICK b \in KnownLines : Became(files[f][i], b)
      BY <1>2, <3>1
    <3>3. Became(lines[i], b)
      BY <3>1, <3>2 DEF Stays, Became
    <3>4. i < n => lines[i].state = "ended"
      BY <1>2, <3>1 DEF Stays
    <3>5. lines[i].at <= now
      BY <1>2, <3>1 DEF Stays
    <3> QED BY <2>6, <3>3, <3>4, <3>5
  <2>9. Len(files[f]) <= Len(lines)
    BY <2>3, <2>6
  <2> QED BY <2>1, <2>6, <2>7, <2>8, <2>9
<1> QED BY <1>3, <1>4

\* What a step of the scan leaves alone.
LEMMA ScanLeavesFiles ==
  ASSUME FetchStep
  PROVE  /\ UNCHANGED <<ctx, now, since, files, mtime, denied>>
         /\ ~ Begin => UNCHANGED <<listed, atStart>>
BY DEF FetchStep, Begin, VisitFile, EndWalk, CutShort, ReadFails, EndOfFile, ReadPrefix, ReadRest, LeaveFile, disk

\* What the CLI, the clock and the context leave alone.
LEMMA OthersLeaveScan ==
  ASSUME [Next]_vars, ~ FetchStep
  PROVE  UNCHANGED <<pc, fetched, since, place, sum, atStart>>
BY DEF Next, Tick, ContextEnds, WriteLine, FinishLine, Deny, Touched, vars, disk

\* In any step the files only grow.
LEMMA NextGrows ==
  ASSUME ScanTypes, FilesInv, [Next]_vars
  PROVE  Grown
<1>1. /\ now \in Nat /\ files \in [Files -> Seq(Lines)] /\ mtime \in [Files -> Nat]
      /\ \A f \in Files : \A i \in DOMAIN files[f] : files[f][i] \in Lines
  BY DEF ScanTypes
<1>2. \A f \in Files : \A i \in DOMAIN files[f] : Stays(files[f][i], files[f][i])
  BY <1>1 DEF Stays, Became
<1>3. \A f \in Files : Len(files[f]) \in Nat
  BY <1>1
<1>4. CASE UNCHANGED <<now, since, files, mtime, denied, listed>>
  BY <1>1, <1>2, <1>3, <1>4 DEF Grown
<1>5. CASE FetchStep
  <2>1. UNCHANGED <<now, since, files, mtime, denied>> /\ (~ Begin => UNCHANGED listed)
    BY <1>5, ScanLeavesFiles
  <2> QED BY <1>1, <1>2, <1>3, <2>1 DEF Grown
<1>6. CASE Tick
  <2>1. now' = now + 1 /\ UNCHANGED <<since, files, mtime, denied, listed>>
    BY <1>6 DEF Tick
  <2> QED BY <1>1, <1>2, <1>3, <2>1 DEF Grown
<1>7. ASSUME NEW f \in Files, WriteLine(f) \/ FinishLine(f)
      PROVE  Grown
  <2>1. PICK lines \in Seq(Lines) :
           /\ files' = [files EXCEPT ![f] = lines]
           /\ mtime' = [mtime EXCEPT ![f] = now]
           /\ Len(files[f]) <= Len(lines)
           /\ \A i \in DOMAIN files[f] : i \in DOMAIN lines /\ Stays(lines[i], files[f][i])
    BY <1>7, TouchedFiles
  <2>2. UNCHANGED <<now, since, denied>> /\ listed \subseteq listed'
    BY <1>7 DEF WriteLine, FinishLine, Touched
  <2> QED BY <1>1, <1>2, <1>3, <2>1, <2>2 DEF Grown
<1>8. ASSUME NEW f \in Files, Deny(f)
      PROVE  Grown
  <2>1. denied \subseteq denied' /\ UNCHANGED <<now, since, files, mtime, listed>>
    BY <1>8 DEF Deny
  <2> QED BY <1>1, <1>2, <1>3, <2>1 DEF Grown
<1>9. CASE ContextEnds
  BY <1>4, <1>9 DEF ContextEnds, disk
<1>10. CASE UNCHANGED vars
  BY <1>4, <1>10 DEF vars, disk
<1> QED BY <1>5, <1>6, <1>7, <1>8, <1>9, <1>10 DEF Next

\* Next to be read is a file that is listed, and none before it is.
LEMMA FirstAhead ==
  ASSUME ScanTypes, Ahead # {}
  PROVE  Min(Ahead) \in Ahead /\ \A f \in Ahead : Min(Ahead) <= f
<1>1. Ahead \subseteq Nat
  BY FilesAreSequences DEF Ahead, ScanTypes
<1>2. PICK x \in Ahead : \A y \in Ahead : ~ (<<y, x>> \in OpToRel(<, Nat))
  BY <1>1, WFMin, NatLessThanWellFounded
<1>3. ASSUME NEW y \in Ahead PROVE x <= y
  <2>1. x \in Nat /\ y \in Nat
    BY <1>1
  <2>2. CASE y < x
    BY <1>2, <2>1, <2>2 DEF OpToRel
  <2> QED BY <2>1, <2>2
<1> QED BY <1>2, <1>3 DEF Min

\* The types hold at first.
LEMMA InitTypes == ASSUME Init PROVE ScanTypes
<1>1. files \in [Files -> Seq(Lines)]
  <2>1. Contents \subseteq Seq(Lines) /\ <<>> \in Seq(Lines)
    BY TranscriptAssumption
  <2>2. files \in [Files -> Contents] \/ files = [f \in Files |-> <<>>]
    BY DEF Init
  <2> QED BY <2>1, <2>2
<1>2. since \in Nat
  BY TranscriptAssumption DEF Init
<1>3. mtime \in [Files -> Nat] /\ atStart \in [Files -> Nat]
  BY DEF Init
<1>4. fetched = Nothing /\ pc = "start" /\ ctx = "live"
  BY DEF Init
<1>5. /\ now = 1 /\ denied = {} /\ listed = {}
      /\ file = 0 /\ pos = 0 /\ off = 0 /\ tooLong = FALSE
  BY DEF Init
<1>6. pc = "returned" <=> fetched # Nothing
  BY <1>4
<1>7. fetched \in Fetched \cup {Nothing} /\ fetched # "timeout"
  BY <1>4 DEF Nothing
<1>8. denied \subseteq Files /\ listed \subseteq Files
  BY <1>5
<1>9. now \in Nat \ {0} /\ file \in Nat /\ pos \in Nat /\ off \in Nat
  BY <1>5
<1>11. tooLong \in BOOLEAN
  BY <1>5, Zenon
<1>10. /\ ctx \in {"live", "canceled", "deadline"}
       /\ pc \in {"start", "walking", "reading", "returned"} /\ pc # "reading"
  BY <1>4
<1> QED BY <1>1, <1>2, <1>3, <1>5, <1>6, <1>7, <1>8, <1>9, <1>10, <1>11 DEF ScanTypes

\* A set of all positions, or of all but the last, is counted by its last one.
LEMMA AllButTheLast ==
  ASSUME NEW len \in Nat, NEW T, T \subseteq 1 .. len, \A i \in 1 .. len : i < len => i \in T
  PROVE  Cardinality(T) \in Nat /\ Cardinality(T) <= len /\ 1 .. Cardinality(T) = T
<1>1. \E n \in Nat : T = 1 .. n /\ n <= len
  <2>1. CASE len = 0 \/ len \in T
    <3>1. \A i \in 1 .. len : i < len \/ i = len
      OBVIOUS
    <3>2. \A i \in 1 .. len : i \in T
      BY <2>1, <3>1
    <3>3. T = 1 .. len
      BY <3>2
    <3> QED BY <3>3
  <2>2. CASE len > 0 /\ len \notin T
    <3>1. \A i \in 1 .. len - 1 : i \in 1 .. len /\ i < len
      BY <2>2
    <3>2. \A i \in 1 .. len - 1 : i \in T
      BY <3>1
    <3>3. \A i \in 1 .. len : i # len => i \in 1 .. len - 1
      OBVIOUS
    <3>4. \A i \in T : i \in 1 .. len - 1
      BY <2>2, <3>3
    <3>5. T = 1 .. len - 1
      BY <3>2, <3>4
    <3> QED BY <2>2, <3>5
  <2> QED BY <2>1, <2>2
<1>2. PICK n \in Nat : T = 1 .. n /\ n <= len
  BY <1>1
<1>3. Cardinality(1 .. n) = IF 1 > n THEN 0 ELSE n - 1 + 1
  BY FS_Interval
<1>4. Cardinality(T) = n
  BY <1>2, <1>3
<1> QED BY <1>2, <1>4

\* How many lines of a file are whole: all of them, or all but the last.
LEMMA WholeLines ==
  ASSUME ScanTypes, FilesInv, NEW f \in Files
  PROVE  LET n == Cardinality({i \in DOMAIN files[f] : files[f][i].state = "ended"})
         IN  /\ n \in Nat /\ n <= Len(files[f])
             /\ \A i \in 1 .. n : files[f][i].state = "ended"
<1> DEFINE whole == {i \in DOMAIN files[f] : files[f][i].state = "ended"}
<1>1. files[f] \in Seq(Lines)
  BY DEF ScanTypes
<1>2. PICK len \in Nat : len = Len(files[f]) /\ DOMAIN files[f] = 1 .. len
  BY <1>1
<1>3. \A i \in 1 .. len : i < len => i \in whole
  BY <1>2 DEF FilesInv
<1>4. whole \subseteq 1 .. len /\ \A i \in whole : files[f][i].state = "ended"
  BY <1>2
<1> HIDE DEF whole
<1>5. Cardinality(whole) \in Nat /\ Cardinality(whole) <= len /\ 1 .. Cardinality(whole) = whole
  BY <1>3, <1>4, AllButTheLast
<1> QED BY <1>2, <1>4, <1>5 DEF whole

\* The files are whole but for their last lines at first.
LEMMA InitFiles == ASSUME Init PROVE FilesInv
<1>1. /\ mtime = [f \in Files |-> 1] /\ now = 1
      /\ files \in [Files -> Contents] \/ files = [f \in Files |-> <<>>]
  BY DEF Init
<1>2. SUFFICES ASSUME NEW f \in Files, NEW i \in DOMAIN files[f]
      PROVE  /\ i < Len(files[f]) => files[f][i].state = "ended"
             /\ files[f][i].at <= mtime[f]
             /\ \E b \in KnownLines : Became(files[f][i], b)
  BY <1>1 DEF FilesInv
<1>3. files[f] \in Contents
  BY <1>1
<1>4. files[f][i] \in KnownLines
  BY <1>3 DEF KnownLines
<1>5. Became(files[f][i], files[f][i])
  BY DEF Became
<1> QED BY <1>1, <1>3, <1>4, <1>5, TranscriptAssumption

\* Every step keeps the files so.
LEMMA NextFiles ==
  ASSUME ScanTypes, FilesInv, [Next]_vars
  PROVE  FilesInv'
<1>1. /\ now \in Nat /\ mtime \in [Files -> Nat] /\ files \in [Files -> Seq(Lines)]
  BY DEF ScanTypes
<1>2. CASE UNCHANGED <<files, mtime>> /\ now' \in {now, now + 1}
  <2>1. \A f \in Files : mtime'[f] <= now'
    BY <1>1, <1>2 DEF FilesInv
  <2>2. \A f \in Files : files'[f] = files[f] /\ mtime'[f] = mtime[f]
    BY <1>2
  <2> QED BY <2>1, <2>2 DEF FilesInv
<1>3. ASSUME NEW f \in Files, WriteLine(f) \/ FinishLine(f)
      PROVE  FilesInv'
  <2>1. PICK lines \in Seq(Lines) :
           /\ files' = [files EXCEPT ![f] = lines]
           /\ mtime' = [mtime EXCEPT ![f] = now]
           /\ \A i \in DOMAIN lines :
                /\ i < Len(lines) => lines[i].state = "ended"
                /\ lines[i].at <= now
                /\ \E b \in KnownLines : Became(lines[i], b)
    BY <1>3, TouchedFiles
  <2>2. now' = now
    BY <1>3 DEF WriteLine, FinishLine, Touched
  <2>3. ASSUME NEW g \in Files
        PROVE  /\ mtime'[g] <= now'
               /\ \A i \in DOMAIN files'[g] :
                    /\ i < Len(files'[g]) => files'[g][i].state = "ended"
                    /\ files'[g][i].at <= mtime'[g]
                    /\ \E b \in KnownLines : Became(files'[g][i], b)
    <3>1. CASE g = f
      <4>1. files'[g] = lines /\ mtime'[g] = now
        BY <1>1, <2>1, <3>1
      <4> QED BY <1>1, <2>1, <2>2, <4>1
    <3>2. CASE g # f
      <4>1. files'[g] = files[g] /\ mtime'[g] = mtime[g]
        BY <1>1, <2>1, <3>2
      <4> QED BY <2>2, <4>1 DEF FilesInv
    <3> QED BY <3>1, <3>2
  <2> QED BY <2>3 DEF FilesInv
<1>4. CASE FetchStep
  BY <1>2, <1>4, ScanLeavesFiles
<1>5. CASE Tick \/ ContextEnds \/ \E f \in Files : Deny(f)
  BY <1>2, <1>5 DEF Tick, ContextEnds, Deny, disk
<1>6. CASE UNCHANGED vars
  BY <1>2, <1>6 DEF vars, disk
<1> QED BY <1>3, <1>4, <1>5, <1>6 DEF Next

\* What a step of the scan makes of the place it is at.
LEMMA ScanTypesOfPlace ==
  ASSUME ScanTypes, FilesInv, FetchStep
  PROVE  /\ pc' \in {"walking", "reading", "returned"}
         /\ fetched' \in Fetched \cup {Nothing}
         /\ pc' = "returned" <=> fetched' # Nothing
         /\ fetched' = "timeout" => ctx' = "deadline"
         /\ listed' \subseteq Files
         /\ file' \in Nat /\ pos' \in Nat /\ off' \in Nat /\ tooLong' \in BOOLEAN
         /\ atStart' \in [Files -> Nat]
         /\ pc' = "reading" => file' \in Files
<1>1. /\ fetched = Nothing \/ pc = "returned"
      /\ listed \subseteq Files /\ file \in Nat /\ pos \in Nat /\ off \in Nat /\ tooLong \in BOOLEAN
      /\ atStart \in [Files -> Nat]
      /\ pc = "reading" => file \in Files
  BY DEF ScanTypes
<1>2. ASSUME NEW answer \in Fetched, Return(answer), answer = "timeout" => ctx = "deadline", ctx' = ctx
      PROVE  /\ pc' = "returned"
             /\ fetched' \in Fetched \cup {Nothing}
             /\ fetched' # Nothing
             /\ fetched' = "timeout" => ctx' = "deadline"
  BY <1>2 DEF Return, Fetched, Nothing
<1>10. ASSUME fetched' = fetched, pc \in {"start", "walking", "reading"}, pc' \in {"walking", "reading"}
       PROVE  /\ pc' \in {"walking", "reading", "returned"}
              /\ fetched' \in Fetched \cup {Nothing}
              /\ pc' = "returned" <=> fetched' # Nothing
              /\ fetched' = "timeout" => ctx' = "deadline"
  BY <1>1, <1>10 DEF Nothing
<1>3. CtxReason \in Fetched /\ (CtxReason = "timeout" => ctx = "deadline")
  BY DEF CtxReason, Fetched
<1>4. CASE Begin
  <2>1. UNCHANGED <<ctx, file, pos, off, tooLong>>
    BY <1>4 DEF Begin, place
  <2>2. CASE \E answer \in {CtxReason, "upstream_error", "not_installed"} :
               Return(answer) /\ UNCHANGED <<listed, atStart>>
    <3>1. \A answer \in {CtxReason, "upstream_error", "not_installed"} :
            answer \in Fetched /\ (answer = "timeout" => ctx = "deadline")
      BY <1>3 DEF Fetched
    <3> QED BY <1>1, <1>2, <2>1, <2>2, <3>1
  <2>3. CASE /\ pc' = "walking" /\ UNCHANGED fetched
             /\ listed' = {f \in Files : files[f] # <<>>}
             /\ atStart' = [f \in Files |-> Cardinality({i \in DOMAIN files[f] : files[f][i].state = "ended"})]
    <3>1. atStart' \in [Files -> Nat]
      BY <2>3, WholeLines
    <3>2. pc = "start"
      BY <1>4 DEF Begin
    <3>3. listed' \subseteq Files
      BY <2>3
    <3> QED BY <1>1, <1>10, <2>1, <2>3, <3>1, <3>2, <3>3
  <2> QED BY <1>4, <2>2, <2>3 DEF Begin
<1>5. CASE VisitFile
  <2>1. /\ UNCHANGED <<ctx, fetched, listed, atStart>>
        /\ file' = Min(Ahead) /\ pos' = 0 /\ off' = 0 /\ tooLong' = FALSE
        /\ pc' \in {"walking", "reading"}
        /\ pc = "walking"
    BY <1>5 DEF VisitFile
  <2>2. file' \in Files
    BY <1>1, <1>5, <2>1, FirstAhead DEF VisitFile, Ahead
  <2>3. file' \in Nat
    BY <2>2, FilesAreSequences
  <2>4. tooLong' \in BOOLEAN
    BY <2>1, Zenon
  <2> QED BY <1>1, <1>10, <2>1, <2>2, <2>3, <2>4
<1>6. CASE EndWalk \/ CutShort
  <2>1. UNCHANGED <<ctx, listed, file, pos, off, tooLong, atStart>>
    BY <1>6 DEF EndWalk, CutShort, place
  <2>2. \E answer \in {"report", CtxReason} : Return(answer)
    BY <1>6 DEF EndWalk, CutShort
  <2>3. "report" \in Fetched /\ "report" # "timeout"
    BY DEF Fetched
  <2> QED BY <1>1, <1>2, <1>3, <2>1, <2>2, <2>3
<1>7. CASE ReadFails \/ EndOfFile
  <2>1. pc' = "walking" /\ UNCHANGED <<ctx, fetched, listed, file, pos, off, tooLong, atStart>>
    BY <1>7 DEF ReadFails, EndOfFile, LeaveFile, place
  <2>2. pc = "reading"
    BY <1>7 DEF ReadFails, EndOfFile, Reading
  <2> QED BY <1>1, <1>10, <2>1, <2>2
<1>8. CASE ReadPrefix
  <2>1. /\ pc = "reading" /\ UNCHANGED <<ctx, pc, fetched, listed, file, pos, atStart>>
        /\ off' = off + 2 /\ tooLong' = (tooLong \/ off + 2 > MaxLine)
    BY <1>8 DEF ReadPrefix, Reading
  <2>2. off' \in Nat
    BY <1>1, <2>1
  <2>3. tooLong' \in BOOLEAN
    BY <2>1, Zenon
  <2> QED BY <1>1, <1>10, <2>1, <2>2, <2>3
<1>9. CASE ReadRest
  <2>1. /\ pc = "reading" /\ UNCHANGED <<ctx, pc, fetched, listed, file, atStart>>
        /\ pos' = pos + 1 /\ off' = 0 /\ tooLong' = FALSE
    BY <1>9 DEF ReadRest, Reading
  <2>2. pos' \in Nat
    BY <1>1, <2>1
  <2>3. tooLong' \in BOOLEAN
    BY <2>1, Zenon
  <2> QED BY <1>1, <1>10, <2>1, <2>2, <2>3
<1> QED BY <1>4, <1>5, <1>6, <1>7, <1>8, <1>9 DEF FetchStep

\* What the CLI, the clock and the context make of the types.
LEMMA NextTypes ==
  ASSUME ScanTypes, FilesInv, [Next]_vars
  PROVE  ScanTypes'
<1>1. Grown
  BY NextGrows
<1>2. /\ ctx \in {"live", "canceled", "deadline"} /\ since \in Nat /\ now \in Nat \ {0}
      /\ files \in [Files -> Seq(Lines)] /\ mtime \in [Files -> Nat]
      /\ denied \subseteq Files /\ listed \subseteq Files
      /\ fetched = "timeout" => ctx = "deadline"
  BY DEF ScanTypes
<1>3. now' \in Nat \ {0} /\ since' \in Nat
  BY <1>1, <1>2 DEF Grown
<1>4. CASE FetchStep
  <2>1. UNCHANGED <<ctx, files, mtime, denied>>
    BY <1>4, ScanLeavesFiles
  <2> HIDE DEF Fetched
  <2>2. /\ ctx' \in {"live", "canceled", "deadline"}
        /\ files' \in [Files -> Seq(Lines)] /\ mtime' \in [Files -> Nat]
        /\ denied' \subseteq Files
    BY <1>2, <2>1
  <2>3. /\ pc' \in {"walking", "reading", "returned"}
        /\ fetched' \in Fetched \cup {Nothing}
        /\ pc' = "returned" <=> fetched' # Nothing
        /\ fetched' = "timeout" => ctx' = "deadline"
        /\ listed' \subseteq Files
        /\ file' \in Nat /\ pos' \in Nat /\ off' \in Nat /\ tooLong' \in BOOLEAN
        /\ atStart' \in [Files -> Nat]
        /\ pc' = "reading" => file' \in Files
    BY <1>4, ScanTypesOfPlace
  <2>4. pc' # "start"
    BY <2>3
  <2> QED BY <1>3, <2>2, <2>3, <2>4 DEF ScanTypes
<1>5. CASE ~ FetchStep
  <2>1. UNCHANGED <<pc, fetched, file, pos, off, tooLong, atStart>>
    BY <1>5, OthersLeaveScan DEF place
  <2>2. /\ ctx' \in {"live", "canceled", "deadline"}
        /\ ctx # "live" => ctx' = ctx
        /\ files' \in [Files -> Seq(Lines)] /\ mtime' \in [Files -> Nat]
        /\ denied' \subseteq Files /\ listed' \subseteq Files
    <3>1. CASE UNCHANGED <<files, mtime, denied, listed>>
               /\ ctx' \in {"live", "canceled", "deadline"} /\ (ctx # "live" => ctx' = ctx)
      BY <1>2, <3>1
    <3>2. ASSUME NEW f \in Files, WriteLine(f) \/ FinishLine(f)
          PROVE  /\ UNCHANGED <<ctx, denied>>
                 /\ files' \in [Files -> Seq(Lines)] /\ mtime' \in [Files -> Nat]
                 /\ listed' \subseteq Files
      <4>1. PICK lines \in Seq(Lines) :
              files' = [files EXCEPT ![f] = lines] /\ mtime' = [mtime EXCEPT ![f] = now]
        BY <3>2, TouchedFiles
      <4>2. UNCHANGED <<ctx, denied>> /\ listed' \in {listed, listed \cup {f}}
        BY <3>2 DEF WriteLine, FinishLine, Touched
      <4> QED BY <1>2, <4>1, <4>2
    <3>3. ASSUME NEW f \in Files, Deny(f)
          PROVE  UNCHANGED <<ctx, files, mtime, listed>> /\ denied' \subseteq Files
      BY <1>2, <3>3 DEF Deny
    <3>4. CASE Tick \/ ContextEnds \/ UNCHANGED vars
      BY <1>2, <3>1, <3>4 DEF Tick, ContextEnds, vars, disk
    <3> QED BY <1>2, <1>5, <3>2, <3>3, <3>4 DEF Next
  <2>3. fetched' = "timeout" => ctx' = "deadline"
    BY <1>2, <2>1, <2>2
  <2> QED BY <1>3, <2>1, <2>2, <2>3 DEF ScanTypes
<1> QED BY <1>4, <1>5

\* The scan is where its types say, and the files are whole but for their last lines.
THEOREM FilesStayWhole == Spec => [](ScanTypes /\ FilesInv)
<1>1. Init => ScanTypes /\ FilesInv
  BY InitTypes, InitFiles
<1>2. ScanTypes /\ FilesInv /\ [Next]_vars => (ScanTypes /\ FilesInv)'
  BY NextTypes, NextFiles
<1> QED BY <1>1, <1>2, PTL DEF Spec

-----------------------------------------------------------------------------
(* Where the scan is.                                                      *)

\* Once the walk has begun, the lines to be found stay as they are.
LEMMA NextStart ==
  ASSUME ScanTypes, FilesInv, StartInv, [Next]_vars
  PROVE  StartInv'
<1>1. Grown
  BY NextGrows
<1>2. /\ atStart \in [Files -> Nat]
      /\ \A f \in Files : files[f] \in Seq(Lines) /\ Len(files[f]) \in Nat
  BY DEF ScanTypes
<1>3. CASE Begin
  <2>1. UNCHANGED files
    BY <1>3, ScanLeavesFiles DEF FetchStep
  <2>2. CASE UNCHANGED <<listed, atStart>> /\ pc' = "returned"
    <3>1. pc = "start"
      BY <1>3 DEF Begin
    <3>2. \A f \in Files : atStart[f] = 0
      BY <3>1 DEF StartInv
    <3> QED BY <1>2, <2>1, <2>2, <3>2 DEF StartInv
  <2>3. CASE /\ pc' = "walking"
             /\ listed' = {f \in Files : files[f] # <<>>}
             /\ atStart' = [f \in Files |-> Cardinality({i \in DOMAIN files[f] : files[f][i].state = "ended"})]
    <3>1. ASSUME NEW f \in Files
          PROVE  /\ atStart'[f] \in Nat /\ atStart'[f] <= Len(files[f])
                 /\ \A i \in 1 .. atStart'[f] : files[f][i].state = "ended"
      BY <2>3, WholeLines
    <3>2. ASSUME NEW f \in Files, atStart'[f] > 0
          PROVE  f \in listed'
      <4>1. Len(files[f]) > 0
        BY <1>2, <3>1, <3>2
      <4>2. files[f] # <<>>
        BY <4>1
      <4> QED BY <2>3, <4>2
    <3>3. pc' # "start"
      BY <2>3
    <3>4. \A f \in Files : atStart'[f] > 0 => f \in listed'
      BY <3>2
    <3> QED BY <2>1, <3>1, <3>3, <3>4 DEF StartInv
  <2> QED BY <1>3, <2>2, <2>3 DEF Begin, Return
<1>4. CASE ~ Begin
  <2>1. UNCHANGED atStart /\ (pc' = "start" => pc = "start")
    <3>1. CASE FetchStep
      <4>1. UNCHANGED atStart
        BY <1>4, <3>1, ScanLeavesFiles
      <4>2. pc' # "start"
        BY <3>1, ScanTypesOfPlace
      <4> QED BY <4>1, <4>2
    <3>2. CASE ~ FetchStep
      BY <3>2, OthersLeaveScan
    <3> QED BY <3>1, <3>2
  <2>2. listed \subseteq listed'
    BY <1>1, <1>4 DEF Grown
  <2>3. ASSUME NEW f \in Files
        PROVE  /\ atStart[f] <= Len(files'[f])
               /\ \A i \in 1 .. atStart[f] : files'[f][i].state = "ended"
    <3>1. Len(files[f]) <= Len(files'[f]) /\ Len(files'[f]) \in Nat
      BY <1>1, NextTypes DEF Grown, ScanTypes
    <3>2. atStart[f] \in Nat /\ atStart[f] <= Len(files[f])
          /\ \A i \in 1 .. atStart[f] : files[f][i].state = "ended"
      BY <1>2 DEF StartInv
    <3>3. ASSUME NEW i \in 1 .. atStart[f] PROVE files'[f][i].state = "ended"
      <4>1. i \in DOMAIN files[f]
        BY <1>2, <3>2
      <4> QED BY <1>1, <3>2, <4>1 DEF Grown, Stays
    <3> QED BY <1>2, <3>1, <3>2, <3>3
  <2> QED BY <2>1, <2>2, <2>3 DEF StartInv
<1> QED BY <1>3, <1>4

\* Every step keeps the place in the line true to the line.
LEMMA NextPlace ==
  ASSUME ScanTypes, FilesInv, PlaceInv, [Next]_vars
  PROVE  PlaceInv'
<1>1. Grown /\ ScanTypes'
  BY NextGrows, NextTypes
<1>2. /\ file \in Nat /\ pos \in Nat /\ off \in Nat /\ MaxLine \in Nat
      /\ \A f \in Files : Len(files[f]) \in Nat /\ DOMAIN files[f] = 1 .. Len(files[f])
      /\ \A f \in Files : \A i \in DOMAIN files[f] : files[f][i].size \in Nat
  BY TranscriptAssumption, LineFields DEF ScanTypes
<1>3. CASE UNCHANGED <<pc, file, pos, off, tooLong>>
  <2> SUFFICES ASSUME pc = "reading" PROVE PlaceInv'
    BY <1>3 DEF PlaceInv
  <2>1. /\ file \in Files
        /\ pos <= Len(files[file])
        /\ off > 0 => pos < Len(files[file]) /\ off <= files[file][pos + 1].size
        /\ tooLong => off > MaxLine
    BY DEF ScanTypes, PlaceInv
  <2>2. Len(files[file]) <= Len(files'[file]) /\ Len(files'[file]) \in Nat
    BY <1>1, <2>1 DEF Grown, ScanTypes
  <2>3. ASSUME pos < Len(files[file]) PROVE files'[file][pos + 1].size = files[file][pos + 1].size
    <3>1. pos + 1 \in DOMAIN files[file]
      BY <1>2, <2>1, <2>3
    <3> QED BY <1>1, <2>1, <3>1 DEF Grown, Stays, Became
  <2>4. pos <= Len(files'[file])
    BY <1>2, <2>1, <2>2
  <2>5. off > 0 => pos < Len(files'[file]) /\ off <= files'[file][pos + 1].size
    BY <1>2, <2>1, <2>2, <2>3
  <2> QED BY <1>3, <2>1, <2>4, <2>5 DEF PlaceInv
<1>4. CASE pc' # "reading"
  BY <1>4 DEF PlaceInv
<1>5. CASE VisitFile
  <2>1. pos' = 0 /\ off' = 0 /\ tooLong' = FALSE
    BY <1>5 DEF VisitFile
  <2>2. pc' = "reading" => Len(files'[file']) \in Nat
    BY <1>1 DEF ScanTypes
  <2>3. ~ (off' > 0) /\ ~ tooLong'
    BY <2>1
  <2>4. pc' = "reading" => pos' <= Len(files'[file'])
    BY <2>1, <2>2
  <2> QED BY <2>3, <2>4 DEF PlaceInv
<1>6. CASE ReadPrefix
  <2>1. /\ pc = "reading" /\ UNCHANGED <<pc, file, pos, files>>
        /\ off' = off + 2 /\ tooLong' = (tooLong \/ off + 2 > MaxLine)
        /\ pos < Len(files[file]) /\ files[file][pos + 1].size - off >= 2
    BY <1>6 DEF ReadPrefix, Reading, More, Remaining, Line, disk
  <2>2. file \in Files /\ (tooLong => off > MaxLine)
    BY <2>1 DEF ScanTypes, PlaceInv
  <2>3. pos + 1 \in DOMAIN files[file]
    BY <1>2, <2>1, <2>2
  <2>4. off' <= files[file][pos + 1].size
    BY <1>2, <2>1, <2>2, <2>3
  <2>5. tooLong' => off' > MaxLine
    <3>1. tooLong => off + 2 > MaxLine
      BY <1>2, <2>2
    <3>2. tooLong' => off + 2 > MaxLine
      BY <2>1, <3>1, Zenon
    <3> QED BY <2>1, <3>2
  <2> QED BY <1>2, <2>1, <2>2, <2>4, <2>5 DEF PlaceInv
<1>7. CASE ReadRest
  <2>1. /\ pc = "reading" /\ UNCHANGED <<file, files>>
        /\ pos' = pos + 1 /\ off' = 0 /\ tooLong' = FALSE
        /\ pos < Len(files[file])
    BY <1>7 DEF ReadRest, Reading, More, disk
  <2>2. file \in Files
    BY <2>1 DEF ScanTypes
  <2>3. ~ (off' > 0) /\ ~ tooLong'
    BY <2>1
  <2>4. pos' <= Len(files'[file'])
    BY <1>2, <2>1, <2>2
  <2> QED BY <2>3, <2>4 DEF PlaceInv
<1>8. CASE FetchStep
  <2>1. CASE Begin \/ EndWalk \/ CutShort \/ ReadFails \/ EndOfFile
    <3>1. pc' # "reading"
      BY <2>1 DEF Begin, EndWalk, CutShort, ReadFails, EndOfFile, LeaveFile, Return
    <3> QED BY <1>4, <3>1
  <2> QED BY <1>5, <1>6, <1>7, <1>8, <2>1 DEF FetchStep
<1>9. CASE ~ FetchStep
  BY <1>3, <1>9, OthersLeaveScan DEF place
<1> QED BY <1>8, <1>9

-----------------------------------------------------------------------------
(* The keys.                                                               *)

\* A line goes on being known by the same key.
LEMMA KeyStays ==
  ASSUME NEW x \in Lines, NEW y, Stays(y, x), NEW f
  PROVE  dedupKey(y, f) = dedupKey(x, f)
<1>1. /\ y.session = x.session /\ y.message = x.message /\ y.request = x.request
      /\ y.parent = x.parent /\ y.tokens = x.tokens /\ y.at = x.at
  BY DEF Stays, Became
<1> QED BY <1>1 DEF dedupKey

\* The key of a line with a name is its session and that name, and no other line's is of that form.
LEMMA KeyOfNamed ==
  ASSUME NEW line, NEW f
  PROVE  /\ IdOf(line) # "" => dedupKey(line, f) = <<SessionOf(line, f), "id", IdOf(line)>>
         /\ IdOf(line) = "" => dedupKey(line, f)[2] # "id"
<1> DEFINE session == IF line.session # "" THEN line.session ELSE Paths[f]
<1>1. session = SessionOf(line, f)
  BY DEF SessionOf
<1> HIDE DEF session
<1>2. CASE line.message # ""
  <2>1. dedupKey(line, f) = <<session, "id", line.message>>
    BY <1>2 DEF dedupKey, session
  <2> QED BY <1>1, <1>2, <2>1 DEF IdOf
<1>3. CASE line.message = "" /\ line.request # ""
  <2>1. dedupKey(line, f) = <<session, "id", line.request>>
    BY <1>3 DEF dedupKey, session
  <2> QED BY <1>1, <1>3, <2>1 DEF IdOf
<1>4. CASE line.message = "" /\ line.request = ""
  <2>1. \/ dedupKey(line, f) = <<session, "parent", line.parent, line.tokens>>
        \/ dedupKey(line, f) = <<session, "at", line.at, line.tokens>>
        \/ dedupKey(line, f) = <<session, "tokens", line.tokens>>
    <3>1. CASE line.parent # ""
      BY <1>4, <3>1 DEF dedupKey, session
    <3>2. CASE line.parent = "" /\ line.at # 0
      BY <1>4, <3>2 DEF dedupKey, session
    <3>3. CASE line.parent = "" /\ line.at = 0
      BY <1>4, <3>3 DEF dedupKey, session
    <3> QED BY <3>1, <3>2, <3>3
  <2>2. dedupKey(line, f)[2] \in {"parent", "at", "tokens"}
    BY <2>1
  <2>3. IdOf(line) = ""
    BY <1>4 DEF IdOf
  <2> QED BY <2>2, <2>3
<1> QED BY <1>2, <1>3, <1>4

\* A line has a name if and only if its key is made of one.
LEMMA NamedHasId ==
  ASSUME NEW line, Named(line), NEW f
  PROVE  IdOf(line) # "" /\ SessionOf(line, f) = line.session
BY DEF Named, IdOf, SessionOf

\* Two lines, one of which has a name, are of one turn if and only if they have one key.
LEMMA OneTurnOneKey ==
  ASSUME NamesTellTurns,
         NEW x, NEW b \in KnownLines, Became(x, b), Named(x), NEW f \in Files,
         NEW y, NEW c \in KnownLines, Became(y, c), NEW g \in Files
  PROVE  y.turn = x.turn <=> dedupKey(y, g) = dedupKey(x, f)
<1>1. IdOf(x) = IdOf(b) /\ x.session = b.session /\ x.turn = b.turn /\ Named(b)
  BY DEF Became, IdOf, Named
<1>2. IdOf(y) = IdOf(c) /\ SessionOf(y, g) = SessionOf(c, g) /\ y.turn = c.turn
  BY DEF Became, IdOf, SessionOf
<1>3. c.turn = b.turn <=> IdOf(c) = IdOf(b) /\ SessionOf(c, g) = b.session
  BY <1>1 DEF NamesTellTurns
<1>4. IdOf(x) # "" /\ SessionOf(x, f) = x.session
  BY NamedHasId
<1>5. dedupKey(x, f) = <<x.session, "id", IdOf(x)>>
  BY <1>4, KeyOfNamed
<1>6. CASE IdOf(y) # ""
  <2>1. dedupKey(y, g) = <<SessionOf(y, g), "id", IdOf(y)>>
    BY <1>6, KeyOfNamed
  <2>2. dedupKey(y, g) = dedupKey(x, f) <=> SessionOf(y, g) = x.session /\ IdOf(y) = IdOf(x)
    BY <1>5, <2>1
  <2> QED BY <1>1, <1>2, <1>3, <2>2
<1>7. CASE IdOf(y) = ""
  <2>1. dedupKey(y, g)[2] # "id"
    BY <1>7, KeyOfNamed
  <2>2. dedupKey(x, f)[2] = "id"
    BY <1>5
  <2> QED BY <1>1, <1>2, <1>3, <1>4, <1>7, <2>1, <2>2
<1> QED BY <1>6, <1>7

\* A line of a file is what became of a line the CLI writes.
LEMMA LineIsKnown ==
  ASSUME FilesInv, NEW f \in Files, NEW i \in DOMAIN files[f]
  PROVE  \E b \in KnownLines : Became(files[f][i], b)
BY DEF FilesInv

-----------------------------------------------------------------------------
(* The lines counted.                                                      *)

\* The lines counted stay where they are, of the same turn and the same key.
LEMMA CountedStay ==
  ASSUME ScanTypes, CountInv, Grown, NEW c \in counted
  PROVE  /\ c.file \in Files /\ c.line \in DOMAIN files'[c.file]
         /\ c.turn = files'[c.file][c.line].turn
         /\ dedupKey(files'[c.file][c.line], c.file) = KeyOf(c)
<1>1. c.file \in Files /\ c.line \in DOMAIN files[c.file] /\ c.turn = files[c.file][c.line].turn
  BY DEF CountInv
<1>2. files[c.file][c.line] \in Lines
  BY <1>1 DEF ScanTypes
<1>3. c.line \in DOMAIN files'[c.file] /\ Stays(files'[c.file][c.line], files[c.file][c.line])
  BY <1>1 DEF Grown
<1>4. c.turn = files'[c.file][c.line].turn
  BY <1>1, <1>3 DEF Stays, Became
<1>5. dedupKey(files'[c.file][c.line], c.file) = KeyOf(c)
  BY <1>2, <1>3, KeyStays DEF KeyOf
<1> QED BY <1>1, <1>3, <1>4, <1>5

\* The keys seen go on being those of the lines counted.
LEMMA NextCount ==
  ASSUME ScanTypes, FilesInv, CountInv, [Next]_vars
  PROVE  CountInv'
<1>1. \A c \in counted :
        /\ c.file \in Files /\ c.line \in DOMAIN files'[c.file]
        /\ c.turn = files'[c.file][c.line].turn
        /\ KeyOf(c)' = KeyOf(c)
  BY NextGrows, CountedStay DEF KeyOf
<1>2. /\ \A c \in counted : KeyOf(c) \in seen
      /\ \A k \in seen : \E c \in counted : KeyOf(c) = k
      /\ \A c, d \in counted : KeyOf(c) = KeyOf(d) => c = d
  BY DEF CountInv
<1>3. CASE UNCHANGED <<seen, counted>>
  BY <1>1, <1>2, <1>3 DEF CountInv
<1>4. CASE ReadRest /\ ~ UNCHANGED sum
  <2>0. PICK new, key : /\ new = [turn |-> Line.turn, file |-> file, line |-> pos + 1]
                        /\ key = dedupKey(Line, file)
    OBVIOUS
  <2>1. /\ seen' = seen \cup {key} /\ counted' = counted \cup {new} /\ key \notin seen
        /\ files' = files /\ pc = "reading" /\ pos < Len(files[file])
    BY <1>4, <2>0 DEF ReadRest, Reading, More, disk
  <2>2. file \in Files /\ pos + 1 \in DOMAIN files[file]
    BY <2>1 DEF ScanTypes
  <2>3. /\ new.file = file /\ new.line = pos + 1 /\ new.turn = files[file][pos + 1].turn
    BY <2>0 DEF Line
  <2>4. KeyOf(new)' = key
    BY <2>0, <2>1, <2>3 DEF KeyOf, Line
  <2>5. \A c \in counted' :
          /\ c.file \in Files /\ c.line \in DOMAIN files'[c.file]
          /\ c.turn = files'[c.file][c.line].turn
          /\ KeyOf(c)' \in seen'
    BY <1>1, <1>2, <2>1, <2>2, <2>3, <2>4
  <2>6. \A k \in seen' : \E c \in counted' : KeyOf(c)' = k
    BY <1>1, <1>2, <2>1, <2>4
  <2>7. \A c, d \in counted' : KeyOf(c)' = KeyOf(d)' => c = d
    BY <1>1, <1>2, <2>1, <2>4
  <2> QED BY <2>5, <2>6, <2>7 DEF CountInv
<1>5. CASE FetchStep /\ ~ ReadRest
  BY <1>3, <1>5 DEF FetchStep, Begin, VisitFile, EndWalk, CutShort, ReadFails, EndOfFile, ReadPrefix, LeaveFile, sum
<1>6. CASE ~ FetchStep
  BY <1>3, <1>6, OthersLeaveScan DEF sum
<1> QED BY <1>3, <1>4, <1>5, <1>6 DEF FetchStep, sum

-----------------------------------------------------------------------------
(* Sums over finite sets.                                                  *)

\* The function behind MapThenSumSet: what f adds up to over each part of U.
SumStep(g, f, s) == IF s = {} THEN 0 ELSE LET x == CHOOSE x \in s : TRUE IN f[x] + g[s \ {x}]
IsSum(g, U, f)   == g = [s \in SUBSET U |-> SumStep(g, f, s)]

\* The same for parts of n elements at most.
Small(U, n) == {s \in SUBSET U : Cardinality(s) <= n}
SumsUpTo(g, U, f, n) ==
  /\ g \in [Small(U, n) -> Nat]
  /\ \A s \in Small(U, n) : g[s] = SumStep(g, f, s)

\* A nonempty set of naturals has a least element.
LEMMA LeastOf ==
  ASSUME NEW T \in SUBSET Nat, T # {}
  PROVE  \E x \in T : \A y \in T : x <= y
<1>1. PICK x \in T : \A y \in T : ~ (<<y, x>> \in OpToRel(<, Nat))
  BY WFMin, NatLessThanWellFounded
<1>2. ASSUME NEW y \in T PROVE x <= y
  <2>1. CASE y < x
    BY <1>1, <2>1 DEF OpToRel
  <2> QED BY <2>1
<1> QED BY <1>2

\* A set loses one element, and is smaller for it.
LEMMA OneLess ==
  ASSUME NEW U, IsFiniteSet(U), NEW s \in SUBSET U, s # {}
  PROVE  LET x == CHOOSE x \in s : TRUE
         IN  /\ x \in s /\ x \in U
             /\ s \ {x} \in SUBSET U
             /\ Cardinality(s) \in Nat /\ Cardinality(s \ {x}) \in Nat
             /\ Cardinality(s \ {x}) = Cardinality(s) - 1
<1>1. IsFiniteSet(s)
  BY FS_Subset
<1> DEFINE x == CHOOSE x \in s : TRUE
<1>2. x \in s
  OBVIOUS
<1>3. Cardinality(s \ {x}) = Cardinality(s) - 1 /\ IsFiniteSet(s \ {x})
  BY <1>1, <1>2, FS_RemoveElement
<1>4. Cardinality(s) \in Nat /\ Cardinality(s \ {x}) \in Nat
  BY <1>1, <1>3, FS_CardinalityType
<1> QED BY <1>2, <1>3, <1>4

\* Of the parts of a finite set that have a property, there is a smallest.
LEMMA Smallest ==
  ASSUME NEW U, IsFiniteSet(U), NEW B \in SUBSET (SUBSET U), B # {}
  PROVE  \E s \in B : \A t \in B : Cardinality(s) <= Cardinality(t)
<1> DEFINE T == {Cardinality(s) : s \in B}
<1>1. \A s \in B : Cardinality(s) \in Nat
  BY FS_Subset, FS_CardinalityType
<1>2. T \in SUBSET Nat /\ T # {}
  BY <1>1
<1>3. PICK n \in T : \A m \in T : n <= m
  BY <1>2, LeastOf
<1> QED BY <1>3

\* Sums exist up to every size.
LEMMA SumsGrow ==
  ASSUME NEW U, IsFiniteSet(U), NEW f \in [U -> Nat], NEW n \in Nat
  PROVE  \E g : SumsUpTo(g, U, f, n)
<1> DEFINE Bad == {m \in Nat : ~ \E g : SumsUpTo(g, U, f, m)}
<1> SUFFICES ASSUME Bad # {} PROVE FALSE
  OBVIOUS
<1>1. PICK m \in Bad : \A k \in Bad : m <= k
  BY LeastOf
<1>2. CASE m = 0
  <2>1. \A s \in Small(U, 0) : s = {}
    BY FS_Subset, FS_CardinalityType, FS_EmptySet DEF Small
  <2>2. SumsUpTo([s \in Small(U, 0) |-> 0], U, f, 0)
    BY <2>1 DEF SumsUpTo, SumStep
  <2> QED BY <1>1, <1>2, <2>2
<1>3. CASE m # 0
  <2>1. m - 1 \in Nat /\ m - 1 \notin Bad
    BY <1>1, <1>3
  <2>2. PICK g : SumsUpTo(g, U, f, m - 1)
    BY <2>1
  <2> DEFINE h == [s \in Small(U, m) |-> SumStep(g, f, s)]
  <2>3. \A s \in Small(U, m - 1) : s \in Small(U, m) /\ h[s] = g[s]
    <3>1. \A s \in Small(U, m - 1) : s \in Small(U, m)
      BY <1>1, FS_Subset, FS_CardinalityType DEF Small
    <3> QED BY <2>2, <3>1 DEF SumsUpTo
  <2>4. ASSUME NEW s \in Small(U, m), s # {}
        PROVE  LET x == CHOOSE x \in s : TRUE
               IN  x \in U /\ s \ {x} \in Small(U, m - 1) /\ h[s] = f[x] + h[s \ {x}]
    <3> DEFINE x == CHOOSE x \in s : TRUE
    <3>1. s \in SUBSET U /\ Cardinality(s) <= m
      BY DEF Small
    <3>2. /\ x \in U /\ s \ {x} \in SUBSET U
          /\ Cardinality(s) \in Nat /\ Cardinality(s \ {x}) \in Nat
          /\ Cardinality(s \ {x}) = Cardinality(s) - 1
      BY <2>4, <3>1, OneLess
    <3>3. s \ {x} \in Small(U, m - 1)
      BY <1>1, <3>1, <3>2 DEF Small
    <3>4. h[s] = f[x] + g[s \ {x}]
      BY <2>4 DEF SumStep
    <3> HIDE DEF h, x
    <3> QED BY <2>3, <3>2, <3>3, <3>4 DEF x
  <2>5. h \in [Small(U, m) -> Nat]
    <3>1. ASSUME NEW s \in Small(U, m), s # {} PROVE SumStep(g, f, s) \in Nat
      <4> DEFINE x == CHOOSE x \in s : TRUE
      <4>1. x \in U /\ s \ {x} \in Small(U, m - 1)
        BY <2>4, <3>1
      <4>2. g[s \ {x}] \in Nat /\ f[x] \in Nat
        BY <2>2, <4>1 DEF SumsUpTo
      <4>3. SumStep(g, f, s) = f[x] + g[s \ {x}]
        BY <3>1 DEF SumStep
      <4> QED BY <4>2, <4>3
    <3>2. SumStep(g, f, {}) = 0
      BY DEF SumStep
    <3> QED BY <3>1, <3>2
  <2>6. \A s \in Small(U, m) : h[s] = SumStep(h, f, s)
    <3>1. \A s \in Small(U, m) : s = {} => h[s] = 0
      BY DEF SumStep
    <3> HIDE DEF h
    <3> QED BY <2>4, <3>1 DEF SumStep
  <2>7. SumsUpTo(h, U, f, m)
    BY <2>5, <2>6 DEF SumsUpTo
  <2> QED BY <1>1, <2>7
<1> QED BY <1>2, <1>3

\* Sums exist, and are naturals.
LEMMA SumsExist ==
  ASSUME NEW U, IsFiniteSet(U), NEW f \in [U -> Nat]
  PROVE  \E g \in [SUBSET U -> Nat] : IsSum(g, U, f)
<1>1. Cardinality(U) \in Nat
  BY FS_CardinalityType
<1>2. PICK g : SumsUpTo(g, U, f, Cardinality(U))
  BY <1>1, SumsGrow
<1>3. Small(U, Cardinality(U)) = SUBSET U
  BY FS_Subset DEF Small
<1>4. g \in [SUBSET U -> Nat] /\ \A s \in SUBSET U : g[s] = SumStep(g, f, s)
  BY <1>2, <1>3 DEF SumsUpTo
<1>5. g = [s \in SUBSET U |-> g[s]]
  BY <1>4
<1>6. [s \in SUBSET U |-> g[s]] = [s \in SUBSET U |-> SumStep(g, f, s)]
  BY <1>4
<1>7. IsSum(g, U, f)
  BY <1>5, <1>6 DEF IsSum
<1> QED BY <1>4, <1>7

\* A sum over a set is a matter of what is summed over its elements alone.
LEMMA SumsAgree ==
  ASSUME NEW U, IsFiniteSet(U), NEW V \in SUBSET U, NEW f, NEW e, \A v \in V : e[v] = f[v],
         NEW g, IsSum(g, U, f), NEW h, IsSum(h, V, e)
  PROVE  \A s \in SUBSET V : g[s] = h[s]
<1> DEFINE Bad == {s \in SUBSET V : g[s] # h[s]}
<1> SUFFICES ASSUME Bad # {} PROVE FALSE
  OBVIOUS
<1>1. IsFiniteSet(V)
  BY FS_Subset
<1>2. PICK s \in Bad : \A t \in Bad : Cardinality(s) <= Cardinality(t)
  BY <1>1, Smallest
<1>3. s \in SUBSET V /\ s \in SUBSET U /\ g[s] = SumStep(g, f, s) /\ h[s] = SumStep(h, e, s)
  BY DEF IsSum
<1>4. s # {}
  BY <1>2, <1>3 DEF SumStep
<1> DEFINE x == CHOOSE x \in s : TRUE
<1>5. /\ x \in V /\ s \ {x} \in SUBSET V
      /\ Cardinality(s) \in Nat /\ Cardinality(s \ {x}) = Cardinality(s) - 1
  BY <1>1, <1>3, <1>4, OneLess
<1>6. g[s \ {x}] = h[s \ {x}]
  <2>1. ~ (Cardinality(s) <= Cardinality(s \ {x}))
    BY <1>5
  <2>2. s \ {x} \notin Bad
    BY <1>2, <2>1
  <2> QED BY <1>5, <2>2
<1>7. g[s] = f[x] + g[s \ {x}] /\ h[s] = e[x] + h[s \ {x}]
  BY <1>3, <1>4 DEF SumStep
<1> QED BY <1>2, <1>5, <1>6, <1>7

\* A sum is a natural.
LEMMA SumType ==
  ASSUME NEW U, IsFiniteSet(U), NEW f \in [U -> Nat], NEW g, IsSum(g, U, f)
  PROVE  g \in [SUBSET U -> Nat]
<1>1. PICK h \in [SUBSET U -> Nat] : IsSum(h, U, f)
  BY SumsExist
<1>2. \A s \in SUBSET U : g[s] = h[s]
  BY <1>1, SumsAgree
<1>3. g = [s \in SUBSET U |-> g[s]]
  BY DEF IsSum
<1> QED BY <1>2, <1>3

\* Whichever element is taken out first, the sum over the others is its rest.
LEMMA SumWithout ==
  ASSUME NEW U, IsFiniteSet(U), NEW f \in [U -> Nat], NEW g, IsSum(g, U, f),
         NEW s \in SUBSET U, NEW y \in s
  PROVE  g[s] = f[y] + g[s \ {y}]
<1> DEFINE Bad == {t \in SUBSET U : \E z \in t : g[t] # f[z] + g[t \ {z}]}
<1> SUFFICES ASSUME Bad # {} PROVE FALSE
  OBVIOUS
<1>1. PICK t \in Bad : \A r \in Bad : Cardinality(t) <= Cardinality(r)
  BY Smallest
<1>2. PICK z \in t : g[t] # f[z] + g[t \ {z}]
  BY <1>1
<1>3. t \in SUBSET U /\ t # {}
  BY <1>2
<1> DEFINE x == CHOOSE x \in t : TRUE
<1>4. /\ x \in t /\ x \in U /\ t \ {x} \in SUBSET U /\ t \ {z} \in SUBSET U /\ z \in U
      /\ Cardinality(t) \in Nat /\ Cardinality(t \ {x}) = Cardinality(t) - 1
  BY <1>3, OneLess
<1>5. g[t] = f[x] + g[t \ {x}]
  BY <1>3 DEF IsSum, SumStep
<1>6. x # z
  BY <1>2, <1>5
<1>7. t \ {x} \notin Bad /\ t \ {z} \notin Bad
  <2>1. Cardinality(t \ {z}) = Cardinality(t) - 1
    BY <1>3, FS_Subset, FS_RemoveElement
  <2>2. ~ (Cardinality(t) <= Cardinality(t \ {x})) /\ ~ (Cardinality(t) <= Cardinality(t \ {z}))
    BY <1>4, <2>1
  <2> QED BY <1>1, <2>2
<1>8. g[t \ {x}] = f[z] + g[(t \ {x}) \ {z}] /\ g[t \ {z}] = f[x] + g[(t \ {z}) \ {x}]
  BY <1>4, <1>6, <1>7
<1>9. (t \ {x}) \ {z} = (t \ {z}) \ {x} /\ (t \ {x}) \ {z} \in SUBSET U
  BY <1>4
<1>10. PICK a, b, c \in Nat : a = f[x] /\ b = f[z] /\ c = g[(t \ {x}) \ {z}]
  <2>1. g \in [SUBSET U -> Nat]
    BY SumType
  <2> QED BY <1>4, <1>9, <2>1
<1>11. g[t] = a + (b + c) /\ g[t \ {z}] = a + c /\ g[t] # b + g[t \ {z}]
  BY <1>2, <1>5, <1>8, <1>9, <1>10
<1>12. a + (b + c) = b + (a + c)
  OBVIOUS
<1> QED BY <1>11, <1>12

\* The sum over more is more.
LEMMA SumsAscend ==
  ASSUME NEW U, IsFiniteSet(U), NEW f \in [U -> Nat], NEW e \in [U -> Nat], \A v \in U : e[v] <= f[v],
         NEW g, IsSum(g, U, f), NEW h, IsSum(h, U, e)
  PROVE  h[U] <= g[U]
<1> DEFINE Bad == {s \in SUBSET U : ~ (h[s] <= g[s])}
<1> SUFFICES ASSUME Bad # {} PROVE FALSE
  OBVIOUS
<1>1. PICK s \in Bad : \A t \in Bad : Cardinality(s) <= Cardinality(t)
  BY Smallest
<1>2. s \in SUBSET U /\ g[s] = SumStep(g, f, s) /\ h[s] = SumStep(h, e, s)
  BY DEF IsSum
<1>3. s # {}
  BY <1>1, <1>2 DEF SumStep
<1> DEFINE x == CHOOSE x \in s : TRUE
<1>4. /\ x \in U /\ s \ {x} \in SUBSET U
      /\ Cardinality(s) \in Nat /\ Cardinality(s \ {x}) = Cardinality(s) - 1
  BY <1>2, <1>3, OneLess
<1>5. h[s \ {x}] <= g[s \ {x}]
  <2>1. ~ (Cardinality(s) <= Cardinality(s \ {x}))
    BY <1>4
  <2>2. s \ {x} \notin Bad
    BY <1>1, <2>1
  <2> QED BY <1>4, <2>2
<1>6. g[s] = f[x] + g[s \ {x}] /\ h[s] = e[x] + h[s \ {x}]
  BY <1>2, <1>3 DEF SumStep
<1>7. g[s \ {x}] \in Nat /\ h[s \ {x}] \in Nat /\ f[x] \in Nat /\ e[x] \in Nat /\ e[x] <= f[x]
  <2>1. g \in [SUBSET U -> Nat] /\ h \in [SUBSET U -> Nat]
    BY SumType
  <2> QED BY <1>4, <2>1
<1>8. h[s] <= g[s]
  BY <1>5, <1>6, <1>7
<1> QED BY <1>1, <1>8

\* One element more adds its own.
LEMMA SumWith ==
  ASSUME NEW V, IsFiniteSet(V), NEW e \in [V -> Nat], NEW z \in V, NEW h, IsSum(h, V, e),
         NEW f, \A v \in V \ {z} : e[v] = f[v], NEW g, IsSum(g, V \ {z}, f)
  PROVE  h[V] = g[V \ {z}] + e[z]
<1>1. h[V] = e[z] + h[V \ {z}]
  BY SumWithout
<1>2. h[V \ {z}] = g[V \ {z}]
  <2>1. V \ {z} \in SUBSET V
    OBVIOUS
  <2>2. \A s \in SUBSET (V \ {z}) : h[s] = g[s]
    BY <2>1, SumsAgree
  <2> QED BY <2>2
<1>3. h[V \ {z}] \in Nat /\ e[z] \in Nat
  <2>1. h \in [SUBSET V -> Nat]
    BY SumType
  <2> QED BY <2>1
<1> QED BY <1>1, <1>2, <1>3

\* The tokens of the lines counted, and what MapThenSumSet makes of them.
LEMMA SumOfTokens ==
  ASSUME NEW f \in [counted -> Nat], \A c \in counted : f[c] = files[c.file][c.line].tokens, IsFiniteSet(counted)
  PROVE  \E h : /\ IsSum(h, counted, f)
               /\ MapThenSumSet(LAMBDA c : files[c.file][c.line].tokens, counted) = h[counted]
<1> DEFINE P(g) == g = [s \in SUBSET counted |->
                         IF s = {} THEN 0
                         ELSE LET x == CHOOSE x \in s : TRUE IN files[x.file][x.line].tokens + g[s \ {x}]]
<1>1. \A g : P(g) <=> IsSum(g, counted, f)
  <2>1. ASSUME NEW g, NEW s \in SUBSET counted, s # {}
        PROVE  LET x == CHOOSE x \in s : TRUE IN f[x] + g[s \ {x}] = files[x.file][x.line].tokens + g[s \ {x}]
    <3> DEFINE x == CHOOSE x \in s : TRUE
    <3>1. x \in counted
      BY <2>1
    <3> HIDE DEF x
    <3>2. f[x] + g[s \ {x}] = files[x.file][x.line].tokens + g[s \ {x}]
      BY <3>1
    <3> QED BY <3>2 DEF x
  <2>2. \A g : [s \in SUBSET counted |-> SumStep(g, f, s)]
                = [s \in SUBSET counted |->
                    IF s = {} THEN 0
                    ELSE LET x == CHOOSE x \in s : TRUE IN files[x.file][x.line].tokens + g[s \ {x}]]
    BY <2>1 DEF SumStep
  <2> QED BY <2>2 DEF IsSum
<1>2. MapThenSumSet(LAMBDA c : files[c.file][c.line].tokens, counted) = (CHOOSE g : P(g))[counted]
  BY DEF MapThenSumSet, MapThenFoldSet
<1> HIDE DEF P
<1>3. \E g : P(g)
  BY <1>1, SumsExist
<1>4. P(CHOOSE g : P(g))
  BY <1>3
<1> QED BY <1>1, <1>2, <1>4

-----------------------------------------------------------------------------
(* The tokens.                                                             *)

\* The total is the sum over the lines counted.
TokensOf == [c \in counted |-> files[c.file][c.line].tokens]

TotalInv ==
  /\ IsFiniteSet(counted)
  /\ \E g : IsSum(g, counted, TokensOf) /\ total = g[counted]

\* The lines counted keep their tokens.
LEMMA TokensStay ==
  ASSUME ScanTypes, CountInv, Grown
  PROVE  /\ TokensOf \in [counted -> Nat]
         /\ \A c \in counted : files'[c.file][c.line].tokens = TokensOf[c]
<1>1. ASSUME NEW c \in counted
      PROVE  files[c.file][c.line].tokens \in Nat /\ files'[c.file][c.line].tokens = files[c.file][c.line].tokens
  <2>1. c.file \in Files /\ c.line \in DOMAIN files[c.file]
    BY DEF CountInv
  <2>2. files[c.file][c.line] \in Lines
    BY <2>1 DEF ScanTypes
  <2>3. Stays(files'[c.file][c.line], files[c.file][c.line])
    BY <2>1 DEF Grown
  <2> QED BY <2>2, <2>3, LineFields DEF Stays, Became
<1> QED BY <1>1 DEF TokensOf

\* A line newly counted adds its tokens, and no other step adds any.
LEMMA NextTotal ==
  ASSUME ScanTypes, FilesInv, CountInv, TotalInv, [Next]_vars
  PROVE  TotalInv'
<1>1. /\ TokensOf \in [counted -> Nat]
      /\ \A c \in counted : files'[c.file][c.line].tokens = TokensOf[c]
  BY NextGrows, TokensStay
<1>2. PICK g : IsSum(g, counted, TokensOf) /\ total = g[counted]
  BY DEF TotalInv
<1>3. IsFiniteSet(counted)
  BY DEF TotalInv
<1>4. CASE UNCHANGED <<total, counted>>
  <2>1. TokensOf' = TokensOf
    BY <1>1, <1>4 DEF TokensOf
  <2> QED BY <1>2, <1>3, <1>4, <2>1 DEF TotalInv
<1>5. CASE ReadRest /\ ~ UNCHANGED sum
  <2>0. PICK new, n : new = [turn |-> Line.turn, file |-> file, line |-> pos + 1] /\ n = Line.tokens
    OBVIOUS
  <2>1. /\ dedupKey(Line, file) \notin seen /\ counted' = counted \cup {new} /\ total' = total + n
        /\ files' = files /\ pc = "reading" /\ pos < Len(files[file])
    BY <1>5, <2>0 DEF ReadRest, Reading, More, disk
  <2>2. file \in Files /\ pos + 1 \in DOMAIN files[file]
    BY <2>1 DEF ScanTypes
  <2>3. new.file = file /\ new.line = pos + 1 /\ n = files[file][pos + 1].tokens /\ n \in Nat
    <3>1. files[file][pos + 1] \in Lines
      BY <2>2 DEF ScanTypes
    <3> QED BY <2>0, <3>1, LineFields DEF Line
  <2>4. new \notin counted
    <3>1. KeyOf(new) = dedupKey(Line, file)
      BY <2>3 DEF KeyOf, Line
    <3> QED BY <2>1, <3>1 DEF CountInv
  <2>5. PICK e : e = [c \in counted' |-> files'[c.file][c.line].tokens]
    OBVIOUS
  <2>6. /\ e \in [counted' -> Nat] /\ e[new] = n /\ new \in counted'
        /\ \A c \in counted' \ {new} : e[c] = TokensOf[c]
    BY <1>1, <2>1, <2>3, <2>5
  <2>7. IsFiniteSet(counted') /\ counted' \ {new} = counted
    BY <1>3, <2>1, <2>4, FS_AddElement
  <2>8. PICK h : IsSum(h, counted', e)
    BY <2>6, <2>7, SumsExist
  <2>9. h[counted'] = g[counted] + n
    BY <1>2, <2>6, <2>7, <2>8, SumWith
  <2>10. TokensOf' = e
    BY <2>5 DEF TokensOf
  <2> QED BY <1>2, <2>1, <2>7, <2>8, <2>9, <2>10 DEF TotalInv
<1>6. CASE FetchStep /\ ~ ReadRest
  BY <1>4, <1>6 DEF FetchStep, Begin, VisitFile, EndWalk, CutShort, ReadFails, EndOfFile, ReadPrefix, LeaveFile, sum
<1>7. CASE ~ FetchStep
  BY <1>4, <1>7, OthersLeaveScan DEF sum
<1> QED BY <1>4, <1>5, <1>6, <1>7 DEF FetchStep, sum

-----------------------------------------------------------------------------
(* The lines to be found.                                                  *)

\* A line to be found goes on being one.
LEMMA WantedStays ==
  ASSUME ScanTypes, StartInv, Grown, NEW f \in Files, NEW i \in 1 .. atStart[f]
  PROVE  /\ Wanted(files[f][i])' <=> Wanted(files[f][i])
         /\ files'[f][i].turn = files[f][i].turn
<1>1. files[f] \in Seq(Lines) /\ atStart[f] \in Nat /\ atStart[f] <= Len(files[f])
  BY DEF ScanTypes, StartInv
<1>2. i \in DOMAIN files[f]
  BY <1>1
<1>3. Stays(files'[f][i], files[f][i]) /\ since' = since
  BY <1>2 DEF Grown
<1>4. files[f][i].state = "ended"
  BY DEF StartInv
<1>0. PICK x, y : x = files[f][i] /\ y = files'[f][i]
  OBVIOUS
<1>5. /\ y.turn = x.turn /\ y.session = x.session /\ y.message = x.message /\ y.request = x.request
      /\ y.tokens = x.tokens /\ y.size = x.size /\ y.at = x.at /\ y.state = x.state
  BY <1>0, <1>3, <1>4 DEF Stays, Became
<1>6. Named(y) <=> Named(x)
  BY <1>5 DEF Named
<1>7. Counts(y)' <=> Counts(x)
  BY <1>3, <1>5 DEF Counts
<1>8. Wanted(y)' <=> Wanted(x)
  BY <1>5, <1>6, <1>7 DEF Wanted
<1>9. Wanted(files[f][i])' <=> Wanted(y)'
  BY <1>0 DEF Wanted, Named, Counts
<1> QED BY <1>0, <1>5, <1>8, <1>9

\* What has been found stays found.
LEMMA ToldStays ==
  ASSUME ScanTypes, StartInv, Grown, UNCHANGED atStart, counted \subseteq counted',
         NEW f \in Files, NEW n, Told(f, n)
  PROVE  Told(f, n)'
<1> SUFFICES ASSUME NEW i \in 1 .. n, i <= atStart[f], Wanted(files[f][i])'
             PROVE  \E c \in counted' : c.turn = files'[f][i].turn
  BY DEF Told
<1>1. atStart[f] \in Nat
  BY DEF ScanTypes
<1>2. i \in 1 .. atStart[f]
  BY <1>1
<1>3. Wanted(files[f][i]) /\ files'[f][i].turn = files[f][i].turn
  BY <1>2, WantedStays
<1> QED BY <1>3 DEF Told

\* The same of all the lines that were whole at first.
LEMMA AllToldStays ==
  ASSUME ScanTypes, StartInv, Grown, UNCHANGED atStart, counted \subseteq counted',
         NEW f \in Files, Told(f, atStart[f])
  PROVE  Told(f, atStart[f])'
<1>1. PICK n : n = atStart[f]
  OBVIOUS
<1>2. Told(f, n)'
  BY <1>1, ToldStays
<1> QED BY <1>1, <1>2 DEF Told

\* There is nothing to be found in a file without a whole line, or in one too old.
LEMMA NothingToTell ==
  ASSUME ScanTypes, FilesInv, StartInv, NEW f \in Files, f \notin listed \/ TooOld(f)
  PROVE  Told(f, atStart[f])
<1>1. /\ atStart[f] \in Nat /\ files[f] \in Seq(Lines) /\ since \in Nat /\ mtime[f] \in Nat
      /\ atStart[f] <= Len(files[f])
  BY DEF ScanTypes, StartInv
<1>2. CASE f \notin listed
  <2>1. atStart[f] = 0
    BY <1>1, <1>2 DEF StartInv
  <2> QED BY <2>1 DEF Told
<1>3. CASE TooOld(f)
  <2>1. ASSUME NEW i \in 1 .. atStart[f] PROVE ~ Counts(files[f][i])
    <3>1. i \in DOMAIN files[f]
      BY <1>1
    <3>2. files[f][i].at <= mtime[f] /\ files[f][i].at \in Nat
      BY <1>1, <3>1, LineFields DEF FilesInv
    <3> QED BY <1>1, <1>3, <3>2 DEF TooOld, Counts
  <2> QED BY <2>1 DEF Told, Wanted
<1> QED BY <1>2, <1>3

\* The line the scan is at is found, if it should be: what was passed over
\* before it does not matter, and a key seen before is one of the same turn.
LEMMA ReadLineIsTold ==
  ASSUME NamesTellTurns, ScanTypes, FilesInv, PlaceInv, CountInv, ReadRest,
         files[file][pos + 1].state = "ended", Wanted(files[file][pos + 1])
  PROVE  \E c \in counted' : c.turn = files[file][pos + 1].turn
<1>1. /\ pc = "reading" /\ pos < Len(files[file]) /\ file \in Files
      /\ files[file] \in Seq(Lines) /\ pos \in Nat /\ off \in Nat /\ MaxLine \in Nat
  BY TranscriptAssumption DEF ReadRest, Reading, More, ScanTypes
<1>2. pos + 1 \in DOMAIN files[file]
  BY <1>1
<1>3. PICK x : x = files[file][pos + 1]
  OBVIOUS
<1>4. x = Line /\ x \in Lines /\ Wanted(x)
  BY <1>1, <1>2, <1>3 DEF Line
<1>5. ~ tooLong
  <2>1. off > 0 => off <= x.size
    BY <1>1, <1>3 DEF PlaceInv
  <2>2. x.size <= MaxLine /\ x.size \in Nat
    BY <1>4, LineFields DEF Wanted
  <2>3. tooLong => off > MaxLine
    BY <1>1 DEF PlaceInv
  <2> QED BY <1>1, <2>1, <2>2, <2>3
<1>6. PICK key : key = dedupKey(Line, file)
  OBVIOUS
<1>7. CASE key \notin seen
  <2>1. PICK new : new = [turn |-> Line.turn, file |-> file, line |-> pos + 1]
    OBVIOUS
  <2>2. new \in counted'
    BY <1>4, <1>5, <1>6, <1>7, <2>1 DEF ReadRest, Wanted
  <2> QED BY <1>3, <1>4, <2>1, <2>2
<1>8. CASE key \in seen
  <2>1. PICK c \in counted : KeyOf(c) = key
    BY <1>8 DEF CountInv
  <2>2. c.file \in Files /\ c.line \in DOMAIN files[c.file] /\ c.turn = files[c.file][c.line].turn
    BY <2>1 DEF CountInv
  <2>3. PICK y : y = files[c.file][c.line]
    OBVIOUS
  <2>4. dedupKey(y, c.file) = dedupKey(x, file)
    BY <1>4, <1>6, <2>1, <2>3 DEF KeyOf
  <2>5. PICK b \in KnownLines : Became(x, b)
    BY <1>1, <1>2, <1>3, LineIsKnown
  <2>6. PICK d \in KnownLines : Became(y, d)
    BY <2>2, <2>3, LineIsKnown
  <2>7. y.turn = x.turn
    BY <1>1, <1>4, <2>2, <2>4, <2>5, <2>6, OneTurnOneKey DEF Wanted
  <2>8. counted \subseteq counted'
    BY DEF ReadRest, sum
  <2> QED BY <1>3, <2>1, <2>2, <2>3, <2>7, <2>8
<1> QED BY <1>7, <1>8

\* Nothing that is to be found is missed on the way.
LEMMA NextMiss ==
  ASSUME NamesTellTurns, ScanTypes, FilesInv, StartInv, PlaceInv, CountInv, MissInv, [Next]_vars
  PROVE  MissInv'
<1>1. Grown /\ ScanTypes'
  BY NextGrows, NextTypes
<1>2. counted \subseteq counted'
  <2>1. CASE FetchStep
    BY <2>1 DEF FetchStep, Begin, VisitFile, EndWalk, CutShort, ReadFails, EndOfFile, ReadPrefix, ReadRest,
                LeaveFile, sum
  <2>2. CASE ~ FetchStep
    BY <2>2, OthersLeaveScan DEF sum
  <2> QED BY <2>1, <2>2
<1>3. /\ Files \subseteq Nat \ {0} /\ file \in Nat /\ pos \in Nat /\ denied \subseteq denied'
      /\ \A f \in Files : atStart[f] \in Nat /\ atStart[f] <= Len(files[f])
      /\ \A f \in Files : files[f] \in Seq(Lines) /\ Len(files[f]) \in Nat
  <2>1. Files \subseteq Nat \ {0}
    BY FilesAreSequences
  <2>2. file \in Nat /\ pos \in Nat /\ \A f \in Files : atStart[f] \in Nat /\ files[f] \in Seq(Lines)
    BY DEF ScanTypes
  <2>3. \A f \in Files : atStart[f] <= Len(files[f]) /\ Len(files[f]) \in Nat
    BY <2>2 DEF StartInv
  <2>4. denied \subseteq denied'
    BY <1>1 DEF Grown
  <2> QED BY <2>1, <2>2, <2>3, <2>4
<1>4. ASSUME UNCHANGED atStart, pc # "start",
             \A f \in Files \ denied' : Passed(f)' => Told(f, atStart[f]) \/ Told(f, atStart[f])',
             pc' = "reading" /\ file' \notin denied' => Told(file, pos)'
      PROVE  MissInv'
  <2>1. ASSUME NEW f \in Files \ denied', Passed(f)' PROVE Told(f, atStart[f])'
    BY <1>1, <1>2, <1>4, <2>1, AllToldStays
  <2> QED BY <1>4, <2>1 DEF MissInv
<1>5. CASE UNCHANGED <<pc, fetched, file, pos, atStart>>
  <2>1. ASSUME pc' = "reading", file' \notin denied' PROVE Told(file, pos)'
    <3>1. PICK f, n : f \in Files /\ f = file /\ n = pos
      BY <1>5, <2>1 DEF ScanTypes
    <3>2. Told(f, n)
      BY <1>3, <1>5, <2>1, <3>1 DEF MissInv
    <3>3. Told(f, n)'
      BY <1>1, <1>2, <1>5, <3>1, <3>2, ToldStays
    <3> QED BY <1>5, <3>1, <3>3
  <2>2. pc # "start" => \A f \in Files \ denied' : Passed(f)' => Told(f, atStart[f])
    BY <1>3, <1>5 DEF MissInv, Passed
  <2>3. CASE pc = "start"
    BY <1>5, <2>3 DEF MissInv
  <2> QED BY <1>4, <1>5, <2>1, <2>2, <2>3
<1>6. CASE Begin
  <2>1. pc = "start" /\ file' = file /\ pc' \in {"walking", "returned"} /\ fetched' # "report"
    BY <1>6 DEF Begin, Return, CtxReason, place, ScanTypes, Nothing
  <2>2. file' = 0
    BY <2>1 DEF ScanTypes
  <2>3. ASSUME NEW f \in Files PROVE ~ Passed(f)'
    BY <1>3, <2>1, <2>2 DEF Passed
  <2>4. pc' # "reading"
    BY <2>1
  <2> QED BY <2>3, <2>4 DEF MissInv
<1>7. CASE VisitFile
  <2>1. /\ pc = "walking" /\ UNCHANGED <<atStart, fetched>> /\ file' = Min(Ahead) /\ pos' = 0
        /\ pc' = IF TooOld(Min(Ahead)) \/ Min(Ahead) \in denied THEN "walking" ELSE "reading"
        /\ Ahead # {}
    BY <1>7 DEF VisitFile
  <2>2. PICK m : m = Min(Ahead)
    OBVIOUS
  <2>3. m \in Files /\ m \in listed /\ m > file /\ \A f \in Ahead : m <= f
    BY <2>1, <2>2, FirstAhead DEF Ahead, ScanTypes
  <2>4. fetched' # "report"
    BY <2>1 DEF ScanTypes, Nothing
  <2>5. ASSUME NEW f \in Files \ denied', Passed(f)' PROVE Told(f, atStart[f])
    <3>1. f \notin denied /\ f \in Nat /\ m \in Nat
      BY <1>3, <2>3
    <3>2. f < m \/ (f = m /\ pc' = "walking")
      BY <2>1, <2>2, <2>4, <2>5 DEF Passed
    <3>3. CASE f <= file
      BY <1>3, <2>1, <3>1, <3>3 DEF MissInv, Passed
    <3>4. CASE f > file /\ f < m
      <4>1. f \notin listed
        BY <2>3, <3>1, <3>4 DEF Ahead
      <4> QED BY <4>1, NothingToTell
    <3>5. CASE f = m /\ pc' = "walking"
      <4>1. TooOld(m)
        BY <2>1, <2>2, <3>1, <3>5
      <4> QED BY <3>5, <4>1, NothingToTell
    <3> QED BY <1>3, <3>1, <3>2, <3>3, <3>4, <3>5
  <2>6. Told(file, pos)'
    BY <2>1 DEF Told
  <2> QED BY <1>4, <2>1, <2>5, <2>6
<1>8. CASE EndWalk
  <2>1. pc = "walking" /\ Ahead = {} /\ pc' = "returned" /\ UNCHANGED atStart
    BY <1>8 DEF EndWalk, Return
  <2>2. ASSUME NEW f \in Files \ denied' PROVE Told(f, atStart[f])
    <3>1. CASE f <= file
      BY <1>3, <2>1, <3>1 DEF MissInv, Passed
    <3>2. CASE f > file
      <4>1. f \notin listed
        BY <2>1, <3>2 DEF Ahead
      <4> QED BY <4>1, NothingToTell
    <3> QED BY <1>3, <3>1, <3>2
  <2> QED BY <1>4, <2>1, <2>2
<1>9. CASE CutShort
  <2>1. /\ pc \in {"walking", "reading"} /\ pc' = "returned" /\ UNCHANGED <<file, atStart>>
        /\ fetched' # "report"
    BY <1>9 DEF CutShort, Return, CtxReason, place
  <2>2. ASSUME NEW f \in Files \ denied', Passed(f)' PROVE Told(f, atStart[f])
    BY <1>3, <2>1, <2>2 DEF MissInv, Passed
  <2> QED BY <1>4, <2>1, <2>2
<1>10. CASE ReadFails
  <2>1. /\ pc = "reading" /\ pc' = "walking" /\ UNCHANGED <<fetched, file, atStart, denied>> /\ file \in denied
    BY <1>10 DEF ReadFails, Reading, LeaveFile, place, disk
  <2>2. ASSUME NEW f \in Files \ denied', Passed(f)' PROVE Told(f, atStart[f])
    <3>1. f # file /\ f \notin denied
      BY <2>1
    <3> QED BY <2>1, <2>2, <3>1 DEF MissInv, Passed
  <2> QED BY <1>4, <2>1, <2>2
<1>11. CASE EndOfFile
  <2>1. /\ pc = "reading" /\ pc' = "walking" /\ UNCHANGED <<fetched, file, atStart, denied>> /\ file \in Files
        /\ AtEnd
    BY <1>11 DEF EndOfFile, Reading, LeaveFile, place, disk, ScanTypes
  <2>2. atStart[file] <= pos
    <3>1. CASE ~ More
      BY <1>3, <2>1, <3>1 DEF More
    <3>2. CASE More
      <4>1. files[file][pos + 1].state = "open"
        BY <2>1, <3>2 DEF AtEnd, Line
      <4>2. ASSUME pos + 1 <= atStart[file] PROVE FALSE
        <5>1. pos + 1 \in 1 .. atStart[file]
          BY <1>3, <2>1, <4>2
        <5> QED BY <2>1, <4>1, <5>1 DEF StartInv
      <4> QED BY <1>3, <2>1, <4>2
    <3> QED BY <3>1, <3>2
  <2>3. ASSUME NEW f \in Files \ denied', Passed(f)' PROVE Told(f, atStart[f])
    <3>1. CASE f = file
      <4>1. Told(file, pos)
        BY <2>1, <3>1 DEF MissInv
      <4>2. \A i \in 1 .. atStart[file] : i \in 1 .. pos
        BY <1>3, <2>1, <2>2
      <4> QED BY <3>1, <4>1, <4>2 DEF Told
    <3>2. CASE f # file
      BY <2>1, <2>3, <3>2 DEF MissInv, Passed
    <3> QED BY <3>1, <3>2
  <2> QED BY <1>4, <2>1, <2>3
<1>12. CASE ReadPrefix
  BY <1>5, <1>12 DEF ReadPrefix
<1>13. CASE ReadRest
  <2>1. /\ pc = "reading" /\ UNCHANGED <<pc, fetched, file, files, since, atStart>> /\ pos' = pos + 1
        /\ file \in Files
    BY <1>13 DEF ReadRest, Reading, disk, ScanTypes
  <2>2. ASSUME NEW f \in Files \ denied', Passed(f)' PROVE Told(f, atStart[f])
    BY <1>3, <2>1, <2>2 DEF MissInv, Passed
  <2>3. ASSUME file \notin denied', NEW i \in 1 .. pos + 1, i <= atStart[file], Wanted(files[file][i])
        PROVE  \E c \in counted' : c.turn = files[file][i].turn
    <3>1. CASE i \in 1 .. pos
      <4>1. Told(file, pos)
        BY <1>3, <2>1, <2>3 DEF MissInv
      <4> QED BY <1>2, <2>3, <3>1, <4>1 DEF Told
    <3>2. CASE i = pos + 1
      <4>1. i \in 1 .. atStart[file]
        BY <1>3, <2>1, <2>3
      <4>2. files[file][pos + 1].state = "ended"
        BY <2>1, <3>2, <4>1 DEF StartInv
      <4> QED BY <1>13, <2>3, <3>2, <4>2, ReadLineIsTold
    <3> QED BY <1>3, <3>1, <3>2
  <2>4. file' \notin denied' => Told(file, pos)'
    BY <2>1, <2>3 DEF Told, Wanted, Counts
  <2> QED BY <1>4, <2>1, <2>2, <2>4
<1>14. CASE ~ FetchStep
  BY <1>5, <1>14, OthersLeaveScan DEF place
<1> QED BY <1>6, <1>7, <1>8, <1>9, <1>10, <1>11, <1>12, <1>13, <1>14 DEF FetchStep

-----------------------------------------------------------------------------
(* The theorems.                                                           *)

\* The inductive invariant: the types, the files, the place in them, and what has been counted.
ScanInv == ScanTypes /\ FilesInv /\ StartInv /\ PlaceInv /\ CountInv

\* At first nothing is listed, begun or counted.
LEMMA InitScan == ASSUME Init PROVE ScanInv
<1>1. ScanTypes /\ FilesInv
  BY InitTypes, InitFiles
<1>2. StartInv
  <2>1. \A f \in Files : files[f] \in Seq(Lines) /\ Len(files[f]) \in Nat
    BY <1>1 DEF ScanTypes
  <2>2. \A f \in Files : atStart[f] = 0
    BY DEF Init
  <2> QED BY <2>1, <2>2 DEF StartInv
<1>3. PlaceInv
  BY DEF Init, PlaceInv
<1>4. CountInv
  BY DEF Init, CountInv
<1> QED BY <1>1, <1>2, <1>3, <1>4 DEF ScanInv

\* The scan keeps its files, its place and its keys in order.
THEOREM ScanInvariant == Spec => []ScanInv
<1>1. Init => ScanInv
  BY InitScan
<1>2. ScanInv /\ [Next]_vars => ScanInv'
  BY NextTypes, NextFiles, NextStart, NextPlace, NextCount DEF ScanInv
<1> QED BY <1>1, <1>2, PTL DEF Spec

\* A turn that has a name is counted once at most, in however many files it
\* stands, however often the CLI wrote it and whenever.
THEOREM CountedOnce == ASSUME NamesTellTurns PROVE Spec => []OncePerTurn
<1>1. ScanInv => OncePerTurn
  <2> SUFFICES ASSUME ScanInv, NEW c \in counted, NEW d \in counted,
                      c.turn = d.turn, Named(files[c.file][c.line])
               PROVE  c = d
    BY DEF OncePerTurn
  <2>1. /\ c.file \in Files /\ c.line \in DOMAIN files[c.file] /\ c.turn = files[c.file][c.line].turn
        /\ d.file \in Files /\ d.line \in DOMAIN files[d.file] /\ d.turn = files[d.file][d.line].turn
    BY DEF ScanInv, CountInv
  <2>2. PICK x, y : x = files[c.file][c.line] /\ y = files[d.file][d.line]
    OBVIOUS
  <2>3. PICK b \in KnownLines : Became(x, b)
    BY <2>1, <2>2, LineIsKnown DEF ScanInv
  <2>4. PICK e \in KnownLines : Became(y, e)
    BY <2>1, <2>2, LineIsKnown DEF ScanInv
  <2>5. dedupKey(y, d.file) = dedupKey(x, c.file)
    <3>1. Named(x) /\ y.turn = x.turn /\ c.file \in Files /\ d.file \in Files
      BY <2>1, <2>2
    <3>2. y.turn = x.turn <=> dedupKey(y, d.file) = dedupKey(x, c.file)
      BY <2>3, <2>4, <3>1, OneTurnOneKey
    <3> QED BY <3>1, <3>2
  <2>6. KeyOf(c) = KeyOf(d)
    BY <2>2, <2>5 DEF KeyOf
  <2> QED BY <2>6 DEF ScanInv, CountInv
<1> QED BY <1>1, ScanInvariant, PTL

\* A report leaves out no named turn that stood on disk when the scan began, in
\* a file that can be read, on a line that is whole, not too long and not too old.
THEOREM NoneIsMissed == ASSUME NamesTellTurns PROVE Spec => []NothingIsMissed
<1>1. Init => MissInv
  BY DEF Init, MissInv
<1>2. ScanInv /\ MissInv /\ [Next]_vars => MissInv'
  BY NextMiss DEF ScanInv
<1>3. ScanInv /\ MissInv => NothingIsMissed
  <2> SUFFICES ASSUME ScanInv, MissInv, fetched = "report", NEW f \in Files \ denied, NEW i \in 1 .. atStart[f],
                      Wanted(files[f][i])
               PROVE  \E c \in counted : c.turn = files[f][i].turn
    BY DEF NothingIsMissed, Wanted
  <2>1. pc # "start"
    BY DEF ScanInv, ScanTypes, Nothing
  <2>2. Told(f, atStart[f])
    BY <2>1 DEF MissInv, Passed
  <2>3. i <= atStart[f]
    BY DEF ScanInv, ScanTypes
  <2> QED BY <2>2, <2>3 DEF Told
<1> QED BY <1>1, <1>2, <1>3, ScanInvariant, PTL DEF Spec

\* A turn that has a name is counted once at most, and the tokens are those of
\* the lines counted, whatever has been written to their files since.
THEOREM TotalIsTold == ASSUME NamesTellTurns PROVE Spec => []TurnsCountOnce
<1>1. Init => TotalInv
  <2> SUFFICES ASSUME Init PROVE TotalInv
    OBVIOUS
  <2>1. counted = {} /\ total = 0 /\ TokensOf \in [counted -> Nat] /\ IsFiniteSet(counted)
    BY FS_EmptySet DEF Init, TokensOf
  <2>2. PICK g \in [SUBSET counted -> Nat] : IsSum(g, counted, TokensOf)
    BY <2>1, SumsExist
  <2>3. g[counted] = 0
    BY <2>1, <2>2 DEF IsSum, SumStep
  <2> QED BY <2>1, <2>2, <2>3 DEF TotalInv
<1>2. ScanInv /\ TotalInv /\ [Next]_vars => TotalInv'
  BY NextTotal DEF ScanInv
<1>3. ScanInv /\ TotalInv => total = MapThenSumSet(LAMBDA c : files[c.file][c.line].tokens, counted)
  <2> SUFFICES ASSUME ScanInv, TotalInv
               PROVE  total = MapThenSumSet(LAMBDA c : files[c.file][c.line].tokens, counted)
    OBVIOUS
  <2>1. TokensOf \in [counted -> Nat]
    <3>1. ASSUME NEW c \in counted PROVE files[c.file][c.line].tokens \in Nat
      <4>1. c.file \in Files /\ c.line \in DOMAIN files[c.file]
        BY DEF ScanInv, CountInv
      <4>2. files[c.file][c.line] \in Lines
        BY <4>1 DEF ScanInv, ScanTypes
      <4> QED BY <4>2, LineFields
    <3> QED BY <3>1 DEF TokensOf
  <2>2. PICK g : IsSum(g, counted, TokensOf) /\ total = g[counted]
    BY DEF TotalInv
  <2>3. IsFiniteSet(counted)
    BY DEF TotalInv
  <2>4. \A c \in counted : TokensOf[c] = files[c.file][c.line].tokens
    BY DEF TokensOf
  <2>5. PICK h : /\ IsSum(h, counted, TokensOf)
                 /\ MapThenSumSet(LAMBDA c : files[c.file][c.line].tokens, counted) = h[counted]
    BY <2>1, <2>3, <2>4, SumOfTokens
  <2>6. g[counted] = h[counted]
    BY <2>2, <2>3, <2>5, SumsAgree
  <2> QED BY <2>2, <2>5, <2>6
<1> QED BY <1>1, <1>2, <1>3, ScanInvariant, CountedOnce, PTL DEF Spec, TurnsCountOnce

\* Fetch answers once at most, and speaks of a timeout only when there was one.
THEOREM AnswersAsPromised == Spec => Contract!Safety
<1>1. Init => Contract!Init
  BY DEF Init, Contract!Init
<1>2. ScanTypes /\ FilesInv /\ [Next]_vars => [Contract!Next]_(Contract!call)
  <2> SUFFICES ASSUME ScanTypes, FilesInv, [Next]_vars PROVE [Contract!Next]_(Contract!call)
    OBVIOUS
  <2>1. CASE FetchStep
    <3>1. ctx' = ctx
      BY <2>1, ScanLeavesFiles
    <3>2. /\ fetched' \in Fetched \cup {Nothing} /\ (fetched' = "timeout" => ctx' = "deadline")
      BY <2>1, ScanTypesOfPlace
    <3>3. fetched = Nothing
      BY <2>1 DEF FetchStep, Begin, VisitFile, EndWalk, CutShort, ReadFails, EndOfFile, ReadPrefix, ReadRest,
                  Reading, ScanTypes
    <3>4. CASE fetched' = Nothing
      BY <3>1, <3>3, <3>4 DEF Contract!call
    <3>5. CASE fetched' # Nothing
      BY <3>1, <3>2, <3>3, <3>5 DEF Contract!Next, Contract!Reply
    <3> QED BY <3>4, <3>5
  <2>2. CASE ContextEnds
    BY <2>2 DEF ContextEnds, Contract!Next, Contract!EndContext
  <2>3. CASE ~ FetchStep /\ ~ ContextEnds
    <3>1. UNCHANGED fetched
      BY <2>3, OthersLeaveScan
    <3>2. UNCHANGED ctx
      BY <2>3 DEF Next, Tick, WriteLine, FinishLine, Deny, Touched, vars
    <3> QED BY <3>1, <3>2 DEF Contract!call
  <2> QED BY <2>1, <2>2, <2>3
<1> QED BY <1>1, <1>2, FilesStayWhole, PTL DEF Spec, Contract!Safety
=============================================================================

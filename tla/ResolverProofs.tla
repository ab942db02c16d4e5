--------------------------- MODULE ResolverProofs ---------------------------
(***************************************************************************)
(* The collection run, for any providers, ladders, policies and answers:   *)
(* the types, the invariant that ties the workers to the run, what follows *)
(* from it for the published report and for the promises of module         *)
(* Collection, and the walks: every attempt a worker records is about its  *)
(* own rung, the walk keeps its order, and what the report says of a       *)
(* provider rests on nothing that the run's own end brought about.         *)
(***************************************************************************)
EXTENDS Resolver, TLAPS

\* Where the lemmas on the decisions of module Ladder are: they are about any
\* sequence of attempts, and the walk of that module may be the empty one.
Decisions == INSTANCE LadderWalkProofs WITH
  Ladders  <- {},
  Policies <- {},
  sources  <- <<>>,
  policy   <- <<"default", "">>,
  attempts <- <<>>

-----------------------------------------------------------------------------
(* Types.                                                                  *)

\* A rung is a position in its provider's ladder.
LEMMA RungsAreNaturals ==
  \A p \in Providers : \A j \in DOMAIN Declared[p] :
    j \in Nat /\ Declared[p][j].tier \in Tiers
<1> SUFFICES ASSUME NEW p \in Providers
             PROVE  \A j \in DOMAIN Declared[p] : j \in Nat /\ Declared[p][j].tier \in Tiers
  OBVIOUS
<1>1. Declared[p] \in Seq(Source)
  BY ProvidersAssumption
<1>2. \A j \in DOMAIN Declared[p] : j \in Nat /\ Declared[p][j] \in Source
  BY <1>1
<1>3. \A s \in Source : s.tier \in Tiers
  BY DEF Source
<1> QED BY <1>2, <1>3

\* What a worker returns when its ladder is exhausted or the gate refuses.
LEMMA FailureType ==
  ASSUME NEW reason \in Reasons, NEW j \in Nat
  PROVE  Failure(reason, j) \in Outcomes
BY DEF Failure, Outcomes, Retryable

\* A worker's return leaves what it touches of its kind.
LEMMA SettleType ==
  ASSUME TypeOK, NEW p \in Providers, NEW o \in Outcomes \cup {NoOutcome}, Settle(p, o)
  PROVE  /\ outcome' \in [Providers -> Outcomes \cup {NoOutcome}]
         /\ arrived' \in Seq(Providers)
         /\ pc' \in [Providers -> {"idle", "spawned", "detect", "ladder", "available",
                                   "fetch", "done"}]
BY DEF TypeOK, Settle

\* A rung recorded with a reason just when it failed makes an attempt.
LEMMA RecordedType ==
  ASSUME TypeOK, NEW p \in Providers, NEW j \in Nat, NEW status, NEW reason,
         \/ status = "error" /\ reason \in Reasons
         \/ status \in Statuses \ {"error"} /\ reason = ""
  PROVE  Recorded(p, j, status, reason) \in Seq(Attempt)
<1> DEFINE a == [rung |-> j, status |-> status, reason |-> reason]
<1>1. a \in Attempt
  BY DEF Attempt
<1>2. attempts[p] \in Seq(Attempt)
  BY DEF TypeOK
<1>3. Recorded(p, j, status, reason) = Append(attempts[p], a)
  BY DEF Recorded
<1>4. \A x \in Attempt : Append(attempts[p], x) \in Seq(Attempt)
  BY <1>2, Decisions!Appended
<1> HIDE DEF a
<1> QED BY <1>1, <1>3, <1>4

\* A goroutine begun or let go of is still a call.
LEMMA CallTypes ==
  ASSUME TypeOK, NEW c \in Calls
  PROVE  Begin(c) \in Call /\ Release(c) \in Call
<1>1. calls[c] \in Call
  BY DEF TypeOK
<1> QED BY <1>1 DEF Begin, Release, Call

\* The decisions are those of module Ladder.
LEMMA SameReasons == Decisions!Reasons = Reasons
BY DEF Decisions!Reasons, Reasons

\* So is the verdict on a walk.
LEMMA SameVerdict ==
  ASSUME NEW walk
  PROVE  Decisions!outcomeFromAttempts(walk) = outcomeFromAttempts(walk)
BY DEF outcomeFromAttempts, Decisions!outcomeFromAttempts, ErrorReasons, Decisions!ErrorReasons,
       Saw, Decisions!Saw, MostInformative, Decisions!MostInformative, reasonPriority, Decisions!reasonPriority

\* And so is the source it is blamed on.
LEMMA SameBlame ==
  ASSUME NEW walk, NEW reason
  PROVE  Decisions!sourceForReason(walk, reason) = sourceForReason(walk, reason)
BY DEF sourceForReason, Decisions!sourceForReason, lastAttemptedSource, Decisions!lastAttemptedSource

\* The whole of TypeOK but what each step of a worker is about.
LEMMA RungType ==
  ASSUME TypeOK, NEW p \in Providers
  PROVE  rung[p] \in Nat /\ outcomeFromAttempts(attempts[p]) \in Reasons
         /\ \A reason : sourceForReason(attempts[p], reason) \in Nat
<1>1. attempts[p] \in Seq(Attempt)
  BY DEF TypeOK
<1>2. attempts[p] \in Seq(Decisions!Attempt)
  BY <1>1, SameReasons DEF Attempt, Decisions!Attempt, Statuses, Decisions!Statuses
<1>3. outcomeFromAttempts(attempts[p]) \in Reasons
  BY <1>2, SameReasons, SameVerdict, Decisions!VerdictIsAReason
<1>4. \A reason : sourceForReason(attempts[p], reason) \in Nat
  BY <1>2, SameBlame, Decisions!BlamedSource
<1> QED BY <1>3, <1>4 DEF TypeOK

\* A record of an attempt keeps the types of what it changes.
LEMMA RecordType ==
  ASSUME TypeOK, NEW p \in Providers, NEW j \in Nat, NEW status, NEW reason,
         \/ status = "error" /\ reason \in Reasons
         \/ status \in Statuses \ {"error"} /\ reason = "",
         Record(p, j, status, reason)
  PROVE  /\ attempts' \in [Providers -> Seq(Attempt)]
         /\ pc' \in [Providers -> {"idle", "spawned", "detect", "ladder", "available",
                                   "fetch", "done"}]
         /\ UNCHANGED <<outcome, arrived>>
<1>1. Recorded(p, j, status, reason) \in Seq(Attempt)
  BY RecordedType
<1> QED BY <1>1 DEF Record, TypeOK

\* A report that passes the gates is a success with a confidence.
LEMMA FromReportType ==
  ASSUME TypeOK, NEW p \in Providers, NEW rep \in Reports
  PROVE  FromReport(p, rep) \in Outcomes
<1>1. installed[p] \in Versions /\ rung[p] \in Nat
  BY DEF TypeOK
<1>2. rep.version \in Versions /\ rep.warned \in BOOLEAN /\ rep.confidence \in Confidences \cup {""}
  BY DEF Reports
<1>3. CLIVersion(p, rep) \in Versions
  BY <1>1, <1>2 DEF CLIVersion
<1>4. FilledConfidence(p, rep) \in Confidences
  BY <1>2 DEF FilledConfidence, defaultConfidenceForTier, Confidences
<1>5. Failure("unsupported_version", 0) \in Outcomes
  BY FailureType DEF Reasons
<1>6. Success(rung[p], FilledConfidence(p, rep), Drifted(p, rep) \/ rep.warned,
              CLIVersion(p, rep)) \in Outcomes
  <2> DEFINE warned == Drifted(p, rep) \/ rep.warned
  <2>1. warned \in BOOLEAN
    OBVIOUS
  <2> HIDE DEF warned
  <2> QED BY <1>1, <1>3, <1>4, <2>1 DEF Success, Outcomes
<1> QED BY <1>5, <1>6 DEF FromReport

\* What the gate, the loop and the goroutines do keeps every variable's type.
LEMMA TypeStep ==
  ASSUME TypeOK, [Next]_vars
  PROVE  TypeOK'
<1> USE DEF options
<1>1. CASE Interrupt
  BY <1>1, ProvidersAssumption DEF Interrupt, workers, TypeOK
<1>2. CASE Start
  BY <1>2 DEF Start, TypeOK
<1>3. CASE Publish
  <2>1. \A i \in DOMAIN Entries :
          Entries[i] \in [provider : Providers, outcome : Outcomes \cup {NoOutcome}]
    BY DEF Entries, Arrived, TypeOK
  <2> QED BY <1>3, <2>1 DEF Publish, Conclude, workers, TypeOK
<1>4. ASSUME NEW p \in Providers, DetectReturns(p) PROVE TypeOK'
  <2>1. PICK v \in DetectVersions :
          /\ installed' = [installed EXCEPT ![p] = v]
          /\ IF Refused(v)
             THEN Settle(p, Failure("unsupported_version", 0))
             ELSE pc' = [pc EXCEPT ![p] = "ladder"] /\ UNCHANGED <<outcome, arrived>>
    BY <1>4 DEF DetectReturns
  <2>2. installed' \in [Providers -> Versions]
    BY <2>1, ProvidersAssumption DEF TypeOK
  <2>3. Failure("unsupported_version", 0) \in Outcomes
    BY FailureType DEF Reasons
  <2>4. CASE Refused(v)
    BY <1>4, <2>1, <2>2, <2>3, <2>4, SettleType DEF DetectReturns, TypeOK
  <2>5. CASE ~ Refused(v)
    BY <1>4, <2>1, <2>2, <2>5 DEF DetectReturns, TypeOK
  <2> QED BY <2>4, <2>5
<1>5. ASSUME NEW p \in Providers, Enter(p) PROVE TypeOK'
  <2>1. CASE ctx # "live"
    BY <1>5, <2>1, SettleType DEF Enter, TypeOK
  <2>2. CASE ctx = "live"
    BY <1>5, <2>2 DEF Enter, TypeOK
  <2> QED BY <2>1, <2>2
<1>6. ASSUME NEW p \in Providers, AbandonWalk(p) PROVE TypeOK'
  BY <1>6, SettleType DEF AbandonWalk, TypeOK
<1>7. ASSUME NEW p \in Providers, SkipRung(p) PROVE TypeOK'
  <2>1. PICK j \in DOMAIN Declared[p] : Record(p, j, "skipped", "")
    BY <1>7 DEF SkipRung
  <2>2. j \in Nat
    BY RungsAreNaturals
  <2>3. "skipped" \in Statuses \ {"error"}
    BY DEF Statuses
  <2> QED BY <1>7, <2>1, <2>2, <2>3, RecordType DEF SkipRung, TypeOK
<1>8. ASSUME NEW p \in Providers, ProbeRung(p) PROVE TypeOK'
  <2>1. PICK j \in DOMAIN Declared[p] :
          /\ rung' = [rung EXCEPT ![p] = j]
          /\ calls' = [calls EXCEPT ![<<p, j, "available">>] = Begin(<<p, j, "available">>)]
    BY <1>8 DEF ProbeRung
  <2>2. j \in Nat
    BY RungsAreNaturals
  <2>3. calls' \in [Calls -> Call]
    BY <2>1, CallTypes DEF TypeOK
  <2> QED BY <1>8, <2>1, <2>2, <2>3 DEF ProbeRung, TypeOK
<1>9. ASSUME NEW p \in Providers, ReceiveAvailable(p) PROVE TypeOK'
  <2> DEFINE c == Awaited(p)
             f == <<p, rung[p], "fetch">>
  <2>1. CASE /\ calls' = [calls EXCEPT ![c] = Release(c)]
             /\ Record(p, rung[p], "unavailable", "")
    <3>1. calls' \in [Calls -> Call]
      BY <2>1, CallTypes DEF TypeOK
    <3>2. "unavailable" \in Statuses \ {"error"}
      BY DEF Statuses
    <3> QED BY <1>9, <2>1, <3>1, <3>2, RungType, RecordType DEF ReceiveAvailable, TypeOK
  <2>2. CASE /\ calls' = [calls EXCEPT ![c] = Release(c), ![f] = Begin(f)]
             /\ pc' = [pc EXCEPT ![p] = "fetch"]
             /\ UNCHANGED <<attempts, outcome, arrived>>
    <3>1. calls' \in [Calls -> Call]
      BY <2>2, CallTypes DEF TypeOK
    <3> QED BY <1>9, <2>2, <3>1 DEF ReceiveAvailable, TypeOK
  <2> QED BY <1>9, <2>1, <2>2 DEF ReceiveAvailable
<1>10. ASSUME NEW p \in Providers, AvailableTimesOut(p) \/ FetchTimesOut(p) PROVE TypeOK'
  <2>1. StopWaiting(p) /\ UNCHANGED <<options, ctx, main, installed, rung, report>>
    BY <1>10 DEF AvailableTimesOut, FetchTimesOut
  <2>2. calls' \in [Calls -> Call]
    BY <2>1, CallTypes DEF StopWaiting, TypeOK
  <2>3. CASE ctx # "live"
    BY <2>1, <2>2, <2>3, SettleType DEF StopWaiting, TypeOK
  <2>4. CASE ctx = "live"
    <3>1. "timeout" \in Statuses \ {"error"}
      BY DEF Statuses
    <3> QED BY <2>1, <2>2, <2>4, <3>1, RungType, RecordType DEF StopWaiting, TypeOK
  <2> QED BY <2>3, <2>4
<1>11. ASSUME NEW p \in Providers, FetchFails(p) PROVE TypeOK'
  <2>1. PICK r \in Reasons \cup {""} : Record(p, rung[p], "error", ReasonOrUpstream(r))
    BY <1>11 DEF FetchFails
  <2>2. ReasonOrUpstream(r) \in Reasons
    BY DEF ReasonOrUpstream, Reasons
  <2>3. calls' \in [Calls -> Call]
    BY <1>11, CallTypes DEF FetchFails, TypeOK
  <2> QED BY <1>11, <2>1, <2>2, <2>3, RungType, RecordType DEF FetchFails, TypeOK
<1>12. ASSUME NEW p \in Providers, FetchSucceeds(p) PROVE TypeOK'
  <2>1. PICK rep \in FetchAnswers \cap Reports : Settle(p, FromReport(p, rep))
    BY <1>12 DEF FetchSucceeds
  <2>2. FromReport(p, rep) \in Outcomes
    BY FromReportType
  <2>3. attempts' \in [Providers -> Seq(Attempt)]
    <3>1. "success" \in Statuses \ {"error"}
      BY DEF Statuses
    <3>2. Recorded(p, rung[p], "success", "") \in Seq(Attempt)
      BY <3>1, RungType, RecordedType
    <3> QED BY <1>12, <3>2 DEF FetchSucceeds, TypeOK
  <2>4. calls' \in [Calls -> Call]
    BY <1>12, CallTypes DEF FetchSucceeds, TypeOK
  <2> QED BY <1>12, <2>1, <2>2, <2>3, <2>4, SettleType DEF FetchSucceeds, TypeOK
<1>13. ASSUME NEW p \in Providers, ExhaustLadder(p) PROVE TypeOK'
  <2> DEFINE reason == outcomeFromAttempts(attempts[p])
             o == Failure(reason, sourceForReason(attempts[p], reason))
  <2>1. Settle(p, o)
    BY <1>13 DEF ExhaustLadder
  <2>2. o \in Outcomes
    BY RungType, FailureType
  <2> HIDE DEF o
  <2> QED BY <1>13, <2>1, <2>2, SettleType DEF ExhaustLadder, TypeOK
<1>14. ASSUME NEW c \in Calls, SourceAnswers(c) \/ GiveUp(c) PROVE TypeOK'
  <2>1. PICK a \in Answers : Answer(c, a)
    <3>1. FetchAnswers \subseteq Answers
      BY ProvidersAssumption DEF Answers, Errors, Cuts
    <3>2. \A cut \in Cuts : /\ Available("yes", cut) \in Answers
                            /\ Available("no", cut) \in Answers
                            /\ FetchError("timeout", cut) \in Answers
                            /\ FetchError("", cut) \in Answers
      BY DEF Available, FetchError, Answers, Errors, Reasons
    <3>3. CASE SourceAnswers(c)
      BY <3>1, <3>2, <3>3 DEF SourceAnswers, Cuts
    <3>4. CASE GiveUp(c)
      BY <3>2, <3>4 DEF GiveUp, Cuts
    <3> QED BY <1>14, <3>3, <3>4
  <2>2. calls[c] \in Call
    BY DEF TypeOK
  <2>3. [calls[c] EXCEPT !.state = "answered", !.answer = a] \in Call
    BY <2>2 DEF Call
  <2>4. calls' \in [Calls -> Call]
    BY <2>1, <2>3 DEF Answer, TypeOK
  <2> QED BY <2>1, <2>4 DEF Answer, workers, TypeOK
<1>15. ASSUME NEW c \in Calls, Expire(c) PROVE TypeOK'
  <2>1. calls[c] \in Call
    BY DEF TypeOK
  <2>2. [calls[c] EXCEPT !.ctx = "expired"] \in Call
    BY <2>1 DEF Call
  <2>3. calls' \in [Calls -> Call]
    BY <1>15, <2>2 DEF Expire, TypeOK
  <2> QED BY <1>15, <2>3 DEF Expire, workers, TypeOK
<1>16. CASE UNCHANGED vars
  BY <1>16 DEF vars, workers, TypeOK
<1> QED
  BY <1>1, <1>2, <1>3, <1>4, <1>5, <1>6, <1>7, <1>8, <1>9, <1>10, <1>11, <1>12, <1>13,
     <1>14, <1>15, <1>16 DEF Next, WorkerStep

\* Every variable holds a value of its kind.
THEOREM TypeCorrect == Spec => []TypeOK
<1>1. Init => TypeOK
  <2> SUFFICES ASSUME Init PROVE TypeOK
    OBVIOUS
  <2>1. UnusedCall \in Call
    BY DEF UnusedCall, Call
  <2>2. [c \in Calls |-> UnusedCall] \in [Calls -> Call]
    BY <2>1
  <2>3. strict \in BOOLEAN
    BY ProvidersAssumption DEF Init
  <2>4. \A p \in Providers : <<>> \in Seq(Attempt)
    OBVIOUS
  <2> QED BY <2>2, <2>3, <2>4 DEF Init, TypeOK, Versions
<1>2. TypeOK /\ [Next]_vars => TypeOK'
  BY TypeStep
<1> QED BY <1>1, <1>2, PTL DEF Spec

-----------------------------------------------------------------------------
(* The run.  For what the run as a whole promises a step is one of five    *)
(* kinds: it starts the workers, ends the run, moves one worker on, lets   *)
(* one worker return, or touches none of this.                             *)

Busy(p) == pc[p] \notin {"idle", "done"}

Moves(p) ==
  /\ Busy(p)
  /\ \E l \in {"detect", "ladder", "available", "fetch"} : pc' = [pc EXCEPT ![p] = l]
  /\ UNCHANGED <<request, ctx, main, outcome, arrived, report>>

Returns(p, o) ==
  /\ Busy(p)
  /\ o \in Outcomes \/ (o = NoOutcome /\ ctx # "live")
  /\ Settle(p, o)
  /\ UNCHANGED <<request, ctx, main, report>>

Elsewhere ==
  /\ ctx # "live" => ctx' # "live"
  /\ UNCHANGED <<request, main, pc, outcome, arrived, report>>

\* What a step is to the run: its start, its end, a worker's step or its return,
\* or nothing to do with workers.
LEMMA StepKinds ==
  ASSUME TypeOK, [Next]_vars
  PROVE  \/ Start \/ Publish \/ Elsewhere
         \/ \E p \in Providers : Moves(p)
         \/ \E p \in Providers : \E o \in Outcomes \cup {NoOutcome} : Returns(p, o)
<1> DEFINE Goal == \/ Start \/ Publish \/ Elsewhere
                   \/ \E p \in Providers : Moves(p)
                   \/ \E p \in Providers : \E o \in Outcomes \cup {NoOutcome} : Returns(p, o)
<1> USE DEF options
<1>0. Failure("unsupported_version", 0) \in Outcomes
  BY FailureType DEF Reasons
<1>1. CASE Interrupt
  BY <1>1 DEF Interrupt, workers, Elsewhere
<1>2. ASSUME NEW p \in Providers, DetectReturns(p) PROVE Goal
  <2>1. PICK v \in DetectVersions :
          IF Refused(v)
          THEN Settle(p, Failure("unsupported_version", 0))
          ELSE pc' = [pc EXCEPT ![p] = "ladder"] /\ UNCHANGED <<outcome, arrived>>
    BY <1>2 DEF DetectReturns
  <2>2. CASE Refused(v)
    <3>1. Returns(p, Failure("unsupported_version", 0))
      BY <1>0, <1>2, <2>1, <2>2 DEF DetectReturns, Returns, Busy
    <3> QED BY <1>0, <3>1
  <2>3. CASE ~ Refused(v)
    <3>1. Moves(p)
      BY <1>2, <2>1, <2>3 DEF DetectReturns, Moves, Busy
    <3> QED BY <3>1
  <2> QED BY <2>2, <2>3
<1>3. ASSUME NEW p \in Providers, Enter(p) PROVE Goal
  <2>1. CASE ctx # "live"
    <3>1. Returns(p, NoOutcome)
      BY <1>3, <2>1 DEF Enter, Returns, Busy
    <3> QED BY <3>1
  <2>2. CASE ctx = "live"
    <3>1. Moves(p)
      BY <1>3, <2>2 DEF Enter, Moves, Busy
    <3> QED BY <3>1
  <2> QED BY <2>1, <2>2
<1>4. ASSUME NEW p \in Providers, AbandonWalk(p) PROVE Goal
  <2>1. Returns(p, NoOutcome)
    BY <1>4 DEF AbandonWalk, Returns, Busy
  <2> QED BY <2>1
<1>5. ASSUME NEW p \in Providers, SkipRung(p) \/ ProbeRung(p) \/ FetchFails(p) PROVE Goal
  <2>1. Moves(p)
    BY <1>5 DEF SkipRung, ProbeRung, FetchFails, Record, Moves, Busy
  <2> QED BY <2>1
<1>6. ASSUME NEW p \in Providers, ReceiveAvailable(p) PROVE Goal
  <2>1. Moves(p)
    BY <1>6 DEF ReceiveAvailable, Record, Moves, Busy
  <2> QED BY <2>1
<1>7. ASSUME NEW p \in Providers, AvailableTimesOut(p) \/ FetchTimesOut(p) PROVE Goal
  <2>1. CASE ctx # "live"
    <3>1. Returns(p, NoOutcome)
      BY <1>7, <2>1 DEF AvailableTimesOut, FetchTimesOut, StopWaiting, Returns, Busy
    <3> QED BY <3>1
  <2>2. CASE ctx = "live"
    <3>1. Moves(p)
      BY <1>7, <2>2 DEF AvailableTimesOut, FetchTimesOut, StopWaiting, Record, Moves, Busy
    <3> QED BY <3>1
  <2> QED BY <2>1, <2>2
<1>8. ASSUME NEW p \in Providers, FetchSucceeds(p) PROVE Goal
  <2>1. PICK rep \in FetchAnswers \cap Reports : Settle(p, FromReport(p, rep))
    BY <1>8 DEF FetchSucceeds
  <2>2. FromReport(p, rep) \in Outcomes
    BY FromReportType
  <2>3. Returns(p, FromReport(p, rep))
    BY <1>8, <2>1, <2>2 DEF FetchSucceeds, Returns, Busy
  <2> QED BY <2>2, <2>3
<1>9. ASSUME NEW p \in Providers, ExhaustLadder(p) PROVE Goal
  <2> DEFINE reason == outcomeFromAttempts(attempts[p])
             o == Failure(reason, sourceForReason(attempts[p], reason))
  <2>1. Settle(p, o)
    BY <1>9 DEF ExhaustLadder
  <2>2. o \in Outcomes
    BY RungType, FailureType
  <2> HIDE DEF o
  <2>3. Returns(p, o)
    BY <1>9, <2>1, <2>2 DEF ExhaustLadder, Returns, Busy
  <2> QED BY <2>2, <2>3
<1>10. ASSUME NEW c \in Calls, SourceAnswers(c) \/ GiveUp(c) \/ Expire(c) PROVE Goal
  BY <1>10 DEF SourceAnswers, GiveUp, Answer, Expire, workers, Elsewhere
<1>11. CASE UNCHANGED vars
  BY <1>11 DEF vars, workers, Elsewhere
<1> QED
  BY <1>1, <1>2, <1>3, <1>4, <1>5, <1>6, <1>7, <1>8, <1>9, <1>10, <1>11 DEF Next, WorkerStep

\* How the workers stand to the run: they are busy only while it waits, each one
\* that returned was heard, and only an ended context excuses an empty return.
WorkersInv == \A p \in Providers :
  /\ Busy(p) => main = "waiting" /\ p \in Wanted
  /\ main = "ready" => pc[p] = "idle"
  /\ pc[p] = "done" => p \in Arrived
  /\ pc[p] # "done" => outcome[p] = NoOutcome
  /\ pc[p] = "done" /\ outcome[p] = NoOutcome => ctx # "live"

EndInv ==
  /\ main = "waiting" => Wanted \subseteq Providers /\ \A p \in Wanted : pc[p] # "idle"
  /\ main = "reported" => \A p \in Wanted : p \in Providers /\ pc[p] = "done"

RunInv == WorkersInv /\ EndInv /\ ReportIsComplete

\* Every provider asked for is first mentioned somewhere in the request.
LEMMA FirstMentionsCover ==
  ASSUME TypeOK, NEW p \in Wanted
  PROVE  \E i \in FirstMentions : request[i] = p
<1> DEFINE Mentions == {i \in DOMAIN request : request[i] = p}
<1>1. Mentions \in SUBSET Nat /\ Mentions # {}
  BY ProvidersAssumption DEF TypeOK, Wanted
<1>2. PICK i \in Mentions : \A k \in Mentions : i <= k
  BY <1>1, Decisions!LeastNatural
<1>3. i \in FirstMentions
  BY <1>2 DEF FirstMentions
<1> QED BY <1>2, <1>3

\* Sending a result makes the provider arrive, and nobody else leave.
LEMMA SettleArrives ==
  ASSUME TypeOK, NEW p \in Providers, NEW o, Settle(p, o)
  PROVE  Arrived' = Arrived \cup {p}
<1>1. /\ arrived \in Seq(Providers)
      /\ arrived' = Append(arrived, p)
  BY DEF TypeOK, Settle
<1>2. /\ DOMAIN arrived' = DOMAIN arrived \cup {Len(arrived) + 1}
      /\ \A i \in DOMAIN arrived : arrived'[i] = arrived[i]
      /\ arrived'[Len(arrived) + 1] = p
  BY <1>1, Decisions!Appended
<1> QED BY <1>2 DEF Arrived

\* To have no outcome is not an outcome.
LEMMA OutcomesAreSettled == NoOutcome \notin Outcomes
BY DEF NoOutcome, Outcomes

\* What Publish finds when the context is live.
LEMMA Conclusion ==
  ASSUME TypeOK, RunInv, Publish, ctx = "live"
  PROVE  /\ main' = "reported" /\ UNCHANGED <<request, outcome>>
         /\ \A p \in Wanted : p \in Providers /\ outcome[p] \in Outcomes
         /\ DOMAIN report' = FirstMentions
         /\ \A i \in FirstMentions :
              report'[i] = [provider |-> request[i], outcome |-> outcome[request[i]]]
<1>1. \A p \in Wanted : p \in Providers /\ pc[p] = "done"
  BY DEF RunInv, EndInv, Publish
<1>2. \A p \in Wanted : p \in Arrived /\ outcome[p] \in Outcomes
  BY <1>1 DEF RunInv, WorkersInv, TypeOK
<1>3. \A i \in FirstMentions : request[i] \in Wanted
  BY DEF FirstMentions, Wanted
<1>4. {k \in FirstMentions : request[k] \in Arrived} = FirstMentions
  BY <1>2, <1>3
<1>5. main' = "reported" /\ report' = Entries /\ UNCHANGED <<request, outcome>>
  BY DEF Publish, Conclude, options, workers
<1> QED BY <1>1, <1>2, <1>4, <1>5 DEF Entries

\* Every step keeps what ties the workers to the run.
LEMMA RunStep ==
  ASSUME TypeOK, RunInv, [Next]_vars
  PROVE  RunInv'
<1>1. CASE Start
  <2>1. WorkersInv' /\ EndInv'
    BY <1>1 DEF Start, RunInv, WorkersInv, EndInv, TypeOK, Busy, Wanted, Arrived, options
  <2>2. ReportIsComplete'
    BY <1>1 DEF Start, ReportIsComplete
  <2> QED BY <2>1, <2>2 DEF RunInv
<1>2. CASE Publish
  <2>1. UNCHANGED <<request, ctx, pc, outcome, arrived>>
    BY <1>2 DEF Publish, options, workers
  <2>2. \A p \in Wanted : p \in Providers /\ pc[p] = "done"
    BY <1>2 DEF Publish, RunInv, EndInv
  <2>3. \A p \in Providers : ~ Busy(p)
    BY <1>2, <2>2 DEF Publish, RunInv, WorkersInv, Busy
  <2>4. main' \in {"reported", "failed"}
    BY <1>2 DEF Publish, Conclude
  <2>5. WorkersInv' /\ EndInv'
    BY <2>1, <2>2, <2>3, <2>4 DEF RunInv, WorkersInv, EndInv, Busy, Wanted, Arrived
  <2>6. ReportIsComplete'
    <3>1. CASE ctx = "live"
      <4>1. FirstMentions' = FirstMentions
        BY <2>1 DEF FirstMentions
      <4>2. \A i \in FirstMentions : request[i] \in Wanted
        BY DEF FirstMentions, Wanted
      <4>3. /\ \A p \in Wanted : outcome[p] \in Outcomes
            /\ DOMAIN report' = FirstMentions
            /\ \A i \in FirstMentions :
                 report'[i] = [provider |-> request[i], outcome |-> outcome[request[i]]]
        BY <1>2, <3>1, Conclusion
      <4> QED BY <2>1, <4>1, <4>2, <4>3 DEF ReportIsComplete
    <3>2. CASE ctx # "live"
      BY <1>2, <3>2 DEF Publish, Conclude, ReportIsComplete
    <3> QED BY <3>1, <3>2
  <2> QED BY <2>5, <2>6 DEF RunInv
<1>3. CASE Elsewhere
  BY <1>3 DEF Elsewhere, RunInv, WorkersInv, EndInv, ReportIsComplete, Busy, Wanted, Arrived,
     FirstMentions
<1>4. ASSUME NEW p \in Providers, Moves(p) PROVE RunInv'
  <2>1. WorkersInv' /\ EndInv'
    BY <1>4 DEF Moves, RunInv, WorkersInv, EndInv, TypeOK, Busy, Wanted, Arrived
  <2>2. ReportIsComplete'
    BY <1>4 DEF Moves, RunInv, ReportIsComplete, FirstMentions
  <2> QED BY <2>1, <2>2 DEF RunInv
<1>5. ASSUME NEW p \in Providers, NEW o \in Outcomes \cup {NoOutcome}, Returns(p, o)
      PROVE  RunInv'
  <2>1. Arrived' = Arrived \cup {p}
    BY <1>5, SettleArrives DEF Returns
  <2>2. main = "waiting" /\ UNCHANGED <<main, request, ctx, report>>
    BY <1>5 DEF Returns, RunInv, WorkersInv
  <2>3. /\ pc' = [pc EXCEPT ![p] = "done"]
        /\ outcome' = [outcome EXCEPT ![p] = o]
        /\ o = NoOutcome => ctx # "live"
    BY <1>5, OutcomesAreSettled DEF Returns, Settle
  <2>4. WorkersInv'
    BY <2>1, <2>2, <2>3 DEF RunInv, WorkersInv, TypeOK, Busy, Wanted
  <2>5. EndInv'
    BY <2>2, <2>3 DEF RunInv, EndInv, TypeOK, Wanted
  <2>6. ReportIsComplete'
    BY <2>2 DEF ReportIsComplete
  <2> QED BY <2>4, <2>5, <2>6 DEF RunInv
<1> QED BY <1>1, <1>2, <1>3, <1>4, <1>5, StepKinds

\* The workers that have returned are the ones that arrived, in every state.
THEOREM RunInvariant == Spec => []RunInv
<1>1. Init => RunInv
  BY DEF Init, RunInv, WorkersInv, EndInv, ReportIsComplete, Busy
<1>2. TypeOK /\ RunInv /\ [Next]_vars => RunInv'
  BY RunStep
<1> QED BY <1>1, <1>2, TypeCorrect, PTL DEF Spec

\* A published report is complete and in order, each entry a report or an error.
THEOREM CompleteReport == Spec => []ReportIsComplete
<1>1. RunInv => ReportIsComplete
  BY DEF RunInv
<1> QED BY <1>1, RunInvariant, PTL

-----------------------------------------------------------------------------
(* The run implements Collection.  Starting the workers begins it, a       *)
(* worker's return decides on its provider unless it returns empty, and    *)
(* the end of the run finishes it or fails it.                             *)

promised == <<Wanted, IF main = "waiting" THEN "running" ELSE main, outcome,
              {report[i] : i \in DOMAIN report}>>

\* The run's start begins the promised one, or fails it.
LEMMA StartBegins ==
  ASSUME TypeOK, Start
  PROVE  Promise!Begin \/ Promise!Fail
BY DEF Start, TypeOK, options, Wanted, Promise!Begin, Promise!Fail

\* A worker's return decides on its provider.
LEMMA ReturnDecides ==
  ASSUME TypeOK, RunInv, NEW p \in Providers, NEW o \in Outcomes, Returns(p, o)
  PROVE  Promise!Decide(p)
<1>1. /\ main = "waiting" /\ p \in Wanted /\ outcome[p] = NoOutcome
      /\ UNCHANGED <<request, main, report>>
  BY DEF Returns, RunInv, WorkersInv, Busy
<1>2. outcome' = [outcome EXCEPT ![p] = o] /\ outcome'[p] = o
  BY DEF Returns, Settle, TypeOK
<1> QED BY <1>1, <1>2 DEF Promise!Decide, Wanted

\* The end of the wait finishes the promised run, or fails it.
LEMMA PublishConcludes ==
  ASSUME TypeOK, RunInv, Publish
  PROVE  Promise!Finish \/ Promise!Fail
<1>1. main = "waiting" /\ UNCHANGED <<request, outcome>>
  BY DEF Publish, options, workers
<1>2. Wanted' = Wanted
  BY <1>1 DEF Wanted
<1>3. CASE ctx # "live"
  <2>1. main' = "failed" /\ report' = report
    BY <1>3 DEF Publish, Conclude
  <2> QED BY <1>1, <1>2, <2>1 DEF Promise!Fail
<1>4. CASE ctx = "live"
  <2> DEFINE Entry(p) == [provider |-> p, outcome |-> outcome[p]]
  <2>1. /\ main' = "reported"
        /\ \A p \in Wanted : p \in Providers /\ outcome[p] \in Outcomes
        /\ DOMAIN report' = FirstMentions
        /\ \A i \in FirstMentions : report'[i] = Entry(request[i])
    BY <1>4, Conclusion
  <2>2. \A i \in FirstMentions : request[i] \in Wanted
    BY DEF FirstMentions, Wanted
  <2>3. \A p \in Wanted : \E i \in FirstMentions : request[i] = p
    BY FirstMentionsCover
  <2> HIDE DEF Entry
  <2>4. {report'[i] : i \in DOMAIN report'} = {Entry(p) : p \in Wanted}
    BY <2>1, <2>2, <2>3
  <2>5. \A p \in Wanted : outcome[p] # NoOutcome
    BY <2>1, OutcomesAreSettled
  <2> QED BY <1>1, <1>2, <2>1, <2>4, <2>5 DEF Entry, Promise!Finish
<1> QED BY <1>3, <1>4

\* Every step of the run is a step of the promise or leaves it as it is.
LEMMA PromiseStep ==
  ASSUME TypeOK, RunInv, [Next]_vars
  PROVE  [Promise!Next]_promised
<1>1. DOMAIN outcome = Providers
  BY DEF TypeOK
<1>2. CASE Start
  BY <1>2, StartBegins DEF Promise!Next
<1>3. CASE Publish
  BY <1>3, PublishConcludes DEF Promise!Next
<1>4. CASE Elsewhere
  BY <1>4 DEF Elsewhere, promised, Wanted
<1>5. ASSUME NEW p \in Providers, Moves(p) PROVE UNCHANGED promised
  BY <1>5 DEF Moves, promised, Wanted
<1>6. ASSUME NEW p \in Providers, NEW o \in Outcomes \cup {NoOutcome}, Returns(p, o)
      PROVE  [Promise!Next]_promised
  <2>1. CASE o \in Outcomes
    BY <1>1, <1>6, <2>1, ReturnDecides DEF Promise!Next
  <2>2. CASE o = NoOutcome
    <3>1. outcome[p] = NoOutcome /\ outcome' = [outcome EXCEPT ![p] = NoOutcome]
      BY <1>6, <2>2 DEF Returns, Settle, RunInv, WorkersInv, Busy
    <3>2. outcome' = outcome
      BY <3>1 DEF TypeOK
    <3> QED BY <1>6, <3>2 DEF Returns, promised, Wanted
  <2> QED BY <2>1, <2>2
<1> QED BY <1>2, <1>3, <1>4, <1>5, <1>6, StepKinds

\* The run keeps the promises of Collection.
THEOREM RunKeepsPromise == Spec => KeepsPromise
<1>1. Init => Promise!Init
  BY DEF Init, Promise!Init
<1>2. TypeOK /\ RunInv /\ [Next]_vars => [Promise!Next]_promised
  BY PromiseStep
<1> QED
  BY <1>1, <1>2, TypeCorrect, RunInvariant, PTL DEF Spec, KeepsPromise, Promise!Spec,
     Promise!promises, promised

-----------------------------------------------------------------------------
(* The walks.  What each worker has recorded, as a set: which of its rungs *)
(* were walked, what each of them rests on, and what no call may do while  *)
(* its worker is elsewhere.                                                *)

Elements(seq) == {seq[i] : i \in DOMAIN seq}

Walked(p) == Elements(attempts[p])

\* No goroutine was ever started for rung j of provider p.
Unused(p, j) == \A s \in Stages : calls[<<p, j, s>>].state = "none"

\* What an attempt says is what its rung's goroutine has answered for good.
Backed(p, a) ==
  LET available == calls[<<p, a.rung, "available">>]
      fetch     == calls[<<p, a.rung, "fetch">>]
  IN  /\ a.rung \in DOMAIN Declared[p]
      /\ a.status = "skipped" => Unused(p, a.rung)
      /\ a.status = "unavailable" =>
           available.state = "answered" /\ available.answer.kind = "no"
      /\ a.status = "error" =>
           /\ fetch.state = "answered" /\ fetch.answer.kind = "error"
           /\ a.reason = ReasonOrUpstream(fetch.answer.reason)
      /\ a.status = "success" => fetch.state = "answered" /\ fetch.answer.kind = "report"
      /\ a.status = "timeout" => "released" \in {available.ctx, fetch.ctx}

\* The rung a worker waits on is the next of its walk, and one the policy allows.
AwaitsNext(p) == pc[p] \in {"available", "fetch"} =>
  /\ NextRung(p, rung[p])
  /\ Allows(policy, Declared[p][rung[p]])
  /\ pc[p] = "available" => calls[<<p, rung[p], "fetch">>].state = "none"

\* Only the rung a worker waits on, or waited on last, is in use and unrecorded.
UntriedUnused(p) == \A j \in Untried(p) :
  Unused(p, j) \/ (j = rung[p] /\ pc[p] \in {"available", "fetch", "done"})

InOrder(p) == \A a \in Walked(p) :
  /\ \A k \in Untried(p) : WalksBefore(Declared[p], a.rung, k)
  /\ outcome[p].kind = "report" => WalksBefore(Declared[p], a.rung, rung[p])

SuccessEnds(p) ==
  /\ \A a \in Walked(p) : a.status = "success" => pc[p] = "done" /\ a.rung = rung[p]
  /\ outcome[p].kind = "report" =>
       /\ pc[p] = "done"
       /\ outcome[p].rung = rung[p]
       /\ \E a \in Walked(p) : a.rung = rung[p]

Gated(p) ==
  /\ pc[p] \in {"ladder", "available", "fetch"} => ~ Refused(installed[p])
  /\ outcome[p].kind = "report" =>
       /\ "newer" \in {installed[p], outcome[p].version} =>
            outcome[p].confidence = "unknown" /\ outcome[p].warned
       /\ strict => ~ outcome[p].warned
       /\ installed[p] # "older"

WalkInv(p) ==
  /\ AwaitsNext(p) /\ UntriedUnused(p) /\ InOrder(p) /\ SuccessEnds(p) /\ Gated(p)
  /\ \A a \in Walked(p) : Backed(p, a)

\* No call is made of a source the policy does not allow, and none has given up
\* with the run before the run ended.
CallInv(c) ==
  /\ calls[c].state # "none" => Allows(policy, Declared[c[1]][c[2]])
  /\ calls[c].answer.kind \in {"no", "error"} /\ calls[c].answer.cut = "run" => ctx # "live"

AllWalksInv == /\ \A p \in Providers : WalkInv(p)
               /\ \A c \in Calls : CallInv(c)

-----------------------------------------------------------------------------
(* What the walks are made of.                                             *)

\* The calls of a provider's rungs are calls.
LEMMA RungCalls ==
  ASSUME NEW p \in Providers, NEW j \in DOMAIN Declared[p], NEW s \in Stages
  PROVE  <<p, j, s>> \in Calls
BY DEF Calls

\* A failure is not a report, and neither is no outcome.
LEMMA NotReports ==
  /\ NoOutcome.kind # "report"
  /\ \A reason, j : Failure(reason, j).kind # "report"
BY DEF NoOutcome, Failure

\* The rungs not tried are those that have no attempt.
LEMMA UntriedIsTheRest ==
  ASSUME NEW p \in Providers
  PROVE  Untried(p) = DOMAIN Declared[p] \ {a.rung : a \in Walked(p)}
BY DEF Untried, Walked, Elements

\* Appending an element to a sequence adds it to the elements.
LEMMA AppendedElements ==
  ASSUME NEW S, NEW seq \in Seq(S), NEW x \in S
  PROVE  Elements(Append(seq, x)) = Elements(seq) \cup {x}
<1> DEFINE longer == Append(seq, x)
<1>1. /\ DOMAIN longer = DOMAIN seq \cup {Len(seq) + 1}
      /\ \A i \in DOMAIN seq : longer[i] = seq[i]
      /\ longer[Len(seq) + 1] = x
  BY Decisions!Appended
<1> HIDE DEF longer
<1>2. Elements(longer) = Elements(seq) \cup {x}
  BY <1>1 DEF Elements
<1> QED BY <1>2 DEF longer

\* Recording an attempt adds it to what was walked, and takes its rung from what
\* is left to try.
LEMMA RecordedIsWalked ==
  ASSUME TypeOK, NEW p \in Providers, NEW j \in Nat, NEW status, NEW reason,
         \/ status = "error" /\ reason \in Reasons
         \/ status \in Statuses \ {"error"} /\ reason = "",
         attempts' = [attempts EXCEPT ![p] = Recorded(p, j, status, reason)]
  PROVE  /\ Walked(p)' = Walked(p) \cup {[rung |-> j, status |-> status, reason |-> reason]}
         /\ Untried(p)' = Untried(p) \ {j}
<1> DEFINE a == [rung |-> j, status |-> status, reason |-> reason]
<1>1. a \in Attempt /\ a.rung = j
  BY DEF Attempt
<1>2. attempts[p] \in Seq(Attempt) /\ attempts'[p] = Append(attempts[p], a)
  BY DEF TypeOK, Recorded
<1> HIDE DEF a
<1>3. Walked(p)' = Walked(p) \cup {a}
  <2>1. Elements(attempts'[p]) = Elements(attempts[p]) \cup {a}
    <3>1. \A s \in Seq(Attempt), x \in Attempt : Elements(Append(s, x)) = Elements(s) \cup {x}
      BY AppendedElements
    <3> QED BY <1>1, <1>2, <3>1
  <2>2. Walked(p)' = Elements(attempts'[p])
    BY DEF Walked, Elements
  <2> QED BY <2>1, <2>2 DEF Walked
<1>4. Untried(p)' = DOMAIN Declared[p] \ {b.rung : b \in Walked(p)'}
  BY DEF Untried, Walked, Elements
<1>5. Untried(p)' = Untried(p) \ {j}
  BY <1>1, <1>3, <1>4, UntriedIsTheRest
<1> QED BY <1>3, <1>5 DEF a

-----------------------------------------------------------------------------
(* What a step leaves a worker's walk: an answer is for good, a release is *)
(* for good, and a call that was not made is not made.                     *)

Keeps(c) ==
  /\ calls[c].state = "none" => calls'[c].state = "none"
  /\ calls[c].state = "answered" =>
       calls'[c].state = "answered" /\ calls'[c].answer = calls[c].answer
  /\ calls[c].ctx = "released" => calls'[c].ctx = "released"

KeepsCalls(p) == \A j \in DOMAIN Declared[p], s \in Stages : Keeps(<<p, j, s>>)

Untouched(p) ==
  /\ UNCHANGED <<policy, strict, pc[p], rung[p], installed[p], attempts[p], outcome[p]>>
  /\ KeepsCalls(p)

\* An answer given for good goes on backing its attempt.
LEMMA BackedStays ==
  ASSUME NEW p \in Providers, NEW a, Backed(p, a),
         \A s \in Stages : Keeps(<<p, a.rung, s>>)
  PROVE  Backed(p, a)'
BY DEF Backed, Keeps, Unused, Stages

\* A rung for which no goroutine was begun keeps being one.
LEMMA UnusedStays ==
  ASSUME NEW p \in Providers, NEW j \in DOMAIN Declared[p], Unused(p, j), KeepsCalls(p)
  PROVE  Unused(p, j)'
BY DEF Unused, KeepsCalls, Keeps

\* A walk nobody touches stays as it was.
LEMMA UntouchedStep ==
  ASSUME NEW p \in Providers, WalkInv(p), Untouched(p)
  PROVE  WalkInv(p)'
<1>1. Walked(p)' = Walked(p) /\ Untried(p)' = Untried(p)
  BY DEF Untouched, Walked, Untried
<1>2. Untried(p) \subseteq DOMAIN Declared[p]
  BY DEF Untried
<1>3. \A a \in Walked(p)' : Backed(p, a)'
  <2>1. ASSUME NEW a \in Walked(p) PROVE Backed(p, a)'
    <3>1. Backed(p, a) /\ a.rung \in DOMAIN Declared[p]
      BY DEF WalkInv, Backed
    <3> QED BY <3>1, BackedStays DEF Untouched, KeepsCalls
  <2> QED BY <1>1, <2>1
<1>4. AwaitsNext(p)'
  <2>1. NextRung(p, rung[p])' <=> NextRung(p, rung[p])
    BY <1>1 DEF NextRung, Untouched
  <2>2. \A j \in Untried(p) : Keeps(<<p, j, "fetch">>)
    BY <1>2 DEF Untouched, KeepsCalls, Stages
  <2> QED BY <2>1, <2>2 DEF WalkInv, AwaitsNext, Untouched, Keeps, NextRung
<1>5. UntriedUnused(p)'
  BY <1>1, <1>2, UnusedStays DEF WalkInv, UntriedUnused, Untouched
<1>6. InOrder(p)'
  BY <1>1 DEF WalkInv, InOrder, Untouched
<1>7. SuccessEnds(p)'
  BY <1>1 DEF WalkInv, SuccessEnds, Untouched
<1>8. Gated(p)'
  BY DEF WalkInv, Gated, Untouched, Refused
<1> QED BY <1>3, <1>4, <1>5, <1>6, <1>7, <1>8 DEF WalkInv

\* A worker that returns without a report leaves its walk as it is.
LEMMA EmptyReturnStep ==
  ASSUME TypeOK, NEW p \in Providers, WalkInv(p), pc[p] # "done",
         NEW o, o.kind # "report", Settle(p, o),
         UNCHANGED <<policy, strict, rung, attempts>>, KeepsCalls(p)
  PROVE  WalkInv(p)'
<1>1. Walked(p)' = Walked(p) /\ Untried(p)' = Untried(p)
  BY DEF Walked, Untried
<1>2. pc'[p] = "done" /\ outcome'[p] = o
  BY DEF Settle, TypeOK
<1>3. \A a \in Walked(p)' : Backed(p, a)'
  <2>1. ASSUME NEW a \in Walked(p) PROVE Backed(p, a)'
    <3>1. Backed(p, a) /\ a.rung \in DOMAIN Declared[p]
      BY DEF WalkInv, Backed
    <3> QED BY <3>1, BackedStays DEF KeepsCalls
  <2> QED BY <1>1, <2>1
<1>4. AwaitsNext(p)' /\ Gated(p)'
  BY <1>2 DEF AwaitsNext, Gated
<1>5. UntriedUnused(p)'
  <2>1. \A j \in Untried(p) : j \in DOMAIN Declared[p]
    BY DEF Untried
  <2> QED BY <1>1, <1>2, <2>1, UnusedStays DEF WalkInv, UntriedUnused
<1>6. InOrder(p)'
  BY <1>1, <1>2 DEF WalkInv, InOrder
<1>7. SuccessEnds(p)'
  BY <1>1, <1>2 DEF WalkInv, SuccessEnds
<1> QED BY <1>3, <1>4, <1>5, <1>6, <1>7 DEF WalkInv

\* A worker on its way to its ladder has walked nothing and asked nobody.
LEMMA OnTheWayStep ==
  ASSUME TypeOK, NEW p \in Providers, WalkInv(p),
         pc[p] \in {"idle", "spawned", "detect"},
         pc'[p] \in {"idle", "spawned", "detect", "ladder"},
         pc'[p] = "ladder" => ~ Refused(installed'[p]),
         UNCHANGED <<policy, strict, rung, attempts, calls, outcome>>
  PROVE  WalkInv(p)'
<1>1. Walked(p)' = Walked(p) /\ Untried(p)' = Untried(p)
  BY DEF Walked, Untried
<1>2. outcome[p].kind # "report" /\ outcome'[p] = outcome[p]
  BY DEF WalkInv, SuccessEnds
<1>3. \A a \in Walked(p)' : Backed(p, a)'
  BY <1>1 DEF WalkInv, Backed, Unused
<1>4. AwaitsNext(p)'
  BY DEF AwaitsNext
<1>5. Gated(p)'
  BY <1>2 DEF Gated, Refused
<1>6. UntriedUnused(p)'
  BY <1>1 DEF WalkInv, UntriedUnused, Unused
<1>7. InOrder(p)'
  BY <1>1, <1>2 DEF WalkInv, InOrder
<1>8. SuccessEnds(p)'
  BY <1>1, <1>2 DEF WalkInv, SuccessEnds
<1> QED BY <1>3, <1>4, <1>5, <1>6, <1>7, <1>8 DEF WalkInv

\* A rung that ends without a report is recorded after every rung that walks
\* before it, and the next one comes after it.
LEMMA RecordStep ==
  ASSUME TypeOK, NEW p \in Providers, WalkInv(p), NEW j, NEW status, NEW reason,
         NextRung(p, j), Record(p, j, status, reason),
         \/ status = "error" /\ reason \in Reasons
         \/ status \in {"unavailable", "skipped", "timeout"} /\ reason = "",
         \/ pc[p] = "ladder"
         \/ pc[p] \in {"available", "fetch"} /\ j = rung[p],
         Backed(p, [rung |-> j, status |-> status, reason |-> reason])',
         UNCHANGED <<policy, strict, rung, installed>>, KeepsCalls(p)
  PROVE  WalkInv(p)'
<1> DEFINE a == [rung |-> j, status |-> status, reason |-> reason]
<1>1. j \in DOMAIN Declared[p] /\ j \in Nat /\ j \in Untried(p)
  BY RungsAreNaturals DEF NextRung, Untried
<1>2. pc'[p] = "ladder" /\ outcome' = outcome
  BY DEF Record, TypeOK
<1>3. Walked(p)' = Walked(p) \cup {a} /\ Untried(p)' = Untried(p) \ {j}
  BY <1>1, RecordedIsWalked DEF Record, Statuses
<1>4. a.rung = j /\ a.status # "success"
  OBVIOUS
<1>5. Backed(p, a)'
  OBVIOUS
<1> HIDE DEF a
<1>6. outcome[p].kind # "report"
  BY DEF WalkInv, SuccessEnds
<1>7. \A b \in Walked(p)' : Backed(p, b)'
  <2>1. ASSUME NEW b \in Walked(p) PROVE Backed(p, b)'
    <3>1. Backed(p, b) /\ b.rung \in DOMAIN Declared[p]
      BY DEF WalkInv, Backed
    <3> QED BY <3>1, BackedStays DEF KeepsCalls
  <2> QED BY <1>3, <1>5, <2>1
<1>8. AwaitsNext(p)'
  BY <1>2 DEF AwaitsNext
<1>9. Gated(p)'
  BY <1>2, <1>6 DEF WalkInv, Gated, Refused
<1>10. UntriedUnused(p)'
  <2>1. \A k \in Untried(p) : k \in DOMAIN Declared[p]
    BY DEF Untried
  <2>2. \A k \in Untried(p) \ {j} : Unused(p, k)
    BY DEF WalkInv, UntriedUnused
  <2> QED BY <1>3, <2>1, <2>2, UnusedStays DEF UntriedUnused
<1>11. InOrder(p)'
  <2>1. \A k \in Untried(p) : WalksBefore(Declared[p], a.rung, k)
    BY <1>4 DEF NextRung
  <2> QED BY <1>2, <1>3, <1>6, <2>1 DEF WalkInv, InOrder
<1>12. SuccessEnds(p)'
  BY <1>2, <1>3, <1>4, <1>6 DEF WalkInv, SuccessEnds
<1> QED BY <1>7, <1>8, <1>9, <1>10, <1>11, <1>12 DEF WalkInv

\* The next rung of the walk is asked whether it is available.
LEMMA ProbeStep ==
  ASSUME TypeOK, NEW p \in Providers, WalkInv(p), ProbeRung(p)
  PROVE  WalkInv(p)'
<1>1. PICK j \in DOMAIN Declared[p] :
        /\ NextRung(p, j)
        /\ Allows(policy, Declared[p][j])
        /\ rung' = [rung EXCEPT ![p] = j]
        /\ calls' = [calls EXCEPT ![<<p, j, "available">>] = Begin(<<p, j, "available">>)]
  BY DEF ProbeRung
<1>2. /\ rung'[p] = j
      /\ pc[p] = "ladder" /\ pc'[p] = "available"
      /\ UNCHANGED <<policy, strict, installed, attempts, outcome>>
  BY <1>1 DEF ProbeRung, TypeOK, options
<1>3. Walked(p)' = Walked(p) /\ Untried(p)' = Untried(p)
  BY <1>2 DEF Walked, Untried
<1>4. j \in Untried(p) /\ Unused(p, j)
  BY <1>1, <1>2 DEF NextRung, WalkInv, UntriedUnused
<1>5. \A k \in DOMAIN Declared[p], s \in Stages :
        k # j \/ s = "fetch" => calls'[<<p, k, s>>] = calls[<<p, k, s>>]
  <2>1. \A k \in DOMAIN Declared[p], s \in Stages : <<p, k, s>> \in Calls
    BY RungCalls
  <2>2. \A c \in Calls : c # <<p, j, "available">> => calls'[c] = calls[c]
    BY <1>1 DEF TypeOK
  <2> QED BY <2>1, <2>2
<1>6. outcome[p].kind # "report"
  BY <1>2 DEF WalkInv, SuccessEnds
<1>7. \A a \in Walked(p)' : Backed(p, a)'
  <2>1. ASSUME NEW a \in Walked(p) PROVE Backed(p, a)'
    <3>1. Backed(p, a) /\ a.rung \in DOMAIN Declared[p]
      BY DEF WalkInv, Backed
    <3>2. a.rung # j
      BY <1>4, UntriedIsTheRest
    <3>3. \A s \in Stages : Keeps(<<p, a.rung, s>>)
      BY <1>5, <3>1, <3>2 DEF Keeps
    <3> QED BY <3>1, <3>3, BackedStays
  <2> QED BY <1>3, <2>1
<1>8. AwaitsNext(p)'
  <2>1. NextRung(p, j)'
    BY <1>1, <1>3 DEF NextRung
  <2>2. calls'[<<p, j, "fetch">>].state = "none"
    BY <1>4, <1>5 DEF Unused, Stages
  <2> QED BY <1>1, <1>2, <2>1, <2>2 DEF AwaitsNext, NextRung
<1>9. UntriedUnused(p)'
  <2>1. ASSUME NEW k \in Untried(p), k # j PROVE Unused(p, k)'
    <3>1. k \in DOMAIN Declared[p] /\ Unused(p, k)
      BY <1>2 DEF Untried, WalkInv, UntriedUnused
    <3> QED BY <1>5, <2>1, <3>1 DEF Unused
  <2> QED BY <1>2, <1>3, <2>1 DEF UntriedUnused
<1>10. InOrder(p)'
  BY <1>2, <1>3, <1>6 DEF WalkInv, InOrder
<1>11. SuccessEnds(p)'
  BY <1>2, <1>3, <1>6 DEF WalkInv, SuccessEnds
<1>12. Gated(p)'
  BY <1>2, <1>6 DEF WalkInv, Gated, Refused
<1> QED BY <1>7, <1>8, <1>9, <1>10, <1>11, <1>12 DEF WalkInv

\* A rung that is available is fetched from.
LEMMA FetchBeginsStep ==
  ASSUME TypeOK, NEW p \in Providers, WalkInv(p), pc[p] = "available",
         calls' = [calls EXCEPT ![Awaited(p)] = Release(Awaited(p)),
                                ![<<p, rung[p], "fetch">>] = Begin(<<p, rung[p], "fetch">>)],
         pc' = [pc EXCEPT ![p] = "fetch"],
         UNCHANGED <<policy, strict, installed, rung, attempts, outcome>>
  PROVE  WalkInv(p)'
<1> DEFINE j == rung[p]
<1>1. NextRung(p, j) /\ j \in Untried(p) /\ Allows(policy, Declared[p][j])
  BY DEF WalkInv, AwaitsNext, NextRung
<1>2. pc'[p] = "fetch" /\ rung'[p] = j
  BY DEF TypeOK
<1>3. Walked(p)' = Walked(p) /\ Untried(p)' = Untried(p)
  BY DEF Walked, Untried
<1>4. \A k \in DOMAIN Declared[p] \ {j}, s \in Stages :
        calls'[<<p, k, s>>] = calls[<<p, k, s>>]
  <2>1. \A k \in DOMAIN Declared[p], s \in Stages : <<p, k, s>> \in Calls
    BY RungCalls
  <2>2. \A c \in Calls : c # Awaited(p) /\ c # <<p, j, "fetch">> => calls'[c] = calls[c]
    BY DEF TypeOK
  <2> QED BY <2>1, <2>2 DEF Awaited
<1> HIDE DEF j
<1>5. outcome[p].kind # "report"
  BY DEF WalkInv, SuccessEnds
<1>6. \A a \in Walked(p)' : Backed(p, a)'
  <2>1. ASSUME NEW a \in Walked(p) PROVE Backed(p, a)'
    <3>1. Backed(p, a) /\ a.rung \in DOMAIN Declared[p]
      BY DEF WalkInv, Backed
    <3>2. a.rung # j
      BY <1>1, UntriedIsTheRest
    <3>3. \A s \in Stages : Keeps(<<p, a.rung, s>>)
      BY <1>4, <3>1, <3>2 DEF Keeps
    <3> QED BY <3>1, <3>3, BackedStays
  <2> QED BY <1>3, <2>1
<1>7. AwaitsNext(p)'
  BY <1>1, <1>2, <1>3 DEF AwaitsNext, NextRung
<1>8. UntriedUnused(p)'
  <2>1. ASSUME NEW k \in Untried(p), k # j PROVE Unused(p, k)'
    <3>1. k \in DOMAIN Declared[p] /\ Unused(p, k)
      BY <2>1 DEF Untried, WalkInv, UntriedUnused, j
    <3> QED BY <1>4, <2>1, <3>1 DEF Unused
  <2> QED BY <1>2, <1>3, <2>1 DEF UntriedUnused
<1>9. InOrder(p)'
  BY <1>3, <1>5 DEF WalkInv, InOrder
<1>10. SuccessEnds(p)'
  BY <1>3, <1>5 DEF WalkInv, SuccessEnds
<1>11. Gated(p)'
  BY <1>2, <1>5 DEF WalkInv, Gated, Refused
<1> QED BY <1>6, <1>7, <1>8, <1>9, <1>10, <1>11 DEF WalkInv

\* Letting go of a call takes nothing back that it has said.
LEMMA ReleaseKeeps ==
  ASSUME TypeOK, NEW p \in Providers, NEW c \in Calls,
         calls' = [calls EXCEPT ![c] = Release(c)]
  PROVE  /\ KeepsCalls(p)
         /\ calls'[c].state = calls[c].state /\ calls'[c].answer = calls[c].answer
         /\ calls'[c].ctx = "released"
<1>1. calls[c] \in Call /\ calls'[c] = [calls[c] EXCEPT !.ctx = "released"]
  BY DEF TypeOK, Release
<1>2. /\ calls'[c].state = calls[c].state /\ calls'[c].answer = calls[c].answer
      /\ calls'[c].ctx = "released"
  BY <1>1 DEF Call
<1>3. \A d \in Calls \ {c} : calls'[d] = calls[d]
  BY DEF TypeOK
<1>4. \A d \in Calls : Keeps(d)
  BY <1>2, <1>3 DEF Keeps
<1> QED BY <1>2, <1>4, RungCalls DEF KeepsCalls

\* What passes the gates after a fetch is marked when the version is newer.
LEMMA FromReportIsGated ==
  ASSUME TypeOK, NEW p \in Providers, NEW rep \in Reports, ~ Refused(installed[p]),
         FromReport(p, rep).kind = "report"
  PROVE  LET o == FromReport(p, rep)
         IN  /\ o.rung = rung[p]
             /\ "newer" \in {installed[p], o.version} => o.confidence = "unknown" /\ o.warned
             /\ strict => ~ o.warned
             /\ installed[p] # "older"
<1> DEFINE o == FromReport(p, rep)
           warned == Drifted(p, rep) \/ rep.warned
<1>1. ~ (strict /\ warned)
  BY NotReports DEF FromReport
<1>2. o = Success(rung[p], FilledConfidence(p, rep), warned, CLIVersion(p, rep))
  BY NotReports DEF FromReport
<1>3. "newer" \in {installed[p], CLIVersion(p, rep)} => Drifted(p, rep)
  BY DEF Drifted
<1>4. Drifted(p, rep) => FilledConfidence(p, rep) = "unknown" /\ warned
  BY DEF FilledConfidence
<1> HIDE DEF warned, o
<1>5. /\ o.rung = rung[p] /\ o.version = CLIVersion(p, rep)
      /\ o.confidence = FilledConfidence(p, rep) /\ o.warned = warned
  BY <1>2 DEF Success
<1> QED BY <1>1, <1>3, <1>4, <1>5 DEF o, Refused

\* The first report ends the walk at its rung.
LEMMA SucceedStep ==
  ASSUME TypeOK, NEW p \in Providers, WalkInv(p), FetchSucceeds(p)
  PROVE  WalkInv(p)'
<1>0. PICK j \in Nat : j = rung[p]
  BY DEF TypeOK
<1> DEFINE a == [rung |-> j, status |-> "success", reason |-> ""]
<1>1. PICK rep \in FetchAnswers \cap Reports :
        Answered(p, rep) /\ Settle(p, FromReport(p, rep))
  BY DEF FetchSucceeds
<1>2. /\ pc[p] = "fetch"
      /\ attempts' = [attempts EXCEPT ![p] = Recorded(p, j, "success", "")]
      /\ calls' = [calls EXCEPT ![Awaited(p)] = Release(Awaited(p))]
      /\ UNCHANGED <<policy, strict, installed, rung>>
  BY <1>0 DEF FetchSucceeds, options
<1>3. j \in Untried(p) /\ \A k \in Untried(p) : WalksBefore(Declared[p], j, k)
  BY <1>0, <1>2 DEF WalkInv, AwaitsNext, NextRung
<1>4. j \in DOMAIN Declared[p]
  BY <1>3 DEF Untried
<1>5. Walked(p)' = Walked(p) \cup {a} /\ Untried(p)' = Untried(p) \ {j}
  BY <1>2, <1>4, RecordedIsWalked DEF Statuses
<1>6. Awaited(p) = <<p, j, "fetch">> /\ Awaited(p) \in Calls
  BY <1>0, <1>2, <1>4, RungCalls DEF Awaited, Stages
<1>7. /\ KeepsCalls(p)
      /\ calls'[Awaited(p)].state = "answered" /\ calls'[Awaited(p)].answer = rep
  BY <1>1, <1>2, <1>6, ReleaseKeeps DEF Answered
<1>8. pc'[p] = "done" /\ outcome'[p] = FromReport(p, rep)
  BY <1>1 DEF Settle, TypeOK
<1>9. rep.kind = "report"
  BY DEF Reports
<1>10. a.rung = j /\ a.status = "success"
  OBVIOUS
<1> HIDE DEF a
<1>11. Backed(p, a)'
  <2>1. calls'[<<p, a.rung, "fetch">>].state = "answered"
    BY <1>6, <1>7, <1>10
  <2>2. calls'[<<p, a.rung, "fetch">>].answer.kind = "report"
    BY <1>6, <1>7, <1>9, <1>10
  <2> QED BY <1>4, <1>10, <2>1, <2>2 DEF Backed
<1>12. \A b \in Walked(p)' : Backed(p, b)'
  <2>1. ASSUME NEW b \in Walked(p) PROVE Backed(p, b)'
    <3>1. Backed(p, b) /\ b.rung \in DOMAIN Declared[p]
      BY DEF WalkInv, Backed
    <3> QED BY <1>7, <3>1, BackedStays DEF KeepsCalls
  <2> QED BY <1>5, <1>11, <2>1
<1>13. AwaitsNext(p)'
  BY <1>8 DEF AwaitsNext
<1>14. UntriedUnused(p)'
  <2>1. \A k \in Untried(p) \ {j} : k \in DOMAIN Declared[p] /\ Unused(p, k)
    BY <1>0 DEF Untried, WalkInv, UntriedUnused
  <2> QED BY <1>5, <1>7, <2>1, UnusedStays DEF UntriedUnused
<1>15. InOrder(p)'
  <2>1. \A b \in Walked(p) : WalksBefore(Declared[p], b.rung, j)
    BY <1>3 DEF WalkInv, InOrder
  <2>2. WalksBefore(Declared[p], j, j)
    BY <1>4 DEF WalksBefore
  <2>3. \A b \in Walked(p), k \in Untried(p) : WalksBefore(Declared[p], b.rung, k)
    BY DEF WalkInv, InOrder
  <2> QED BY <1>0, <1>2, <1>3, <1>5, <1>10, <2>1, <2>2, <2>3 DEF InOrder
<1>16. SuccessEnds(p)'
  <2>1. \A b \in Walked(p)' : b.status = "success" => b.rung = rung'[p]
    <3>1. \A b \in Walked(p) : b.status # "success"
      BY <1>2 DEF WalkInv, SuccessEnds
    <3> QED BY <1>0, <1>2, <1>5, <1>10, <3>1
  <2>2. \E b \in Walked(p)' : b.rung = rung'[p]
    BY <1>0, <1>2, <1>5, <1>10
  <2>3. outcome'[p].kind = "report" => outcome'[p].rung = rung'[p]
    <3>1. ~ Refused(installed[p])
      BY <1>2 DEF WalkInv, Gated
    <3> QED BY <1>2, <1>8, <3>1, FromReportIsGated
  <2> QED BY <1>8, <2>1, <2>2, <2>3 DEF SuccessEnds
<1>17. Gated(p)'
  <2>1. ~ Refused(installed[p])
    BY <1>2 DEF WalkInv, Gated
  <2> QED BY <1>2, <1>8, <2>1, FromReportIsGated DEF Gated
<1> QED BY <1>12, <1>13, <1>14, <1>15, <1>16, <1>17 DEF WalkInv

-----------------------------------------------------------------------------
(* The steps of a worker, one by one.                                      *)

\* The worker looks at the context for the first time.
LEMMA EnterStep ==
  ASSUME TypeOK, NEW p \in Providers, WalkInv(p), Enter(p)
  PROVE  WalkInv(p)'
<1>1. /\ pc[p] = "spawned" /\ KeepsCalls(p)
      /\ UNCHANGED <<policy, strict, rung, installed, attempts, calls>>
  BY DEF Enter, options, KeepsCalls, Keeps
<1>2. CASE ctx # "live"
  <2>1. Settle(p, NoOutcome)
    BY <1>2 DEF Enter
  <2> QED BY <1>1, <2>1, NotReports, EmptyReturnStep
<1>3. CASE ctx = "live"
  <2>1. pc'[p] = "detect" /\ UNCHANGED outcome
    BY <1>3 DEF Enter, TypeOK
  <2> QED BY <1>1, <2>1, OnTheWayStep
<1> QED BY <1>2, <1>3

\* Detect returns, and the worker passes the version gate or not.
LEMMA DetectStep ==
  ASSUME TypeOK, NEW p \in Providers, WalkInv(p), DetectReturns(p)
  PROVE  WalkInv(p)'
<1>1. /\ pc[p] = "detect" /\ KeepsCalls(p)
      /\ UNCHANGED <<policy, strict, rung, attempts, calls>>
  BY DEF DetectReturns, options, KeepsCalls, Keeps
<1>2. PICK v \in DetectVersions :
        /\ installed' = [installed EXCEPT ![p] = v]
        /\ IF Refused(v)
           THEN Settle(p, Failure("unsupported_version", 0))
           ELSE pc' = [pc EXCEPT ![p] = "ladder"] /\ UNCHANGED <<outcome, arrived>>
  BY DEF DetectReturns
<1>3. CASE Refused(v)
  <2>1. Settle(p, Failure("unsupported_version", 0))
    BY <1>2, <1>3
  <2> QED BY <1>1, <2>1, NotReports, EmptyReturnStep
<1>4. CASE ~ Refused(v)
  <2>1. pc'[p] = "ladder" /\ installed'[p] = v /\ UNCHANGED outcome
    BY <1>2, <1>4 DEF TypeOK
  <2> QED BY <1>1, <1>4, <2>1, OnTheWayStep
<1> QED BY <1>3, <1>4

\* The worker finds the context ended between two rungs.
LEMMA AbandonStep ==
  ASSUME TypeOK, NEW p \in Providers, WalkInv(p), AbandonWalk(p)
  PROVE  WalkInv(p)'
<1>1. /\ pc[p] = "ladder" /\ KeepsCalls(p) /\ Settle(p, NoOutcome)
      /\ UNCHANGED <<policy, strict, rung, attempts>>
  BY DEF AbandonWalk, options, KeepsCalls, Keeps
<1> QED BY <1>1, NotReports, EmptyReturnStep

\* The ladder has no more rungs.
LEMMA ExhaustStep ==
  ASSUME TypeOK, NEW p \in Providers, WalkInv(p), ExhaustLadder(p)
  PROVE  WalkInv(p)'
<1> DEFINE reason == outcomeFromAttempts(attempts[p])
<1>1. /\ pc[p] = "ladder" /\ KeepsCalls(p)
      /\ UNCHANGED <<policy, strict, rung, attempts>>
      /\ Settle(p, Failure(reason, sourceForReason(attempts[p], reason)))
  BY DEF ExhaustLadder, options, KeepsCalls, Keeps
<1> QED BY <1>1, NotReports, EmptyReturnStep

\* A rung the policy excludes is skipped.
LEMMA SkipStep ==
  ASSUME TypeOK, NEW p \in Providers, WalkInv(p), SkipRung(p)
  PROVE  WalkInv(p)'
<1>1. PICK j \in DOMAIN Declared[p] : NextRung(p, j) /\ Record(p, j, "skipped", "")
  BY DEF SkipRung
<1>2. /\ pc[p] = "ladder" /\ KeepsCalls(p)
      /\ UNCHANGED <<policy, strict, rung, installed, calls>>
  BY DEF SkipRung, options, KeepsCalls, Keeps
<1>3. Unused(p, j)
  BY <1>1, <1>2 DEF WalkInv, UntriedUnused, NextRung
<1>4. Backed(p, [rung |-> j, status |-> "skipped", reason |-> ""])'
  BY <1>2, <1>3 DEF Backed, Unused
<1> QED BY <1>1, <1>2, <1>4, RecordStep

\* What is common to the steps that end the rung a worker waits on.
LEMMA AwaitedRung ==
  ASSUME TypeOK, NEW p \in Providers, WalkInv(p), pc[p] \in {"available", "fetch"}
  PROVE  \E j \in DOMAIN Declared[p] :
           /\ j = rung[p] /\ NextRung(p, j)
           /\ Awaited(p) = <<p, j, pc[p]>> /\ Awaited(p) \in Calls
           /\ Allows(policy, Declared[p][j])
<1>1. NextRung(p, rung[p]) /\ rung[p] \in DOMAIN Declared[p]
  BY DEF WalkInv, AwaitsNext, NextRung, Untried
<1> QED BY <1>1, RungCalls DEF Awaited, Stages, WalkInv, AwaitsNext

\* Available's answer is taken.
LEMMA ReceiveStep ==
  ASSUME TypeOK, NEW p \in Providers, WalkInv(p), ReceiveAvailable(p)
  PROVE  WalkInv(p)'
<1>1. pc[p] = "available" /\ UNCHANGED <<policy, strict, rung, installed>>
  BY DEF ReceiveAvailable, options
<1>2. PICK j \in DOMAIN Declared[p] :
        /\ j = rung[p] /\ NextRung(p, j)
        /\ Awaited(p) = <<p, j, pc[p]>> /\ Awaited(p) \in Calls
  BY <1>1, AwaitedRung
<1>3. CASE /\ \E cut \in Cuts : Answered(p, Available("no", cut))
           /\ calls' = [calls EXCEPT ![Awaited(p)] = Release(Awaited(p))]
           /\ Record(p, rung[p], "unavailable", "")
  <2>1. /\ KeepsCalls(p)
        /\ calls'[Awaited(p)].state = calls[Awaited(p)].state
        /\ calls'[Awaited(p)].answer = calls[Awaited(p)].answer
    BY <1>2, <1>3, ReleaseKeeps
  <2>2. calls[Awaited(p)].state = "answered" /\ calls[Awaited(p)].answer.kind = "no"
    <3>1. PICK cut \in Cuts : Answered(p, Available("no", cut))
      BY <1>3
    <3>2. Available("no", cut).kind = "no"
      BY DEF Available
    <3> QED BY <3>1, <3>2 DEF Answered
  <2>3. Backed(p, [rung |-> j, status |-> "unavailable", reason |-> ""])'
    BY <1>1, <1>2, <2>1, <2>2 DEF Backed
  <2>4. Record(p, j, "unavailable", "")
    BY <1>2, <1>3
  <2> QED BY <1>1, <1>2, <2>1, <2>3, <2>4, RecordStep
<1>4. CASE /\ calls' = [calls EXCEPT
                         ![Awaited(p)] = Release(Awaited(p)),
                         ![<<p, rung[p], "fetch">>] = Begin(<<p, rung[p], "fetch">>)]
           /\ pc' = [pc EXCEPT ![p] = "fetch"]
           /\ UNCHANGED <<attempts, outcome, arrived>>
  BY <1>1, <1>4, FetchBeginsStep
<1> QED BY <1>3, <1>4 DEF ReceiveAvailable

\* The select takes the deadline's branch.
LEMMA TimeoutStep ==
  ASSUME TypeOK, NEW p \in Providers, WalkInv(p), AvailableTimesOut(p) \/ FetchTimesOut(p)
  PROVE  WalkInv(p)'
<1>1. /\ pc[p] \in {"available", "fetch"} /\ StopWaiting(p)
      /\ UNCHANGED <<policy, strict, rung, installed>>
  BY DEF AvailableTimesOut, FetchTimesOut, options
<1>2. PICK j \in DOMAIN Declared[p] :
        /\ j = rung[p] /\ NextRung(p, j)
        /\ Awaited(p) = <<p, j, pc[p]>> /\ Awaited(p) \in Calls
  BY <1>1, AwaitedRung
<1>3. /\ KeepsCalls(p)
      /\ calls'[<<p, j, pc[p]>>].ctx = "released"
  BY <1>1, <1>2, ReleaseKeeps DEF StopWaiting
<1>4. CASE ctx # "live"
  BY <1>1, <1>3, <1>4, NotReports, EmptyReturnStep DEF StopWaiting
<1>5. CASE ctx = "live"
  <2>1. Record(p, j, "timeout", "")
    BY <1>1, <1>2, <1>5 DEF StopWaiting
  <2>2. "released" \in {calls'[<<p, j, "available">>].ctx, calls'[<<p, j, "fetch">>].ctx}
    BY <1>1, <1>3
  <2>3. Backed(p, [rung |-> j, status |-> "timeout", reason |-> ""])'
    BY <2>2 DEF Backed
  <2> QED BY <1>1, <1>2, <1>3, <2>1, <2>3, RecordStep
<1> QED BY <1>4, <1>5

\* Fetch's error is taken.
LEMMA FailStep ==
  ASSUME TypeOK, NEW p \in Providers, WalkInv(p), FetchFails(p)
  PROVE  WalkInv(p)'
<1>1. /\ pc[p] = "fetch" /\ UNCHANGED <<policy, strict, rung, installed>>
      /\ calls' = [calls EXCEPT ![Awaited(p)] = Release(Awaited(p))]
  BY DEF FetchFails, options
<1>2. PICK j \in DOMAIN Declared[p] :
        /\ j = rung[p] /\ NextRung(p, j)
        /\ Awaited(p) = <<p, j, pc[p]>> /\ Awaited(p) \in Calls
  BY <1>1, AwaitedRung
<1>3. PICK r \in Reasons \cup {""}, cut \in Cuts :
        /\ Answered(p, FetchError(r, cut))
        /\ Record(p, rung[p], "error", ReasonOrUpstream(r))
  BY DEF FetchFails
<1>4. ReasonOrUpstream(r) \in Reasons
  BY DEF ReasonOrUpstream, Reasons
<1>5. PICK reason \in Reasons : reason = ReasonOrUpstream(r)
  BY <1>4
<1>6. /\ KeepsCalls(p)
      /\ calls'[Awaited(p)].state = calls[Awaited(p)].state
      /\ calls'[Awaited(p)].answer = calls[Awaited(p)].answer
  BY <1>1, <1>2, ReleaseKeeps
<1>7. /\ calls[Awaited(p)].state = "answered"
      /\ calls[Awaited(p)].answer.kind = "error" /\ calls[Awaited(p)].answer.reason = r
  <2>1. FetchError(r, cut).kind = "error" /\ FetchError(r, cut).reason = r
    BY DEF FetchError
  <2> QED BY <1>3, <2>1 DEF Answered
<1>8. Backed(p, [rung |-> j, status |-> "error", reason |-> reason])'
  BY <1>1, <1>2, <1>5, <1>6, <1>7 DEF Backed
<1>9. Record(p, j, "error", reason)
  BY <1>2, <1>3, <1>5
<1> QED BY <1>1, <1>2, <1>6, <1>8, <1>9, RecordStep

-----------------------------------------------------------------------------
(* The steps of the others: another worker's, a source's, the run's own.   *)

\* Calls of another provider are none of p's.
LEMMA OtherCalls ==
  ASSUME TypeOK, NEW p \in Providers, NEW q \in Providers, q # p,
         \A c \in Calls : c[1] # q => calls'[c] = calls[c]
  PROVE  KeepsCalls(p)
<1>1. \A j \in DOMAIN Declared[p], s \in Stages : calls'[<<p, j, s>>] = calls[<<p, j, s>>]
  BY RungCalls
<1> QED BY <1>1 DEF KeepsCalls, Keeps

\* The call a worker waits on is one of its own provider's.
LEMMA AwaitedIsOwn ==
  ASSUME TypeOK, NEW q \in Providers, NEW v,
         calls' = [calls EXCEPT ![Awaited(q)] = v]
  PROVE  \A c \in Calls : c[1] # q => calls'[c] = calls[c]
<1>1. Awaited(q)[1] = q
  BY DEF Awaited
<1>2. \A c \in Calls : c[1] # q => c # Awaited(q)
  BY <1>1
<1> QED BY <1>2 DEF TypeOK

\* A worker's step touches no other worker's walk.
LEMMA OthersStep ==
  ASSUME TypeOK, NEW p \in Providers, NEW q \in Providers, q # p,
         DetectReturns(q) \/ WorkerStep(q)
  PROVE  Untouched(p)
<1> USE DEF options
<1> DEFINE OwnStep ==
             /\ UNCHANGED <<policy, strict, pc[p], rung[p], installed[p], attempts[p],
                            outcome[p]>>
             /\ \A c \in Calls : c[1] # q => calls'[c] = calls[c]
<1>0. OwnStep => Untouched(p)
  BY OtherCalls DEF Untouched
<1>1. CASE DetectReturns(q)
  BY <1>0, <1>1 DEF DetectReturns, Settle, TypeOK
<1>2. CASE Enter(q) \/ AbandonWalk(q) \/ ExhaustLadder(q)
  BY <1>0, <1>2 DEF Enter, AbandonWalk, ExhaustLadder, Settle, TypeOK
<1>3. CASE SkipRung(q)
  BY <1>0, <1>3 DEF SkipRung, Record, TypeOK
<1>4. CASE ProbeRung(q)
  BY <1>0, <1>4 DEF ProbeRung, TypeOK
<1>5. CASE ReceiveAvailable(q)
  <2>1. CASE /\ calls' = [calls EXCEPT ![Awaited(q)] = Release(Awaited(q))]
             /\ Record(q, rung[q], "unavailable", "")
    <3>1. \A c \in Calls : c[1] # q => calls'[c] = calls[c]
      BY <2>1, AwaitedIsOwn
    <3> QED BY <1>0, <1>5, <2>1, <3>1 DEF ReceiveAvailable, Record, TypeOK
  <2>2. CASE /\ calls' = [calls EXCEPT
                           ![Awaited(q)] = Release(Awaited(q)),
                           ![<<q, rung[q], "fetch">>] = Begin(<<q, rung[q], "fetch">>)]
             /\ pc' = [pc EXCEPT ![q] = "fetch"]
             /\ UNCHANGED <<attempts, outcome, arrived>>
    <3>1. Awaited(q)[1] = q /\ <<q, rung[q], "fetch">>[1] = q
      BY DEF Awaited
    <3>2. \A c \in Calls : c[1] # q => c # Awaited(q) /\ c # <<q, rung[q], "fetch">>
      BY <3>1
    <3>3. \A c \in Calls : c[1] # q => calls'[c] = calls[c]
      BY <2>2, <3>2 DEF TypeOK
    <3> QED BY <1>0, <1>5, <2>2, <3>3 DEF ReceiveAvailable, TypeOK
  <2> QED BY <1>5, <2>1, <2>2 DEF ReceiveAvailable
<1>6. CASE AvailableTimesOut(q) \/ FetchTimesOut(q)
  <2>1. StopWaiting(q) /\ UNCHANGED <<policy, strict, rung, installed>>
    BY <1>6 DEF AvailableTimesOut, FetchTimesOut
  <2>2. \A c \in Calls : c[1] # q => calls'[c] = calls[c]
    BY <2>1, AwaitedIsOwn DEF StopWaiting
  <2>3. CASE ctx # "live"
    BY <1>0, <2>1, <2>2, <2>3 DEF StopWaiting, Settle, TypeOK
  <2>4. CASE ctx = "live"
    BY <1>0, <2>1, <2>2, <2>4 DEF StopWaiting, Record, TypeOK
  <2> QED BY <2>3, <2>4
<1>7. CASE FetchFails(q)
  <2>1. \A c \in Calls : c[1] # q => calls'[c] = calls[c]
    BY <1>7, AwaitedIsOwn DEF FetchFails
  <2> QED BY <1>0, <1>7, <2>1 DEF FetchFails, Record, TypeOK
<1>8. CASE FetchSucceeds(q)
  <2>1. \A c \in Calls : c[1] # q => calls'[c] = calls[c]
    BY <1>8, AwaitedIsOwn DEF FetchSucceeds
  <2> QED BY <1>0, <1>8, <2>1 DEF FetchSucceeds, Settle, TypeOK
<1> QED BY <1>1, <1>2, <1>3, <1>4, <1>5, <1>6, <1>7, <1>8 DEF WorkerStep

\* A source speaks once, and only when it was asked.
LEMMA SourcesStep ==
  ASSUME TypeOK, NEW p \in Providers, NEW c \in Calls,
         SourceAnswers(c) \/ GiveUp(c) \/ Expire(c)
  PROVE  Untouched(p)
<1>1. \A d \in Calls : d # c => calls'[d] = calls[d]
  BY DEF SourceAnswers, GiveUp, Answer, Expire, TypeOK
<1>2. Keeps(c)
  <2>1. calls[c] \in Call
    BY DEF TypeOK
  <2>2. CASE Expire(c)
    <3>1. calls[c].ctx = "live" /\ calls'[c] = [calls[c] EXCEPT !.ctx = "expired"]
      BY <2>2 DEF Expire, TypeOK
    <3> QED BY <2>1, <3>1 DEF Keeps, Call
  <2>3. CASE \E a : Answer(c, a)
    <3>1. PICK a : Answer(c, a)
      BY <2>3
    <3>2. /\ calls[c].state = "running"
          /\ calls'[c] = [calls[c] EXCEPT !.state = "answered", !.answer = a]
      BY <3>1 DEF Answer, TypeOK
    <3> QED BY <2>1, <3>2 DEF Keeps, Call
  <2> QED BY <2>2, <2>3 DEF SourceAnswers, GiveUp
<1>3. \A d \in Calls : Keeps(d)
  BY <1>1, <1>2 DEF Keeps
<1>4. UNCHANGED <<options, workers>>
  BY DEF SourceAnswers, GiveUp, Answer, Expire
<1> QED BY <1>3, <1>4, RungCalls DEF Untouched, KeepsCalls, options, workers

\* For one provider's walk a step starts its worker, is its worker's, or leaves
\* the walk alone.
LEMMA WalkStepKinds ==
  ASSUME TypeOK, [Next]_vars, NEW p \in Providers
  PROVE  Start \/ DetectReturns(p) \/ WorkerStep(p) \/ Untouched(p)
<1>1. ASSUME UNCHANGED <<options, workers, calls>> PROVE Untouched(p)
  BY <1>1 DEF Untouched, KeepsCalls, Keeps, options, workers
<1>2. CASE Interrupt \/ Publish
  BY <1>1, <1>2 DEF Interrupt, Publish
<1>3. CASE UNCHANGED vars
  BY <1>1, <1>3 DEF vars
<1>4. ASSUME NEW q \in Providers, DetectReturns(q) \/ WorkerStep(q)
      PROVE  DetectReturns(p) \/ WorkerStep(p) \/ Untouched(p)
  BY <1>4, OthersStep
<1>5. ASSUME NEW c \in Calls, SourceAnswers(c) \/ GiveUp(c) \/ Expire(c)
      PROVE  Untouched(p)
  BY <1>5, SourcesStep
<1> QED BY <1>2, <1>3, <1>4, <1>5 DEF Next

\* Every step of the run keeps every walk's invariant.
LEMMA WalkStep ==
  ASSUME TypeOK, RunInv, [Next]_vars, NEW p \in Providers, WalkInv(p)
  PROVE  WalkInv(p)'
<1>1. CASE Start
  <2>1. /\ pc[p] = "idle" /\ pc'[p] \in {"idle", "spawned"}
        /\ UNCHANGED <<policy, strict, rung, attempts, calls, outcome>>
    BY <1>1 DEF Start, options, RunInv, WorkersInv, TypeOK
  <2> QED BY <2>1, OnTheWayStep
<1>2. CASE DetectReturns(p)
  BY <1>2, DetectStep
<1>3. CASE WorkerStep(p)
  BY <1>3, EnterStep, AbandonStep, SkipStep, ProbeStep, ReceiveStep, TimeoutStep, FailStep,
     SucceedStep, ExhaustStep DEF WorkerStep
<1>4. CASE Untouched(p)
  BY <1>4, UntouchedStep
<1> QED BY <1>1, <1>2, <1>3, <1>4, WalkStepKinds

-----------------------------------------------------------------------------
(* The calls.  A worker starts a call of an allowed rung and lets go of    *)
(* it; what the call says is up to the source.                             *)

\* A context that has ended stays so, and the policy does not change.
LEMMA RunStaysEnded ==
  ASSUME TypeOK, [Next]_vars
  PROVE  (ctx # "live" => ctx' # "live") /\ policy' = policy
<1>1. ctx # "live" => ctx' # "live"
  BY StepKinds DEF Start, Publish, Elsewhere, Moves, Returns
<1>2. policy' = policy
  BY DEF Next, WorkerStep, Interrupt, Start, Publish, DetectReturns, Enter, AbandonWalk, SkipRung,
     ProbeRung, ReceiveAvailable, AvailableTimesOut, FetchTimesOut, FetchFails, FetchSucceeds,
     ExhaustLadder, SourceAnswers, GiveUp, Answer, Expire, vars, options
<1> QED BY <1>1, <1>2

\* What a worker may do to a call.
Handles(c) ==
  /\ calls'[c].answer = calls[c].answer
  /\ \/ calls'[c].state = calls[c].state
     \/ Allows(policy, Declared[c[1]][c[2]])

\* Letting go of one call gives no answer to any.
LEMMA LettingGo ==
  ASSUME TypeOK, NEW c, NEW d \in Calls, calls' = [calls EXCEPT ![c] = Release(c)]
  PROVE  Handles(d)
<1>1. CASE d = c
  <2>1. calls[c] \in Call /\ calls'[c] = [calls[c] EXCEPT !.ctx = "released"]
    BY <1>1 DEF TypeOK, Release
  <2> QED BY <1>1, <2>1 DEF Handles, Call
<1>2. CASE d # c
  BY <1>2 DEF Handles, TypeOK
<1> QED BY <1>1, <1>2

\* A worker begins calls and lets go of them, and answers none.
LEMMA WorkerHandles ==
  ASSUME TypeOK, NEW p \in Providers, WalkInv(p), DetectReturns(p) \/ WorkerStep(p),
         NEW d \in Calls
  PROVE  Handles(d)
<1>1. CASE UNCHANGED calls
  BY <1>1 DEF Handles
<1>2. CASE ProbeRung(p)
  <2>1. PICK j \in DOMAIN Declared[p] :
          /\ Allows(policy, Declared[p][j])
          /\ calls' = [calls EXCEPT ![<<p, j, "available">>] = Begin(<<p, j, "available">>)]
    BY <1>2 DEF ProbeRung
  <2>2. CASE d = <<p, j, "available">>
    <3>1. calls[d] \in Call /\ calls'[d] = [calls[d] EXCEPT !.state = "running"]
      BY <2>1, <2>2 DEF TypeOK, Begin
    <3>2. Allows(policy, Declared[d[1]][d[2]])
      BY <2>1, <2>2
    <3> QED BY <3>1, <3>2 DEF Handles, Call
  <2>3. CASE d # <<p, j, "available">>
    BY <2>1, <2>3 DEF Handles, TypeOK
  <2> QED BY <2>2, <2>3
<1>3. CASE ReceiveAvailable(p)
  <2>1. CASE calls' = [calls EXCEPT ![Awaited(p)] = Release(Awaited(p))]
    BY <2>1, LettingGo
  <2>2. CASE calls' = [calls EXCEPT
                         ![Awaited(p)] = Release(Awaited(p)),
                         ![<<p, rung[p], "fetch">>] = Begin(<<p, rung[p], "fetch">>)]
    <3>1. PICK j \in DOMAIN Declared[p] :
            j = rung[p] /\ Awaited(p) \in Calls /\ Awaited(p) = <<p, j, "available">>
            /\ Allows(policy, Declared[p][j])
      BY <1>3, AwaitedRung DEF ReceiveAvailable
    <3>2. CASE d = <<p, j, "fetch">>
      <4>1. calls[d] \in Call /\ calls'[d] = [calls[d] EXCEPT !.state = "running"]
        BY <2>2, <3>1, <3>2 DEF TypeOK, Begin
      <4>2. Allows(policy, Declared[d[1]][d[2]])
        BY <3>1, <3>2
      <4> QED BY <4>1, <4>2 DEF Handles, Call
    <3>3. CASE d = Awaited(p)
      <4>1. d # <<p, rung[p], "fetch">>
        BY <3>1, <3>3
      <4>2. calls[d] \in Call /\ calls'[d] = Release(d)
        BY <2>2, <3>3, <4>1 DEF TypeOK
      <4> QED BY <4>2 DEF Handles, Call, Release
    <3>4. CASE d # Awaited(p) /\ d # <<p, j, "fetch">>
      BY <2>2, <3>1, <3>4 DEF Handles, TypeOK
    <3> QED BY <3>2, <3>3, <3>4
  <2> QED BY <1>3, <2>1, <2>2 DEF ReceiveAvailable
<1>4. CASE AvailableTimesOut(p) \/ FetchTimesOut(p)
  BY <1>4, LettingGo DEF AvailableTimesOut, FetchTimesOut, StopWaiting
<1>5. CASE FetchFails(p) \/ FetchSucceeds(p)
  BY <1>5, LettingGo DEF FetchFails, FetchSucceeds
<1> QED
  BY <1>1, <1>2, <1>3, <1>4, <1>5 DEF WorkerStep, DetectReturns, Enter, AbandonWalk, SkipRung,
     ExhaustLadder

\* A source that gives up with the run does so after the run ended.
LEMMA SourceCuts ==
  ASSUME TypeOK, NEW c \in Calls, SourceAnswers(c) \/ GiveUp(c), NEW d \in Calls, CallInv(d)
  PROVE  CallInv(d)'
<1>0. UNCHANGED <<policy, ctx>>
  BY DEF SourceAnswers, GiveUp, Answer, options
<1>1. PICK a \in Answers :
        /\ Answer(c, a)
        /\ a.kind \in {"no", "error"} /\ a.cut = "run" => ctx # "live"
  <2>1. CASE SourceAnswers(c)
    <3>1. \A a \in FetchAnswers :
            a \in Answers /\ (a.kind \in {"no", "error"} => a.cut = "none")
      BY ProvidersAssumption DEF Answers, Errors, Reports, Cuts
    <3>2. \A kind \in {"yes", "no"} :
            Available(kind, "none") \in Answers /\ Available(kind, "none").cut = "none"
      BY DEF Available, Answers, Cuts
    <3> QED BY <2>1, <3>1, <3>2 DEF SourceAnswers
  <2>2. CASE GiveUp(c)
    <3> DEFINE cut == IF calls[c].ctx = "expired" THEN "deadline"
                      ELSE IF calls[c].ctx = "released" THEN "released"
                      ELSE "run"
               late == cut = "deadline" \/ (cut = "run" /\ ctx = "deadline")
               a == IF c[3] = "fetch" THEN FetchError(IF late THEN "timeout" ELSE "", cut)
                    ELSE Available("no", cut)
    <3>1. Answer(c, a)
      BY <2>2 DEF GiveUp
    <3>2. cut = "run" => ctx # "live"
      <4>1. calls[c].ctx \in {"live", "expired", "released"}
        BY DEF TypeOK, Call
      <4> QED BY <2>2, <4>1 DEF GiveUp, Told, CtxDone
    <3>3. cut \in Cuts
      BY DEF Cuts
    <3> HIDE DEF cut
    <3>4. a \in Answers /\ a.cut = cut
      BY <3>3 DEF Available, FetchError, Answers, Errors, Reasons
    <3> HIDE DEF a
    <3> QED BY <3>1, <3>2, <3>4
  <2> QED BY <2>1, <2>2
<1>2. CASE d = c
  <2>1. /\ calls[c] \in Call /\ calls[c].state = "running"
        /\ calls'[c] = [calls[c] EXCEPT !.state = "answered", !.answer = a]
    BY <1>1 DEF Answer, TypeOK
  <2>2. calls'[c].answer = a
    BY <2>1 DEF Call
  <2> QED BY <1>0, <1>1, <1>2, <2>1, <2>2 DEF CallInv
<1>3. CASE d # c
  <2>1. calls'[d] = calls[d]
    BY <1>1, <1>3 DEF Answer, TypeOK
  <2> QED BY <1>0, <2>1 DEF CallInv
<1> QED BY <1>2, <1>3

\* Every step keeps what an answer says of the context's end.
LEMMA CallStep ==
  ASSUME TypeOK, \A p \in Providers : WalkInv(p), [Next]_vars, NEW d \in Calls, CallInv(d)
  PROVE  CallInv(d)'
<1>1. ASSUME Handles(d) PROVE CallInv(d)'
  BY <1>1, RunStaysEnded DEF Handles, CallInv
<1>2. ASSUME NEW p \in Providers, DetectReturns(p) \/ WorkerStep(p) PROVE CallInv(d)'
  BY <1>1, <1>2, WorkerHandles
<1>3. ASSUME NEW c \in Calls, SourceAnswers(c) \/ GiveUp(c) PROVE CallInv(d)'
  BY <1>3, SourceCuts
<1>4. ASSUME NEW c \in Calls, Expire(c) PROVE CallInv(d)'
  <2>1. CASE d = c
    <3>1. calls[c] \in Call /\ calls'[c] = [calls[c] EXCEPT !.ctx = "expired"]
      BY <1>4 DEF Expire, TypeOK
    <3>2. Handles(d)
      BY <2>1, <3>1 DEF Handles, Call
    <3> QED BY <1>1, <3>2
  <2>2. CASE d # c
    <3>1. Handles(d)
      BY <1>4, <2>2 DEF Expire, Handles, TypeOK
    <3> QED BY <1>1, <3>1
  <2> QED BY <2>1, <2>2
<1>5. CASE UNCHANGED calls
  <2>1. Handles(d)
    BY <1>5 DEF Handles
  <2> QED BY <1>1, <2>1
<1> QED BY <1>2, <1>3, <1>4, <1>5 DEF Next, Interrupt, Start, Publish, vars

\* The walks and the calls keep to their invariant.
THEOREM WalksInvariant == Spec => []AllWalksInv
<1>1. Init => AllWalksInv
  <2> SUFFICES ASSUME Init PROVE AllWalksInv
    OBVIOUS
  <2>1. ASSUME NEW p \in Providers PROVE WalkInv(p)
    <3>1. /\ pc[p] = "idle" /\ attempts[p] = <<>> /\ outcome[p] = NoOutcome
          /\ \A c \in Calls : calls[c] = UnusedCall
      BY DEF Init
    <3>2. Walked(p) = {} /\ Untried(p) \subseteq DOMAIN Declared[p]
      BY <3>1 DEF Walked, Elements, Untried
    <3>3. UntriedUnused(p)
      BY <3>1, <3>2, RungCalls DEF UntriedUnused, Unused, UnusedCall
    <3> QED BY <3>1, <3>2, <3>3, NotReports DEF WalkInv, AwaitsNext, InOrder, SuccessEnds, Gated
  <2>2. ASSUME NEW c \in Calls PROVE CallInv(c)
    BY DEF Init, CallInv, UnusedCall, NoAnswer
  <2> QED BY <2>1, <2>2 DEF AllWalksInv
<1>2. TypeOK /\ RunInv /\ AllWalksInv /\ [Next]_vars => AllWalksInv'
  BY WalkStep, CallStep DEF AllWalksInv
<1> QED BY <1>1, <1>2, TypeCorrect, RunInvariant, PTL DEF Spec

-----------------------------------------------------------------------------
(* What the report may be trusted with.                                    *)

\* Every recorded attempt is an element of the walk, and backed.
LEMMA WalkedAttempts ==
  ASSUME AllWalksInv, NEW p \in Providers, NEW i \in DOMAIN attempts[p]
  PROVE  attempts[p][i] \in Walked(p) /\ Backed(p, attempts[p][i])
BY DEF AllWalksInv, WalkInv, Walked, Elements

\* Each recorded attempt is about its own rung.
THEOREM OwnAttempts == Spec => []AttemptsAreTheirOwn
<1>1. AllWalksInv => AttemptsAreTheirOwn
  <2> SUFFICES ASSUME AllWalksInv, NEW p \in Providers, NEW i \in DOMAIN attempts[p]
               PROVE  LET a == attempts[p][i]
                          available == calls[<<p, a.rung, "available">>]
                          fetch     == calls[<<p, a.rung, "fetch">>]
                      IN  /\ a.status = "skipped" => {available.state, fetch.state} = {"none"}
                          /\ a.status = "unavailable" => available.answer.kind = "no"
                          /\ a.status = "error" =>
                               /\ fetch.answer.kind = "error"
                               /\ a.reason = ReasonOrUpstream(fetch.answer.reason)
                          /\ a.status = "success" => fetch.answer.kind = "report"
                          /\ a.status = "timeout" => "released" \in {available.ctx, fetch.ctx}
    BY DEF AttemptsAreTheirOwn
  <2>1. Backed(p, attempts[p][i])
    BY WalkedAttempts
  <2> QED BY <2>1 DEF Backed, Unused, Stages
<1> QED BY <1>1, WalksInvariant, PTL

\* Under the local policy no call is made of a source of the API tier.
THEOREM LocalStaysLocal == Spec => []LocalPolicyStaysLocal
<1>1. AllWalksInv => LocalPolicyStaysLocal
  <2> SUFFICES ASSUME AllWalksInv, policy[1] = "local", NEW c \in Calls, calls[c].state # "none"
               PROVE  Declared[c[1]][c[2]].tier # TierAPI
    BY DEF LocalPolicyStaysLocal
  <2>1. Allows(policy, Declared[c[1]][c[2]])
    BY DEF AllWalksInv, CallInv
  <2>2. Declared[c[1]][c[2]].tier >= TierLocalState
    BY <2>1 DEF Allows
  <2> QED BY <2>2 DEF TierLocalState, TierAPI
<1> QED BY <1>1, WalksInvariant, PTL

\* Drift is never passed off as trusted.
THEOREM DriftIsMarked == Spec => []DriftIsNeverTrusted
<1>1. AllWalksInv => DriftIsNeverTrusted
  BY DEF AllWalksInv, WalkInv, Gated, DriftIsNeverTrusted
<1> QED BY <1>1, WalksInvariant, PTL

\* A source of higher fidelity is walked before one of lower fidelity.
LEMMA OutranksWalksBefore ==
  ASSUME NEW p \in Providers, NEW j \in DOMAIN Declared[p], NEW k \in DOMAIN Declared[p],
         Outranks(Declared[p][j].tier, Declared[p][k].tier)
  PROVE  ~ WalksBefore(Declared[p], k, j)
<1>1. Declared[p][j].tier \in Tiers /\ Declared[p][k].tier \in Tiers
  BY RungsAreNaturals
<1>2. \A t, u \in Tiers : Outranks(t, u) => tierRank(t) < tierRank(u)
  BY DEF Outranks, tierRank, Tiers, TierAPI, TierLocalState, TierLocalRPC, TierCLIScrape
<1>3. \A t \in Tiers : tierRank(t) \in Int
  BY DEF tierRank, Tiers, TierAPI, TierLocalState, TierLocalRPC, TierCLIScrape
<1> QED BY <1>1, <1>2, <1>3 DEF WalksBefore

\* First tier wins, for every ladder in whatever order it is declared.
THEOREM FirstTier == Spec => []FirstTierWins
<1>1. TypeOK /\ AllWalksInv => FirstTierWins
  <2> SUFFICES ASSUME TypeOK, AllWalksInv, NEW p \in Providers, outcome[p].kind = "report",
                      NEW j \in DOMAIN Declared[p]
               PROVE  LET w == outcome[p].rung
                          tier(k) == Declared[p][k].tier
                      IN  /\ Outranks(tier(j), tier(w)) =>
                               \E i \in DOMAIN attempts[p] :
                                 attempts[p][i].rung = j /\ attempts[p][i].status # "success"
                          /\ Outranks(tier(w), tier(j)) =>
                               /\ calls[<<p, j, "available">>].state = "none"
                               /\ calls[<<p, j, "fetch">>].state = "none"
    BY DEF FirstTierWins
  <2> DEFINE w == outcome[p].rung
             tier(k) == Declared[p][k].tier
  <2>1. WalkInv(p)
    BY DEF AllWalksInv
  <2>2. /\ w = rung[p]
        /\ \A a \in Walked(p) : a.status = "success" => a.rung = w
    BY <2>1 DEF WalkInv, SuccessEnds
  <2>3. PICK b \in Walked(p) : b.rung = w
    BY <2>1, <2>2 DEF WalkInv, SuccessEnds
  <2>4. w \in DOMAIN Declared[p] /\ w \notin Untried(p)
    BY <2>1, <2>3, UntriedIsTheRest DEF WalkInv, Backed
  <2>5. \A k \in Untried(p) : WalksBefore(Declared[p], w, k) /\ Unused(p, k)
    BY <2>4, <2>1, <2>2, <2>3 DEF WalkInv, InOrder, UntriedUnused
  <2>6. \A a \in Walked(p) : WalksBefore(Declared[p], a.rung, w)
    BY <2>1, <2>2 DEF WalkInv, InOrder
  <2>7. ASSUME Outranks(tier(j), tier(w))
        PROVE  \E i \in DOMAIN attempts[p] :
                 attempts[p][i].rung = j /\ attempts[p][i].status # "success"
    <3>1. j \notin Untried(p)
      BY <2>4, <2>5, <2>7, OutranksWalksBefore
    <3>2. PICK a \in Walked(p) : a.rung = j
      BY <3>1, UntriedIsTheRest
    <3>3. j # w
      BY <2>4, <2>7, RungsAreNaturals DEF Outranks, Tiers, TierAPI, TierCLIScrape
    <3> QED BY <2>2, <3>2, <3>3 DEF Walked, Elements
  <2>8. ASSUME Outranks(tier(w), tier(j))
        PROVE  Unused(p, j)
    <3>1. j \in Untried(p)
      BY <2>4, <2>6, <2>8, OutranksWalksBefore, UntriedIsTheRest
    <3> QED BY <2>5, <3>1
  <2> QED BY <2>7, <2>8 DEF Unused, Stages
<1> QED BY <1>1, TypeCorrect, WalksInvariant, PTL

\* A published report blames no provider for the caller's cancellation.
THEOREM NoInterruptedVerdict == Spec => []NoVerdictFromInterruption
<1>1. Init => NoVerdictFromInterruption
  BY DEF Init, NoVerdictFromInterruption
<1>2. TypeOK /\ RunInv /\ AllWalksInv /\ NoVerdictFromInterruption /\ [Next]_vars
        => NoVerdictFromInterruption'
  <2> SUFFICES ASSUME TypeOK, RunInv, AllWalksInv, NoVerdictFromInterruption, [Next]_vars,
                      main' = "reported"
               PROVE  NoVerdictFromInterruption'
    BY DEF NoVerdictFromInterruption
  <2>1. CASE Publish
    <3>1. /\ ctx = "live" /\ UNCHANGED <<request, attempts, calls>>
          /\ \A p \in Wanted : p \in Providers
      BY <2>1 DEF Publish, Conclude, options, workers, RunInv, EndInv
    <3>2. ASSUME NEW p \in Wanted, NEW i \in DOMAIN attempts[p]
          PROVE  LET a == attempts[p][i]
                 IN  /\ a.status = "unavailable" =>
                          calls[<<p, a.rung, "available">>].answer.cut # "run"
                     /\ a.status = "error" =>
                          calls[<<p, a.rung, "fetch">>].answer.cut # "run"
      <4>1. p \in Providers /\ Backed(p, attempts[p][i])
        BY <3>1, WalkedAttempts
      <4>2. \A s \in Stages : CallInv(<<p, attempts[p][i].rung, s>>)
        BY <4>1, RungCalls DEF Backed, AllWalksInv
      <4> QED BY <3>1, <4>1, <4>2 DEF Backed, CallInv, Stages
    <3> QED BY <3>1, <3>2 DEF NoVerdictFromInterruption, Wanted
  <2>2. CASE ~ Publish
    <3>1. main = "reported" /\ UNCHANGED request
      BY <2>2, StepKinds DEF Start, Elsewhere, Moves, Returns, options
    <3>2. ASSUME NEW p \in Wanted
          PROVE  /\ p \in Providers /\ attempts'[p] = attempts[p]
                 /\ KeepsCalls(p)
      <4>1. p \in Providers /\ pc[p] = "done"
        BY <3>1 DEF RunInv, EndInv
      <4>2. Untouched(p)
        BY <3>1, <4>1, WalkStepKinds DEF Start, DetectReturns, WorkerStep, Enter, AbandonWalk,
           SkipRung, ProbeRung, ReceiveAvailable, AvailableTimesOut, FetchTimesOut, FetchFails,
           FetchSucceeds, ExhaustLadder
      <4> QED BY <4>1, <4>2 DEF Untouched
    <3>3. ASSUME NEW p \in Wanted, NEW i \in DOMAIN attempts[p]
          PROVE  LET a == attempts[p][i]
                 IN  /\ a.status = "unavailable" =>
                          calls'[<<p, a.rung, "available">>].answer.cut # "run"
                     /\ a.status = "error" =>
                          calls'[<<p, a.rung, "fetch">>].answer.cut # "run"
      <4>1. Backed(p, attempts[p][i])
        BY <3>2, WalkedAttempts
      <4>2. \A s \in Stages : Keeps(<<p, attempts[p][i].rung, s>>)
        BY <3>2, <4>1 DEF Backed, KeepsCalls
      <4> QED BY <3>1, <4>1, <4>2 DEF Backed, Keeps, Stages, NoVerdictFromInterruption
    <3> QED BY <3>1, <3>2, <3>3 DEF NoVerdictFromInterruption, Wanted
  <2> QED BY <2>1, <2>2
<1> QED BY <1>1, <1>2, TypeCorrect, RunInvariant, WalksInvariant, PTL DEF Spec
=============================================================================

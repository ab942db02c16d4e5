------------------------------ MODULE Resolver ------------------------------
(***************************************************************************)
(* One collection run: Collect's request, Resolve's fan-out of one worker  *)
(* per provider, each worker's walk of its source ladder, and the report.  *)
(*                                                                         *)
(* A worker probes a rung by starting a goroutine for Available and then   *)
(* one for Fetch.  Each goroutine has its own buffered answer channel and  *)
(* its own deadline below the run's context, and outlives the rung when    *)
(* the worker stops waiting for it: these are the calls of this module.    *)
(***************************************************************************)
EXTENDS Ladder, FiniteSets

CONSTANTS
  Providers,       \* the providers that have an adapter
  Declared,        \* Declared[p]: the sources of p's adapter, as it lists them
  Requests,        \* the provider lists a caller may ask for
  Policies,        \* the source policies a caller may set
  StrictModes,     \* the values of strict a caller may set
  Interruptions,   \* how the run's context may end: canceled, deadline
  DetectVersions,  \* what Detect may find out about the installed version
  FetchAnswers,    \* what Fetch may answer of its own accord
  Cooperative      \* the rungs <<p, j>> whose source gives up with its context

VARIABLES
  request,    \* the provider list of this run, after the default roster
  policy, strict,
  ctx,        \* the run's context: live, canceled, or past its deadline
  main,       \* Resolve: ready, waiting for the workers, reported or failed
  pc,         \* where each provider's worker is
  installed,  \* the version Detect reported to each worker
  rung,       \* the rung each worker is waiting on
  attempts,   \* the walk each worker has recorded
  calls,      \* the goroutines running Available and Fetch
  outcome,    \* what each worker returned
  arrived,    \* the results channel: providers in the order workers sent
  report      \* the published report: an entry per first mention in request

options == <<request, policy, strict>>
workers == <<pc, installed, rung, attempts, outcome, arrived>>
vars    == <<options, ctx, main, workers, calls, report>>

-----------------------------------------------------------------------------
Wanted == {request[i] : i \in DOMAIN request}

\* The positions Collect keeps when it drops repeated providers.
FirstMentions == {i \in DOMAIN request : \A k \in DOMAIN request :
                    request[k] = request[i] => i <= k}

Stages == {"available", "fetch"}
Calls  == UNION {{<<p, j, s>> : j \in DOMAIN Declared[p], s \in Stages} : p \in Providers}

Report(version, warned, confidence) ==
  [kind |-> "report", version |-> version, warned |-> warned, confidence |-> confidence]

\* An answer remembers which end of a context made the source give up:
\* none, its own deadline, the run's context, or the worker's release.
Cuts == {"none", "deadline", "run", "released"}
Available(answer, cut) == [kind |-> answer, cut |-> cut]
FetchError(reason, cut) == [kind |-> "error", reason |-> reason, cut |-> cut]

Reports    == [kind : {"report"}, version : Versions, warned : BOOLEAN,
               confidence : Confidences \cup {""}]
Errors     == [kind : {"error"}, reason : Reasons \cup {""}, cut : Cuts]
Answers    == [kind : {"yes", "no"}, cut : Cuts] \cup Errors \cup Reports
NoAnswer   == [kind |-> "none"]
Call       == [state : {"none", "running", "answered"},
               answer : Answers \cup {NoAnswer},
               ctx : {"live", "expired", "released"}]
UnusedCall == [state |-> "none", answer |-> NoAnswer, ctx |-> "live"]

Failure(reason, j) ==
  [kind |-> "error", reason |-> reason, rung |-> j, retryable |-> Retryable(reason)]
Success(j, confidence, warned, version) ==
  [kind |-> "report", rung |-> j, confidence |-> confidence, warned |-> warned,
   version |-> version]
NoOutcome == [kind |-> "nil"]
Outcomes  == [kind : {"error"}, reason : Reasons, rung : Nat, retryable : BOOLEAN]
             \cup [kind : {"report"}, rung : Nat, confidence : Confidences,
                   warned : BOOLEAN, version : Versions]

Settled(p) == outcome[p] \in Outcomes

ASSUME ProvidersAssumption ==
  /\ Declared \in [Providers -> Seq(Source)]
  /\ StrictModes \subseteq BOOLEAN
  /\ Interruptions \subseteq {"canceled", "deadline"}
  /\ DetectVersions \subseteq Versions
  /\ FetchAnswers \subseteq Reports \cup [kind : {"error"}, reason : Reasons \cup {""},
                                          cut : {"none"}]
  /\ Cooperative \subseteq UNION {{<<p, j>> : j \in DOMAIN Declared[p]} : p \in Providers}
  /\ \A r \in Requests : DOMAIN r \subseteq Nat

-----------------------------------------------------------------------------
Init ==
  /\ request \in Requests
  /\ policy \in Policies
  /\ strict \in StrictModes
  /\ ctx = "live"
  /\ main = "ready"
  /\ pc = [p \in Providers |-> "idle"]
  /\ installed = [p \in Providers |-> "absent"]
  /\ rung = [p \in Providers |-> 0]
  /\ attempts = [p \in Providers |-> <<>>]
  /\ calls = [c \in Calls |-> UnusedCall]
  /\ outcome = [p \in Providers |-> NoOutcome]
  /\ arrived = <<>>
  /\ report = <<>>

(* The caller cancels the run, or its overall deadline passes.             *)
Interrupt ==
  /\ ctx = "live"
  /\ ctx' \in Interruptions
  /\ UNCHANGED <<options, main, workers, calls, report>>

(* Collect refuses a finished context and an unknown provider, and then    *)
(* Resolve starts a worker for each provider once.                         *)
Start ==
  /\ main = "ready"
  /\ IF ctx # "live" \/ ~ Wanted \subseteq Providers
     THEN main' = "failed" /\ UNCHANGED pc
     ELSE /\ main' = "waiting"
          /\ pc' = [p \in Providers |-> IF p \in Wanted THEN "spawned" ELSE "idle"]
  /\ UNCHANGED <<options, ctx, installed, rung, attempts, outcome, arrived, calls, report>>

-----------------------------------------------------------------------------
(* The worker of provider p.                                               *)

Settle(p, o) ==
  /\ outcome' = [outcome EXCEPT ![p] = o]
  /\ arrived' = Append(arrived, p)
  /\ pc' = [pc EXCEPT ![p] = "done"]

Enter(p) ==
  /\ pc[p] = "spawned"
  /\ IF ctx # "live"
     THEN Settle(p, NoOutcome)
     ELSE pc' = [pc EXCEPT ![p] = "detect"] /\ UNCHANGED <<outcome, arrived>>
  /\ UNCHANGED <<options, ctx, main, installed, rung, attempts, calls, report>>

\* The gate refuses a version below the floor, and a newer one in strict mode.
Refused(version) == version = "older" \/ (version = "newer" /\ strict)

(* Detect's error is dropped: the version is then absent and not gated.    *)
DetectReturns(p) ==
  /\ pc[p] = "detect"
  /\ \E v \in DetectVersions :
       /\ installed' = [installed EXCEPT ![p] = v]
       /\ IF Refused(v)
          THEN Settle(p, Failure("unsupported_version", 0))
          ELSE pc' = [pc EXCEPT ![p] = "ladder"] /\ UNCHANGED <<outcome, arrived>>
  /\ UNCHANGED <<options, ctx, main, rung, attempts, calls, report>>

Untried(p) == DOMAIN Declared[p] \ {attempts[p][i].rung : i \in DOMAIN attempts[p]}

NextRung(p, j) ==
  /\ j \in Untried(p)
  /\ \A k \in Untried(p) : WalksBefore(Declared[p], j, k)

Recorded(p, j, status, reason) ==
  Append(attempts[p], [rung |-> j, status |-> status, reason |-> reason])

Record(p, j, status, reason) ==
  /\ attempts' = [attempts EXCEPT ![p] = Recorded(p, j, status, reason)]
  /\ pc' = [pc EXCEPT ![p] = "ladder"]
  /\ UNCHANGED <<outcome, arrived>>

(* The run ended before this rung: the walk stops with nothing to say.     *)
AbandonWalk(p) ==
  /\ pc[p] = "ladder"
  /\ ctx # "live"
  /\ Untried(p) # {}
  /\ Settle(p, NoOutcome)
  /\ UNCHANGED <<options, ctx, main, installed, rung, attempts, calls, report>>

SkipRung(p) ==
  /\ pc[p] = "ladder"
  /\ ctx = "live"
  /\ \E j \in DOMAIN Declared[p] :
       /\ NextRung(p, j)
       /\ ~ Allows(policy, Declared[p][j])
       /\ Record(p, j, "skipped", "")
  /\ UNCHANGED <<options, ctx, main, installed, rung, calls, report>>

Begin(c) == [calls[c] EXCEPT !.state = "running"]
Release(c) == [calls[c] EXCEPT !.ctx = "released"]

ProbeRung(p) ==
  /\ pc[p] = "ladder"
  /\ ctx = "live"
  /\ \E j \in DOMAIN Declared[p] :
       /\ NextRung(p, j)
       /\ Allows(policy, Declared[p][j])
       /\ rung' = [rung EXCEPT ![p] = j]
       /\ calls' = [calls EXCEPT ![<<p, j, "available">>] = Begin(<<p, j, "available">>)]
  /\ pc' = [pc EXCEPT ![p] = "available"]
  /\ UNCHANGED <<options, ctx, main, installed, attempts, outcome, arrived, report>>

Awaited(p) == <<p, rung[p], pc[p]>>

\* Mutant: one answer channel for all the rungs of a provider.
AnyAnswer(p, a) ==
  \E c \in Calls : /\ c[1] = p /\ c[3] = pc[p]
                   /\ calls[c].state = "answered" /\ calls[c].answer = a

\* The answer waiting in the channel of the call p is waiting on.
Answered(p, a) ==
  calls[Awaited(p)].state = "answered" /\ calls[Awaited(p)].answer = a

(* Available answered: the rung is unavailable, or its fetch starts.       *)
ReceiveAvailable(p) ==
  /\ pc[p] = "available"
  /\ LET c == Awaited(p)
         f == <<p, rung[p], "fetch">>
     IN  \/ /\ \E cut \in Cuts : Answered(p, Available("no", cut))
            /\ calls' = [calls EXCEPT ![c] = Release(c)]
            /\ Record(p, rung[p], "unavailable", "")
         \/ /\ Answered(p, Available("yes", "none"))
            /\ calls' = [calls EXCEPT ![c] = Release(c), ![f] = Begin(f)]
            /\ pc' = [pc EXCEPT ![p] = "fetch"]
            /\ UNCHANGED <<attempts, outcome, arrived>>
  /\ UNCHANGED <<options, ctx, main, installed, rung, report>>

\* A call's context ends with the run's, at its own deadline, or on release.
CtxDone(c) == ctx # "live" \/ calls[c].ctx # "live"

\* Mutant: the worker waits for the answer alone.
WaitForAnswer(p) == FALSE

\* The select took the context's branch: the rung timed out, or the run ended.
StopWaiting(p) ==
  /\ CtxDone(Awaited(p))
  /\ calls' = [calls EXCEPT ![Awaited(p)] = Release(Awaited(p))]
  /\ IF ctx # "live"
     THEN Settle(p, NoOutcome) /\ UNCHANGED attempts
     ELSE Record(p, rung[p], "timeout", "")

AvailableTimesOut(p) ==
  /\ pc[p] = "available"
  /\ StopWaiting(p)
  /\ UNCHANGED <<options, ctx, main, installed, rung, report>>

FetchTimesOut(p) ==
  /\ pc[p] = "fetch"
  /\ StopWaiting(p)
  /\ UNCHANGED <<options, ctx, main, installed, rung, report>>

FetchFails(p) ==
  /\ pc[p] = "fetch"
  /\ \E r \in Reasons \cup {""}, cut \in Cuts :
       /\ Answered(p, FetchError(r, cut))
       /\ Record(p, rung[p], "error", ReasonOrUpstream(r))
  /\ calls' = [calls EXCEPT ![Awaited(p)] = Release(Awaited(p))]
  /\ UNCHANGED <<options, ctx, main, installed, rung, report>>

-----------------------------------------------------------------------------
\* The version the report will carry: the source's, else the detected one.
CLIVersion(p, rep) == IF rep.version # "absent" THEN rep.version ELSE installed[p]

\* Mutant: the source's own version is never held against the range.
DetectedDrift(p, rep) == installed[p] = "newer"

Drifted(p, rep) == installed[p] = "newer" \/ CLIVersion(p, rep) = "newer"

\* Mutant: a report without a confidence is published without one.
Unfilled(p, rep) == IF Drifted(p, rep) THEN "unknown" ELSE rep.confidence

FilledConfidence(p, rep) ==
  IF Drifted(p, rep) THEN "unknown"
  ELSE IF rep.confidence # "" THEN rep.confidence
  ELSE defaultConfidenceForTier(Declared[p][rung[p]].tier)

\* The outcome of a successful fetch: the gate again, for a version the
\* source knew, then the drift mark, then strict mode's refusal of warnings.
FromReport(p, rep) ==
  LET drift  == Drifted(p, rep)
      warned == drift \/ rep.warned
  IN  IF \/ installed[p] # "newer" /\ Refused(CLIVersion(p, rep))
         \/ strict /\ warned
      THEN Failure("unsupported_version", 0)
      ELSE Success(rung[p], FilledConfidence(p, rep), warned, CLIVersion(p, rep))

(* The first rung that answers with a report ends the walk.                *)
FetchSucceeds(p) ==
  /\ pc[p] = "fetch"
  /\ \E rep \in FetchAnswers \cap Reports :
       /\ Answered(p, rep)
       /\ Settle(p, FromReport(p, rep))
  /\ attempts' = [attempts EXCEPT ![p] = Recorded(p, rung[p], "success", "")]
  /\ calls' = [calls EXCEPT ![Awaited(p)] = Release(Awaited(p))]
  /\ UNCHANGED <<options, ctx, main, installed, rung, report>>

(* Every rung was tried in vain: one reason sums the walk up.              *)
ExhaustLadder(p) ==
  /\ pc[p] = "ladder"
  /\ Untried(p) = {}
  /\ LET reason == outcomeFromAttempts(attempts[p])
     IN  Settle(p, Failure(reason, sourceForReason(attempts[p], reason)))
  /\ UNCHANGED <<options, ctx, main, installed, rung, attempts, calls, report>>

-----------------------------------------------------------------------------
(* The goroutines that run Available and Fetch, and their timers.          *)

Answer(c, a) ==
  /\ calls[c].state = "running"
  /\ calls' = [calls EXCEPT ![c] = [@ EXCEPT !.state = "answered", !.answer = a]]
  /\ UNCHANGED <<options, ctx, main, workers, report>>

(* The source answers of its own accord, however late.                     *)
SourceAnswers(c) ==
  \E a \in IF c[3] = "fetch" THEN FetchAnswers
           ELSE {Available("yes", "none"), Available("no", "none")} : Answer(c, a)

\* Mutant: the source is handed the run's context in place of its own.
ToldByRunOnly(c) == ctx # "live"

\* Whether the context the source was handed has ended.
Told(c) == CtxDone(c)

(* The source notices that its context ended and gives up: Available says  *)
(* no, Fetch returns the context's error.                                  *)
GiveUp(c) ==
  /\ Told(c)
  /\ LET cut == IF calls[c].ctx = "expired" THEN "deadline"
                ELSE IF calls[c].ctx = "released" THEN "released"
                ELSE "run"
         late == cut = "deadline" \/ (cut = "run" /\ ctx = "deadline")
     IN  Answer(c, IF c[3] = "fetch" THEN FetchError(IF late THEN "timeout" ELSE "", cut)
                   ELSE Available("no", cut))

(* The per-source timeout of a call passes.                                *)
Expire(c) ==
  /\ ctx = "live"
  /\ calls[c].state # "none"
  /\ calls[c].ctx = "live"
  /\ calls' = [calls EXCEPT ![c].ctx = "expired"]
  /\ UNCHANGED <<options, ctx, main, workers, report>>

-----------------------------------------------------------------------------
Arrived == {arrived[i] : i \in DOMAIN arrived}

\* Mutant: entries come out in the order the workers finished.
InOrderOfArrival ==
  [i \in FirstMentions |->
     LET p == arrived[Cardinality({k \in FirstMentions : k <= i})]
     IN  [provider |-> p, outcome |-> outcome[p]]]

\* One entry per requested provider, in the order of the request.
Entries ==
  [i \in {k \in FirstMentions : request[k] \in Arrived} |->
     [provider |-> request[i], outcome |-> outcome[request[i]]]]

\* Mutant: the run's context is not looked at again after the workers end.
PublishAnyway ==
  /\ main' = "reported"
  /\ report' = Entries

\* The last word on the run: an ended context fails it as a whole.
Conclude ==
  IF ctx # "live"
  THEN main' = "failed" /\ UNCHANGED report
  ELSE /\ main' = "reported"
       /\ report' = Entries

Publish ==
  /\ main = "waiting"
  /\ \A p \in Wanted : pc[p] = "done"
  /\ Conclude
  /\ UNCHANGED <<options, ctx, workers, calls>>

-----------------------------------------------------------------------------
WorkerStep(p) ==
  \/ Enter(p) \/ AbandonWalk(p) \/ SkipRung(p) \/ ProbeRung(p)
  \/ ReceiveAvailable(p) \/ AvailableTimesOut(p)
  \/ FetchTimesOut(p) \/ FetchFails(p) \/ FetchSucceeds(p)
  \/ ExhaustLadder(p)

Next ==
  \/ Interrupt \/ Start \/ Publish
  \/ \E p \in Providers : DetectReturns(p) \/ WorkerStep(p)
  \/ \E c \in Calls : SourceAnswers(c) \/ GiveUp(c) \/ Expire(c)

Spec == Init /\ [][Next]_vars

(* Goroutines are scheduled and timers fire.  A source need not answer:     *)
(* only a cooperative one is known to notice its context.  Detect runs a   *)
(* command without a timeout of its own, which is killed with the run's    *)
(* context, so it is known to return once that has ended.                  *)
Fairness ==
  /\ WF_vars(Start) /\ WF_vars(Publish)
  /\ \A p \in Providers : /\ WF_vars(WorkerStep(p))
                          /\ WF_vars(ctx # "live" /\ DetectReturns(p))
  /\ \A c \in Calls : WF_vars(Expire(c))
  /\ \A c \in Calls : <<c[1], c[2]>> \in Cooperative => WF_vars(GiveUp(c))

FairSpec == Spec /\ Fairness
-----------------------------------------------------------------------------
(* Properties.                                                             *)

\* Every variable holds a value of its kind.
TypeOK ==
  /\ policy \in Policies /\ strict \in BOOLEAN /\ request \in Requests
  /\ ctx \in {"live", "canceled", "deadline"}
  /\ main \in {"ready", "waiting", "reported", "failed"}
  /\ pc \in [Providers -> {"idle", "spawned", "detect", "ladder", "available",
                           "fetch", "done"}]
  /\ installed \in [Providers -> Versions]
  /\ rung \in [Providers -> Nat]
  /\ attempts \in [Providers -> Seq(Attempt)]
  /\ calls \in [Calls -> Call]
  /\ outcome \in [Providers -> Outcomes \cup {NoOutcome}]
  /\ arrived \in Seq(Providers)
  /\ \A i \in DOMAIN report :
       report[i] \in [provider : Providers, outcome : Outcomes \cup {NoOutcome}]

\* A published report has one entry for each requested provider, at its first
\* mention and in the caller's order whichever worker finished first, and each
\* entry is either that provider's report or its error: the drain of Resolve's
\* results channel, and resolveAdapter's promise that exactly one of its two
\* results is set.
ReportIsComplete ==
  main = "reported" =>
    /\ DOMAIN report = FirstMentions
    /\ \A i \in FirstMentions : /\ report[i].provider = request[i]
                                /\ report[i].outcome \in Outcomes
                                /\ report[i].outcome = outcome[request[i]]

\* A published report blames no provider for the caller's cancellation: no
\* attempt in it rests on an answer a source gave because the run's own context
\* had ended.  resolveAdapter does record such answers; Resolve's last look at
\* the context is what keeps them from coming out.
NoVerdictFromInterruption ==
  main = "reported" =>
    \A p \in Wanted : \A i \in DOMAIN attempts[p] :
      LET a == attempts[p][i]
      IN  /\ a.status = "unavailable" =>
               calls[<<p, a.rung, "available">>].answer.cut # "run"
          /\ a.status = "error" =>
               calls[<<p, a.rung, "fetch">>].answer.cut # "run"

\* Whether a source of tier t is of higher fidelity than one of tier u: local
\* state and local RPC are peers.
Outranks(t, u) == t < u /\ ~ {t, u} \subseteq {TierLocalState, TierLocalRPC}

\* First tier wins: when a rung's report is used, every rung of higher fidelity
\* was tried or skipped before it without success, and no rung of lower fidelity
\* was ever contacted, however the adapter ordered its sources.
FirstTierWins ==
  \A p \in Providers : outcome[p].kind = "report" =>
    LET w == outcome[p].rung
        tier(j) == Declared[p][j].tier
    IN  \A j \in DOMAIN Declared[p] :
          /\ Outranks(tier(j), tier(w)) =>
               \E i \in DOMAIN attempts[p] : /\ attempts[p][i].rung = j
                                             /\ attempts[p][i].status # "success"
          /\ Outranks(tier(w), tier(j)) =>
               /\ calls[<<p, j, "available">>].state = "none"
               /\ calls[<<p, j, "fetch">>].state = "none"

\* Each recorded attempt is about its own rung: what it says is what that rung's
\* goroutine answered, never the late answer of a rung given up on before, and a
\* skipped rung was not contacted at all.
AttemptsAreTheirOwn ==
  \A p \in Providers : \A i \in DOMAIN attempts[p] :
    LET a == attempts[p][i]
        available == calls[<<p, a.rung, "available">>]
        fetch     == calls[<<p, a.rung, "fetch">>]
    IN  /\ a.status = "skipped" => {available.state, fetch.state} = {"none"}
        /\ a.status = "unavailable" => available.answer.kind = "no"
        /\ a.status = "error" =>
             fetch.answer.kind = "error" /\ a.reason = ReasonOrUpstream(fetch.answer.reason)
        /\ a.status = "success" => fetch.answer.kind = "report"
        /\ a.status = "timeout" => "released" \in {available.ctx, fetch.ctx}

\* Under the local policy no source of the API tier is ever contacted, not even
\* to ask whether it is available: the README's offline mode.
LocalPolicyStaysLocal ==
  policy[1] = "local" =>
    \A c \in Calls : calls[c].state # "none" => Declared[c[1]][c[2]].tier # TierAPI

\* Data read from a version newer than the verified range is never passed off as
\* trusted, whether Detect or the source found the version out: such a report
\* has unknown confidence and a warning, strict mode lets none through, and a
\* detected version below the floor gives no report at all.
DriftIsNeverTrusted ==
  \A p \in Providers : outcome[p].kind = "report" =>
    /\ "newer" \in {installed[p], outcome[p].version} =>
         outcome[p].confidence = "unknown" /\ outcome[p].warned
    /\ strict => ~ outcome[p].warned
    /\ installed[p] # "older"

Ended == main \in {"reported", "failed"}

EveryDetectReturns == \A p \in Providers : pc[p] = "detect" ~> pc[p] # "detect"

\* A run ends when its context does, and it ends without that as long as no
\* Detect hangs, even when a source never answers and never looks at its
\* context: the per-source timeouts walk every worker to the end of its ladder.
RunReturns == (EveryDetectReturns \/ <>(ctx # "live")) => <>Ended

\* No goroutine of a source that heeds its context outlives it for ever, also
\* when the worker stopped waiting for it or the run returned long ago.
AbandonedSourcesEnd ==
  \A c \in Calls : <<c[1], c[2]>> \in Cooperative =>
    (calls[c].state = "running" ~> calls[c].state = "answered")

\* The run keeps the promises of Collection: a worker that returns nothing
\* leaves its provider undecided, and then the run cannot report.
Promise == INSTANCE Collection WITH
  Verdicts  <- Outcomes,
  Undecided <- NoOutcome,
  asked     <- Wanted,
  phase     <- IF main = "waiting" THEN "running" ELSE main,
  verdict   <- outcome,
  published <- {report[i] : i \in DOMAIN report}

KeepsPromise == Promise!Spec

\* TestResolver_AvailableTimeout: a rung whose availability check runs into its
\* deadline, and says no for that reason, is recorded as a timeout.
SlowCheckIsTimeout ==
  \A p \in Providers : \A i \in DOMAIN attempts[p] :
    attempts[p][i].status = "unavailable" =>
      calls[<<p, attempts[p][i].rung, "available">>].answer.cut # "deadline"
=============================================================================

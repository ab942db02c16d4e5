------------------------------- MODULE Doctor -------------------------------
(***************************************************************************)
(* One run of the doctor: provider after provider is detected, judged by   *)
(* its version, and its ladder walked by a loop that is the doctor's own   *)
(* and not the resolver's.  It goes on past the first rung that works, but *)
(* only to list the others.                                                *)
(*                                                                         *)
(* Of the goroutines the doctor starts for Available and Fetch only the    *)
(* one it is waiting for matters here: the others answer into channels     *)
(* that nobody holds any more.                                             *)
(***************************************************************************)
EXTENDS Ladder, FiniteSets

CONSTANTS
  Providers,       \* the providers that have an adapter
  Declared,        \* Declared[p]: the sources of p's adapter, as it lists them
  Ranged,          \* the providers for whom a verified range is declared
  Requests,        \* the provider lists a caller may ask for
  Policies,        \* the source policies a caller may set
  Interruptions,   \* how the run's context may end: canceled, deadline
  Detections,      \* what Detect, or the doctor's own probe, may find
  FetchErrors,     \* the reasons Fetch may fail for of its own accord
  Watched          \* a provider whose walk is compared with the resolver's

VARIABLES
  request, policy,
  ctx,        \* the run's context: live, canceled, or past its deadline
  main,       \* Doctor: ready, running, reported or failed
  turn,       \* the position in request of the provider under diagnosis
  pc,         \* where the diagnosis is
  found,      \* what was found installed
  rung,       \* the rung the walk is waiting on
  sources,    \* the source reports of this diagnosis so far
  nextSteps,  \* and its remedies
  call,       \* the goroutine the walk is waiting for
  report      \* the diagnoses made, by position in request

options   == <<request, policy>>
walk      == <<found, rung, sources, nextSteps>>
vars      == <<options, ctx, main, turn, pc, walk, call, report>>

-----------------------------------------------------------------------------
Wanted == {request[i] : i \in DOMAIN request}

\* The positions the doctor keeps when it drops repeated providers.
FirstMentions == {i \in DOMAIN request : \A k \in DOMAIN request :
                    request[k] = request[i] => i <= k}

provider == request[turn]
ladder   == Declared[provider]

Detection == [installed : BOOLEAN, version : Versions]
Absent    == [installed |-> FALSE, version |-> "absent"]

ASSUME DoctorAssumption ==
  /\ Declared \in [Providers -> Seq(Source)]
  /\ Watched \in Providers
  /\ Interruptions \subseteq {"canceled", "deadline"}
  /\ Detections \subseteq Detection
  /\ FetchErrors \subseteq Reasons \cup {""}
  /\ \A r \in Requests : DOMAIN r \subseteq Nat \ {0}

\* An answer remembers which end of a context made the source give up.
Cuts    == {"none", "deadline", "run"}
Answers == [kind : {"yes", "no", "error", "report"}, reason : Reasons \cup {""}, cut : Cuts]
Answer(kind, reason, cut) == [kind |-> kind, reason |-> reason, cut |-> cut]
NoAnswer == Answer("no", "", "none")

Call == [state : {"none", "running", "answered"}, answer : Answers, ctx : {"live", "expired"}]
UnusedCall == [state |-> "none",    answer |-> NoAnswer, ctx |-> "live"]
NewCall    == [state |-> "running", answer |-> NoAnswer, ctx |-> "live"]

\* A source report: the cut of the answer it rests on is history.
SourceReport == [rung : Nat, status : Statuses, reason : Reasons \cup {""}, cut : Cuts]

Remedies == {"authenticate", "install", "update", "check network", "check service", "wait"}

\* What the doctor advises; nothing against output that does not parse.
remediationFor(p, reason) ==
  CASE reason \in {"not_authenticated", "credential_expired"} -> "authenticate"
    [] reason = "not_installed"       -> "install"
    [] reason = "unsupported_version" -> "update"
    [] reason = "timeout"             -> "check network"
    [] reason = "upstream_error"      -> "check service"
    [] reason = "not_supported" /\ p = "antigravity" -> "wait"
    [] OTHER                          -> ""

Verdicts == {"not_installed", "verified", "newer", "older", "unknown"}

\* Mutant: a version nobody could read is judged too.
JudgeAll(p, det) ==
  IF det.installed THEN IF p \in Ranged THEN det.version ELSE "verified"
  ELSE "not_installed"

\* The verdict on what was found; a CLI nothing is known of counts as verified.
CompatVerdict(p, det) ==
  IF ~ det.installed THEN "not_installed"
  ELSE IF p \notin Ranged \/ det.version = "absent" THEN "verified"
  ELSE IF det.version = "unchecked" THEN "unknown"
  ELSE det.version

Diagnosis == [provider : Providers, verdict : Verdicts, sources : Seq(SourceReport),
              nextSteps : Seq(Remedies), whole : BOOLEAN]

Init ==
  /\ request \in Requests
  /\ policy \in Policies
  /\ ctx = "live"
  /\ main = "ready"
  /\ turn = 0
  /\ pc = "idle"
  /\ found = Absent
  /\ rung = 0
  /\ sources = <<>>
  /\ nextSteps = <<>>
  /\ call = UnusedCall
  /\ report = <<>>

(* The caller cancels the run, or its overall deadline passes.             *)
Interrupt ==
  /\ ctx = "live"
  /\ ctx' \in Interruptions
  /\ UNCHANGED <<options, main, turn, pc, walk, call, report>>

Start ==
  /\ main = "ready"
  /\ IF ctx # "live" \/ ~ Wanted \subseteq Providers
     THEN main' = "failed" /\ UNCHANGED pc
     ELSE main' = "running" /\ pc' = "choose"
  /\ UNCHANGED <<options, ctx, turn, walk, call, report>>

-----------------------------------------------------------------------------
(* The loop over the providers.                                            *)

Waiting == FirstMentions \ DOMAIN report

Choose ==
  /\ pc = "choose"
  /\ Waiting # {}
  /\ IF ctx # "live"
     THEN main' = "failed" /\ pc' = "idle" /\ UNCHANGED <<turn, walk>>
     ELSE /\ turn' \in Waiting
          /\ \A i \in Waiting : turn' <= i
          /\ pc' = "enter"
          /\ found' = Absent /\ rung' = 0 /\ sources' = <<>> /\ nextSteps' = <<>>
          /\ UNCHANGED main
  /\ UNCHANGED <<options, ctx, call, report>>

Finish ==
  /\ pc = "choose"
  /\ Waiting = {}
  /\ main' = "reported"
  /\ pc' = "idle"
  /\ UNCHANGED <<options, ctx, turn, walk, call, report>>

\* Mutant: the context is not looked at after a diagnosis.
Lenient == TRUE

\* Whether the run still wants the diagnosis just made.
StillWanted == ctx = "live"

(* A diagnosis goes into the report unless the context ended meanwhile.    *)
Conclude(whole) ==
  /\ IF StillWanted
     THEN /\ report' = [i \in DOMAIN report \cup {turn} |->
                          IF i # turn THEN report[i]
                          ELSE [provider  |-> provider,
                                verdict   |-> CompatVerdict(provider, found),
                                sources   |-> sources,
                                nextSteps |-> nextSteps,
                                whole     |-> whole]]
          /\ pc' = "choose" /\ UNCHANGED main
     ELSE main' = "failed" /\ pc' = "idle" /\ UNCHANGED report
  /\ UNCHANGED <<options, ctx, turn, walk, call>>

(* The walk came to its end, or was given up for the context's end.        *)
EndDiagnosis   == pc = "end" /\ Conclude(TRUE)
EndInterrupted == pc = "interrupted" /\ Conclude(FALSE)

-----------------------------------------------------------------------------
(* The diagnosis of one provider.                                          *)

Enter ==
  /\ pc = "enter"
  /\ pc' = IF ctx # "live" THEN "interrupted" ELSE "detect"
  /\ UNCHANGED <<options, ctx, main, turn, walk, call, report>>

(* Detect found the CLI, or the doctor looked for its binary and asked it  *)
(* for its version, or neither found anything, whatever else Detect said.  *)
DetectReturns ==
  /\ pc = "detect"
  /\ \E det \in Detections : found' = IF det.installed THEN det ELSE Absent
  /\ pc' = "ladder"
  /\ UNCHANGED <<options, ctx, main, turn, rung, sources, nextSteps, call, report>>

Untried == DOMAIN ladder \ {sources[i].rung : i \in DOMAIN sources}

\* Mutant: the rungs are tried as the adapter lists them.
NextListed(j) ==
  /\ j \in Untried
  /\ \A k \in Untried : j <= k

NextRung(j) ==
  /\ j \in Untried
  /\ \A k \in Untried : WalksBefore(ladder, j, k)

higherTierSucceeded == \E i \in DOMAIN sources : sources[i].status = "success"

Advised == {nextSteps[i] : i \in DOMAIN nextSteps}

\* Whether a remedy is worth listing.
IsNew(step) == step # "" /\ step \notin Advised

Listed(j, status, reason, cut) ==
  Append(sources, [rung |-> j, status |-> status, reason |-> reason, cut |-> cut])

(* A rung that ended one way or another is listed, and its remedy with it. *)
List(j, status, reason, cut) ==
  /\ sources' = Listed(j, status, reason, cut)
  /\ LET step == IF reason = "" THEN "" ELSE remediationFor(provider, reason)
     IN  nextSteps' = IF IsNew(step) THEN Append(nextSteps, step) ELSE nextSteps
  /\ pc' = "ladder"
  /\ UNCHANGED <<options, ctx, main, turn, found, report>>

AbandonWalk ==
  /\ pc = "ladder"
  /\ Untried # {}
  /\ ctx # "live"
  /\ pc' = "interrupted"
  /\ UNCHANGED <<options, ctx, main, turn, walk, call, report>>

\* Mutant: the walk goes on trying once a rung has worked.
TriesOn(j) == ~ Allows(policy, ladder[j])

\* The rungs the doctor lists and does not try.
Skips(j) == higherTierSucceeded \/ ~ Allows(policy, ladder[j])

SkipRung ==
  /\ pc = "ladder"
  /\ ctx = "live"
  /\ \E j \in DOMAIN ladder : NextRung(j) /\ Skips(j) /\ List(j, "skipped", "", "none")
  /\ UNCHANGED <<rung, call>>

ProbeRung ==
  /\ pc = "ladder"
  /\ ctx = "live"
  /\ \E j \in DOMAIN ladder : NextRung(j) /\ ~ Skips(j) /\ rung' = j
  /\ call' = NewCall
  /\ pc' = "available"
  /\ UNCHANGED <<options, ctx, main, turn, found, sources, nextSteps, report>>

Answered(kind) == call.state = "answered" /\ call.answer.kind = kind

FetchBegins ==
  /\ pc = "available"
  /\ Answered("yes")
  /\ call' = NewCall
  /\ pc' = "fetch"
  /\ UNCHANGED <<options, ctx, main, turn, walk, report>>

NotAvailable ==
  /\ pc = "available"
  /\ Answered("no")
  /\ List(rung, "unavailable",
          IF found.installed THEN "not_authenticated" ELSE "not_installed",
          call.answer.cut)
  /\ call' = UnusedCall
  /\ UNCHANGED rung

FetchFails ==
  /\ pc = "fetch"
  /\ Answered("error")
  /\ List(rung, "error", ReasonOrUpstream(call.answer.reason), call.answer.cut)
  /\ call' = UnusedCall
  /\ UNCHANGED rung

FetchSucceeds ==
  /\ pc = "fetch"
  /\ Answered("report")
  /\ List(rung, "success", "", "none")
  /\ call' = UnusedCall
  /\ UNCHANGED rung

\* Mutant: a rung's context is not derived from the run's.
TimerDone == call.ctx = "expired"

CtxDone == ctx # "live" \/ call.ctx = "expired"

(* The select took the context's branch: the rung timed out, or the run    *)
(* ended.                                                                  *)
RungTimesOut ==
  /\ pc \in {"available", "fetch"}
  /\ CtxDone
  /\ IF ctx # "live"
     THEN /\ pc' = "interrupted"
          /\ UNCHANGED <<options, ctx, main, turn, found, sources, nextSteps, report>>
     ELSE List(rung, "timeout", "timeout", "none")
  /\ call' = UnusedCall
  /\ UNCHANGED rung

EndWalk ==
  /\ pc = "ladder"
  /\ Untried = {}
  /\ pc' = "end"
  /\ UNCHANGED <<options, ctx, main, turn, walk, call, report>>

-----------------------------------------------------------------------------
(* The goroutine that runs Available or Fetch, and its timer.              *)

Say(a) ==
  /\ call.state = "running"
  /\ call' = [call EXCEPT !.state = "answered", !.answer = a]
  /\ UNCHANGED <<options, ctx, main, turn, pc, walk, report>>

SourceAnswers ==
  \/ pc = "available" /\ \E kind \in {"yes", "no"} : Say(Answer(kind, "", "none"))
  \/ pc = "fetch" /\ Say(Answer("report", "", "none"))
  \/ pc = "fetch" /\ \E reason \in FetchErrors : Say(Answer("error", reason, "none"))

(* The source notices the end of its context and gives up.                 *)
GiveUp ==
  /\ CtxDone
  /\ LET cut == IF call.ctx = "expired" THEN "deadline" ELSE "run"
     IN  IF pc = "fetch"
         THEN Say(Answer("error", IF cut = "deadline" \/ ctx = "deadline" THEN "timeout" ELSE "",
                         cut))
         ELSE Say(Answer("no", "", cut))

(* The per-source timeout passes.                                          *)
Expire ==
  /\ ctx = "live"
  /\ pc \in {"available", "fetch"}
  /\ call.ctx = "live"
  /\ call' = [call EXCEPT !.ctx = "expired"]
  /\ UNCHANGED <<options, ctx, main, turn, pc, walk, report>>

-----------------------------------------------------------------------------
DoctorStep ==
  \/ Start \/ Choose \/ Finish \/ EndDiagnosis \/ EndInterrupted
  \/ Enter \/ AbandonWalk \/ SkipRung \/ ProbeRung
  \/ FetchBegins \/ NotAvailable \/ FetchFails \/ FetchSucceeds \/ RungTimesOut
  \/ EndWalk

Next ==
  \/ Interrupt \/ DoctorStep \/ DetectReturns
  \/ SourceAnswers \/ GiveUp \/ Expire

Spec == Init /\ [][Next]_vars

(* The doctor is scheduled and timers fire.  Detection runs commands that  *)
(* are only known to end with the run's context.                           *)
FairSpec ==
  /\ Spec
  /\ WF_vars(DoctorStep)
  /\ WF_vars(ctx # "live" /\ DetectReturns)
  /\ WF_vars(Expire)

-----------------------------------------------------------------------------
(* Properties.                                                             *)

\* Every variable holds a value of its kind.
TypeOK ==
  /\ request \in Requests /\ policy \in Policies
  /\ ctx \in {"live", "canceled", "deadline"}
  /\ main \in {"ready", "running", "reported", "failed"}
  /\ turn \in Nat
  /\ pc \in {"idle", "choose", "enter", "detect", "ladder", "available", "fetch",
             "end", "interrupted"}
  /\ found \in Detection
  /\ rung \in Nat
  /\ sources \in Seq(SourceReport)
  /\ nextSteps \in Seq(Remedies)
  /\ call \in Call
  /\ \A i \in DOMAIN report : report[i] \in Diagnosis

\* A published report has a diagnosis of each requested provider at its first
\* mention, and each lists every rung of that provider's ladder: nothing of what
\* diagnoseProvider returns half done, for the context ended, comes out.
DiagnosisIsComplete ==
  main = "reported" =>
    /\ DOMAIN report = FirstMentions
    /\ \A i \in FirstMentions :
         LET d == report[i]
         IN  /\ d.provider = request[i]
             /\ d.whole
             /\ {d.sources[k].rung : k \in DOMAIN d.sources} = DOMAIN Declared[d.provider]
             /\ Len(d.sources) = Len(Declared[d.provider])

\* Nor does a published diagnosis count a rung as failed because the run's own
\* context had ended.
NothingFromInterruption ==
  main = "reported" =>
    \A i \in DOMAIN report : \A k \in DOMAIN report[i].sources :
      report[i].sources[k].cut # "run"

\* The first rung that works is the only one that is said to, and the last one
\* that is contacted: the rest are listed as skipped.
FirstSuccessIsLast ==
  \A i \in DOMAIN sources : sources[i].status = "success" =>
    /\ pc \notin {"available", "fetch"}
    /\ \A k \in i + 1 .. Len(sources) : sources[k].status = "skipped"

\* The advice is what the failures call for, each piece of it once, and every
\* failure that something can be done about has its piece.
AdviceFits ==
  /\ \A i, k \in DOMAIN nextSteps : nextSteps[i] = nextSteps[k] => i = k
  /\ Advised = {remediationFor(provider, sources[i].reason) :
                  i \in {k \in DOMAIN sources : sources[k].reason # ""}} \ {""}

\* What the doctor has listed of the provider it is watched for.
Diagnosed ==
  LET at == {i \in FirstMentions : request[i] = Watched}
  IN  IF turn \in at \ DOMAIN report THEN sources
      ELSE IF at \cap DOMAIN report # {} THEN report[CHOOSE i \in at : TRUE].sources
      ELSE <<>>

\* The rungs of it that failed before any worked.
Failures == {k \in DOMAIN Diagnosed : \A i \in 1 .. k : Diagnosed[i].status # "success"}

\* That walk as LadderWalk has it, on which no rung works.
Walk == INSTANCE LadderWalk WITH
  Ladders  <- {Declared[p] : p \in Providers},
  sources  <- Declared[Watched],
  attempts <- [k \in Failures |->
                 [rung   |-> Diagnosed[k].rung,
                  status |-> Diagnosed[k].status,
                  reason |-> IF Diagnosed[k].status = "error" THEN Diagnosed[k].reason
                             ELSE ""]]

\* The doctor's loop walks a ladder as the resolver's does: in the same order, by
\* the same policy and past the same failures, each told by the same name.
WalksAsResolver == Walk!Spec

\* A run ends when its context does, and without that as long as nothing hangs
\* that detection runs, even when a source never answers.
DoctorReturns ==
  (([]<>(pc # "detect")) \/ <>(ctx # "live")) =>
    <>(main \in {"reported", "failed"})
=============================================================================

# A verification project for dipstick

dipstick collects usage figures and rate limits of AI coding agents from whatever their CLIs leave
lying about: APIs, local state, local RPC servers, transcripts. Little of that is guaranteed by
anyone, so the program's worth lies in what it does when a source is slow, silent, wrong or of a
version nobody has seen. These TLA+ modules model that part: TLC checks them on small instances, and
TLAPS proves the most important results for every instance.

Run a model with `tlc -config X.cfg M`, check a proof with `tlapm M.tla`. `PROJECT.json` lists the
runs, what each of them checks, the source lines behind every definition, the hazards the properties
are for, and the theorems. A definition preceded by a comment that begins with "Mutant:" is a
plausible bug, kept to show that a property can fail; no specification uses it.

## 1. The system

| component | state | operations | interacts with |
| --- | --- | --- | --- |
| Collect, options, registry (`dipstick.go`) | the options of a run | refuse bad options and unknown providers, drop repeats, set the deadline | calls Resolver |
| Resolver (`resolver.go`) | the run's context, a worker per provider, the results channel, the report | Resolve; a worker's Detect, gate, walk, Available, Fetch; sum up; publish | calls adapters and sources, each in a goroutine of its own |
| Policies and tiers (`internal/types/adapter.go`) | none | Allows | asked by Resolver and Doctor for each rung |
| Errors and reasons (`internal/types/errors.go`) | none | ReasonForError, Retryable | used by Resolver and Doctor |
| Report types, schema (`internal/types/types.go`, `schema/`) | none | marshal | what Resolver publishes |
| Version cache (`cliexec.go` 480-590) | items, calls in flight, one lock | Probe, Get, Set, Clear | called by each Detect; runs a command |
| Command runner (`cliexec.go` 240-478) | a child process and its buffers | Run | called by the cache |
| codex app_server (`codex/appserver.go`, `codex.go` 154-344) | a child process, two pipes, a numbered conversation | Fetch: four calls, Close | a source of Resolver |
| codex local_state, jwt (`codex/codex.go`) | none; reads auth.json and a database of Codex's | Detect, Available, Fetch | a source |
| claude oauth_api (`claude/oauth_api.go`) | none; reads a keychain and a file | Detect, Available, Fetch: one request to the vendor | a source |
| claude transcripts (`claude/transcript.go`) | the keys of the turns counted, during one scan | Fetch: walk the session files | a source |
| opencode (`opencode/*.go`, `opencode_adapter.go`) | none; reads a table by file, local server or CLI | Detect; Available and Fetch of three sources | three sources |
| antigravity | none | no source | an empty ladder |
| Local state (`internal/localstate`) | config dirs, keychain | read credentials by precedence, tell their expiry | used by adapters and Doctor |
| Compat (`internal/compat`) | none | Extract, parse a range, order versions, Check | used by Resolver, Doctor, canary |
| Doctor (`doctor.go`) | a report | diagnose each provider in turn | walks the same ladders |
| CLI (`cmd/dipstick`) | none | flags, exit code, layout | calls Collect and Doctor |
| Canary (`internal/tools/canary`, `.github/workflows/canary.yml`) | an issue; a machine per run | install, probe, open or close the issue | uses Compat; GitHub starts and cancels runs |
| Capture, scrub, genmatrix | fixture files | write, mask, render | maintainers' tools |

What is hard here, and what makes each part correct:

- *Resolver.* Workers run at once and finish in any order. Each waits for a source in a select with two
  ready branches at times: the answer and a deadline. A worker that gives up leaves its goroutine
  behind. The run's own context may end anywhere in between, and sources then fail for that reason
  alone. Correct means: a report complete and in the caller's order, no verdict that stems from the
  interruption, the best rung that works and nothing asked below it, nothing asked outside the
  policy, no data of an unverified version passed off as trusted, and a run that ends.
- *The verdict on a failed ladder.* Many failures, one reason, one source to blame. Correct means: the
  most telling reason, never a hopeful "retry" over a failure that no retry cures.
- *Version cache.* The lock is not held while the command runs; Clear and a stranger's deferred delete
  interfere. Correct means: one command at a time, one answer, nobody left waiting.
- *codex app_server.* Replies come over one pipe, late or between other lines, from a process that may
  ignore everything. Correct means: each reply goes to its own request, the process is gone at the
  end, and a shortage of time is called that.
- *Doctor* has a copy of the resolver's loop; the two should agree. Correct also means: no half diagnosis
  published, nothing contacted below the first rung that works, one remedy for each failure.
- *Credentials.* Two stores, read one after the other while a login rewrites them; an expiry in any of three
  fields and two units. Correct means: a store that cannot be used does not hide one that can, no expired
  token is sent, and what Detect and Available said is kept to while nothing changes.
- *The tables of codex and OpenCode.* One sum read in three ways while it grows. Correct means: each figure
  was true at some instant of the call, in whatever form a server wrote it.
- *Transcripts.* Files that grow while they are read, one turn on several lines and in several files, lines
  half written or too long. Correct means: each turn is counted once, and none that was there is missed.
- *Compat.* An order on versions with pre-releases of any length, and a grammar of ranges with wildcards.
  Correct means: it is an order, and the verdict on a CLI follows it.
- *Canary.* Runs on several refs, cancelled at any step, share one issue, and commands of theirs fail.
  Correct means: the issue is closed for cause only, and comes to tell the truth.

## 2. Modules

| module | models | proofs |
| --- | --- | --- |
| `Ladder` | tiers, policies, the order of a walk, reasons, the verdict on attempts, whom to blame: constant operators | lemmas in `LadderWalkProofs` |
| `LadderWalk` | the loop of `resolveAdapter` for one provider with any endings of its rungs | `LadderWalkProofs` |
| `Resolver` | a whole run: Collect's request, Resolve, workers, the goroutines of Available and Fetch, deadlines, the report | `ResolverProofs` |
| `Collection` | the abstract promise of a run to its caller | |
| `VersionCache` | Probe, Set and Clear on one binary's entry | `VersionCacheProofs` |
| `AppServer` | one Fetch of codex app_server with its child process and pipes | `AppServerProofs` |
| `SourceCall` | the abstract contract of one call of a source's Fetch | |
| `Doctor` | a run of the doctor: Doctor and diagnoseProvider, their goroutines and deadlines | `DoctorProofs` |
| `Credentials` | the expiry of a credential and the verdict on it, for claude and codex: constant operators | lemmas in `SourcesProofs` |
| `FetchCall` | the frame of one source's calls: Detect, Available, Fetch, the clock, the context | |
| `OAuthSource` | claude's oauth_api: keychain, file, request, answer | |
| `LocalSources` | codex's local_state and OpenCode's three ways to one table | |
| `Sources` | any one of these, with the properties and the contract | `SourcesProofs` |
| `Transcripts` | a scan of claude's session files | `TranscriptsProofs` |
| `Compat` | versions, ranges, verdicts: constant operators | lemmas and a theorem in `CanaryProofs` |
| `Canary` | the workflow, its runs and its issue, with what the probes make of a release | `CanaryProofs` |
| `MCLadderWalk`, `MCResolver`, `MCDoctor`, `MCSources`, `MCTranscripts`, `MCCanary` | the small instances | |

`Resolver`, `LadderWalk` and `Doctor` extend `Ladder`; `Resolver` implements `Collection` (`KeepsPromise`).
`AppServer`, `Sources` and `Transcripts`, that is, every source there is, implement `SourceCall`
(`KeepsContract`), which is what `Resolver`'s fairness takes for granted of a cooperative source: it answers
with a report or a reason, calls a shortage of time a timeout, and ends once its context has ended.
`Sources` extends `OAuthSource` and `LocalSources`, which share `FetchCall` and `Credentials`; `Canary`
extends `Compat`. `Doctor`'s walk of one ladder implements `LadderWalk` (`WalksAsResolver`). `VersionCache`
stands behind `DetectReturns`, through the runner.

**Resolver.** `request` is the caller's list, `main` where Resolve is, `pc[p]` where p's worker is, `rung[p]`
the rung its select waits on, `attempts[p]` the attempts slice. `calls[<<p, j, s>>]` is the goroutine of
stage s (Available or Fetch) on rung j of p: not started, running or answered, with the buffered answer
and the state of its own context (live, past its deadline, cancelled by the worker). An answer carries a
history field, `cut`, that says which end of a context made the source give up. Steps of a worker are what
lies between two points where it can be interrupted or observed: `ReceiveAvailable` and `AvailableTimesOut`
are the two branches of the first select, `FetchSucceeds`, `FetchFails` and `FetchTimesOut` those of the
second. The report's two lists are modelled as one function over the positions the request's providers
first stand at: an entry is a provider's report or its error, and each list is the restriction to its kind.

**LadderWalk.** The same walk with its goroutines abstracted: a rung ends in any way it may. It can afford
all the built-in ladders and every policy, where `Resolver` affords few.

**VersionCache.** One prober is one call of Probe. `cached` and `current` are the binary's entries of the two
maps; a call in flight bears its leader's name, and `closed` says whose `done` channel is closed. `disk` is
the version the command would print, which an upgrade changes.

**AppServer.** `request` is the number of the current call, `stdout` the lines on the way, `result[r]` how call
r ended. `Cut` is the context's branch of either select in `call`; it closes the client and the transport,
so that it waits for the process (`CutEnds`). `Kill` is the half second of patience in Close. The goroutine
that a cut leaves in Write or Read ends with the pipes, which Close closes first.

**Doctor.** `turn` is the position of the provider under diagnosis, `sources` and `nextSteps` the lists
diagnoseProvider builds, `call` the goroutine its select waits for; one that it gave up can reach nothing any
more and is dropped. `report` is a function of positions. The field `whole` of a diagnosis is history: what
diagnoseProvider returns once it has found the context ended is a bare report with the provider's name, and
the model publishes it marked as such if nothing stops it. `Walk` maps the sources listed so far, up to the
first that works, to `LadderWalk`'s attempts for the provider `Watched`. Two differences from the resolver are
by design of the code and so of the model: the doctor contacts the sources of a CLI older than the verified
range, and it does not look into what a Fetch returned, so that a report for which the resolver would
suspect drift, or none at all, is a success.

**Credentials, FetchCall.** An instant is a number of seconds; a field of a credential is missing, a number, a
date or unreadable. `until` is the expiry the issuer meant, which no code reads: the properties hold the
code's guess against it. `phase` and `pc` say which call is in progress and where it is; `steady` is history: the
phases since whose beginning nothing has changed. `own` is the time `http.Client` gives a request.

**OAuthSource.** `keychain` and `credFile` are the stores, which the vendor's tools rewrite between any two steps;
`held` is the verdict on the keychain's item while the file is read. `ReadKeychain`, `KeychainFails` and `ReadFile`
serve all three calls, as `ReadClaudeCredentials` does in the code. A body is a set of entries, read one by one in
`ReadEntry`: box after box, and within a box in whatever order a map gives. `found` is the code's
`discoveredWindows`, in which a later window of a label replaces an earlier one; `ListWindows` sorts it.

**LocalSources.** `spent` is the table, a count for each session and counter, which grows; the local server lists a
session flat, nested or both (`Forms`), and `extractTokens` undoes that. `floor` is history: the sum when Fetch began.

**Transcripts.** `files` are sequences of lines, the last of which may be half written. Sizes are counted in half
buffers: `ReadPrefix` is ReadLine with a full buffer and no end of line, `ReadRest` the one that ends it.
`seen` and `total` are the code's, `counted` is history: which lines were counted.

**Compat.** A version is three numbers and a sequence of identifiers, a range is what the tokenizer makes of its
text. Below the operators of the code are the sets of values they take, which the proofs need.

**Canary.** `published` is what npm would install; `run[r]` the run on ref r, which a new one on that ref cancels at
any step (the workflow's concurrency group); `open` the open issues, the newest first. `Install`, `Probe`, `Find`,
`EditIssue`, `CreateIssue`, `CommentIssue` and `CloseIssue` are the commands at which a run may be cut short or meet
another; `ProbeFails`, `ProbePanics` and `GhFails` are what goes wrong in them. `Sound` says which releases match
what the adapters rely on, which the canary can only infer from its probes.

## 3. The runs

| run | instance | shows |
| --- | --- | --- |
| `resolver_safety` | two providers, codex with one source and an adapter with two listed out of order; a request with a repeat and one with an unknown name; two policies, both modes, any version; deadline | everything Resolver promises in safety, and `Collection` |
| `resolver_liveness` | a source that never heeds its context, one that does, a provider without sources; cancellation and deadline | runs return, abandoned goroutines end |
| `ladder_verdicts` | the four built-in ladders and one of four tiers listed backwards, twelve policies | reason and blame of an exhausted ladder |
| `version_cache` | three probes, one of them with a command that hangs; one upgrade, one Clear, one Set | single flight, agreement, no one left waiting |
| `app_server` | one Fetch, at most two unasked lines | replies, process, time, contract |
| `doctor` | an adapter with three sources listed out of order beside one with none; two with one source each; a request with an unknown name; two policies, any interruption | whole diagnoses, nothing contacted after a success, the walk against `LadderWalk`, return |
| `sources` | oauth_api with five items of the keychain, seven of the file and six bodies; codex with nine auth files; OpenCode with two sessions; clock 2 to 4, two changes | no expired token goes out, no usable one is hidden, promises are kept, each window is listed once, sums are true, contract |
| `transcripts` | two files of five contents, three lines to be written, one of them at most; a line of one full buffer at most; counting from always or from instant 2 | each turn once, none missed, contract |
| `canary` | two refs, three CLIs with two, three and one releases, seventeen ranges; one thing that goes wrong, one run by hand | verdicts ascend, the all clear is earned, the issue settles |
| `slow_check`, `clear_forgets`, `drift_is_told` | as small as the matter allows | disagreements of code and documents, below |

Bounds, and why they are enough. Workers meet only in the wait group, the results channel and the run's
context: two of them, of different length, give every order of arrival. A worker's goroutines meet only over
its own rungs: two rungs allow a late answer of the first during the second. `MaxUpgrades`, `MaxClears` and
`MaxSets` are one each: the hazard of Clear needs a leader before it, one after it and a third probe, which
is what three probers give. `MaxNoise` bounds the unasked lines; two put garbage before and after a late
reply. The doctor takes its providers one by one: two with sources show that nothing of one diagnosis
reaches the next, and three rungs have a success with rungs on both sides of it. The version is one of
absent, verified, newer, older and unparsable: `compat.Check` distinguishes no more. In `sources` a second
has ten milliseconds and numbers above ten are taken for those, so that both units occur within a clock of
three instants: before an expiry, at it, and after it. Two changes let a login follow a logout, or each
store change once. Two sessions and two of OpenCode's five counters, one of each nesting, give every way of
listing a counter twice. In `transcripts` two files hold one turn in both, in either order, with other
tokens; a buffer of two halves has a line shorter than it, one that fills it, one longer, and one much
longer. In `canary` one fault and one run by hand beside the daily ones put a failure or a cancellation
between any two steps; two refs make runs overlap, which those of one ref do not. The proofs have none of
these bounds.

Disagreements found while modelling (`findings` in PROJECT.json):

- An availability check that gives up by its own deadline may be recorded as unavailable and not as
  timeout, by the choice of the select; the ladder is then reported not_installed. A test expects timeout.
- A version read before a Clear is cached after it.
- What codex app-server writes and does not parse is reported as upstream_error, not as parse_failed.

Two more were met and have no run, since the models simply follow the code: the resolver walks codex's
app_server (tier 3) before its local_state (tier 2), both tiers having one rank, where the comment on the walk
and CONTRIBUTING.md say ascending tiers; and without WithTimeout a hanging `--version` hangs the run, Detect
being outside the per-source timeout (the hypothesis of `RunReturns`).

### Fairness

`Resolver`: goroutines are scheduled (weak fairness of each worker's steps, `Start` and `Publish`) and timers
fire (`Expire`). A source need not answer; one in `Cooperative` notices the end of its own context, as every
built-in source does. Detect runs a command to which no timeout is set, so it is only known to return
once the run's context has ended, for then the runner kills its process. `RunReturns` has the rest as
its hypothesis: the run ends if its context does, or if no Detect hangs. `VersionCache`: probers are
scheduled, but a command ends only in `Prompt` probers. `AppServer`: Fetch is scheduled, its own deadline and
Close's patience pass; nothing is asked of the server. Since the noise is bounded, no endless chatter of
the server can keep the select from its context's branch: Go's select picks at random among ready branches,
so the code needs no bound for that but chance. `Doctor`: as `Resolver`, with
one process; no source need ever answer, and detection is only known to end with the run's context, which
`DoctorReturns` has as its hypothesis. `Sources`: the
goroutine of the call is scheduled, and what it waits for (a request, a query, a command) ends with the context
it was given, or a request with its own time; nothing is asked of the servers, nor of a user in front of a
keychain's dialog. `Transcripts`: the scan is scheduled and waits for nobody; the bound on lines written keeps
its walk finite. `Canary`: a run that has begun goes on, to whatever its probes find, unless it is cancelled
(`Goes`), and the day's run comes (`Daily`). CHECK_DEADLOCK is off but in `canary`: each of the other models is of
one run, which ends.

## 4. The proofs

Every invariant a run checks is proved, one that no run checks (`AdviceFits`), and so are the two refinements without fairness (`KeepsPromise`,
`WalksAsResolver`). The theorems hold for every value of the constants that satisfies the modules' assumptions:

- `ProvidersAssumption`, `DoctorAssumption`, `LaddersAssumption`: ladders are sequences of sources, answers are of their
  kinds; any number of providers.
- `ProbersAssumption`: finitely many probers, which the counting of leaders needs. `NoOneAssumption`, `CanaryAssumption`
  (the CLIs probed are the three there are, each with a release).
- `UnitsAssumption`, `ClockAssumption`: numbers. `StoresAssumption`, `BodiesAssumption`, `SessionsAssumption`: the stores
  hold what `Credentials` knows, a body lists finitely many windows with labels the program has, a table is finite.
- `TranscriptAssumption`: before the scan only the last line of a file may be unfinished, and no line is younger than
  its file.

`AppServer` and `Compat` assume nothing. Four hypotheses are more than types and stand in the theorems that need them:
`ExpiriesAreTold` and `NamesTellTurns`, below, which TLC evaluates on the instances of the runs, and `ProbesTell` and
`ReleasesAscend` (`AllClear`, `Ascend`), which the instance of `canary` satisfies.

- `LadderWalkProofs`: first what `outcomeFromAttempts`, `MostInformative`, `lastAttemptedSource` and
  `sourceForReason` return for any attempts. They are not recursive (a choice by rank, a greatest position), so
  SMT can use them; the existence of a least and a greatest element is proved from finiteness once. Then
  `Informative`, `RetryHidesNothing`, `Blame`. The invariant is the type of `attempts` and that no attempt of an
  unfinished walk is a success; the rest follows from the lemmas. `ResolverProofs` cites the lemmas through an
  instance with an empty walk (`Decisions`), since the operators are the same.
- `ResolverProofs`, the run: `TypeCorrect`; `RunInvariant`, which ties `arrived` to the workers that are done, each
  of them once, and an undecided outcome to an ended context. The last is why it is needed: a worker that
  returns nothing leaves a gap in the report, and only the context, ended for good, keeps that report
  from being published. `CompleteReport` and the refinement `RunKeepsPromise` follow.
- `ResolverProofs`, the walks: `WalksInvariant`. Each recorded attempt is backed by what the goroutine of its own
  rung answered for good or by a deadline that had passed (`Backed`); a rung not tried is unused, except the one
  the select waits on (`UntriedUnused`); what is recorded comes before what is not in the order of the walk
  (`InOrder`); and a goroutine that gave up with the run did so when the run had ended (`CallInv`). It is the second
  that makes the others inductive: late answers reach only goroutines of rungs already recorded, and a
  recorded answer does not change. `OwnAttempts`, `LocalStaysLocal`, `DriftIsMarked`, `FirstTier` and
  `NoInterruptedVerdict` follow, the last with the lemmas on the verdict.
- `DoctorProofs`: `DoctorInvariant`, whose parts say where the loop is, that the rungs listed are of this ladder, none
  twice and all at the end, that what was cut short was cut by a context that has ended, and that a
  diagnosis once in the report is whole. That each rung is listed exactly once needs counting: a list of a length,
  without repeats, of all of a finite set (`NamesEachOnce`). `ReportsAreComplete`, `InterruptionsStayOut`,
  `SuccessIsLast` and `AdviceIsFitting` follow. `WalksAlike` is the refinement of `LadderWalk`: while a diagnosis of
  `Watched` goes on, what it has listed up to the first success is the abstract walk, the next rung of the one is
  the next of the other (`NextInv`), and everything else stutters.
- `VersionCacheProofs`: `AtMostOneLeader` by an invariant that charges each leader but the registered one to a
  Clear: the number of leaders is at most the number of clears, plus one if a call is registered.
  `AnswersAgree` by the invariant that with no Clear and no Set all that was printed successfully is the
  one version that is cached, or that the only leader has in hand.
- `AppServerProofs`: `FetchInvariant`, `OwnReplies`, `NoLeak`, `TimeTold`. The invariant's heart is that every line
  on the pipe bears the number of the request it replies to, and that a call cut short by the deadline
  has already decided Fetch's answer.
- `SourcesProofs`: `CallsAreFramed` is the frame. `PromisesAreKept` rests on what a read of both stores would give
  now (`Found`), whatever has been read of them so far: as long as nothing has changed, that is what Detect and
  Available saw, so Fetch finds it too. `TokensAreLive`: the credential in hand between the verdict and the request is
  one of the stores' (`InHandInv`), and the expiry the code reads off it is the issuer's; `NoneIsHidden`: a store that
  has held a usable token all along holds one now, and the keychain is not one of those once its item has
  been passed over (`KeptInv`). Both suppose `ExpiriesAreTold`: an expiry stands in the first of the two fields that is
  there, or in the token if that field is silent, as a date or in a unit its size gives away (with the program's
  constants, one after March 1973), and a token without any outlives the call. `WindowsAreFaithful`: what has
  been read of a body is what comes first in some walk of its maps, with no bad reset in it, and what was found is
  one window of each label read, with none in a later box (`ParseInv`); sorting puts that in positions one-to-one
  with it (`SortedKeeps`). `TotalsAreTrue`: the tokens lie between the sums over the table at the start and now,
  since the table only grows and what the server listed was a state of it in between (`TokensInv`).
- `TranscriptsProofs`: files only grow (`NextGrows`), and a line that was whole stays what it was. `ScanInvariant`:
  what makes the line being read too long is its own size (`PlaceInv`), and the keys seen are those of the lines
  counted, one of each (`CountInv`). With `NamesTellTurns` (lines with the same session and name are of one turn,
  and a turn's lines have the same) keys are as good as turns. `NoneIsMissed` adds that of a file passed, or up to the
  place in the file being read, every line to be counted has been (`MissInv`), where a file skipped for its age
  has none; `TotalIsTold` that the total is the sum over the lines counted (`TotalInv`).
- Sums. `MapThenSumSet` is a choice of a function that is its own step, taking out any one element. That there
  is one, that its values are naturals and do not depend on the choice, that an element may be taken out in any
  order, and that more adds up to more, is proved from the smallest set of which it would fail (`SumsExist`,
  `SumsAgree`, `SumWithout`, `SumsAscend`): the library's induction theorems take an operator, which no installed
  prover can instantiate. `SourcesProofs` cites these lemmas through an instance (`Sums`).
- `AnswersAsPromised`, in `AppServerProofs`, `SourcesProofs` and `TranscriptsProofs`: `Spec => Contract!Safety`, the
  step by step part of `KeepsContract`. The source answers once at most, and with a timeout only when a time has
  run out. This is the part `Resolver`'s safety takes for granted of its sources.
- `CanaryProofs`, versions: `VerdictNeverGoesBack`. That identifiers are totally ordered is arithmetic; that
  sequences of them are rests on the least position where two differ (`PrereleasesDecided`, `BeforeTransitive`),
  and that `Compare` is an order on that. A bound moves one way along an order (`BoundsAscend`), and so does any
  set of bounds. A "!=" makes a hole, before and after which the verdict is in_range, and the theorem excludes it.
- `CanaryProofs`, the workflow: `Ascend` carries this to every range that parses, in each of its forms (`TokenBounds`,
  `RangeBounds`), and to a run in which releases come out in ascending order (`ReleasesAscend`).
  `AllClear`: a run that has not seen drift has found every CLI it has probed absent or passing, and one
  that manages the issue has probed them all (`RunOK`). Its hypothesis `ProbesTell` is that what passes the
  probes is sound; the theorem says that cancellations, simulated drift, failures and overlapping runs add
  no false all clear to what the probes themselves would give.

Only model-checked: all liveness (`RunReturns`, `AbandonedSourcesEnd`, `EveryProbeReturns`, `DoctorReturns`,
`IssueSettles`) and the fairness part of `KeepsContract`, that a call comes to its end: liveness and ENABLED are
beyond TLAPS.

## 5. What the models leave out

*Resolver, VersionCache, AppServer, Doctor.* Panics in a source, a nil adapter or source (both skipped by the
code); the usage figures in a report, which no step of the resolver branches on; wording, durations and time
stamps, masking. A policy's name is the policy; an error is the reason `ReasonForError` finds in it. Resolve
called directly with a provider twice (Collect drops repeats first). In `VersionCache` the other binaries'
entries, and a binary that cannot be found, which returns before any state is touched. In `Doctor` what it
reports of config directories and credentials, refused options, and the layout of its text. In `AppServer` a
server that closes a pipe and lives on, and one that sends requests of its own, numbered like the client's. A
command that neither the end of its context nor a kill ends.

*Sources.* The resolution of directories from the environment, the claims of a token, three of OpenCode's five
counters, sessions deleted from its table. Status 500 stands for all but 200 and 401. Writes and the clock
stop counting after a call's last read. What the models show of the code, and no property calls an error: a
keychain that is denied or not answered within five seconds is taken for one without the item, and the answer
may then be not_authenticated; an item that is no more than a refresh token is valid and hides a file with an
access token (`NoUsableCredentialHidden` says so); a credential whose expiry cannot be read never expires; a
request to OpenCode's server that fails is an upstream error also when its time ran out; codex's Available says
it checks whether auth.json "is readable" and only looks whether it is there, which is all the model has it
promise; of two keys of one box that mean one window, chance decides which is reported.

*Transcripts.* The scan's statistics. Directories and files that are no session files are left out, but the context
may cut the scan at them (`CutShort`). Of two lines of one turn the first met decides its tokens. A turn without
any name is known by its time or its tokens, so that two may be taken for one and, after a fallback to the
file's path as the session, one for two: `Named` excludes these. A file that becomes unreadable half-way stays
counted so far, and an unfinished last line that fills its buffer exactly is lost until it is finished;
`NothingIsMissed` excludes both, since it speaks of readable files and of lines whole when the scan began.

*Compat, Canary.* Characters and the tokenizer's own errors. What the model shows of the code: `<0.150.0` admits
0.150.0-alpha.1; an x alone contains no version; "next" in a pre-release is taken for a wildcard. A wildcard with
a pre-release of its own ("1.x-beta") is an error in a lower bound and, where no other wildcard stands before it,
in an upper one (`LowerParses`, `UpperParses`); `MCCanary` holds that Check refuses such ranges (`RefusedAssumption`).
After fewer than three parts the theorems speak of one identifier at most, since the wildcard parser takes what
follows its first dot for another part (`PlainTokens`).
A CLI that is not installed is skipped, so that a failed install may help to close an issue, which is why
`AllClearIsEarned` speaks of the CLIs on the machine. A listing of the issues that fails stands before a pipe
and looks like no issue, so that a second one is opened, though the workflow's comment says "a single dedicated
GitHub issue"; it is closed by later runs (`IssueSettles`). codex's schema probe dereferences no result when the
binary has vanished (`ProbePanics`). A report edited into an issue a maintainer has just closed is told again by
the next run only. The wording of the report and Antigravity, which is never probed for drift, are left out.

*Not modelled.* The command runner's own state is a child process, which the operating system's kill ends, and two
capped buffers; its outcomes appear in the models that run a command. The command line is flags and layout
around one Collect or one Doctor. Capture and the matrix generator are sequential programs that write files for
review. Scrub is regular expressions over text, of which TLC could enumerate nothing useful.

## 6. Plan

Done: all modules of section 2, their runs, and a proof of every invariant the runs check. Next, in this order:

1. The action properties that are left: what a step of `Canary` may never do to an issue, and that a worker's record
   only grows.
2. `CommandRun`: Runner.Run below `VersionCache`: start, the kill and the wait delay, capped output; the promise
   `VersionCache` and Detect rely on as an abstract module.

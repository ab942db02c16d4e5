---------------------------- MODULE VersionCache ----------------------------
(***************************************************************************)
(* The cache in front of `<cli> --version`: a map of versions and a map of *)
(* calls in flight, both behind one lock that is not held while the        *)
(* command runs.  This is one binary's entry of the two maps; the entries  *)
(* of other binaries share nothing with it but Clear.  A prober is one     *)
(* call of Probe; the call it leads, if it leads one, bears its name.      *)
(***************************************************************************)
EXTENDS Integers, FiniteSets

CONSTANTS
  Probers,      \* the calls of Probe
  Prompt,       \* those whose command, if they run it, comes to an end
  MaxUpgrades, MaxClears, MaxSets   \* bounds on what happens around them

ASSUME ProbersAssumption == IsFiniteSet(Probers) /\ Prompt \subseteq Probers

NoOne     == "no one"
Nothing   == 0    \* no entry in items; the zero value of a call's val
Failed    == -1   \* an error of the command
Cancelled == -2   \* the prober's own context error

ASSUME NoOneAssumption == NoOne \notin Probers

VARIABLES
  disk,        \* the version the binary on disk would print
  clears, sets,  \* how often Clear and Set were called
  cached,      \* items: the cached version, or Nothing
  readAt,      \* history: how many clears preceded the reading of cached
  current,     \* calls: the leader of the registered call, or NoOne
  pc,          \* where each prober is in Probe
  follows,     \* the leader whose call a prober waits on
  printed,     \* what each leader's command came to: a version or Failed
  printedAt,   \* history: how many clears preceded it
  closed,      \* the leaders whose call is finished, done closed
  answer       \* what each prober returned

store   == <<cached, readAt, current>>
probing == <<pc, follows, printed, printedAt, closed, answer>>
vars    == <<disk, clears, sets, store, probing>>

Init ==
  /\ disk = 1 /\ clears = 0 /\ sets = 0
  /\ cached = Nothing /\ readAt = 0 /\ current = NoOne
  /\ pc = [p \in Probers |-> "idle"]
  /\ follows = [p \in Probers |-> NoOne]
  /\ printed = [p \in Probers |-> Nothing]
  /\ printedAt = [p \in Probers |-> 0]
  /\ closed = {}
  /\ answer = [p \in Probers |-> Nothing]

Goto(p, label) == pc' = [pc EXCEPT ![p] = label]

Return(p, v) ==
  /\ answer' = [answer EXCEPT ![p] = v]
  /\ Goto(p, "returned")

-----------------------------------------------------------------------------
(* What goes on around the probers.                                        *)

(* The user upgrades the CLI while the process lives on.                   *)
Upgrade ==
  /\ disk <= MaxUpgrades
  /\ disk' = disk + 1
  /\ UNCHANGED <<clears, sets, store, probing>>

Clear ==
  /\ clears < MaxClears
  /\ clears' = clears + 1
  /\ cached' = Nothing
  /\ current' = NoOne
  /\ UNCHANGED <<disk, sets, readAt, probing>>

Set ==
  /\ sets < MaxSets
  /\ sets' = sets + 1
  /\ \E v \in 1 .. disk : cached' = v
  /\ readAt' = clears
  /\ UNCHANGED <<disk, clears, current, probing>>

-----------------------------------------------------------------------------
(* Probe.                                                                  *)

Begin(p) ==
  /\ pc[p] = "idle"
  /\ Goto(p, "fast")
  /\ UNCHANGED <<disk, clears, sets, store, follows, printed, printedAt,
                 closed, answer>>

(* The look under the read lock.                                           *)
FastPath(p) ==
  /\ pc[p] = "fast"
  /\ IF cached # Nothing
     THEN Return(p, cached)
     ELSE Goto(p, "slow") /\ UNCHANGED answer
  /\ UNCHANGED <<disk, clears, sets, store, follows, printed, printedAt, closed>>

\* Mutant: no second look once the lock is held.
NoSecondLook == FALSE

\* Whether the second look, under the write lock, finds an entry.
SecondLook == cached # Nothing

\* Mutant: a call in flight is not looked for.
LeadAlways(p) == pc[p] = "slow" /\ ~ SecondLook

\* No entry and no call in flight: this prober registers one and leads it.
MayLead(p) == pc[p] = "slow" /\ ~ SecondLook /\ current = NoOne

SlowHit(p) ==
  /\ pc[p] = "slow"
  /\ SecondLook
  /\ Return(p, cached)
  /\ UNCHANGED <<disk, clears, sets, store, follows, printed, printedAt, closed>>

Lead(p) ==
  /\ MayLead(p)
  /\ current' = p
  /\ Goto(p, "running")
  /\ UNCHANGED <<disk, clears, sets, cached, readAt, follows, printed,
                 printedAt, closed, answer>>

Follow(p) ==
  /\ pc[p] = "slow" /\ ~ SecondLook /\ current # NoOne
  /\ follows' = [follows EXCEPT ![p] = current]
  /\ Goto(p, "waiting")
  /\ UNCHANGED <<disk, clears, sets, store, printed, printedAt, closed, answer>>

\* Mutant: a leader whose context ended passes that off as the command's word.
ResultOrCancelled == {disk, Failed, Cancelled}

\* What a run of the command may come to.
Result == {disk, Failed}

(* The command runs, without the lock: it prints the version on disk, or   *)
(* fails, as it does when the leader's context ends.                       *)
RunVersion(p) ==
  /\ pc[p] = "running"
  /\ \E v \in Result : printed' = [printed EXCEPT ![p] = v]
  /\ printedAt' = [printedAt EXCEPT ![p] = clears]
  /\ Goto(p, "storing")
  /\ UNCHANGED <<disk, clears, sets, store, follows, closed, answer>>

\* Mutant: a failed command leaves its call open.
CloseOnSuccess(p) == IF printed[p] = Failed THEN closed ELSE closed \cup {p}

\* The calls that are finished once p has stored its result.
Finished(p) == closed \cup {p}

(* Under the lock again: only a success is cached, the call is closed.     *)
Store(p) ==
  /\ pc[p] = "storing"
  /\ IF printed[p] = Failed
     THEN UNCHANGED <<cached, readAt>>
     ELSE cached' = printed[p] /\ readAt' = printedAt[p]
  /\ closed' = Finished(p)
  /\ Goto(p, "cleanup")
  /\ UNCHANGED <<disk, clears, sets, current, follows, printed, printedAt, answer>>

(* The deferred delete: it takes out whatever call is registered.          *)
Cleanup(p) ==
  /\ pc[p] = "cleanup"
  /\ current' = NoOne
  /\ Return(p, printed[p])
  /\ UNCHANGED <<disk, clears, sets, cached, readAt, follows, printed,
                 printedAt, closed>>

TakeAnswer(p) ==
  /\ pc[p] = "waiting"
  /\ follows[p] \in closed
  /\ Return(p, printed[follows[p]])
  /\ UNCHANGED <<disk, clears, sets, store, follows, printed, printedAt, closed>>

(* The prober's own context ends, and its select takes that branch.        *)
StopWaiting(p) ==
  /\ pc[p] = "waiting"
  /\ Return(p, Cancelled)
  /\ UNCHANGED <<disk, clears, sets, store, follows, printed, printedAt, closed>>

-----------------------------------------------------------------------------
ProbeStep(p) ==
  \/ FastPath(p) \/ SlowHit(p) \/ Lead(p) \/ Follow(p)
  \/ RunVersion(p) \/ Store(p) \/ Cleanup(p)
  \/ TakeAnswer(p)

Next ==
  \/ Upgrade \/ Clear \/ Set
  \/ \E p \in Probers : Begin(p) \/ StopWaiting(p) \/ ProbeStep(p)

Spec == Init /\ [][Next]_vars

(* Goroutines are scheduled.  The runner of a built-in adapter sets the     *)
(* command no timeout and no context need ever end, so a command need not  *)
(* end either.                                                             *)
FairSpec ==
  Spec /\ \A p \in Probers : WF_vars((p \in Prompt \/ pc[p] # "running") /\ ProbeStep(p))

-----------------------------------------------------------------------------
(* Properties.                                                             *)

Labels == {"idle", "fast", "slow", "running", "storing", "cleanup", "waiting", "returned"}

\* Every variable holds a value of its kind.
TypeOK ==
  /\ disk \in Nat \ {0} /\ clears \in Nat /\ sets \in Nat
  /\ cached \in Nat /\ readAt \in Nat
  /\ current \in Probers \cup {NoOne}
  /\ pc \in [Probers -> Labels]
  /\ follows \in [Probers -> Probers \cup {NoOne}]
  /\ printed \in [Probers -> Nat \cup {Failed}]
  /\ printedAt \in [Probers -> Nat]
  /\ closed \subseteq Probers
  /\ answer \in [Probers -> Nat \cup {Failed, Cancelled}]

Leaders == {p \in Probers : pc[p] \in {"running", "storing", "cleanup"}}

\* Single flight: while nobody clears the cache at most one prober at a time
\* runs the command, and every Clear lets at most one more run beside it, though
\* a leader's deferred delete may take out a call that is not its own.
SingleFlight == Cardinality(Leaders) <= 1 + clears

Succeeded == {p \in Probers : pc[p] = "returned" /\ answer[p] > 0}

\* Until the cache is cleared or set by hand every Probe that succeeds gives the
\* same version, whichever of the three ways it came by it and however often the
\* binary was upgraded meanwhile.
AgreeUnlessReset ==
  clears = 0 /\ sets = 0 => \A p, q \in Succeeded : answer[p] = answer[q]

\* Whether p waits for a command that does not end, its own or its leader's.
Stuck(p) == \E q \in {p, follows[p]} \cap (Probers \ Prompt) : pc[q] = "running"

\* Nobody waits for ever but for a command that hangs: every other prober that
\* began returns, also when Clear or a stranger's deferred delete dropped the
\* call it waits on from the map, and whatever other command hangs.
EveryProbeReturns == \A p \in Probers : pc[p] = "fast" ~> (pc[p] = "returned" \/ Stuck(p))

\* The comment on Clear: it removes all cached version entries.  What was read
\* from a binary before a Clear is not in the cache after it.
ClearForgets == cached # Nothing => readAt = clears
=============================================================================

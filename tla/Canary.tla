------------------------------- MODULE Canary -------------------------------
(***************************************************************************)
(* The drift canary: a workflow that installs the vendors' latest CLIs,    *)
(* probes what they print, and keeps an issue open while one of them has   *)
(* left what its adapter was verified against.  Runs are started by the    *)
(* day and by hand, on several refs at once.                               *)
(***************************************************************************)
EXTENDS Compat

CONSTANTS
  Refs,        \* the refs a run may be started on
  Default,     \* the one the daily runs are on
  Providers,   \* the CLIs in the order they are probed
  Releases,    \* of each CLI, in the order they are published
  Verified,    \* the range each adapter declares
  Sound,       \* the releases that match what its adapter relies on, by number
  Ranges,      \* some ranges an adapter might declare
  MaxFaults, MaxManual   \* bounds on what goes wrong and on runs by hand

Vendors == {Providers[i] : i \in DOMAIN Providers}

ASSUME CanaryAssumption ==
  /\ Default \in Refs
  /\ Providers \in Seq({"claude", "codex", "opencode"})
  /\ \A v \in Vendors : Len(Releases[v]) \in Nat \ {0} /\ DOMAIN Releases[v] = 1 .. Len(Releases[v])
  /\ \A v \in Vendors : Sound[v] \subseteq DOMAIN Releases[v]

VARIABLES
  published,  \* the latest release of each CLI
  run,        \* the run on each ref
  open,       \* the open issues, the newest first, each with a number
  faults, manual

vars == <<published, run, open, faults, manual>>

\* A run: where it is, who started it, with drift simulated or not, the CLIs
\* installed on its machine, how many were probed, whether one has drifted,
\* and the issue it found.
NoIssue == 0
Started(by, mock) ==
  [at |-> "installing", by |-> by, mock |-> mock, cli |-> [v \in Vendors |-> 0],
   probed |-> 0, drift |-> FALSE, found |-> NoIssue]
Idle == [Started("nobody", FALSE) EXCEPT !.at = "idle"]

Init ==
  /\ published = [v \in Vendors |-> 1]
  /\ run = [r \in Refs |-> Idle]
  /\ open = <<>>
  /\ faults = 0
  /\ manual = 0

Publish(v) ==
  /\ published[v] < Len(Releases[v])
  /\ published' = [published EXCEPT ![v] = @ + 1]
  /\ UNCHANGED <<run, open, faults, manual>>

\* Something goes wrong, or does not.
Fault    == faults < MaxFaults /\ faults' = faults + 1
Smoothly == UNCHANGED faults

-----------------------------------------------------------------------------
(* Starting a run ends the one in progress on the same ref.                *)

Daily ==
  /\ run[Default].by # "schedule"
  /\ run' = [run EXCEPT ![Default] = Started("schedule", FALSE)]
  /\ UNCHANGED <<published, open, faults, manual>>

Dispatch(r) ==
  /\ manual < MaxManual
  /\ manual' = manual + 1
  /\ \E mock \in BOOLEAN : run' = [run EXCEPT ![r] = Started("hand", mock)]
  /\ UNCHANGED <<published, open, faults>>

(* npm installs each CLI, or fails to and leaves it out.                   *)
Install(r) ==
  /\ run[r].at = "installing"
  /\ \E failed \in SUBSET Vendors :
       /\ IF failed = {} THEN Smoothly ELSE Fault
       /\ run' = [run EXCEPT ![r].at = "probing",
                             ![r].cli = [v \in Vendors |-> IF v \in failed THEN 0 ELSE published[v]]]
  /\ UNCHANGED <<published, open, manual>>

-----------------------------------------------------------------------------
(* The probes of a CLI: its version, its help, and codex's schema.         *)

\* What a command printed: the standard output or, if that is empty, the other.
Printed(release) == IF release.stdout # <<>> THEN release.stdout ELSE release.stderr

VersionProbe(v, release) ==
  \E version \in Extract(Printed(release)) : Check(Verified[v], version) = "in_range"

\* The help must name what the adapter uses; for claude it must be there.
HelpProbe(v, release) ==
  CASE v = "claude"   -> release.help # {}
    [] v = "codex"    -> "app-server" \in release.help
    [] v = "opencode" -> release.help \cap {"db", "serve"} # {}

ExpectedCodexMethods == {"account/rateLimits/read", "account/usage/read", "initialize"}

\* Mutant: the fields are not looked at.
MethodsAlone(release) == ExpectedCodexMethods \subseteq release.schema

ValidateCodexSchema(release) ==
  ExpectedCodexMethods \cup {"usedPercent", "resetsAt"} \subseteq release.schema

\* Whether a release's output passes every probe.
Passes(v, release) ==
  /\ VersionProbe(v, release)
  /\ HelpProbe(v, release)
  /\ v = "codex" => ValidateCodexSchema(release)

\* Mutant: the vendor probed last decides.
LastAlone(before, drifted) == drifted

Tally(before, drifted) == before \/ drifted

At(r)     == Providers[run[r].probed + 1]
Probing(r) == run[r].at = "probing" /\ run[r].probed < Len(Providers)

Probed(r, drifted) ==
  /\ Probing(r)
  /\ run' = [run EXCEPT ![r].probed = @ + 1, ![r].drift = Tally(@, drifted)]
  /\ UNCHANGED <<published, open, manual>>

\* Drift is simulated for every CLI, and one that is not installed is skipped.
Probe(r) ==
  /\ Probing(r)
  /\ LET v == At(r)
         n == run[r].cli[v]
     IN  Probed(r, run[r].mock \/ (n # 0 /\ ~ Passes(v, Releases[v][n])))
  /\ Smoothly

(* A command fails or is killed, at its own timeout or when the minute of  *)
(* the whole tool is over.                                                 *)
ProbeFails(r) ==
  /\ Probing(r)
  /\ ~ run[r].mock /\ run[r].cli[At(r)] # 0
  /\ Fault
  /\ Probed(r, TRUE)

Ends(r) == run' = [run EXCEPT ![r] = Idle]

(* The binary is gone when the schema is asked for: there is no result to  *)
(* take the error output of, the tool panics, and the job ends.            *)
ProbePanics(r) ==
  /\ Probing(r)
  /\ At(r) = "codex"
  /\ ~ run[r].mock /\ run[r].cli["codex"] # 0
  /\ Fault
  /\ Ends(r)
  /\ UNCHANGED <<published, open, manual>>

-----------------------------------------------------------------------------
(* The issue.  A gh command that fails ends the job, but for the one that  *)
(* lists: it stands before a pipe, and its failure looks like no issue.    *)

Find(r) ==
  /\ run[r].at = "probing"
  /\ run[r].probed = Len(Providers)
  /\ \/ /\ Smoothly
        /\ run' = [run EXCEPT ![r].at = "found",
                              ![r].found = IF open = <<>> THEN NoIssue ELSE Head(open)]
     \/ /\ Fault
        /\ run' = [run EXCEPT ![r].at = "found"]
  /\ UNCHANGED <<published, open, manual>>

GhFails(r) ==
  /\ run[r].at \in {"found", "commented"}
  /\ run[r].drift \/ run[r].found # NoIssue
  /\ Fault
  /\ Ends(r)
  /\ UNCHANGED <<published, open, manual>>

\* The issue found gets the report, though it be closed by now.
EditIssue(r) ==
  /\ run[r].at = "found"
  /\ run[r].drift
  /\ run[r].found # NoIssue
  /\ Ends(r)
  /\ UNCHANGED <<published, open, faults, manual>>

Numbers == 1 .. Len(open) + Cardinality(Refs) + 1
InUse   == {open[i] : i \in DOMAIN open} \cup {run[r].found : r \in Refs}

CreateIssue(r) ==
  /\ run[r].at = "found"
  /\ run[r].drift
  /\ run[r].found = NoIssue
  /\ open' = <<Min(Numbers \ InUse)>> \o open
  /\ Ends(r)
  /\ UNCHANGED <<published, faults, manual>>

NothingToDo(r) ==
  /\ run[r].at = "found"
  /\ ~ run[r].drift
  /\ run[r].found = NoIssue
  /\ Ends(r)
  /\ UNCHANGED <<published, open, faults, manual>>

CommentIssue(r) ==
  /\ run[r].at = "found"
  /\ ~ run[r].drift
  /\ run[r].found # NoIssue
  /\ run' = [run EXCEPT ![r].at = "commented"]
  /\ UNCHANGED <<published, open, faults, manual>>

Without(issue) == SelectSeq(open, LAMBDA other : other # issue)

CloseIssue(r) ==
  /\ run[r].at = "commented"
  /\ open' = Without(run[r].found)
  /\ Ends(r)
  /\ UNCHANGED <<published, faults, manual>>

\* A maintainer closes an issue.
MaintainerCloses ==
  /\ Fault
  /\ \E i \in DOMAIN open : open' = Without(open[i])
  /\ UNCHANGED <<published, run, manual>>

-----------------------------------------------------------------------------
Manage(r) ==
  Find(r) \/ EditIssue(r) \/ CreateIssue(r) \/ NothingToDo(r) \/ CommentIssue(r) \/ CloseIssue(r)

Next ==
  \/ \E r \in Refs : \/ Install(r) \/ Probe(r) \/ Manage(r)
                     \/ Dispatch(r) \/ ProbeFails(r) \/ ProbePanics(r) \/ GhFails(r)
  \/ \E v \in Vendors : Publish(v)
  \/ Daily
  \/ MaintainerCloses

(* A run that has started goes on, whatever its probes find, and the day's *)
(* run comes.                                                              *)
Goes(r) == Install(r) \/ (\E drifted \in BOOLEAN : Smoothly /\ Probed(r, drifted)) \/ Manage(r)

Spec == Init /\ [][Next]_vars /\ (\A r \in Refs : WF_vars(Goes(r))) /\ WF_vars(Daily)

-----------------------------------------------------------------------------
(* What the theorems suppose of the releases.                              *)

\* A release that passes every probe matches what the adapter relies on: the
\* probes look at all of that.
ProbesTell ==
  \A v \in Vendors : \A n \in DOMAIN Releases[v] : Passes(v, Releases[v][n]) => n \in Sound[v]

\* Each release of a CLI tells a version no older than the one before it.
ReleasesAscend ==
  \A v \in Vendors : \A n \in DOMAIN Releases[v] : n + 1 \in DOMAIN Releases[v] =>
    \A old \in Extract(Printed(Releases[v][n])), new \in Extract(Printed(Releases[v][n + 1])) :
      old \in Versions /\ new \in Versions /\ Compare(old, new) <= 0

-----------------------------------------------------------------------------
(* Properties.                                                             *)

\* As a CLI is updated, the verdict on it goes from too old to in range to too new
\* and never back, whatever form the range has, pre-releases included.  (A range
\* with a hole in it, made by "!=", is another matter.)
VerdictsAscend ==
  [][\A v \in Vendors : published'[v] # published[v] =>
       \A old \in Extract(Printed(Releases[v][published[v]])),
          new \in Extract(Printed(Releases[v][published'[v]])) :
         \A range \in Ranges : Place(Check(range, old)) <= Place(Check(range, new))]_vars

\* A run closes an issue, or finds there is nothing to report, only when every
\* CLI on its machine matches what its adapter relies on.
AllClearIsEarned ==
  [][\A r \in Refs :
       CloseIssue(r) \/ NothingToDo(r) =>
         \A v \in Vendors : run[r].cli[v] \in Sound[v] \cup {0}]_vars

\* Once nothing is published any more and nothing goes wrong, an issue stays open
\* if a CLI has drifted and none does if all match, whatever runs were cancelled,
\* simulated, cut short or crossed each other before.
Drifting     == \E v \in Vendors : published[v] \notin Sound[v]
IssueSettles == <>[](open # <<>> <=> Drifting)
=============================================================================

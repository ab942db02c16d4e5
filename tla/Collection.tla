----------------------------- MODULE Collection -----------------------------
(***************************************************************************)
(* What a collection run promises its caller, and nothing of how: every    *)
(* provider asked for gets one verdict, a verdict is never taken back, and *)
(* the run ends in one of two ways: with a report of exactly one entry per *)
(* provider, or as a failure of the whole run that reports nothing.        *)
(***************************************************************************)
CONSTANTS
  Verdicts,    \* what may be said of a provider: a report or an error
  Undecided    \* the value of a verdict not reached yet

VARIABLES
  asked,       \* the providers this run was asked for
  phase,       \* ready, running, reported or failed
  verdict,     \* verdict[p]: the verdict on p, or Undecided
  published    \* the entries of the published report

promises == <<asked, phase, verdict, published>>

Init ==
  /\ phase = "ready"
  /\ \A p \in DOMAIN verdict : verdict[p] = Undecided
  /\ published = {}

Begin ==
  /\ phase = "ready"
  /\ asked \subseteq DOMAIN verdict
  /\ phase' = "running"
  /\ UNCHANGED <<asked, verdict, published>>

Decide(p) ==
  /\ phase = "running"
  /\ p \in asked
  /\ verdict[p] = Undecided
  /\ verdict'[p] \in Verdicts
  /\ verdict' = [verdict EXCEPT ![p] = verdict'[p]]
  /\ UNCHANGED <<asked, phase, published>>

Finish ==
  /\ phase = "running"
  /\ \A p \in asked : verdict[p] # Undecided
  /\ phase' = "reported"
  /\ published' = {[provider |-> p, outcome |-> verdict[p]] : p \in asked}
  /\ UNCHANGED <<asked, verdict>>

Fail ==
  /\ phase \in {"ready", "running"}
  /\ phase' = "failed"
  /\ UNCHANGED <<asked, verdict, published>>

Next ==
  \/ Begin \/ Finish \/ Fail
  \/ \E p \in DOMAIN verdict : Decide(p)

Spec == Init /\ [][Next]_promises
=============================================================================

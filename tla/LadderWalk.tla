----------------------------- MODULE LadderWalk -----------------------------
(***************************************************************************)
(* One worker's walk down a ladder on which no rung succeeds, with every   *)
(* way each rung can end and every reason a fetch can fail with: the walks *)
(* an exhausted ladder's verdict is drawn from.                            *)
(***************************************************************************)
EXTENDS Ladder

CONSTANTS
  Ladders,    \* the source lists adapters declare
  Policies    \* the source policies a caller may set

ASSUME LaddersAssumption == \A ladder \in Ladders : ladder \in Seq(Source)

VARIABLES
  sources,    \* the ladder of this walk
  policy,
  attempts    \* the rungs tried so far

vars == <<sources, policy, attempts>>

Untried == DOMAIN sources \ {attempts[i].rung : i \in DOMAIN attempts}

Init ==
  /\ sources \in Ladders
  /\ policy \in Policies
  /\ attempts = <<>>

Endings ==
  [status : {"unavailable", "timeout"}, reason : {""}]
  \cup [status : {"error"}, reason : {ReasonOrUpstream(r) : r \in Reasons \cup {""}}]

(* One turn of the loop that does not end the walk.                        *)
TryRung ==
  \E j \in Untried :
    /\ \A k \in Untried : WalksBefore(sources, j, k)
    /\ \E e \in IF Allows(policy, sources[j]) THEN Endings
                ELSE [status : {"skipped"}, reason : {""}] :
         attempts' = Append(attempts,
                            [rung |-> j, status |-> e.status, reason |-> e.reason])
    /\ UNCHANGED <<sources, policy>>

Next == TryRung

Spec == Init /\ [][Next]_vars

verdict == outcomeFromAttempts(attempts)
blamed  == sourceForReason(attempts, verdict)

-----------------------------------------------------------------------------
\* How much an attempt tells: one that ran and failed more than one that ran
\* out of time, that more than one that never ran, and all of them more than a
\* rung the policy excluded.
Tells(a) ==
  CASE a.status = "error"       -> 3
    [] a.status = "timeout"     -> 2
    [] a.status = "unavailable" -> 1
    [] a.status = "skipped"     -> 0

Explains(a, reason) ==
  \/ a.status = "error"       /\ reason = a.reason
  \/ a.status = "timeout"     /\ reason = "timeout"
  \/ a.status = "unavailable" /\ reason = "not_installed"
  \/ a.status = "skipped"     /\ reason = "not_supported"

\* An exhausted ladder's one reason is that of an attempt than which no other
\* tells more, as the comment on outcomeFromAttempts has it.
VerdictIsMostInformative ==
  attempts # <<>> =>
    \E i \in DOMAIN attempts :
      /\ Explains(attempts[i], verdict)
      /\ \A k \in DOMAIN attempts : Tells(attempts[k]) <= Tells(attempts[i])

\* A caller told that retrying may help is not kept from a failure that needs
\* its attention: no rung failed for a reason a retry cannot cure.
RetryableHidesNothing ==
  Retryable(verdict) =>
    \A i \in DOMAIN attempts :
      attempts[i].status = "error" => Retryable(attempts[i].reason)

\* The source a ProviderError names was contacted, and when the reason comes
\* from a failed fetch it is the first source of the walk that failed with it.
BlameIsEarned ==
  IF \A i \in DOMAIN attempts : attempts[i].status = "skipped"
  THEN blamed = 0
  ELSE \E i \in DOMAIN attempts :
         /\ attempts[i].rung = blamed
         /\ attempts[i].status # "skipped"
         /\ verdict \in ErrorReasons(attempts) =>
              /\ attempts[i].reason = verdict
              /\ \A k \in 1 .. i - 1 : attempts[k].reason # verdict
=============================================================================

------------------------------- MODULE Ladder -------------------------------
(***************************************************************************)
(* The data and the pure decisions of a source-ladder walk: tiers and the  *)
(* order they are tried in, the source policy, the reasons a provider can  *)
(* fail with, the version gate, and the verdict on a ladder that ran out   *)
(* of rungs.  A source is a record [id, tier]; an adapter declares its     *)
(* sources as a sequence, and a rung is a position in that sequence.       *)
(***************************************************************************)
EXTENDS Integers, Sequences

TierAPI         == 1
TierLocalState  == 2
TierLocalRPC    == 3
TierTranscripts == 4
TierCLIScrape   == 5
Tiers           == TierAPI .. TierCLIScrape

SourceIDs == {"oauth_api", "local_state", "app_server", "transcript", "cli_stdout"}

Source == [id : SourceIDs, tier : Tiers]

-----------------------------------------------------------------------------
(* Order of the walk.                                                      *)

tierRank(tier) ==
  IF tier \in {TierLocalState, TierLocalRPC} THEN 2 ELSE tier

\* Mutant: rungs are walked in the order the adapter declares them.
DeclaredOrder(sources, j, k) == j <= k

\* The stable sort by rank: rung j is walked no later than rung k.
WalksBefore(sources, j, k) ==
  LET rank(i) == tierRank(sources[i].tier)
  IN  \/ rank(j) < rank(k)
      \/ rank(j) = rank(k) /\ j <= k

-----------------------------------------------------------------------------
(* Source policy.  A policy is a pair <<kind, argument>>: the aliases of a *)
(* kind and the case and blanks of its spelling are folded into the kind,  *)
(* and a policy that is none of the keywords is <<"id", text>>.            *)

\* Mutant: the local policy's bound is off by one tier.
AllowsFromAPI(policy, source) ==
  policy[1] = "default" \/ (policy[1] = "local" /\ source.tier >= TierAPI)

Allows(policy, source) ==
  LET kind == policy[1]
      arg  == policy[2]
  IN  \/ kind = "default"
      \/ kind = "local"       /\ source.tier >= TierLocalState
      \/ kind = "remote"      /\ (source.tier = TierAPI \/ source.id = "oauth_api")
      \/ kind = "local_state" /\ (source.tier = TierLocalState \/ source.id = "local_state")
      \/ kind = "rpc"         /\ (source.tier = TierLocalRPC \/ source.id = "app_server")
      \/ kind = "transcripts" /\ (source.tier = TierTranscripts \/ source.id = "transcript")
      \/ kind = "cli"         /\ (source.tier = TierCLIScrape \/ source.id = "cli_stdout")
      \/ kind = "tier"        /\ source.tier = arg
      \/ kind = "floor"       /\ source.tier >= arg
      \/ kind = "max_tier"    /\ source.tier <= arg
      \/ kind = "id"          /\ source.id = arg

-----------------------------------------------------------------------------
(* Reasons and attempts.                                                   *)

Reasons == {"not_installed", "not_authenticated", "credential_expired",
            "unsupported_version", "parse_failed", "upstream_error",
            "timeout", "not_supported"}

Retryable(reason) == reason \in {"upstream_error", "timeout"}

\* Mutant: a vendor outage outranks everything but drift.
UpstreamFirst ==
  [parse_failed |-> 100, upstream_error |-> 95, unsupported_version |-> 90,
   credential_expired |-> 80, not_authenticated |-> 70, not_installed |-> 60,
   not_supported |-> 50, timeout |-> 30]

reasonPriority ==
  [parse_failed       |-> 100,
   unsupported_version |-> 90,
   credential_expired |-> 80,
   not_authenticated  |-> 70,
   not_installed      |-> 60,
   not_supported      |-> 50,
   upstream_error     |-> 40,
   timeout            |-> 30]

Statuses == {"success", "error", "unavailable", "skipped", "timeout"}

\* One rung of a walk: which rung, how it ended and, for an error, why.
Attempt == [rung : Nat, status : {"error"}, reason : Reasons]
           \cup [rung : Nat, status : Statuses \ {"error"}, reason : {""}]

\* A fetch error no sentinel explains is the vendor's failure.
ReasonOrUpstream(reason) == IF reason = "" THEN "upstream_error" ELSE reason

ErrorReasons(attempts) ==
  {attempts[i].reason : i \in {k \in DOMAIN attempts : attempts[k].status = "error"}}

Saw(attempts, status) == \E i \in DOMAIN attempts : attempts[i].status = status

MostInformative(reasons) ==
  CHOOSE r \in reasons : \A s \in reasons : reasonPriority[r] >= reasonPriority[s]

\* Mutant: a rung that timed out outranks one that ran and failed.
TimeoutFirst(attempts) ==
  IF Saw(attempts, "timeout") THEN "timeout"
  ELSE IF ErrorReasons(attempts) # {} THEN MostInformative(ErrorReasons(attempts))
  ELSE IF Saw(attempts, "unavailable") THEN "not_installed"
  ELSE "not_supported"

outcomeFromAttempts(attempts) ==
  IF ErrorReasons(attempts) # {} THEN MostInformative(ErrorReasons(attempts))
  ELSE IF Saw(attempts, "timeout") THEN "timeout"
  ELSE IF Saw(attempts, "unavailable") THEN "not_installed"
  ELSE "not_supported"

\* The last rung the walk did not skip; 0 when there is none.
lastAttemptedSource(attempts) ==
  LET ran == {i \in DOMAIN attempts : attempts[i].status # "skipped"}
  IN  IF ran = {} THEN 0
      ELSE attempts[CHOOSE i \in ran : \A k \in ran : k <= i].rung

\* Mutant: the last rung takes the blame for any reason.
BlameLast(attempts, reason) == lastAttemptedSource(attempts)

sourceForReason(attempts, reason) ==
  LET failed == {i \in DOMAIN attempts :
                   attempts[i].status = "error" /\ attempts[i].reason = reason}
  IN  IF failed = {} THEN lastAttemptedSource(attempts)
      ELSE attempts[CHOOSE i \in failed : \A k \in failed : i <= k].rung

-----------------------------------------------------------------------------
(* Version gate.  A version is what compat.Check says of it against the    *)
(* adapter's verified range: "absent" when no version is known and         *)
(* "unchecked" when the check itself fails or no range is declared.        *)

Versions == {"absent", "unchecked", "older", "verified", "newer"}

Confidences == {"exact", "derived", "stale", "unknown"}

defaultConfidenceForTier(tier) ==
  IF tier = TierAPI THEN "exact"
  ELSE IF tier \in TierLocalState .. TierCLIScrape THEN "derived"
  ELSE "unknown"
=============================================================================

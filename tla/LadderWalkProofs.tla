-------------------------- MODULE LadderWalkProofs --------------------------
(***************************************************************************)
(* The verdict on an exhausted ladder, for ladders of any length and any   *)
(* policy.  What the theorems need of a walk is only that its attempts are *)
(* well formed: a reason is given if and only if a fetch failed.  The      *)
(* lemmas on the decisions of module Ladder are about any such walk, and   *)
(* ResolverProofs cites them of its own.                                   *)
(***************************************************************************)
EXTENDS LadderWalk, WellFoundedInduction, TLAPS

-----------------------------------------------------------------------------
(* What the decisions of module Ladder return.                             *)


\* The fields of an attempt: it gives a reason if and only if it failed.
LEMMA AttemptFields ==
  ASSUME NEW a \in Attempt
  PROVE  /\ a.rung \in Nat
         /\ a.status \in Statuses
         /\ a.status = "error" <=> a.reason \in Reasons
         /\ a.status # "error" => a.reason = ""
BY DEF Attempt, Statuses, Reasons

\* What appending an element does to a sequence, position by position.
LEMMA Appended ==
  ASSUME NEW S, NEW seq \in Seq(S), NEW x \in S
  PROVE  /\ Append(seq, x) \in Seq(S)
         /\ DOMAIN Append(seq, x) = DOMAIN seq \cup {Len(seq) + 1}
         /\ \A i \in DOMAIN seq : Append(seq, x)[i] = seq[i]
         /\ Append(seq, x)[Len(seq) + 1] = x
         /\ Len(seq) + 1 \notin DOMAIN seq
OBVIOUS

\* A nonempty set of naturals has a least element.
LEMMA LeastNatural ==
  ASSUME NEW T \in SUBSET Nat, T # {}
  PROVE  \E x \in T : \A y \in T : x <= y
<1>1. PICK x \in T : \A y \in T : ~ (<<y, x>> \in OpToRel(<, Nat))
  BY WFMin, NatLessThanWellFounded
<1>2. ASSUME NEW y \in T, y < x
      PROVE  FALSE
  <2>1. <<y, x>> \in Nat \X Nat
    OBVIOUS
  <2>2. <<y, x>> \in OpToRel(<, Nat)
    BY <1>2, <2>1 DEF OpToRel
  <2> QED BY <1>1, <2>2
<1> QED BY <1>2

\* A nonempty set of positions has a greatest element.
LEMMA GreatestPosition ==
  ASSUME NEW n \in Nat, NEW T \in SUBSET (1 .. n), T # {}
  PROVE  \E x \in T : \A y \in T : y <= x
<1> DEFINE Left == {n - t : t \in T}
<1>1. Left \in SUBSET Nat
  OBVIOUS
<1>. Left # {}
  OBVIOUS
<1>2. PICK d \in Left : \A e \in Left : d <= e
  BY <1>1, LeastNatural
<1>3. PICK x \in T : d = n - x
  OBVIOUS
<1>4. ASSUME NEW y \in T PROVE y <= x
  <2>1. n - y \in Left
    OBVIOUS
  <2>2. n - x <= n - y
    BY <1>2, <1>3, <2>1
  <2>3. n \in Int /\ x \in Int /\ y \in Int
    OBVIOUS
  <2> HIDE DEF Left
  <2> QED BY <2>2, <2>3
<1> QED BY <1>4

\* MostInformative picks one of the reasons, and one that none of them outranks.
LEMMA MostInformativeIsOneOfThem ==
  ASSUME NEW R \in SUBSET Reasons, R # {}
  PROVE  /\ MostInformative(R) \in R
         /\ \A s \in R : reasonPriority[MostInformative(R)] >= reasonPriority[s]
<1> DEFINE Short == {100 - reasonPriority[r] : r \in R}
<1>1. \A r \in Reasons : reasonPriority[r] \in 0 .. 100
  BY DEF Reasons, reasonPriority
<1>2. Short \in SUBSET Nat /\ Short # {}
  BY <1>1
<1>3. PICK d \in Short : \A e \in Short : d <= e
  BY <1>2, LeastNatural
<1>4. PICK r \in R : d = 100 - reasonPriority[r]
  OBVIOUS
<1>5. \A s \in R : reasonPriority[r] >= reasonPriority[s]
  <2>1. ASSUME NEW s \in R PROVE reasonPriority[r] >= reasonPriority[s]
    <3>1. 100 - reasonPriority[s] \in Short
      OBVIOUS
    <3>2. 100 - reasonPriority[r] <= 100 - reasonPriority[s]
      BY <1>3, <1>4, <3>1
    <3>3. reasonPriority[s] \in Int /\ reasonPriority[r] \in Int
      BY <1>1
    <3> HIDE DEF Short
    <3> QED BY <3>2, <3>3
  <2> QED BY <2>1
<1> QED BY <1>5 DEF MostInformative

\* The reasons of failed fetches are reasons.
LEMMA ErrorReasonsAreReasons ==
  ASSUME NEW walk \in Seq(Attempt)
  PROVE  ErrorReasons(walk) \in SUBSET Reasons
<1>1. ASSUME NEW i \in DOMAIN walk, walk[i].status = "error"
      PROVE  walk[i].reason \in Reasons
  <2>1. walk[i] \in Attempt
    OBVIOUS
  <2> QED BY <1>1, <2>1, AttemptFields
<1> QED BY <1>1 DEF ErrorReasons

\* The verdict on an exhausted ladder is one of the eight reasons.
LEMMA VerdictIsAReason ==
  ASSUME NEW walk \in Seq(Attempt)
  PROVE  outcomeFromAttempts(walk) \in Reasons
<1>1. ErrorReasons(walk) # {} => MostInformative(ErrorReasons(walk)) \in Reasons
  BY ErrorReasonsAreReasons, MostInformativeIsOneOfThem
<1> QED BY <1>1 DEF outcomeFromAttempts, Reasons

\* The last attempted source is a rung of the walk that was not skipped, or 0.
LEMMA LastAttempted ==
  ASSUME NEW walk \in Seq(Attempt)
  PROVE  LET last == lastAttemptedSource(walk)
             ran  == {i \in DOMAIN walk : walk[i].status # "skipped"}
         IN  /\ last \in Nat
             /\ ran = {} => last = 0
             /\ ran # {} => \E i \in ran : walk[i].rung = last
<1> DEFINE ran == {i \in DOMAIN walk : walk[i].status # "skipped"}
<1>1. CASE ran = {}
  BY <1>1 DEF lastAttemptedSource
<1>2. CASE ran # {}
  <2> DEFINE i == CHOOSE i \in ran : \A k \in ran : k <= i
  <2>1. ran \in SUBSET (1 .. Len(walk))
    OBVIOUS
  <2>2. \E x \in ran : \A k \in ran : k <= x
    <3>1. Len(walk) \in Nat
      OBVIOUS
    <3> HIDE DEF ran
    <3> QED BY <1>2, <2>1, <3>1, GreatestPosition
  <2>3. i \in ran
    BY <2>2
  <2>4. lastAttemptedSource(walk) = walk[i].rung
    BY <1>2 DEF lastAttemptedSource
  <2>5. walk[i].rung \in Nat
    <3>1. walk[i] \in Attempt
      BY <2>3
    <3> QED BY <3>1, AttemptFields
  <2> QED BY <1>2, <2>3, <2>4, <2>5
<1> QED BY <1>1, <1>2

\* The source a reason is blamed on is the first rung that failed with it, and
\* the last attempted one when none did.
LEMMA BlamedSource ==
  ASSUME NEW walk \in Seq(Attempt), NEW reason
  PROVE  LET source == sourceForReason(walk, reason)
             failed == {i \in DOMAIN walk :
                          walk[i].status = "error" /\ walk[i].reason = reason}
         IN  /\ source \in Nat
             /\ failed = {} => source = lastAttemptedSource(walk)
             /\ failed # {} => \E i \in failed : /\ walk[i].rung = source
                                                 /\ \A k \in failed : i <= k
<1> DEFINE failed == {i \in DOMAIN walk :
                        walk[i].status = "error" /\ walk[i].reason = reason}
<1>1. CASE failed = {}
  BY <1>1, LastAttempted DEF sourceForReason
<1>2. CASE failed # {}
  <2> DEFINE i == CHOOSE i \in failed : \A k \in failed : i <= k
  <2>1. failed \in SUBSET Nat
    OBVIOUS
  <2>2. \E x \in failed : \A k \in failed : x <= k
    BY <1>2, <2>1, LeastNatural
  <2>3. i \in failed /\ \A k \in failed : i <= k
    BY <2>2
  <2>4. sourceForReason(walk, reason) = walk[i].rung
    BY <1>2 DEF sourceForReason
  <2>5. walk[i].rung \in Nat
    <3>1. walk[i] \in Attempt
      BY <2>3
    <3> QED BY <3>1, AttemptFields
  <2> QED BY <1>2, <2>3, <2>4, <2>5
<1> QED BY <1>1, <1>2

-----------------------------------------------------------------------------
(* The walk.                                                               *)

WalkType ==
  /\ sources \in Seq(Source)
  /\ attempts \in Seq(Attempt)
  /\ \A i \in DOMAIN attempts : attempts[i].status # "success"

\* A turn of the loop appends a well-formed attempt.
LEMMA TryRungAppends ==
  ASSUME WalkType, TryRung
  PROVE  \E new \in Attempt : new.status # "success" /\ attempts' = Append(attempts, new)
<1>1. PICK j \in Untried :
        \E e \in IF Allows(policy, sources[j]) THEN Endings
                 ELSE [status : {"skipped"}, reason : {""}] :
          attempts' = Append(attempts,
                             [rung |-> j, status |-> e.status, reason |-> e.reason])
  BY DEF TryRung
<1>2. j \in Nat
  <2>1. j \in DOMAIN sources /\ sources \in Seq(Source)
    BY DEF Untried, WalkType
  <2> QED BY <2>1
<1>3. PICK e \in Endings \cup [status : {"skipped"}, reason : {""}] :
        attempts' = Append(attempts, [rung |-> j, status |-> e.status, reason |-> e.reason])
  BY <1>1
<1>4. \A r \in Reasons \cup {""} : ReasonOrUpstream(r) \in Reasons
  BY DEF ReasonOrUpstream, Reasons
<1> DEFINE new == [rung |-> j, status |-> e.status, reason |-> e.reason]
<1>5. new \in Attempt /\ new.status # "success"
  <2>1. CASE e \in [status : {"unavailable", "timeout"}, reason : {""}]
    BY <1>2, <2>1 DEF Attempt, Statuses
  <2>2. CASE e \in [status : {"error"}, reason : {ReasonOrUpstream(r) : r \in Reasons \cup {""}}]
    BY <1>2, <1>4, <2>2 DEF Attempt
  <2>3. CASE e \in [status : {"skipped"}, reason : {""}]
    BY <1>2, <2>3 DEF Attempt, Statuses
  <2> QED BY <1>3, <2>1, <2>2, <2>3 DEF Endings
<1> QED BY <1>3, <1>5

\* A turn of the loop keeps the attempts well formed.
LEMMA TryRungType == ASSUME WalkType, TryRung PROVE WalkType'
<1>1. PICK new \in Attempt : new.status # "success" /\ attempts' = Append(attempts, new)
  BY TryRungAppends
<1>2. attempts \in Seq(Attempt) /\ \A i \in DOMAIN attempts : attempts[i].status # "success"
  BY DEF WalkType
<1>3. /\ attempts' \in Seq(Attempt)
      /\ DOMAIN attempts' = DOMAIN attempts \cup {Len(attempts) + 1}
      /\ \A i \in DOMAIN attempts : attempts'[i] = attempts[i]
      /\ attempts'[Len(attempts) + 1] = new
  BY <1>1, <1>2, Appended
<1>4. ASSUME NEW i \in DOMAIN attempts' PROVE attempts'[i].status # "success"
  <2>1. CASE i \in DOMAIN attempts
    BY <1>2, <1>3, <2>1
  <2>2. CASE i = Len(attempts) + 1
    BY <1>1, <1>3, <2>2
  <2> QED BY <1>3, <2>1, <2>2
<1> QED BY <1>3, <1>4 DEF TryRung, WalkType

\* The attempts of a walk are well formed, and none of them a success.
THEOREM WalkTypeInvariant == Spec => []WalkType
<1>1. Init => WalkType
  BY LaddersAssumption DEF Init, WalkType
<1>2. WalkType /\ [Next]_vars => WalkType'
  <2>1. CASE UNCHANGED vars
    BY <2>1 DEF WalkType, vars
  <2>2. CASE Next
    BY <2>2, TryRungType DEF Next
  <2> QED BY <2>1, <2>2
<1> QED BY <1>1, <1>2, PTL DEF Spec

-----------------------------------------------------------------------------
\* When some fetch failed, the verdict is the reason of a fetch that did.
LEMMA VerdictOfFailures ==
  ASSUME WalkType, ErrorReasons(attempts) # {}
  PROVE  /\ verdict \in ErrorReasons(attempts)
         /\ \A s \in ErrorReasons(attempts) : reasonPriority[verdict] >= reasonPriority[s]
<1>1. ErrorReasons(attempts) \in SUBSET Reasons
  BY ErrorReasonsAreReasons DEF WalkType
<1>2. verdict = MostInformative(ErrorReasons(attempts))
  BY DEF verdict, outcomeFromAttempts
<1> QED BY <1>1, <1>2, MostInformativeIsOneOfThem

\* The verdict is that of an attempt than which no other tells more.
THEOREM Informative == Spec => []VerdictIsMostInformative
<1>1. ASSUME WalkType PROVE VerdictIsMostInformative
  <2> SUFFICES ASSUME attempts # <<>>
               PROVE  \E i \in DOMAIN attempts :
                        /\ Explains(attempts[i], verdict)
                        /\ \A k \in DOMAIN attempts : Tells(attempts[k]) <= Tells(attempts[i])
    BY DEF VerdictIsMostInformative
  <2>1. \A k \in DOMAIN attempts : attempts[k] \in Attempt
    BY <1>1 DEF WalkType
  <2>2. \A k \in DOMAIN attempts :
          attempts[k].status \in {"error", "timeout", "unavailable", "skipped"}
    BY <1>1, <2>1, AttemptFields DEF WalkType, Statuses
  <2>3. \A k \in DOMAIN attempts : Tells(attempts[k]) \in 0 .. 3
    BY <2>2 DEF Tells
  <2>4. CASE ErrorReasons(attempts) # {}
    <3>1. PICK i \in DOMAIN attempts :
            attempts[i].status = "error" /\ attempts[i].reason = verdict
      BY <1>1, <2>4, VerdictOfFailures DEF ErrorReasons
    <3>2. Explains(attempts[i], verdict) /\ Tells(attempts[i]) = 3
      BY <3>1 DEF Explains, Tells
    <3> QED BY <2>3, <3>2
  <2>5. CASE ErrorReasons(attempts) = {}
    <3>1. \A k \in DOMAIN attempts : attempts[k].status # "error"
      BY <2>5 DEF ErrorReasons
    <3>2. CASE Saw(attempts, "timeout")
      <4>1. PICK i \in DOMAIN attempts : attempts[i].status = "timeout"
        BY <3>2 DEF Saw
      <4>2. verdict = "timeout"
        BY <2>5, <3>2 DEF verdict, outcomeFromAttempts
      <4>3. \A k \in DOMAIN attempts : Tells(attempts[k]) <= 2
        BY <2>2, <3>1 DEF Tells
      <4>4. Explains(attempts[i], verdict) /\ Tells(attempts[i]) = 2
        BY <4>1, <4>2 DEF Explains, Tells
      <4> QED BY <4>3, <4>4
    <3>3. CASE ~ Saw(attempts, "timeout") /\ Saw(attempts, "unavailable")
      <4>1. PICK i \in DOMAIN attempts : attempts[i].status = "unavailable"
        BY <3>3 DEF Saw
      <4>2. verdict = "not_installed"
        BY <2>5, <3>3 DEF verdict, outcomeFromAttempts
      <4>3. \A k \in DOMAIN attempts : Tells(attempts[k]) <= 1
        BY <2>2, <3>1, <3>3 DEF Tells, Saw
      <4>4. Explains(attempts[i], verdict) /\ Tells(attempts[i]) = 1
        BY <4>1, <4>2 DEF Explains, Tells
      <4> QED BY <4>3, <4>4
    <3>4. CASE ~ Saw(attempts, "timeout") /\ ~ Saw(attempts, "unavailable")
      <4>1. \A k \in DOMAIN attempts : attempts[k].status = "skipped"
        BY <2>2, <3>1, <3>4 DEF Saw
      <4>2. verdict = "not_supported"
        BY <2>5, <3>4 DEF verdict, outcomeFromAttempts
      <4>3. \A k \in DOMAIN attempts :
              Explains(attempts[k], verdict) /\ Tells(attempts[k]) = 0
        BY <4>1, <4>2 DEF Explains, Tells
      <4>4. 1 \in DOMAIN attempts
        BY <1>1 DEF WalkType
      <4> QED BY <4>3, <4>4
    <3> QED BY <3>2, <3>3, <3>4
  <2> QED BY <2>4, <2>5
<1> QED BY <1>1, WalkTypeInvariant, PTL

\* A verdict that invites a retry hides no failure that a retry cannot cure.
THEOREM RetryHidesNothing == Spec => []RetryableHidesNothing
<1>1. ASSUME WalkType PROVE RetryableHidesNothing
  <2> SUFFICES ASSUME Retryable(verdict), NEW i \in DOMAIN attempts,
                      attempts[i].status = "error"
               PROVE  Retryable(attempts[i].reason)
    BY DEF RetryableHidesNothing
  <2>1. attempts[i] \in Attempt
    BY <1>1 DEF WalkType
  <2>2. attempts[i].reason \in Reasons
    BY <2>1, AttemptFields
  <2>3. attempts[i].reason \in ErrorReasons(attempts)
    BY DEF ErrorReasons
  <2>4. reasonPriority[verdict] >= reasonPriority[attempts[i].reason]
    BY <1>1, <2>3, VerdictOfFailures
  <2>5. reasonPriority[verdict] <= 40
    BY DEF Retryable, reasonPriority
  <2>6. \A r \in Reasons : ~ Retryable(r) => reasonPriority[r] >= 50
    BY DEF Reasons, Retryable, reasonPriority
  <2>7. \A r \in Reasons : reasonPriority[r] \in Int
    BY DEF Reasons, reasonPriority
  <2>8. verdict \in Reasons
    BY DEF Retryable, Reasons
  <2> QED BY <2>2, <2>4, <2>5, <2>6, <2>7, <2>8
<1> QED BY <1>1, WalkTypeInvariant, PTL

\* The source a ProviderError names was contacted and, when the reason comes
\* from a failed fetch, is the first that failed with it.
THEOREM Blame == Spec => []BlameIsEarned
<1>1. ASSUME WalkType PROVE BlameIsEarned
  <2> DEFINE ran    == {i \in DOMAIN attempts : attempts[i].status # "skipped"}
             failed == {i \in DOMAIN attempts :
                          attempts[i].status = "error" /\ attempts[i].reason = verdict}
  <2>1. attempts \in Seq(Attempt)
    BY <1>1 DEF WalkType
  <2>2. /\ failed = {} => blamed = lastAttemptedSource(attempts)
        /\ failed # {} => \E i \in failed : /\ attempts[i].rung = blamed
                                            /\ \A k \in failed : i <= k
    BY <2>1, BlamedSource DEF blamed
  <2>3. /\ ran = {} => lastAttemptedSource(attempts) = 0
        /\ ran # {} => \E i \in ran : attempts[i].rung = lastAttemptedSource(attempts)
    BY <2>1, LastAttempted
  <2>4. CASE ran = {}
    <3>1. failed = {}
      BY <2>4
    <3> QED BY <2>2, <2>3, <2>4, <3>1 DEF BlameIsEarned
  <2>5. CASE ran # {} /\ failed = {}
    <3>1. verdict \notin ErrorReasons(attempts)
      BY <2>5 DEF ErrorReasons
    <3>2. PICK i \in ran : attempts[i].rung = blamed
      BY <2>2, <2>3, <2>5
    <3> QED BY <2>5, <3>1, <3>2 DEF BlameIsEarned
  <2>6. CASE failed # {}
    <3>1. PICK i \in failed : attempts[i].rung = blamed /\ \A k \in failed : i <= k
      BY <2>2, <2>6
    <3>2. ASSUME NEW k \in 1 .. i - 1, attempts[k].reason = verdict PROVE FALSE
      <4>1. k \in DOMAIN attempts
        BY <2>1
      <4>2. attempts[i] \in Attempt /\ attempts[k] \in Attempt
        BY <2>1, <4>1
      <4>3. verdict \in Reasons
        BY <4>2, AttemptFields
      <4>4. k \in failed
        BY <3>2, <4>1, <4>2, <4>3, AttemptFields
      <4>5. i \in Int /\ k \in Int /\ k < i
        BY <2>1
      <4> QED BY <3>1, <4>4, <4>5
    <3> QED BY <3>1, <3>2 DEF BlameIsEarned
  <2> QED BY <2>4, <2>5, <2>6
<1> QED BY <1>1, WalkTypeInvariant, PTL
=============================================================================

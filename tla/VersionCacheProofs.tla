------------------------- MODULE VersionCacheProofs -------------------------
(***************************************************************************)
(* The version cache, for any number of probers, upgrades, clears and      *)
(* sets: the types, single flight, and the agreement of all answers until  *)
(* somebody resets the cache.                                              *)
(***************************************************************************)
EXTENDS VersionCache, FiniteSetTheorems, TLAPS

\* Every variable holds a value of its kind, whatever the probers do.
THEOREM TypeCorrect == Spec => []TypeOK
<1>1. Init => TypeOK
  BY DEF Init, TypeOK, Labels, Nothing
<1>2. TypeOK /\ [Next]_vars => TypeOK'
  <2> SUFFICES ASSUME TypeOK, [Next]_vars PROVE TypeOK'
    OBVIOUS
  <2> USE DEF TypeOK, Labels, store, probing, Goto, Return, Nothing, Failed, Cancelled
  <2>1. CASE Upgrade
    BY <2>1 DEF Upgrade
  <2>2. CASE Clear
    BY <2>2 DEF Clear
  <2>3. CASE Set
    BY <2>3 DEF Set
  <2>4. ASSUME NEW p \in Probers, Begin(p) PROVE TypeOK'
    BY <2>4 DEF Begin
  <2>5. ASSUME NEW p \in Probers, StopWaiting(p) PROVE TypeOK'
    BY <2>5 DEF StopWaiting
  <2>6. ASSUME NEW p \in Probers, FastPath(p) PROVE TypeOK'
    BY <2>6 DEF FastPath
  <2>7. ASSUME NEW p \in Probers, SlowHit(p) PROVE TypeOK'
    BY <2>7 DEF SlowHit
  <2>8. ASSUME NEW p \in Probers, Lead(p) PROVE TypeOK'
    BY <2>8 DEF Lead
  <2>9. ASSUME NEW p \in Probers, Follow(p) PROVE TypeOK'
    BY <2>9 DEF Follow
  <2>10. ASSUME NEW p \in Probers, RunVersion(p) PROVE TypeOK'
    BY <2>10 DEF RunVersion, Result
  <2>11. ASSUME NEW p \in Probers, Store(p) PROVE TypeOK'
    BY <2>11 DEF Store, Finished
  <2>12. ASSUME NEW p \in Probers, Cleanup(p) PROVE TypeOK'
    BY <2>12 DEF Cleanup
  <2>13. ASSUME NEW p \in Probers, TakeAnswer(p) PROVE TypeOK'
    BY <2>13 DEF TakeAnswer
  <2>14. CASE UNCHANGED vars
    BY <2>14 DEF vars
  <2> QED
    BY <2>1, <2>2, <2>3, <2>4, <2>5, <2>6, <2>7, <2>8, <2>9, <2>10, <2>11, <2>12, <2>13,
       <2>14 DEF Next, ProbeStep
<1> QED BY <1>1, <1>2, PTL DEF Spec

-----------------------------------------------------------------------------
\* A lead is free to be taken: no call is registered.
Free == IF current = NoOne THEN 1 ELSE 0

\* Leaders and a free lead together: a leader's deferred delete, which may free
\* the lead of another, comes only with its own end, and a Clear pays for one.
FlightInv == Cardinality(Leaders) + Free <= clears + 1

\* There are only so many leaders as there are probers.
LEMMA LeadersFinite ==
  IsFiniteSet(Leaders) /\ Cardinality(Leaders) \in Nat
<1>1. Leaders \in SUBSET Probers
  BY DEF Leaders
<1>2. IsFiniteSet(Leaders)
  BY <1>1, ProbersAssumption, FS_Subset
<1> QED BY <1>2, FS_CardinalityType

\* Steps that neither begin nor end a lead leave Leaders and Free as they are.
LEMMA FlightStep ==
  ASSUME TypeOK, FlightInv, [Next]_vars
  PROVE  FlightInv'
<1>0. Cardinality(Leaders) \in Nat /\ IsFiniteSet(Leaders) /\ clears \in Nat
  BY LeadersFinite DEF TypeOK
<1> SUFFICES ASSUME ~ (UNCHANGED <<current, clears>> /\ Leaders' = Leaders)
             PROVE  FlightInv'
  BY DEF FlightInv, Free
<1> USE DEF store, probing, Goto, Return
<1>1. CASE Upgrade
  BY <1>1 DEF Upgrade, Leaders
<1>2. CASE Clear
  <2>1. Leaders' = Leaders /\ clears' = clears + 1 /\ Free' = 1
    BY <1>2 DEF Clear, Leaders, Free
  <2>2. Free \in {0, 1}
    BY DEF Free
  <2> QED BY <1>0, <2>1, <2>2 DEF FlightInv
<1>3. CASE Set
  BY <1>3 DEF Set, Leaders
<1>4. ASSUME NEW p \in Probers, Begin(p) PROVE FlightInv'
  BY <1>4 DEF Begin, Leaders, TypeOK
<1>5. ASSUME NEW p \in Probers, StopWaiting(p) PROVE FlightInv'
  BY <1>5 DEF StopWaiting, Leaders, TypeOK
<1>6. ASSUME NEW p \in Probers, FastPath(p) PROVE FlightInv'
  BY <1>6 DEF FastPath, Leaders, TypeOK
<1>7. ASSUME NEW p \in Probers, SlowHit(p) PROVE FlightInv'
  BY <1>7 DEF SlowHit, Leaders, TypeOK
<1>8. ASSUME NEW p \in Probers, Lead(p) PROVE FlightInv'
  <2>1. Leaders' = Leaders \cup {p} /\ p \notin Leaders
    BY <1>8 DEF Lead, MayLead, Leaders, TypeOK
  <2>2. Cardinality(Leaders') = Cardinality(Leaders) + 1
    BY <1>0, <2>1, FS_AddElement
  <2>3. Free = 1 /\ Free' = 0
    BY <1>8, NoOneAssumption DEF Lead, MayLead, Free
  <2>4. clears' = clears
    BY <1>8 DEF Lead
  <2> QED BY <1>0, <2>2, <2>3, <2>4 DEF FlightInv
<1>9. ASSUME NEW p \in Probers, Follow(p) PROVE FlightInv'
  BY <1>9 DEF Follow, Leaders, TypeOK
<1>10. ASSUME NEW p \in Probers, RunVersion(p) PROVE FlightInv'
  BY <1>10 DEF RunVersion, Leaders, TypeOK
<1>11. ASSUME NEW p \in Probers, Store(p) PROVE FlightInv'
  BY <1>11 DEF Store, Leaders, TypeOK
<1>12. ASSUME NEW p \in Probers, Cleanup(p) PROVE FlightInv'
  <2>1. Leaders' = Leaders \ {p} /\ p \in Leaders
    BY <1>12 DEF Cleanup, Leaders, TypeOK
  <2>2. Cardinality(Leaders') = Cardinality(Leaders) - 1
    BY <1>0, <2>1, FS_RemoveElement
  <2>3. Free \in {0, 1} /\ Free' = 1
    BY <1>12 DEF Cleanup, Free
  <2>4. clears' = clears
    BY <1>12 DEF Cleanup
  <2> QED BY <1>0, <2>2, <2>3, <2>4 DEF FlightInv
<1>13. ASSUME NEW p \in Probers, TakeAnswer(p) PROVE FlightInv'
  BY <1>13 DEF TakeAnswer, Leaders, TypeOK
<1>14. CASE UNCHANGED vars
  BY <1>14 DEF vars, Leaders
<1> QED
  BY <1>1, <1>2, <1>3, <1>4, <1>5, <1>6, <1>7, <1>8, <1>9, <1>10, <1>11, <1>12, <1>13,
     <1>14 DEF Next, ProbeStep

\* At most one prober runs the command, and one more for every Clear.
THEOREM AtMostOneLeader == Spec => []SingleFlight
<1>1. Init => FlightInv
  <2> SUFFICES ASSUME Init PROVE FlightInv
    OBVIOUS
  <2>1. Leaders = {}
    BY DEF Init, Leaders
  <2>2. Cardinality(Leaders) = 0
    BY <2>1, FS_EmptySet
  <2> QED BY <2>2 DEF Init, FlightInv, Free
<1>2. TypeOK /\ FlightInv /\ [Next]_vars => FlightInv'
  BY FlightStep
<1>3. TypeOK /\ FlightInv => SingleFlight
  BY LeadersFinite DEF TypeOK, FlightInv, Free, SingleFlight
<1> QED BY <1>1, <1>2, <1>3, TypeCorrect, PTL DEF Spec

-----------------------------------------------------------------------------
\* A finished call is its leader's, past the storing of its result.
CallInv == \A p \in Probers :
  /\ p \in closed => pc[p] \in {"cleanup", "returned"}
  /\ pc[p] = "cleanup" => p \in closed

\* While nobody reset the cache there is one leader at a time, it leads the
\* registered call, nothing is cached until it stores, and all that was ever
\* handed out is what is cached.
OneTruth ==
  /\ \A p \in Leaders : current = p
  /\ \A p \in Probers : pc[p] \in {"running", "storing"} => cached = Nothing
  /\ \A p \in closed : printed[p] > 0 => cached = printed[p]
  /\ \A p \in Succeeded : cached = answer[p]

AgreeInv == CallInv /\ (clears = 0 /\ sets = 0 => OneTruth)

\* With no Clear and no Set, every step keeps all answers one.
LEMMA AgreeStep ==
  ASSUME TypeOK, AgreeInv, [Next]_vars
  PROVE  AgreeInv'
<1> USE DEF store, probing, Goto, Return, Nothing, Failed, Cancelled
<1>1. CallInv'
  <2> USE DEF AgreeInv, CallInv, TypeOK
  <2>1. ASSUME NEW p \in Probers, Begin(p) \/ StopWaiting(p) \/ FastPath(p) \/ SlowHit(p)
                                  \/ Follow(p) \/ TakeAnswer(p)
        PROVE  CallInv'
    BY <2>1 DEF Begin, StopWaiting, FastPath, SlowHit, Follow, TakeAnswer
  <2>2. ASSUME NEW p \in Probers, Lead(p) \/ RunVersion(p) PROVE CallInv'
    BY <2>2 DEF Lead, MayLead, RunVersion
  <2>3. ASSUME NEW p \in Probers, Store(p) \/ Cleanup(p) PROVE CallInv'
    BY <2>3 DEF Store, Finished, Cleanup
  <2>4. CASE Upgrade \/ Clear \/ Set \/ UNCHANGED vars
    BY <2>4 DEF Upgrade, Clear, Set, vars
  <2> QED BY <2>1, <2>2, <2>3, <2>4 DEF Next, ProbeStep
<1>2. ASSUME clears' = 0, sets' = 0 PROVE OneTruth'
  <2>1. ~ Clear /\ ~ Set
    BY <1>2 DEF Clear, Set, TypeOK
  <2>2. clears = 0 /\ sets = 0
    BY <1>2, <2>1 DEF Next, ProbeStep, Upgrade, Begin, StopWaiting, FastPath, SlowHit, Lead,
       Follow, RunVersion, Store, Cleanup, TakeAnswer, vars
  <2>3. OneTruth /\ CallInv
    BY <2>2 DEF AgreeInv
  <2> USE <2>3 DEF TypeOK, OneTruth, CallInv, Leaders, Succeeded
  <2>4. ASSUME NEW p \in Probers, Begin(p) PROVE OneTruth'
    BY <2>4 DEF Begin
  <2>5. ASSUME NEW p \in Probers, StopWaiting(p) PROVE OneTruth'
    BY <2>5 DEF StopWaiting
  <2>6. ASSUME NEW p \in Probers, FastPath(p) PROVE OneTruth'
    BY <2>6 DEF FastPath
  <2>7. ASSUME NEW p \in Probers, SlowHit(p) PROVE OneTruth'
    BY <2>7 DEF SlowHit
  <2>8. ASSUME NEW p \in Probers, Lead(p) PROVE OneTruth'
    BY <2>8, NoOneAssumption DEF Lead, MayLead, SecondLook
  <2>9. ASSUME NEW p \in Probers, Follow(p) PROVE OneTruth'
    BY <2>9 DEF Follow
  <2>10. ASSUME NEW p \in Probers, RunVersion(p) PROVE OneTruth'
    BY <2>10 DEF RunVersion
  <2>11. ASSUME NEW p \in Probers, Store(p) PROVE OneTruth'
    BY <2>11 DEF Store, Finished
  <2>12. ASSUME NEW p \in Probers, Cleanup(p) PROVE OneTruth'
    BY <2>12 DEF Cleanup
  <2>13. ASSUME NEW p \in Probers, TakeAnswer(p) PROVE OneTruth'
    BY <2>13 DEF TakeAnswer
  <2>14. CASE Upgrade \/ UNCHANGED vars
    BY <2>14 DEF Upgrade, vars
  <2> QED
    BY <2>1, <2>4, <2>5, <2>6, <2>7, <2>8, <2>9, <2>10, <2>11, <2>12, <2>13, <2>14
       DEF Next, ProbeStep
<1> QED BY <1>1, <1>2 DEF AgreeInv

\* Every Probe that succeeds gives the same version until the cache is reset.
THEOREM AnswersAgree == Spec => []AgreeUnlessReset
<1>1. Init => AgreeInv
  BY DEF Init, AgreeInv, CallInv, OneTruth, Leaders, Succeeded
<1>2. TypeOK /\ AgreeInv /\ [Next]_vars => AgreeInv'
  BY AgreeStep
<1>3. AgreeInv => AgreeUnlessReset
  BY DEF AgreeInv, OneTruth, AgreeUnlessReset
<1> QED BY <1>1, <1>2, <1>3, TypeCorrect, PTL DEF Spec
=============================================================================

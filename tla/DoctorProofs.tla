---------------------------- MODULE DoctorProofs ----------------------------
(***************************************************************************)
(* A run of the doctor, for any providers, ladders, policies and answers:  *)
(* the types, the walk of one ladder, the report made of the walks, and    *)
(* that the watched provider's walk is one of module LadderWalk.           *)
(***************************************************************************)
EXTENDS Doctor, FiniteSetTheorems, TLAPS

-----------------------------------------------------------------------------
\* Where the loop over the providers is: a diagnosis is of a provider that was
\* asked for and not yet reported on, and a call is made only for a rung.
PlaceInv ==
  /\ main = "ready" => pc = "idle"
  /\ pc # "idle" => main = "running" /\ Wanted \subseteq Providers
  /\ pc \notin {"idle", "choose"} => turn \in FirstMentions \ DOMAIN report
  /\ DOMAIN report \subseteq FirstMentions
  /\ main = "reported" => pc = "idle" /\ DOMAIN report = FirstMentions
  /\ call.state # "none" => pc \in {"available", "fetch"}

\* What the walk has listed: rungs of the ladder, none twice, all of them at its
\* end, and none that it still waits on.
ListedInv ==
  /\ \A i \in DOMAIN sources : sources[i].rung \in DOMAIN ladder
  /\ \A i, k \in DOMAIN sources : sources[i].rung = sources[k].rung => i = k
  /\ pc \in {"available", "fetch"} => rung \in Untried
  /\ pc = "end" => Untried = {}

\* What gave up with the run did so after the run had ended, and so did a walk
\* that was given up.
CutInv ==
  /\ call.answer.cut = "run" => ctx # "live"
  /\ \A i \in DOMAIN sources : sources[i].cut = "run" => ctx # "live"
  /\ pc = "interrupted" => ctx # "live"

\* A diagnosis in the report is of the provider at its position, lists each rung
\* of its ladder once, and rests on no answer the end of the run brought about.
Whole(i, d) ==
  /\ d.provider = request[i]
  /\ d.whole
  /\ {d.sources[k].rung : k \in DOMAIN d.sources} = DOMAIN Declared[d.provider]
  /\ Len(d.sources) = Len(Declared[d.provider])
  /\ \A k \in DOMAIN d.sources : d.sources[k].cut # "run"

ReportInv == \A i \in DOMAIN report : Whole(i, report[i])

DoctorInv ==
  TypeOK /\ PlaceInv /\ ListedInv /\ CutInv /\ ReportInv /\ FirstSuccessIsLast /\ AdviceFits

-----------------------------------------------------------------------------
(* Constants and types.                                                    *)

\* A provider's ladder is a sequence of sources.
LEMMA LaddersAreSequences ==
  ASSUME NEW p \in Providers
  PROVE  /\ Declared[p] \in Seq(Source)
         /\ \A j \in DOMAIN Declared[p] : j \in Nat
<1>1. Declared[p] \in Seq(Source)
  BY DoctorAssumption
<1> QED BY <1>1

\* What is under diagnosis is a provider that has an adapter.
LEMMA ProviderIsKnown ==
  ASSUME PlaceInv, pc \notin {"idle", "choose"}
  PROVE  /\ provider \in Providers
         /\ main = "running"
BY DEF PlaceInv, FirstMentions, Wanted, provider

\* Advice is one of the remedies, or none.
LEMMA RemedyIsKnown ==
  ASSUME NEW p, NEW reason
  PROVE  remediationFor(p, reason) \in Remedies \cup {""}
BY DEF remediationFor, Remedies

\* What is found is judged by one of the verdicts.
LEMMA VerdictIsKnown ==
  ASSUME NEW p, NEW det \in Detection
  PROVE  CompatVerdict(p, det) \in Verdicts
BY DEF CompatVerdict, Verdicts, Detection, Versions

-----------------------------------------------------------------------------
(* Sequences and calls.                                                    *)

\* A sequence one longer, position by position.
LEMMA Grown ==
  ASSUME NEW S, NEW seq \in Seq(S), NEW x \in S, NEW longer, longer = Append(seq, x),
         NEW n, n = Len(seq) + 1
  PROVE  /\ longer \in Seq(S) /\ Len(longer) = n /\ n \in Nat
         /\ DOMAIN longer = 1 .. n /\ DOMAIN seq = 1 .. n - 1
         /\ \A i \in 1 .. n - 1 : longer[i] = seq[i]
         /\ longer[n] = x
         /\ n \in 1 .. n /\ \A i \in 1 .. n : i \in 1 .. n - 1 \/ i = n
OBVIOUS

\* A call not begun and one just begun have no answer yet.
LEMMA FreshCalls ==
  /\ UnusedCall \in Call /\ UnusedCall.answer.cut = "none" /\ UnusedCall.state = "none"
  /\ NewCall \in Call /\ NewCall.answer.cut = "none"
<1>1. NoAnswer \in Answers /\ NoAnswer.cut = "none"
  BY DEF NoAnswer, Answer, Answers, Cuts
<1> QED BY <1>1 DEF UnusedCall, NewCall, Call

\* A report nobody touches stays as true as it was.
LEMMA ReportKept ==
  ASSUME ReportInv, UNCHANGED <<request, report>>
  PROVE  ReportInv'
BY DEF ReportInv, Whole

NamesEachOnce(f, m, n) ==
  /\ f \in [1 .. m -> 1 .. n]
  /\ \A i, k \in 1 .. m : f[i] = f[k] => i = k
  /\ \A j \in 1 .. n : \E i \in 1 .. m : f[i] = j

\* A list that names each rung of a ladder once is as long as the ladder.
LEMMA EachOnce ==
  ASSUME NEW n \in Nat, NEW m \in Nat, NEW f, NamesEachOnce(f, m, n)
  PROVE  m = n
<1>1. f \in Surjection(1 .. m, 1 .. n) /\ f \in Injection(1 .. m, 1 .. n)
  BY DEF NamesEachOnce, Surjection, Injection, IsInjective
<1>2. /\ IsFiniteSet(1 .. m) /\ Cardinality(1 .. m) = m
      /\ IsFiniteSet(1 .. n) /\ Cardinality(1 .. n) = n
  <2>1. /\ IsFiniteSet(1 .. m) /\ Cardinality(1 .. m) = IF 1 > m THEN 0 ELSE m - 1 + 1
        /\ IsFiniteSet(1 .. n) /\ Cardinality(1 .. n) = IF 1 > n THEN 0 ELSE n - 1 + 1
    BY FS_Interval
  <2> QED BY <2>1
<1>3. Cardinality(1 .. n) = Cardinality(1 .. m)
  BY <1>1, <1>2, FS_Surjection
<1> QED BY <1>2, <1>3

-----------------------------------------------------------------------------
(* Listing a rung.                                                         *)

\* A step that lists rung j: the doctor is at the ladder and has not listed it,
\* and nothing but a skipped rung comes after one that worked.
ListsNow(j, status, reason, cut) ==
  /\ pc \in {"ladder", "available", "fetch"}
  /\ j \in Untried
  /\ status \in Statuses /\ reason \in Reasons \cup {""} /\ cut \in Cuts
  /\ cut = "run" => ctx # "live"
  /\ higherTierSucceeded => status = "skipped"
  /\ List(j, status, reason, cut)
  /\ rung' = rung
  /\ call' = UnusedCall \/ (call' = call /\ pc = "ladder")

\* Listing a rung, with its remedy, keeps the invariant.
LEMMA ListStep ==
  ASSUME DoctorInv, NEW j, NEW status, NEW reason, NEW cut, ListsNow(j, status, reason, cut)
  PROVE  DoctorInv'
<1> DEFINE s == [rung |-> j, status |-> status, reason |-> reason, cut |-> cut]
<1>0. PICK n \in Nat \ {0} : n = Len(sources) + 1
  <2>1. sources \in Seq(SourceReport)
    BY DEF DoctorInv, TypeOK
  <2> QED BY <2>1
<1>1. provider \in Providers /\ j \in DOMAIN ladder /\ j \in Nat
  BY ProviderIsKnown, LaddersAreSequences DEF DoctorInv, Untried, ladder, ListsNow
<1>2. s \in SourceReport
  BY <1>1 DEF SourceReport, ListsNow
<1>3. sources \in Seq(SourceReport) /\ sources' = Append(sources, s)
  BY DEF DoctorInv, TypeOK, ListsNow, List, Listed, s
<1>4. s.rung = j /\ s.status = status /\ s.reason = reason /\ s.cut = cut
  OBVIOUS
<1>5. /\ pc' = "ladder" /\ UNCHANGED <<options, ctx, main, turn, found, report, rung>>
      /\ pc \in {"ladder", "available", "fetch"}
      /\ call' = UnusedCall \/ (call' = call /\ pc = "ladder")
  BY DEF ListsNow, List
<1> HIDE DEF s
<1>6. /\ sources' \in Seq(SourceReport) /\ Len(sources') = n
      /\ DOMAIN sources' = 1 .. n /\ DOMAIN sources = 1 .. n - 1
      /\ \A i \in 1 .. n - 1 : sources'[i] = sources[i]
      /\ sources'[n] = s
      /\ n \in 1 .. n /\ \A i \in 1 .. n : i \in 1 .. n - 1 \/ i = n
  BY <1>0, <1>2, <1>3, Grown
<1>7. provider' = provider /\ ladder' = ladder
  BY <1>5 DEF provider, ladder, options
<1>8. TypeOK'
  <2>1. nextSteps' \in Seq(Remedies)
    <3>1. PICK step : step = IF reason = "" THEN "" ELSE remediationFor(provider, reason)
      OBVIOUS
    <3>2. nextSteps' = IF IsNew(step) THEN Append(nextSteps, step) ELSE nextSteps
      BY <3>1 DEF ListsNow, List
    <3>3. nextSteps \in Seq(Remedies)
      BY DEF DoctorInv, TypeOK
    <3>4. IsNew(step) => step \in Remedies
      BY <3>1, RemedyIsKnown DEF IsNew
    <3> QED BY <3>2, <3>3, <3>4
  <2>2. call' \in Call
    BY <1>5, FreshCalls DEF DoctorInv, TypeOK
  <2> QED BY <1>5, <1>6, <2>1, <2>2 DEF DoctorInv, TypeOK, options
<1>9. PlaceInv'
  <2>1. call'.state = "none"
    BY <1>5, FreshCalls DEF DoctorInv, PlaceInv
  <2> QED BY <1>5, <2>1 DEF DoctorInv, PlaceInv, options, Wanted, FirstMentions
<1>10. ListedInv'
  <2>1. \A i \in DOMAIN sources : sources[i].rung # j
    BY DEF Untried, ListsNow
  <2>2. \A i \in DOMAIN sources' : sources'[i].rung \in DOMAIN ladder
    BY <1>1, <1>4, <1>6 DEF DoctorInv, ListedInv
  <2>3. \A i, k \in DOMAIN sources' : sources'[i].rung = sources'[k].rung => i = k
    BY <1>4, <1>6, <2>1 DEF DoctorInv, ListedInv
  <2> QED BY <1>5, <1>7, <2>2, <2>3 DEF ListedInv
<1>11. CutInv'
  <2>1. call'.answer.cut = "run" => ctx # "live"
    BY <1>5, FreshCalls DEF DoctorInv, CutInv
  <2>2. \A i \in DOMAIN sources' : sources'[i].cut = "run" => ctx # "live"
    BY <1>4, <1>6 DEF DoctorInv, CutInv, ListsNow
  <2> QED BY <1>5, <2>1, <2>2 DEF CutInv
<1>12. ReportInv'
  BY <1>5, ReportKept DEF DoctorInv, options
<1>13. FirstSuccessIsLast'
  <2> SUFFICES ASSUME NEW i \in 1 .. n, sources'[i].status = "success",
                      NEW k \in i + 1 .. n
               PROVE  sources'[k].status = "skipped"
    BY <1>5, <1>6 DEF FirstSuccessIsLast
  <2>1. i \in 1 .. n - 1 /\ k \in 1 .. n
    BY <1>0
  <2>2. sources[i].status = "success" /\ status = "skipped"
    BY <1>6, <2>1 DEF ListsNow, higherTierSucceeded
  <2>3. CASE k = n
    BY <1>4, <1>6, <2>2, <2>3
  <2>4. CASE k # n
    <3>1. k \in 1 .. n - 1 /\ k \in i + 1 .. Len(sources)
      BY <1>0, <1>3, <2>1, <2>4
    <3>2. sources[k].status = "skipped"
      BY <1>6, <2>1, <2>2, <3>1 DEF DoctorInv, FirstSuccessIsLast
    <3> QED BY <1>6, <3>1, <3>2
  <2> QED BY <2>3, <2>4
<1>14. AdviceFits'
  <2>1. PICK step : step = IF reason = "" THEN "" ELSE remediationFor(provider, reason)
    OBVIOUS
  <2>2. nextSteps' = IF IsNew(step) THEN Append(nextSteps, step) ELSE nextSteps
    BY <2>1 DEF ListsNow, List
  <2> DEFINE due  == {remediationFor(provider, sources[i].reason) :
                        i \in {k \in DOMAIN sources : sources[k].reason # ""}} \ {""}
             dueNow == {remediationFor(provider, sources'[i].reason) :
                          i \in {k \in DOMAIN sources' : sources'[k].reason # ""}} \ {""}
  <2>3. dueNow = due \cup ({step} \ {""})
    <3>1. due \subseteq dueNow
      <4>1. \A i \in 1 .. n - 1 : i \in 1 .. n
        BY <1>0
      <4>2. ASSUME NEW i \in DOMAIN sources, sources[i].reason # ""
            PROVE  /\ i \in DOMAIN sources' /\ sources'[i].reason # ""
                   /\ sources'[i].reason = sources[i].reason
        BY <1>6, <4>1, <4>2
      <4> QED BY <4>2
    <3>2. step # "" => step \in dueNow
      BY <1>0, <1>4, <1>6, <2>1
    <3>3. \A i \in 1 .. n : i \in 1 .. n - 1 \/ i = n
      BY <1>0
    <3>4. dueNow \subseteq due \cup ({step} \ {""})
      BY <1>0, <1>4, <1>6, <2>1, <3>3
    <3> QED BY <3>1, <3>2, <3>4
  <2>4. Advised = due /\ \A i, k \in DOMAIN nextSteps : nextSteps[i] = nextSteps[k] => i = k
    BY DEF DoctorInv, AdviceFits
  <2> HIDE DEF due, dueNow
  <2>5. /\ Advised' = dueNow
        /\ \A i, k \in DOMAIN nextSteps' : nextSteps'[i] = nextSteps'[k] => i = k
    <3>1. CASE IsNew(step)
      <4>1. nextSteps \in Seq(Remedies)
        BY DEF DoctorInv, TypeOK
      <4>2. PICK m \in Nat \ {0} : m = Len(nextSteps) + 1
        BY <4>1
      <4>3. step \in Remedies
        BY <2>1, <3>1, RemedyIsKnown DEF IsNew
      <4>4. /\ DOMAIN nextSteps' = 1 .. m /\ DOMAIN nextSteps = 1 .. m - 1
            /\ \A i \in 1 .. m - 1 : nextSteps'[i] = nextSteps[i]
            /\ nextSteps'[m] = step
        BY <2>2, <3>1, <4>1, <4>2, <4>3, Grown
      <4>5. \A i \in 1 .. m - 1 : nextSteps[i] # step
        BY <3>1, <4>4 DEF IsNew, Advised
      <4>6. \A i \in 1 .. m : i \in 1 .. m - 1 \/ i = m
        OBVIOUS
      <4>7. m \in 1 .. m /\ \A i \in 1 .. m - 1 : i \in 1 .. m
        OBVIOUS
      <4>8. Advised' = Advised \cup {step}
        BY <4>4, <4>6, <4>7 DEF Advised
      <4>9. \A i, k \in DOMAIN nextSteps' : nextSteps'[i] = nextSteps'[k] => i = k
        BY <2>4, <4>4, <4>5, <4>6
      <4> QED BY <2>3, <2>4, <3>1, <4>8, <4>9 DEF IsNew
    <3>2. CASE ~ IsNew(step)
      BY <2>2, <2>3, <2>4, <3>2 DEF IsNew, Advised
    <3> QED BY <3>1, <3>2
  <2> QED BY <1>7, <2>5 DEF AdviceFits, dueNow
<1> QED BY <1>8, <1>9, <1>10, <1>11, <1>12, <1>13, <1>14 DEF DoctorInv

\* How a listed rung ended: the next one was skipped, or the one waited on ended
\* in one of the other ways.
EndsRung(j, status, reason) ==
  \/ status = "skipped" /\ NextRung(j) /\ Skips(j)
  \/ /\ pc \in {"available", "fetch"} /\ j = rung
     /\ status \in {"unavailable", "timeout", "error", "success"}
     /\ status = "error" => reason \in Reasons

Lists == \E j, status, reason, cut :
  ListsNow(j, status, reason, cut) /\ EndsRung(j, status, reason)

\* So does any way to list one.
LEMMA ListsStep == DoctorInv /\ Lists => DoctorInv'
BY ListStep DEF Lists

-----------------------------------------------------------------------------
(* The steps that list nothing.                                            *)

\* What such a step leaves of the invariant whatever else it does.
LEMMA QuietStep ==
  ASSUME DoctorInv, UNCHANGED <<options, turn, sources, nextSteps, report>>
  PROVE  /\ ReportInv' /\ AdviceFits'
         /\ provider' = provider /\ ladder' = ladder /\ Untried' = Untried
         /\ Wanted' = Wanted /\ FirstMentions' = FirstMentions
         /\ \/ pc' \notin {"available", "fetch"} \/ pc \in {"available", "fetch"}
            \/ ~ higherTierSucceeded
            => FirstSuccessIsLast'
<1>1. ReportInv'
  BY ReportKept DEF DoctorInv, options
<1>2. provider' = provider /\ ladder' = ladder
  BY DEF provider, ladder, options
<1>3. AdviceFits'
  BY <1>2 DEF DoctorInv, AdviceFits, Advised
<1>4. Untried' = Untried
  BY <1>2 DEF Untried
<1>5. Wanted' = Wanted /\ FirstMentions' = FirstMentions
  BY DEF Wanted, FirstMentions, options
<1>6. ASSUME \/ pc' \notin {"available", "fetch"} \/ pc \in {"available", "fetch"}
             \/ ~ higherTierSucceeded
      PROVE  FirstSuccessIsLast'
  BY <1>6 DEF DoctorInv, FirstSuccessIsLast, higherTierSucceeded
<1> QED BY <1>1, <1>2, <1>3, <1>4, <1>5, <1>6

\* The run's context ends.
LEMMA InterruptStep == DoctorInv /\ Interrupt => DoctorInv'
<1> SUFFICES ASSUME DoctorInv, Interrupt PROVE DoctorInv'
  OBVIOUS
<1>1. /\ ctx' \in {"canceled", "deadline"}
      /\ UNCHANGED <<options, main, turn, pc, walk, call, report>>
  BY DoctorAssumption DEF Interrupt
<1>2. /\ ReportInv' /\ AdviceFits' /\ FirstSuccessIsLast'
      /\ ladder' = ladder /\ Untried' = Untried
      /\ Wanted' = Wanted /\ FirstMentions' = FirstMentions
  BY <1>1, QuietStep DEF walk
<1>3. TypeOK'
  BY <1>1 DEF DoctorInv, TypeOK, options, walk
<1>4. PlaceInv'
  BY <1>1, <1>2 DEF DoctorInv, PlaceInv, options
<1>5. ListedInv'
  BY <1>1, <1>2 DEF DoctorInv, ListedInv, walk
<1>6. CutInv'
  BY <1>1 DEF DoctorInv, CutInv, walk
<1> QED BY <1>2, <1>3, <1>4, <1>5, <1>6 DEF DoctorInv

\* The run begins, or is refused.
LEMMA StartStep == DoctorInv /\ Start => DoctorInv'
<1> SUFFICES ASSUME DoctorInv, Start PROVE DoctorInv'
  OBVIOUS
<1>1. /\ pc = "idle" /\ pc' \in {"idle", "choose"}
      /\ UNCHANGED <<options, ctx, turn, walk, call, report>>
      /\ \/ main' = "failed" /\ pc' = "idle"
         \/ main' = "running" /\ Wanted \subseteq Providers
  BY DEF DoctorInv, PlaceInv, Start
<1>2. /\ ReportInv' /\ AdviceFits' /\ FirstSuccessIsLast'
      /\ ladder' = ladder /\ Untried' = Untried
      /\ Wanted' = Wanted /\ FirstMentions' = FirstMentions
  BY <1>1, QuietStep DEF walk
<1>3. TypeOK'
  BY <1>1 DEF DoctorInv, TypeOK, options, walk
<1>4. PlaceInv'
  BY <1>1, <1>2 DEF DoctorInv, PlaceInv
<1>5. ListedInv'
  BY <1>1, <1>2 DEF DoctorInv, ListedInv, walk
<1>6. CutInv'
  BY <1>1 DEF DoctorInv, CutInv, walk
<1> QED BY <1>2, <1>3, <1>4, <1>5, <1>6 DEF DoctorInv

\* The next provider's turn comes, with empty lists.
LEMMA ChooseStep == DoctorInv /\ Choose => DoctorInv'
<1> SUFFICES ASSUME DoctorInv, Choose PROVE DoctorInv'
  OBVIOUS
<1>1. UNCHANGED <<options, ctx, call, report>>
  BY DEF Choose
<1>2. ReportInv'
  BY <1>1, ReportKept DEF DoctorInv, options
<1>3. Wanted' = Wanted /\ FirstMentions' = FirstMentions
  BY <1>1 DEF Wanted, FirstMentions, options
<1>4. CASE ctx # "live"
  <2>1. /\ pc = "choose" /\ main' = "failed" /\ pc' = "idle"
        /\ UNCHANGED <<turn, walk>>
    BY <1>4 DEF Choose
  <2>2. AdviceFits' /\ FirstSuccessIsLast' /\ ladder' = ladder /\ Untried' = Untried
    BY <1>1, <2>1, QuietStep DEF walk
  <2>3. TypeOK'
    BY <1>1, <2>1 DEF DoctorInv, TypeOK, options, walk
  <2>4. PlaceInv'
    BY <1>1, <1>3, <2>1 DEF DoctorInv, PlaceInv
  <2>5. ListedInv'
    BY <1>1, <2>1, <2>2 DEF DoctorInv, ListedInv, walk
  <2>6. CutInv'
    BY <1>1, <2>1 DEF DoctorInv, CutInv, walk
  <2> QED BY <1>2, <2>2, <2>3, <2>4, <2>5, <2>6 DEF DoctorInv
<1>5. CASE ctx = "live"
  <2>1. /\ turn' \in Waiting /\ pc' = "enter" /\ UNCHANGED main
        /\ found' = Absent /\ rung' = 0 /\ sources' = <<>> /\ nextSteps' = <<>>
        /\ pc = "choose"
    BY <1>5 DEF Choose
  <2>2. turn' \in Nat
    BY <2>1, DoctorAssumption DEF DoctorInv, TypeOK, Waiting, FirstMentions
  <2>3. Absent \in Detection
    BY DEF Absent, Detection, Versions
  <2>4. TypeOK'
    BY <1>1, <2>1, <2>2, <2>3 DEF DoctorInv, TypeOK, options
  <2>5. PlaceInv'
    BY <1>1, <1>3, <2>1 DEF DoctorInv, PlaceInv, Waiting
  <2>6. DOMAIN sources' = {} /\ DOMAIN nextSteps' = {}
    BY <2>1
  <2>7. ListedInv'
    BY <2>1, <2>6 DEF ListedInv
  <2>8. CutInv'
    BY <1>1, <2>1, <2>6 DEF DoctorInv, CutInv
  <2>9. AdviceFits'
    BY <2>6 DEF AdviceFits, Advised
  <2>10. FirstSuccessIsLast'
    BY <2>6 DEF FirstSuccessIsLast
  <2> QED BY <1>2, <2>4, <2>5, <2>7, <2>8, <2>9, <2>10 DEF DoctorInv
<1> QED BY <1>4, <1>5

\* No provider waits any more.
LEMMA FinishStep == DoctorInv /\ Finish => DoctorInv'
<1> SUFFICES ASSUME DoctorInv, Finish PROVE DoctorInv'
  OBVIOUS
<1>1. /\ pc = "choose" /\ Waiting = {} /\ main' = "reported" /\ pc' = "idle"
      /\ UNCHANGED <<options, ctx, turn, walk, call, report>>
  BY DEF Finish
<1>2. /\ ReportInv' /\ AdviceFits' /\ FirstSuccessIsLast'
      /\ ladder' = ladder /\ Untried' = Untried
      /\ Wanted' = Wanted /\ FirstMentions' = FirstMentions
  BY <1>1, QuietStep DEF walk
<1>3. TypeOK'
  BY <1>1 DEF DoctorInv, TypeOK, options, walk
<1>4. PlaceInv'
  <2>1. DOMAIN report = FirstMentions
    BY <1>1 DEF DoctorInv, PlaceInv, Waiting
  <2> QED BY <1>1, <1>2, <2>1 DEF DoctorInv, PlaceInv
<1>5. ListedInv'
  BY <1>1, <1>2 DEF DoctorInv, ListedInv, walk
<1>6. CutInv'
  BY <1>1 DEF DoctorInv, CutInv, walk
<1> QED BY <1>2, <1>3, <1>4, <1>5, <1>6 DEF DoctorInv

-----------------------------------------------------------------------------
(* The walk's other steps.                                                 *)

\* The steps in a diagnosis that list nothing, with what they may do to the place
\* the walk is at, the rung it waits on and its call.
StaysInWalk ==
  /\ pc \notin {"idle", "choose"}
  /\ pc' \in {"enter", "detect", "ladder", "available", "fetch", "end", "interrupted"}
  /\ UNCHANGED <<options, ctx, main, turn, sources, nextSteps, report>>
  /\ found' \in Detection
  /\ rung' \in Nat
  /\ call' \in Call
  /\ call'.state # "none" => pc' \in {"available", "fetch"}
  /\ call'.answer.cut = "run" => ctx # "live"
  /\ pc' = "interrupted" => ctx # "live"
  /\ pc' = "end" => Untried = {}
  /\ pc' \in {"available", "fetch"} =>
       /\ rung' \in Untried
       /\ pc \in {"available", "fetch"} \/ ~ higherTierSucceeded

\* A step inside a diagnosis that lists nothing.
LEMMA InWalkStep == DoctorInv /\ StaysInWalk => DoctorInv'
<1> SUFFICES ASSUME DoctorInv, StaysInWalk PROVE DoctorInv'
  OBVIOUS
<1>1. /\ pc \notin {"idle", "choose"}
      /\ pc' \in {"enter", "detect", "ladder", "available", "fetch", "end", "interrupted"}
      /\ UNCHANGED <<options, ctx, main, turn, sources, nextSteps, report>>
  BY DEF StaysInWalk
<1>2. /\ ReportInv' /\ AdviceFits' /\ FirstSuccessIsLast'
      /\ ladder' = ladder /\ Untried' = Untried
      /\ Wanted' = Wanted /\ FirstMentions' = FirstMentions
  BY <1>1, QuietStep DEF StaysInWalk
<1>3. TypeOK'
  BY <1>1 DEF DoctorInv, TypeOK, options, StaysInWalk
<1>4. PlaceInv'
  BY <1>1, <1>2 DEF DoctorInv, PlaceInv, StaysInWalk
<1>5. ListedInv'
  BY <1>1, <1>2 DEF DoctorInv, ListedInv, StaysInWalk
<1>6. CutInv'
  BY <1>1 DEF DoctorInv, CutInv, StaysInWalk
<1> QED BY <1>2, <1>3, <1>4, <1>5, <1>6 DEF DoctorInv

\* The diagnosis begins.
LEMMA EnterStep == DoctorInv /\ Enter => DoctorInv'
<1>1. DoctorInv /\ Enter => StaysInWalk
  BY DEF DoctorInv, TypeOK, PlaceInv, CutInv, Enter, StaysInWalk, walk
<1> QED BY <1>1, InWalkStep

\* Detection ends.
LEMMA DetectStep == DoctorInv /\ DetectReturns => DoctorInv'
<1>1. Absent \in Detection
  BY DEF Absent, Detection, Versions
<1>2. DoctorInv /\ DetectReturns => StaysInWalk
  BY <1>1, DoctorAssumption DEF DoctorInv, TypeOK, PlaceInv, CutInv, DetectReturns, StaysInWalk
<1> QED BY <1>2, InWalkStep

\* The walk finds the context ended between two rungs.
LEMMA AbandonStep == DoctorInv /\ AbandonWalk => DoctorInv'
<1>1. DoctorInv /\ AbandonWalk => StaysInWalk
  BY DEF DoctorInv, TypeOK, PlaceInv, CutInv, AbandonWalk, StaysInWalk, walk
<1> QED BY <1>1, InWalkStep

\* Available is asked of the next rung.
LEMMA ProbeStep == DoctorInv /\ ProbeRung => DoctorInv'
<1> SUFFICES ASSUME DoctorInv, ProbeRung PROVE DoctorInv'
  OBVIOUS
<1>1. PICK j \in DOMAIN ladder : NextRung(j) /\ ~ Skips(j) /\ rung' = j
  BY DEF ProbeRung
<1>2. pc = "ladder" /\ j \in Untried /\ ~ higherTierSucceeded
  BY <1>1 DEF ProbeRung, NextRung, Skips
<1>3. j \in Nat
  BY <1>1, <1>2, ProviderIsKnown, LaddersAreSequences DEF DoctorInv, ladder
<1>4. StaysInWalk
  BY <1>1, <1>2, <1>3, FreshCalls DEF DoctorInv, TypeOK, ProbeRung, StaysInWalk
<1> QED BY <1>4, InWalkStep

\* The source is available, and Fetch is called.
LEMMA FetchBeginsStep == DoctorInv /\ FetchBegins => DoctorInv'
<1>1. DoctorInv /\ FetchBegins => StaysInWalk
  BY FreshCalls DEF DoctorInv, TypeOK, ListedInv, FetchBegins, StaysInWalk, walk
<1> QED BY <1>1, InWalkStep

\* All rungs have been listed.
LEMMA EndWalkStep == DoctorInv /\ EndWalk => DoctorInv'
<1>1. DoctorInv /\ EndWalk => StaysInWalk
  BY DEF DoctorInv, TypeOK, PlaceInv, CutInv, EndWalk, StaysInWalk, walk
<1> QED BY <1>1, InWalkStep

\* A rung is listed without having been tried.
LEMMA SkipLists == DoctorInv /\ SkipRung => Lists
<1> SUFFICES ASSUME DoctorInv, SkipRung PROVE Lists
  OBVIOUS
<1>1. PICK j \in DOMAIN ladder : NextRung(j) /\ Skips(j) /\ List(j, "skipped", "", "none")
  BY DEF SkipRung
<1>2. ListsNow(j, "skipped", "", "none")
  BY <1>1 DEF SkipRung, NextRung, ListsNow, Statuses, Cuts
<1> QED BY <1>1, <1>2 DEF Lists, EndsRung

\* While a rung is waited on none has worked, and the rung is not yet listed.
LEMMA WaitingOnARung ==
  ASSUME DoctorInv, pc \in {"available", "fetch"}
  PROVE  ~ higherTierSucceeded /\ rung \in Untried
BY DEF DoctorInv, FirstSuccessIsLast, ListedInv, higherTierSucceeded

\* What an answer holds is of its kind.
LEMMA AnswersAreTyped ==
  ASSUME DoctorInv
  PROVE  /\ call.answer.cut \in Cuts
         /\ call.answer.reason \in Reasons \cup {""}
         /\ call.answer.cut = "run" => ctx # "live"
BY DEF DoctorInv, TypeOK, CutInv, Call, Answers

\* A source that is not available is listed as that.
LEMMA NotAvailableLists == DoctorInv /\ NotAvailable => Lists
<1> SUFFICES ASSUME DoctorInv, NotAvailable PROVE Lists
  OBVIOUS
<1>1. PICK j, reason, cut :
        /\ j = rung /\ cut = call.answer.cut
        /\ reason = IF found.installed THEN "not_authenticated" ELSE "not_installed"
  OBVIOUS
<1>2. /\ ListsNow(j, "unavailable", reason, cut)
      /\ reason \in Reasons /\ pc \in {"available", "fetch"}
  <2>1. List(j, "unavailable", reason, cut)
    BY <1>1 DEF NotAvailable
  <2>2. pc \in {"available", "fetch"}
    BY DEF NotAvailable
  <2>3. reason \in Reasons
    BY <1>1 DEF Reasons
  <2>4. cut \in Cuts /\ (cut = "run" => ctx # "live")
    BY <1>1, AnswersAreTyped
  <2>5. j \in Untried /\ ~ higherTierSucceeded
    BY <1>1, <2>2, WaitingOnARung
  <2> QED BY <2>1, <2>2, <2>3, <2>4, <2>5 DEF ListsNow, NotAvailable, Statuses
<1> QED BY <1>1, <1>2 DEF Lists, EndsRung

\* A fetch that failed is listed with its reason.
LEMMA FetchFailsLists == DoctorInv /\ FetchFails => Lists
<1> SUFFICES ASSUME DoctorInv, FetchFails PROVE Lists
  OBVIOUS
<1>1. PICK j, reason, cut :
        /\ j = rung /\ cut = call.answer.cut
        /\ reason = ReasonOrUpstream(call.answer.reason)
  OBVIOUS
<1>2. /\ ListsNow(j, "error", reason, cut)
      /\ reason \in Reasons /\ pc \in {"available", "fetch"}
  <2>1. List(j, "error", reason, cut)
    BY <1>1 DEF FetchFails
  <2>2. pc \in {"available", "fetch"}
    BY DEF FetchFails
  <2>3. reason \in Reasons
    BY <1>1, AnswersAreTyped DEF ReasonOrUpstream, Reasons
  <2>4. cut \in Cuts /\ (cut = "run" => ctx # "live")
    BY <1>1, AnswersAreTyped
  <2>5. j \in Untried /\ ~ higherTierSucceeded
    BY <1>1, <2>2, WaitingOnARung
  <2> QED BY <2>1, <2>2, <2>3, <2>4, <2>5 DEF ListsNow, FetchFails, Statuses
<1> QED BY <1>1, <1>2 DEF Lists, EndsRung

\* A fetch that worked is listed as a success.
LEMMA FetchSucceedsLists == DoctorInv /\ FetchSucceeds => Lists
<1> SUFFICES ASSUME DoctorInv, FetchSucceeds PROVE Lists
  OBVIOUS
<1>1. PICK j : j = rung
  OBVIOUS
<1>2. ListsNow(j, "success", "", "none") /\ pc \in {"available", "fetch"}
  <2>1. List(j, "success", "", "none")
    BY <1>1 DEF FetchSucceeds
  <2>2. pc \in {"available", "fetch"}
    BY DEF FetchSucceeds
  <2>3. j \in Untried /\ ~ higherTierSucceeded
    BY <1>1, <2>2, WaitingOnARung
  <2> QED BY <2>1, <2>2, <2>3 DEF ListsNow, FetchSucceeds, Statuses, Cuts
<1>3. EndsRung(j, "success", "")
  BY <1>1, <1>2 DEF EndsRung
<1> QED BY <1>2, <1>3 DEF Lists

\* A rung that ran out of time is listed, unless the run itself has ended.
LEMMA TimesOutStep ==
  DoctorInv /\ RungTimesOut =>
    \/ Lists
    \/ StaysInWalk /\ pc' = "interrupted"
<1> SUFFICES ASSUME DoctorInv, RungTimesOut
             PROVE  Lists \/ (StaysInWalk /\ pc' = "interrupted")
  OBVIOUS
<1>1. /\ pc \in {"available", "fetch"}
      /\ call' = UnusedCall /\ rung' = rung
  BY DEF RungTimesOut
<1>2. CASE ctx # "live"
  BY <1>1, <1>2, FreshCalls DEF DoctorInv, TypeOK, RungTimesOut, StaysInWalk
<1>3. CASE ctx = "live"
  <2>1. PICK j : j = rung
    OBVIOUS
  <2>2. List(j, "timeout", "timeout", "none")
    BY <1>3, <2>1 DEF RungTimesOut
  <2>3. j \in Untried /\ ~ higherTierSucceeded
    BY <1>1, <2>1, WaitingOnARung
  <2>4. ListsNow(j, "timeout", "timeout", "none")
    BY <1>1, <2>2, <2>3 DEF ListsNow, Statuses, Cuts, Reasons
  <2> QED BY <1>1, <2>1, <2>4 DEF Lists, EndsRung
<1> QED BY <1>2, <1>3

-----------------------------------------------------------------------------
(* The goroutine the walk waits for.                                       *)

\* An answer that is the run's end's doing comes after it.
LEMMA SayStep ==
  ASSUME DoctorInv, NEW a \in Answers, Say(a), pc \in {"available", "fetch"},
         a.cut = "run" => ctx # "live"
  PROVE  DoctorInv'
<1>1. call' = [call EXCEPT !.state = "answered", !.answer = a] /\ call \in Call
  BY DEF Say, DoctorInv, TypeOK
<1>2. call' \in Call /\ call'.answer = a
  BY <1>1 DEF Call
<1>3. StaysInWalk
  BY <1>2 DEF DoctorInv, TypeOK, CutInv, ListedInv, PlaceInv, Say, StaysInWalk, walk
<1> QED BY <1>3, InWalkStep

\* The source answers.
LEMMA AnswersStep == DoctorInv /\ SourceAnswers => DoctorInv'
<1> SUFFICES ASSUME DoctorInv, SourceAnswers PROVE DoctorInv'
  OBVIOUS
<1>1. CASE \E kind \in {"yes", "no"} : Say(Answer(kind, "", "none")) /\ pc = "available"
  <2>1. PICK kind \in {"yes", "no"} : Say(Answer(kind, "", "none")) /\ pc = "available"
    BY <1>1
  <2>2. Answer(kind, "", "none") \in Answers /\ Answer(kind, "", "none").cut = "none"
    BY DEF Answer, Answers, Cuts
  <2> QED BY <2>1, <2>2, SayStep
<1>2. CASE pc = "fetch" /\ Say(Answer("report", "", "none"))
  <2>1. Answer("report", "", "none") \in Answers /\ Answer("report", "", "none").cut = "none"
    BY DEF Answer, Answers, Cuts
  <2> QED BY <1>2, <2>1, SayStep
<1>3. CASE \E reason \in FetchErrors : Say(Answer("error", reason, "none")) /\ pc = "fetch"
  <2>1. PICK reason \in FetchErrors : Say(Answer("error", reason, "none")) /\ pc = "fetch"
    BY <1>3
  <2>2. /\ Answer("error", reason, "none") \in Answers
        /\ Answer("error", reason, "none").cut = "none"
    BY DoctorAssumption DEF Answer, Answers, Cuts
  <2> QED BY <2>1, <2>2, SayStep
<1> QED BY <1>1, <1>2, <1>3 DEF SourceAnswers

\* The source notices the end of its context.
LEMMA GiveUpStep == DoctorInv /\ GiveUp => DoctorInv'
<1> SUFFICES ASSUME DoctorInv, GiveUp PROVE DoctorInv'
  OBVIOUS
<1>1. PICK cut : cut = IF call.ctx = "expired" THEN "deadline" ELSE "run"
  OBVIOUS
<1>2. cut \in {"deadline", "run"} /\ (cut = "run" => ctx # "live")
  BY <1>1 DEF GiveUp, CtxDone
<1>3. CASE pc = "fetch"
  <2>1. PICK reason : reason = IF cut = "deadline" \/ ctx = "deadline" THEN "timeout" ELSE ""
    OBVIOUS
  <2>2. Say(Answer("error", reason, cut))
    BY <1>1, <1>3, <2>1 DEF GiveUp
  <2>3. Answer("error", reason, cut) \in Answers /\ Answer("error", reason, cut).cut = cut
    BY <1>2, <2>1 DEF Answer, Answers, Cuts, Reasons
  <2> QED BY <1>2, <1>3, <2>2, <2>3, SayStep
<1>4. CASE pc # "fetch"
  <2>1. Say(Answer("no", "", cut)) /\ pc = "available"
    BY <1>1, <1>4 DEF GiveUp, Say, DoctorInv, PlaceInv
  <2>2. Answer("no", "", cut) \in Answers /\ Answer("no", "", cut).cut = cut
    BY <1>2 DEF Answer, Answers, Cuts
  <2> QED BY <1>2, <2>1, <2>2, SayStep
<1> QED BY <1>3, <1>4

\* The rung's timer fires.
LEMMA ExpireStep == DoctorInv /\ Expire => DoctorInv'
<1> SUFFICES ASSUME DoctorInv, Expire PROVE DoctorInv'
  OBVIOUS
<1>1. call' = [call EXCEPT !.ctx = "expired"] /\ call \in Call
  BY DEF Expire, DoctorInv, TypeOK
<1>2. call' \in Call /\ call'.answer = call.answer
  BY <1>1 DEF Call
<1>3. StaysInWalk
  BY <1>2 DEF DoctorInv, TypeOK, CutInv, ListedInv, PlaceInv, Expire, StaysInWalk, walk
<1> QED BY <1>3, InWalkStep

-----------------------------------------------------------------------------
(* A diagnosis goes into the report.                                       *)

\* A walk that came to its end has listed every rung of the ladder once.
LEMMA WalkIsWhole ==
  ASSUME DoctorInv, pc = "end"
  PROVE  /\ {sources[k].rung : k \in DOMAIN sources} = DOMAIN ladder
         /\ Len(sources) = Len(ladder)
<1>1. sources \in Seq(SourceReport) /\ ladder \in Seq(Source)
  BY ProviderIsKnown, LaddersAreSequences DEF DoctorInv, TypeOK, ladder
<1>2. /\ \A i \in DOMAIN sources : sources[i].rung \in DOMAIN ladder
      /\ \A i, k \in DOMAIN sources : sources[i].rung = sources[k].rung => i = k
      /\ DOMAIN ladder \ {sources[i].rung : i \in DOMAIN sources} = {}
  BY DEF DoctorInv, ListedInv, Untried
<1>3. {sources[k].rung : k \in DOMAIN sources} = DOMAIN ladder
  BY <1>2
<1>4. PICK m \in Nat, n \in Nat :
        /\ m = Len(sources) /\ DOMAIN sources = 1 .. m
        /\ n = Len(ladder) /\ DOMAIN ladder = 1 .. n
  BY <1>1
<1>5. PICK f : f = [i \in 1 .. m |-> sources[i].rung]
  OBVIOUS
<1>6. NamesEachOnce(f, m, n)
  <2>1. \A i \in 1 .. m : f[i] = sources[i].rung
    BY <1>5
  <2>2. f \in [1 .. m -> 1 .. n]
    BY <1>2, <1>4, <1>5
  <2>3. \A i, k \in 1 .. m : f[i] = f[k] => i = k
    BY <1>2, <1>4, <2>1
  <2>4. \A j \in 1 .. n : \E i \in 1 .. m : f[i] = j
    BY <1>3, <1>4, <2>1
  <2> QED BY <2>2, <2>3, <2>4 DEF NamesEachOnce
<1>7. m = n
  BY <1>6, EachOnce
<1> QED BY <1>3, <1>4, <1>7

\* What a diagnosis that is concluded in time is made of.
TheDiagnosis(d, whole) ==
  d = [provider |-> provider, verdict |-> CompatVerdict(provider, found),
       sources |-> sources, nextSteps |-> nextSteps, whole |-> whole]

\* A diagnosis goes into the report, or the run fails.
LEMMA ConcludeStep ==
  ASSUME DoctorInv, pc \in {"end", "interrupted"}, Conclude(pc = "end")
  PROVE  DoctorInv'
<1>1. UNCHANGED <<options, ctx, turn, walk, call>>
  BY DEF Conclude
<1>2. /\ ladder' = ladder /\ Untried' = Untried /\ provider' = provider
      /\ Wanted' = Wanted /\ FirstMentions' = FirstMentions
  BY <1>1 DEF ladder, Untried, provider, Wanted, FirstMentions, options, walk
<1>3. pc' \in {"idle", "choose"}
  BY DEF Conclude
<1>4. AdviceFits'
  BY <1>1, <1>2 DEF DoctorInv, AdviceFits, Advised, walk
<1>5. FirstSuccessIsLast'
  BY <1>1, <1>3 DEF DoctorInv, FirstSuccessIsLast, walk
<1>6. ListedInv'
  BY <1>1, <1>2, <1>3 DEF DoctorInv, ListedInv, walk
<1>7. CutInv'
  BY <1>1, <1>3 DEF DoctorInv, CutInv, walk
<1>8. turn \in FirstMentions \ DOMAIN report /\ provider \in Providers /\ main = "running"
  BY ProviderIsKnown DEF DoctorInv, PlaceInv
<1>9. CASE ctx # "live"
  <2>1. main' = "failed" /\ pc' = "idle" /\ UNCHANGED report
    BY <1>9 DEF Conclude, StillWanted
  <2>2. ReportInv'
    BY <1>1, <2>1, ReportKept DEF DoctorInv, options
  <2>3. TypeOK'
    BY <1>1, <2>1 DEF DoctorInv, TypeOK, options, walk
  <2>4. PlaceInv'
    BY <1>1, <1>2, <2>1 DEF DoctorInv, PlaceInv
  <2> QED BY <1>4, <1>5, <1>6, <1>7, <2>2, <2>3, <2>4 DEF DoctorInv
<1>10. CASE ctx = "live"
  <2>1. pc = "end"
    BY <1>10 DEF DoctorInv, CutInv
  <2>2. PICK d : TheDiagnosis(d, TRUE)
    BY DEF TheDiagnosis
  <2>3. /\ pc' = "choose" /\ main' = main
        /\ DOMAIN report' = DOMAIN report \cup {turn}
        /\ report'[turn] = d
        /\ \A i \in DOMAIN report : report'[i] = report[i]
    <3>1. /\ pc' = "choose" /\ main' = main
          /\ report' = [i \in DOMAIN report \cup {turn} |->
                          IF i # turn THEN report[i] ELSE d]
      BY <1>10, <2>1, <2>2 DEF Conclude, StillWanted, TheDiagnosis
    <3> QED BY <1>8, <3>1
  <2>4. /\ d.provider = request[turn] /\ d.whole /\ d.sources = sources
        /\ d \in Diagnosis
    <3>1. CompatVerdict(provider, found) \in Verdicts
      BY VerdictIsKnown DEF DoctorInv, TypeOK
    <3> QED BY <1>8, <2>2, <3>1 DEF TheDiagnosis, DoctorInv, TypeOK, Diagnosis, provider
  <2>5. Whole(turn, d)
    <3>1. \A k \in DOMAIN sources : sources[k].cut # "run"
      BY <1>10 DEF DoctorInv, CutInv
    <3>2. Declared[d.provider] = ladder
      BY <2>4 DEF ladder, provider
    <3> QED BY <2>1, <2>4, <3>1, <3>2, WalkIsWhole DEF Whole
  <2>6. ReportInv'
    <3>1. request' = request
      BY <1>1 DEF options
    <3>2. \A i \in DOMAIN report' : Whole(i, report'[i])
      BY <2>3, <2>5 DEF DoctorInv, ReportInv
    <3> QED BY <3>1, <3>2 DEF ReportInv, Whole
  <2>7. TypeOK'
    <3>1. \A i \in DOMAIN report' : report'[i] \in Diagnosis
      BY <2>3, <2>4 DEF DoctorInv, TypeOK
    <3> QED BY <1>1, <2>3, <3>1 DEF DoctorInv, TypeOK, options, walk
  <2>8. PlaceInv'
    BY <1>1, <1>2, <1>8, <2>3 DEF DoctorInv, PlaceInv
  <2> QED BY <1>4, <1>5, <1>6, <1>7, <2>6, <2>7, <2>8 DEF DoctorInv
<1> QED BY <1>9, <1>10

\* Whether the walk came to its end or was given up.
LEMMA EndStep == DoctorInv /\ (EndDiagnosis \/ EndInterrupted) => DoctorInv'
<1>1. ASSUME DoctorInv, EndDiagnosis PROVE DoctorInv'
  <2>1. pc = "end" /\ Conclude(pc = "end")
    BY <1>1 DEF EndDiagnosis
  <2> QED BY <1>1, <2>1, ConcludeStep
<1>2. ASSUME DoctorInv, EndInterrupted PROVE DoctorInv'
  <2>1. pc = "interrupted" /\ Conclude(pc = "end")
    BY <1>2 DEF EndInterrupted
  <2> QED BY <1>2, <2>1, ConcludeStep
<1> QED BY <1>1, <1>2

-----------------------------------------------------------------------------
(* The run.                                                                *)

\* The invariant holds when the run begins.
LEMMA DoctorInit == Init => DoctorInv
<1> SUFFICES ASSUME Init PROVE DoctorInv
  OBVIOUS
<1>1. DOMAIN sources = {} /\ DOMAIN nextSteps = {} /\ DOMAIN report = {}
  BY DEF Init
<1>2. TypeOK
  <2>1. Absent \in Detection
    BY DEF Absent, Detection, Versions
  <2>2. <<>> \in Seq(SourceReport) /\ <<>> \in Seq(Remedies)
    OBVIOUS
  <2> QED BY <1>1, <2>1, <2>2, FreshCalls DEF Init, TypeOK
<1>3. PlaceInv
  BY <1>1, FreshCalls DEF Init, PlaceInv
<1>4. ListedInv /\ CutInv
  BY <1>1, FreshCalls DEF Init, ListedInv, CutInv
<1>5. ReportInv /\ FirstSuccessIsLast /\ AdviceFits
  BY <1>1 DEF ReportInv, FirstSuccessIsLast, AdviceFits, Advised
<1> QED BY <1>2, <1>3, <1>4, <1>5 DEF DoctorInv

\* Every step keeps the invariant.
LEMMA DoctorNext == DoctorInv /\ [Next]_vars => DoctorInv'
<1> SUFFICES ASSUME DoctorInv, [Next]_vars PROVE DoctorInv'
  OBVIOUS
<1>1. CASE Interrupt
  BY <1>1, InterruptStep
<1>2. CASE Start \/ Choose \/ Finish
  BY <1>2, StartStep, ChooseStep, FinishStep
<1>3. CASE EndDiagnosis \/ EndInterrupted
  BY <1>3, EndStep
<1>4. CASE Enter \/ DetectReturns \/ AbandonWalk \/ EndWalk
  BY <1>4, EnterStep, DetectStep, AbandonStep, EndWalkStep
<1>5. CASE SkipRung \/ ProbeRung \/ FetchBegins
  BY <1>5, SkipLists, ListsStep, ProbeStep, FetchBeginsStep
<1>6. CASE NotAvailable \/ FetchFails \/ FetchSucceeds \/ RungTimesOut
  BY <1>6, NotAvailableLists, FetchFailsLists, FetchSucceedsLists, TimesOutStep, ListsStep,
     InWalkStep
<1>7. CASE SourceAnswers \/ GiveUp \/ Expire
  BY <1>7, AnswersStep, GiveUpStep, ExpireStep
<1>8. CASE UNCHANGED vars
  <2>1. /\ UNCHANGED <<options, turn, sources, nextSteps, report>>
        /\ UNCHANGED <<ctx, main, pc, found, rung, call>>
    BY <1>8 DEF vars, walk
  <2>2. /\ ReportInv' /\ AdviceFits' /\ FirstSuccessIsLast'
        /\ ladder' = ladder /\ Untried' = Untried
        /\ Wanted' = Wanted /\ FirstMentions' = FirstMentions
    BY <2>1, QuietStep
  <2>3. TypeOK' /\ CutInv'
    BY <2>1 DEF DoctorInv, TypeOK, CutInv, options
  <2>4. PlaceInv' /\ ListedInv'
    BY <2>1, <2>2 DEF DoctorInv, PlaceInv, ListedInv
  <2> QED BY <2>2, <2>3, <2>4 DEF DoctorInv
<1> QED BY <1>1, <1>2, <1>3, <1>4, <1>5, <1>6, <1>7, <1>8 DEF Next, DoctorStep

\* In every run of the doctor, at every moment, the place of the loop, what the
\* walk has listed and what the report holds agree with one another.
THEOREM DoctorInvariant == Spec => []DoctorInv
BY DoctorInit, DoctorNext, PTL DEF Spec

\* Every variable of the doctor always holds a value of its kind.
THEOREM DoctorTypes == Spec => []TypeOK
<1>1. DoctorInv => TypeOK
  BY DEF DoctorInv
<1> QED BY <1>1, DoctorInvariant, PTL

\* A published report has a diagnosis of each requested provider, and each lists
\* every rung of that provider's ladder once.
THEOREM ReportsAreComplete == Spec => []DiagnosisIsComplete
<1>1. DoctorInv => DiagnosisIsComplete
  BY DEF DoctorInv, PlaceInv, ReportInv, Whole, DiagnosisIsComplete
<1> QED BY <1>1, DoctorInvariant, PTL

\* No rung in a published report counts as failed because the run had ended.
THEOREM InterruptionsStayOut == Spec => []NothingFromInterruption
<1>1. DoctorInv => NothingFromInterruption
  BY DEF DoctorInv, PlaceInv, ReportInv, Whole, NothingFromInterruption
<1> QED BY <1>1, DoctorInvariant, PTL

\* Once a rung has worked the doctor contacts no other: the rest are skipped.
THEOREM SuccessIsLast == Spec => []FirstSuccessIsLast
<1>1. DoctorInv => FirstSuccessIsLast
  BY DEF DoctorInv
<1> QED BY <1>1, DoctorInvariant, PTL

\* The advice is what the listed failures call for, each piece of it once.
THEOREM AdviceIsFitting == Spec => []AdviceFits
<1>1. DoctorInv => AdviceFits
  BY DEF DoctorInv
<1> QED BY <1>1, DoctorInvariant, PTL

-----------------------------------------------------------------------------
(* The walk of the watched provider is one of module LadderWalk.  The      *)
(* attempts of that walk are the rungs listed up to the first that worked. *)

\* The rung waited on is the next of the walk, and one the policy allows; and what
\* was listed last is in the report when the next provider is chosen.
NextInv ==
  /\ pc \in {"available", "fetch"} => NextRung(rung) /\ Allows(policy, ladder[rung])
  /\ main = "ready" \/ pc = "choose" => turn = 0 \/ turn \in DOMAIN report

AttemptOf(x) == [rung   |-> x.rung,
                 status |-> x.status,
                 reason |-> IF x.status = "error" THEN x.reason ELSE ""]

Fruitless(seq) == {k \in DOMAIN seq : \A i \in 1 .. k : seq[i].status # "success"}

AttemptsOf(seq) == [k \in Fruitless(seq) |-> AttemptOf(seq[k])]

Succeeds(seq) == \E i \in DOMAIN seq : seq[i].status = "success"

\* What another rung listed adds to those attempts: nothing after a success.
LEMMA AttemptsGrow ==
  ASSUME NEW seq \in Seq(SourceReport), NEW x \in SourceReport, NEW longer,
         longer = Append(seq, x)
  PROVE  /\ Succeeds(seq) \/ x.status = "success" => AttemptsOf(longer) = AttemptsOf(seq)
         /\ ~ (Succeeds(seq) \/ x.status = "success") =>
              AttemptsOf(longer) = Append(AttemptsOf(seq), AttemptOf(x))
<1>1. PICK n \in Nat \ {0} : n = Len(seq) + 1
  OBVIOUS
<1>2. /\ longer \in Seq(SourceReport) /\ Len(longer) = n
      /\ DOMAIN longer = 1 .. n /\ DOMAIN seq = 1 .. n - 1
      /\ \A i \in 1 .. n - 1 : longer[i] = seq[i]
      /\ longer[n] = x
      /\ n \in 1 .. n /\ \A i \in 1 .. n : i \in 1 .. n - 1 \/ i = n
  BY <1>1, Grown
<1>3. \A k \in 1 .. n - 1 : k \in Fruitless(longer) <=> k \in Fruitless(seq)
  BY <1>2 DEF Fruitless
<1>4. n \in Fruitless(longer) <=> ~ (Succeeds(seq) \/ x.status = "success")
  BY <1>2 DEF Fruitless, Succeeds
<1>5. Fruitless(longer) \subseteq 1 .. n /\ Fruitless(seq) \subseteq 1 .. n - 1
  BY <1>2 DEF Fruitless
<1>6. ASSUME Succeeds(seq) \/ x.status = "success"
      PROVE  AttemptsOf(longer) = AttemptsOf(seq)
  <2>1. Fruitless(longer) = Fruitless(seq)
    BY <1>2, <1>3, <1>4, <1>5, <1>6
  <2>2. \A k \in Fruitless(seq) : longer[k] = seq[k]
    BY <1>2, <1>5
  <2> QED BY <2>1, <2>2 DEF AttemptsOf
<1>7. ASSUME ~ (Succeeds(seq) \/ x.status = "success")
      PROVE  AttemptsOf(longer) = Append(AttemptsOf(seq), AttemptOf(x))
  <2>1. Fruitless(seq) = 1 .. n - 1
    BY <1>2, <1>5, <1>7 DEF Fruitless, Succeeds
  <2>2. Fruitless(longer) = 1 .. n
    BY <1>2, <1>3, <1>4, <1>5, <1>7, <2>1
  <2>3. PICK f : f = AttemptsOf(seq)
    OBVIOUS
  <2>4. f = [k \in 1 .. n - 1 |-> AttemptOf(seq[k])]
    BY <2>1, <2>3 DEF AttemptsOf
  <2>5. AttemptsOf(longer) = [k \in 1 .. n |-> IF k = n THEN AttemptOf(x) ELSE f[k]]
    <3>1. \A k \in 1 .. n : AttemptOf(longer[k]) = IF k = n THEN AttemptOf(x) ELSE f[k]
      BY <1>2, <2>4
    <3> QED BY <2>2, <3>1 DEF AttemptsOf
  <2>6. Append(f, AttemptOf(x)) = [k \in 1 .. n |-> IF k = n THEN AttemptOf(x) ELSE f[k]]
    <3>1. PICK a : a = AttemptOf(x)
      OBVIOUS
    <3>2. Append(f, a) = [k \in 1 .. n |-> IF k = n THEN a ELSE f[k]]
      <4>1. f \in Seq({f[k] : k \in 1 .. n - 1} \cup {a}) /\ Len(f) = n - 1
        BY <2>4
      <4>2. PICK g : g = Append(f, a)
        OBVIOUS
      <4>3. g \in Seq({f[k] : k \in 1 .. n - 1} \cup {a}) /\ DOMAIN g = 1 .. n
        BY <4>1, <4>2
      <4>4. g = [k \in 1 .. n |-> g[k]]
        BY <4>3
      <4>5. \A k \in 1 .. n : g[k] = IF k = n THEN a ELSE f[k]
        BY <4>1, <4>2
      <4> QED BY <4>2, <4>4, <4>5
    <3> QED BY <3>1, <3>2
  <2> QED BY <2>3, <2>5, <2>6
<1> QED BY <1>6, <1>7

\* The steps that change what has been listed or reported, and the others.
LEMMA StepKinds ==
  ASSUME DoctorInv, [Next]_vars
  PROVE  \/ UNCHANGED <<options, turn, sources, report>>
         \/ Choose
         \/ Conclude(pc = "end") /\ pc \in {"end", "interrupted"}
         \/ Lists
<1>1. CASE Interrupt \/ Start \/ Finish \/ UNCHANGED vars
  BY <1>1 DEF Interrupt, Start, Finish, vars, walk
<1>2. CASE EndDiagnosis \/ EndInterrupted
  <2>1. CASE EndDiagnosis
    <3>1. Conclude(pc = "end") /\ pc = "end"
      BY <2>1 DEF EndDiagnosis
    <3> QED BY <3>1
  <2>2. CASE EndInterrupted
    <3>1. Conclude(pc = "end") /\ pc = "interrupted"
      BY <2>2 DEF EndInterrupted
    <3> QED BY <3>1
  <2> QED BY <1>2, <2>1, <2>2
<1>3. CASE Enter \/ DetectReturns \/ AbandonWalk \/ EndWalk \/ ProbeRung \/ FetchBegins
  BY <1>3 DEF Enter, DetectReturns, AbandonWalk, EndWalk, ProbeRung, FetchBegins, walk
<1>4. CASE SkipRung \/ NotAvailable \/ FetchFails \/ FetchSucceeds \/ RungTimesOut
  BY <1>4, SkipLists, NotAvailableLists, FetchFailsLists, FetchSucceedsLists, TimesOutStep
     DEF StaysInWalk
<1>5. CASE SourceAnswers \/ GiveUp \/ Expire
  BY <1>5 DEF SourceAnswers, GiveUp, Expire, Say, walk
<1> QED BY <1>1, <1>2, <1>3, <1>4, <1>5 DEF Next, DoctorStep

\* Every step keeps the rung waited on the next of the walk.
LEMMA NextInvStep == DoctorInv /\ NextInv /\ [Next]_vars => NextInv'
<1> SUFFICES ASSUME DoctorInv, NextInv, [Next]_vars PROVE NextInv'
  OBVIOUS
<1>1. CASE Interrupt \/ UNCHANGED vars
  <2>1. UNCHANGED <<options, main, turn, pc, rung, sources, report>>
    BY <1>1 DEF Interrupt, vars, walk
  <2> QED BY <2>1 DEF NextInv, NextRung, Untried, ladder, provider, options
<1>2. CASE Start \/ Finish
  <2>1. /\ main' # "ready" /\ UNCHANGED <<turn, report>>
        /\ pc' = "choose" => main = "ready"
        /\ pc' \notin {"available", "fetch"}
    BY <1>2 DEF DoctorInv, PlaceInv, Start, Finish
  <2> QED BY <2>1 DEF NextInv
<1>3. CASE Choose
  BY <1>3 DEF DoctorInv, PlaceInv, Choose, NextInv
<1>4. CASE EndDiagnosis \/ EndInterrupted
  <2>1. /\ main' # "ready" /\ pc' \in {"idle", "choose"} /\ turn' = turn
        /\ pc' = "choose" => turn \in DOMAIN report'
    BY <1>4 DEF DoctorInv, PlaceInv, EndDiagnosis, EndInterrupted, Conclude
  <2> QED BY <2>1 DEF NextInv
<1>5. CASE Enter \/ DetectReturns \/ AbandonWalk \/ EndWalk
  <2>1. pc' \in {"detect", "interrupted", "ladder", "end"} /\ main' = main /\ main # "ready"
    BY <1>5 DEF DoctorInv, PlaceInv, Enter, DetectReturns, AbandonWalk, EndWalk
  <2> QED BY <2>1 DEF NextInv
<1>6. CASE ProbeRung
  <2>1. PICK j \in DOMAIN ladder : NextRung(j) /\ ~ Skips(j) /\ rung' = j
    BY <1>6 DEF ProbeRung
  <2>2. /\ pc' = "available" /\ main' = main /\ main # "ready"
        /\ UNCHANGED <<options, turn, sources>>
    BY <1>6 DEF DoctorInv, PlaceInv, ProbeRung
  <2>3. ladder' = ladder /\ Untried' = Untried /\ policy' = policy
    BY <2>2 DEF ladder, provider, Untried, options
  <2>4. NextRung(j) /\ Allows(policy, ladder[j])
    BY <2>1 DEF Skips
  <2> QED BY <2>1, <2>2, <2>3, <2>4 DEF NextInv, NextRung
<1>7. CASE FetchBegins \/ SourceAnswers \/ GiveUp \/ Expire
  <2>1. /\ UNCHANGED <<options, main, turn, sources, rung, report>>
        /\ pc' = "choose" => pc = "choose"
        /\ pc' \in {"available", "fetch"} => pc \in {"available", "fetch"}
    BY <1>7 DEF FetchBegins, SourceAnswers, GiveUp, Expire, Say, walk
  <2> QED BY <2>1 DEF NextInv, NextRung, Untried, ladder, provider, options
<1>8. CASE SkipRung \/ NotAvailable \/ FetchFails \/ FetchSucceeds \/ RungTimesOut
  <2>1. pc' \in {"ladder", "interrupted"} /\ main' = main /\ main # "ready"
    BY <1>8 DEF DoctorInv, PlaceInv, SkipRung, NotAvailable, FetchFails, FetchSucceeds,
       RungTimesOut, List
  <2> QED BY <2>1 DEF NextInv
<1> QED BY <1>1, <1>2, <1>3, <1>4, <1>5, <1>6, <1>7, <1>8 DEF Next, DoctorStep

-----------------------------------------------------------------------------
\* The one position the watched provider is diagnosed at, if it is asked for.
AtWatched == {i \in FirstMentions : request[i] = Watched}

\* A provider is diagnosed at its first mention alone.
LEMMA OnePosition ==
  ASSUME DoctorInv
  PROVE  /\ \A i, k \in AtWatched : i = k
         /\ 0 \notin AtWatched
<1>1. \A i \in DOMAIN request : i \in Nat \ {0}
  BY DoctorAssumption DEF DoctorInv, TypeOK
<1>2. \A i, k \in AtWatched : i \in DOMAIN request /\ i <= k
  BY DEF AtWatched, FirstMentions
<1> QED BY <1>1, <1>2

\* What has been listed of the watched provider, by where the run is.
LEMMA WhatIsDiagnosed ==
  ASSUME DoctorInv
  PROVE  /\ turn \in AtWatched \ DOMAIN report => Diagnosed = sources
         /\ AtWatched \cap DOMAIN report = {} /\ turn \notin AtWatched => Diagnosed = <<>>
         /\ \A i \in AtWatched \cap DOMAIN report : Diagnosed = report[i].sources
<1>1. turn \in AtWatched \ DOMAIN report => Diagnosed = sources
  BY DEF Diagnosed, AtWatched
<1>2. AtWatched \cap DOMAIN report = {} /\ turn \notin AtWatched => Diagnosed = <<>>
  BY DEF Diagnosed, AtWatched
<1>3. ASSUME NEW i \in AtWatched \cap DOMAIN report PROVE Diagnosed = report[i].sources
  <2>1. turn \notin AtWatched \ DOMAIN report
    BY <1>3, OnePosition
  <2>2. (CHOOSE k \in AtWatched : TRUE) = i
    BY <1>3, OnePosition
  <2> QED BY <1>3, <2>1, <2>2 DEF Diagnosed, AtWatched
<1> QED BY <1>1, <1>2, <1>3

\* What has been listed of the watched provider grows by a rung at a time, and
\* neither the next provider's turn nor the report's growth changes it.
LEMMA DiagnosedSteps ==
  ASSUME DoctorInv, DoctorInv', NextInv, [Next]_vars
  PROVE  /\ request' = request /\ policy' = policy
         /\ \/ Diagnosed' = Diagnosed
            \/ Lists /\ turn \in AtWatched \ DOMAIN report
<1>1. CASE UNCHANGED <<options, turn, sources, report>>
  <2>1. Diagnosed' = Diagnosed
    BY <1>1 DEF Diagnosed, FirstMentions, options
  <2> QED BY <1>1, <2>1 DEF options
<1>2. CASE Choose
  <2>1. request' = request /\ policy' = policy /\ report' = report
    BY <1>2 DEF Choose, options
  <2>2. AtWatched' = AtWatched
    BY <2>1 DEF AtWatched, FirstMentions
  <2>3. turn \notin AtWatched \ DOMAIN report
    BY <1>2, OnePosition DEF Choose, NextInv
  <2>4. CASE AtWatched \cap DOMAIN report = {}
    <3>1. Diagnosed = <<>>
      BY <2>3, <2>4, WhatIsDiagnosed
    <3>2. turn' = turn \/ sources' = <<>>
      BY <1>2 DEF Choose, walk
    <3>3. Diagnosed' = <<>>
      BY <2>1, <2>2, <2>3, <2>4, <3>2 DEF Diagnosed, AtWatched
    <3> QED BY <2>1, <3>1, <3>3
  <2>5. CASE AtWatched \cap DOMAIN report # {}
    <3>1. PICK i \in AtWatched \cap DOMAIN report : TRUE
      BY <2>5
    <3>2. Diagnosed = report[i].sources
      BY <3>1, WhatIsDiagnosed
    <3>3. turn' \notin AtWatched' \ DOMAIN report'
      BY <1>2, <2>1, <2>2, <2>3, <3>1, OnePosition DEF Choose, Waiting
    <3>4. (CHOOSE k \in AtWatched' : TRUE) = i
      BY <2>2, <3>1, OnePosition
    <3>5. Diagnosed' = report'[i].sources
      BY <2>1, <2>2, <3>1, <3>3, <3>4 DEF Diagnosed, AtWatched
    <3> QED BY <2>1, <3>2, <3>5
  <2> QED BY <2>4, <2>5
<1>3. CASE Conclude(pc = "end") /\ pc \in {"end", "interrupted"}
  <2>1. request' = request /\ policy' = policy /\ turn' = turn /\ sources' = sources
    BY <1>3 DEF Conclude, options, walk
  <2>2. AtWatched' = AtWatched
    BY <2>1 DEF AtWatched, FirstMentions
  <2>3. turn \notin DOMAIN report
    BY <1>3 DEF DoctorInv, PlaceInv
  <2>4. CASE report' = report
    BY <2>1, <2>4 DEF Diagnosed, FirstMentions
  <2>5. CASE report' # report
    <3>1. /\ DOMAIN report' = DOMAIN report \cup {turn}
          /\ \A i \in DOMAIN report : report'[i] = report[i]
          /\ report'[turn].sources = sources
      BY <1>3, <2>3, <2>5 DEF Conclude
    <3>2. CASE turn \in AtWatched
      <4>1. Diagnosed = sources
        BY <2>3, <3>2, WhatIsDiagnosed
      <4>2. (CHOOSE k \in AtWatched' : TRUE) = turn
        BY <2>2, <3>2, OnePosition
      <4>3. Diagnosed' = report'[turn].sources
        BY <2>1, <2>2, <3>1, <3>2, <4>2 DEF Diagnosed, AtWatched
      <4> QED BY <2>1, <3>1, <4>1, <4>3
    <3>3. CASE turn \notin AtWatched /\ AtWatched \cap DOMAIN report = {}
      <4>1. Diagnosed = <<>>
        BY <3>3, WhatIsDiagnosed
      <4>2. Diagnosed' = <<>>
        BY <2>1, <2>2, <3>1, <3>3 DEF Diagnosed, AtWatched
      <4> QED BY <2>1, <4>1, <4>2
    <3>4. CASE turn \notin AtWatched /\ AtWatched \cap DOMAIN report # {}
      <4>1. PICK i \in AtWatched \cap DOMAIN report : TRUE
        BY <3>4
      <4>2. Diagnosed = report[i].sources
        BY <4>1, WhatIsDiagnosed
      <4>3. (CHOOSE k \in AtWatched' : TRUE) = i
        BY <2>2, <4>1, OnePosition
      <4>4. Diagnosed' = report'[i].sources
        BY <2>1, <2>2, <3>1, <3>4, <4>1, <4>3 DEF Diagnosed, AtWatched
      <4> QED BY <2>1, <3>1, <4>1, <4>2, <4>4
    <3> QED BY <3>2, <3>3, <3>4
  <2> QED BY <2>4, <2>5
<1>4. CASE Lists
  <2>1. request' = request /\ policy' = policy /\ turn' = turn /\ report' = report
    BY <1>4 DEF Lists, ListsNow, List, options
  <2>2. CASE turn \notin AtWatched \ DOMAIN report
    BY <2>1, <2>2 DEF Diagnosed, AtWatched, FirstMentions
  <2> QED BY <1>4, <2>1, <2>2
<1> QED BY <1>1, <1>2, <1>3, <1>4, StepKinds

-----------------------------------------------------------------------------
\* The two loops order, admit and name alike.
LEMMA SameLadder ==
  /\ \A seq, j, k : Walk!WalksBefore(seq, j, k) <=> WalksBefore(seq, j, k)
  /\ \A p, x : Walk!Allows(p, x) <=> Allows(p, x)
  /\ \A reason : Walk!ReasonOrUpstream(reason) = ReasonOrUpstream(reason)
  /\ Walk!Reasons = Reasons
<1>1. \A tier : Walk!tierRank(tier) = tierRank(tier)
  BY DEF Walk!tierRank, tierRank, Walk!TierLocalState, Walk!TierLocalRPC, TierLocalState,
     TierLocalRPC
<1>2. \A seq, j, k : Walk!WalksBefore(seq, j, k) <=> WalksBefore(seq, j, k)
  BY <1>1 DEF Walk!WalksBefore, WalksBefore
<1>3. \A p, x : Walk!Allows(p, x) <=> Allows(p, x)
  BY DEF Walk!Allows, Allows, Walk!TierAPI, Walk!TierLocalState, Walk!TierLocalRPC,
     Walk!TierTranscripts, Walk!TierCLIScrape, TierAPI, TierLocalState, TierLocalRPC,
     TierTranscripts, TierCLIScrape
<1>4. \A reason : Walk!ReasonOrUpstream(reason) = ReasonOrUpstream(reason)
  BY DEF Walk!ReasonOrUpstream, ReasonOrUpstream
<1>5. Walk!Reasons = Reasons
  BY DEF Walk!Reasons, Reasons
<1> QED BY <1>2, <1>3, <1>4, <1>5

\* A rung listed of the watched provider is a turn of LadderWalk's loop, or none
\* at all when a rung has worked.
LEMMA ListsIsATurn ==
  ASSUME DoctorInv, NextInv, Lists, turn \in AtWatched \ DOMAIN report, policy' = policy,
         Diagnosed' = sources', Diagnosed = sources
  PROVE  Walk!Next \/ UNCHANGED Walk!vars
<1>1. PICK j, status, reason, cut :
        ListsNow(j, status, reason, cut) /\ EndsRung(j, status, reason)
  BY DEF Lists
<1>2. PICK x : x = [rung |-> j, status |-> status, reason |-> reason, cut |-> cut]
  OBVIOUS
<1>3. x.rung = j /\ x.status = status /\ x.reason = reason
  BY <1>2
<1>4. ladder = Declared[Watched] /\ ladder \in Seq(Source)
  <2>1. provider = Watched
    BY DEF AtWatched, provider
  <2> QED BY <2>1, DoctorAssumption DEF ladder
<1>5. j \in Untried /\ j \in DOMAIN ladder /\ j \in Nat
  <2>1. j \in Untried
    BY <1>1 DEF ListsNow
  <2>2. j \in DOMAIN ladder
    BY <2>1 DEF Untried
  <2> QED BY <1>4, <2>1, <2>2
<1>6. x \in SourceReport /\ sources \in Seq(SourceReport) /\ sources' = Append(sources, x)
  BY <1>1, <1>2, <1>5 DEF SourceReport, ListsNow, List, Listed, DoctorInv, TypeOK
<1>7. CASE Succeeds(sources) \/ status = "success"
  <2>1. AttemptsOf(sources') = AttemptsOf(sources)
    BY <1>3, <1>6, <1>7, AttemptsGrow
  <2>2. AttemptsOf(Diagnosed)' = AttemptsOf(Diagnosed)
    BY <2>1 DEF AttemptsOf, Fruitless
  <2>3. UNCHANGED Walk!vars
    BY <2>2 DEF Walk!vars, AttemptsOf, Fruitless, AttemptOf, Failures
  <2> QED BY <2>3
<1>8. CASE ~ Succeeds(sources) /\ status # "success"
  <2>1. AttemptsOf(sources') = Append(AttemptsOf(sources), AttemptOf(x))
    BY <1>3, <1>6, <1>8, AttemptsGrow
  <2>2. NextRung(j) /\ (Allows(policy, ladder[j]) <=> status # "skipped")
    BY <1>1, <1>8 DEF EndsRung, NextInv, Skips, higherTierSucceeded, Succeeds
  <2>3. status \in {"skipped", "unavailable", "timeout", "error"}
    BY <1>1, <1>8 DEF EndsRung
  <2>4. status = "error" => reason \in Reasons
    BY <1>1 DEF EndsRung
  <2>5. Walk!Untried = Untried
    <3>1. PICK b : b = AttemptsOf(sources)
      OBVIOUS
    <3>2. DOMAIN b = DOMAIN sources /\ \A i \in DOMAIN b : b[i].rung = sources[i].rung
      <4>1. Fruitless(sources) = DOMAIN sources
        <5>1. \A k \in DOMAIN sources : \A i \in 1 .. k : i \in DOMAIN sources
          BY <1>6
        <5> QED BY <1>8, <5>1 DEF Fruitless, Succeeds
      <4>2. b = [k \in DOMAIN sources |-> AttemptOf(sources[k])]
        BY <3>1, <4>1 DEF AttemptsOf
      <4> QED BY <4>2 DEF AttemptOf
    <3>3. Walk!Untried = DOMAIN ladder \ {b[i].rung : i \in DOMAIN b}
      BY <1>4, <3>1 DEF Walk!Untried, AttemptsOf, AttemptOf, Fruitless, Failures
    <3> QED BY <3>2, <3>3 DEF Untried
  <2>6. PICK e : e = [status |-> status, reason |-> IF status = "error" THEN reason ELSE ""]
    OBVIOUS
  <2>7. e \in IF Allows(policy, Declared[Watched][j]) THEN Walk!Endings
              ELSE [status : {"skipped"}, reason : {""}]
    <3>1. CASE status = "skipped"
      BY <1>4, <2>2, <2>6, <3>1
    <3>2. CASE status \in {"unavailable", "timeout"}
      BY <1>4, <2>2, <2>6, <3>2 DEF Walk!Endings
    <3>3. CASE status = "error"
      <4>1. reason = Walk!ReasonOrUpstream(reason) /\ reason \in Walk!Reasons
        BY <2>4, <3>3, SameLadder DEF ReasonOrUpstream, Reasons
      <4>2. e \in [status : {"error"},
                  reason : {Walk!ReasonOrUpstream(r) : r \in Walk!Reasons \cup {""}}]
        BY <2>6, <3>3, <4>1
      <4>3. e \in Walk!Endings
        BY <4>2 DEF Walk!Endings
      <4> QED BY <1>4, <2>2, <3>3, <4>3
    <3> QED BY <2>3, <3>1, <3>2, <3>3
  <2>8. AttemptOf(x) = [rung |-> j, status |-> e.status, reason |-> e.reason]
    BY <1>3, <2>6 DEF AttemptOf
  <2>9. \A k \in Walk!Untried : Walk!WalksBefore(Declared[Watched], j, k)
    BY <1>4, <2>2, <2>5, SameLadder DEF NextRung
  <2>10. AttemptsOf(Diagnosed)' =
           Append(AttemptsOf(Diagnosed), [rung |-> j, status |-> e.status, reason |-> e.reason])
    BY <2>1, <2>8 DEF AttemptsOf, Fruitless
  <2>11. \E q \in IF Walk!Allows(policy, Declared[Watched][j]) THEN Walk!Endings
                 ELSE [status : {"skipped"}, reason : {""}] :
           AttemptsOf(Diagnosed)' =
             Append(AttemptsOf(Diagnosed), [rung |-> j, status |-> q.status, reason |-> q.reason])
    BY <2>7, <2>10, SameLadder
  <2>12. UNCHANGED <<Declared[Watched], policy>>
    OBVIOUS
  <2>13. j \in Walk!Untried
    BY <1>5, <2>5
  <2>14. Walk!TryRung
    BY <2>9, <2>11, <2>12, <2>13
    DEF Walk!TryRung, AttemptsOf, Fruitless, AttemptOf, Failures
  <2> QED BY <2>14 DEF Walk!Next
<1> QED BY <1>7, <1>8

\* The doctor's walk of the watched provider's ladder is a walk of LadderWalk's.
THEOREM WalksAlike == Spec => WalksAsResolver
<1>1. Init => Walk!Init
  <2> SUFFICES ASSUME Init PROVE Walk!Init
    OBVIOUS
  <2>1. DoctorInv
    BY DoctorInit
  <2>2. Diagnosed = <<>>
    BY DEF Init, Diagnosed
  <2>3. Declared[Watched] \in {Declared[p] : p \in Providers}
    BY DoctorAssumption
  <2>4. AttemptsOf(Diagnosed) = <<>>
    BY <2>2 DEF AttemptsOf, Fruitless
  <2> QED BY <2>3, <2>4 DEF Init, Walk!Init, AttemptsOf, AttemptOf, Fruitless, Failures
<1>2. Init => NextInv
  BY DEF Init, NextInv
<1>3. DoctorInv /\ DoctorInv' /\ NextInv /\ [Next]_vars => [Walk!Next]_(Walk!vars)
  <2> SUFFICES ASSUME DoctorInv, DoctorInv', NextInv, [Next]_vars
               PROVE  Walk!Next \/ UNCHANGED Walk!vars
    OBVIOUS
  <2>1. policy' = policy
    BY DiagnosedSteps
  <2>2. CASE Diagnosed' = Diagnosed
    BY <2>1, <2>2 DEF Walk!vars, Failures
  <2>3. CASE Lists /\ turn \in AtWatched \ DOMAIN report
    <3>1. Diagnosed = sources
      BY <2>3, WhatIsDiagnosed
    <3>2. turn' = turn /\ report' = report /\ request' = request
      BY <2>3 DEF Lists, ListsNow, List, options
    <3>3. Diagnosed' = sources'
      BY <2>3, <3>2 DEF Diagnosed, AtWatched, FirstMentions
    <3> QED BY <2>1, <2>3, <3>1, <3>3, ListsIsATurn
  <2> QED BY <2>2, <2>3, DiagnosedSteps
<1> QED
  BY <1>1, <1>2, <1>3, DoctorInit, DoctorNext, NextInvStep, PTL
  DEF Spec, WalksAsResolver, Walk!Spec
=============================================================================

--------------------------- MODULE SourcesProofs ---------------------------
(***************************************************************************)
(* The calls of a source, for any contents of the stores, any clock and    *)
(* any changes the vendors' tools make: what Detect and Available said is  *)
(* kept to, no expired token goes out, no usable one is hidden, a report   *)
(* tells what was there, and Fetch answers as its contract says.           *)
(***************************************************************************)
EXTENDS Sources, FiniteSetTheorems, TLAPS

-----------------------------------------------------------------------------
\* Where a call is, in either kind of source.
OAuthPlaces ==
  {"keychain", "file", "start", "check", "request", "body", "parse", "probe", "returned", "unavailable"}
LocalPlaces ==
  {"detect", "available", "start", "auth", "query", "request", "body", "run", "probe", "returned", "unavailable"}

\* The types, and which call a place belongs to: Fetch has answered when it has
\* returned and not before.
FrameInv ==
  /\ source \in {OAuthID} \cup LocalIDs
  /\ now \in FirstNow .. LastNow
  /\ ctx \in {"live", "canceled", "deadline"}
  /\ own \in {"running", "expired"}
  /\ phase \in Phases
  /\ pc \in IF source = OAuthID THEN OAuthPlaces ELSE LocalPlaces
  /\ pc \notin {"keychain", "file", "detect", "available"} => phase = "fetch"
  /\ pc = "auth" => source = CodexSource
  /\ fetched \in Fetched \cup {Nothing}
  /\ pc = "returned" <=> fetched # Nothing
  /\ keychain \in KeychainItems \cup {Absent}
  /\ credFile \in FileContents \cup {Absent}

\* What the stores would give a call that read both of them now: the verdict on
\* the keychain's item, as it is held while the file is read, and the outcome.
Outcome(verdict, cred) == [verdict |-> verdict, cred |-> cred]

HeldNow ==
  IF keychain.is \in {"absent", "unreadable", "blank"} THEN "none" ELSE ParseClaudeCredentials(keychain, now)

FromFile(h) ==
  IF credFile.is = "absent" THEN Outcome(IF h # "none" THEN h ELSE "not_found", None)
  ELSE IF credFile.is = "unreadable" THEN Outcome("unreadable", None)
  ELSE Outcome(ParseClaudeCredentials(credFile, now), credFile)

Found == IF HeldNow = "valid" THEN Outcome("valid", keychain) ELSE FromFile(HeldNow)

\* Available says yes to the one, and Detect to the other.
Askable(o)  == o.verdict = "expired" \/ (o.verdict = "valid" /\ o.cred.access)
LoggedIn(o) == o.verdict = "valid" /\ o.cred.access /\ ~ IsExpired(ClaudeExpiry(o.cred), now)

\* While nothing has changed, the stores still give what they gave the calls
\* before, whatever has been read of them this time.
Reading == pc \in {"start", "keychain", "file"}

HonourInv ==
  /\ source = OAuthID =>
       /\ pc = "file" => held # "valid"
       /\ pc = "file" /\ steady # {} => held = HeldNow
       /\ "available" \in steady /\ phase = "fetch" /\ Reading => Askable(Found)
       /\ "detect" \in steady /\ authenticated /\ phase # "detect" =>
            /\ Reading => LoggedIn(Found)
            /\ pc = "check" => ~ IsExpired(ClaudeExpiry(creds), now)
  /\ source = CodexSource /\ "available" \in steady /\ pc \in {"start", "auth"} => authFile.is # "absent"
  /\ AvailableIsHonoured

\* A credential is in hand from the stores' verdict to the request and, before the
\* request, no token has gone out.
Credentialed == (KeychainItems \cup FileContents) \ Uncredited

InHandInv ==
  /\ pc = "check" => creds \in Credentialed /\ creds.access
  /\ source = OAuthID /\ pc \in {"request", "body", "parse", "probe"} => sent # None
  /\ SentTokenIsLive

\* A store that has held a usable token all along holds one now, and the keychain
\* is not one of those once its item has been passed over.
KeptInv ==
  /\ kept \subseteq UsableStores
  /\ source # OAuthID \/ phase # "fetch" => kept = {}
  /\ phase = "fetch" /\ pc = "file" => "keychain" \notin kept
  /\ NoUsableCredentialHidden

-----------------------------------------------------------------------------
(* The expiry of a credential, and the verdict on it.                      *)

\* A number's size gives its unit away where the expiry is told as supposed.
LEMMA ToldExpiryIsRead ==
  ASSUME NEW field, NEW t \in Nat, Tells(field, t)
  PROVE  parseExpiryValue(field) = t
<1>1. /\ t \in Nat /\ t >= 1 /\ t <= MilliCutoff /\ MilliCutoff \in Nat
      /\ MillisPerSecond \in Nat /\ MillisPerSecond >= 1
      /\ t * MillisPerSecond > MilliCutoff
      /\ t * MillisPerSecond \in Int
  BY UnitsAssumption DEF Tells
<1>2. (t * MillisPerSecond) \div MillisPerSecond = t
  BY <1>1
<1>3. CASE field = InSeconds(t)
  <2>1. field.kind = "number" /\ field.n = t
    BY <1>3 DEF InSeconds, Number
  <2>2. parseNumericEpoch(t) = t
    BY <1>1 DEF parseNumericEpoch
  <2> QED BY <2>1, <2>2 DEF parseExpiryValue
<1>4. CASE field = InMillis(t)
  <2>1. field.kind = "number" /\ field.n = t * MillisPerSecond
    BY <1>4 DEF InMillis, Number
  <2>2. parseNumericEpoch(t * MillisPerSecond) = t
    BY <1>1, <1>2 DEF parseNumericEpoch
  <2> QED BY <2>1, <2>2 DEF parseExpiryValue
<1>5. CASE field = Date(t)
  BY <1>5 DEF parseExpiryValue, Date
<1> QED BY <1>3, <1>4, <1>5 DEF Tells

\* A field that says nothing has no expiry in it.
LEMMA SilenceIsNoExpiry ==
  ASSUME NEW field \in Fields, Silent(field)
  PROVE  parseExpiryValue(field) = NoExpiry
BY DEF Silent, Fields, parseExpiryValue, parseNumericEpoch, NoExpiry

\* The code's guess at the expiry of a credential with an access token is right:
\* if it finds none, the token outlives the call.
LEMMA ExpiryIsRead ==
  ASSUME NEW c \in ClaudeCredentials, c.access, TellsItsExpiry(c)
  PROVE  \/ ClaudeExpiry(c) = c.until /\ c.until # NoExpiry
         \/ ClaudeExpiry(c) = NoExpiry /\ LastNow < c.until
<1> DEFINE declared == IF c.expiresAt # NoField THEN c.expiresAt ELSE c.expires_at
<1>1. declared \in Fields /\ c.exp \in Fields /\ c.until \in Nat
  BY DEF ClaudeCredentials
<1>2. ClaudeExpiry(c) = IF parseExpiryValue(declared) # NoExpiry THEN parseExpiryValue(declared)
                        ELSE parseExpiryValue(c.exp)
  BY DEF ClaudeExpiry, Expiry
<1>3. \/ Tells(declared, c.until)
      \/ Silent(declared) /\ (Tells(c.exp, c.until) \/ (Silent(c.exp) /\ LastNow < c.until))
  BY DEF TellsItsExpiry
<1> HIDE DEF declared
<1>4. ASSUME NEW f, Tells(f, c.until) PROVE parseExpiryValue(f) = c.until /\ c.until # NoExpiry
  BY <1>1, <1>4, ToldExpiryIsRead DEF Tells, NoExpiry
<1>5. CASE Tells(declared, c.until)
  BY <1>2, <1>4, <1>5
<1>6. CASE Silent(declared) /\ Tells(c.exp, c.until)
  BY <1>1, <1>2, <1>4, <1>6, SilenceIsNoExpiry
<1>7. CASE Silent(declared) /\ Silent(c.exp) /\ LastNow < c.until
  BY <1>1, <1>2, <1>7, SilenceIsNoExpiry
<1> QED BY <1>3, <1>5, <1>6, <1>7

\* What the stores hold is known by its kind.
LEMMA KindsOfData ==
  ASSUME NEW data \in KeychainItems \cup FileContents \cup {Absent}
  PROVE  \/ data \in Credentialed /\ data \in ClaudeCredentials /\ data \notin Uncredited
            /\ data.is = "credential"
         \/ data \in Uncredited /\ data.is \in {"absent", "unreadable", "blank", "garbage"}
<1>1. data \in Uncredited \/ data \in ClaudeCredentials
  BY StoresAssumption DEF Absent, Uncredited
<1>2. ASSUME data \in Uncredited
      PROVE  data.is \in {"absent", "unreadable", "blank", "garbage"}
  BY <1>2 DEF Uncredited, Is
<1>3. data \in ClaudeCredentials => data.is = "credential"
  BY DEF ClaudeCredentials
<1>4. data \in ClaudeCredentials => data # Absent
  BY <1>3 DEF Absent, Is
<1> QED BY <1>1, <1>2, <1>3, <1>4 DEF Credentialed

\* A credential with an access token that its issuer would still take is valid,
\* and a valid one with an access token is of that kind if it has not expired.
LEMMA UsableIsValid ==
  ASSUME ExpiriesAreTold, now \in FirstNow .. LastNow,
         NEW data \in KeychainItems \cup FileContents \cup {Absent}, Usable(data)
  PROVE  /\ data.is = "credential"
         /\ ParseClaudeCredentials(data, now) = "valid"
<1>1. data \in Credentialed /\ data \in ClaudeCredentials /\ data.is = "credential"
  BY KindsOfData DEF Usable
<1>2. data.access /\ now < data.until
  BY DEF Usable
<1>3. TellsItsExpiry(data)
  BY <1>1 DEF ExpiriesAreTold, Credentialed
<1>4. ClaudeExpiry(data) = NoExpiry \/ ClaudeExpiry(data) = data.until
  BY <1>1, <1>2, <1>3, ExpiryIsRead
<1>5. now \in Int /\ data.until \in Int
  BY <1>1, ClockAssumption DEF ClaudeCredentials
<1>6. ~ IsExpired(ClaudeExpiry(data), now)
  BY <1>2, <1>4, <1>5 DEF IsExpired
<1> QED BY <1>1, <1>2, <1>6 DEF ParseClaudeCredentials

\* Only a credential is found valid.
LEMMA ValidIsCredential ==
  ASSUME NEW data \in KeychainItems \cup FileContents \cup {Absent}, NEW t,
         data.is \notin {"absent", "unreadable"}, ParseClaudeCredentials(data, t) = "valid"
  PROVE  data \in Credentialed /\ data \in ClaudeCredentials
<1>1. data.is \notin {"blank", "garbage"}
  BY DEF ParseClaudeCredentials
<1> QED BY <1>1, KindsOfData

-----------------------------------------------------------------------------
(* The steps of the two kinds of source, as far as Fetch's answer and its  *)
(* contexts go.                                                            *)

\* Fetch's answer is given once, and speaks of time only if a time has run out.
Answering ==
  /\ pc # "returned" /\ phase = "fetch"
  /\ UNCHANGED <<outside, own, phase>>
  /\ \E r \in Fetched :
       /\ r = "timeout" => ctx = "deadline" \/ own = "expired"
       /\ fetched' = r /\ pc' = "returned"

\* Every other step leaves that to come.
Proceeding ==
  /\ pc # "returned" /\ pc' # "returned"
  /\ UNCHANGED <<source, fetched>>
  /\ \/ UNCHANGED <<ctx, own>>
     \/ ctx = "live" /\ ctx' \in {"canceled", "deadline"} /\ UNCHANGED own
     \/ ctx = "live" /\ own = "running" /\ own' = "expired" /\ UNCHANGED ctx
  /\ now' \in FirstNow .. LastNow
  /\ phase' \in Phases
  /\ pc' \notin {"keychain", "file", "detect", "available"} => phase' = "fetch"

\* oauth_api is not one of the local sources.
LEMMA KindsOfSource == OAuthID \notin LocalIDs
BY DEF LocalIDs, OpenCodeSources, CodexSource, OpenCodeState, OpenCodeRPC, OpenCodeCLI, OAuthID

\* What a reply tells is one of Fetch's reasons.
LEMMA ReasonsAreAnswers ==
  /\ \A v : Refusal(v) \in Fetched /\ Refusal(v) # "timeout"
  /\ CtxReason \in Fetched /\ (CtxReason = "timeout" => ctx = "deadline")
BY DEF Refusal, CtxReason, Fetched, Reasons

\* What a read of the stores comes to, in each of the three calls.
LEMMA ResolvedBy ==
  ASSUME NEW v, NEW c, phase \in Phases, Resolved(v, c)
  PROVE  /\ creds' = IF v = "valid" THEN c ELSE None
         /\ \/ /\ phase = "detect"
               /\ Detected(v = "valid" /\ c.access /\ ~ IsExpired(ClaudeExpiry(c), now), "keychain")
            \/ /\ phase = "available"
               /\ AvailableSays(v = "expired" \/ (v = "valid" /\ c.access))
            \/ phase = "fetch" /\ v # "valid" /\ Return(Refusal(v))
            \/ phase = "fetch" /\ v = "valid" /\ ~ c.access /\ Return("not_authenticated")
            \/ phase = "fetch" /\ v = "valid" /\ c.access /\ Goto("check")
<1>1. phase = "detect" \/ phase = "available" \/ phase = "fetch"
  BY DEF Phases
<1> QED BY <1>1 DEF Resolved

\* What ReadKeychain and ReadFile come to.
LEMMA ReadsOfKeychain ==
  ASSUME ReadKeychain
  PROVE  \/ HeldNow # "valid" /\ held' = HeldNow /\ Goto("file") /\ UNCHANGED creds
         \/ HeldNow = "valid" /\ Resolved("valid", keychain) /\ UNCHANGED held
BY DEF ReadKeychain, HeldNow, FallsBack

\* What is read of the file now is what a read of both stores would come to.
LEMMA ReadsOfFile ==
  ASSUME ReadFile
  PROVE  Resolved(FromFile(held).verdict, FromFile(held).cred) /\ held' = "none"
<1>1. CASE credFile.is = "absent"
  BY <1>1 DEF ReadFile, FromFile, Outcome
<1>2. CASE credFile.is = "unreadable"
  BY <1>2 DEF ReadFile, FromFile, Outcome
<1>3. CASE credFile.is \notin {"absent", "unreadable"}
  <2>1. Resolved(ParseClaudeCredentials(credFile, now), credFile) /\ held' = "none"
    BY <1>3 DEF ReadFile
  <2> QED BY <1>3, <2>1 DEF FromFile, Outcome
<1> QED BY <1>1, <1>2, <1>3

\* A read of the stores goes on or answers.
LEMMA ResolvedGoesOn ==
  ASSUME NEW v, NEW c, FrameInv, pc # "returned", Resolved(v, c), UNCHANGED <<outside, own>>
  PROVE  (Answering \/ Proceeding) /\ pc' \in OAuthPlaces
<1>1. phase \in Phases /\ now \in FirstNow .. LastNow
  BY DEF FrameInv
<1>2. CASE phase = "detect" /\ Detected(v = "valid" /\ c.access /\ ~ IsExpired(ClaudeExpiry(c), now), "keychain")
  BY <1>1, <1>2 DEF Detected, Proceeding, outside, Phases, OAuthPlaces
<1>3. CASE phase = "available" /\ AvailableSays(v = "expired" \/ (v = "valid" /\ c.access))
  BY <1>1, <1>3 DEF AvailableSays, Proceeding, outside, Phases, OAuthPlaces
<1>4. ASSUME NEW r \in Fetched \ {"timeout"}, phase = "fetch", Return(r)
      PROVE  Answering /\ pc' \in OAuthPlaces
  BY <1>4 DEF Return, Answering, OAuthPlaces
<1>5. CASE phase = "fetch" /\ Goto("check")
  BY <1>1, <1>5 DEF Goto, Proceeding, outside, Phases, OAuthPlaces
<1>6. Refusal(v) \in Fetched \ {"timeout"} /\ "not_authenticated" \in Fetched \ {"timeout"}
  BY ReasonsAreAnswers DEF Fetched, Reasons
<1> QED BY <1>1, <1>2, <1>3, <1>4, <1>5, <1>6, ResolvedBy

\* Each step of oauth_api goes on or answers.
LEMMA OAuthGoesOn ==
  ASSUME FrameInv, source = OAuthID, OAuthNext
  PROVE  (Answering \/ Proceeding) /\ pc' \in OAuthPlaces
<1>1. /\ phase \in Phases /\ now \in FirstNow .. LastNow /\ pc \in OAuthPlaces
      /\ pc \notin {"keychain", "file", "detect", "available"} => phase = "fetch"
      /\ ctx \in {"live", "canceled", "deadline"} /\ own \in {"running", "expired"}
  BY DEF FrameInv
<1>2. ASSUME NEW r \in Fetched, r = "timeout" => ctx = "deadline" \/ own = "expired",
             phase = "fetch", pc # "returned", Return(r), UNCHANGED <<outside, own>>
      PROVE  Answering /\ pc' \in OAuthPlaces
  BY <1>2 DEF Return, Answering, OAuthPlaces
<1>3. ASSUME NEW next \in OAuthPlaces \ {"returned"}, Goto(next), UNCHANGED <<outside, own>>, pc # "returned",
             phase = "fetch" \/ next \in {"keychain", "file"}
      PROVE  Proceeding /\ pc' \in OAuthPlaces
  BY <1>1, <1>3 DEF Goto, Proceeding, outside
<1>4. CASE BeginOAuth
  <2>1. phase = "fetch" /\ pc # "returned" /\ UNCHANGED <<outside, own>>
    BY <1>1, <1>4 DEF BeginOAuth
  <2>2. Return(CtxReason) \/ Goto("keychain")
    BY <1>4 DEF BeginOAuth
  <2> QED BY <1>2, <1>3, <2>1, <2>2, ReasonsAreAnswers DEF OAuthPlaces
<1>5. CASE ReadKeychain
  <2>1. pc = "keychain" /\ UNCHANGED <<outside, own>>
    BY <1>5 DEF ReadKeychain
  <2>2. CASE Goto("file")
    BY <1>3, <2>1, <2>2 DEF OAuthPlaces
  <2>3. CASE Resolved("valid", keychain)
    BY <2>1, <2>3, ResolvedGoesOn
  <2> QED BY <1>5, <2>2, <2>3, ReadsOfKeychain
<1>6. CASE KeychainFails
  BY <1>1, <1>6 DEF KeychainFails, Proceeding, outside, OAuthPlaces
<1>7. CASE ReadFile
  <2>1. pc = "file" /\ UNCHANGED <<outside, own>>
    BY <1>7 DEF ReadFile
  <2> QED BY <1>7, <2>1, ReadsOfFile, ResolvedGoesOn
<1>8. CASE SendToken
  <2>1. pc = "check" /\ UNCHANGED <<outside, own>> /\ (Return("credential_expired") \/ Goto("request"))
    BY <1>8 DEF SendToken
  <2> QED BY <1>1, <1>2, <1>3, <2>1 DEF OAuthPlaces, Fetched, Reasons
<1>9. CASE ExchangeFails
  <2> DEFINE r == IF ctx # "live" THEN CtxReason ELSE IF own = "expired" THEN "timeout" ELSE "upstream_error"
  <2>1. pc \in {"request", "body"} /\ UNCHANGED <<outside, own>> /\ Return(r)
    BY <1>9 DEF ExchangeFails, Exchanging
  <2>2. r \in Fetched /\ (r = "timeout" => ctx = "deadline" \/ own = "expired")
    BY ReasonsAreAnswers DEF Fetched, Reasons
  <2> QED BY <1>1, <1>2, <2>1, <2>2
<1>10. CASE ReadBody
  <2>1. pc = "body" /\ UNCHANGED <<outside, own>>
    BY <1>10 DEF ReadBody
  <2>2. Goto("parse") \/ \E r \in {"not_authenticated", "upstream_error"} : Return(r)
    BY <1>10 DEF ReadBody
  <2> QED BY <1>1, <1>2, <1>3, <2>1, <2>2 DEF OAuthPlaces, Fetched, Reasons
<1>11. CASE VersionProbed
  <2>1. pc = "probe" /\ UNCHANGED <<outside, own>> /\ Return("report")
    BY <1>11 DEF VersionProbed
  <2> QED BY <1>1, <1>2, <2>1 DEF Fetched
<1>12. CASE EndpointAnswers
  <2>1. pc = "request" /\ UNCHANGED <<outside, own>> /\ Goto("body")
    BY <1>12 DEF EndpointAnswers
  <2> QED BY <1>1, <1>3, <2>1 DEF OAuthPlaces
<1>13. CASE StoreWritten
  BY <1>1, <1>13 DEF StoreWritten, Written, Busy, Proceeding, calls
<1>14. CASE OAuthTick
  <2>1. now' \in FirstNow .. LastNow
    BY <1>1, <1>14, ClockAssumption DEF OAuthTick, Tick
  <2> QED BY <1>1, <1>14, <2>1 DEF OAuthTick, Tick, Busy, Proceeding, calls
<1>15. CASE ContextEnds
  BY <1>1, <1>15 DEF ContextEnds, Busy, Proceeding, calls
<1>16. CASE RequestExpires
  BY <1>1, <1>16 DEF RequestExpires, Exchanging, Proceeding, calls, outside
<1>17. CASE ReadEntry \/ ListWindows
  <2>1. /\ pc = "parse" /\ UNCHANGED <<outside, own>>
        /\ Return("parse_failed") \/ Goto("parse") \/ Goto("probe")
    BY <1>17 DEF ReadEntry, ListWindows
  <2> QED BY <1>1, <1>2, <1>3, <2>1 DEF OAuthPlaces, Fetched, Reasons
<1> QED BY <1>4, <1>5, <1>6, <1>7, <1>8, <1>9, <1>10, <1>11, <1>12, <1>13, <1>14, <1>15, <1>16,
           <1>17 DEF OAuthNext, OAuthStep

\* Each step of the local sources goes on or answers, and never for want of a
\* login; for want of an installation only when auth.json is gone.
LEMMA LocalGoesOn ==
  ASSUME FrameInv, source \in LocalIDs, LocalNext
  PROVE  /\ Answering \/ Proceeding
         /\ pc' \in LocalPlaces
         /\ pc' = "auth" => source = CodexSource
         /\ pc' = "returned" =>
              /\ fetched' \notin {"not_authenticated", "credential_expired"}
              /\ fetched' = "not_installed" => pc = "auth" /\ authFile.is = "absent"
<1>1. /\ phase \in Phases /\ now \in FirstNow .. LastNow /\ pc \in LocalPlaces
      /\ pc \notin {"keychain", "file", "detect", "available"} => phase = "fetch"
      /\ ctx \in {"live", "canceled", "deadline"} /\ own \in {"running", "expired"}
      /\ pc = "auth" => source = CodexSource
  BY KindsOfSource DEF FrameInv
<1> DEFINE Fine == /\ Answering \/ Proceeding
                   /\ pc' \in LocalPlaces
                   /\ pc' = "auth" => source = CodexSource
                   /\ pc' = "returned" =>
                        /\ fetched' \notin {"not_authenticated", "credential_expired"}
                        /\ fetched' = "not_installed" => pc = "auth" /\ authFile.is = "absent"
<1>2. ASSUME NEW r \in {"timeout", "upstream_error", "parse_failed", "not_installed", "report"},
             r = "timeout" => ctx = "deadline" \/ own = "expired",
             r = "not_installed" => pc = "auth" /\ authFile.is = "absent",
             phase = "fetch", pc # "returned", Return(r), UNCHANGED <<outside, own>>
      PROVE  Fine
  BY <1>2 DEF Return, Answering, LocalPlaces, Fetched, Reasons
<1>3. ASSUME NEW next \in LocalPlaces \ {"returned"}, Goto(next), UNCHANGED <<outside, own>>, pc # "returned",
             phase = "fetch", next = "auth" => source = CodexSource
      PROVE  Fine
  BY <1>1, <1>3 DEF Goto, Proceeding, outside
<1>4. CtxReason \in {"timeout", "upstream_error"} /\ (CtxReason = "timeout" => ctx = "deadline")
  BY DEF CtxReason
<1>5. pc \in {"returned", "unavailable"} => phase = "fetch"
  BY <1>1
<1>6. CASE Detect
  <2>1. phase = "detect" /\ pc # "returned" /\ UNCHANGED <<outside, own>> /\ \E auth : Detected(auth, "available")
    BY <1>5, <1>6 DEF Detect
  <2> QED BY <1>1, <2>1 DEF Detected, Proceeding, outside, Phases, LocalPlaces
<1>7. CASE Available
  <2>1. phase = "available" /\ pc # "returned" /\ UNCHANGED <<outside, own>>
    BY <1>5, <1>7 DEF Available
  <2>2. \E yes : AvailableSays(yes)
    BY <1>7 DEF Available, LocalIDs, OpenCodeSources
  <2> QED BY <1>1, <2>1, <2>2 DEF AvailableSays, Proceeding, outside, Phases, LocalPlaces
<1>8. CASE BeginLocally
  <2>1. pc = "start" /\ UNCHANGED <<outside, own>>
    BY <1>8 DEF BeginLocally
  <2>2. \E next \in {"auth", "query", "request", "run"} : Goto(next) /\ (next = "auth" => source = CodexSource)
    BY <1>8 DEF BeginLocally, LocalIDs, OpenCodeSources
  <2> QED BY <1>1, <1>3, <2>1, <2>2 DEF LocalPlaces
<1>9. CASE ReadAuth
  <2>1. pc = "auth" /\ UNCHANGED <<outside, own>>
    BY <1>9 DEF ReadAuth
  <2>2. \/ authFile.is = "absent" /\ Return("not_installed")
        \/ Return("upstream_error") \/ Return("parse_failed") \/ Goto("query")
    BY <1>9 DEF ReadAuth
  <2> QED BY <1>1, <1>2, <1>3, <2>1, <2>2 DEF LocalPlaces
<1>10. CASE QueryAnswers
  <2>1. pc = "query" /\ UNCHANGED <<outside, own>> /\ (Return("report") \/ Goto("probe"))
    BY <1>10 DEF QueryAnswers
  <2> QED BY <1>1, <1>2, <1>3, <2>1 DEF LocalPlaces
<1>11. CASE QueryFails
  <2>1. pc = "query" /\ UNCHANGED <<outside, own>> /\ \E r \in {"report", "upstream_error", CtxReason} : Return(r)
    BY <1>11 DEF QueryFails
  <2> QED BY <1>1, <1>2, <1>4, <2>1
<1>12. CASE ServerLists
  <2>1. pc = "request" /\ UNCHANGED <<outside, own>> /\ Goto("body")
    BY <1>12 DEF ServerLists
  <2> QED BY <1>1, <1>3, <2>1 DEF LocalPlaces
<1>13. CASE RequestFails
  <2>1. pc = "request" /\ UNCHANGED <<outside, own>> /\ Return("upstream_error")
    BY <1>13 DEF RequestFails
  <2> QED BY <1>1, <1>2, <2>1
<1>14. CASE ReadListing
  <2>1. pc = "body" /\ UNCHANGED <<outside, own>> /\ Goto("probe")
    BY <1>14 DEF ReadListing
  <2> QED BY <1>1, <1>3, <2>1 DEF LocalPlaces
<1>15. CASE ListingFails
  <2> DEFINE r == IF ctx # "live" THEN CtxReason ELSE IF own = "expired" THEN "timeout" ELSE "upstream_error"
  <2>1. pc = "body" /\ UNCHANGED <<outside, own>> /\ (Return(r) \/ Return("parse_failed"))
    BY <1>15 DEF ListingFails
  <2>2. r \in {"timeout", "upstream_error"} /\ (r = "timeout" => ctx = "deadline" \/ own = "expired")
    BY <1>4
  <2> HIDE DEF r
  <2> QED BY <1>1, <1>2, <2>1, <2>2
<1>16. CASE CLIPrints
  <2>1. pc = "run" /\ UNCHANGED <<outside, own>> /\ Goto("probe")
    BY <1>16 DEF CLIPrints
  <2> QED BY <1>1, <1>3, <2>1 DEF LocalPlaces
<1>17. CASE CLIFails
  <2>1. pc = "run" /\ UNCHANGED <<outside, own>>
        /\ \E r \in {"upstream_error", CtxReason, "parse_failed"} : Return(r)
    BY <1>17 DEF CLIFails
  <2> QED BY <1>1, <1>2, <1>4, <2>1
<1>18. CASE Redetected
  <2>1. pc = "probe" /\ UNCHANGED <<outside, own>> /\ Return("report")
    BY <1>18 DEF Redetected
  <2> QED BY <1>1, <1>2, <2>1
<1>19. CASE AuthWritten \/ TableWritten \/ CLIInstalled
  BY <1>1, <1>19 DEF AuthWritten, TableWritten, CLIInstalled, Written, Busy, Proceeding, calls
<1>20. CASE Tick
  <2>1. now' \in FirstNow .. LastNow
    BY <1>1, <1>20, ClockAssumption DEF Tick
  <2> QED BY <1>1, <1>20, <2>1 DEF Tick, Busy, Proceeding, calls
<1>21. CASE ContextEnds
  BY <1>1, <1>21 DEF ContextEnds, Busy, Proceeding, calls
<1>22. CASE RequestExpires
  BY <1>1, <1>22 DEF RequestExpires, Exchanging, Proceeding, calls, outside
<1> QED BY <1>6, <1>7, <1>8, <1>9, <1>10, <1>11, <1>12, <1>13, <1>14, <1>15, <1>16, <1>17, <1>18, <1>19,
           <1>20, <1>21, <1>22 DEF LocalNext, LocalStep, LocalAnswers

\* Only a login or the like changes the stores, and only oauth_api's steps the
\* rest of what it keeps.
LEMMA StoresChange ==
  ASSUME OAuthNext
  PROVE  UNCHANGED stores \/ StoreWritten
<1>1. CASE OAuthStep
  BY <1>1 DEF OAuthStep, BeginOAuth, ReadKeychain, KeychainFails, ReadFile, SendToken, ExchangeFails, ReadBody,
              ReadEntry, ListWindows, VersionProbed, oauth
<1>2. CASE EndpointAnswers \/ OAuthTick \/ ((ContextEnds \/ RequestExpires) /\ UNCHANGED oauth)
  BY <1>2 DEF EndpointAnswers, OAuthTick, oauth
<1> QED BY <1>1, <1>2 DEF OAuthNext

\* The types hold at first.
LEMMA InitFrame ==
  ASSUME Init
  PROVE  FrameInv
<1>1. /\ now = FirstNow /\ ctx = "live" /\ own = "running" /\ phase = "detect" /\ fetched = Nothing
  BY DEF Init, FrameInit
<1>2. FirstNow \in FirstNow .. LastNow
  BY ClockAssumption
<1>3. CASE source = OAuthID /\ OAuthInit
  BY <1>1, <1>2, <1>3 DEF OAuthInit, FrameInv, Phases, OAuthPlaces, Nothing
<1>4. CASE source \in LocalIDs /\ LocalInit /\ keychain = Absent /\ credFile = Absent
  BY <1>1, <1>2, <1>4, KindsOfSource DEF LocalInit, FrameInv, Phases, LocalPlaces, Nothing
<1> QED BY <1>3, <1>4 DEF Init

\* A call that goes on has not answered, and one that answers has returned.
LEMMA GoesOn ==
  ASSUME FrameInv, Next
  PROVE  /\ Answering \/ Proceeding
         /\ pc' \in IF source = OAuthID THEN OAuthPlaces ELSE LocalPlaces
         /\ pc' = "auth" => source = CodexSource
<1>1. CASE source = OAuthID /\ OAuthNext
  BY <1>1, OAuthGoesOn DEF OAuthPlaces
<1>2. CASE source \in LocalIDs /\ LocalNext
  BY <1>2, LocalGoesOn, KindsOfSource
<1> QED BY <1>1, <1>2 DEF Next

\* Every step keeps the types.
LEMMA NextFrame ==
  ASSUME FrameInv, [Next]_vars
  PROVE  FrameInv'
<1>1. CASE UNCHANGED vars
  BY <1>1 DEF FrameInv, vars, frame, outside, calls, oauth, stores
<1>2. CASE Next
  <2>1. /\ Answering \/ Proceeding
        /\ pc' \in IF source = OAuthID THEN OAuthPlaces ELSE LocalPlaces
        /\ pc' = "auth" => source = CodexSource
    BY <1>2, GoesOn
  <2>2. keychain' \in KeychainItems \cup {Absent} /\ credFile' \in FileContents \cup {Absent}
    <3>1. CASE UNCHANGED stores
      BY <3>1 DEF FrameInv, stores
    <3>2. CASE StoreWritten
      BY <3>2 DEF FrameInv, StoreWritten
    <3> QED BY <1>2, <3>1, <3>2, StoresChange DEF Next, oauth
  <2>3. CASE Answering
    <3>1. fetched' \in Fetched /\ pc' = "returned" /\ UNCHANGED <<source, now, ctx, own, phase>> /\ phase = "fetch"
      BY <2>3 DEF Answering, outside
    <3>2. Nothing \notin Fetched
      BY DEF Nothing, Fetched, Reasons
    <3> QED BY <2>1, <2>2, <3>1, <3>2 DEF FrameInv
  <2>4. CASE Proceeding
    BY <2>1, <2>2, <2>4 DEF FrameInv, Proceeding
  <2> QED BY <2>1, <2>3, <2>4
<1> QED BY <1>1, <1>2

\* The types, and which call is in progress where: FetchCall's frame, for any
\* source.
THEOREM CallsAreFramed == Spec => []FrameInv
<1>1. Init => FrameInv
  BY InitFrame
<1>2. FrameInv /\ [Next]_vars => FrameInv'
  BY NextFrame
<1> QED BY <1>1, <1>2, PTL DEF Spec

\* Fetch answers at most once, with a report or a reason, and with a timeout only
\* when a time has run out, the context's or the request's own: what the
\* resolver's runs take for granted of a source.
THEOREM AnswersAsPromised == Spec => Contract!Safety
<1>1. Init => Contract!Init
  BY DEF Init, FrameInit, Contract!Init
<1>2. FrameInv /\ [Next]_vars => [Contract!Next]_(Contract!call)
  <2> SUFFICES ASSUME FrameInv, [Next]_vars PROVE [Contract!Next]_(Contract!call)
    OBVIOUS
  <2>1. CASE UNCHANGED vars
    BY <2>1 DEF vars, frame, outside, calls, Contract!call
  <2>2. CASE Next
    <3>1. CASE Answering
      <4>1. fetched = Nothing /\ fetched' \in Fetched /\ UNCHANGED <<ctx, own>>
        BY <3>1 DEF FrameInv, Answering, outside
      <4>2. fetched' = "timeout" => ctx = "deadline" \/ own = "expired"
        BY <3>1 DEF Answering
      <4> QED BY <4>1, <4>2 DEF Contract!Next, Contract!Reply
    <3>2. CASE Proceeding
      <4>1. CASE UNCHANGED <<ctx, own>>
        BY <3>2, <4>1 DEF Proceeding, Contract!call
      <4>2. CASE ctx = "live" /\ ctx' \in {"canceled", "deadline"} /\ UNCHANGED own
        BY <3>2, <4>2 DEF Proceeding, Contract!call, Contract!Next, Contract!EndContext
      <4>3. CASE ctx = "live" /\ own = "running" /\ own' = "expired" /\ UNCHANGED ctx
        BY <3>2, <4>3 DEF Proceeding, Contract!call, Contract!Next, Contract!EndContext
      <4> QED BY <3>2, <4>1, <4>2, <4>3 DEF Proceeding
    <3> QED BY <2>2, <3>1, <3>2, GoesOn
  <2> QED BY <2>1, <2>2
<1> QED BY <1>1, <1>2, CallsAreFramed, PTL DEF Spec, Contract!Safety

-----------------------------------------------------------------------------
(* What Detect and Available said is kept to.                              *)

\* The outcome of a read of both stores is the same while they and the clock are.
LEMMA FoundStays ==
  ASSUME UNCHANGED <<now, keychain, credFile>>
  PROVE  /\ HeldNow' = HeldNow /\ Found' = Found
         /\ \A o : LoggedIn(o)' <=> LoggedIn(o)
BY DEF Found, HeldNow, FromFile, Outcome, LoggedIn

\* A step after which nothing is steady breaks no promise.
LEMMA ChangesExcuse ==
  ASSUME steady' = {}, pc' # "file" \/ held' # "valid"
  PROVE  HonourInv'
BY DEF HonourInv, AvailableIsHonoured

\* An answer that is about neither the installation nor the login does not either.
LEMMA OtherAnswersHonour ==
  ASSUME NEW r \in {"timeout", "upstream_error", "parse_failed", "report"}, Return(r)
  PROVE  HonourInv'
<1>1. pc' = "returned" /\ fetched' = r
  BY DEF Return
<1> QED BY <1>1 DEF HonourInv, AvailableIsHonoured, Reading

\* The outcome of a read decides as the calls before it did.
LEMMA ResolvedHonours ==
  ASSUME NEW v, NEW c, FrameInv, HonourInv, source = OAuthID, pc \in {"keychain", "file"}, Resolved(v, c),
         steady # {} => Found = Outcome(v, c), UNCHANGED <<source, now, keychain, credFile>>
  PROVE  HonourInv'
<1>1. phase \in Phases /\ source' = OAuthID
  BY DEF FrameInv
<1>2. Found' = Found /\ \A o : LoggedIn(o)' <=> LoggedIn(o)
  BY FoundStays
<1>3. source' # CodexSource
  BY <1>1 DEF OAuthID, CodexSource
<1>4. steady # {} => Found.verdict = v /\ Found.cred = c
  BY DEF Outcome
<1>5. Reading
  BY DEF Reading
<1>6. CASE phase = "detect" /\ Detected(v = "valid" /\ c.access /\ ~ IsExpired(ClaudeExpiry(c), now), "keychain")
  <2>1. /\ phase' = "available" /\ pc' = "keychain" /\ steady' = steady \cup {"available"}
        /\ authenticated' = (v = "valid" /\ c.access /\ ~ IsExpired(ClaudeExpiry(c), now))
    BY <1>6 DEF Detected
  <2>2. "detect" \in steady' /\ authenticated' => LoggedIn(Found)
    BY <1>4, <2>1 DEF LoggedIn
  <2>3. "detect" \in steady' /\ authenticated' => LoggedIn(Found)'
    BY <1>2, <2>2
  <2> QED BY <1>1, <1>3, <2>1, <2>3 DEF HonourInv, AvailableIsHonoured
<1>7. CASE phase = "available" /\ AvailableSays(v = "expired" \/ (v = "valid" /\ c.access))
  <2>1. /\ phase' = "fetch" /\ pc' \in {"start", "unavailable"} /\ UNCHANGED <<authenticated, steady>>
        /\ pc' = "start" => v = "expired" \/ (v = "valid" /\ c.access)
    BY <1>7 DEF AvailableSays
  <2>2. "available" \in steady' /\ pc' = "start" => Askable(Found)
    BY <1>4, <2>1 DEF Askable
  <2>3. "detect" \in steady' /\ authenticated' => LoggedIn(Found)'
    BY <1>2, <1>5, <1>7, <2>1 DEF HonourInv
  <2>4. "available" \in steady' /\ pc' = "start" => Askable(Found)'
    BY <1>2, <2>2 DEF Askable
  <2> QED BY <1>1, <1>3, <2>1, <2>3, <2>4 DEF HonourInv, AvailableIsHonoured, Reading
<1>8. ASSUME phase = "fetch"
      PROVE  /\ "available" \in steady => v = "expired" \/ (v = "valid" /\ c.access)
             /\ "detect" \in steady /\ authenticated =>
                  v = "valid" /\ c.access /\ ~ IsExpired(ClaudeExpiry(c), now)
  <2>1. "available" \in steady => Askable(Found) /\ steady # {}
    BY <1>5, <1>8 DEF HonourInv
  <2>2. "detect" \in steady /\ authenticated => LoggedIn(Found) /\ steady # {}
    BY <1>5, <1>8 DEF HonourInv
  <2> QED BY <1>4, <2>1, <2>2 DEF Askable, LoggedIn
<1>9. ASSUME NEW r, Return(r),
             "available" \in steady => r # "not_installed" /\ r # "not_authenticated",
             "detect" \in steady /\ authenticated => r # "credential_expired"
      PROVE  HonourInv'
  <2>1. pc' = "returned" /\ fetched' = r /\ UNCHANGED <<steady, authenticated>>
    BY <1>9 DEF Return
  <2>2. AvailableIsHonoured'
    BY <1>9, <2>1 DEF AvailableIsHonoured
  <2> QED BY <1>3, <2>1, <2>2 DEF HonourInv, Reading
<1>10. CASE phase = "fetch" /\ v # "valid" /\ Return(Refusal(v))
  <2>1. Refusal(v) # "not_installed" /\ (v = "expired" => Refusal(v) = "credential_expired")
    BY DEF Refusal
  <2> QED BY <1>8, <1>9, <1>10, <2>1
<1>11. CASE phase = "fetch" /\ v = "valid" /\ ~ c.access /\ Return("not_authenticated")
  BY <1>8, <1>9, <1>11
<1>12. CASE phase = "fetch" /\ v = "valid" /\ c.access /\ Goto("check")
  <2>1. /\ pc' = "check" /\ UNCHANGED <<steady, authenticated, phase>>
        /\ creds' = c
    BY <1>1, <1>12, ResolvedBy DEF Goto
  <2>2. "detect" \in steady' /\ authenticated' => ~ IsExpired(ClaudeExpiry(c), now)
    BY <1>8, <1>12, <2>1
  <2>3. "detect" \in steady' /\ authenticated' => ~ IsExpired(ClaudeExpiry(creds), now)'
    BY <2>1, <2>2
  <2> QED BY <1>3, <2>1, <2>3 DEF HonourInv, AvailableIsHonoured, Reading
<1> QED BY <1>1, <1>6, <1>7, <1>10, <1>11, <1>12, ResolvedBy

\* The calls of Claude's source keep to what Available said.
LEMMA OAuthHonours ==
  ASSUME FrameInv, HonourInv, source = OAuthID, OAuthNext, UNCHANGED local
  PROVE  HonourInv'
<1>1. FrameInv' /\ source' = OAuthID /\ source' # CodexSource
  <2>1. Next
    BY DEF Next
  <2>2. FrameInv' /\ UNCHANGED source
    BY <2>1, NextFrame, GoesOn DEF Answering, Proceeding, outside
  <2> QED BY <2>2 DEF OAuthID, CodexSource
<1>2. ASSUME \/ Goto("keychain") \/ Goto("file") \/ Goto("request") \/ Goto("body") \/ Goto("parse")
             \/ Goto("probe"),
             UNCHANGED <<now, keychain, credFile>>,
             pc \in {"start", "keychain"} \/ pc' \in {"request", "body", "parse", "probe"},
             pc' = "file" => held' # "valid" /\ held' = HeldNow
      PROVE  HonourInv'
  <2>1. Found' = Found /\ HeldNow' = HeldNow /\ \A o : LoggedIn(o)' <=> LoggedIn(o)
    BY <1>2, FoundStays
  <2>2. /\ pc' \in {"keychain", "file", "request", "body", "parse", "probe"}
        /\ UNCHANGED <<phase, authenticated, steady>>
    BY <1>2 DEF Goto
  <2>3. "available" \in steady' /\ phase' = "fetch" /\ Reading' => Askable(Found)'
    BY <1>2, <2>1, <2>2 DEF HonourInv, Reading, Askable
  <2>4. "detect" \in steady' /\ authenticated' /\ phase' # "detect" /\ Reading' => LoggedIn(Found)'
    BY <1>2, <2>1, <2>2 DEF HonourInv, Reading
  <2>5. AvailableIsHonoured'
    BY <2>2 DEF AvailableIsHonoured
  <2> QED BY <1>1, <1>2, <2>1, <2>2, <2>3, <2>4, <2>5 DEF HonourInv
<1>3. CASE BeginOAuth
  <2>1. CASE Return(CtxReason)
    BY <2>1, OtherAnswersHonour DEF CtxReason
  <2>2. CASE Goto("keychain")
    <3>1. pc = "start" /\ UNCHANGED <<now, keychain, credFile>> /\ pc' # "file"
      BY <1>3, <2>2 DEF BeginOAuth, Goto, outside, stores
    <3> QED BY <1>2, <2>2, <3>1
  <2> QED BY <1>3, <2>1, <2>2 DEF BeginOAuth
<1>4. CASE ReadKeychain
  <2>1. pc = "keychain" /\ UNCHANGED <<source, now, keychain, credFile>>
    BY <1>4 DEF ReadKeychain, outside, stores
  <2>2. CASE HeldNow # "valid" /\ held' = HeldNow /\ Goto("file")
    BY <1>2, <2>1, <2>2
  <2>3. CASE HeldNow = "valid" /\ Resolved("valid", keychain)
    <3>1. Found = Outcome("valid", keychain)
      BY <2>3 DEF Found
    <3> QED BY <2>1, <2>3, <3>1, ResolvedHonours
  <2> QED BY <1>4, <2>2, <2>3, ReadsOfKeychain
<1>5. CASE KeychainFails
  BY <1>5, ChangesExcuse DEF KeychainFails
<1>6. CASE ReadFile
  <2>1. pc = "file" /\ UNCHANGED <<source, now, keychain, credFile>>
    BY <1>6 DEF ReadFile, outside, stores
  <2>2. steady # {} => Found = FromFile(held)
    BY <2>1 DEF HonourInv, Found
  <2>3. FromFile(held) = Outcome(FromFile(held).verdict, FromFile(held).cred)
    BY DEF FromFile, Outcome
  <2> QED BY <1>6, <2>1, <2>2, <2>3, ReadsOfFile, ResolvedHonours
<1>7. CASE SendToken
  <2>1. pc = "check" /\ UNCHANGED <<now, keychain, credFile>>
    BY <1>7 DEF SendToken, outside, stores
  <2>2. CASE IsExpired(ClaudeExpiry(creds), now) /\ Return("credential_expired")
    <3>1. ~ ("detect" \in steady /\ authenticated /\ phase # "detect")
      BY <2>1, <2>2 DEF HonourInv
    <3>2. phase = "fetch"
      BY <2>1 DEF FrameInv
    <3>3. pc' = "returned" /\ fetched' = "credential_expired" /\ UNCHANGED <<steady, authenticated>>
      BY <2>2 DEF Return
    <3> QED BY <1>1, <3>1, <3>2, <3>3 DEF HonourInv, AvailableIsHonoured, Reading
  <2>3. CASE Goto("request")
    BY <1>2, <2>1, <2>3 DEF Goto
  <2> QED BY <1>7, <2>2, <2>3 DEF SendToken
<1>8. CASE ExchangeFails
  <2> DEFINE r == IF ctx # "live" THEN CtxReason ELSE IF own = "expired" THEN "timeout" ELSE "upstream_error"
  <2>1. Return(r) /\ r \in {"timeout", "upstream_error"}
    BY <1>8 DEF ExchangeFails, CtxReason
  <2> HIDE DEF r
  <2> QED BY <2>1, OtherAnswersHonour
<1>9. CASE ReadBody
  <2>1. pc = "body" /\ UNCHANGED <<now, keychain, credFile, status>>
    BY <1>9 DEF ReadBody, outside, stores
  <2>2. CASE Goto("parse")
    BY <1>2, <2>1, <2>2 DEF Goto
  <2>3. CASE Return("upstream_error")
    BY <2>3, OtherAnswersHonour
  <2>4. CASE status = 401 /\ Return("not_authenticated")
    <3>1. pc' = "returned" /\ fetched' = "not_authenticated" /\ status' = 401
      BY <2>1, <2>4 DEF Return
    <3> QED BY <1>1, <3>1 DEF HonourInv, AvailableIsHonoured, Reading
  <2>5. Goto("parse") \/ Return("upstream_error") \/ (status = 401 /\ Return("not_authenticated"))
    BY <1>9 DEF ReadBody
  <2> QED BY <2>2, <2>3, <2>4, <2>5
<1>14. CASE ReadEntry \/ ListWindows
  <2>1. /\ UNCHANGED <<now, keychain, credFile>>
        /\ Goto("parse") \/ Goto("probe") \/ Return("parse_failed")
    BY <1>14 DEF ReadEntry, ListWindows, outside, stores
  <2>2. CASE Return("parse_failed")
    BY <2>2, OtherAnswersHonour
  <2>3. CASE Goto("parse") \/ Goto("probe")
    BY <1>2, <2>1, <2>3 DEF Goto
  <2> QED BY <2>1, <2>2, <2>3
<1>10. CASE VersionProbed
  BY <1>10, OtherAnswersHonour DEF VersionProbed
<1>11. CASE EndpointAnswers
  BY <1>2, <1>11 DEF EndpointAnswers, Goto, outside, stores
<1>12. CASE StoreWritten \/ OAuthTick
  <2>1. steady' = {} /\ (pc' = "file" => pc = "file") /\ UNCHANGED held
    BY <1>12 DEF StoreWritten, OAuthTick, Written, Tick, calls
  <2> QED BY <2>1, ChangesExcuse DEF HonourInv
<1>13. CASE (ContextEnds \/ RequestExpires) /\ UNCHANGED oauth
  <2>1. UNCHANGED <<now, keychain, credFile, held, creds, status, source, calls, steady>>
    BY <1>13 DEF ContextEnds, RequestExpires, outside, oauth, stores, exchange
  <2>2. Found' = Found /\ HeldNow' = HeldNow /\ \A o : LoggedIn(o)' <=> LoggedIn(o)
    BY <2>1, FoundStays
  <2>3. IsExpired(ClaudeExpiry(creds), now)' <=> IsExpired(ClaudeExpiry(creds), now)
    BY <2>1
  <2>4. UNCHANGED <<phase, pc, authenticated, fetched, status, held, steady, source>>
    BY <2>1 DEF calls
  <2> QED BY <1>1, <2>2, <2>3, <2>4 DEF HonourInv, AvailableIsHonoured, Reading, Askable
<1> QED BY <1>3, <1>4, <1>5, <1>6, <1>7, <1>8, <1>9, <1>10, <1>11, <1>12, <1>13,
           <1>14 DEF OAuthNext, OAuthStep

\* The calls of the local sources keep to what Available said.
LEMMA LocalHonours ==
  ASSUME FrameInv, HonourInv, source \in LocalIDs, LocalNext, UNCHANGED oauth
  PROVE  HonourInv'
<1>1. source' = source /\ source # OAuthID
  BY LocalGoesOn, KindsOfSource DEF Answering, Proceeding, outside
<1> DEFINE There == source = CodexSource /\ "available" \in steady /\ pc \in {"start", "auth"} => authFile.is # "absent"
<1>2. CASE Detect
  BY <1>1, <1>2 DEF Detect, Detected, HonourInv, AvailableIsHonoured
<1>3. CASE Available
  <2>1. pc' \in {"start", "unavailable"} /\ UNCHANGED authFile
    BY <1>3 DEF Available, AvailableSays, LocalIDs, OpenCodeSources, local, machine
  <2>2. source = CodexSource => AvailableSays(authFile.is # "absent")
    BY <1>3 DEF Available, AuthFileThere, CodexSource, OpenCodeState, OpenCodeRPC, OpenCodeCLI
  <2>3. There'
    BY <1>1, <2>1, <2>2 DEF AvailableSays
  <2> QED BY <1>1, <2>1, <2>3 DEF HonourInv, AvailableIsHonoured
<1>4. CASE BeginLocally
  <2>1. pc = "start" /\ pc' # "returned" /\ UNCHANGED <<authFile, steady>>
    BY <1>4 DEF BeginLocally, Goto, LocalIDs, OpenCodeSources, machine
  <2> QED BY <1>1, <2>1 DEF HonourInv, AvailableIsHonoured
<1>5. CASE (ContextEnds \/ RequestExpires) /\ UNCHANGED local
  <2>1. UNCHANGED <<pc, fetched, authenticated, steady, status, authFile>>
    BY <1>5 DEF ContextEnds, RequestExpires, calls, outside, oauth, exchange, local, machine
  <2> QED BY <1>1, <2>1 DEF HonourInv, AvailableIsHonoured
<1>6. CASE AuthWritten \/ TableWritten \/ CLIInstalled \/ Tick
  <2>1. steady' = {}
    BY <1>6 DEF AuthWritten, TableWritten, CLIInstalled, Written, Tick
  <2> QED BY <1>1, <2>1 DEF HonourInv, AvailableIsHonoured
<1>7. CASE pc \notin {"detect", "available", "start"} /\ pc' \notin {"start", "auth"} /\ UNCHANGED steady
  <2>1. pc' = "returned" /\ "available" \in steady => fetched' # "not_installed"
    <3> SUFFICES ASSUME pc' = "returned", "available" \in steady, fetched' = "not_installed"
                 PROVE  FALSE
      OBVIOUS
    <3>1. pc = "auth" /\ authFile.is = "absent" /\ source = CodexSource
      BY LocalGoesOn DEF FrameInv
    <3> QED BY <3>1 DEF HonourInv
  <2>2. pc' = "returned" => fetched' \notin {"not_authenticated", "credential_expired"}
    BY LocalGoesOn
  <2> QED BY <1>1, <1>7, <2>1, <2>2 DEF HonourInv, AvailableIsHonoured
<1>8. CASE \/ ReadAuth \/ QueryFails \/ RequestFails \/ ReadListing \/ ListingFails \/ CLIFails \/ Redetected
           \/ LocalAnswers
  <2>1. pc \in {"auth", "query", "request", "body", "run", "probe"}
    BY <1>8 DEF ReadAuth, QueryFails, RequestFails, ReadListing, ListingFails, CLIFails, Redetected,
                LocalAnswers, QueryAnswers, ServerLists, CLIPrints
  <2>2. CASE ReadAuth
    <3>1. (\E r : Return(r)) \/ Goto("query")
      BY <2>2 DEF ReadAuth
    <3> QED BY <1>7, <2>1, <3>1 DEF Return, Goto
  <2>3. CASE ReadListing \/ LocalAnswers
    <3>1. (\E r : Return(r)) \/ Goto("probe") \/ Goto("body")
      BY <2>3 DEF ReadListing, LocalAnswers, QueryAnswers, ServerLists, CLIPrints
    <3> QED BY <1>7, <2>1, <3>1 DEF Return, Goto
  <2>4. CASE QueryFails \/ RequestFails \/ ListingFails \/ CLIFails \/ Redetected
    <3>1. \E r : Return(r)
      BY <2>4 DEF QueryFails, RequestFails, ListingFails, CLIFails, Redetected
    <3> QED BY <1>7, <2>1, <3>1 DEF Return
  <2> QED BY <1>8, <2>2, <2>3, <2>4
<1> QED BY <1>2, <1>3, <1>4, <1>5, <1>6, <1>8 DEF LocalNext, LocalStep

\* The invariant behind the promises.
LEMMA HonourAlways == Spec => []HonourInv
<1>1. Init => HonourInv
  <2> SUFFICES ASSUME Init PROVE HonourInv
    OBVIOUS
  <2>1. phase = "detect" /\ pc \in {"keychain", "detect"}
    BY DEF Init, FrameInit, OAuthInit, LocalInit
  <2> QED BY <2>1 DEF HonourInv, AvailableIsHonoured
<1>2. FrameInv /\ HonourInv /\ [Next]_vars => HonourInv'
  <2> SUFFICES ASSUME FrameInv, HonourInv, [Next]_vars PROVE HonourInv'
    OBVIOUS
  <2>1. CASE UNCHANGED vars
    <3>1. /\ UNCHANGED <<now, keychain, credFile, source, steady, authenticated, phase, pc, held, creds>>
          /\ UNCHANGED <<status, fetched, authFile>>
      BY <2>1 DEF vars, frame, outside, calls, oauth, stores, exchange, local, machine
    <3>2. Found' = Found /\ HeldNow' = HeldNow /\ \A o : LoggedIn(o)' <=> LoggedIn(o)
      BY <3>1, FoundStays
    <3>3. IsExpired(ClaudeExpiry(creds), now)' <=> IsExpired(ClaudeExpiry(creds), now)
      BY <3>1
    <3> QED BY <3>1, <3>2, <3>3 DEF HonourInv, AvailableIsHonoured, Reading, Askable
  <2>2. CASE source = OAuthID /\ OAuthNext /\ UNCHANGED local
    BY <2>2, OAuthHonours
  <2>3. CASE source \in LocalIDs /\ LocalNext /\ UNCHANGED oauth
    BY <2>3, LocalHonours
  <2> QED BY <2>1, <2>2, <2>3 DEF Next
<1> QED BY <1>1, <1>2, CallsAreFramed, PTL DEF Spec

\* What Detect and Available said is kept to by Fetch while nothing has changed:
\* AvailableIsHonoured, for any contents of the stores and of auth.json.
THEOREM PromisesAreKept == Spec => []AvailableIsHonoured
<1>1. HonourInv => AvailableIsHonoured
  BY DEF HonourInv
<1> QED BY <1>1, HonourAlways, PTL

-----------------------------------------------------------------------------
(* No expired token goes out, and no usable one is hidden, if the expiries *)
(* are told as supposed.                                                   *)

\* What a read finds valid is one of the credentials.
LEMMA ValidIsInHand ==
  ASSUME FrameInv, HonourInv, source = OAuthID, NEW v, NEW c, v = "valid",
         \/ ReadKeychain /\ HeldNow = "valid" /\ c = keychain
         \/ ReadFile /\ v = FromFile(held).verdict /\ c = FromFile(held).cred
  PROVE  c \in Credentialed /\ c \in ClaudeCredentials
<1>1. keychain \in KeychainItems \cup {Absent} /\ credFile \in FileContents \cup {Absent}
  BY DEF FrameInv
<1>2. CASE ReadKeychain /\ HeldNow = "valid" /\ c = keychain
  <2>1. keychain.is \notin {"absent", "unreadable"} /\ ParseClaudeCredentials(keychain, now) = "valid"
    BY <1>2 DEF HeldNow
  <2> QED BY <1>1, <1>2, <2>1, ValidIsCredential
<1>3. CASE ReadFile /\ v = FromFile(held).verdict /\ c = FromFile(held).cred
  <2>1. held # "valid"
    BY <1>3 DEF HonourInv, ReadFile
  <2>2. /\ credFile.is \notin {"absent", "unreadable"} /\ c = credFile
        /\ ParseClaudeCredentials(credFile, now) = "valid"
    BY <1>3, <2>1 DEF FromFile, Outcome
  <2> QED BY <1>1, <2>2, ValidIsCredential
<1> QED BY <1>2, <1>3

\* Where the steps of oauth_api lead that do not read the stores.
LEMMA CredentialInHand ==
  ASSUME FrameInv, HonourInv, InHandInv, source = OAuthID, OAuthNext, pc' = "check"
  PROVE  creds' \in Credentialed /\ creds'.access
<1>1. ASSUME NEW v, NEW c, Resolved(v, c), v = "valid" => c \in Credentialed
      PROVE  creds' \in Credentialed /\ creds'.access
  <2>1. v = "valid" /\ c.access /\ creds' = c
    BY <1>1, ResolvedBy DEF FrameInv, Detected, AvailableSays, Return
  <2> QED BY <1>1, <2>1
<1>2. CASE ReadKeychain
  <2>1. HeldNow = "valid" /\ Resolved("valid", keychain)
    BY <1>2, ReadsOfKeychain DEF Goto
  <2> QED BY <1>1, <1>2, <2>1, ValidIsInHand
<1>3. CASE ReadFile
  <2>1. Resolved(FromFile(held).verdict, FromFile(held).cred)
    BY <1>3, ReadsOfFile
  <2>2. FromFile(held).verdict = "valid" => FromFile(held).cred \in Credentialed
    BY <1>3, ValidIsInHand
  <2> QED BY <1>1, <2>1, <2>2
<1>4. CASE pc = "check" /\ UNCHANGED creds
  BY <1>4 DEF InHandInv
<1>5. CASE \/ BeginOAuth \/ KeychainFails \/ SendToken \/ ExchangeFails \/ ReadBody \/ ReadEntry \/ ListWindows
           \/ VersionProbed \/ EndpointAnswers
  BY <1>5 DEF BeginOAuth, KeychainFails, SendToken, ExchangeFails, ReadBody, ReadEntry, ListWindows, VersionProbed,
              EndpointAnswers, Goto, Return
<1>6. CASE StoreWritten \/ OAuthTick \/ ((ContextEnds \/ RequestExpires) /\ UNCHANGED oauth)
  <2>1. UNCHANGED <<pc, creds>>
    BY <1>6 DEF StoreWritten, OAuthTick, Written, Tick, ContextEnds, RequestExpires, calls, oauth
  <2> QED BY <1>4, <2>1
<1> QED BY <1>2, <1>3, <1>5, <1>6 DEF OAuthNext, OAuthStep

\* A request's record is not the absence of one.
LEMMA SentIsSome ==
  ASSUME NEW c, NEW t
  PROVE  [cred |-> c, at |-> t] # None
<1>1. DOMAIN [cred |-> c, at |-> t] = {"cred", "at"} /\ DOMAIN None = {"is"}
  BY DEF None, Is
<1> QED BY <1>1

\* The steps of Claude's source take in hand only what they may send.
LEMMA OAuthInHand ==
  ASSUME ExpiriesAreTold, FrameInv, HonourInv, InHandInv, source = OAuthID, OAuthNext
  PROVE  InHandInv'
<1> DEFINE Sending == {"request", "body", "parse", "probe"}
<1>1. pc' = "check" => creds' \in Credentialed /\ creds'.access
  BY CredentialInHand
<1>2. CASE SendToken /\ pc' = "request"
  <2>1. /\ pc = "check" /\ ~ IsExpired(ClaudeExpiry(creds), now) /\ sent' = [cred |-> creds, at |-> now]
    BY <1>2 DEF SendToken, Return
  <2>2. creds \in Credentialed /\ creds.access /\ creds \in ClaudeCredentials /\ now \in FirstNow .. LastNow
    BY <2>1, StoresAssumption DEF InHandInv, FrameInv, Credentialed
  <2>3. \/ ClaudeExpiry(creds) = creds.until /\ creds.until # NoExpiry
        \/ ClaudeExpiry(creds) = NoExpiry /\ LastNow < creds.until
    BY <2>2, ExpiryIsRead DEF ExpiriesAreTold, Credentialed
  <2>4. now \in Int /\ creds.until \in Int /\ LastNow \in Int /\ now <= LastNow
    BY <2>2, ClockAssumption DEF ClaudeCredentials
  <2>5. now < creds.until
    BY <2>1, <2>3, <2>4 DEF IsExpired
  <2>6. sent'.cred = creds /\ sent'.at = now
    BY <2>1
  <2> QED BY <1>1, <2>1, <2>5, <2>6, SentIsSome DEF InHandInv, SentTokenIsLive
<1>3. CASE UNCHANGED sent /\ (pc' \in Sending => pc \in Sending)
           /\ UNCHANGED source
  BY <1>1, <1>3 DEF InHandInv, SentTokenIsLive
<1>4. UNCHANGED source
  BY OAuthGoesOn DEF Answering, Proceeding, outside
<1>5. CASE ReadKeychain \/ ReadFile
  <2>1. UNCHANGED sent
    BY <1>5 DEF ReadKeychain, ReadFile, exchange
  <2>2. pc' \notin Sending
    <3>1. ASSUME NEW v, NEW c, Resolved(v, c) PROVE pc' \notin Sending
      BY <3>1, ResolvedBy DEF FrameInv, Detected, AvailableSays, Return, Goto
    <3> QED BY <1>5, <3>1, ReadsOfKeychain, ReadsOfFile DEF Goto
  <2> QED BY <1>3, <1>4, <2>1, <2>2
<1>6. CASE SendToken /\ pc' # "request"
  BY <1>3, <1>4, <1>6 DEF SendToken, Goto, Return
<1>7. CASE \/ BeginOAuth \/ KeychainFails \/ ExchangeFails \/ ReadBody \/ ReadEntry \/ ListWindows
           \/ VersionProbed \/ EndpointAnswers
  BY <1>3, <1>4, <1>7 DEF BeginOAuth, KeychainFails, ExchangeFails, Exchanging, ReadBody, ReadEntry, ListWindows,
                          VersionProbed, EndpointAnswers, Goto, Return, exchange, oauth
<1>8. CASE StoreWritten \/ OAuthTick \/ ((ContextEnds \/ RequestExpires) /\ UNCHANGED oauth)
  <2>1. UNCHANGED <<pc, sent>>
    BY <1>8 DEF StoreWritten, OAuthTick, Written, Tick, ContextEnds, RequestExpires, calls, exchange, oauth
  <2> QED BY <1>3, <1>4, <2>1
<1> QED BY <1>2, <1>5, <1>6, <1>7, <1>8 DEF OAuthNext, OAuthStep

\* A step of a local source touches none of this.
LEMMA LocalTouchesNone ==
  ASSUME FrameInv, source \in LocalIDs, LocalNext, UNCHANGED oauth
  PROVE  /\ UNCHANGED <<source, sent, creds, kept, keychain, credFile, held>>
         /\ source # OAuthID /\ pc' \in LocalPlaces
BY LocalGoesOn, KindsOfSource DEF Answering, Proceeding, outside, oauth, stores, exchange

\* Every step keeps what is in hand fit to be sent.
LEMMA NextInHand ==
  ASSUME ExpiriesAreTold, FrameInv, HonourInv, InHandInv, [Next]_vars
  PROVE  InHandInv'
<1>1. CASE UNCHANGED vars
  BY <1>1 DEF vars, frame, outside, calls, oauth, exchange, InHandInv, SentTokenIsLive
<1>2. CASE source = OAuthID /\ OAuthNext
  BY <1>2, OAuthInHand
<1>3. CASE source \in LocalIDs /\ LocalNext /\ UNCHANGED oauth
  <2>1. /\ UNCHANGED <<source, sent>> /\ source # OAuthID /\ pc' # "check"
    BY <1>3, LocalTouchesNone DEF LocalPlaces
  <2> QED BY <2>1 DEF InHandInv, SentTokenIsLive
<1> QED BY <1>1, <1>2, <1>3 DEF Next

\* Nothing in the keychain that a read passes over was usable, and nothing in the
\* file that a read does not find valid.
LEMMA PassedOverIsUseless ==
  ASSUME ExpiriesAreTold, FrameInv
  PROVE  /\ HeldNow # "valid" => "keychain" \notin UsableStores
         /\ \A h : FromFile(h).verdict # "valid" => "file" \notin UsableStores
<1>1. /\ keychain \in KeychainItems \cup {Absent} /\ credFile \in FileContents \cup {Absent}
      /\ now \in FirstNow .. LastNow
  BY DEF FrameInv
<1>2. "keychain" \in UsableStores => HeldNow = "valid"
  <2> SUFFICES ASSUME Usable(keychain) PROVE HeldNow = "valid"
    BY DEF UsableStores
  <2> QED BY <1>1, UsableIsValid DEF HeldNow
<1>3. ASSUME NEW h, "file" \in UsableStores PROVE FromFile(h).verdict = "valid"
  <2>1. Usable(credFile)
    BY <1>3 DEF UsableStores
  <2> QED BY <1>1, <2>1, UsableIsValid DEF FromFile, Outcome
<1> QED BY <1>2, <1>3

\* The stores that are usable stay so while nothing is written and no time passes.
LEMMA UsableStays ==
  ASSUME UNCHANGED <<now, keychain, credFile>>
  PROVE  UsableStores' = UsableStores
BY DEF UsableStores, Usable

\* An outcome that is none, when no store was usable, or one in hand, hides none.
LEMMA ResolvedHidesNone ==
  ASSUME NEW v, NEW c, FrameInv, KeptInv, source = OAuthID, pc \in {"keychain", "file"}, Resolved(v, c),
         phase = "fetch" /\ v # "valid" => kept = {},
         v = "valid" => c # None,
         UNCHANGED <<source, now, keychain, credFile, kept>>
  PROVE  KeptInv'
<1>1. UsableStores' = UsableStores
  BY UsableStays
<1>2. phase \in Phases
  BY DEF FrameInv
<1>3. pc' # "file" /\ (phase' # "fetch" => phase # "fetch")
  BY <1>2, ResolvedBy DEF Detected, AvailableSays, Return, Goto
<1>4. NoUsableCredentialHidden'
  <2>1. CASE phase = "fetch" /\ v # "valid"
    BY <2>1 DEF NoUsableCredentialHidden
  <2>2. CASE phase = "fetch" /\ v = "valid" /\ ~ c.access
    <3>1. creds' = c
      BY <1>2, <2>2, ResolvedBy
    <3> QED BY <2>2, <3>1 DEF NoUsableCredentialHidden
  <2>3. CASE pc' # "returned"
    BY <2>3 DEF NoUsableCredentialHidden
  <2> QED BY <1>2, <2>1, <2>2, <2>3, ResolvedBy DEF Detected, AvailableSays, Goto
<1> QED BY <1>1, <1>3, <1>4 DEF KeptInv

\* No credential is none.
LEMMA CredentialIsSome == \A c \in ClaudeCredentials : c # None
BY DEF ClaudeCredentials, None, Is

\* The steps of Claude's source keep no usable credential back.
LEMMA OAuthKeeps ==
  ASSUME ExpiriesAreTold, FrameInv, HonourInv, InHandInv, KeptInv, source = OAuthID, OAuthNext
  PROVE  KeptInv'
<1>1. UNCHANGED source
  BY OAuthGoesOn DEF Answering, Proceeding, outside
<1>2. now \in Int /\ kept \subseteq {"keychain", "file"}
  BY ClockAssumption DEF FrameInv, KeptInv, UsableStores
<1>3. ASSUME pc' # "returned" \/ (sent' # None) \/ fetched' \in {"timeout", "upstream_error", "report"},
             kept' \subseteq UsableStores', phase' # "fetch" => kept' = {},
             phase' = "fetch" /\ pc' = "file" => "keychain" \notin kept'
      PROVE  KeptInv'
  BY <1>1, <1>3 DEF KeptInv, NoUsableCredentialHidden
<1>4. CASE BeginOAuth
  <2>1. phase = "fetch" /\ UNCHANGED <<phase, now, keychain, credFile>> /\ UsableStores' = UsableStores
    BY <1>4, UsableStays DEF BeginOAuth, FrameInv, Return, Goto, outside, stores
  <2>2. CASE Return(CtxReason) /\ UNCHANGED kept
    BY <1>3, <2>1, <2>2 DEF Return, CtxReason, KeptInv
  <2>3. CASE Goto("keychain") /\ kept' = UsableStores
    BY <1>3, <2>1, <2>3 DEF Goto
  <2> QED BY <1>4, <2>2, <2>3 DEF BeginOAuth
<1>5. CASE ReadKeychain
  <2>1. pc = "keychain" /\ UNCHANGED <<now, keychain, credFile, kept>>
    BY <1>5 DEF ReadKeychain, outside, stores
  <2>2. CASE HeldNow # "valid" /\ Goto("file")
    <3>1. "keychain" \notin UsableStores /\ UsableStores' = UsableStores
      BY <2>1, <2>2, PassedOverIsUseless, UsableStays
    <3> QED BY <1>3, <2>1, <2>2, <3>1 DEF Goto, KeptInv
  <2>3. CASE HeldNow = "valid" /\ Resolved("valid", keychain)
    <3>1. keychain # None
      BY <1>5, <2>3, ValidIsInHand, CredentialIsSome
    <3> QED BY <1>1, <2>1, <2>3, <3>1, ResolvedHidesNone
  <2> QED BY <1>5, <2>2, <2>3, ReadsOfKeychain
<1>6. CASE KeychainFails
  <2>1. UsableStores' = UsableStores /\ kept' = kept \ {"keychain"} /\ pc' = "file" /\ UNCHANGED phase
    BY <1>6, UsableStays DEF KeychainFails, outside, stores
  <2> QED BY <1>3, <2>1 DEF KeptInv
<1>7. CASE ReadFile
  <2>1. pc = "file" /\ UNCHANGED <<now, keychain, credFile, kept>>
    BY <1>7 DEF ReadFile, outside, stores
  <2>2. phase = "fetch" /\ FromFile(held).verdict # "valid" => kept = {}
    BY <1>2, <2>1, PassedOverIsUseless DEF KeptInv
  <2>3. FromFile(held).verdict = "valid" => FromFile(held).cred # None
    BY <1>7, ValidIsInHand, CredentialIsSome
  <2> QED BY <1>1, <1>7, <2>1, <2>2, <2>3, ReadsOfFile, ResolvedHidesNone
<1>8. CASE SendToken
  <2>1. pc = "check" /\ phase = "fetch" /\ UNCHANGED <<now, keychain, credFile, kept, creds, phase>>
        /\ UsableStores' = UsableStores
    BY <1>8, UsableStays DEF SendToken, FrameInv, Return, Goto, outside, stores
  <2>2. CASE Goto("request")
    BY <1>3, <2>1, <2>2 DEF Goto, KeptInv
  <2>3. CASE IsExpired(ClaudeExpiry(creds), now) /\ Return("credential_expired")
    <3>1. creds \in Credentialed /\ creds.access /\ creds \in ClaudeCredentials
      BY <2>1, StoresAssumption DEF InHandInv, Credentialed
    <3>2. ClaudeExpiry(creds) = creds.until
      BY <2>3, <3>1, ExpiryIsRead DEF ExpiriesAreTold, Credentialed, IsExpired
    <3>3. now >= creds.until /\ creds # None
      BY <2>3, <3>1, <3>2, CredentialIsSome DEF IsExpired
    <3> QED BY <1>1, <2>1, <2>3, <3>3 DEF KeptInv, NoUsableCredentialHidden, Return
  <2> QED BY <1>8, <2>2, <2>3 DEF SendToken
<1>9. CASE ExchangeFails \/ ReadBody \/ ReadEntry \/ ListWindows \/ VersionProbed \/ EndpointAnswers
  <2>1. /\ pc \in {"request", "body", "parse", "probe"} /\ phase = "fetch" /\ sent # None
        /\ UNCHANGED <<sent, kept, phase, now, keychain, credFile>> /\ UsableStores' = UsableStores
        /\ pc' # "file"
    BY <1>9, UsableStays DEF ExchangeFails, Exchanging, ReadBody, ReadEntry, ListWindows, VersionProbed,
                             EndpointAnswers, FrameInv, InHandInv, Return, Goto, outside, stores, oauth, exchange
  <2> QED BY <1>3, <2>1 DEF KeptInv
<1>10. CASE StoreWritten \/ OAuthTick
  <2>1. UNCHANGED <<phase, pc>> /\ kept' = kept \cap UsableStores' /\ pc # "returned"
    BY <1>10 DEF StoreWritten, OAuthTick, StillUsable, Written, Tick, Busy, calls
  <2> QED BY <1>3, <2>1 DEF KeptInv
<1>11. CASE (ContextEnds \/ RequestExpires) /\ UNCHANGED oauth
  <2>1. UNCHANGED <<phase, pc, kept, now, keychain, credFile>> /\ UsableStores' = UsableStores /\ pc # "returned"
    BY <1>11, UsableStays DEF ContextEnds, RequestExpires, Busy, Exchanging, calls, outside, oauth, stores
  <2> QED BY <1>3, <2>1 DEF KeptInv
<1> QED BY <1>4, <1>5, <1>6, <1>7, <1>8, <1>9, <1>10, <1>11 DEF OAuthNext, OAuthStep

\* Every step keeps no usable credential back.
LEMMA NextKeeps ==
  ASSUME ExpiriesAreTold, FrameInv, HonourInv, InHandInv, KeptInv, [Next]_vars
  PROVE  KeptInv'
<1>1. CASE UNCHANGED vars
  <2>1. UsableStores' = UsableStores
    BY <1>1, UsableStays DEF vars, frame, outside, oauth, stores
  <2> QED BY <1>1, <2>1 DEF vars, frame, outside, calls, oauth, exchange, KeptInv, NoUsableCredentialHidden
<1>2. CASE source = OAuthID /\ OAuthNext
  BY <1>2, OAuthKeeps
<1>3. CASE source \in LocalIDs /\ LocalNext /\ UNCHANGED oauth
  <2>1. UNCHANGED <<source, kept>> /\ source # OAuthID /\ pc' # "file" /\ kept = {}
    BY <1>3, LocalTouchesNone DEF LocalPlaces, KeptInv
  <2> QED BY <2>1 DEF KeptInv, NoUsableCredentialHidden
<1> QED BY <1>1, <1>2, <1>3 DEF Next

\* No credential is in hand at first.
LEMMA InitCredentials ==
  ASSUME Init
  PROVE  InHandInv /\ KeptInv
<1>1. /\ phase = "detect" /\ pc \in {"keychain", "detect"} /\ sent = None /\ kept = {}
  BY DEF Init, FrameInit, OAuthInit, LocalInit, OAuthIdle
<1> QED BY <1>1 DEF InHandInv, KeptInv, SentTokenIsLive, NoUsableCredentialHidden

\* A token goes out only while its issuer would still take it, for any stores,
\* however often they are rewritten while they are read: SentTokenIsLive, if the
\* expiries are told as supposed.
THEOREM TokensAreLive ==
  ASSUME ExpiriesAreTold
  PROVE  Spec => []SentTokenIsLive
<1>1. Init => InHandInv
  BY InitCredentials
<1>2. FrameInv /\ HonourInv /\ InHandInv /\ [Next]_vars => InHandInv'
  BY NextInHand
<1>3. InHandInv => SentTokenIsLive
  BY DEF InHandInv
<1> QED BY <1>1, <1>2, <1>3, CallsAreFramed, HonourAlways, PTL DEF Spec

\* A store that is expired, malformed or out of reach never hides a usable token
\* in the other: NoUsableCredentialHidden, under the same condition.
THEOREM NoneIsHidden ==
  ASSUME ExpiriesAreTold
  PROVE  Spec => []NoUsableCredentialHidden
<1>1. Init => InHandInv /\ KeptInv
  BY InitCredentials
<1>2. FrameInv /\ HonourInv /\ InHandInv /\ KeptInv /\ [Next]_vars => InHandInv' /\ KeptInv'
  BY NextInHand, NextKeeps
<1>3. KeptInv => NoUsableCredentialHidden
  BY DEF KeptInv
<1> QED BY <1>1, <1>2, <1>3, CallsAreFramed, HonourAlways, PTL DEF Spec

-----------------------------------------------------------------------------
(* The windows of a report.                                                *)

\* The part of a body that has been read is a prefix of the walk without a bad
\* reset, and what was found in it is a window of each of its labels, none of
\* which has one in a later box.
ReadSoFar == body \ unread

ParseInv ==
  /\ body \in Bodies
  /\ unread \subseteq body
  /\ \A e \in ReadSoFar : e.is # "misdated" /\ \A f \in unread : PlaceIn(Boxes, e.box) <= PlaceIn(Boxes, f.box)
  /\ found \subseteq WindowsIn(ReadSoFar)
  /\ Labels(found) = Labels(WindowsIn(ReadSoFar))
  /\ \A e, f \in found : LabelOf(e) = LabelOf(f) => e = f
  /\ \A e \in found : InLastBox(e, WindowsIn(ReadSoFar))

\* So are the windows listed from then on.
Reportable ==
  /\ Labels({windows[i] : i \in DOMAIN windows}) = Labels(WindowsIn(body))
  /\ \A i, j \in DOMAIN windows : LabelOf(windows[i]) = LabelOf(windows[j]) => i = j
  /\ \A i \in DOMAIN windows : windows[i] \in WindowsIn(body) /\ InLastBox(windows[i], WindowsIn(body))
  /\ \A e \in body : e.is # "misdated"

WindowsInv ==
  source = OAuthID =>
    /\ pc = "parse" => ParseInv
    /\ pc = "probe" \/ fetched = "report" => Reportable

\* Before its first entry is read nothing of a body is.
LEMMA NothingReadYet ==
  ASSUME ReadBody, Goto("parse")
  PROVE  ParseInv'
<1>1. body' \in Bodies /\ unread' = body' /\ found' = {}
  BY DEF ReadBody, Return, Goto
<1>2. ReadSoFar' = {} /\ WindowsIn(ReadSoFar)' = {} /\ Labels(WindowsIn(ReadSoFar))' = {} /\ Labels(found)' = {}
  BY <1>1 DEF ReadSoFar, WindowsIn, Labels
<1> QED BY <1>1, <1>2 DEF ParseInv

\* One more entry, one of the first box that is left, keeps what was found right:
\* a window takes the place of one whose box is not later.
LEMMA OneMoreRead ==
  ASSUME ParseInv, NEW e \in NextEntries, e.is # "misdated", UNCHANGED body, unread' = unread \ {e},
         \/ e.is = "window" /\ found' = Discovered(e)
         \/ e.is # "window" /\ found' = found
  PROVE  ParseInv'
<1>1. /\ e \in unread /\ e \in body /\ unread \subseteq body
      /\ \A f \in unread : PlaceIn(Boxes, e.box) <= PlaceIn(Boxes, f.box)
      /\ \A f \in ReadSoFar : PlaceIn(Boxes, f.box) <= PlaceIn(Boxes, e.box)
  BY DEF NextEntries, ParseInv
<1>2. ReadSoFar' = ReadSoFar \cup {e}
  BY <1>1 DEF ReadSoFar
<1>3. body' \in Bodies /\ unread' \subseteq body'
  BY <1>1 DEF ParseInv
<1>4. \A g \in ReadSoFar' : g.is # "misdated" /\ \A f \in unread' : PlaceIn(Boxes, g.box) <= PlaceIn(Boxes, f.box)
  BY <1>1, <1>2 DEF ParseInv
<1>5. CASE e.is = "window" /\ found' = Discovered(e)
  <2>1. WindowsIn(ReadSoFar)' = WindowsIn(ReadSoFar) \cup {e}
    BY <1>2, <1>5 DEF WindowsIn
  <2>2. found' = {f \in found : LabelOf(f) # LabelOf(e)} \cup {e}
    BY <1>5 DEF Discovered
  <2>3. found' \subseteq WindowsIn(ReadSoFar)'
    BY <2>1, <2>2 DEF ParseInv
  <2>4. Labels(found)' = Labels(WindowsIn(ReadSoFar))'
    <3>1. Labels(found') = Labels(found) \cup {LabelOf(e)}
      BY <2>2 DEF Labels
    <3>2. Labels(WindowsIn(ReadSoFar) \cup {e}) = Labels(WindowsIn(ReadSoFar)) \cup {LabelOf(e)}
      BY DEF Labels
    <3> QED BY <2>1, <3>1, <3>2 DEF ParseInv
  <2>5. \A f, g \in found' : LabelOf(f) = LabelOf(g) => f = g
    BY <2>2 DEF ParseInv
  <2>6. \A f \in found' : InLastBox(f, WindowsIn(ReadSoFar)')
    <3>1. ASSUME NEW f \in found, LabelOf(f) # LabelOf(e) PROVE InLastBox(f, WindowsIn(ReadSoFar)')
      BY <2>1, <3>1 DEF ParseInv, InLastBox
    <3>2. InLastBox(e, WindowsIn(ReadSoFar)')
      <4>1. \A g \in WindowsIn(ReadSoFar) : PlaceIn(Boxes, g.box) <= PlaceIn(Boxes, e.box)
        BY <1>1 DEF WindowsIn
      <4>2. PlaceIn(Boxes, e.box) <= PlaceIn(Boxes, e.box)
        BY <1>1
      <4> QED BY <2>1, <4>1, <4>2 DEF InLastBox
    <3> QED BY <2>2, <3>1, <3>2
  <2> QED BY <1>3, <1>4, <2>3, <2>4, <2>5, <2>6 DEF ParseInv
<1>6. CASE e.is # "window" /\ found' = found
  <2>1. WindowsIn(ReadSoFar)' = WindowsIn(ReadSoFar)
    BY <1>2, <1>6 DEF WindowsIn
  <2>2. Labels(found)' = Labels(found) /\ Labels(WindowsIn(ReadSoFar))' = Labels(WindowsIn(ReadSoFar))
    BY <1>6, <2>1 DEF Labels
  <2> QED BY <1>3, <1>4, <1>6, <2>1, <2>2 DEF ParseInv
<1> QED BY <1>5, <1>6

\* Windows of different labels, sorted, are the same windows.
LEMMA SortedKeeps ==
  ASSUME NEW set, IsFiniteSet(set), \A e, f \in set : LabelOf(e) = LabelOf(f) => e = f,
         \A e \in set : \E i \in DOMAIN LabelOrder : LabelOrder[i] = LabelOf(e),
         NEW w \in Sorted(set)
  PROVE  /\ {w[i] : i \in DOMAIN w} = set
         /\ \A i, j \in DOMAIN w : LabelOf(w[i]) = LabelOf(w[j]) => i = j
<1> DEFINE n == Cardinality(set)
<1>1. n \in Nat
  BY FS_CardinalityType
<1>2. /\ w \in [1 .. n -> set] /\ DOMAIN w = 1 .. n
      /\ \A i, j \in DOMAIN w : i < j => PlaceIn(LabelOrder, LabelOf(w[i])) < PlaceIn(LabelOrder, LabelOf(w[j]))
  BY DEF Sorted
<1>3. \A e \in set : PlaceIn(LabelOrder, LabelOf(e)) \in Int
  <2>1. \A e \in set : PlaceIn(LabelOrder, LabelOf(e)) \in DOMAIN LabelOrder
    BY DEF PlaceIn
  <2>2. DOMAIN LabelOrder \subseteq Int
    BY DEF LabelOrder
  <2> QED BY <2>1, <2>2
<1>4. ASSUME NEW i \in DOMAIN w, NEW j \in DOMAIN w, LabelOf(w[i]) = LabelOf(w[j])
      PROVE  i = j
  <2>1. PlaceIn(LabelOrder, LabelOf(w[i])) \in Int
    BY <1>2, <1>3
  <2>2. ~ (i < j) /\ ~ (j < i)
    BY <1>2, <1>4, <2>1
  <2> QED BY <1>1, <1>2, <2>2
<1>5. w \in Injection(1 .. n, set)
  BY <1>2, <1>4 DEF Injection, IsInjective
<1>6. w \in Surjection(1 .. n, set)
  <2>1. Cardinality(1 .. n) = n /\ IsFiniteSet(1 .. n)
    BY <1>1, FS_Interval
  <2> HIDE DEF n
  <2> QED BY <1>1, <1>5, <2>1, FS_Injection DEF n
<1>7. {w[i] : i \in DOMAIN w} = set
  BY <1>2, <1>6 DEF Surjection
<1> QED BY <1>4, <1>7

\* What was found in the whole of a body is what is listed.
LEMMA ListingIsRight ==
  ASSUME ParseInv, ListWindows, Goto("probe")
  PROVE  Reportable'
<1>1. unread = {} /\ windows' \in Sorted(found) /\ UNCHANGED body
  BY DEF ListWindows, Return, Goto
<1>2. PICK w \in Sorted(found) : windows' = w
  BY <1>1
<1>3. /\ ReadSoFar = body /\ found \subseteq WindowsIn(body) /\ Labels(found) = Labels(WindowsIn(body))
      /\ \A e, f \in found : LabelOf(e) = LabelOf(f) => e = f
      /\ \A e \in found : InLastBox(e, WindowsIn(body))
      /\ \A e \in body : e.is # "misdated"
  BY <1>1 DEF ParseInv, ReadSoFar
<1>4. /\ IsFiniteSet(found)
      /\ \A e \in found : \E i \in DOMAIN LabelOrder : LabelOrder[i] = LabelOf(e)
  <2>1. body \in Bodies /\ found \subseteq body /\ \A e \in found : e.is = "window"
    BY <1>3 DEF ParseInv, WindowsIn
  <2> QED BY <2>1, BodiesAssumption, FS_Subset
<1>5. /\ {w[i] : i \in DOMAIN w} = found
      /\ \A i, j \in DOMAIN w : LabelOf(w[i]) = LabelOf(w[j]) => i = j
  BY <1>3, <1>4, SortedKeeps
<1>6. \A i \in DOMAIN w : w[i] \in WindowsIn(body) /\ InLastBox(w[i], WindowsIn(body))
  BY <1>3, <1>5
<1>7. Labels({windows'[i] : i \in DOMAIN windows'}) = Labels(WindowsIn(body'))
  <2>1. {windows'[i] : i \in DOMAIN windows'} = found
    BY <1>2, <1>5
  <2> QED BY <1>1, <1>3, <2>1
<1>8. \A i \in DOMAIN windows' : windows'[i] \in WindowsIn(body') /\ InLastBox(windows'[i], WindowsIn(body'))
  BY <1>1, <1>2, <1>6
<1>9. \A i, j \in DOMAIN windows' : LabelOf(windows'[i]) = LabelOf(windows'[j]) => i = j
  BY <1>2, <1>5
<1>10. \A e \in body' : e.is # "misdated"
  BY <1>1, <1>3
<1> QED BY <1>7, <1>8, <1>9, <1>10 DEF Reportable

\* A step that touches neither the answer nor where Fetch is keeps both.
LEMMA AnswerStays ==
  ASSUME WindowsInv, UNCHANGED <<source, pc, fetched, answer>>
  PROVE  WindowsInv'
<1>1. ParseInv' = ParseInv
  BY DEF ParseInv, ReadSoFar, InLastBox, answer
<1>2. Reportable' = Reportable
  BY DEF Reportable, InLastBox, answer
<1> QED BY <1>1, <1>2 DEF WindowsInv

\* Every step keeps the windows those of the body.
LEMMA NextWindows ==
  ASSUME FrameInv, WindowsInv, [Next]_vars
  PROVE  WindowsInv'
<1>1. CASE UNCHANGED vars
  BY <1>1, AnswerStays DEF vars, frame, outside, calls, oauth, exchange
<1>2. CASE source \in LocalIDs /\ LocalNext /\ UNCHANGED oauth
  BY <1>2, LocalTouchesNone DEF WindowsInv
<1>3. CASE source = OAuthID /\ OAuthNext
  <2>1. CASE pc' \notin {"parse", "probe"} /\ fetched' # "report"
    BY <2>1 DEF WindowsInv
  <2>2. pc # "returned" => fetched = Nothing /\ Nothing # "report"
    BY DEF FrameInv, Nothing
  <2>3. CASE ReadBody
    <3>1. pc = "body" /\ (Goto("parse") \/ Return("not_authenticated") \/ Return("upstream_error"))
      BY <2>3 DEF ReadBody
    <3>2. CASE Goto("parse")
      BY <2>2, <2>3, <3>1, <3>2, NothingReadYet DEF WindowsInv, Goto
    <3> QED BY <2>1, <3>1, <3>2 DEF Return
  <2>4. CASE ReadEntry
    <3>1. ParseInv /\ UNCHANGED body
      BY <1>3, <2>4 DEF ReadEntry, WindowsInv
    <3>2. CASE Goto("parse")
      <4>1. PICK e \in NextEntries :
              /\ e.is # "misdated" /\ unread' = unread \ {e}
              /\ \/ e.is = "window" /\ found' = Discovered(e)
                 \/ e.is # "window" /\ found' = found
        <5>1. "parse" # "returned" /\ pc' = "parse"
          BY <3>2 DEF Goto
        <5>2. PICK e \in NextEntries :
                /\ unread' = unread \ {e}
                /\ \/ e.is = "window" /\ found' = Discovered(e) /\ Goto("parse")
                   \/ e.is = "other" /\ UNCHANGED found /\ Goto("parse")
                   \/ e.is = "misdated" /\ UNCHANGED found /\ Return("parse_failed")
          BY <2>4 DEF ReadEntry
        <5> QED BY <5>1, <5>2 DEF Return
      <4>2. ParseInv'
        BY <3>1, <4>1, OneMoreRead
      <4>3. pc = "parse"
        BY <2>4 DEF ReadEntry
      <4> QED BY <2>2, <3>2, <4>2, <4>3 DEF WindowsInv, Goto
    <3>3. CASE Return("parse_failed")
      BY <2>1, <3>3 DEF Return
    <3> QED BY <2>4, <3>2, <3>3 DEF ReadEntry
  <2>5. CASE ListWindows
    <3>1. ParseInv /\ pc = "parse" /\ (Goto("probe") \/ Return("parse_failed"))
      BY <1>3, <2>5 DEF ListWindows, WindowsInv
    <3>2. CASE Goto("probe")
      BY <2>2, <2>5, <3>1, <3>2, ListingIsRight DEF WindowsInv, Goto
    <3> QED BY <2>1, <3>1, <3>2 DEF Return
  <2>6. CASE VersionProbed
    <3>1. Reportable /\ UNCHANGED answer /\ pc' = "returned"
      BY <1>3, <2>6 DEF VersionProbed, WindowsInv, oauth, exchange, Return
    <3>2. Reportable' = Reportable
      BY <3>1 DEF Reportable, InLastBox, answer
    <3> QED BY <3>1, <3>2 DEF WindowsInv
  <2>7. CASE StoreWritten \/ OAuthTick \/ ((ContextEnds \/ RequestExpires) /\ UNCHANGED oauth)
    <3>1. UNCHANGED <<source, pc, fetched, answer>>
      BY <2>7 DEF StoreWritten, OAuthTick, Written, Tick, ContextEnds, RequestExpires, calls, outside, oauth, exchange
    <3> QED BY <3>1, AnswerStays
  <2>8. CASE BeginOAuth \/ KeychainFails \/ SendToken \/ ExchangeFails \/ EndpointAnswers
    <3>1. pc # "returned" /\ pc' \notin {"parse", "probe"} /\ fetched' # "report"
      <4>1. pc # "returned"
        BY <2>8 DEF BeginOAuth, KeychainFails, SendToken, ExchangeFails, Exchanging, EndpointAnswers
      <4>2. CtxReason # "report"
        BY DEF CtxReason
      <4> QED BY <2>2, <2>8, <4>1, <4>2 DEF BeginOAuth, KeychainFails, SendToken, ExchangeFails, EndpointAnswers,
                                            Goto, Return
    <3> QED BY <2>1, <3>1
  <2>9. CASE ReadKeychain \/ ReadFile
    <3>1. fetched = Nothing /\ Nothing # "report"
      BY <2>2, <2>9 DEF ReadKeychain, ReadFile
    <3>2. ASSUME NEW v, NEW c, Resolved(v, c) PROVE pc' \notin {"parse", "probe"} /\ fetched' # "report"
      <4>1. Refusal(v) # "report"
        BY DEF Refusal
      <4> QED BY <3>1, <3>2, <4>1, ResolvedBy DEF FrameInv, Detected, AvailableSays, Return, Goto
    <3> QED BY <2>1, <2>9, <3>1, <3>2, ReadsOfKeychain, ReadsOfFile DEF Goto
  <2> QED BY <1>3, <2>3, <2>4, <2>5, <2>6, <2>7, <2>8, <2>9 DEF OAuthNext, OAuthStep
<1> QED BY <1>1, <1>2, <1>3 DEF Next

\* A report of oauth_api has one window of each label the endpoint listed, that of
\* the last box, whatever the order in which its body was walked, and none comes
\* of a body with a bad reset: WindowsAreListed, for any bodies.
THEOREM WindowsAreFaithful == Spec => []WindowsAreListed
<1>1. Init => WindowsInv
  <2> SUFFICES ASSUME Init PROVE WindowsInv
    OBVIOUS
  <2>1. pc \in {"keychain", "detect"} /\ fetched # "report"
    BY DEF Init, FrameInit, OAuthInit, LocalInit, Nothing
  <2> QED BY <2>1 DEF WindowsInv
<1>2. FrameInv /\ WindowsInv /\ [Next]_vars => WindowsInv'
  BY NextWindows
<1>3. WindowsInv => WindowsAreListed
  BY DEF WindowsInv, Reportable, WindowsAreListed
<1> QED BY <1>1, <1>2, <1>3, CallsAreFramed, PTL DEF Spec

-----------------------------------------------------------------------------
(* The tokens of a report.                                                 *)

\* The lemmas on sums, which are about no scan.
Sums == INSTANCE TranscriptsProofs WITH
  Paths <- <<>>, Contents <- {}, NewLines <- {}, Sinces <- {}, MaxLine <- 0,
  since <- 0, dir <- "there", files <- <<>>, mtime <- <<>>, denied <- {}, listed <- {}, file <- 0,
  pos <- 0, off <- 0, tooLong <- FALSE, seen <- {}, counted <- {}, atStart <- <<>>

Tables == [Sessions -> [Counters -> Nat]]
Pairs  == Sessions \X Counters

\* Whether no counter of the one table is above that of the other.
NoMore(t, u) == \A s \in Sessions, c \in Counters : t[s][c] <= u[s][c]

\* The counters of a table are finite, also as the lemmas on sums say it.
LEMMA PairsAreFinite == Sums!IsFiniteSet(Pairs)
<1>1. IsFiniteSet(Counters)
  <2>1. Counters = {"input"} \cup {"cache_read"}
    BY DEF Counters
  <2> QED BY <2>1, FS_Singleton, FS_Union
<1>2. IsFiniteSet(Pairs)
  BY <1>1, SessionsAssumption, FS_Product DEF Pairs
<1> QED BY <1>2 DEF IsFiniteSet, Sums!IsFiniteSet

\* What those lemmas suppose of a scan's files holds where there are none.
LEMMA NoTranscripts ==
  /\ <<>> \in Seq(STRING)
  /\ {} \subseteq Nat /\ 0 \in Nat
  /\ {} \subseteq Sums!Lines /\ {} \subseteq Seq(Sums!Lines)
  /\ \A lines \in {} : \A i \in DOMAIN lines :
       lines[i].at <= 1 /\ (i < Len(lines) => lines[i].state = "ended")
<1>1. <<>> \in Seq(STRING)
  OBVIOUS
<1> QED BY <1>1

\* What a table's counters add up to.
LEMMA SumOverTable ==
  ASSUME NEW t \in Tables, NEW f \in [Pairs -> Nat], \A p \in Pairs : f[p] = t[p[1]][p[2]]
  PROVE  \E h : Sums!IsSum(h, Pairs, f) /\ SumOver(t) = h[Pairs]
<1> DEFINE P(g) == g = [s \in SUBSET Pairs |->
                         IF s = {} THEN 0
                         ELSE LET x == CHOOSE x \in s : TRUE IN t[x[1]][x[2]] + g[s \ {x}]]
<1>1. \A g : P(g) <=> Sums!IsSum(g, Pairs, f)
  <2>1. ASSUME NEW g, NEW s \in SUBSET Pairs, s # {}
        PROVE  LET x == CHOOSE x \in s : TRUE IN f[x] + g[s \ {x}] = t[x[1]][x[2]] + g[s \ {x}]
    <3> DEFINE x == CHOOSE x \in s : TRUE
    <3>1. x \in Pairs
      BY <2>1
    <3> HIDE DEF x
    <3>2. f[x] + g[s \ {x}] = t[x[1]][x[2]] + g[s \ {x}]
      BY <3>1
    <3> QED BY <3>2 DEF x
  <2>2. \A g : [s \in SUBSET Pairs |-> Sums!SumStep(g, f, s)]
                = [s \in SUBSET Pairs |->
                    IF s = {} THEN 0
                    ELSE LET x == CHOOSE x \in s : TRUE IN t[x[1]][x[2]] + g[s \ {x}]]
    BY <2>1 DEF Sums!SumStep
  <2> QED BY <2>2 DEF Sums!IsSum
<1>2. SumOver(t) = (CHOOSE g : P(g))[Pairs]
  BY DEF SumOver, MapThenSumSet, MapThenFoldSet, Pairs
<1> HIDE DEF P
<1>3. \E g : P(g)
  <2>1. \E g \in [SUBSET Pairs -> Nat] : Sums!IsSum(g, Pairs, f)
    BY PairsAreFinite, NoTranscripts, Sums!SumsExist
  <2> QED BY <1>1, <2>1
<1>4. P(CHOOSE g : P(g))
  BY <1>3
<1> QED BY <1>1, <1>2, <1>4

\* A table that has no less spent has no less spent in all.
LEMMA SpentAddsUp ==
  ASSUME NEW t \in Tables, NEW u \in Tables, NoMore(t, u)
  PROVE  SumOver(t) \in Nat /\ SumOver(u) \in Nat /\ SumOver(t) <= SumOver(u)
<1>1. \A p \in Pairs : /\ p[1] \in Sessions /\ p[2] \in Counters
                       /\ t[p[1]][p[2]] \in Nat /\ u[p[1]][p[2]] \in Nat /\ t[p[1]][p[2]] <= u[p[1]][p[2]]
  BY DEF Pairs, Tables, NoMore
<1>2. PICK e, f : e = [p \in Pairs |-> t[p[1]][p[2]]] /\ f = [p \in Pairs |-> u[p[1]][p[2]]]
  OBVIOUS
<1>3. /\ e \in [Pairs -> Nat] /\ f \in [Pairs -> Nat]
      /\ \A p \in Pairs : e[p] = t[p[1]][p[2]] /\ f[p] = u[p[1]][p[2]] /\ e[p] <= f[p]
  BY <1>1, <1>2
<1>4. PICK h : Sums!IsSum(h, Pairs, e) /\ SumOver(t) = h[Pairs]
  BY <1>3, SumOverTable
<1>5. PICK g : Sums!IsSum(g, Pairs, f) /\ SumOver(u) = g[Pairs]
  BY <1>3, SumOverTable
<1>6. h \in [SUBSET Pairs -> Nat] /\ g \in [SUBSET Pairs -> Nat]
  BY <1>3, <1>4, <1>5, PairsAreFinite, NoTranscripts, Sums!SumType
<1>7. h[Pairs] <= g[Pairs]
  <2>1. Sums!IsSum(h, Pairs, e) /\ Sums!IsSum(g, Pairs, f)
    BY <1>4, <1>5
  <2>2. e \in [Pairs -> Nat] /\ f \in [Pairs -> Nat] /\ \A p \in Pairs : e[p] <= f[p]
    BY <1>3
  <2> QED BY <2>1, <2>2, PairsAreFinite, NoTranscripts, Sums!SumsAscend
<1> QED BY <1>4, <1>5, <1>6, <1>7

\* However the server lists a session, its counters are read as they were.
LEMMA ListedIsRead ==
  ASSUME NEW s \in [Counters -> Nat], NEW raw \in Forms(s), NEW c \in Counters
  PROVE  extractTokens(raw, c) = s[c]
<1>1. s["input"] \in Nat /\ s["cache_read"] \in Nat /\ c \in {"input", "cache_read"}
  BY DEF Counters
<1>2. \A n \in Nat : n # Missing
  BY DEF Missing
<1>3. CASE raw = [flat |-> s, nested |-> NoCounters] \/ raw = [flat |-> NoCounters, nested |-> s]
           \/ raw = [flat |-> s, nested |-> s]
  BY <1>1, <1>2, <1>3 DEF extractTokens, NoCounters, Counters
<1>4. CASE raw = [flat |-> [NoCounters EXCEPT !["input"] = s["input"]],
                  nested |-> [NoCounters EXCEPT !["cache_read"] = s["cache_read"]]]
  BY <1>1, <1>2, <1>4 DEF extractTokens, NoCounters, Counters
<1> QED BY <1>3, <1>4 DEF Forms

\* What was listed was there, after Fetch began.
Listed(t) ==
  /\ floor <= SumOver(t)
  /\ NoMore(t, spent)
  /\ \A s \in Sessions : listing[s] \in Forms(t[s])

TokensInv ==
  /\ spent \in Tables
  /\ floor \in Nat /\ floor <= SumOver(spent)
  /\ source \in LocalIDs =>
       /\ total # Missing => pc \in {"probe", "returned"} /\ total \in floor .. SumOver(spent)
       /\ pc = "body" => \E t \in Tables : Listed(t)
       /\ source \in OpenCodeSources /\ (pc = "probe" \/ fetched = "report") => total # Missing

\* A table written to has no less spent than before.
LEMMA SpentGrows ==
  ASSUME TokensInv, spent' = spent \/ (\E s \in Sessions, c \in Counters : spent' = [spent EXCEPT ![s][c] = @ + 1])
  PROVE  /\ spent' \in Tables /\ NoMore(spent, spent')
         /\ SumOver(spent) \in Nat /\ SumOver(spent') \in Nat /\ SumOver(spent) <= SumOver(spent')
<1>1. PICK t, u : t = spent /\ u = spent'
  OBVIOUS
<1>2. t \in Tables
  BY <1>1 DEF TokensInv
<1>3. u \in Tables /\ NoMore(t, u)
  <2>1. CASE u = t
    BY <1>2, <2>1 DEF Tables, NoMore
  <2>2. ASSUME NEW s \in Sessions, NEW c \in Counters, u = [t EXCEPT ![s][c] = @ + 1]
        PROVE  u \in Tables /\ NoMore(t, u)
    BY <1>2, <2>2 DEF Tables, NoMore
  <2> QED BY <1>1, <2>1, <2>2
<1>4. SumOver(t) \in Nat /\ SumOver(u) \in Nat /\ SumOver(t) <= SumOver(u)
  BY <1>2, <1>3, SpentAddsUp
<1> QED BY <1>1, <1>3, <1>4

\* The tokens reported go on being between the two counts.
LEMMA NextTokens ==
  ASSUME FrameInv, TokensInv, [Next]_vars
  PROVE  TokensInv'
<1>1. /\ spent \in Tables /\ floor \in Nat /\ SumOver(spent) \in Nat /\ floor <= SumOver(spent)
      /\ Missing \notin Nat
  <2>1. NoMore(spent, spent)
    BY DEF TokensInv, Tables, NoMore
  <2> QED BY <2>1, SpentAddsUp DEF TokensInv, Missing
<1>2. CASE UNCHANGED <<source, pc, fetched, local>>
  BY <1>2 DEF TokensInv, Listed, local, machine, database, reported
<1>3. CASE source = OAuthID /\ OAuthNext /\ UNCHANGED local
  <2>1. source' = source
    BY <1>3, OAuthGoesOn DEF Answering, Proceeding, outside
  <2> QED BY <1>3, <2>1, KindsOfSource DEF TokensInv, local, machine, database, reported
<1>4. CASE source \in LocalIDs /\ LocalNext
  <2>1. source' = source
    BY <1>4, LocalGoesOn DEF Answering, Proceeding, outside
  <2>2. /\ total # Missing => pc \in {"probe", "returned"} /\ total \in floor .. SumOver(spent)
        /\ pc = "body" => \E t \in Tables : Listed(t)
        /\ source \in OpenCodeSources /\ (pc = "probe" \/ fetched = "report") => total # Missing
    BY <1>4 DEF TokensInv
  <2>3. fetched = "report" => pc = "returned"
    BY DEF FrameInv, Nothing
  \* A step that reads nothing and reports nothing new.
  <2>4. CASE /\ UNCHANGED <<spent, total, floor>>
             /\ pc' \notin {"body", "probe"} /\ (total # Missing => pc' = "returned")
             /\ fetched' = "report" /\ source \in OpenCodeSources => fetched = "report" \/ pc = "probe"
    BY <1>1, <2>1, <2>2, <2>4 DEF TokensInv
  <2>5. CASE UNCHANGED <<spent, listing, total, floor, pc, fetched>>
    BY <1>1, <2>1, <2>2, <2>5 DEF TokensInv, Listed
  <2>6. CASE Detect \/ Available
    <3>1. pc \in {"detect", "available"} /\ UNCHANGED local /\ fetched' = fetched /\ total = Missing
      <4>1. phase \in {"detect", "available"} /\ UNCHANGED local /\ fetched' = fetched
        <5>1. CASE Detect
          BY <5>1 DEF Detect, Detected
        <5>2. CASE Available
          <6>1. phase = "available" /\ UNCHANGED local /\ \E yes : AvailableSays(yes)
            BY <1>4, <5>2 DEF Available, LocalIDs, OpenCodeSources
          <6> QED BY <6>1 DEF AvailableSays
        <5> QED BY <2>6, <5>1, <5>2
      <4>2. pc \in {"detect", "available"}
        BY <1>4, <4>1, KindsOfSource DEF FrameInv, LocalPlaces
      <4> QED BY <2>2, <4>1, <4>2
    <3>2. pc' \in {"available", "start", "unavailable"}
      BY <1>4, <2>6 DEF Detect, Available, Detected, AvailableSays, LocalIDs, OpenCodeSources
    <3> QED BY <2>3, <2>4, <3>1, <3>2 DEF local, machine, database, reported
  <2>7. CASE BeginLocally
    <3>1. /\ pc = "start" /\ floor' = SumOver(spent) /\ UNCHANGED <<spent, total>>
          /\ pc' \in {"auth", "query", "request", "run"} /\ fetched' = fetched
      BY <1>4, <2>7 DEF BeginLocally, Goto, machine, database, reported, LocalIDs, OpenCodeSources
    <3>2. total = Missing /\ fetched # "report"
      BY <2>2, <2>3, <3>1
    <3>3. PICK n \in Nat : n = SumOver(spent)
      BY <1>1
    <3> QED BY <1>1, <2>1, <3>1, <3>2, <3>3 DEF TokensInv
  <2>8. CASE ReadAuth \/ QueryFails \/ RequestFails \/ ListingFails \/ CLIFails
    <3>1. pc \in {"auth", "query", "request", "body", "run"} /\ UNCHANGED <<spent, total, floor>>
      BY <2>8 DEF ReadAuth, QueryFails, RequestFails, ListingFails, CLIFails, local, machine, database, reported
    <3>2. total = Missing
      BY <2>2, <3>1
    <3>3. CtxReason # "report"
      BY DEF CtxReason
    <3>4. /\ pc' \in {"query", "returned"}
          /\ fetched' = "report" => fetched = "report" \/ source = CodexSource
      BY <2>8, <3>3 DEF ReadAuth, QueryFails, RequestFails, ListingFails, CLIFails, Return, Goto
    <3>5. CodexSource \notin OpenCodeSources
      BY DEF CodexSource, OpenCodeSources, OpenCodeState, OpenCodeRPC, OpenCodeCLI
    <3> QED BY <2>4, <3>1, <3>2, <3>4, <3>5
  <2>9. CASE QueryAnswers \/ CLIPrints
    <3>1. /\ UNCHANGED <<spent, floor>> /\ total' = SumOver(spent) /\ pc' \in {"probe", "returned"}
      BY <2>9 DEF QueryAnswers, CLIPrints, Return, Goto, machine, database
    <3>2. PICK n \in Nat : n = SumOver(spent)
      BY <1>1
    <3>3. n \in floor .. n /\ n # Missing
      BY <1>1, <3>2
    <3> QED BY <1>1, <2>1, <3>1, <3>2, <3>3 DEF TokensInv
  <2>10. CASE ServerLists
    <3>1. /\ pc = "request" /\ pc' = "body" /\ fetched' = fetched /\ UNCHANGED <<spent, total, floor>>
          /\ \A s \in Sessions : listing'[s] \in Forms(spent[s])
      BY <2>10 DEF ServerLists, Goto, machine, database, reported
    <3>2. total = Missing /\ fetched # "report"
      BY <2>2, <2>3, <3>1
    <3>3. PICK t \in Tables : t = spent
      BY <1>1
    <3>4. Listed(t)'
      BY <1>1, <3>1, <3>3 DEF Listed, NoMore, Tables
    <3> QED BY <1>1, <2>1, <3>1, <3>2, <3>4 DEF TokensInv
  <2>11. CASE ReadListing
    <3>1. /\ pc = "body" /\ pc' = "probe" /\ fetched' = fetched /\ UNCHANGED <<spent, floor>>
          /\ total' = SumOver([s \in Sessions |-> [c \in Counters |-> extractTokens(listing[s], c)]])
      BY <2>11 DEF ReadListing, Goto, machine, database
    <3>2. PICK t \in Tables : Listed(t)
      BY <2>2, <3>1
    <3>3. [s \in Sessions |-> [c \in Counters |-> extractTokens(listing[s], c)]] = t
      <4>1. ASSUME NEW s \in Sessions, NEW c \in Counters PROVE extractTokens(listing[s], c) = t[s][c]
        BY <3>2, ListedIsRead DEF Listed, Tables
      <4>2. ASSUME NEW s \in Sessions PROVE [c \in Counters |-> extractTokens(listing[s], c)] = t[s]
        BY <4>1 DEF Tables
      <4> QED BY <4>2 DEF Tables
    <3>4. PICK n, m \in Nat : n = SumOver(t) /\ m = SumOver(spent) /\ n <= m /\ floor <= n
      BY <1>1, <3>2, SpentAddsUp DEF Listed
    <3>5. total' = n /\ n \in floor .. m /\ n # Missing
      BY <1>1, <3>1, <3>3, <3>4
    <3> QED BY <1>1, <2>1, <3>1, <3>4, <3>5 DEF TokensInv
  <2>12. CASE Redetected
    <3>1. pc = "probe" /\ pc' = "returned" /\ UNCHANGED <<spent, total, floor>>
      BY <2>12 DEF Redetected, Return, local, machine, database, reported
    <3> QED BY <2>4, <3>1
  <2>13. CASE TableWritten
    <3>1. UNCHANGED <<listing, total, floor, pc, fetched>>
      BY <2>13 DEF TableWritten, Written, calls, reported
    <3>2. /\ spent' \in Tables /\ NoMore(spent, spent')
          /\ SumOver(spent) \in Nat /\ SumOver(spent') \in Nat /\ SumOver(spent) <= SumOver(spent')
      BY <2>13, SpentGrows DEF TableWritten
    <3>3. PICK n, m \in Nat : n = SumOver(spent) /\ m = SumOver(spent') /\ n <= m
      BY <3>2
    <3>4. ASSUME NEW t \in Tables, Listed(t) PROVE Listed(t)'
      <4>1. PICK u, v \in Tables : u = spent /\ v = spent'
        BY <1>1, <3>2
      <4>2. NoMore(t, u) /\ NoMore(u, v)
        BY <3>2, <3>4, <4>1 DEF Listed
      <4>3. NoMore(t, v)
        BY <4>1, <4>2 DEF NoMore, Tables
      <4> QED BY <3>1, <3>4, <4>1, <4>3 DEF Listed
    <3>5. floor <= m /\ (total # Missing => total \in floor .. m)
      BY <1>1, <2>2, <3>3
    <3> QED BY <1>1, <2>1, <2>2, <3>1, <3>2, <3>3, <3>4, <3>5 DEF TokensInv
  <2>14. CASE AuthWritten \/ CLIInstalled \/ ((Tick \/ ContextEnds \/ RequestExpires) /\ UNCHANGED local)
    <3>1. UNCHANGED <<spent, listing, total, floor, pc, fetched>>
      BY <2>14 DEF AuthWritten, CLIInstalled, Written, Tick, ContextEnds, RequestExpires, calls, local, machine,
                   database, reported
    <3> QED BY <2>5, <3>1
  <2> QED BY <1>4, <2>6, <2>7, <2>8, <2>9, <2>10, <2>11, <2>12, <2>13, <2>14
          DEF LocalNext, LocalStep, LocalAnswers
<1> QED BY <1>2, <1>3, <1>4 DEF Next, vars, frame, calls, outside

\* A report tells no fewer tokens than had been spent when Fetch began and no more
\* than are spent now, in whichever way they were read: TotalIsTrue.
THEOREM TotalsAreTrue == Spec => []TotalIsTrue
<1>1. Init => TokensInv
  <2> SUFFICES ASSUME Init PROVE TokensInv
    OBVIOUS
  <2>1. /\ spent = Unspent /\ total = Missing /\ floor = 0 /\ fetched # "report"
        /\ source \in LocalIDs => pc = "detect"
    BY KindsOfSource DEF Init, FrameInit, LocalIdle, LocalInit, Nothing
  <2>2. Unspent \in Tables /\ NoMore(Unspent, Unspent)
    BY DEF Unspent, Tables, NoMore
  <2>3. PICK n \in Nat : n = SumOver(Unspent)
    BY <2>2, SpentAddsUp
  <2> QED BY <2>1, <2>2, <2>3 DEF TokensInv
<1>2. FrameInv /\ TokensInv /\ [Next]_vars => TokensInv'
  BY NextTokens
<1>3. TokensInv => TotalIsTrue
  BY DEF TokensInv, TotalIsTrue, LocalIDs
<1> QED BY <1>1, <1>2, <1>3, CallsAreFramed, PTL DEF Spec
=============================================================================

------------------------------- MODULE Sources -------------------------------
(***************************************************************************)
(* A call of any of the sources that read what a vendor's tool left on the *)
(* machine or ask a server once: which one is chosen at the start.         *)
(***************************************************************************)
EXTENDS OAuthSource, LocalSources

vars == <<frame, oauth, local>>

OAuthID == "oauth_api"

Init ==
  /\ FrameInit
  /\ OAuthIdle
  /\ LocalIdle
  /\ \/ /\ source = OAuthID
        /\ OAuthInit
        /\ authFile = Absent /\ db = "absent" /\ spent = Unspent /\ binary = FALSE
     \/ /\ source \in LocalIDs
        /\ LocalInit
        /\ source = CodexSource => binary = FALSE
        /\ source # CodexSource => authFile = Absent
        /\ keychain = Absent /\ credFile = Absent

Next ==
  \/ source = OAuthID /\ OAuthNext /\ UNCHANGED local
  \/ source \in LocalIDs /\ LocalNext /\ UNCHANGED oauth

Spec == Init /\ [][Next]_vars

(* The goroutine that made the call is scheduled, and what it waits for    *)
(* ends when Fetch's context does, or a request's own time: a request, a   *)
(* query and a command are given it.  Nothing is asked of the servers, nor *)
(* of the user.                                                            *)
CallStep ==
  \/ source = OAuthID /\ OAuthStep /\ UNCHANGED local
  \/ source \in LocalIDs /\ LocalStep /\ UNCHANGED oauth

Waits == pc \in {"request", "body", "probe", "query", "run"}

FairSpec ==
  Spec /\ WF_vars(~ Waits /\ CallStep)
       /\ WF_vars((ctx # "live" \/ own = "expired") /\ CallStep)

-----------------------------------------------------------------------------
(* Properties.                                                             *)

\* A token goes out only while its issuer would still take it, whichever field
\* and unit its expiry was written in and whatever has been written to the two
\* stores since: oauth_api.go's check of the expiry right before the request.
SentTokenIsLive == sent # None => sent.at < sent.cred.until

\* What that takes for granted of whoever writes a credential, for the proofs: its
\* expiry is told in the first of the two fields that is there, or by the token
\* itself if that field says nothing, in a unit the size of the number gives
\* away.  If neither says anything, the token outlives the call.
Silent(field)   == field.kind \in {"missing", "unreadable"} \/ (field.kind = "number" /\ field.n <= 0)
Tells(field, t) ==
  /\ field \in {InSeconds(t), InMillis(t), Date(t)}
  /\ t \in 1 .. MilliCutoff
  /\ t * MillisPerSecond > MilliCutoff

TellsItsExpiry(c) ==
  LET declared == IF c.expiresAt # NoField THEN c.expiresAt ELSE c.expires_at
  IN  \/ Tells(declared, c.until)
      \/ Silent(declared) /\ (Tells(c.exp, c.until) \/ (Silent(c.exp) /\ LastNow < c.until))

ExpiriesAreTold == \A c \in (KeychainItems \cup FileContents) \ Uncredited : TellsItsExpiry(c)

\* Fetch does not give up for want of a credential while one of the two stores
\* held a usable token all the time it was reading them: an item of the keychain
\* that is expired, malformed or out of reach does not hide the file.  Only a
\* credential localstate took for valid does: one that expires before it is
\* sent, or one that is no more than a refresh token.
NoUsableCredentialHidden ==
  /\ source = OAuthID /\ pc = "returned" /\ sent = None
  /\ fetched \in {"credential_expired", "not_authenticated", "parse_failed"}
  => kept = {} \/ (creds # None /\ (~ creds.access \/ now >= creds.until))

\* What Detect and Available said holds as long as nothing has changed: a source
\* that is available is not then found missing, only the server can say that a
\* login is void, and a login Detect took for good has not expired.
AvailableIsHonoured ==
  pc = "returned" =>
    /\ "available" \in steady =>
         /\ fetched # "not_installed"
         /\ fetched = "not_authenticated" => status = 401
    /\ "detect" \in steady /\ authenticated => fetched # "credential_expired"

\* The windows of some entries, and their labels.
WindowsIn(entries) == {e \in entries : e.is = "window"}
Labels(entries)    == {LabelOf(e) : e \in entries}

\* Whether no window of a set has the label of this one and a later box.
InLastBox(e, set) ==
  \A f \in set : LabelOf(f) = LabelOf(e) => PlaceIn(Boxes, f.box) <= PlaceIn(Boxes, e.box)

\* A report has a window of every label the endpoint listed one of, and one only,
\* whichever keys and boxes it came under and in whatever order the maps were
\* walked: that of the last box that has one.  No part of a body is reported
\* that holds a reset which is no time.
WindowsAreListed ==
  source = OAuthID /\ fetched = "report" =>
    /\ Labels({windows[i] : i \in DOMAIN windows}) = Labels(WindowsIn(body))
    /\ \A i, j \in DOMAIN windows : LabelOf(windows[i]) = LabelOf(windows[j]) => i = j
    /\ \A i \in DOMAIN windows :
         windows[i] \in WindowsIn(body) /\ InLastBox(windows[i], WindowsIn(body))
    /\ \A e \in body : e.is # "misdated"

\* The tokens reported are no less than had been spent when Fetch began and no
\* more than are spent now, whichever of the three ways they were read and
\* however the server wrote them.
TotalIsTrue ==
  fetched = "report" =>
    /\ source \in OpenCodeSources => total # Missing
    /\ source \in LocalIDs /\ total # Missing => total \in floor .. SumOver(spent)

\* Each Fetch is the call of a cooperative source that Resolver's runs suppose;
\* the time a client gives a request counts as its deadline.
Contract == INSTANCE SourceCall WITH
  Answers  <- Fetched,
  TimedOut <- "timeout",
  NoAnswer <- Nothing,
  ctx      <- IF own = "expired" THEN "deadline" ELSE ctx,
  answer   <- fetched

KeepsContract == Contract!Spec
=============================================================================

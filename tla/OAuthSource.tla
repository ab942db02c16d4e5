----------------------------- MODULE OAuthSource -----------------------------
(***************************************************************************)
(* Claude's oauth_api source: the credentials are looked for in the        *)
(* keychain and then in a file, the token found is sent to the vendor's    *)
(* usage endpoint, and the rate windows are read off the answer.           *)
(***************************************************************************)
EXTENDS FetchCall, Sequences, FiniteSets

CONSTANTS
  KeychainItems,   \* what the keychain may hold
  FileContents,    \* what .credentials.json may hold
  Bodies           \* the bodies the endpoint may answer with

ASSUME StoresAssumption == KeychainItems \cup FileContents \subseteq Uncredited \cup ClaudeCredentials

VARIABLES
  keychain, credFile,   \* the two stores
  held,      \* the verdict on the keychain's item, while the file is read
  creds,     \* the credential the stores came to
  sent,      \* the credential a request carried, and when it was checked
  status,    \* the status the endpoint answered with
  body,      \* and the body
  unread,    \* the entries of the body not yet read
  found,     \* the windows found among the others
  windows,   \* the windows reported
  kept       \* history: the stores that held a usable token ever since Fetch began

stores   == <<keychain, credFile>>
answer   == <<body, unread, found, windows>>
exchange == <<sent, status, answer>>
oauth    == <<stores, held, creds, exchange, kept>>

OAuthInit ==
  /\ keychain \in KeychainItems
  /\ credFile \in FileContents
  /\ pc = "keychain"

OAuthIdle ==
  /\ held = "none"
  /\ creds = None
  /\ sent = None
  /\ status = 0
  /\ body = {} /\ unread = {} /\ found = {}
  /\ windows = <<>>
  /\ kept = {}

-----------------------------------------------------------------------------
(* The vendor's tools and the clock.                                       *)

\* A token its issuer would still take.
Usable(c) == c \notin Uncredited /\ c.access /\ now < c.until

UsableStores == {s \in {"keychain", "file"} :
                   Usable(IF s = "keychain" THEN keychain ELSE credFile)}

StillUsable == kept' = kept \cap UsableStores'

\* As long as the stores or the clock may still be read.
StoresMatter == ~ Exchanging /\ pc \notin {"parse", "probe"}

\* A login, a logout, a token refreshed, or the first half of a file.
StoreWritten ==
  /\ StoresMatter
  /\ Written
  /\ \/ keychain' \in KeychainItems /\ keychain' # keychain /\ UNCHANGED credFile
     \/ credFile' \in FileContents /\ credFile' # credFile /\ UNCHANGED keychain
  /\ StillUsable
  /\ UNCHANGED <<held, creds, exchange>>

OAuthTick == StoresMatter /\ Tick /\ UNCHANGED <<stores, held, creds, exchange>> /\ StillUsable

-----------------------------------------------------------------------------
(* The credentials.                                                        *)

\* Fetch's reason for a read that brought no credential.
Refusal(verdict) ==
  CASE verdict = "expired"   -> "credential_expired"
    [] verdict = "malformed" -> "parse_failed"
    [] OTHER                 -> "not_authenticated"

BeginOAuth ==
  /\ pc = "start"
  /\ IF ctx # "live"
     THEN Return(CtxReason) /\ UNCHANGED kept
     ELSE Goto("keychain") /\ kept' = UsableStores
  /\ UNCHANGED <<outside, own, stores, held, creds, exchange>>

(* The stores have been read: what the caller makes of it.  A credential   *)
(* that comes with an error is dropped.                                    *)
Resolved(verdict, c) ==
  /\ creds' = IF verdict = "valid" THEN c ELSE None
  /\ CASE phase = "detect" ->
            Detected(verdict = "valid" /\ c.access /\ ~ IsExpired(ClaudeExpiry(c), now), "keychain")
       [] phase = "available" ->
            AvailableSays(verdict = "expired" \/ (verdict = "valid" /\ c.access))
       [] phase = "fetch" ->
            IF verdict # "valid" THEN Return(Refusal(verdict))
            ELSE IF ~ c.access THEN Return("not_authenticated")
            ELSE Goto("check")

(* The user did not let the item be read, or not in time.                  *)
KeychainFails ==
  /\ pc = "keychain"
  /\ pc' = "file"
  /\ held' = "none"
  /\ steady' = {}
  /\ kept' = kept \ {"keychain"}
  /\ UNCHANGED <<outside, own, phase, authenticated, available, fetched, stores, creds, exchange>>

\* Mutant: an item that cannot be used is an answer like any other.
NeverFallBack(verdict) == FALSE

\* Whether the file is asked after an item with this verdict.
FallsBack(verdict) == verdict # "valid"

ReadKeychain ==
  /\ pc = "keychain"
  /\ IF keychain.is \in {"absent", "unreadable", "blank"}
     THEN held' = "none" /\ Goto("file") /\ UNCHANGED creds
     ELSE LET verdict == ParseClaudeCredentials(keychain, now)
          IN  IF FallsBack(verdict)
              THEN held' = verdict /\ Goto("file") /\ UNCHANGED creds
              ELSE Resolved(verdict, keychain) /\ UNCHANGED held
  /\ UNCHANGED <<outside, own, stores, exchange, kept>>

(* Without a file, the verdict on the keychain's item is the answer; with  *)
(* one, it is forgotten.                                                   *)
ReadFile ==
  /\ pc = "file"
  /\ CASE credFile.is = "absent"     -> Resolved(IF held # "none" THEN held ELSE "not_found", None)
       [] credFile.is = "unreadable" -> Resolved("unreadable", None)
       [] OTHER                      -> Resolved(ParseClaudeCredentials(credFile, now), credFile)
  /\ held' = "none"
  /\ UNCHANGED <<outside, own, stores, exchange, kept>>

-----------------------------------------------------------------------------
(* The exchange with the endpoint.                                         *)

SendToken ==
  /\ pc = "check"
  /\ IF IsExpired(ClaudeExpiry(creds), now)
     THEN Return("credential_expired") /\ UNCHANGED sent
     ELSE sent' = [cred |-> creds, at |-> now] /\ Goto("request")
  /\ UNCHANGED <<outside, own, stores, held, creds, status, answer, kept>>

(* No answer, or not the whole of one.                                     *)
ExchangeFails ==
  /\ Exchanging
  /\ Return(IF ctx # "live" THEN CtxReason
            ELSE IF own = "expired" THEN "timeout"
            ELSE "upstream_error")
  /\ UNCHANGED <<outside, own, oauth>>

\* 500 stands for every other: all are upstream failures.
Statuses == {200, 401, 500}

EndpointAnswers ==
  /\ pc = "request"
  /\ own = "running"
  /\ status' \in Statuses
  /\ Goto("body")
  /\ UNCHANGED <<outside, own, stores, held, creds, sent, answer, kept>>

-----------------------------------------------------------------------------
(* The answer.  A body is a set of entries, each under a key at the root   *)
(* or in one of the three boxes windows may come in; an entry is a window, *)
(* one whose reset is no time, or something else.                          *)

ReadBody ==
  /\ pc = "body"
  /\ own = "running"
  /\ IF status = 200
     THEN body' \in Bodies /\ unread' = body' /\ found' = {} /\ Goto("parse")
     ELSE /\ Return(IF status = 401 THEN "not_authenticated" ELSE "upstream_error")
          /\ UNCHANGED <<body, unread, found>>
  /\ UNCHANGED <<outside, own, stores, held, creds, sent, status, windows, kept>>

Boxes == <<"root", "limits", "windows", "rate_limits">>

\* The labels in the order of a report, those without a rank by name.
LabelOrder == <<"session", "weekly", "daily", "hourly", "monthly", "seven_day_opus">>

normalizeWindowMetadata(key) ==
  CASE key \in {"five_hour", "5h", "session"} -> "session"
    [] key \in {"seven_day", "7d", "weekly"}  -> "weekly"
    [] key \in {"one_day", "24h", "daily"}    -> "daily"
    [] key \in {"one_hour", "1h", "hourly"}   -> "hourly"
    [] key \in {"thirty_day", "30d"}          -> "monthly"
    [] OTHER                                  -> key

LabelOf(entry) == normalizeWindowMetadata(entry.key)

PlaceIn(sequence, x) == CHOOSE i \in DOMAIN sequence : sequence[i] = x

\* A body lists finitely many windows, each with one of those labels.
ASSUME BodiesAssumption ==
  \A b \in Bodies :
    /\ IsFiniteSet(b)
    /\ \A e \in b : e.is = "window" => \E i \in DOMAIN LabelOrder : LabelOrder[i] = LabelOf(e)

\* The boxes are walked in turn, the keys of one in whatever order its map gives.
NextEntries == {e \in unread : \A f \in unread : PlaceIn(Boxes, e.box) <= PlaceIn(Boxes, f.box)}

\* Mutant: the first window found under a label is kept.
FirstFound(e) == IF \E f \in found : LabelOf(f) = LabelOf(e) THEN found ELSE found \cup {e}

\* A window replaces the one found before under the same label.
Discovered(e) == {f \in found : LabelOf(f) # LabelOf(e)} \cup {e}

(* What is no window is passed over; a window whose reset cannot be read   *)
(* is the end of the whole body.                                           *)
ReadEntry ==
  /\ pc = "parse"
  /\ \E e \in NextEntries :
       /\ unread' = unread \ {e}
       /\ \/ e.is = "window" /\ found' = Discovered(e) /\ Goto("parse")
          \/ e.is = "other" /\ UNCHANGED found /\ Goto("parse")
          \/ e.is = "misdated" /\ UNCHANGED found /\ Return("parse_failed")
  /\ UNCHANGED <<outside, own, stores, held, creds, sent, status, body, windows, kept>>

\* The windows of a set sorted by their labels.
Sorted(set) ==
  {w \in [1 .. Cardinality(set) -> set] :
     \A i, j \in DOMAIN w : i < j => PlaceIn(LabelOrder, LabelOf(w[i])) < PlaceIn(LabelOrder, LabelOf(w[j]))}

(* A body without a window, or one that is no JSON, is not read.           *)
ListWindows ==
  /\ pc = "parse"
  /\ unread = {}
  /\ IF found = {}
     THEN Return("parse_failed") /\ UNCHANGED windows
     ELSE windows' \in Sorted(found) /\ Goto("probe")
  /\ UNCHANGED <<outside, own, stores, held, creds, sent, status, body, unread, found, kept>>

(* The probe of the CLI's version has ended, and its result is optional.   *)
VersionProbed ==
  /\ pc = "probe"
  /\ Return("report")
  /\ UNCHANGED <<outside, own, oauth>>

-----------------------------------------------------------------------------
OAuthStep ==
  \/ BeginOAuth \/ ReadKeychain \/ KeychainFails \/ ReadFile
  \/ SendToken \/ ExchangeFails \/ ReadBody \/ ReadEntry \/ ListWindows \/ VersionProbed

OAuthNext ==
  \/ OAuthStep \/ EndpointAnswers
  \/ StoreWritten \/ OAuthTick
  \/ (ContextEnds \/ RequestExpires) /\ UNCHANGED oauth
=============================================================================

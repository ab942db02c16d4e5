---------------------------- MODULE Credentials ----------------------------
(***************************************************************************)
(* What internal/localstate makes of the vendors' credentials: the expiry  *)
(* of a credential, in whichever of its fields and units it is written,    *)
(* and the verdict on the credential as a whole.                           *)
(***************************************************************************)
EXTENDS Integers

CONSTANTS
  MillisPerSecond,   \* 1000 in the program, less here
  MilliCutoff        \* the largest number taken for seconds: 1e11 in the program

ASSUME UnitsAssumption ==
  /\ MillisPerSecond \in Nat \ {0}
  /\ MilliCutoff \in Nat

-----------------------------------------------------------------------------
(* Expiries.  An instant is a number of seconds; 0 stands for none.        *)

NoExpiry == 0

\* A field of a credential that tells an instant: not there, a number (digits
\* in a text are one), a date, or something that is neither.
Fields     == [kind : {"missing", "number", "date", "unreadable"}, n : Int]
NoField    == [kind |-> "missing", n |-> 0]
Number(n)  == [kind |-> "number", n |-> n]
Date(t)    == [kind |-> "date", n |-> t]
Unreadable == [kind |-> "unreadable", n |-> 0]

\* The two units a number may be in.
InSeconds(t) == Number(t)
InMillis(t)  == Number(t * MillisPerSecond)

\* Mutant: every number is taken for seconds.
SecondsOnly(n) == IF n <= 0 THEN NoExpiry ELSE n

\* A number's size tells its unit.
parseNumericEpoch(n) ==
  IF n <= 0 THEN NoExpiry
  ELSE IF n > MilliCutoff THEN n \div MillisPerSecond
  ELSE n

parseExpiryValue(field) ==
  CASE field.kind = "number" -> parseNumericEpoch(field.n)
    [] field.kind = "date"   -> field.n
    [] OTHER                 -> NoExpiry

\* A credential's expiry: what its first field that is there says and, when that
\* says nothing, what the token says of itself.
Expiry(first, second, token) ==
  LET declared == parseExpiryValue(IF first # NoField THEN first ELSE second)
  IN  IF declared # NoExpiry THEN declared ELSE parseExpiryValue(token)

IsExpired(at, now) == at # NoExpiry /\ now >= at

-----------------------------------------------------------------------------
(* Claude's credentials, from the keychain or from .credentials.json.      *)

\* What a store may hold: nothing, what may not be read, blanks, what is no JSON
\* (a file half written), or a credential.  "until" is the expiry its issuer
\* meant, which no code reads.
Is(what)   == [is |-> what]
Absent     == Is("absent")
Uncredited == {Is(what) : what \in {"absent", "unreadable", "blank", "garbage"}}

ClaudeCredentials ==
  [is : {"credential"}, access : BOOLEAN, refresh : BOOLEAN, expiresAt : Fields, expires_at : Fields,
   exp : Fields, until : Nat]

Claude(access, expiresAt, expires_at, exp, until) ==
  [is |-> "credential", access |-> access, refresh |-> TRUE, expiresAt |-> expiresAt,
   expires_at |-> expires_at, exp |-> exp, until |-> until]

\* The exp claim is looked for in the access token only.
ClaudeExpiry(c) ==
  Expiry(c.expiresAt, c.expires_at, IF c.access THEN c.exp ELSE NoField)

\* The verdicts of Validate, of the two parsers and of a read.
Verdicts == {"valid", "not_found", "malformed", "expired", "unreadable"}

ParseClaudeCredentials(data, now) ==
  CASE data.is = "blank"   -> "not_found"
    [] data.is = "garbage" -> "malformed"
    [] OTHER               -> IF ~ data.access /\ ~ data.refresh THEN "not_found"
                           ELSE IF IsExpired(ClaudeExpiry(data), now) THEN "expired"
                           ELSE "valid"

-----------------------------------------------------------------------------
(* Codex's auth.json.                                                      *)

\* The id token is not there, no JWT, or one whose claims can be read.
CodexAuths ==
  [is : {"auth"}, mode : {"chatgpt", "api_key", "API_KEY"}, key : BOOLEAN, tokens : BOOLEAN,
   id : {"none", "opaque", "jwt"}, access : BOOLEAN, refresh : BOOLEAN,
   expires_at : Fields, exp : Fields]

CodexExpiry(a) == IF a.tokens THEN Expiry(a.expires_at, NoField, a.exp) ELSE NoExpiry

\* A key alone, or a key in the mode for keys, does not expire.
CodexExpired(a, now) ==
  /\ ~ (a.key /\ (a.mode = "api_key" \/ ~ a.tokens))
  /\ IsExpired(CodexExpiry(a), now)

ParseCodexAuth(data, now) ==
  CASE data.is = "blank"   -> "not_found"
    [] data.is = "garbage" -> "malformed"
    [] OTHER               -> IF ~ data.key /\ ~ (data.tokens /\ (data.id # "none" \/ data.access \/ data.refresh))
                             THEN "not_found"
                           ELSE IF CodexExpired(data, now) THEN "expired"
                           ELSE "valid"
=============================================================================

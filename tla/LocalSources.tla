---------------------------- MODULE LocalSources ----------------------------
(***************************************************************************)
(* The sources that read what a vendor's tool keeps on this machine:       *)
(* codex's local_state, from auth.json and a database, and OpenCode's      *)
(* three ways to one table of sessions: the database file, the local       *)
(* server and the CLI.                                                     *)
(***************************************************************************)
EXTENDS FetchCall, FiniteSets, FiniteSetsExt

CONSTANTS
  AuthFiles,   \* what auth.json may hold
  Sessions     \* the sessions of the table

ASSUME SessionsAssumption == IsFiniteSet(Sessions)

VARIABLES
  authFile,   \* codex's auth.json
  db,         \* the database: absent, empty, broken, or a table
  spent,      \* what each session of the table spent
  binary,     \* whether the CLI is on PATH
  listing,    \* the sessions as the local server lists them, on their way
  plan,       \* the plan reported
  total,      \* the tokens reported
  floor       \* history: the tokens spent when Fetch began

database == <<db, spent>>
machine  == <<authFile, database, binary>>
reported == <<plan, total>>
local    == <<machine, listing, reported, floor>>

CodexSource     == "codex_local_state"
OpenCodeState   == "opencode_local_state"
OpenCodeRPC     == "opencode_app_server"
OpenCodeCLI     == "opencode_cli_stdout"
OpenCodeSources == {OpenCodeState, OpenCodeRPC, OpenCodeCLI}
LocalIDs        == {CodexSource} \cup OpenCodeSources

\* The counters of a session, two of the program's five: one at the top of the
\* nested form and one in a record of its own within it.
Counters == {"input", "cache_read"}
Unspent  == [s \in Sessions |-> [c \in Counters |-> 0]]
NoTable  == {"absent", "empty", "broken"}

SumOver(table) == MapThenSumSet(LAMBDA p : table[p[1]][p[2]], Sessions \X Counters)

\* A count not there.
Missing == -1

LocalInit ==
  /\ authFile \in AuthFiles
  /\ db \in NoTable \cup {"table"}
  /\ spent = Unspent
  /\ binary \in BOOLEAN
  /\ pc = "detect"

LocalIdle == listing = None /\ plan = "none" /\ total = Missing /\ floor = 0

-----------------------------------------------------------------------------
(* The vendor's tools.                                                     *)

AuthWritten ==
  /\ Written
  /\ authFile' \in AuthFiles /\ authFile' # authFile
  /\ UNCHANGED <<database, binary, listing, reported, floor>>

(* A session spends a token, or the database is set up.                    *)
TableWritten ==
  /\ Written
  /\ db' = "table"
  /\ IF db \in NoTable
     THEN UNCHANGED spent
     ELSE \E s \in Sessions, c \in Counters : spent' = [spent EXCEPT ![s][c] = @ + 1]
  /\ UNCHANGED <<authFile, binary, listing, reported, floor>>

CLIInstalled ==
  /\ Written
  /\ binary' = ~ binary
  /\ UNCHANGED <<authFile, database, listing, reported, floor>>

-----------------------------------------------------------------------------
(* Detect and Available.                                                   *)

\* OpenCode is authenticated by a file or a variable of the environment, which
\* no other call reads.
Detect ==
  /\ phase = "detect"
  /\ IF source = CodexSource
     THEN Detected(/\ authFile.is \notin {"absent", "unreadable"}
                   /\ ParseCodexAuth(authFile, now) = "valid", "available")
     ELSE \E auth \in BOOLEAN : Detected(auth, "available")
  /\ UNCHANGED <<outside, own, local>>

\* Mutant: the codex source counts on the credentials being looked at later.
AlwaysThere == TRUE

\* Whether codex's source may be asked.
AuthFileThere == authFile.is # "absent"

Available ==
  /\ phase = "available"
  /\ CASE source = CodexSource   -> AvailableSays(AuthFileThere)
       [] source = OpenCodeState -> AvailableSays(db \notin {"absent", "empty"})
       [] source = OpenCodeCLI   -> AvailableSays(binary)
       [] source = OpenCodeRPC   -> \E up \in BOOLEAN : AvailableSays(up)
  /\ UNCHANGED <<outside, own, local>>

-----------------------------------------------------------------------------
(* Fetch.  None of these looks at its context before it begins.            *)

BeginLocally ==
  /\ pc = "start"
  /\ floor' = SumOver(spent)
  /\ Goto(CASE source = CodexSource   -> "auth"
            [] source = OpenCodeState -> "query"
            [] source = OpenCodeRPC   -> "request"
            [] source = OpenCodeCLI   -> "run")
  /\ UNCHANGED <<outside, own, machine, listing, reported>>

\* The plan auth.json stands for, or that it stands for none.
PlanOf(a) ==
  LET mode      == IF a.mode = "API_KEY" THEN "api_key" ELSE a.mode
      hasTokens == a.tokens /\ a.id # "none"
  IN  CASE ~ hasTokens /\ ~ a.key                         -> "none"
        [] mode = "api_key" \/ (a.key /\ ~ hasTokens)     -> "api_key"
        [] hasTokens /\ mode # "api_key" /\ a.id = "jwt"  -> "subscription"
        [] OTHER                                          -> "none"

(* Codex: auth.json.                                                       *)
ReadAuth ==
  /\ pc = "auth"
  /\ CASE authFile.is = "absent"               -> Return("not_installed") /\ UNCHANGED plan
       [] authFile.is = "unreadable"           -> Return("upstream_error") /\ UNCHANGED plan
       [] authFile.is \in {"blank", "garbage"} -> Return("parse_failed") /\ UNCHANGED plan
       [] OTHER -> IF PlanOf(authFile) = "none"
                   THEN Return("parse_failed") /\ UNCHANGED plan
                   ELSE plan' = PlanOf(authFile) /\ Goto("query")
  /\ UNCHANGED <<outside, own, machine, listing, total, floor>>

(* The sum over the table is one statement, and sees one state of it.      *)
QueryAnswers ==
  /\ pc = "query"
  /\ db \notin NoTable
  /\ total' = SumOver(spent)
  /\ IF source = CodexSource THEN Return("report") ELSE Goto("probe")
  /\ UNCHANGED <<outside, own, machine, listing, plan, floor>>

(* No table, a database that is locked, or a context that ended: codex     *)
(* reports without tokens, OpenCode not at all.                            *)
QueryFails ==
  /\ pc = "query"
  /\ \/ source = CodexSource /\ Return("report")
     \/ source = OpenCodeState /\ \E reason \in {"upstream_error", CtxReason} : Return(reason)
  /\ UNCHANGED <<outside, own, local>>

-----------------------------------------------------------------------------
(* The local server.  It lists a session's counters flat, nested, or some  *)
(* of them twice.                                                          *)

NoCounters == [c \in Counters |-> Missing]

\* The forms in which a session that spent s may be listed.
Forms(s) ==
  {[flat |-> s, nested |-> NoCounters], [flat |-> NoCounters, nested |-> s], [flat |-> s, nested |-> s],
   [flat |-> [NoCounters EXCEPT !["input"] = s["input"]],
    nested |-> [NoCounters EXCEPT !["cache_read"] = s["cache_read"]]]}

\* Mutant: a counter listed twice counts twice.
BothForms(raw, c) == LET n(form) == IF form[c] = Missing THEN 0 ELSE form[c]
                     IN  n(raw.flat) + n(raw.nested)

\* A nested counter replaces a flat one.
extractTokens(raw, c) ==
  IF raw.nested[c] # Missing THEN raw.nested[c]
  ELSE IF raw.flat[c] # Missing THEN raw.flat[c]
  ELSE 0

ServerLists ==
  /\ pc = "request"
  /\ own = "running"
  /\ db \notin NoTable
  /\ listing' \in {f \in [Sessions -> UNION {Forms(spent[s]) : s \in Sessions}] :
                     \A s \in Sessions : f[s] \in Forms(spent[s])}
  /\ Goto("body")
  /\ UNCHANGED <<outside, own, machine, reported, floor>>

(* No connection, or a status that is not 200: an upstream failure, also   *)
(* when it was time that ran out.                                          *)
RequestFails ==
  /\ pc = "request"
  /\ Return("upstream_error")
  /\ UNCHANGED <<outside, own, local>>

ReadListing ==
  /\ pc = "body"
  /\ own = "running"
  /\ total' = SumOver([s \in Sessions |-> [c \in Counters |-> extractTokens(listing[s], c)]])
  /\ listing' = None
  /\ Goto("probe")
  /\ UNCHANGED <<outside, own, machine, plan, floor>>

(* The body breaks off, or is not the list expected.                       *)
ListingFails ==
  /\ pc = "body"
  /\ Return(IF ctx # "live" THEN CtxReason ELSE IF own = "expired" THEN "timeout" ELSE "upstream_error")
     \/ Return("parse_failed")
  /\ UNCHANGED <<outside, own, local>>

-----------------------------------------------------------------------------
(* The CLI prints the same sum, as a row or as a list of one.              *)

CLIPrints ==
  /\ pc = "run"
  /\ binary
  /\ db \notin NoTable
  /\ total' = SumOver(spent)
  /\ Goto("probe")
  /\ UNCHANGED <<outside, own, machine, listing, plan, floor>>

(* It is not there, was killed, ended badly, or printed something else.    *)
CLIFails ==
  /\ pc = "run"
  /\ \E reason \in {"upstream_error", CtxReason, "parse_failed"} : Return(reason)
  /\ UNCHANGED <<outside, own, local>>

(* Detect is asked again, for the version alone.                           *)
Redetected ==
  /\ pc = "probe"
  /\ Return("report")
  /\ UNCHANGED <<outside, own, local>>

-----------------------------------------------------------------------------
LocalStep ==
  \/ Detect \/ Available \/ BeginLocally
  \/ ReadAuth \/ QueryFails \/ RequestFails \/ ReadListing \/ ListingFails
  \/ CLIFails \/ Redetected

LocalAnswers == QueryAnswers \/ ServerLists \/ CLIPrints

LocalNext ==
  \/ LocalStep \/ LocalAnswers
  \/ source = CodexSource /\ (AuthWritten \/ (Tick /\ UNCHANGED local))
  \/ source = OpenCodeCLI /\ CLIInstalled
  \/ TableWritten
  \/ (ContextEnds \/ RequestExpires) /\ UNCHANGED local
=============================================================================

------------------------------ MODULE FetchCall ------------------------------
(***************************************************************************)
(* What the calls of one source have in common: Detect, Available and      *)
(* Fetch are made of it one after the other, while time passes, the        *)
(* vendor's tools change what it reads, and Fetch's context may end.       *)
(***************************************************************************)
EXTENDS Credentials

CONSTANTS
  FirstNow, LastNow,   \* the instants the clock goes through
  MaxWrites            \* bound on the changes the vendor's tools make

ASSUME ClockAssumption == FirstNow \in Nat /\ LastNow \in Nat /\ FirstNow <= LastNow

VARIABLES
  source,         \* the source called
  now,            \* the clock
  writes,         \* how many changes the vendor's tools made
  ctx,            \* Fetch's context: live, canceled, or past its deadline
  phase,          \* the call in progress: detect, available, fetch
  pc,             \* where that call is
  authenticated,  \* what Detect said
  available,      \* what Available said
  fetched,        \* what Fetch answers
  own,            \* the time a request is given besides its context's: running or expired
  steady          \* history: the phases since whose beginning nothing changed

outside == <<source, now, writes, ctx>>
calls   == <<phase, pc, authenticated, available, fetched>>
frame   == <<outside, calls, own, steady>>

Phases  == {"detect", "available", "fetch"}
Reasons == {"timeout", "upstream_error", "not_installed", "not_authenticated",
            "credential_expired", "parse_failed"}
Fetched == Reasons \cup {"report"}
Nothing == "nothing"
None    == Is("none")

FrameInit ==
  /\ now = FirstNow
  /\ writes = 0
  /\ ctx = "live"
  /\ phase = "detect"
  /\ authenticated = FALSE
  /\ available = FALSE
  /\ fetched = Nothing
  /\ own = "running"
  /\ steady = {"detect"}

Busy == pc \notin {"returned", "unavailable"}

Tick ==
  /\ Busy
  /\ now < LastNow
  /\ now' = now + 1
  /\ steady' = {}
  /\ UNCHANGED <<source, writes, ctx, calls, own>>

(* The contexts of Detect and Available are not Fetch's; all they can do   *)
(* is to cut a read short.                                                 *)
ContextEnds ==
  /\ phase = "fetch"
  /\ Busy
  /\ ctx = "live"
  /\ ctx' \in {"canceled", "deadline"}
  /\ UNCHANGED <<source, now, writes, calls, own, steady>>

(* One of the vendor's tools changes what the source reads.                *)
Written ==
  /\ Busy
  /\ writes < MaxWrites
  /\ writes' = writes + 1
  /\ steady' = {}
  /\ UNCHANGED <<source, now, ctx, calls, own>>

Detected(auth, first) ==
  /\ authenticated' = auth
  /\ phase' = "available"
  /\ steady' = steady \cup {"available"}
  /\ pc' = first
  /\ UNCHANGED <<available, fetched>>

\* A source that is not available is not asked.
AvailableSays(yes) ==
  /\ available' = yes
  /\ phase' = "fetch"
  /\ pc' = IF yes THEN "start" ELSE "unavailable"
  /\ UNCHANGED <<authenticated, fetched, steady>>

Goto(next) ==
  /\ pc' = next
  /\ UNCHANGED <<phase, authenticated, available, fetched, steady>>

Return(answer) ==
  /\ fetched' = answer
  /\ pc' = "returned"
  /\ UNCHANGED <<phase, authenticated, available, steady>>

Exchanging == phase = "fetch" /\ pc \in {"request", "body"}

(* The HTTP client's own patience with a request ends before the context's *)
(* does.                                                                   *)
RequestExpires ==
  /\ Exchanging
  /\ ctx = "live"
  /\ own = "running"
  /\ own' = "expired"
  /\ UNCHANGED <<outside, calls, steady>>

\* Mutant: whatever ended the context is told as time.
AlwaysTime == "timeout"

\* The reason the resolver gives the context's own error.
CtxReason == IF ctx = "deadline" THEN "timeout" ELSE "upstream_error"
=============================================================================

------------------------------ MODULE AppServer ------------------------------
(***************************************************************************)
(* One Fetch of the codex app_server source: a child process is started,   *)
(* four JSON-RPC requests are sent over its stdin one after the other, and *)
(* its stdout is read line by line for the reply to each.  The replies     *)
(* travel one pipe, a reply may still be on its way when its call has been *)
(* given up, and Fetch's context may end at any point of it.               *)
(***************************************************************************)
EXTENDS Integers, Sequences

CONSTANT MaxNoise   \* bound on the lines the server writes unasked

\* The requests in the order Fetch makes them; each goes out under its number,
\* for the client numbers its calls from one.
Initialize == 1
Reads      == {2, 3, 4}     \* rate limits, usage, account
Requests   == {Initialize} \cup Reads

\* Mutant: the last request is miscounted.
OneTooMany == 5

LastRead == 4

VARIABLES
  ctx,        \* Fetch's context: live, canceled, or past its deadline
  pc,         \* where Fetch is
  request,    \* the number of the current call
  client,     \* open, or closed by a call whose context ended
  server,     \* the child process: none, running or exited
  asked,      \* the requests the server received and did not reply to
  stdout,     \* the lines the server wrote and the client did not read
  noise,      \* how many lines the server wrote unasked
  result,     \* how each call ended
  fetched     \* what Fetch answers

process == <<server, asked, stdout, noise>>
vars    == <<ctx, pc, request, client, process, result, fetched>>

\* A line is a reply, of the request it replies to, or one sent unasked.  A line
\* without an id has id 0.
Bodies == {"result", "error", "misshapen", "garbage"}
Line   == [id : Requests \cup {0}, of : Requests \cup {0}, body : Bodies]

Reply(r, body) == [id |-> r, of |-> r, body |-> body]
Unasked(body)  == [id |-> 0, of |-> 0, body |-> body]

\* A call ends with data, an error reply, something unparsable, a dead pipe, its
\* context, or on a client closed before; its line is the request replied to.
Ends    == {"pending", "ok", "refused", "garbled", "broken", "cut", "closed"}
Result  == [end : Ends, of : Requests \cup {0}]
Ended(end, of) == [end |-> end, of |-> of]

Fetched == {"report", "timeout", "upstream_error", "not_installed"}
Nothing == "nothing"

Init ==
  /\ ctx = "live"
  /\ pc = "start"
  /\ request = Initialize
  /\ client = "open"
  /\ server = "none"
  /\ asked = {}
  /\ stdout = <<>>
  /\ noise = 0
  /\ result = [r \in Requests |-> Ended("pending", 0)]
  /\ fetched = Nothing

-----------------------------------------------------------------------------
(* The context.                                                            *)

Expire ==
  /\ ctx = "live"
  /\ ctx' = "deadline"
  /\ UNCHANGED <<pc, request, client, process, result, fetched>>

Cancel ==
  /\ ctx = "live"
  /\ ctx' = "canceled"
  /\ UNCHANGED <<pc, request, client, process, result, fetched>>

-----------------------------------------------------------------------------
(* The server.                                                             *)

ServerReplies ==
  /\ server = "running"
  /\ \E r \in asked, body \in Bodies \ {"garbage"} :
       /\ asked' = asked \ {r}
       /\ stdout' = Append(stdout, Reply(r, body))
  /\ UNCHANGED <<ctx, pc, request, client, server, noise, result, fetched>>

(* A notification, or a line that is no JSON.                              *)
ServerChatters ==
  /\ server = "running"
  /\ noise < MaxNoise
  /\ noise' = noise + 1
  /\ \E body \in {"result", "garbage"} : stdout' = Append(stdout, Unasked(body))
  /\ UNCHANGED <<ctx, pc, request, client, server, asked, result, fetched>>

(* The server ends: it crashed, it saw its stdin closed, or the context it *)
(* was started with ended and the runner killed it.                        *)
ServerExits ==
  /\ server = "running"
  /\ server' = "exited"
  /\ UNCHANGED <<ctx, pc, request, client, asked, stdout, noise, result, fetched>>

-----------------------------------------------------------------------------
(* Fetch.                                                                  *)

Return(answer) ==
  /\ fetched' = answer
  /\ pc' = "returned"

\* Fetch has its answer, and closes the transport before it returns.
Close(answer) ==
  /\ fetched' = answer
  /\ pc' = "closing"
  /\ UNCHANGED request

StartServer ==
  /\ pc = "start"
  /\ \/ /\ \E cause \in {"not_installed", "upstream_error"} :
             Return(IF ctx = "deadline" THEN "timeout" ELSE cause)
        /\ UNCHANGED <<request, server>>
     \/ /\ ctx = "live"
        /\ server' = "running"
        /\ pc' = "call"
        /\ UNCHANGED <<request, fetched>>
  /\ UNCHANGED <<ctx, client, asked, stdout, noise, result>>

Succeeded(res) == {r \in Reads : res[r].end = "ok"}

\* Mutant: only the handshake is asked whether time ran out.
OutOfTimeAtFirst(r) == ctx = "deadline" /\ r = Initialize

\* Whether Fetch puts the failure of call r down to its deadline.
OutOfTime(r) == ctx = "deadline"

(* The call has ended, and Fetch decides how to go on.                     *)
EndCall(end, of) ==
  LET r   == request
      res == [result EXCEPT ![r] = Ended(end, of)]
  IN  /\ result' = res
      /\ IF end # "ok" /\ OutOfTime(r) THEN Close("timeout")
         ELSE IF end # "ok" /\ r = Initialize THEN Close("upstream_error")
         ELSE IF r # LastRead
           THEN request' = r + 1 /\ pc' = "call" /\ UNCHANGED fetched
         ELSE Close(IF Succeeded(res) = {} THEN "upstream_error" ELSE "report")

Call ==
  /\ pc = "call"
  /\ IF client = "closed"
     THEN EndCall("closed", 0)
     ELSE pc' = "writing" /\ UNCHANGED <<request, result, fetched>>
  /\ UNCHANGED <<ctx, client, process>>

Write ==
  /\ pc = "writing"
  /\ IF server = "exited"
     THEN EndCall("broken", 0) /\ UNCHANGED asked
     ELSE /\ asked' = asked \cup {request}
          /\ pc' = "reading"
          /\ UNCHANGED <<request, result, fetched>>
  /\ UNCHANGED <<ctx, client, server, stdout, noise>>

\* Mutant: the next reply on the pipe is taken for the reply to this call.
NextReply(line) == line.id # 0

\* Whether a line is the reply to the current call.
Mine(line) == line.id = request

(* One line is read: skipped when it belongs to no call or to another.     *)
Read ==
  /\ pc = "reading"
  /\ stdout # <<>>
  /\ stdout' = Tail(stdout)
  /\ LET line == Head(stdout)
     IN  IF line.body = "garbage" THEN EndCall("garbled", 0)
         ELSE IF ~ Mine(line) THEN UNCHANGED <<pc, request, result, fetched>>
         ELSE IF line.body = "error" THEN EndCall("refused", line.of)
         ELSE IF line.body = "misshapen" THEN EndCall("garbled", line.of)
         ELSE EndCall("ok", line.of)
  /\ UNCHANGED <<ctx, client, server, asked, noise>>

ReadFails ==
  /\ pc = "reading"
  /\ stdout = <<>>
  /\ server = "exited"
  /\ EndCall("broken", 0)
  /\ UNCHANGED <<ctx, client, process>>

(* The select took the context's branch: client and transport are closed.  *)
Cut ==
  /\ pc \in {"writing", "reading"}
  /\ ctx # "live"
  /\ client' = "closed"
  /\ pc' = "cutting"
  /\ UNCHANGED <<ctx, request, process, result, fetched>>

\* Mutant: Close leaves a server alone that does not end by itself.
Spare == FALSE

\* Whether Close, its patience at an end, kills the server.
KillsServer == pc \in {"cutting", "closing"}

(* Half a second into Close, the server is still there.                    *)
Kill ==
  /\ server = "running"
  /\ KillsServer
  /\ server' = "exited"
  /\ UNCHANGED <<ctx, pc, request, client, asked, stdout, noise, result, fetched>>

\* Mutant: Close does not wait for the process.
AtOnce == TRUE

\* Whether the process has been waited for.
Reaped == server = "exited"

(* The transport is closed, and the call that closed it ends.              *)
CutEnds ==
  /\ pc = "cutting"
  /\ Reaped
  /\ EndCall("cut", 0)
  /\ UNCHANGED <<ctx, client, process>>

CloseEnds ==
  /\ pc = "closing"
  /\ Reaped
  /\ pc' = "returned"
  /\ UNCHANGED <<ctx, request, client, process, result, fetched>>

-----------------------------------------------------------------------------
FetchStep ==
  \/ StartServer \/ Call \/ Write \/ Read \/ ReadFails
  \/ Cut \/ CutEnds \/ CloseEnds

Next ==
  \/ Expire \/ Cancel
  \/ ServerReplies \/ ServerChatters \/ ServerExits
  \/ FetchStep \/ Kill

Spec == Init /\ [][Next]_vars

(* Fetch's goroutine is scheduled, and its deadline and Close's half a     *)
(* second pass.  Nothing is asked of the server, not even that it ends     *)
(* when its stdin does.                                                    *)
FairSpec == Spec /\ WF_vars(FetchStep) /\ WF_vars(Expire) /\ WF_vars(Kill)

-----------------------------------------------------------------------------
(* Properties.                                                             *)

\* Every variable holds a value of its kind.
TypeOK ==
  /\ ctx \in {"live", "canceled", "deadline"}
  /\ pc \in {"start", "call", "writing", "reading", "cutting", "closing", "returned"}
  /\ request \in Requests
  /\ client \in {"open", "closed"}
  /\ server \in {"none", "running", "exited"}
  /\ asked \subseteq Requests
  /\ stdout \in Seq(Line)
  /\ noise \in Nat
  /\ result \in [Requests -> Result]
  /\ fetched \in Fetched \cup {Nothing}

\* A part of the report is what the server said to the request for it: a reply
\* that comes in after its own call was given up, on a line that did not parse,
\* is never taken for the answer to the next.
RepliesAreOwn == \A r \in Requests : result[r].end \in {"ok", "refused"} => result[r].of = r

\* When Fetch returns, however it came to that, the process it started is gone:
\* RESEARCH.md's "no background daemon or socket is leaked".
NothingLeaks == pc = "returned" => server # "running"

\* A shortage of time is told as one: Fetch reports less than it asked for, or
\* an upstream failure, because a call was cut short only if it was cancelled.
TimeIsTold ==
  fetched \in {"report", "upstream_error"} =>
    \A r \in Requests : result[r].end \in {"cut", "closed"} => ctx = "canceled"

\* Fetch is the call of a cooperative source that Resolver's runs suppose.
Contract == INSTANCE SourceCall WITH
  Answers  <- Fetched,
  TimedOut <- "timeout",
  NoAnswer <- Nothing,
  answer   <- IF pc = "returned" THEN fetched ELSE Nothing

KeepsContract == Contract!Spec

\* The comment on ErrParseFailed: it is the vendor drift signal.  When all that
\* went wrong is that what the server wrote did not parse, Fetch does not call
\* that an upstream failure.
DriftIsTold ==
  LET ends == {result[r].end : r \in Requests}
  IN  "garbled" \in ends /\ ends \subseteq {"ok", "garbled", "pending"} =>
        fetched # "upstream_error"
=============================================================================

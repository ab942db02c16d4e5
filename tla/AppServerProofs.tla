--------------------------- MODULE AppServerProofs ---------------------------
(***************************************************************************)
(* One Fetch of the app_server source, however much the server writes      *)
(* unasked: each reply goes to its own request, no process outlives the    *)
(* Fetch, and a shortage of time is told as one.                           *)
(***************************************************************************)
EXTENDS AppServer, TLAPS

Over == {"closing", "returned"}

\* What Fetch knows and says: it has an answer once it closes the transport, and
\* a call its deadline cut short makes that answer a timeout.
FetchInv ==
  /\ ctx \in {"live", "canceled", "deadline"}
  /\ pc \in {"start", "call", "writing", "reading", "cutting"} \cup Over
  /\ request \in Requests
  /\ result \in [Requests -> Result]
  /\ RepliesAreOwn
  /\ IF pc \in Over THEN fetched \in Fetched ELSE fetched = Nothing
  /\ fetched = "timeout" => ctx = "deadline"
  /\ \A r \in Requests : result[r].end \in {"cut", "closed"} =>
       ctx # "live" /\ (ctx = "deadline" => fetched = "timeout")

\* What is on the pipes: every line bears the id of the request it replies to.
PipeInv ==
  /\ asked \subseteq Requests
  /\ noise \in Nat
  /\ stdout \in Seq(Line)
  /\ \A i \in DOMAIN stdout : stdout[i].id = stdout[i].of

\* The process is there from the start to the end, and only a context that has
\* ended closes the client early.
ServerInv ==
  /\ client \in {"open", "closed"}
  /\ server \in {"none", "running", "exited"}
  /\ pc = "start" => server = "none"
  /\ pc = "returned" => server # "running"
  /\ pc = "cutting" \/ client = "closed" => ctx # "live"

Inv == FetchInv /\ PipeInv /\ ServerInv

Mid == {"call", "writing", "reading", "cutting"}

\* However a call ends, what Fetch knows and says of it stays right.
LEMMA EndCallKeeps ==
  ASSUME FetchInv, pc \in Mid, ctx' = ctx,
         NEW end \in Ends, NEW of \in Requests \cup {0}, EndCall(end, of),
         end \in {"ok", "refused"} => of = request,
         end \in {"cut", "closed"} => ctx # "live"
  PROVE  FetchInv' /\ pc' \in {"call", "closing"}
<1>1. /\ result' = [result EXCEPT ![request] = Ended(end, of)]
      /\ Ended(end, of) \in Result
      /\ Ended(end, of).end = end /\ Ended(end, of).of = of
  BY DEF EndCall, Ended, Result
<1>2. request \in Requests /\ result \in [Requests -> Result] /\ fetched = Nothing
  BY DEF FetchInv, Mid, Over
<1>3. result' \in [Requests -> Result]
  BY <1>1, <1>2
<1>4. \A r \in Requests : result'[r] = IF r = request THEN Ended(end, of) ELSE result[r]
  BY <1>1, <1>2
<1>5. RepliesAreOwn'
  BY <1>1, <1>4 DEF FetchInv, RepliesAreOwn
<1>6. \/ end # "ok" /\ ctx = "deadline" /\ fetched' = "timeout" /\ pc' = "closing" /\ request' = request
      \/ /\ ~ (end # "ok" /\ ctx = "deadline")
         /\ \/ /\ fetched' \in {"upstream_error", "report"} /\ pc' = "closing"
               /\ request' = request
            \/ /\ request # LastRead /\ request' = request + 1
               /\ pc' = "call" /\ fetched' = fetched
  BY DEF EndCall, Close, OutOfTime
<1>7. request' \in Requests
  BY <1>2, <1>6 DEF Requests, Reads, Initialize, LastRead
<1>8. IF pc' \in Over THEN fetched' \in Fetched ELSE fetched' = Nothing
  BY <1>2, <1>6 DEF Over, Fetched
<1>9. fetched' = "timeout" => ctx = "deadline"
  BY <1>2, <1>6 DEF Nothing
<1>10. \A r \in Requests : result[r].end \in {"cut", "closed"} => ctx = "canceled"
  BY <1>2 DEF FetchInv, Nothing
<1>11. end \in {"cut", "closed"} => ctx = "canceled" \/ fetched' = "timeout"
  BY <1>6 DEF FetchInv
<1>12. \A r \in Requests : result'[r].end \in {"cut", "closed"} =>
         ctx # "live" /\ (ctx = "deadline" => fetched' = "timeout")
  BY <1>1, <1>4, <1>10, <1>11
<1>13. pc' \in {"call", "closing"}
  BY <1>6
<1> QED
  BY <1>3, <1>5, <1>7, <1>8, <1>9, <1>12, <1>13 DEF FetchInv, Over

\* Every line the server writes is of the kind, and bears its own id.
LEMMA LinesBearIds ==
  /\ \A r \in Requests, body \in Bodies :
       Reply(r, body) \in Line /\ Reply(r, body).id = Reply(r, body).of
  /\ \A body \in Bodies : Unasked(body) \in Line /\ Unasked(body).id = Unasked(body).of
BY DEF Reply, Unasked, Line

\* Whatever line the server adds keeps the pipe in order.
LEMMA AppendKeeps ==
  ASSUME PipeInv, NEW line \in Line, line.id = line.of, stdout' = Append(stdout, line)
  PROVE  stdout' \in Seq(Line) /\ \A i \in DOMAIN stdout' : stdout'[i].id = stdout'[i].of
BY DEF PipeInv

\* A line taken off the pipe bears its own id, and leaves the rest in order.
LEMMA TailKeeps ==
  ASSUME PipeInv, stdout # <<>>, stdout' = Tail(stdout)
  PROVE  /\ stdout' \in Seq(Line) /\ \A i \in DOMAIN stdout' : stdout'[i].id = stdout'[i].of
         /\ Head(stdout) \in Line /\ Head(stdout).id = Head(stdout).of
BY DEF PipeInv

-----------------------------------------------------------------------------
\* Nothing has been asked at first.
LEMMA InitInv == Init => Inv
<1> SUFFICES ASSUME Init PROVE Inv
  OBVIOUS
<1>1. result \in [Requests -> Result] /\ \A r \in Requests : result[r].end = "pending"
  BY DEF Init, Result, Ends, Ended
<1>2. request \in Requests
  BY DEF Init, Requests
<1>3. FetchInv
  BY <1>1, <1>2 DEF Init, FetchInv, Over, RepliesAreOwn, Nothing
<1>4. PipeInv /\ ServerInv
  BY DEF Init, PipeInv, ServerInv
<1> QED
  BY <1>3, <1>4 DEF Inv

\* A step that leaves Fetch alone leaves what it knows alone.
LEMMA FetchUntouched ==
  ASSUME FetchInv, UNCHANGED <<ctx, pc, request, result, fetched>>
  PROVE  FetchInv'
BY DEF FetchInv, RepliesAreOwn

\* A pipe nobody touches keeps its invariant.
LEMMA PipeUntouched ==
  ASSUME PipeInv, UNCHANGED <<asked, stdout, noise>>
  PROVE  PipeInv'
BY DEF PipeInv

\* The reply that ends a call is the reply to that call.
LEMMA ReadKeeps == Inv /\ Read => Inv'
<1> SUFFICES ASSUME Inv, Read PROVE Inv'
  OBVIOUS
<1> DEFINE line == Head(stdout)
<1>1. /\ pc = "reading" /\ stdout # <<>> /\ stdout' = Tail(stdout)
      /\ UNCHANGED <<ctx, client, server, asked, noise>>
  BY DEF Read
<1>2. /\ line \in Line /\ line.id = line.of
      /\ stdout' \in Seq(Line) /\ \A i \in DOMAIN stdout' : stdout'[i].id = stdout'[i].of
  BY <1>1, TailKeeps DEF Inv
<1>3. PipeInv'
  BY <1>1, <1>2 DEF Inv, PipeInv
<1>4. \/ UNCHANGED <<pc, request, result, fetched>>
      \/ \E end \in {"garbled"} : EndCall(end, 0)
      \/ Mine(line) /\ \E end \in {"refused", "garbled", "ok"} : EndCall(end, line.of)
  BY DEF Read
<1>5. line.of \in Requests \cup {0} /\ (Mine(line) => line.of = request)
  BY <1>2 DEF Line, Mine
<1> HIDE DEF line
<1>6. FetchInv' /\ pc' # "start" /\ pc' # "returned" /\ pc' # "cutting"
  <2>1. CASE UNCHANGED <<pc, request, result, fetched>>
    BY <1>1, <2>1, FetchUntouched DEF Inv
  <2>2. CASE \E end \in {"garbled"} : EndCall(end, 0)
    BY <1>1, <2>2, EndCallKeeps DEF Inv, Ends, Mid
  <2>3. CASE Mine(line) /\ \E end \in {"refused", "garbled", "ok"} : EndCall(end, line.of)
    BY <1>1, <1>5, <2>3, EndCallKeeps DEF Inv, Ends, Mid
  <2> QED
    BY <1>4, <2>1, <2>2, <2>3
<1>7. ServerInv'
  BY <1>1, <1>6 DEF Inv, ServerInv
<1> QED
  BY <1>3, <1>6, <1>7 DEF Inv

\* Every other step that ends a call ends it without an answer.
LEMMA UnansweredKeeps ==
  ASSUME Inv, pc \in Mid, NEW end \in {"broken", "closed", "cut"}, EndCall(end, 0),
         end # "broken" => ctx # "live",
         UNCHANGED <<ctx, client, server, stdout, noise>>, asked' \subseteq Requests
  PROVE  Inv'
<1>1. FetchInv' /\ pc' \in {"call", "closing"}
  BY EndCallKeeps DEF Inv, Ends
<1>2. PipeInv'
  BY DEF Inv, PipeInv
<1>3. ServerInv'
  BY <1>1 DEF Inv, ServerInv, Mid
<1> QED
  BY <1>1, <1>2, <1>3 DEF Inv

\* Fetch moves on, within a call or out of it, with no call ended.
LEMMA MoveKeeps ==
  ASSUME Inv, UNCHANGED <<ctx, request, stdout, noise, result>>, asked' \subseteq Requests,
         pc' \in Mid, pc \notin Over, fetched' = fetched, ServerInv'
  PROVE  Inv'
<1>1. FetchInv'
  BY DEF Inv, FetchInv, Over, Mid, RepliesAreOwn
<1>2. PipeInv'
  BY DEF Inv, PipeInv
<1> QED
  BY <1>1, <1>2 DEF Inv

\* Every step of Fetch, of the server and of the clock keeps the invariant.
LEMMA NextInv == Inv /\ [Next]_vars => Inv'
<1> SUFFICES ASSUME Inv, [Next]_vars PROVE Inv'
  OBVIOUS
<1> USE DEF process
<1>1. CASE Expire \/ Cancel
  <2>1. UNCHANGED <<pc, request, client, process, result, fetched>> /\ ctx = "live"
        /\ ctx' \in {"deadline", "canceled"}
    BY <1>1 DEF Expire, Cancel
  <2>2. fetched # "timeout" /\ \A r \in Requests : result[r].end \notin {"cut", "closed"}
    BY <2>1 DEF Inv, FetchInv
  <2>3. FetchInv'
    BY <2>1, <2>2 DEF Inv, FetchInv, RepliesAreOwn
  <2> QED
    BY <2>1, <2>3 DEF Inv, PipeInv, ServerInv
<1>2. CASE ServerReplies
  <2>1. PICK r \in asked, body \in Bodies :
          /\ asked' = asked \ {r} /\ stdout' = Append(stdout, Reply(r, body))
          /\ UNCHANGED <<ctx, pc, request, client, server, noise, result, fetched>>
    BY <1>2 DEF ServerReplies
  <2>2. Reply(r, body) \in Line /\ Reply(r, body).id = Reply(r, body).of
    BY LinesBearIds DEF Inv, PipeInv
  <2>3. PipeInv'
    BY <2>1, <2>2, AppendKeeps DEF Inv, PipeInv
  <2> QED
    BY <2>1, <2>3, FetchUntouched DEF Inv, ServerInv
<1>3. CASE ServerChatters
  <2>1. PICK body \in Bodies : stdout' = Append(stdout, Unasked(body))
    BY <1>3 DEF ServerChatters, Bodies
  <2>2. UNCHANGED <<ctx, pc, request, client, server, asked, result, fetched>> /\ noise' = noise + 1
    BY <1>3 DEF ServerChatters
  <2>3. PipeInv'
    BY <2>1, <2>2, LinesBearIds, AppendKeeps DEF Inv, PipeInv
  <2> QED
    BY <2>2, <2>3, FetchUntouched DEF Inv, ServerInv
<1>4. CASE ServerExits \/ Kill
  <2>1. UNCHANGED <<ctx, pc, request, client, asked, stdout, noise, result, fetched>>
        /\ server = "running" /\ server' = "exited"
    BY <1>4 DEF ServerExits, Kill
  <2> QED
    BY <2>1, FetchUntouched, PipeUntouched DEF Inv, ServerInv
<1>5. CASE StartServer
  <2>1. CASE \E cause \in {"not_installed", "upstream_error"} :
               Return(IF ctx = "deadline" THEN "timeout" ELSE cause) /\ UNCHANGED <<request, server>>
    <3>1. UNCHANGED <<ctx, request, client, server, asked, stdout, noise, result>>
          /\ pc = "start" /\ pc' = "returned" /\ fetched' \in Fetched
          /\ (fetched' = "timeout" <=> ctx = "deadline")
      BY <1>5, <2>1 DEF StartServer, Return, Fetched
    <3>2. \A r \in Requests : result[r].end \in {"cut", "closed"} => ctx = "canceled"
      BY <3>1 DEF Inv, FetchInv, Over, Nothing
    <3>3. FetchInv'
      BY <3>1, <3>2 DEF Inv, FetchInv, Over, RepliesAreOwn
    <3> QED
      BY <3>1, <3>3, PipeUntouched DEF Inv, ServerInv
  <2>2. CASE server' = "running" /\ pc' = "call" /\ UNCHANGED <<request, fetched>>
    <3>1. ServerInv' /\ UNCHANGED <<ctx, asked, stdout, noise, result>> /\ pc = "start"
      BY <1>5, <2>2 DEF Inv, StartServer, ServerInv
    <3> QED
      BY <2>2, <3>1, MoveKeeps DEF Inv, PipeInv, Mid, Over
  <2> QED
    BY <1>5, <2>1, <2>2 DEF StartServer
<1>6. CASE Call
  <2>1. CASE client = "closed"
    BY <1>6, <2>1, UnansweredKeeps DEF Call, Inv, PipeInv, ServerInv, Mid
  <2>2. CASE client # "closed"
    <3>1. ServerInv'
      BY <1>6, <2>2 DEF Call, Inv, ServerInv
    <3> QED
      BY <1>6, <2>2, <3>1, MoveKeeps DEF Call, Inv, PipeInv, Mid, Over
  <2> QED
    BY <2>1, <2>2
<1>7. CASE Write
  <2>1. CASE server = "exited"
    BY <1>7, <2>1, UnansweredKeeps DEF Write, Inv, PipeInv, Mid
  <2>2. CASE server # "exited"
    <3>1. ServerInv' /\ asked' \subseteq Requests
      BY <1>7, <2>2 DEF Write, Inv, ServerInv, PipeInv, FetchInv
    <3> QED
      BY <1>7, <2>2, <3>1, MoveKeeps DEF Write, Mid, Over
  <2> QED
    BY <2>1, <2>2
<1>8. CASE Read
  BY <1>8, ReadKeeps
<1>9. CASE ReadFails
  BY <1>9, UnansweredKeeps DEF ReadFails, Inv, PipeInv, Mid
<1>10. CASE Cut
  <2>1. ServerInv'
    BY <1>10 DEF Cut, Inv, ServerInv
  <2> QED
    BY <1>10, <2>1, MoveKeeps DEF Cut, Inv, PipeInv, Mid, Over
<1>11. CASE CutEnds
  BY <1>11, UnansweredKeeps DEF CutEnds, Inv, PipeInv, ServerInv, Mid
<1>12. CASE CloseEnds
  <2>1. UNCHANGED <<ctx, request, client, process, result, fetched>>
        /\ pc = "closing" /\ pc' = "returned" /\ server = "exited"
    BY <1>12 DEF CloseEnds, Reaped
  <2>2. FetchInv'
    BY <2>1 DEF Inv, FetchInv, Over, RepliesAreOwn
  <2> QED
    BY <2>1, <2>2, PipeUntouched DEF Inv, ServerInv
<1>13. CASE UNCHANGED vars
  BY <1>13, FetchUntouched, PipeUntouched DEF vars, Inv, ServerInv
<1> QED
  BY <1>1, <1>2, <1>3, <1>4, <1>5, <1>6, <1>7, <1>8, <1>9, <1>10, <1>11, <1>12, <1>13
     DEF Next, FetchStep

\* The inductive invariant holds of every behaviour of the conversation.
THEOREM FetchInvariant == Spec => []Inv
<1> QED
  BY InitInv, NextInv, PTL DEF Spec

-----------------------------------------------------------------------------
\* Every variable holds a value of its kind, however much the server chatters.
THEOREM TypeCorrect == Spec => []TypeOK
<1>1. Inv => TypeOK
  BY DEF Inv, FetchInv, PipeInv, ServerInv, TypeOK, Over
<1> QED
  BY <1>1, FetchInvariant, PTL

\* No part of the report is the reply to another request, whatever lines come in
\* between and however late a reply is.
THEOREM OwnReplies == Spec => []RepliesAreOwn
<1>1. Inv => RepliesAreOwn
  BY DEF Inv, FetchInv
<1> QED
  BY <1>1, FetchInvariant, PTL

\* A Fetch that has returned has left no process behind.
THEOREM NoLeak == Spec => []NothingLeaks
<1>1. Inv => NothingLeaks
  BY DEF Inv, ServerInv, NothingLeaks
<1> QED
  BY <1>1, FetchInvariant, PTL

\* A report, or an upstream failure, never hides that the deadline cut a call.
THEOREM TimeTold == Spec => []TimeIsTold
<1>1. Inv => TimeIsTold
  BY DEF Inv, FetchInv, TimeIsTold
<1> QED
  BY <1>1, FetchInvariant, PTL

\* Fetch answers at most once, with a report or a reason, and with a timeout only
\* when its deadline has passed: what the resolver's runs take for granted of a
\* source.
THEOREM AnswersAsPromised == Spec => Contract!Safety
<1>1. Init => Contract!Init
  BY DEF Init, Contract!Init
<1>2. Inv /\ Inv' /\ [Next]_vars => [Contract!Next]_(Contract!call)
  <2> SUFFICES ASSUME Inv, Inv', [Next]_vars PROVE [Contract!Next]_(Contract!call)
    OBVIOUS
  <2>1. CASE Expire \/ Cancel
    <3>1. ctx = "live" /\ ctx' \in {"canceled", "deadline"} /\ UNCHANGED <<pc, fetched>>
      BY <2>1 DEF Expire, Cancel
    <3> QED BY <3>1 DEF Contract!Next, Contract!EndContext
  <2>2. CASE ~ (Expire \/ Cancel)
    <3>1. ctx' = ctx /\ (pc = "returned" => UNCHANGED <<pc, fetched>>)
      BY <2>2 DEF Next, FetchStep, ServerReplies, ServerChatters, ServerExits, StartServer, Call, Write, Read,
                  ReadFails, Cut, CutEnds, CloseEnds, Kill, vars
    <3>2. CASE pc # "returned" /\ pc' = "returned"
      <4>1. fetched' \in Fetched /\ (fetched' = "timeout" => ctx = "deadline")
        BY <3>1, <3>2 DEF Inv, FetchInv, Over
      <4> QED BY <3>1, <3>2, <4>1 DEF Contract!Next, Contract!Reply
    <3>3. CASE pc = "returned" \/ pc' # "returned"
      BY <3>1, <3>3 DEF Contract!call
    <3> QED BY <3>2, <3>3
  <2> QED BY <2>1, <2>2
<1> QED BY <1>1, <1>2, FetchInvariant, PTL DEF Spec, Contract!Safety
=============================================================================

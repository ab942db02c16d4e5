----------------------------- MODULE SourceCall -----------------------------
(***************************************************************************)
(* What the resolver takes for granted of one call of a source's Fetch: it *)
(* answers at most once, it speaks of a timeout only when there was one,   *)
(* and once its context has ended it does answer.                          *)
(***************************************************************************)
CONSTANTS
  Answers,    \* what Fetch may answer
  TimedOut,   \* the answer that says time ran out
  NoAnswer    \* the value of an answer not given yet

VARIABLES ctx, answer

call == <<ctx, answer>>

Init == ctx = "live" /\ answer = NoAnswer

EndContext ==
  /\ ctx = "live"
  /\ ctx' \in {"canceled", "deadline"}
  /\ UNCHANGED answer

Reply ==
  /\ answer = NoAnswer
  /\ answer' \in Answers
  /\ answer' = TimedOut => ctx = "deadline"
  /\ UNCHANGED ctx

Next == EndContext \/ Reply

\* The part of the promise that needs no fairness.
Safety == Init /\ [][Next]_call

Spec == Safety /\ WF_call(ctx # "live" /\ Reply)
=============================================================================

------------------------------ MODULE MCCanary ------------------------------
(* An instance of Canary: two refs, three CLIs with the ranges the adapters *)
(* declare, and ranges of every other form around their versions.          *)
EXTENDS Canary

Num(n)  == [is |-> "number", rank |-> n]
\* Names in ASCII order.
Name(s) == [is |-> "name", rank |-> CASE s = "alpha" -> 1 [] s = "beta" -> 2 [] s = "next" -> 3 [] s = "rc" -> 4]

V(major, minor, patch) == Version(major, minor, patch, <<>>)
Pre(v, ids) == [v EXCEPT !.pre = ids]

Tok(op, v) ==
  [op |-> op, major |-> v.major, minor |-> v.minor, patch |-> v.patch, pre |-> v.pre,
   x |-> Any \in {v.major, v.minor, v.patch} \/ \E i \in DOMAIN v.pre : v.pre[i] = Name("next")]
Tokens(toks) == [hyphen |-> FALSE, tokens |-> toks]
Hyphen(from, to) == [hyphen |-> TRUE, tokens |-> <<Tok("", from), Tok("", to)>>]

V150   == V(0, 150, 0)
Alpha2 == Pre(V150, <<Name("alpha"), Num(2)>>)
Next1  == Pre(V150, <<Name("next"), Num(1)>>)

MCRanges == {
  Tokens(<<>>), Hyphen(V(0, 149, 0), V(2, 1, Any)), Hyphen(Alpha2, V150),
  Tokens(<<Tok("^", V(2, 1, 4))>>), Tokens(<<Tok("^", V(0, 149, 0))>>), Tokens(<<Tok("^", V(0, 0, 3))>>),
  Tokens(<<Tok("~", V(1, 18, 2))>>), Tokens(<<Tok("=", Alpha2)>>),
  Tokens(<<Tok(">", Alpha2), Tok("<=", V(1, 18, 2))>>), Tokens(<<Tok("<", Next1)>>),
  Tokens(<<Tok("", V(0, 150, Any))>>), Tokens(<<Tok(">", V(1, 17, Any))>>),
  Tokens(<<Tok(">=", V(1, Any, Missing))>>), Tokens(<<Tok("<=", V(1, Any, Missing))>>),
  Tokens(<<Tok("<=", Pre(V(1, Any, Any), <<Name("beta")>>))>>), Tokens(<<Tok("<", V(1, 18, Any))>>),
  Tokens(<<Tok("", V(Any, Missing, Missing))>>)}

MCProviders == <<"claude", "codex", "opencode">>
MCVerified == [claude   |-> Tokens(<<Tok(">=", V(2, 1, 0)), Tok("<", V(2, 2, 0))>>),
               codex    |-> Tokens(<<Tok(">=", V(0, 148, 0)), Tok("<", V150)>>),
               opencode |-> Tokens(<<Tok(">=", V(1, 18, 0))>>)]

Word       == [is |-> "word"]
Says(v)    == <<Word, [is |-> "version", version |-> v], Word>>
Schema     == ExpectedCodexMethods \cup {"usedPercent", "resetsAt"}
Release(stdout, stderr, help, schema) ==
  [stdout |-> stdout, stderr |-> stderr, help |-> help, schema |-> schema]

Alpha11 == Pre(V150, <<Name("alpha"), Num(11)>>)
MCReleases == [
  claude   |-> <<Release(Says(V(2, 1, 4)), <<>>, {"usage"}, {}),
                 Release(Says(V(2, 2, 0)), <<>>, {"usage"}, {})>>,
  codex    |-> <<Release(Says(V(0, 149, 0)), <<>>, {"app-server"}, Schema),
                 Release(Says(Alpha2), <<>>, {"app-server"}, Schema \ {"resetsAt"}),
                 Release(<<>>, Says(Alpha11), {"app-server"}, Schema)>>,
  opencode |-> <<Release(Says(V(1, 18, 2)), <<>>, {"serve"}, {})>>]

MCSound == [claude |-> {1}, codex |-> {1, 3}, opencode |-> {1}]

\* Ranges the adapters could not declare: "^1.x", "!=1.x", "1.x-beta", ">=x.x-beta",
\* ">1.18.x-beta", and hyphens with such an end.
Refused == {
  Tokens(<<Tok("^", V(1, Any, Missing))>>), Tokens(<<Tok("!=", V(1, Any, Missing))>>),
  Tokens(<<Tok("", Pre(V(1, Any, Missing), <<Name("beta")>>))>>),
  Tokens(<<Tok(">=", Pre(V(Any, Any, Missing), <<Name("beta")>>))>>),
  Tokens(<<Tok("", V(1, 18, 2)), Tok(">", Pre(V(1, 18, Any), <<Name("beta")>>))>>),
  Hyphen(Pre(V(1, Any, Missing), <<Name("beta")>>), V(2, 0, 0)),
  Hyphen(V(1, 0, 0), Pre(V(2, Any, Missing), <<Name("rc")>>))}

\* The ranges are such as the theorems speak of.
ASSUME RangesAssumption == \A range \in Ranges : PlainRange(range)

ASSUME RefusedAssumption == \A range \in Refused : Check(range, V150) = "unknown"
=============================================================================

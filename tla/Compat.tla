------------------------------ MODULE Compat --------------------------------
(***************************************************************************)
(* Versions and the ranges they are held against.                          *)
(*                                                                         *)
(* A version is [major, minor, patch, pre], where pre is a sequence of     *)
(* identifiers [is, rank]: a "number" by its value, a "name" by its place  *)
(* in ASCII order.  A range is [hyphen, tokens], with the two ends of      *)
(* "from - to" as its tokens or else the tokens that are more than a star; *)
(* a token is [op, major, minor, patch, pre, x], where op is "" if none is *)
(* written, a part may be Any, an x or a star, or Missing, and x tells     *)
(* whether there is an x or a star anywhere in it, "next" included.  What  *)
(* a CLI prints is a sequence of words [is, version]; is tells a "version" *)
(* from one that is "malformed" and from a "word" that is neither.         *)
(***************************************************************************)
EXTENDS Integers, Sequences, FiniteSets, FiniteSetsExt

Any     == -1
Missing == -2

-----------------------------------------------------------------------------
(* The order of versions.                                                  *)

Sign(m, n) == IF m < n THEN -1 ELSE IF m > n THEN 1 ELSE 0

\* Mutant: numbers are compared as text, 10 before 2.
AsText(a, b) ==
  LET text(id) == IF id.is = "number" /\ id.rank < 10 THEN 10 * id.rank ELSE id.rank
  IN  IF a.is = b.is THEN Sign(text(a), text(b)) ELSE IF a.is = "number" THEN -1 ELSE 1

\* Numbers by value and before names, names as ASCII orders them.
compareIdentifiers(a, b) ==
  IF a.is = b.is THEN Sign(a.rank, b.rank) ELSE IF a.is = "number" THEN -1 ELSE 1

\* The first identifiers that differ decide, or else the lengths.
comparePrereleases(p, q) ==
  LET differ == {i \in 1 .. Min({Len(p), Len(q)}) : compareIdentifiers(p[i], q[i]) # 0}
  IN  IF differ = {} THEN Sign(Len(p), Len(q))
      ELSE LET i == Min(differ) IN compareIdentifiers(p[i], q[i])

\* A pre-release comes before its release.
Compare(v, w) ==
  CASE v.major # w.major -> Sign(v.major, w.major)
    [] v.major = w.major /\ v.minor # w.minor -> Sign(v.minor, w.minor)
    [] v.major = w.major /\ v.minor = w.minor /\ v.patch # w.patch -> Sign(v.patch, w.patch)
    [] OTHER -> IF <<>> \in {v.pre, w.pre} THEN Sign(Len(w.pre), Len(v.pre))
                ELSE comparePrereleases(v.pre, w.pre)

-----------------------------------------------------------------------------
(* The constraints a range stands for.                                     *)

Version(major, minor, patch, pre) ==
  [major |-> major, minor |-> minor, patch |-> patch, pre |-> pre]

Constraint(op, version) == [op |-> op, version |-> version]

IsWildcard(part) == part \in {Any, Missing}
OrZero(part)     == IF IsWildcard(part) THEN 0 ELSE part

\* A strict version may leave out its last parts.
Parse(tok) == Version(tok.major, OrZero(tok.minor), OrZero(tok.patch), tok.pre)

parseWildcardLower(tok) ==
  Version(OrZero(tok.major), OrZero(tok.minor), OrZero(tok.patch), <<>>)

\* The version just above the wildcard.
parseWildcardUpper(tok) ==
  CASE tok.major = Any -> Version(0, 0, 0, <<>>)
    [] tok.major # Any /\ IsWildcard(tok.minor) -> Version(tok.major + 1, 0, 0, <<>>)
    [] tok.major # Any /\ ~ IsWildcard(tok.minor) /\ IsWildcard(tok.patch) ->
         Version(tok.major, tok.minor + 1, 0, <<>>)
    [] OTHER -> Version(tok.major, tok.minor, tok.patch, <<>>)

caretUpper(v) ==
  CASE v.major > 0 -> Version(v.major + 1, 0, 0, <<>>)
    [] v.major = 0 /\ v.minor > 0 -> Version(0, v.minor + 1, 0, <<>>)
    [] OTHER -> Version(0, 0, v.patch + 1, <<>>)

\* The parts that stand before the last one written.
PartsBefore(tok) ==
  IF tok.patch # Missing THEN {tok.major, tok.minor} ELSE IF tok.minor # Missing THEN {tok.major} ELSE {}

LastPart(tok) ==
  IF tok.patch # Missing THEN tok.patch ELSE IF tok.minor # Missing THEN tok.minor ELSE tok.major

\* "x-beta" is neither a wildcard nor a number, and an error wherever it is read:
\* a lower bound reads every part, an upper one those up to the first wildcard.
LowerParses(tok) == ~ (LastPart(tok) = Any /\ tok.pre # <<>>)
UpperParses(tok) == LowerParses(tok) \/ Any \in PartsBefore(tok)

\* A wildcard is an error where the token is parsed as a version.
Parses(tok) ==
  CASE tok.op \in {"^", "~", "!="}     -> Any \notin {tok.major, tok.minor, tok.patch}
    [] tok.op \in {">", "<="}          -> UpperParses(tok)
    [] tok.op \in {"", "=", ">=", "<"} -> LowerParses(tok)

parseTokenConstraints(tok) ==
  LET v     == Parse(tok)
      lower == Constraint(">=", parseWildcardLower(tok))
      upper == Constraint("<", parseWildcardUpper(tok))
  IN  CASE tok.op = "^" -> {Constraint(">=", v), Constraint("<", caretUpper(v))}
        [] tok.op = "~" -> {Constraint(">=", v),
                            Constraint("<", Version(v.major, v.minor + 1, 0, <<>>))}
        [] tok.op = ">=" /\ tok.x -> {lower}
        [] tok.op = ">"  /\ tok.x -> {[upper EXCEPT !.op = ">="]}
        [] tok.op = "<=" /\ tok.x -> {upper}
        [] tok.op = "<"  /\ tok.x -> {[lower EXCEPT !.op = "<"]}
        [] tok.op \in {"", "="} /\ tok.x -> {lower, upper}
        [] tok.op = "" /\ ~ tok.x -> {Constraint("=", v)}
        [] OTHER -> {Constraint(tok.op, v)}

\* The upper end of "from - to" belongs to the range unless it is a wildcard.
parseHyphenRange(from, to) ==
  LET open == \E part \in {to.major, to.minor, to.patch} : IsWildcard(part)
  IN  {Constraint(">=", parseWildcardLower(from)),
       Constraint(IF open THEN "<" ELSE "<=", parseWildcardUpper(to))}

\* "None", "N/A", a star and nothing at all have no tokens.
ParseRange(range) ==
  IF range.hyphen THEN parseHyphenRange(range.tokens[1], range.tokens[2])
  ELSE UNION {parseTokenConstraints(range.tokens[i]) : i \in DOMAIN range.tokens}

RangeParses(range) ==
  IF range.hyphen THEN LowerParses(range.tokens[1]) /\ UpperParses(range.tokens[2])
  ELSE \A i \in DOMAIN range.tokens : Parses(range.tokens[i])

-----------------------------------------------------------------------------
(* The verdict on a version.                                               *)

Matches(c, v) ==
  LET cmp == Compare(v, c.version)
  IN  CASE c.op = "="  -> cmp = 0
        [] c.op = "!=" -> cmp # 0
        [] c.op = ">"  -> cmp > 0
        [] c.op = ">=" -> cmp >= 0
        [] c.op = "<"  -> cmp < 0
        [] c.op = "<=" -> cmp <= 0

Contains(constraints, v) == \A c \in constraints : Matches(c, v)

\* Below some bound, or above one.  The bounds the code keeps, the highest
\* floor and the lowest ceiling, decide nothing that the constraints do not.
Below(constraints, v) ==
  \E c \in constraints : \/ c.op \in {">", ">="} /\ ~ Matches(c, v)
                         \/ c.op = "=" /\ Compare(v, c.version) < 0

Evaluate(constraints, v) ==
  CASE Contains(constraints, v) -> "in_range"
    [] ~ Contains(constraints, v) /\ Below(constraints, v) -> "older_than_floor"
    [] OTHER -> "newer_than_verified"

\* The first word of the output that has the shape of a version, if there is
\* one and it is not malformed.
Extract(output) ==
  {output[i].version : i \in {j \in DOMAIN output :
     output[j].is = "version" /\ \A k \in 1 .. j - 1 : output[k].is = "word"}}

Check(range, version) ==
  IF range.tokens = <<>> THEN "in_range"
  ELSE IF RangeParses(range) THEN Evaluate(ParseRange(range), version)
  ELSE "unknown"

-----------------------------------------------------------------------------
(* For the properties and the proofs: the values these take, and the order *)
(* of the verdicts.                                                        *)

Identifiers == [is : {"number", "name"}, rank : Int]
Versions    == [major : Int, minor : Int, patch : Int, pre : Seq(Identifiers)]

\* The constraints of a range without a hole in it.
Bounds == [op : {"=", ">", ">=", "<", "<="}, version : Versions]

\* The tokens and ranges without "!=".  A pre-release of several identifiers comes
\* after all three parts: with fewer, the wildcard parser takes what stands behind
\* its first dot for a part, which these tokens do not tell.
Parts       == Nat \cup {Any, Missing}
PlainTokens ==
  {tok \in [op : {"", "=", "^", "~", ">", ">=", "<", "<="}, major : Parts, minor : Parts, patch : Parts,
            pre : Seq(Identifiers), x : BOOLEAN] :
     Missing \in {tok.minor, tok.patch} => Len(tok.pre) <= 1}
PlainRange(range) ==
  /\ range \in [hyphen : BOOLEAN, tokens : Seq(PlainTokens)]
  /\ range.hyphen => Len(range.tokens) = 2
  /\ RangeParses(range)

Place(status) ==
  CASE status = "older_than_floor" -> 1
    [] status = "in_range" -> 2
    [] status = "newer_than_verified" -> 3
=============================================================================

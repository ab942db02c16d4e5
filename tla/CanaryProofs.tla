---------------------------- MODULE CanaryProofs ----------------------------
(***************************************************************************)
(* Compare orders all versions, and so the verdict on a CLI that is only   *)
(* ever updated never goes back, for every range that has no "!=" in it;   *)
(* and two results on the drift canary: a run gives the all clear only for *)
(* CLIs that passed every probe, and the verdict on a CLI ascends with its *)
(* releases.                                                               *)
(***************************************************************************)
EXTENDS Canary, WellFoundedInduction, TLAPS

-----------------------------------------------------------------------------
(* Identifiers.                                                            *)

\* compareIdentifiers is a total order, and takes no two identifiers for one.
LEMMA IdentifierOrder ==
  ASSUME NEW a \in Identifiers, NEW b \in Identifiers
  PROVE  /\ compareIdentifiers(a, b) \in {-1, 0, 1}
         /\ compareIdentifiers(b, a) = - compareIdentifiers(a, b)
         /\ compareIdentifiers(a, b) = 0 => a = b
         /\ compareIdentifiers(a, a) = 0
BY DEF Identifiers, compareIdentifiers, Sign

\* What comes before an identifier comes before all that come after it.
LEMMA IdentifierTransitive ==
  ASSUME NEW a \in Identifiers, NEW b \in Identifiers, NEW c \in Identifiers,
         compareIdentifiers(a, b) < 0, compareIdentifiers(b, c) < 0
  PROVE  compareIdentifiers(a, c) < 0
BY DEF Identifiers, compareIdentifiers, Sign

-----------------------------------------------------------------------------
(* Sequences of identifiers.                                               *)

\* p comes before q at position i: they agree up to there, where p has ended or
\* has the lesser identifier.
BeforeAt(p, q, i) ==
  /\ i \in 1 .. Len(q)
  /\ i <= Len(p) + 1
  /\ \A j \in 1 .. i - 1 : p[j] = q[j]
  /\ i <= Len(p) => compareIdentifiers(p[i], q[i]) < 0

Before(p, q) == \E i \in Nat : BeforeAt(p, q, i)

\* A nonempty set of naturals has a least element, and Min is that.
LEMMA MinIsLeast ==
  ASSUME NEW T \in SUBSET Nat, T # {}
  PROVE  Min(T) \in T /\ \A y \in T : Min(T) <= y
<1>1. PICK x \in T : \A y \in T : ~ (<<y, x>> \in OpToRel(<, Nat))
  BY WFMin, NatLessThanWellFounded
<1>2. \A y \in T : x <= y
  <2>1. ASSUME NEW y \in T, y < x PROVE FALSE
    <3>1. <<y, x>> \in OpToRel(<, Nat)
      BY <2>1 DEF OpToRel
    <3> QED BY <1>1, <3>1
  <2> QED BY <2>1
<1> QED BY <1>2 DEF Min

\* The first difference of two sequences, and what it says of their order.
LEMMA PrereleasesDecided ==
  ASSUME NEW p \in Seq(Identifiers), NEW q \in Seq(Identifiers)
  PROVE  \/ comparePrereleases(p, q) = -1 /\ Before(p, q)
         \/ comparePrereleases(p, q) = 1 /\ Before(q, p)
         \/ comparePrereleases(p, q) = 0 /\ p = q
<1> DEFINE n == Min({Len(p), Len(q)})
           differ == {i \in 1 .. n : compareIdentifiers(p[i], q[i]) # 0}
<1>1. n \in {Len(p), Len(q)} /\ n \in Nat /\ n <= Len(p) /\ n <= Len(q)
  <2> DEFINE lengths == {Len(p), Len(q)}
  <2>1. lengths \in SUBSET Nat /\ lengths # {} /\ Len(p) \in lengths /\ Len(q) \in lengths
    OBVIOUS
  <2> HIDE DEF lengths
  <2>2. Min(lengths) \in lengths /\ \A y \in lengths : Min(lengths) <= y
    BY <2>1, MinIsLeast
  <2>3. n = Min(lengths)
    BY DEF lengths
  <2> QED BY <2>1, <2>2, <2>3 DEF lengths
<1>2. \A i \in 1 .. n : p[i] \in Identifiers /\ q[i] \in Identifiers
  BY <1>1
<1>3. comparePrereleases(p, q) =
        IF differ = {} THEN Sign(Len(p), Len(q)) ELSE compareIdentifiers(p[Min(differ)], q[Min(differ)])
  BY DEF comparePrereleases
<1>. HIDE DEF n
<1>4. CASE differ = {}
  <2>1. \A i \in 1 .. n : p[i] = q[i]
    BY <1>2, <1>4, IdentifierOrder
  <2>2. CASE Len(p) < Len(q)
    <3>1. BeforeAt(p, q, Len(p) + 1)
      BY <1>1, <2>1, <2>2 DEF BeforeAt
    <3> QED BY <1>3, <1>4, <2>2, <3>1 DEF Before, Sign
  <2>3. CASE Len(p) > Len(q)
    <3>1. BeforeAt(q, p, Len(q) + 1)
      BY <1>1, <2>1, <2>3 DEF BeforeAt
    <3>2. ~ (Len(p) < Len(q))
      BY <2>3
    <3> QED BY <1>3, <1>4, <2>3, <3>1, <3>2 DEF Before, Sign
  <2>4. CASE Len(p) = Len(q)
    <3>1. p = q
      BY <1>1, <2>1, <2>4
    <3> QED BY <1>3, <1>4, <2>4, <3>1 DEF Sign
  <2> QED BY <2>2, <2>3, <2>4
<1>5. CASE differ # {}
  <2> DEFINE i == Min(differ)
  <2>1. i \in differ /\ \A j \in differ : i <= j
    <3>1. differ \in SUBSET Nat
      BY <1>1
    <3> HIDE DEF differ
    <3> QED BY <1>5, <3>1, MinIsLeast
  <2>. HIDE DEF i
  <2>2. \A j \in 1 .. i - 1 : p[j] = q[j]
    <3>1. \A j \in 1 .. i - 1 : j \in 1 .. n /\ j \notin differ
      BY <1>1, <2>1
    <3> QED BY <1>2, <3>1, IdentifierOrder
  <2>3. i \in 1 .. Len(p) /\ i \in 1 .. Len(q) /\ i \in Nat
    BY <1>1, <2>1
  <2>4. comparePrereleases(p, q) = compareIdentifiers(p[i], q[i])
    BY <1>3, <1>5 DEF i
  <2>5. p[i] \in Identifiers /\ q[i] \in Identifiers /\ compareIdentifiers(p[i], q[i]) # 0
    BY <1>2, <2>1
  <2>6. CASE compareIdentifiers(p[i], q[i]) = -1
    <3>1. BeforeAt(p, q, i)
      BY <2>2, <2>3, <2>6 DEF BeforeAt
    <3> QED BY <2>3, <2>4, <2>6, <3>1 DEF Before
  <2>7. CASE compareIdentifiers(p[i], q[i]) = 1
    <3>1. compareIdentifiers(q[i], p[i]) = -1
      BY <2>5, <2>7, IdentifierOrder
    <3>2. BeforeAt(q, p, i)
      BY <2>2, <2>3, <3>1 DEF BeforeAt
    <3> QED BY <2>3, <2>4, <2>7, <3>2 DEF Before
  <2> QED BY <2>5, <2>6, <2>7, IdentifierOrder
<1> QED BY <1>4, <1>5

\* No two sequences come before each other.
LEMMA BeforeAsymmetric ==
  ASSUME NEW p \in Seq(Identifiers), NEW q \in Seq(Identifiers), Before(p, q)
  PROVE  ~ Before(q, p) /\ p # q
<1>1. PICK i \in Nat : BeforeAt(p, q, i)
  BY DEF Before
<1>2. ASSUME NEW k \in Nat, BeforeAt(q, p, k) PROVE FALSE
  <2>1. CASE i < k
    <3>1. i <= Len(p) /\ p[i] = q[i] /\ p[i] \in Identifiers
      BY <1>1, <1>2, <2>1 DEF BeforeAt
    <3> QED BY <1>1, <3>1, IdentifierOrder DEF BeforeAt
  <2>2. CASE k < i
    <3>1. k <= Len(q) /\ p[k] = q[k] /\ q[k] \in Identifiers
      BY <1>1, <1>2, <2>2 DEF BeforeAt
    <3> QED BY <1>2, <3>1, IdentifierOrder DEF BeforeAt
  <2>3. CASE i = k
    <3>1. /\ p[i] \in Identifiers /\ q[i] \in Identifiers
          /\ compareIdentifiers(p[i], q[i]) < 0 /\ compareIdentifiers(q[i], p[i]) < 0
      BY <1>1, <1>2, <2>3 DEF BeforeAt
    <3> QED BY <3>1, IdentifierOrder
  <2> QED BY <2>1, <2>2, <2>3
<1>3. p # q
  <2>1. ASSUME p = q PROVE FALSE
    <3>1. i <= Len(p) /\ p[i] \in Identifiers /\ compareIdentifiers(p[i], p[i]) < 0
      BY <1>1, <2>1 DEF BeforeAt
    <3> QED BY <3>1, IdentifierOrder
  <2> QED BY <2>1
<1> QED BY <1>2, <1>3 DEF Before

\* The order of sequences is transitive: the earlier of the two positions decides.
LEMMA BeforeTransitive ==
  ASSUME NEW p \in Seq(Identifiers), NEW q \in Seq(Identifiers), NEW r \in Seq(Identifiers),
         Before(p, q), Before(q, r)
  PROVE  Before(p, r)
<1>1. PICK i \in Nat : BeforeAt(p, q, i)
  BY DEF Before
<1>2. PICK k \in Nat : BeforeAt(q, r, k)
  BY DEF Before
<1>3. CASE i < k
  <2>1. q[i] = r[i] /\ i \in 1 .. Len(r)
    BY <1>1, <1>2, <1>3 DEF BeforeAt
  <2>2. \A j \in 1 .. i - 1 : p[j] = r[j]
    BY <1>1, <1>2, <1>3 DEF BeforeAt
  <2>3. BeforeAt(p, r, i)
    BY <1>1, <2>1, <2>2 DEF BeforeAt
  <2> QED BY <2>3 DEF Before
<1>4. CASE k < i
  <2>1. p[k] = q[k] /\ k <= Len(p) /\ k \in 1 .. Len(r) /\ k <= Len(q)
    BY <1>1, <1>2, <1>4 DEF BeforeAt
  <2>2. \A j \in 1 .. k - 1 : p[j] = r[j]
    BY <1>1, <1>2, <1>4 DEF BeforeAt
  <2>3. BeforeAt(p, r, k)
    BY <1>2, <2>1, <2>2 DEF BeforeAt
  <2> QED BY <2>3 DEF Before
<1>5. CASE i = k
  <2>1. i \in 1 .. Len(r) /\ i \in 1 .. Len(q) /\ i <= Len(p) + 1
    BY <1>1, <1>2, <1>5 DEF BeforeAt
  <2>2. \A j \in 1 .. i - 1 : p[j] = r[j]
    BY <1>1, <1>2, <1>5 DEF BeforeAt
  <2>3. ASSUME i <= Len(p) PROVE compareIdentifiers(p[i], r[i]) < 0
    <3>1. p[i] \in Identifiers /\ q[i] \in Identifiers /\ r[i] \in Identifiers
      BY <2>1, <2>3
    <3>2. compareIdentifiers(p[i], q[i]) < 0 /\ compareIdentifiers(q[i], r[i]) < 0
      BY <1>1, <1>2, <1>5, <2>1, <2>3 DEF BeforeAt
    <3> QED BY <3>1, <3>2, IdentifierTransitive
  <2>4. BeforeAt(p, r, i)
    BY <2>1, <2>2, <2>3 DEF BeforeAt
  <2> QED BY <2>4 DEF Before
<1> QED BY <1>3, <1>4, <1>5

-----------------------------------------------------------------------------
(* Versions.                                                               *)

\* The four parts of the order: the three numbers and what follows them.
PrereleaseOrder(p, q) ==
  IF <<>> \in {p, q} THEN Sign(Len(q), Len(p)) ELSE comparePrereleases(p, q)

\* A release comes after each of its pre-releases, and these are ordered.
LEMMA PrereleaseAntisymmetric ==
  ASSUME NEW p \in Seq(Identifiers), NEW q \in Seq(Identifiers)
  PROVE  /\ PrereleaseOrder(p, q) \in {-1, 0, 1}
         /\ PrereleaseOrder(q, p) = - PrereleaseOrder(p, q)
<1>1. CASE p = <<>> \/ q = <<>>
  <2>1. PrereleaseOrder(p, q) = Sign(Len(q), Len(p)) /\ PrereleaseOrder(q, p) = Sign(Len(p), Len(q))
    BY <1>1 DEF PrereleaseOrder
  <2> QED BY <2>1 DEF Sign
<1>2. CASE p # <<>> /\ q # <<>>
  <2>1. /\ PrereleaseOrder(p, q) = comparePrereleases(p, q)
        /\ PrereleaseOrder(q, p) = comparePrereleases(q, p)
    BY <1>2 DEF PrereleaseOrder
  <2>2. /\ ~ (Before(p, q) /\ Before(q, p))
        /\ Before(p, q) => p # q
        /\ Before(q, p) => p # q
    BY BeforeAsymmetric
  <2> QED BY <2>1, <2>2, PrereleasesDecided
<1> QED BY <1>1, <1>2

\* The order of pre-releases is transitive.
LEMMA PrereleaseTransitive ==
  ASSUME NEW p \in Seq(Identifiers), NEW q \in Seq(Identifiers), NEW r \in Seq(Identifiers),
         PrereleaseOrder(p, q) <= 0, PrereleaseOrder(q, r) <= 0
  PROVE  PrereleaseOrder(p, r) <= 0
<1>1. CASE r = <<>>
  <2>1. PrereleaseOrder(p, r) = Sign(0, Len(p))
    BY <1>1 DEF PrereleaseOrder
  <2> QED BY <2>1 DEF Sign
<1>2. CASE r # <<>>
  <2>1. q # <<>>
    <3>1. ASSUME q = <<>> PROVE FALSE
      <4>1. PrereleaseOrder(q, r) = Sign(Len(r), 0) /\ Len(r) > 0
        BY <1>2, <3>1 DEF PrereleaseOrder
      <4> QED BY <4>1 DEF Sign
    <3> QED BY <3>1
  <2>2. p # <<>>
    <3>1. ASSUME p = <<>> PROVE FALSE
      <4>1. PrereleaseOrder(p, q) = Sign(Len(q), 0) /\ Len(q) > 0
        BY <2>1, <3>1 DEF PrereleaseOrder
      <4> QED BY <4>1 DEF Sign
    <3> QED BY <3>1
  <2>3. /\ PrereleaseOrder(p, q) = comparePrereleases(p, q)
        /\ PrereleaseOrder(q, r) = comparePrereleases(q, r)
        /\ PrereleaseOrder(p, r) = comparePrereleases(p, r)
    BY <1>2, <2>1, <2>2 DEF PrereleaseOrder
  <2>4. (Before(p, q) \/ p = q) /\ (Before(q, r) \/ q = r)
    BY <2>3, PrereleasesDecided
  <2>5. Before(p, r) \/ p = r
    BY <2>4, BeforeTransitive
  <2>6. ~ Before(r, p)
    BY <2>5, BeforeAsymmetric
  <2> QED BY <2>3, <2>6, PrereleasesDecided
<1> QED BY <1>1, <1>2

\* Compare, with what decides it among versions of the same numbers left closed.
LEMMA CompareParts ==
  ASSUME NEW v \in Versions, NEW w \in Versions
  PROVE  Compare(v, w) =
           IF v.major # w.major THEN Sign(v.major, w.major)
           ELSE IF v.minor # w.minor THEN Sign(v.minor, w.minor)
           ELSE IF v.patch # w.patch THEN Sign(v.patch, w.patch)
           ELSE PrereleaseOrder(v.pre, w.pre)
BY DEF Compare, PrereleaseOrder, Versions

\* Two versions compare the same way from either side.
LEMMA CompareAntisymmetric ==
  ASSUME NEW v \in Versions, NEW w \in Versions
  PROVE  /\ Compare(v, w) \in {-1, 0, 1}
         /\ Compare(w, v) = - Compare(v, w)
<1>1. /\ v.major \in Int /\ v.minor \in Int /\ v.patch \in Int /\ v.pre \in Seq(Identifiers)
      /\ w.major \in Int /\ w.minor \in Int /\ w.patch \in Int /\ w.pre \in Seq(Identifiers)
  BY DEF Versions
<1>2. /\ PrereleaseOrder(v.pre, w.pre) \in {-1, 0, 1}
      /\ PrereleaseOrder(w.pre, v.pre) = - PrereleaseOrder(v.pre, w.pre)
  BY <1>1, PrereleaseAntisymmetric
<1> QED BY <1>1, <1>2, CompareParts DEF Sign

\* A version no newer than one that is no newer than a third is no newer than that.
LEMMA CompareTransitive ==
  ASSUME NEW u \in Versions, NEW v \in Versions, NEW w \in Versions,
         Compare(u, v) <= 0, Compare(v, w) <= 0
  PROVE  Compare(u, w) <= 0
<1>1. \A x \in Versions : x.major \in Int /\ x.minor \in Int /\ x.patch \in Int /\ x.pre \in Seq(Identifiers)
  BY DEF Versions
<1>2. /\ PrereleaseOrder(u.pre, v.pre) <= 0 /\ PrereleaseOrder(v.pre, w.pre) <= 0
         => PrereleaseOrder(u.pre, w.pre) <= 0
  BY <1>1, PrereleaseTransitive
<1>3. /\ u.major <= v.major /\ v.major <= w.major
      /\ u.major = v.major => u.minor <= v.minor
      /\ v.major = w.major => v.minor <= w.minor
  BY <1>1, CompareParts DEF Sign
<1>4. /\ u.major = v.major /\ u.minor = v.minor => u.patch <= v.patch
      /\ v.major = w.major /\ v.minor = w.minor => v.patch <= w.patch
  BY <1>1, CompareParts DEF Sign
<1>5. CASE u.major # w.major
  <2>1. Compare(u, w) = Sign(u.major, w.major)
    BY <1>5, CompareParts
  <2> QED BY <1>1, <1>3, <2>1 DEF Sign
<1>6. CASE u.major = w.major /\ u.minor # w.minor
  <2>1. Compare(u, w) = Sign(u.minor, w.minor)
    BY <1>6, CompareParts
  <2>2. u.major = v.major /\ v.major = w.major
    BY <1>1, <1>3, <1>6
  <2> QED BY <1>1, <1>3, <2>1, <2>2 DEF Sign
<1>7. CASE u.major = w.major /\ u.minor = w.minor
  <2>1. u.major = v.major /\ v.major = w.major
    BY <1>1, <1>3, <1>7
  <2>2. u.minor = v.minor /\ v.minor = w.minor
    BY <1>1, <1>3, <1>7, <2>1
  <2>3. CASE u.patch # w.patch
    <3>1. Compare(u, w) = Sign(u.patch, w.patch)
      BY <1>7, <2>3, CompareParts
    <3> QED BY <1>1, <1>4, <2>1, <2>2, <3>1 DEF Sign
  <2>4. CASE u.patch = w.patch
    <3>1. u.patch = v.patch /\ v.patch = w.patch
      BY <1>1, <1>4, <2>1, <2>2, <2>4
    <3>2. /\ Compare(u, v) = PrereleaseOrder(u.pre, v.pre)
          /\ Compare(v, w) = PrereleaseOrder(v.pre, w.pre)
          /\ Compare(u, w) = PrereleaseOrder(u.pre, w.pre)
      BY <2>1, <2>2, <3>1, CompareParts
    <3> QED BY <1>2, <3>2
  <2> QED BY <2>3, <2>4
<1> QED BY <1>5, <1>6, <1>7

-----------------------------------------------------------------------------
(* Verdicts.                                                               *)

\* What a bound does with a version and a later one: one that is below stays
\* above no bound that the later one is below, and so on.
LEMMA BoundsAscend ==
  ASSUME NEW c \in Bounds, NEW v \in Versions, NEW w \in Versions, Compare(v, w) <= 0
  PROVE  /\ Below({c}, w) => Below({c}, v)
         /\ ~ Matches(c, v) /\ ~ Below({c}, v) => ~ Matches(c, w)
         /\ Below({c}, w) => ~ Matches(c, v)
<1> DEFINE atV == Compare(v, c.version)
           atW == Compare(w, c.version)
<1>1. c.version \in Versions /\ c.op \in {"=", ">", ">=", "<", "<="}
  BY DEF Bounds
<1>2. /\ atV \in {-1, 0, 1} /\ Compare(c.version, v) = - atV
      /\ atW \in {-1, 0, 1} /\ Compare(c.version, w) = - atW
  BY <1>1, CompareAntisymmetric
<1>3. atW <= 0 => atV <= 0
  BY <1>1, CompareTransitive
<1>4. atV >= 0 => atW >= 0
  BY <1>1, <1>2, CompareTransitive
<1>5. atW < 0 => atV < 0
  BY <1>2, <1>4
<1>6. atV > 0 => atW > 0
  BY <1>2, <1>3
<1>. HIDE DEF atV, atW
<1>7. /\ c.op = "="  => (Matches(c, v) <=> atV = 0)
      /\ c.op = ">"  => (Matches(c, v) <=> atV > 0)
      /\ c.op = ">=" => (Matches(c, v) <=> atV >= 0)
      /\ c.op = "<"  => (Matches(c, v) <=> atV < 0)
      /\ c.op = "<=" => (Matches(c, v) <=> atV <= 0)
      /\ c.op = "="  => (Matches(c, w) <=> atW = 0)
      /\ c.op = ">"  => (Matches(c, w) <=> atW > 0)
      /\ c.op = ">=" => (Matches(c, w) <=> atW >= 0)
      /\ c.op = "<"  => (Matches(c, w) <=> atW < 0)
      /\ c.op = "<=" => (Matches(c, w) <=> atW <= 0)
  BY DEF Matches, atV, atW
<1>8. /\ Below({c}, v) <=> (c.op \in {">", ">="} /\ ~ Matches(c, v)) \/ (c.op = "=" /\ atV < 0)
      /\ Below({c}, w) <=> (c.op \in {">", ">="} /\ ~ Matches(c, w)) \/ (c.op = "=" /\ atW < 0)
  BY DEF Below, atV, atW
<1>9. c.op \in {"=", ">", ">="} => ((Below({c}, w) => Below({c}, v)) /\ (Below({c}, w) => ~ Matches(c, v)))
  BY <1>2, <1>3, <1>4, <1>5, <1>6, <1>7, <1>8
<1>10. c.op \in {"=", ">", ">="} => (~ Matches(c, v) /\ ~ Below({c}, v) => ~ Matches(c, w))
  BY <1>2, <1>3, <1>4, <1>5, <1>6, <1>7, <1>8
<1>11. CASE c.op \in {"<", "<="}
  BY <1>2, <1>3, <1>4, <1>5, <1>6, <1>7, <1>8, <1>11
<1> QED BY <1>1, <1>9, <1>10, <1>11

\* A version is never judged older than an earlier one: Evaluate in range.go, for
\* every set of constraints that has no "!=" in it, consistent or not.
THEOREM VerdictNeverGoesBack ==
  ASSUME NEW cs \in SUBSET Bounds, NEW v \in Versions, NEW w \in Versions, Compare(v, w) <= 0
  PROVE  Place(Evaluate(cs, v)) <= Place(Evaluate(cs, w))
<1>1. \A x : Below(cs, x) <=> \E c \in cs : Below({c}, x)
  BY DEF Below
<1>2. Below(cs, w) => Below(cs, v) /\ ~ Contains(cs, v)
  BY <1>1, BoundsAscend DEF Contains
<1>3. ~ Contains(cs, v) /\ ~ Below(cs, v) => ~ Contains(cs, w)
  BY <1>1, BoundsAscend DEF Contains
<1>4. /\ Evaluate(cs, v) = IF Contains(cs, v) THEN "in_range"
                           ELSE IF Below(cs, v) THEN "older_than_floor" ELSE "newer_than_verified"
      /\ Evaluate(cs, w) = IF Contains(cs, w) THEN "in_range"
                           ELSE IF Below(cs, w) THEN "older_than_floor" ELSE "newer_than_verified"
  BY DEF Evaluate
<1> QED BY <1>2, <1>3, <1>4 DEF Place

-----------------------------------------------------------------------------
(* The runs.                                                               *)

Places   == {"idle", "installing", "probing", "found", "commented"}
Starters == {"nobody", "schedule", "hand"}

\* What a run is, the issue it found aside.
RunType(x) ==
  x \in [at : Places, by : Starters, mock : BOOLEAN, cli : [Vendors -> Nat],
         probed : 0 .. Len(Providers), drift : BOOLEAN, found : {x.found}]

\* The CLI has been left out or passes the probes.
Cleared(x, v) == x.cli[v] = 0 \/ Passes(v, Releases[v][x.cli[v]])

\* What a run has found out so far is true of every CLI it has probed.
RunOK(x) ==
  /\ RunType(x)
  /\ \A v \in Vendors : x.cli[v] \in {0} \cup DOMAIN Releases[v]
  /\ ~ x.drift => \A i \in 1 .. x.probed : Cleared(x, Providers[i])
  /\ x.at = "installing" => x.probed = 0
  /\ x.at \in {"found", "commented"} => x.probed = Len(Providers)
  /\ x.at = "commented" => ~ x.drift

CanaryInv ==
  /\ published \in [Vendors -> Nat]
  /\ \A v \in Vendors : published[v] \in DOMAIN Releases[v]
  /\ DOMAIN run = Refs
  /\ \A r \in Refs : RunOK(run[r])

\* The list of providers names the CLIs there are.
LEMMA ProvidersAreVendors ==
  /\ Len(Providers) \in Nat /\ DOMAIN Providers = 1 .. Len(Providers)
  /\ \A i \in 1 .. Len(Providers) : Providers[i] \in Vendors
  /\ \A v \in Vendors : \E i \in 1 .. Len(Providers) : v = Providers[i]
BY CanaryAssumption DEF Vendors

\* A run that has just been started has found out nothing.
LEMMA StartedOK ==
  ASSUME NEW by \in Starters, NEW mock \in BOOLEAN
  PROVE  RunOK(Started(by, mock))
<1>1. [v \in Vendors |-> 0] \in [Vendors -> Nat]
  OBVIOUS
<1>2. /\ RunType(Started(by, mock)) /\ Started(by, mock).probed = 0
      /\ Started(by, mock).at = "installing" /\ Started(by, mock).cli = [v \in Vendors |-> 0]
  BY <1>1, ProvidersAreVendors DEF Started, RunType, Places, NoIssue
<1> QED BY <1>2 DEF RunOK

\* Nor has one that has ended.
LEMMA IdleOK == RunOK(Idle)
<1> DEFINE x == Started("nobody", FALSE)
<1>1. RunOK(x)
  BY StartedOK DEF Starters
<1>2. x.probed = 0
  BY DEF Started
<1>3. Idle = [x EXCEPT !.at = "idle"]
  BY DEF Idle
<1>. HIDE DEF x
<1>4. RunType(Idle) /\ Idle.probed = 0 /\ Idle.at = "idle" /\ Idle.cli = x.cli
  BY <1>1, <1>2, <1>3 DEF RunOK, RunType, Places
<1> QED BY <1>1, <1>4 DEF RunOK

\* What a run becomes of one step leaves all others as they are.
LEMMA OtherRuns ==
  ASSUME CanaryInv, NEW r \in Refs, NEW x, RunOK(x), run' = [run EXCEPT ![r] = x],
         UNCHANGED published
  PROVE  CanaryInv'
BY DEF CanaryInv, RunOK, RunType, Cleared

\* A run that ends leaves the others as they were.
LEMMA EndedRun ==
  ASSUME CanaryInv, NEW r \in Refs, Ends(r), UNCHANGED published
  PROVE  CanaryInv'
<1>1. RunOK(Idle)
  BY IdleOK
<1> QED BY <1>1, OtherRuns DEF Ends

\* A probe keeps what is known if it reports what it has found.
LEMMA ProbedRun ==
  ASSUME CanaryInv, NEW r \in Refs, NEW drifted \in BOOLEAN, Probing(r), Probed(r, drifted),
         ~ drifted => Cleared(run[r], At(r))
  PROVE  CanaryInv'
<1> DEFINE x == [run[r] EXCEPT !.probed = @ + 1, !.drift = Tally(@, drifted)]
<1>1. RunOK(run[r]) /\ RunType(run[r])
  BY DEF CanaryInv, RunOK
<1>2. run[r].probed \in Nat /\ run[r].probed + 1 \in 0 .. Len(Providers) /\ run[r].at = "probing"
  BY <1>1, ProvidersAreVendors DEF Probing, RunType
<1>3. /\ RunType(x) /\ x.probed = run[r].probed + 1 /\ x.cli = run[r].cli
      /\ x.drift = (run[r].drift \/ drifted) /\ x.at = "probing"
  BY <1>1, <1>2 DEF RunType, Tally
<1>. HIDE DEF x
<1>4. ASSUME ~ x.drift, NEW i \in 1 .. x.probed PROVE Cleared(x, Providers[i])
  <2>1. ~ run[r].drift /\ ~ drifted
    BY <1>3, <1>4
  <2>2. CASE i = x.probed
    BY <1>3, <2>1, <2>2 DEF Cleared, At
  <2>3. CASE i # x.probed
    <3>1. i \in 1 .. run[r].probed
      BY <1>2, <1>3, <2>3
    <3> QED BY <1>1, <1>3, <2>1, <3>1 DEF RunOK, Cleared
  <2> QED BY <2>2, <2>3
<1>5. RunOK(x)
  BY <1>1, <1>3, <1>4 DEF RunOK
<1>6. run' = [run EXCEPT ![r] = x]
  BY DEF Probed, x
<1>7. UNCHANGED published
  BY DEF Probed, CanaryInv
<1> QED BY <1>5, <1>6, <1>7, OtherRuns

-----------------------------------------------------------------------------
(* The invariant.                                                          *)

\* No run has begun at first.
LEMMA CanaryInit == Init => CanaryInv
<1> SUFFICES ASSUME Init PROVE CanaryInv
  OBVIOUS
<1>1. RunOK(Idle)
  BY IdleOK
<1>2. \A v \in Vendors : 1 \in DOMAIN Releases[v]
  BY CanaryAssumption
<1> QED BY <1>1, <1>2 DEF Init, CanaryInv

\* An install picks what is published, or nothing.
LEMMA InstallKeeps ==
  ASSUME CanaryInv, NEW r \in Refs, Install(r)
  PROVE  CanaryInv'
<1>1. PICK failed \in SUBSET Vendors :
        run' = [run EXCEPT ![r].at = "probing",
                           ![r].cli = [v \in Vendors |-> IF v \in failed THEN 0 ELSE published[v]]]
  BY DEF Install
<1> DEFINE x == [run[r] EXCEPT !.at = "probing",
                               !.cli = [v \in Vendors |-> IF v \in failed THEN 0 ELSE published[v]]]
<1>2. RunType(x) /\ x.at = "probing" /\ x.drift = run[r].drift
      /\ x.probed = 0 /\ x.cli = [v \in Vendors |-> IF v \in failed THEN 0 ELSE published[v]]
  BY DEF CanaryInv, RunOK, RunType, Places, Install
<1>. HIDE DEF x
<1>3. RunOK(x)
  BY <1>2 DEF RunOK, CanaryInv
<1>4. run' = [run EXCEPT ![r] = x]
  BY <1>1 DEF x, CanaryInv, RunOK, RunType
<1> QED BY <1>3, <1>4, OtherRuns DEF Install, CanaryInv

\* An issue is looked for when all have been probed.
LEMMA FindKeeps ==
  ASSUME CanaryInv, NEW r \in Refs, Find(r)
  PROVE  CanaryInv'
<1>1. PICK n : run' = [run EXCEPT ![r].at = "found", ![r].found = n]
  <2>1. CASE run' = [run EXCEPT ![r].at = "found"]
    <3>1. run' = [run EXCEPT ![r].at = "found", ![r].found = run[r].found]
      BY <2>1 DEF RunType, CanaryInv, RunOK
    <3> QED BY <3>1
  <2> QED BY <2>1 DEF Find
<1> DEFINE x == [run[r] EXCEPT !.at = "found", !.found = n]
<1>2. /\ RunType(x) /\ x.at = "found" /\ x.drift = run[r].drift
      /\ x.probed = Len(Providers) /\ run[r].probed = Len(Providers) /\ x.cli = run[r].cli
  BY DEF CanaryInv, RunOK, RunType, Places, Find
<1>3. run' = [run EXCEPT ![r] = x]
  BY <1>1 DEF CanaryInv, RunOK, RunType
<1>. HIDE DEF x
<1>4. RunOK(x)
  BY <1>2 DEF RunOK, CanaryInv, Cleared
<1> QED BY <1>3, <1>4, OtherRuns DEF Find, CanaryInv

\* Only a run without drift says so.
LEMMA CommentKeeps ==
  ASSUME CanaryInv, NEW r \in Refs, CommentIssue(r)
  PROVE  CanaryInv'
<1> DEFINE x == [run[r] EXCEPT !.at = "commented"]
<1>1. /\ RunType(x) /\ x.at = "commented" /\ x.drift = run[r].drift /\ ~ run[r].drift
      /\ x.probed = Len(Providers) /\ run[r].probed = Len(Providers) /\ x.cli = run[r].cli
  BY DEF CanaryInv, RunOK, RunType, Places, CommentIssue
<1>2. run' = [run EXCEPT ![r] = x]
  BY DEF CanaryInv, RunOK, RunType, CommentIssue
<1>. HIDE DEF x
<1>3. RunOK(x)
  BY <1>1 DEF RunOK, CanaryInv, Cleared
<1> QED BY <1>2, <1>3, OtherRuns DEF CommentIssue, CanaryInv

\* Every step keeps what the runs have found out true.
LEMMA CanaryStep == CanaryInv /\ [Next]_vars => CanaryInv'
<1> SUFFICES ASSUME CanaryInv, [Next]_vars PROVE CanaryInv'
  OBVIOUS
<1>1. ASSUME NEW r \in Refs, Install(r) PROVE CanaryInv'
  BY <1>1, InstallKeeps
<1>2. ASSUME NEW r \in Refs, Probe(r) PROVE CanaryInv'
  <2> DEFINE n == run[r].cli[At(r)]
             drifted == run[r].mock \/ (n # 0 /\ ~ Passes(At(r), Releases[At(r)][n]))
  <2>1. Probing(r) /\ Probed(r, drifted)
    BY <1>2 DEF Probe
  <2>2. ~ drifted => Cleared(run[r], At(r))
    BY DEF Cleared
  <2>3. drifted \in BOOLEAN
    BY DEF CanaryInv, RunOK, RunType
  <2> HIDE DEF drifted
  <2> QED BY <2>1, <2>2, <2>3, ProbedRun
<1>3. ASSUME NEW r \in Refs, ProbeFails(r) PROVE CanaryInv'
  BY <1>3, ProbedRun DEF ProbeFails
<1>4. ASSUME NEW r \in Refs, Find(r) PROVE CanaryInv'
  BY <1>4, FindKeeps
<1>5. ASSUME NEW r \in Refs, CommentIssue(r) PROVE CanaryInv'
  BY <1>5, CommentKeeps
<1>6. ASSUME NEW r \in Refs, EditIssue(r) \/ NothingToDo(r) \/ ProbePanics(r) \/ GhFails(r)
      PROVE  CanaryInv'
  BY <1>6, EndedRun DEF EditIssue, NothingToDo, ProbePanics, GhFails
<1>7. ASSUME NEW r \in Refs, CreateIssue(r) \/ CloseIssue(r) PROVE CanaryInv'
  BY <1>7, EndedRun DEF CreateIssue, CloseIssue
<1>8. CASE Daily
  <2>1. RunOK(Started("schedule", FALSE))
    BY StartedOK DEF Starters
  <2>2. Default \in Refs /\ run' = [run EXCEPT ![Default] = Started("schedule", FALSE)]
    BY <1>8, CanaryAssumption DEF Daily
  <2>3. UNCHANGED published
    BY <1>8 DEF Daily, CanaryInv
  <2> QED BY <2>1, <2>2, <2>3, OtherRuns
<1>9. ASSUME NEW r \in Refs, Dispatch(r) PROVE CanaryInv'
  <2>1. PICK mock \in BOOLEAN : run' = [run EXCEPT ![r] = Started("hand", mock)]
    BY <1>9 DEF Dispatch
  <2>2. RunOK(Started("hand", mock))
    BY StartedOK DEF Starters
  <2>3. UNCHANGED published
    BY <1>9 DEF Dispatch, CanaryInv
  <2> QED BY <2>1, <2>2, <2>3, OtherRuns
<1>10. ASSUME NEW v \in Vendors, Publish(v) PROVE CanaryInv'
  <2>1. published[v] + 1 \in DOMAIN Releases[v]
    BY <1>10, CanaryAssumption DEF Publish, CanaryInv
  <2>2. /\ published' \in [Vendors -> Nat]
        /\ \A u \in Vendors : published'[u] \in DOMAIN Releases[u]
    BY <1>10, <2>1 DEF Publish, CanaryInv
  <2> QED BY <1>10, <2>2 DEF Publish, CanaryInv, RunOK, RunType, Cleared
<1>11. CASE MaintainerCloses
  BY <1>11 DEF MaintainerCloses, CanaryInv, RunOK, RunType, Cleared
<1>12. CASE UNCHANGED vars
  BY <1>12 DEF vars, CanaryInv, RunOK, RunType, Cleared
<1> QED BY <1>1, <1>2, <1>3, <1>4, <1>5, <1>6, <1>7, <1>8, <1>9, <1>10, <1>11, <1>12 DEF Next, Manage

-----------------------------------------------------------------------------
(* The all clear.                                                          *)

\* If the probes tell sound releases, the issue is closed, or nothing reported, on
\* sound machines only: whichever runs were cancelled, simulated or overlapped, and
\* whatever failed (the tally of canary.go and the issue step of the workflow).
THEOREM AllClear ==
  ASSUME ProbesTell
  PROVE  Spec => AllClearIsEarned
<1> DEFINE Earned(r) == CloseIssue(r) \/ NothingToDo(r) =>
                          \A v \in Vendors : run[r].cli[v] \in Sound[v] \cup {0}
<1>1. ASSUME CanaryInv, NEW r \in Refs PROVE Earned(r)
  <2>1. SUFFICES ASSUME CloseIssue(r) \/ NothingToDo(r), NEW v \in Vendors
                 PROVE  run[r].cli[v] \in Sound[v] \cup {0}
    OBVIOUS
  <2>2. RunOK(run[r])
    BY <1>1 DEF CanaryInv
  <2>3. ~ run[r].drift /\ run[r].probed = Len(Providers)
    BY <2>1, <2>2 DEF CloseIssue, NothingToDo, RunOK
  <2>4. Cleared(run[r], v)
    BY <2>2, <2>3, ProvidersAreVendors DEF RunOK
  <2>5. run[r].cli[v] \in {0} \cup DOMAIN Releases[v]
    BY <2>2 DEF RunOK
  <2> QED BY <2>4, <2>5 DEF Cleared, ProbesTell
<1>2. CanaryInv => \A r \in Refs : Earned(r)
  BY <1>1
<1>3. CanaryInv => [\A r \in Refs : Earned(r)]_vars
  BY <1>2
<1> QED BY <1>3, CanaryInit, CanaryStep, PTL DEF Spec, AllClearIsEarned

-----------------------------------------------------------------------------
(* The verdicts.                                                           *)

\* Any three numbers make a version.
LEMMA VersionMade ==
  ASSUME NEW m \in Int, NEW n \in Int, NEW k \in Int
  PROVE  Version(m, n, k, <<>>) \in Versions
<1>1. <<>> \in Seq(Identifiers)
  OBVIOUS
<1> QED BY <1>1 DEF Version, Versions

\* The parts of a token, and the versions made of them.
LEMMA TokenParts ==
  ASSUME NEW tok \in PlainTokens
  PROVE  /\ tok.op \in {"", "=", "^", "~", ">", ">=", "<", "<="} /\ tok.x \in BOOLEAN
         /\ parseWildcardLower(tok) \in Versions
         /\ parseWildcardUpper(tok) \in Versions
         /\ Parse(tok) \in Versions
<1>1. Any \in Int /\ Missing \in Int /\ Parts \subseteq Int
  BY DEF Parts, Any, Missing
<1>2. /\ tok.major \in Int /\ tok.minor \in Int /\ tok.patch \in Int /\ tok.pre \in Seq(Identifiers)
      /\ tok.op \in {"", "=", "^", "~", ">", ">=", "<", "<="} /\ tok.x \in BOOLEAN
  BY <1>1 DEF PlainTokens
<1>3. \A m, n, k \in Int, pre \in Seq(Identifiers) :
        Version(m, n, k, pre) \in Versions
  BY DEF Version, Versions
<1>4. \A m, n, k \in Int : Version(m, n, k, <<>>) \in Versions
  BY VersionMade
<1>5. /\ OrZero(tok.major) \in Int /\ OrZero(tok.minor) \in Int /\ OrZero(tok.patch) \in Int
      /\ tok.major + 1 \in Int /\ tok.minor + 1 \in Int /\ 0 \in Int
  <2>1. \A p \in Int : OrZero(p) \in Int /\ p + 1 \in Int
    BY DEF OrZero
  <2>2. 0 \in Int
    OBVIOUS
  <2> QED BY <1>2, <2>1, <2>2, Zenon
<1>6. parseWildcardLower(tok) \in Versions
  BY <1>4, <1>5 DEF parseWildcardLower
<1>7. parseWildcardUpper(tok) \in Versions
  <2>1. parseWildcardUpper(tok) = IF tok.major = Any THEN Version(0, 0, 0, <<>>)
                                  ELSE IF IsWildcard(tok.minor) THEN Version(tok.major + 1, 0, 0, <<>>)
                                  ELSE IF IsWildcard(tok.patch) THEN Version(tok.major, tok.minor + 1, 0, <<>>)
                                  ELSE Version(tok.major, tok.minor, tok.patch, <<>>)
    BY DEF parseWildcardUpper
  <2> QED BY <1>2, <1>4, <1>5, <2>1, Zenon
<1>8. Parse(tok) \in Versions
  BY <1>2, <1>3, <1>5 DEF Parse
<1> QED BY <1>2, <1>6, <1>7, <1>8

\* The constraints a token without "!=" stands for have no "!=" either.
LEMMA TokenBounds ==
  ASSUME NEW tok \in PlainTokens
  PROVE  parseTokenConstraints(tok) \subseteq Bounds
<1>. DEFINE v == Parse(tok)
<1>1. /\ v \in Versions /\ tok.op \in {"", "=", "^", "~", ">", ">=", "<", "<="}
      /\ parseWildcardLower(tok) \in Versions /\ parseWildcardUpper(tok) \in Versions
  BY TokenParts
<1>2. v.major \in Int /\ v.minor \in Int /\ v.patch \in Int
  BY <1>1 DEF Versions
<1>. HIDE DEF v
<1>3. caretUpper(v) \in Versions
  <2>1. caretUpper(v) = IF v.major > 0 THEN Version(v.major + 1, 0, 0, <<>>)
                        ELSE IF v.major = 0 /\ v.minor > 0 THEN Version(0, v.minor + 1, 0, <<>>)
                        ELSE Version(0, 0, v.patch + 1, <<>>)
    BY DEF caretUpper
  <2> QED BY <1>2, <2>1, VersionMade
<1>4. Version(v.major, v.minor + 1, 0, <<>>) \in Versions
  BY <1>2, VersionMade
<1>. DEFINE lower == Constraint(">=", parseWildcardLower(tok))
            upper == Constraint("<", parseWildcardUpper(tok))
<1>5. \A u \in Versions, op \in {"=", ">", ">=", "<", "<="} : Constraint(op, u) \in Bounds
  BY DEF Constraint, Bounds
<1>6. /\ lower \in Bounds /\ upper \in Bounds
      /\ [upper EXCEPT !.op = ">="] \in Bounds /\ [lower EXCEPT !.op = "<"] \in Bounds
  BY <1>1 DEF Constraint, Bounds
<1>7. Constraint(">=", v) \in Bounds /\ Constraint("<", caretUpper(v)) \in Bounds
  BY <1>1, <1>3, <1>5
<1>8. Constraint("<", Version(v.major, v.minor + 1, 0, <<>>)) \in Bounds
  BY <1>4, <1>5
<1>9. tok.op \in {"=", ">", ">=", "<", "<="} => Constraint(tok.op, v) \in Bounds
  BY <1>1, <1>5
<1>10. Constraint("=", v) \in Bounds
  BY <1>1, <1>5
<1>11. \/ parseTokenConstraints(tok) \in
            {{Constraint(">=", v), Constraint("<", caretUpper(v))},
             {Constraint(">=", v), Constraint("<", Version(v.major, v.minor + 1, 0, <<>>))},
             {lower}, {[upper EXCEPT !.op = ">="]}, {upper}, {[lower EXCEPT !.op = "<"]},
             {lower, upper}, {Constraint("=", v)}}
       \/ tok.op \in {"=", ">", ">=", "<", "<="} /\ parseTokenConstraints(tok) = {Constraint(tok.op, v)}
  BY <1>1 DEF parseTokenConstraints, v
<1>. HIDE DEF lower, upper
<1> QED BY <1>6, <1>7, <1>8, <1>9, <1>10, <1>11

\* Nor does a range, which is hyphenated or a list of tokens.
LEMMA RangeBounds ==
  ASSUME NEW range, PlainRange(range)
  PROVE  ParseRange(range) \subseteq Bounds
<1>1. range.tokens \in Seq(PlainTokens)
  BY DEF PlainRange
<1>2. CASE range.hyphen
  <2> DEFINE from == range.tokens[1]
             to   == range.tokens[2]
  <2>1. from \in PlainTokens /\ to \in PlainTokens
    BY <1>1, <1>2 DEF PlainRange
  <2> HIDE DEF from, to
  <2>2. parseWildcardLower(from) \in Versions /\ parseWildcardUpper(to) \in Versions
    BY <2>1, TokenParts
  <2>3. parseHyphenRange(from, to) \subseteq Bounds
    BY <2>2 DEF parseHyphenRange, Constraint, Bounds
  <2> QED BY <1>2, <2>3 DEF ParseRange, from, to
<1>3. CASE ~ range.hyphen
  <2>1. \A i \in DOMAIN range.tokens : range.tokens[i] \in PlainTokens
    BY <1>1
  <2>2. \A i \in DOMAIN range.tokens : parseTokenConstraints(range.tokens[i]) \subseteq Bounds
    BY <2>1, TokenBounds
  <2> QED BY <1>3, <2>2 DEF ParseRange
<1> QED BY <1>2, <1>3

\* The verdict on a CLI, Check in version.go, ascends from release to release, for
\* every range that parses and has no "!=" in it.
THEOREM Ascend ==
  ASSUME ReleasesAscend, \A range \in Ranges : PlainRange(range)
  PROVE  Spec => VerdictsAscend
<1> DEFINE Ascends(v) == published'[v] # published[v] =>
             \A old \in Extract(Printed(Releases[v][published[v]])),
                new \in Extract(Printed(Releases[v][published'[v]])) :
               \A range \in Ranges : Place(Check(range, old)) <= Place(Check(range, new))
<1>1. ASSUME CanaryInv, [Next]_vars, NEW v \in Vendors, published'[v] # published[v]
      PROVE  published'[v] = published[v] + 1 /\ published[v] + 1 \in DOMAIN Releases[v]
  <2>1. PICK u \in Vendors : Publish(u)
    BY <1>1 DEF Next, vars, Install, Probe, ProbeFails, ProbePanics, GhFails, Manage, Find, EditIssue,
                CreateIssue, NothingToDo, CommentIssue, CloseIssue, Dispatch, Daily, MaintainerCloses, Probed
  <2>2. u = v
    BY <1>1, <2>1 DEF Publish, CanaryInv
  <2> QED BY <1>1, <2>1, <2>2, CanaryAssumption DEF Publish, CanaryInv
<1>2. ASSUME NEW old \in Versions, NEW new \in Versions, Compare(old, new) <= 0, NEW range \in Ranges
      PROVE  Place(Check(range, old)) <= Place(Check(range, new))
  <2>1. CASE range.tokens = <<>>
    BY <2>1 DEF Check, Place
  <2>2. CASE range.tokens # <<>>
    <3>1. PlainRange(range)
      OBVIOUS
    <3>2. ParseRange(range) \subseteq Bounds
      BY <3>1, RangeBounds
    <3>3. Place(Evaluate(ParseRange(range), old)) <= Place(Evaluate(ParseRange(range), new))
      BY <1>2, <3>2, VerdictNeverGoesBack
    <3> QED BY <2>2, <3>1, <3>3 DEF Check, PlainRange
  <2> QED BY <2>1, <2>2
<1>3. ASSUME CanaryInv, [Next]_vars, NEW v \in Vendors PROVE Ascends(v)
  <2> SUFFICES ASSUME published'[v] # published[v],
                      NEW old \in Extract(Printed(Releases[v][published[v]])),
                      NEW new \in Extract(Printed(Releases[v][published'[v]])),
                      NEW range \in Ranges
               PROVE  Place(Check(range, old)) <= Place(Check(range, new))
    OBVIOUS
  <2>1. published'[v] = published[v] + 1 /\ published[v] + 1 \in DOMAIN Releases[v]
    BY <1>1, <1>3
  <2>2. published[v] \in DOMAIN Releases[v]
    BY <1>3 DEF CanaryInv
  <2>3. old \in Versions /\ new \in Versions /\ Compare(old, new) <= 0
    BY <2>1, <2>2 DEF ReleasesAscend
  <2> QED BY <1>2, <2>3
<1>4. CanaryInv /\ [Next]_vars => [\A v \in Vendors : Ascends(v)]_vars
  BY <1>3
<1> QED BY <1>4, CanaryInit, CanaryStep, PTL DEF Spec, VerdictsAscend
=============================================================================

------------------------ MODULE ExplainTrust_proofs ------------------------
(***************************************************************************)
(* Theorems about explain_trust, for any evidence and any number of        *)
(* sources, submissions, ticks and explanations: whatever it reads between *)
(* the steps of submissions, the start of the window, the difference and   *)
(* the contributions that it reports fit together.                         *)
(***************************************************************************)
EXTENDS ExplainTrust, TLAPS, FiniteSetTheorems, SequenceTheorems

-----------------------------------------------------------------------------
(* Sums, counted unit by unit. *)

(* f[x] units for each x of S. *)
Units(S, f) == UNION {{x} \X (1..f[x]) : x \in S}

LEMMA UnitsAreFinite ==
    ASSUME NEW S, IsFiniteSet(S), NEW f, \A x \in S : f[x] \in Nat
    PROVE  IsFiniteSet(Units(S, f)) /\ Cardinality(Units(S, f)) \in Nat
PROOF
<1>. DEFINE rows == {{x} \X (1..f[x]) : x \in S}
            row == [x \in S |-> {x} \X (1..f[x])]
<1>1. IsFiniteSet(rows)
  <2>1. row \in Surjection(S, rows)
    BY DEF Surjection
  <2>. QED  BY <2>1, FS_Surjection
<1>2. ASSUME NEW R \in rows PROVE IsFiniteSet(R)
  <2>1. PICK x \in S : R = {x} \X (1..f[x]) /\ f[x] \in Nat
    OBVIOUS
  <2>2. f[x] \in Int /\ 1 \in Int
    BY <2>1
  <2>3. IsFiniteSet({x}) /\ IsFiniteSet(1..f[x])
    BY <2>2, FS_Singleton, FS_Interval
  <2>. QED  BY <2>1, <2>3, FS_Product
<1>3. IsFiniteSet(UNION rows)
  BY <1>1, <1>2, FS_UNION
<1>. QED  BY <1>3, FS_CardinalityType DEF Units

(* Separate sets have separate units. *)
LEMMA UnitsSplit ==
    ASSUME NEW S, IsFiniteSet(S), NEW T, IsFiniteSet(T), S \cap T = {},
           NEW f, \A x \in S \cup T : f[x] \in Nat
    PROVE  Cardinality(Units(S \cup T, f)) = Cardinality(Units(S, f)) + Cardinality(Units(T, f))
PROOF
<1>1. Units(S \cup T, f) = Units(S, f) \cup Units(T, f)
  BY DEF Units
<1>2. Units(S, f) \cap Units(T, f) = {}
  BY DEF Units
<1>3. /\ IsFiniteSet(Units(S, f)) /\ Cardinality(Units(S, f)) \in Nat
      /\ IsFiniteSet(Units(T, f)) /\ Cardinality(Units(T, f)) \in Nat
  <2>1. (\A x \in S : f[x] \in Nat) /\ (\A x \in T : f[x] \in Nat)
    OBVIOUS
  <2>2. IsFiniteSet(Units(S, f)) /\ Cardinality(Units(S, f)) \in Nat
    BY <2>1, UnitsAreFinite
  <2>3. IsFiniteSet(Units(T, f)) /\ Cardinality(Units(T, f)) \in Nat
    BY <2>1, UnitsAreFinite
  <2>. QED  BY <2>2, <2>3
<1>4. Cardinality(Units(S, f) \cup Units(T, f))
        = Cardinality(Units(S, f)) + Cardinality(Units(T, f))
            - Cardinality(Units(S, f) \cap Units(T, f))
  BY <1>3, FS_Union
<1>5. Cardinality({}) = 0
  BY FS_EmptySet
<1>6. \A x, y \in Nat : x + y - 0 = x + y
  OBVIOUS
<1>. QED  BY <1>1, <1>2, <1>3, <1>4, <1>5, <1>6, Zenon

(* The sum of the sizes of the parts is the size of the whole. *)
LEMMA PartsAddUp ==
    ASSUME NEW S, IsFiniteSet(S), NEW D, NEW class, \A x \in S : class[x] \in D,
           NEW n, DOMAIN n = D, \A d \in D : n[d] = Cardinality({x \in S : class[x] = d})
    PROVE  Total(n) = Cardinality(S)
PROOF
<1>. DEFINE part(d) == {x \in S : class[x] = d}
            list(d) == CHOOSE h : h \in Bijection(1..n[d], part(d))
            U == Units(D, n)
            F == [p \in U |-> list(p[1])[p[2]]]
<1>1. ASSUME NEW d \in D
      PROVE  list(d) \in Bijection(1..n[d], part(d))
  <2>1. IsFiniteSet(part(d))
    BY FS_Subset
  <2>2. ExistsBijection(1..n[d], part(d))
    BY <2>1, FS_CardinalityType
  <2>. QED  BY <2>2 DEF ExistsBijection
<1>2. ASSUME NEW d \in D
      PROVE  /\ list(d) \in [1..n[d] -> part(d)]
             /\ \A i, j \in 1..n[d] : list(d)[i] = list(d)[j] => i = j
             /\ \A x \in part(d) : \E i \in 1..n[d] : list(d)[i] = x
  BY <1>1 DEF Bijection, Injection, Surjection, IsInjective
<1>3. ASSUME NEW p \in U
      PROVE  p[1] \in D /\ p[2] \in 1..n[p[1]] /\ p = <<p[1], p[2]>>
  BY DEF Units
<1>4. ASSUME NEW d \in D, NEW i \in 1..n[d]
      PROVE  <<d, i>> \in U
  BY DEF Units
<1>. HIDE DEF U, list
<1>5. ASSUME NEW p \in U
      PROVE  F[p] \in S /\ class[F[p]] = p[1]
  <2>1. p[1] \in D /\ p[2] \in 1..n[p[1]] /\ F[p] = list(p[1])[p[2]]
    BY <1>3
  <2>2. list(p[1]) \in [1..n[p[1]] -> part(p[1])]
    BY <1>2, <2>1
  <2>. HIDE DEF F, part
  <2>3. F[p] \in part(p[1])
    BY <2>1, <2>2
  <2>. QED  BY <2>3 DEF part
<1>6. F \in [U -> S]
  BY <1>5
<1>7. ASSUME NEW p \in U, NEW q \in U, F[p] = F[q]
      PROVE  p = q
  <2>1. p[1] = q[1]
    BY <1>5, <1>7
  <2>2. p[2] = q[2]
    BY <1>2, <1>3, <1>7, <2>1
  <2>. QED  BY <1>3, <2>1, <2>2
<1>8. ASSUME NEW x \in S
      PROVE  \E p \in U : F[p] = x
  <2>1. class[x] \in D /\ x \in part(class[x])
    OBVIOUS
  <2>2. PICK i \in 1..n[class[x]] : list(class[x])[i] = x
    BY <1>2, <2>1
  <2>3. <<class[x], i>> \in U /\ F[<<class[x], i>>] = x
    BY <1>4, <2>1, <2>2
  <2>. QED  BY <2>3
<1>. HIDE DEF F
<1>9. F \in Injection(U, S) /\ F \in Surjection(U, S)
  BY <1>6, <1>7, <1>8 DEF Injection, Surjection, IsInjective
<1>10. Cardinality(U) = Cardinality(S)
  BY <1>9, FS_Injection
<1>. QED  BY <1>10 DEF Total, Units, U

-----------------------------------------------------------------------------
(* Sums over entries. *)

Submissions == {"evidence", "discounted_opinion"}

Kinds == {"positive", "negative"}

Entries ==
    [id: Nat, type: Submissions \cup {"admin"}, source: Sources \cup {Discounter, Operator},
     evidence: [positive: Nat, negative: Nat], at: Nat]

Amounts(es, S, kind) == [i \in S |-> es[i].evidence[kind]]

(* What the entries i of es with i in S say. *)
Sum(es, S, kind) == Total(Amounts(es, S, kind))

Sums(es, S) == [positive |-> Sum(es, S, "positive"), negative |-> Sum(es, S, "negative")]

LEMMA SumIsUnits ==
    ASSUME NEW es, NEW S, NEW R \in SUBSET S, NEW kind
    PROVE  Sum(es, R, kind) = Cardinality(Units(R, Amounts(es, S, kind)))
PROOF
<1>. DEFINE f == Amounts(es, R, kind)
            g == Amounts(es, S, kind)
<1>1. DOMAIN f = R /\ \A i \in R : f[i] = g[i]
  BY DEF Amounts
<1>. HIDE DEF f, g
<1>2. {{x} \X (1..f[x]) : x \in R} = {{x} \X (1..g[x]) : x \in R}
  BY <1>1
<1>3. Total(f) = Cardinality(UNION {{x} \X (1..f[x]) : x \in R})
  BY <1>1 DEF Total
<1>. QED  BY <1>2, <1>3 DEF Sum, Units, f, g

LEMMA AmountsAreNat ==
    ASSUME NEW es \in Seq(Entries), NEW S \in SUBSET DOMAIN es, NEW kind \in Kinds
    PROVE  /\ IsFiniteSet(S)
           /\ \A i \in S : es[i].evidence[kind] \in Nat /\ Amounts(es, S, kind)[i] \in Nat
PROOF
<1>1. DOMAIN es = 1..Len(es) /\ Len(es) \in Nat
  OBVIOUS
<1>2. IsFiniteSet(1..Len(es))
  BY <1>1, FS_Interval
<1>3. \A i \in S : es[i].evidence \in [positive: Nat, negative: Nat]
  <2>1. \A i \in S : es[i] \in Entries
    OBVIOUS
  <2>. QED  BY <2>1 DEF Entries
<1>. QED  BY <1>1, <1>2, <1>3, FS_Subset DEF Amounts, Kinds

LEMMA SumIsNat ==
    ASSUME NEW es \in Seq(Entries), NEW S \in SUBSET DOMAIN es, NEW kind \in Kinds
    PROVE  Sum(es, S, kind) \in Nat
PROOF
<1>. DEFINE f == Amounts(es, S, kind)
<1>1. IsFiniteSet(S) /\ \A i \in S : f[i] \in Nat
  BY AmountsAreNat
<1>2. Sum(es, S, kind) = Cardinality(Units(S, f))
  BY SumIsUnits
<1>. HIDE DEF f
<1>. QED  BY <1>1, <1>2, UnitsAreFinite

LEMMA SumSplits ==
    ASSUME NEW es \in Seq(Entries), NEW S \in SUBSET DOMAIN es, NEW T \in SUBSET DOMAIN es,
           S \cap T = {}, NEW kind \in Kinds
    PROVE  Sum(es, S \cup T, kind) = Sum(es, S, kind) + Sum(es, T, kind)
PROOF
<1>. DEFINE f == Amounts(es, S \cup T, kind)
<1>1. IsFiniteSet(S) /\ IsFiniteSet(T) /\ \A i \in S \cup T : f[i] \in Nat
  BY AmountsAreNat
<1>2. /\ Sum(es, S, kind) = Cardinality(Units(S, f)) /\ Sum(es, T, kind) = Cardinality(Units(T, f))
      /\ Sum(es, S \cup T, kind) = Cardinality(Units(S \cup T, f))
  BY SumIsUnits
<1>. HIDE DEF f
<1>. QED  BY <1>1, <1>2, UnitsSplit

LEMMA SumAgrees ==
    ASSUME NEW es, NEW fs, NEW S, \A i \in S : es[i] = fs[i], NEW kind
    PROVE  Sum(es, S, kind) = Sum(fs, S, kind)
PROOF
<1>1. Amounts(es, S, kind) = Amounts(fs, S, kind)
  BY DEF Amounts
<1>. QED  BY <1>1 DEF Sum

LEMMA SumOfNone ==
    ASSUME NEW es, NEW kind
    PROVE  Sum(es, {}, kind) = 0
PROOF
<1>1. Sum(es, {}, kind) = Cardinality(Units({}, Amounts(es, {}, kind)))
  BY SumIsUnits
<1>2. Units({}, Amounts(es, {}, kind)) = {}
  BY DEF Units
<1>. QED  BY <1>1, <1>2, FS_EmptySet

LEMMA SumOfOne ==
    ASSUME NEW es \in Seq(Entries), NEW i \in DOMAIN es, NEW kind \in Kinds
    PROVE  Sum(es, {i}, kind) = es[i].evidence[kind]
PROOF
<1>. DEFINE n == es[i].evidence[kind]
<1>1. n \in Nat
  BY AmountsAreNat
<1>2. Sum(es, {i}, kind) = Cardinality({i} \X (1..n))
  <2>1. Sum(es, {i}, kind) = Cardinality(Units({i}, Amounts(es, {i}, kind)))
    BY SumIsUnits
  <2>2. Units({i}, Amounts(es, {i}, kind)) = {i} \X (1..n)
    BY DEF Units, Amounts
  <2>. QED  BY <2>1, <2>2
<1>. HIDE DEF n
<1>3. IsFiniteSet({i}) /\ Cardinality({i}) = 1
  BY FS_Singleton
<1>4. IsFiniteSet(1..n) /\ Cardinality(1..n) = n
  <2>1. 1 \in Int /\ n \in Int
    BY <1>1
  <2>2. IsFiniteSet(1..n) /\ Cardinality(1..n) = IF 1 > n THEN 0 ELSE n - 1 + 1
    BY <2>1, FS_Interval
  <2>. QED  BY <1>1, <2>2
<1>5. Cardinality({i} \X (1..n)) = 1 * n
  <2>1. Cardinality({i} \X (1..n)) = Cardinality({i}) * Cardinality(1..n)
    BY <1>3, <1>4, FS_Product
  <2>. QED  BY <1>3, <1>4, <2>1
<1>. QED  BY <1>1, <1>2, <1>5 DEF n

-----------------------------------------------------------------------------
(* Opinions made of evidence. *)

LEMMA ProductIsNat ==
    ASSUME NEW x \in Nat, NEW y \in Nat
    PROVE  x * y \in Nat /\ (x > 0 /\ y > 0 => x * y > 0)
PROOF OBVIOUS

LEMMA Cancel ==
    ASSUME NEW w \in Nat \ {0}, NEW x \in Nat, NEW y \in Nat, w * x = w * y
    PROVE  x = y
PROOF OBVIOUS

(* What evidence says, is evidence for that. *)
LEMMA EvidenceSays ==
    ASSUME NEW r \in Nat, NEW s \in Nat
    PROVE  LET q == [b |-> r, d |-> s, u |-> PriorWeight]
           IN  q \in Weights /\ IsEvidenceOf(q, [positive |-> r, negative |-> s])
PROOF
<1>1. PriorWeight * r = r * PriorWeight /\ PriorWeight * s = s * PriorWeight
  BY PriorWeightIsPositive
<1>. QED  BY <1>1, PriorWeightIsPositive DEF Weights, IsEvidenceOf, Dogmatic

LEMMA VacuousSaysNothing ==
    Vacuous \in Weights /\ IsEvidenceOf(Vacuous, [positive |-> 0, negative |-> 0])
PROOF
<1>1. PriorWeight * 0 = 0 /\ 0 * 1 = 0
  BY PriorWeightIsPositive
<1>. QED  BY <1>1 DEF Vacuous, Weights, IsEvidenceOf, Dogmatic

(* Cumulative fusion adds up evidence. *)
LEMMA FuseAdds ==
    ASSUME NEW o \in Weights, NEW r \in Nat, NEW s \in Nat,
           IsEvidenceOf(o, [positive |-> r, negative |-> s]),
           NEW m \in Nat, NEW n \in Nat
    PROVE  LET f == Fuse(o, FromEvidence([positive |-> m, negative |-> n]))
           IN  f \in Weights /\ IsEvidenceOf(f, [positive |-> r + m, negative |-> s + n])
PROOF
<1>. DEFINE f == Fuse(o, FromEvidence([positive |-> m, negative |-> n]))
            w == PriorWeight
<1>1. /\ o.b \in Nat /\ o.d \in Nat /\ o.u \in Nat \ {0} /\ w \in Nat \ {0}
      /\ w * o.b = r * o.u /\ w * o.d = s * o.u
  BY PriorWeightIsPositive DEF Weights, IsEvidenceOf, Dogmatic
<1>2. f = [b |-> o.b * w + m * o.u, d |-> o.d * w + n * o.u, u |-> o.u * w]
  BY <1>1 DEF Fuse, FromEvidence, Dogmatic
<1>. HIDE DEF w
<1>3. /\ o.b * w \in Nat /\ m * o.u \in Nat /\ o.d * w \in Nat /\ n * o.u \in Nat
      /\ o.u * w \in Nat /\ o.u * w > 0
  BY <1>1, ProductIsNat
<1>4. w * (o.b * w + m * o.u) = (r + m) * (o.u * w)
  <2>1. w * (o.b * w + m * o.u) = (w * o.b) * w + (m * o.u) * w
    BY <1>1
  <2>2. (r + m) * (o.u * w) = (r * o.u) * w + (m * o.u) * w
    BY <1>1
  <2>. QED  BY <1>1, <2>1, <2>2
<1>5. w * (o.d * w + n * o.u) = (s + n) * (o.u * w)
  <2>1. w * (o.d * w + n * o.u) = (w * o.d) * w + (n * o.u) * w
    BY <1>1
  <2>2. (s + n) * (o.u * w) = (s * o.u) * w + (n * o.u) * w
    BY <1>1
  <2>. QED  BY <1>1, <2>1, <2>2
<1>. HIDE DEF f
<1>6. f.b = o.b * w + m * o.u /\ f.d = o.d * w + n * o.u /\ f.u = o.u * w
  BY <1>2
<1>7. f \in Weights /\ ~Dogmatic(f)
  BY <1>2, <1>3 DEF Weights, Dogmatic
<1>8. IsEvidenceOf(f, [positive |-> r + m, negative |-> s + n])
  BY <1>4, <1>5, <1>6, <1>7 DEF IsEvidenceOf, w
<1>. QED  BY <1>7, <1>8 DEF f

(* The same evidence makes the same opinion. *)
LEMMA ProportionalParts ==
    ASSUME NEW w \in Nat \ {0}, NEW r \in Nat, NEW s \in Nat,
           NEW b \in Nat, NEW d \in Nat, NEW u \in Nat, w * b = r * u, w * d = s * u,
           NEW c \in Nat, NEW e \in Nat, NEW v \in Nat, w * c = r * v, w * e = s * v
    PROVE  b * v = c * u /\ d * v = e * u /\ b * e = c * d
PROOF
<1>1. b * v = c * u
  <2>1. w * (b * v) = (w * b) * v /\ w * (c * u) = (w * c) * u
    OBVIOUS
  <2>2. (r * u) * v = (r * v) * u
    OBVIOUS
  <2>. QED  BY <2>1, <2>2, ProductIsNat, Cancel
<1>2. d * v = e * u
  <2>1. w * (d * v) = (w * d) * v /\ w * (e * u) = (w * e) * u
    OBVIOUS
  <2>2. (s * u) * v = (s * v) * u
    OBVIOUS
  <2>. QED  BY <2>1, <2>2, ProductIsNat, Cancel
<1>3. b * e = c * d
  <2>1. w * (b * e) = (w * b) * e /\ w * (c * d) = (w * d) * c
    OBVIOUS
  <2>2. (r * u) * e = r * (e * u) /\ (s * u) * c = s * (c * u)
    OBVIOUS
  <2>3. w * (r * (e * u)) = (w * e) * (r * u) /\ w * (s * (c * u)) = (w * c) * (s * u)
    OBVIOUS
  <2>4. (s * v) * (r * u) = (r * v) * (s * u)
    OBVIOUS
  <2>5. r * (e * u) = s * (c * u)
    <3>1. r * (e * u) \in Nat /\ s * (c * u) \in Nat
      BY ProductIsNat
    <3>. QED  BY <2>3, <2>4, <3>1, Cancel
  <2>. QED  BY <2>1, <2>2, <2>5, ProductIsNat, Cancel
<1>. QED  BY <1>1, <1>2, <1>3

LEMMA ProportionalIsSame ==
    ASSUME NEW b \in Nat, NEW d \in Nat, NEW u \in Nat,
           NEW c \in Nat, NEW e \in Nat, NEW v \in Nat,
           b * v = c * u, d * v = e * u, b * e = c * d
    PROVE  /\ b * (c + e + v) = c * (b + d + u)
           /\ d * (c + e + v) = e * (b + d + u)
           /\ u * (c + e + v) = v * (b + d + u)
PROOF
<1>1. b * (c + e + v) = b * c + b * e + b * v /\ c * (b + d + u) = b * c + c * d + c * u
  OBVIOUS
<1>2. d * (c + e + v) = c * d + d * e + d * v /\ e * (b + d + u) = b * e + d * e + e * u
  OBVIOUS
<1>3. u * (c + e + v) = c * u + e * u + u * v /\ v * (b + d + u) = b * v + d * v + u * v
  OBVIOUS
<1>. QED  BY <1>1, <1>2, <1>3

LEMMA EqualEvidenceIsSame ==
    ASSUME NEW o \in Weights, NEW p \in Weights, NEW r \in Nat, NEW s \in Nat,
           IsEvidenceOf(o, [positive |-> r, negative |-> s]),
           IsEvidenceOf(p, [positive |-> r, negative |-> s])
    PROVE  Same(o, p)
PROOF
<1>. DEFINE b == o.b
            d == o.d
            u == o.u
            c == p.b
            e == p.d
            v == p.u
            w == PriorWeight
<1>1. b \in Nat /\ d \in Nat /\ u \in Nat /\ c \in Nat /\ e \in Nat /\ v \in Nat
  BY DEF Weights
<1>2. w \in Nat \ {0} /\ w * b = r * u /\ w * d = s * u /\ w * c = r * v /\ w * e = s * v
  BY PriorWeightIsPositive DEF IsEvidenceOf
<1>. HIDE DEF b, d, u, c, e, v, w
<1>3. b * v = c * u /\ d * v = e * u /\ b * e = c * d
  BY <1>1, <1>2, ProportionalParts
<1>4. /\ b * (c + e + v) = c * (b + d + u)
      /\ d * (c + e + v) = e * (b + d + u)
      /\ u * (c + e + v) = v * (b + d + u)
  BY <1>1, <1>3, ProportionalIsSame
<1>. QED  BY <1>4 DEF Same, Weight, b, d, u, c, e, v

-----------------------------------------------------------------------------
(* Types. *)

TypeInv ==
    /\ capacity \in Nat
    /\ clock \in 0..MaxClock
    /\ made \in Nat
    /\ record \in [opinion: Weights, count: Nat]
    /\ pending \subseteq Entries
    /\ ledger \in Seq(Entries)
    /\ pc \in {"idle", "query", "summary", "explained"}
    /\ view \in [now: 0..MaxClock, opinion: Weights, count: Nat, entries: Seq(Entries),
                 total: Nat, unledgered: Nat]
    /\ was \in [0..MaxClock -> Weights]
    /\ unledgered \in Nat
    /\ strayed \in BOOLEAN /\ misdated \in BOOLEAN

(* One entry more, unless the ledger is full. *)
LEMMA KeptFacts ==
    ASSUME NEW es \in Seq(Entries), NEW e \in Entries, capacity \in Nat,
           capacity = 0 \/ Len(es) <= capacity
    PROVE  LET fs == Kept(Append(es, e))
           IN  /\ fs \in Seq(Entries) /\ Len(es) <= Len(fs)
               /\ capacity = 0 => fs = Append(es, e)
               /\ capacity = 0 \/ Len(fs) <= capacity
PROOF
<1>. DEFINE es2 == Append(es, e)
            n == Len(es2) - capacity + 1
<1>1. es2 \in Seq(Entries) /\ Len(es2) = Len(es) + 1 /\ Len(es) \in Nat
  OBVIOUS
<1>. HIDE DEF es2
<1>2. CASE capacity = 0 \/ Len(es2) <= capacity
  <2>1. Kept(es2) = es2
    BY <1>2 DEF Kept
  <2>. QED  BY <1>1, <1>2, <2>1 DEF es2
<1>3. CASE capacity # 0 /\ Len(es2) > capacity
  <2>1. n \in 1..Len(es2) + 1 /\ Len(es2) \in Nat
    BY <1>1, <1>3
  <2>2. Kept(es2) = SubSeq(es2, n, Len(es2))
    BY <1>3 DEF Kept
  <2>. HIDE DEF n
  <2>3. /\ SubSeq(es2, n, Len(es2)) \in Seq(Entries)
        /\ Len(SubSeq(es2, n, Len(es2))) = IF n <= Len(es2) THEN Len(es2) - n + 1 ELSE 0
    BY <1>1, <2>1, SubSeqProperties
  <2>4. Len(Kept(es2)) = capacity
    BY <1>1, <1>3, <2>1, <2>2, <2>3 DEF n
  <2>. QED  BY <1>1, <1>3, <2>2, <2>3, <2>4 DEF es2
<1>. QED  BY <1>1, <1>2, <1>3

LEMMA EntryIsEntry ==
    ASSUME TypeInv
    PROVE  /\ \A source \in Sources, e \in Evidence, at \in 0..MaxClock :
                 Entry("evidence", source, e, at) \in Entries
           /\ \A e \in Evidence : Entry("discounted_opinion", Discounter, e, clock) \in Entries
           /\ Entry("admin", Operator, NoEvidence, clock) \in Entries
PROOF
<1>1. made \in Nat /\ clock \in Nat /\ 0..MaxClock \subseteq Nat
  BY BoundsAreNat DEF TypeInv
<1>2. /\ Evidence \subseteq [positive: Nat, negative: Nat]
      /\ NoEvidence \in [positive: Nat, negative: Nat]
  BY EvidenceIsCounted DEF NoEvidence
<1>. QED  BY <1>1, <1>2 DEF Entry, Entries, Submissions

LEMMA FuseIsWeights ==
    ASSUME NEW o \in Weights, NEW p \in Weights
    PROVE  Fuse(o, p) \in Weights
PROOF
<1>1. /\ o.b \in Nat /\ o.d \in Nat /\ o.u \in Nat /\ Weight(o) \in Nat
      /\ p.b \in Nat /\ p.d \in Nat /\ p.u \in Nat /\ Weight(p) \in Nat
  BY DEF Weights, Weight
<1>2. FuseDogmatic(o, p) \in Weights
  <2>1. /\ o.b * Weight(p) \in Nat /\ p.b * Weight(o) \in Nat
        /\ o.d * Weight(p) \in Nat /\ p.d * Weight(o) \in Nat
    BY <1>1, ProductIsNat
  <2>. QED  BY <2>1 DEF FuseDogmatic, Weights
<1>3. [b |-> o.b * p.u + p.b * o.u, d |-> o.d * p.u + p.d * o.u, u |-> o.u * p.u] \in Weights
  <2>1. /\ o.b * p.u \in Nat /\ p.b * o.u \in Nat /\ o.d * p.u \in Nat /\ p.d * o.u \in Nat
        /\ o.u * p.u \in Nat
    BY <1>1, ProductIsNat
  <2>. QED  BY <2>1 DEF Weights
<1>. QED  BY <1>2, <1>3 DEF Fuse

LEMMA SubmittedIsWeights ==
    ASSUME NEW e \in Evidence
    PROVE  FromEvidence(e) \in Weights /\ Discount(Vacuous, FromEvidence(e)) \in Weights
PROOF
<1>. DEFINE o == FromEvidence(e)
<1>1. e.positive \in Nat /\ e.negative \in Nat
  BY EvidenceIsCounted
<1>2. o \in Weights /\ o.b \in Nat /\ o.d \in Nat /\ o.u \in Nat
  BY <1>1, PriorWeightIsPositive DEF FromEvidence, Weights
<1>. HIDE DEF o
<1>3. Trustworthiness(Vacuous) = <<1, 2>>
  BY DEF Trustworthiness, Vacuous, Weight
<1>4. Discount(Vacuous, o)
        = [b |-> 1 * o.b, d |-> 1 * o.d, u |-> 2 * Weight(o) - 1 * (o.b + o.d)]
  BY <1>3 DEF Discount
<1>5. 1 * o.b \in Nat /\ 1 * o.d \in Nat /\ 2 * Weight(o) - 1 * (o.b + o.d) \in Nat
  BY <1>2 DEF Weight
<1>6. Discount(Vacuous, o) \in Weights
  BY <1>4, <1>5 DEF Weights
<1>. QED  BY <1>2, <1>6 DEF o

LEMMA ChangeTypes ==
    ASSUME TypeInv, NEW e \in Entries, NEW new \in [opinion: Weights, count: Nat], Change(e, new),
           unledgered' \in Nat, strayed' \in BOOLEAN, misdated' \in BOOLEAN
    PROVE  TypeInv'
PROOF BY DEF TypeInv, Change, explanation

(* The changes that leave an entry. *)
Changing ==
    \/ \E s \in Sources, e \in Evidence, at \in 0..MaxClock : SubmitEvidence(s, e, at)
    \/ \E e \in Evidence : SubmitDiscounted(e)
    \/ \E clear \in BOOLEAN : ResetAgent(clear)
    \/ \E snapshot \in Snapshots : ImportSnapshot(snapshot)

(* What the changes are. *)
LEMMA ChangesAre ==
    ASSUME TypeInv, Changing
    PROVE  \E e \in Entries, new \in [opinion: Weights, count: Nat] :
              /\ Change(e, new)
              /\ unledgered' \in Nat /\ strayed' \in BOOLEAN /\ misdated' \in BOOLEAN
              /\ misdated => misdated'
              /\ strayed => strayed'
              /\ e.type # "admin" => new.count = record.count + 1 /\ unledgered' = unledgered
              /\ e.type = "admin" => \/ new.count <= unledgered'
                                     \/ new.count = record.count /\ unledgered' = unledgered
              /\ ~strayed' => /\ new.opinion = Fuse(record.opinion, FromEvidence(e.evidence))
                              /\ e.type = "evidence" /\ e.source \in Sources
                              /\ ~misdated' => e.at = clock
PROOF
<1>1. /\ record.opinion \in Weights /\ record.count + 1 \in Nat /\ record.count \in Nat
      /\ record \in [opinion: Weights, count: Nat]
      /\ unledgered \in Nat /\ strayed \in BOOLEAN /\ misdated \in BOOLEAN
  BY DEF TypeInv
<1>2. ASSUME NEW s \in Sources, NEW e \in Evidence, NEW at \in 0..MaxClock,
             SubmitEvidence(s, e, at)
      PROVE  \E x \in Entries, new \in [opinion: Weights, count: Nat] :
                /\ Change(x, new)
                /\ x.at = at /\ x.type = "evidence" /\ x.source \in Sources
                /\ new.opinion = Fuse(record.opinion, FromEvidence(x.evidence))
                /\ new.count = record.count + 1
                /\ UNCHANGED <<unledgered, strayed>> /\ misdated' = (misdated \/ at # clock)
  <2>. DEFINE x == Entry("evidence", s, e, at)
              o == Fuse(record.opinion, FromEvidence(e))
              new == [opinion |-> o, count |-> record.count + 1]
  <2>1. x.at = at /\ x.type = "evidence" /\ x.source = s /\ x.evidence = e
    BY DEF Entry
  <2>2. x \in Entries /\ o \in Weights
    BY <1>1, EntryIsEntry, FuseIsWeights, SubmittedIsWeights
  <2>3. /\ Change(x, new)
        /\ UNCHANGED <<unledgered, strayed>> /\ misdated' = (misdated \/ at # clock)
    BY <1>2 DEF SubmitEvidence
  <2>4. new \in [opinion: Weights, count: Nat] /\ new.opinion = o /\ new.count = record.count + 1
    BY <1>1, <2>2
  <2>. HIDE DEF x, new
  <2>. QED  BY <2>1, <2>2, <2>3, <2>4
<1>3. ASSUME NEW e \in Evidence, SubmitDiscounted(e)
      PROVE  \E x \in Entries, new \in [opinion: Weights, count: Nat] :
                /\ Change(x, new)
                /\ x.type = "discounted_opinion" /\ new.count = record.count + 1
                /\ strayed' = TRUE /\ UNCHANGED <<unledgered, misdated>>
  <2>. DEFINE x == Entry("discounted_opinion", Discounter, e, clock)
              o == Fuse(record.opinion, Discount(Vacuous, FromEvidence(e)))
              new == [opinion |-> o, count |-> record.count + 1]
  <2>1. x.type = "discounted_opinion"
    BY DEF Entry
  <2>2. x \in Entries /\ o \in Weights
    BY <1>1, EntryIsEntry, FuseIsWeights, SubmittedIsWeights
  <2>3. Change(x, new) /\ strayed' = TRUE /\ UNCHANGED <<unledgered, misdated>>
    BY <1>3 DEF SubmitDiscounted
  <2>4. new \in [opinion: Weights, count: Nat] /\ new.count = record.count + 1
    BY <1>1, <2>2
  <2>. HIDE DEF x, o, new
  <2>. QED  BY <2>1, <2>2, <2>3, <2>4
<1>4. ASSUME NEW new \in [opinion: Weights, count: Nat], NEW missing \in Nat,
             Administer(new, missing),
             new.count <= missing \/ (new.count = record.count /\ missing = unledgered)
      PROVE  \E x \in Entries, rec \in [opinion: Weights, count: Nat] :
                /\ Change(x, rec)
                /\ x.type = "admin" /\ strayed' = TRUE /\ misdated' = misdated
                /\ unledgered' \in Nat
                /\ \/ rec.count <= unledgered'
                   \/ rec.count = record.count /\ unledgered' = unledgered
  <2>. DEFINE x == Entry("admin", Operator, NoEvidence, clock)
  <2>1. x.type = "admin"
    BY DEF Entry
  <2>2. x \in Entries
    BY EntryIsEntry
  <2>3. Change(x, new) /\ strayed' = TRUE /\ unledgered' = missing /\ misdated' = misdated
    BY <1>4 DEF Administer
  <2>. HIDE DEF x
  <2>. QED  BY <1>4, <2>1, <2>2, <2>3
<1>5. ASSUME NEW clear \in BOOLEAN, ResetAgent(clear)
      PROVE  \E new \in [opinion: Weights, count: Nat], missing \in Nat :
                /\ Administer(new, missing)
                /\ new.count <= missing \/ (new.count = record.count /\ missing = unledgered)
  <2>1. CASE clear
    <3>1. Administer(Fresh, 0)
      BY <1>5, <2>1 DEF ResetAgent
    <3>2. Fresh \in [opinion: Weights, count: Nat] /\ Fresh.count <= 0 /\ 0 \in Nat
      BY VacuousSaysNothing DEF Fresh
    <3>. QED  BY <3>1, <3>2
  <2>2. CASE ~clear
    <3>. DEFINE new == [record EXCEPT !.opinion = Vacuous]
    <3>1. Administer(new, unledgered)
      BY <1>5, <2>2 DEF ResetAgent
    <3>2. new \in [opinion: Weights, count: Nat] /\ new.count = record.count
      BY <1>1, VacuousSaysNothing
    <3>. HIDE DEF new
    <3>. QED  BY <1>1, <3>1, <3>2
  <2>. QED  BY <2>1, <2>2
<1>6. ASSUME NEW snapshot \in Snapshots, ImportSnapshot(snapshot)
      PROVE  \E new \in [opinion: Weights, count: Nat], missing \in Nat :
                /\ Administer(new, missing)
                /\ new.count <= missing \/ (new.count = record.count /\ missing = unledgered)
  <2>1. snapshot \in [opinion: Weights, count: Nat]
    BY SnapshotsAreRecords
  <2>2. snapshot.count \in Nat /\ snapshot.count <= snapshot.count
    BY <2>1
  <2>. QED  BY <1>6, <2>1, <2>2 DEF ImportSnapshot
<1>7. CASE \E s \in Sources, e \in Evidence, at \in 0..MaxClock : SubmitEvidence(s, e, at)
  <2>1. PICK at \in 0..MaxClock, x \in Entries, new \in [opinion: Weights, count: Nat] :
            /\ Change(x, new)
            /\ x.at = at /\ x.type = "evidence" /\ x.source \in Sources
            /\ new.opinion = Fuse(record.opinion, FromEvidence(x.evidence))
            /\ new.count = record.count + 1
            /\ UNCHANGED <<unledgered, strayed>> /\ misdated' = (misdated \/ at # clock)
    BY <1>2, <1>7
  <2>2. misdated' \in BOOLEAN /\ (misdated => misdated') /\ (~misdated' => at = clock)
    BY <1>1, <2>1
  <2>. QED  BY <1>1, <2>1, <2>2
<1>8. CASE \E e \in Evidence : SubmitDiscounted(e)
  BY <1>1, <1>3, <1>8
<1>9. CASE \/ \E clear \in BOOLEAN : ResetAgent(clear)
           \/ \E snapshot \in Snapshots : ImportSnapshot(snapshot)
  <2>1. PICK new \in [opinion: Weights, count: Nat], missing \in Nat :
            /\ Administer(new, missing)
            /\ new.count <= missing \/ (new.count = record.count /\ missing = unledgered)
    BY <1>5, <1>6, <1>9
  <2>. QED  BY <1>1, <1>4, <2>1
<1>. QED  BY <1>7, <1>8, <1>9 DEF Changing

(* The changes that leave none. *)
LEMMA SilentsAre ==
    ASSUME TypeInv, ApplyDecay \/ Reregister
    PROVE  /\ TypeInv' /\ strayed'
           /\ UNCHANGED <<capacity, clock, pending, ledger, pc, view, was, misdated>>
           /\ \/ record'.count = 0
              \/ record'.count = record.count /\ unledgered' = unledgered
PROOF
<1>1. /\ record \in [opinion: Weights, count: Nat] /\ unledgered \in Nat
      /\ record.opinion \in Weights
  BY DEF TypeInv
<1>2. ASSUME NEW new \in [opinion: Weights, count: Nat], NEW missing \in Nat,
             ChangeSilently(new, missing),
             new.count = 0 \/ (new.count = record.count /\ missing = unledgered)
      PROVE  /\ TypeInv' /\ strayed'
             /\ UNCHANGED <<capacity, clock, pending, ledger, pc, view, was, misdated>>
             /\ \/ record'.count = 0
                \/ record'.count = record.count /\ unledgered' = unledgered
  BY <1>2 DEF ChangeSilently, TypeInv, explanation
<1>3. CASE ApplyDecay
  <2>. DEFINE o == Decay(record.opinion, 2)
              new == [record EXCEPT !.opinion = o]
  <2>1. o \in Weights
    <3>. DEFINE p == record.opinion
    <3>1. p.b \in Nat /\ p.d \in Nat /\ p.u \in Nat
      BY <1>1 DEF Weights
    <3>2. 2 * Weight(p) - (p.b + p.d) \in Nat
      BY <3>1 DEF Weight
    <3>. HIDE DEF p
    <3>. QED  BY <3>1, <3>2 DEF Decay, Weights, p
  <2>2. ChangeSilently(new, unledgered)
    BY <1>3 DEF ApplyDecay
  <2>. HIDE DEF o
  <2>3. new \in [opinion: Weights, count: Nat] /\ new.count = record.count
    BY <1>1, <2>1
  <2>. HIDE DEF new
  <2>. QED  BY <1>1, <1>2, <2>2, <2>3
<1>4. CASE Reregister
  <2>1. Fresh \in [opinion: Weights, count: Nat] /\ Fresh.count = 0 /\ 0 \in Nat
    BY VacuousSaysNothing DEF Fresh
  <2>2. ChangeSilently(Fresh, 0)
    BY <1>4 DEF Reregister
  <2>. QED  BY <1>2, <2>1, <2>2
<1>. QED  BY <1>3, <1>4

-----------------------------------------------------------------------------
(* Counting entries. *)

(* The ledger stays within its capacity; and as long as it has none, the
   record has at most one submission more than the ledger and those that were
   never entered, which is pending; so has an explanation, compared with its
   entries. *)
CountInv ==
    /\ TypeInv
    /\ \A e, f \in pending : e.type # "admin" /\ f.type # "admin" => e = f
    /\ capacity = 0 \/ Len(ledger) <= capacity
    /\ capacity = 0 => record.count <= Len(ledger) + unledgered + (IF Unlocked THEN 0 ELSE 1)
    /\ capacity = 0 /\ pc = "query" => view.count <= Len(ledger) + 1 + view.unledgered
    /\ capacity = 0 /\ pc \in {"summary", "explained"} =>
          view.count <= Len(view.entries) + 1 + view.unledgered
    /\ pc = "summary" => Len(view.entries) <= Len(ledger)
    /\ pc = "explained" => Len(view.entries) <= view.total

LEMMA InitCount == Init => CountInv
PROOF
<1>. SUFFICES ASSUME Init PROVE CountInv
  OBVIOUS
<1>1. Vacuous \in Weights
  BY VacuousSaysNothing
<1>2. << >> \in Seq(Entries) /\ Len(<< >>) = 0
  OBVIOUS
<1>3. 0 \in 0..MaxClock /\ capacity \in Nat
  BY BoundsAreNat DEF Init
<1>4. record \in [opinion: Weights, count: Nat]
  BY <1>1, SnapshotsAreRecords DEF Init, Fresh
<1>5. record.opinion \in Weights /\ record.count \in Nat
  BY <1>4
<1>6. /\ clock = 0 /\ made = 0 /\ pending = {} /\ ledger = << >> /\ pc = "idle"
      /\ unledgered = record.count /\ strayed \in BOOLEAN /\ misdated \in BOOLEAN
      /\ was = [t \in 0..MaxClock |-> record.opinion]
      /\ view = [now |-> 0, opinion |-> Vacuous, count |-> 0, unledgered |-> 0,
                 entries |-> << >>, total |-> 0]
  BY DEF Init
<1>7. /\ was \in [0..MaxClock -> Weights]
      /\ view \in [now: 0..MaxClock, opinion: Weights, count: Nat, entries: Seq(Entries),
                   total: Nat, unledgered: Nat]
  BY <1>1, <1>2, <1>3, <1>5, <1>6
<1>8. TypeInv
  BY <1>2, <1>3, <1>4, <1>5, <1>6, <1>7 DEF TypeInv
<1>9. Unlocked /\ Len(ledger) = 0
  BY <1>2, <1>6 DEF Unlocked
<1>10. record.count <= Len(ledger) + unledgered + (IF Unlocked THEN 0 ELSE 1)
  BY <1>5, <1>6, <1>9
<1>. QED  BY <1>3, <1>6, <1>8, <1>9, <1>10 DEF CountInv

LEMMA ChangeCounts ==
    ASSUME CountInv, NEW e \in Entries, NEW new \in [opinion: Weights, count: Nat],
           Change(e, new), unledgered' \in Nat, strayed' \in BOOLEAN, misdated' \in BOOLEAN,
           e.type # "admin" => new.count = record.count + 1 /\ unledgered' = unledgered,
           e.type = "admin" => \/ new.count <= unledgered'
                               \/ /\ new.count = record.count
                                  /\ unledgered' = unledgered
    PROVE  CountInv'
PROOF
<1>1. TypeInv /\ TypeInv'
  BY ChangeTypes DEF CountInv
<1>2. /\ Unlocked /\ pending' = pending \cup {e} /\ record' = new
      /\ UNCHANGED <<capacity, ledger, pc, view>>
  BY DEF Change, explanation
<1>3. \A x \in pending : x.type = "admin"
  BY <1>2 DEF Unlocked
<1>4. Unlocked' <=> e.type = "admin"
  BY <1>2, <1>3 DEF Unlocked
<1>5. capacity = 0 =>
        new.count <= Len(ledger) + unledgered' + (IF e.type = "admin" THEN 0 ELSE 1)
  <2>1. Len(ledger) \in Nat /\ record.count \in Nat /\ new.count \in Nat /\ unledgered \in Nat
    BY <1>1 DEF TypeInv
  <2>2. capacity = 0 => record.count <= Len(ledger) + unledgered
    BY <1>2, <2>1 DEF CountInv
  <2>. QED  BY <2>1, <2>2
<1>. QED  BY <1>1, <1>2, <1>3, <1>4, <1>5 DEF CountInv

LEMMA SilentCounts == CountInv /\ (ApplyDecay \/ Reregister) => CountInv'
PROOF
<1>. SUFFICES ASSUME CountInv, ApplyDecay \/ Reregister PROVE CountInv'
  OBVIOUS
<1>1. TypeInv
  BY DEF CountInv
<1>2. /\ TypeInv'
      /\ UNCHANGED <<capacity, clock, pending, ledger, pc, view, was, misdated>>
      /\ \/ record'.count = 0
         \/ record'.count = record.count /\ unledgered' = unledgered
  BY <1>1, SilentsAre
<1>3. Unlocked' <=> Unlocked
  BY <1>2 DEF Unlocked
<1>4. Len(ledger) \in Nat /\ record.count \in Nat /\ unledgered' \in Nat
  BY <1>1, <1>2 DEF TypeInv
<1>5. capacity = 0 => record'.count <= Len(ledger) + unledgered' + (IF Unlocked THEN 0 ELSE 1)
  BY <1>2, <1>4 DEF CountInv
<1>. QED  BY <1>2, <1>3, <1>5 DEF CountInv

LEMMA AppendCounts == CountInv /\ AppendEntry => CountInv'
PROOF
<1>. SUFFICES ASSUME CountInv, AppendEntry PROVE CountInv'
  OBVIOUS
<1>1. PICK e \in pending : /\ pending' = pending \ {e}
                           /\ ledger' = Kept(Append(ledger, e))
                           /\ UNCHANGED <<capacity, clock, made, record, pc, view, was, unledgered,
                                          strayed, misdated>>
  BY DEF AppendEntry, explanation
<1>2. TypeInv /\ e \in Entries /\ ledger \in Seq(Entries) /\ capacity \in Nat
  BY <1>1 DEF CountInv, TypeInv
<1>3. /\ ledger' \in Seq(Entries) /\ Len(ledger) <= Len(ledger')
      /\ capacity = 0 => ledger' = Append(ledger, e)
      /\ capacity = 0 \/ Len(ledger') <= capacity
  <2>1. capacity = 0 \/ Len(ledger) <= capacity
    BY DEF CountInv
  <2>. QED  BY <1>1, <1>2, <2>1, KeptFacts
<1>4. TypeInv'
  BY <1>1, <1>2, <1>3 DEF TypeInv
<1>5. capacity = 0 => record.count <= Len(ledger') + unledgered + (IF Unlocked' THEN 0 ELSE 1)
  <2>1. Len(ledger) \in Nat /\ record.count \in Nat /\ unledgered \in Nat
    BY <1>2 DEF TypeInv
  <2>2. capacity = 0 => Len(ledger') = Len(ledger) + 1
    BY <1>2, <1>3
  <2>. QED  BY <2>1, <2>2 DEF CountInv
<1>6. Len(ledger) \in Nat /\ Len(ledger') \in Nat /\ view.count \in Nat /\ Len(view.entries) \in Nat
      /\ view.unledgered \in Nat
  BY <1>2, <1>3 DEF TypeInv
<1>7. /\ capacity = 0 /\ pc = "query" => view.count <= Len(ledger') + 1 + view.unledgered
      /\ pc = "summary" => Len(view.entries) <= Len(ledger')
  BY <1>3, <1>6 DEF CountInv
<1>. QED  BY <1>1, <1>3, <1>4, <1>5, <1>7 DEF CountInv

(* A submission that fails to append is one that was never entered. *)
LEMMA FailCounts == CountInv /\ AppendFails => CountInv'
PROOF
<1>. SUFFICES ASSUME CountInv, AppendFails PROVE CountInv'
  OBVIOUS
<1>1. PICK e \in pending :
          /\ pending' = pending \ {e} /\ strayed' = TRUE
          /\ unledgered' = unledgered + (IF e.type = "admin" THEN 0 ELSE 1)
          /\ UNCHANGED <<capacity, clock, made, record, ledger, pc, view, was, misdated>>
  BY DEF AppendFails, explanation
<1>2. TypeInv /\ Len(ledger) \in Nat /\ record.count \in Nat /\ unledgered \in Nat
  BY DEF CountInv, TypeInv
<1>3. TypeInv'
  BY <1>1, <1>2 DEF TypeInv
<1>4. CASE e.type = "admin"
  <2>1. Unlocked' <=> Unlocked
    BY <1>1, <1>4 DEF Unlocked
  <2>. QED  BY <1>1, <1>2, <1>3, <1>4, <2>1 DEF CountInv
<1>5. CASE e.type # "admin"
  <2>1. capacity = 0 => record.count <= Len(ledger) + unledgered'
    BY <1>1, <1>2, <1>5 DEF CountInv
  <2>2. unledgered' \in Nat
    BY <1>1, <1>2
  <2>3. capacity = 0 => record.count <= Len(ledger) + unledgered' + (IF Unlocked' THEN 0 ELSE 1)
    BY <1>2, <2>1, <2>2
  <2>. QED  BY <1>1, <1>3, <2>3 DEF CountInv
<1>. QED  BY <1>4, <1>5

LEMMA ExplainCounts == CountInv /\ (ReadRecord \/ QueryEntries \/ QuerySummary) => CountInv'
PROOF
<1>. SUFFICES ASSUME CountInv, ReadRecord \/ QueryEntries \/ QuerySummary PROVE CountInv'
  OBVIOUS
<1>1. TypeInv /\ Len(ledger) \in Nat /\ record.count \in Nat /\ unledgered \in Nat
  BY DEF CountInv, TypeInv
<1>2. CASE ReadRecord
  <2>1. /\ pc' = "query" /\ view'.count = record.count /\ view'.unledgered = unledgered
        /\ UNCHANGED <<capacity, clock, made, record, pending, ledger, was, unledgered, strayed,
                       misdated>>
        /\ view' = [now |-> clock, opinion |-> record.opinion, count |-> record.count,
                    unledgered |-> unledgered, entries |-> << >>, total |-> 0]
    BY <1>2 DEF ReadRecord
  <2>2. TypeInv'
    <3>1. << >> \in Seq(Entries) /\ 0 \in Nat
      OBVIOUS
    <3>. QED  BY <1>1, <2>1, <3>1 DEF TypeInv
  <2>3. Unlocked' <=> Unlocked
    BY <2>1 DEF Unlocked
  <2>4. capacity = 0 => record.count <= Len(ledger) + 1 + unledgered
    BY <1>1 DEF CountInv
  <2>. QED  BY <2>1, <2>2, <2>3, <2>4 DEF CountInv
<1>3. CASE QueryEntries
  <2>1. /\ pc = "query" /\ pc' = "summary" /\ view' = [view EXCEPT !.entries = ledger]
        /\ UNCHANGED <<capacity, clock, made, record, pending, ledger, was, unledgered, strayed,
                       misdated>>
    BY <1>3 DEF QueryEntries
  <2>2. /\ view'.count = view.count /\ view'.entries = ledger
        /\ view'.unledgered = view.unledgered
    BY <1>1, <2>1 DEF TypeInv
  <2>3. TypeInv'
    BY <1>1, <2>1 DEF TypeInv
  <2>4. Unlocked' <=> Unlocked
    BY <2>1 DEF Unlocked
  <2>. QED  BY <1>1, <2>1, <2>2, <2>3, <2>4 DEF CountInv
<1>4. CASE QuerySummary
  <2>1. /\ pc = "summary" /\ pc' = "explained" /\ view' = [view EXCEPT !.total = Len(ledger)]
        /\ UNCHANGED <<capacity, clock, made, record, pending, ledger, was, unledgered, strayed,
                       misdated>>
    BY <1>4 DEF QuerySummary
  <2>2. /\ view'.count = view.count /\ view'.entries = view.entries /\ view'.total = Len(ledger)
        /\ view'.unledgered = view.unledgered
    BY <1>1, <2>1 DEF TypeInv
  <2>3. TypeInv'
    BY <1>1, <2>1 DEF TypeInv
  <2>4. Unlocked' <=> Unlocked
    BY <2>1 DEF Unlocked
  <2>. QED  BY <1>1, <2>1, <2>2, <2>3, <2>4 DEF CountInv
<1>. QED  BY <1>2, <1>3, <1>4

LEMMA StepCount == CountInv /\ [Next]_vars => CountInv'
PROOF
<1>. SUFFICES ASSUME CountInv, [Next]_vars PROVE CountInv'
  OBVIOUS
<1>1. CASE Changing
  <2>1. TypeInv
    BY DEF CountInv
  <2>. QED  BY <1>1, <2>1, ChangesAre, ChangeCounts
<1>2. CASE AppendEntry \/ AppendFails \/ ReadRecord \/ QueryEntries \/ QuerySummary
  BY <1>2, AppendCounts, FailCounts, ExplainCounts
<1>5. CASE ApplyDecay \/ Reregister
  BY <1>5, SilentCounts
<1>3. CASE Tick
  <2>1. /\ clock' = clock + 1 /\ clock < MaxClock
        /\ was' = [was EXCEPT ![clock + 1] = record.opinion]
        /\ UNCHANGED <<capacity, made, record, pending, ledger, pc, view, unledgered, strayed,
                       misdated>>
    BY <1>3 DEF Tick, explanation
  <2>2. TypeInv'
    <3>1. /\ clock \in 0..MaxClock /\ was \in [0..MaxClock -> Weights] /\ record.opinion \in Weights
          /\ MaxClock \in Nat
      BY BoundsAreNat DEF CountInv, TypeInv
    <3>2. clock' \in 0..MaxClock
      BY <2>1, <3>1
    <3>3. was' \in [0..MaxClock -> Weights]
      BY <2>1, <3>1
    <3>. QED  BY <2>1, <3>2, <3>3 DEF CountInv, TypeInv
  <2>3. Unlocked' <=> Unlocked
    BY <2>1 DEF Unlocked
  <2>. QED  BY <2>1, <2>2, <2>3 DEF CountInv
<1>4. CASE UNCHANGED vars
  BY <1>4 DEF vars, explanation, CountInv, TypeInv, Unlocked
<1>. QED  BY <1>1, <1>2, <1>3, <1>4, <1>5 DEF Next, Changing

LEMMA AlwaysCounts == Spec => []CountInv
PROOF BY InitCount, StepCount, PTL DEF Spec

(* The contributions account for every entry, once. *)
LEMMA ContributionsAddUp ==
    ASSUME TypeInv
    PROVE  Total([s \in DOMAIN Contributions |-> Contributions[s].count]) = Len(view.entries)
PROOF
<1>. DEFINE es == view.entries
            D == {es[i].source : i \in DOMAIN es}
            class == [i \in DOMAIN es |-> es[i].source]
            n == [s \in DOMAIN Contributions |-> Contributions[s].count]
<1>1. es \in Seq(Entries) /\ DOMAIN es = 1..Len(es) /\ Len(es) \in Nat
  BY DEF TypeInv
<1>2. IsFiniteSet(DOMAIN es) /\ Cardinality(DOMAIN es) = Len(es)
  <2>1. 1 \in Int /\ Len(es) \in Int
    BY <1>1
  <2>2. /\ IsFiniteSet(1..Len(es))
        /\ Cardinality(1..Len(es)) = IF 1 > Len(es) THEN 0 ELSE Len(es) - 1 + 1
    BY <2>1, FS_Interval
  <2>. QED  BY <1>1, <2>2
<1>3. DOMAIN n = D
  BY DEF Contributions
<1>4. ASSUME NEW s \in D
      PROVE  n[s] = Cardinality({i \in DOMAIN es : class[i] = s})
  <2>1. n[s] = Cardinality({i \in DOMAIN es : es[i].source = s})
    BY <1>4 DEF Contributions
  <2>2. {i \in DOMAIN es : es[i].source = s} = {i \in DOMAIN es : class[i] = s}
    OBVIOUS
  <2>. QED  BY <2>1, <2>2
<1>5. \A i \in DOMAIN es : class[i] \in D
  OBVIOUS
<1>. DEFINE I == DOMAIN es
<1>. HIDE DEF D, class, n, I
<1>6. Total(n) = Cardinality(I)
  <2>1. /\ IsFiniteSet(I) /\ \A i \in I : class[i] \in D
        /\ DOMAIN n = D /\ \A s \in D : n[s] = Cardinality({i \in I : class[i] = s})
    BY <1>2, <1>3, <1>4, <1>5 DEF I
  <2>. QED  BY <2>1, PartsAddUp
<1>. QED  BY <1>2, <1>6 DEF n, I

(* However the reads of explain_trust fall between the steps of submissions,
   resets, imports, failed appends and evictions, it attributes no more than
   its summary counts; and when it calls itself complete its entries lack at
   most the submission that was about to append, and those that the ledger never
   got. *)
THEOREM AttributionsKeepUp == Spec => []AttributionKeepsUp
PROOF
<1>1. CountInv => AttributionKeepsUp
  <2>. SUFFICES ASSUME CountInv, Explained PROVE
          /\ Total([s \in DOMAIN Contributions |-> Contributions[s].count]) <= view.total
          /\ Full => view.count <= Len(view.entries) + 1 + view.unledgered
    BY DEF AttributionKeepsUp
  <2>1. Full => capacity = 0
    BY DEF Full, Limitations
  <2>2. pc = "explained"
    BY DEF Explained
  <2>3. Total([s \in DOMAIN Contributions |-> Contributions[s].count]) = Len(view.entries)
    BY ContributionsAddUp DEF CountInv
  <2>. QED  BY <2>1, <2>2, <2>3 DEF CountInv
<1>. QED  BY <1>1, AlwaysCounts, PTL

-----------------------------------------------------------------------------
(* As long as nothing but evidence drives the opinion: what was said so far,
   the submission that is about to append included, and what was said before
   a time. *)

LogOf(es, p) == IF p = {} THEN es ELSE Append(es, CHOOSE e \in p : TRUE)

Log == LogOf(ledger, pending)

Before(es, t) == {i \in DOMAIN es : es[i].at < t}

(* The entries i of es with i in S make the opinion. *)
Means(o, es, S) == IsEvidenceOf(o, Sums(es, S))

(* All that was said is plain evidence, stamped, unless it is misdated, before
   now; what is still to be appended, with the time it is. *)
EvidenceLogged ==
    \A i \in DOMAIN Log : /\ Log[i].type = "evidence" /\ Log[i].source \in Sources
                          /\ ~misdated => Log[i].at <= clock

EvidencePending ==
    \A e \in pending : /\ pending = {e} /\ e.type = "evidence"
                       /\ ~misdated => e.at = clock

(* The record is made of all that was said; the opinion when a tick began, of
   what was said before that tick, if all was said at the time it is stamped
   with. *)
RecordRemembers == record.count = Len(Log) /\ Means(record.opinion, Log, DOMAIN Log)

TicksRemember == ~misdated => \A t \in 0..clock : Means(was[t], Log, Before(Log, t))

(* The opinion that an explanation has read is made of the first entries, and
   its entries are those of the ledger, among them all from before the
   explanation's time. *)
ViewRemembers ==
    pc # "idle" =>
        /\ view.now <= clock
        /\ view.count <= Len(Log)
        /\ Means(view.opinion, Log, 1..view.count)

EntriesAreOfLedger ==
    pc \in {"summary", "explained"} =>
        /\ Len(view.entries) <= Len(ledger)
        /\ \A i \in DOMAIN view.entries : view.entries[i] = ledger[i]
        /\ ~misdated => Before(Log, view.now) \subseteq DOMAIN view.entries

HistoryInv ==
    OnlyEvidence =>
        /\ EvidenceLogged /\ EvidencePending
        /\ RecordRemembers /\ TicksRemember
        /\ ViewRemembers /\ EntriesAreOfLedger

LEMMA LogOfFacts ==
    ASSUME NEW es
    PROVE  LogOf(es, {}) = es /\ \A e : LogOf(es, {e}) = Append(es, e)
PROOF BY DEF LogOf

LEMMA AppendFacts ==
    ASSUME NEW es \in Seq(Entries), NEW e \in Entries
    PROVE  LET fs == Append(es, e)
           IN  /\ fs \in Seq(Entries) /\ Len(fs) = Len(es) + 1 /\ Len(es) \in Nat
               /\ DOMAIN es = 1..Len(es) /\ DOMAIN fs = DOMAIN es \cup {Len(fs)}
               /\ Len(fs) \notin DOMAIN es
               /\ fs[Len(fs)] = e /\ \A i \in DOMAIN es : fs[i] = es[i]
PROOF OBVIOUS

(* The log has the entries of the ledger first. *)
LEMMA LogFacts ==
    ASSUME TypeInv, \A e \in pending : pending = {e}
    PROVE  /\ Log \in Seq(Entries)
           /\ Len(ledger) \in Nat /\ Len(Log) \in Nat /\ Len(ledger) <= Len(Log)
           /\ DOMAIN ledger = 1..Len(ledger) /\ DOMAIN Log = 1..Len(Log)
           /\ \A i \in DOMAIN ledger : Log[i] = ledger[i]
           /\ \A i \in DOMAIN Log \ DOMAIN ledger : Log[i] \in pending
PROOF
<1>1. ledger \in Seq(Entries) /\ pending \subseteq Entries
  BY DEF TypeInv
<1>2. CASE pending = {}
  <2>1. Log = ledger
    BY <1>2, LogOfFacts DEF Log
  <2>. QED  BY <1>1, <2>1
<1>3. CASE pending # {}
  <2>1. PICK e \in pending : pending = {e}
    BY <1>3
  <2>2. Log = Append(ledger, e)
    BY <2>1, LogOfFacts DEF Log
  <2>3. e \in Entries
    BY <1>1
  <2>. QED  BY <1>1, <2>1, <2>2, <2>3, AppendFacts
<1>. QED  BY <1>2, <1>3

(* What has strayed stays so; and what was stamped with another time. *)
LEMMA OnlyEvidenceBefore ==
    ASSUME TypeInv, [Next]_vars
    PROVE  /\ OnlyEvidence' => OnlyEvidence
           /\ misdated => misdated'
PROOF
<1>1. CASE Changing
  <2>1. ASSUME NEW s \in Sources, NEW e \in Evidence, NEW at \in 0..MaxClock,
               SubmitEvidence(s, e, at)
        PROVE  capacity' = capacity /\ (strayed => strayed') /\ (misdated => misdated')
    <3>1. capacity' = capacity /\ strayed' = strayed /\ misdated' = (misdated \/ at # clock)
      BY <2>1 DEF SubmitEvidence, Change
    <3>2. ASSUME misdated PROVE misdated'
      BY <3>1, <3>2, Zenon
    <3>. QED  BY <3>1, <3>2
  <2>2. ASSUME NEW e \in Evidence, SubmitDiscounted(e)
        PROVE  capacity' = capacity /\ strayed' = TRUE /\ misdated' = misdated
    BY <2>2 DEF SubmitDiscounted, Change
  <2>3. ASSUME NEW new, NEW missing, Administer(new, missing)
        PROVE  capacity' = capacity /\ strayed' = TRUE /\ misdated' = misdated
    BY <2>3 DEF Administer, Change
  <2>4. CASE \E s \in Sources, e \in Evidence, at \in 0..MaxClock : SubmitEvidence(s, e, at)
    BY <2>1, <2>4 DEF OnlyEvidence
  <2>5. CASE \E e \in Evidence : SubmitDiscounted(e)
    BY <2>2, <2>5 DEF OnlyEvidence
  <2>6. CASE \/ \E clear \in BOOLEAN : ResetAgent(clear)
             \/ \E snapshot \in Snapshots : ImportSnapshot(snapshot)
    BY <2>3, <2>6 DEF ResetAgent, ImportSnapshot, OnlyEvidence
  <2>. QED  BY <1>1, <2>4, <2>5, <2>6 DEF Changing
<1>2. CASE AppendEntry \/ AppendFails \/ ApplyDecay \/ Reregister
  BY <1>2 DEF AppendEntry, AppendFails, ApplyDecay, Reregister, ChangeSilently, OnlyEvidence
<1>3. CASE ReadRecord \/ QueryEntries \/ QuerySummary \/ Tick \/ UNCHANGED vars
  BY <1>3 DEF ReadRecord, QueryEntries, QuerySummary, Tick, vars, OnlyEvidence
<1>. QED  BY <1>1, <1>2, <1>3 DEF Next, Changing

(* What was said does not change by what is said later. *)
LEMMA MeansStill ==
    ASSUME NEW es, NEW fs, NEW S, \A i \in S : es[i] = fs[i], NEW o, Means(o, es, S)
    PROVE  Means(o, fs, S)
PROOF
<1>1. /\ Sum(es, S, "positive") = Sum(fs, S, "positive")
      /\ Sum(es, S, "negative") = Sum(fs, S, "negative")
  BY SumAgrees
<1>2. Sums(es, S) = Sums(fs, S)
  BY <1>1 DEF Sums
<1>. QED  BY <1>2 DEF Means

LEMMA MeansMore ==
    ASSUME NEW es \in Seq(Entries), NEW e \in Entries, NEW o \in Weights,
           Means(o, es, DOMAIN es)
    PROVE  LET fs == Append(es, e)
           IN  Means(Fuse(o, FromEvidence(e.evidence)), fs, DOMAIN fs)
PROOF
<1>. DEFINE fs == Append(es, e)
            m == e.evidence.positive
            n == e.evidence.negative
            r == Sum(es, DOMAIN es, "positive")
            s == Sum(es, DOMAIN es, "negative")
<1>1. /\ fs \in Seq(Entries) /\ DOMAIN fs = DOMAIN es \cup {Len(fs)} /\ Len(fs) \notin DOMAIN es
      /\ fs[Len(fs)] = e /\ \A i \in DOMAIN es : fs[i] = es[i]
  BY AppendFacts
<1>2. m \in Nat /\ n \in Nat /\ e.evidence = [positive |-> m, negative |-> n]
  BY DEF Entries
<1>3. r \in Nat /\ s \in Nat
  BY SumIsNat DEF Kinds
<1>. HIDE DEF fs
<1>4. ASSUME NEW kind \in Kinds
      PROVE  Sum(fs, DOMAIN fs, kind) = Sum(es, DOMAIN es, kind) + e.evidence[kind]
  <2>1. /\ DOMAIN es \subseteq DOMAIN fs /\ {Len(fs)} \subseteq DOMAIN fs
        /\ DOMAIN es \cap {Len(fs)} = {}
    BY <1>1
  <2>2. Sum(fs, DOMAIN es \cup {Len(fs)}, kind)
          = Sum(fs, DOMAIN es, kind) + Sum(fs, {Len(fs)}, kind)
    <3>. DEFINE S == DOMAIN es
                T == {Len(fs)}
    <3>1. fs \in Seq(Entries) /\ S \in SUBSET DOMAIN fs /\ T \in SUBSET DOMAIN fs /\ S \cap T = {}
      BY <1>1, <2>1
    <3>. HIDE DEF S, T
    <3>2. Sum(fs, S \cup T, kind) = Sum(fs, S, kind) + Sum(fs, T, kind)
      BY <3>1, SumSplits
    <3>. QED  BY <3>2 DEF S, T
  <2>3. Sum(fs, DOMAIN es, kind) = Sum(es, DOMAIN es, kind)
    BY <1>1, SumAgrees
  <2>4. Sum(fs, {Len(fs)}, kind) = e.evidence[kind]
    BY <1>1, <2>1, SumOfOne
  <2>. QED  BY <1>1, <2>2, <2>3, <2>4
<1>5. Sums(fs, DOMAIN fs) = [positive |-> r + m, negative |-> s + n]
  <2>1. "positive" \in Kinds /\ "negative" \in Kinds
    BY DEF Kinds
  <2>2. Sum(fs, DOMAIN fs, "positive") = r + m /\ Sum(fs, DOMAIN fs, "negative") = s + n
    BY <1>4, <2>1
  <2>. QED  BY <2>2 DEF Sums
<1>6. IsEvidenceOf(o, [positive |-> r, negative |-> s])
  BY DEF Means, Sums
<1>. HIDE DEF m, n, r, s
<1>7. IsEvidenceOf(Fuse(o, FromEvidence([positive |-> m, negative |-> n])),
                   [positive |-> r + m, negative |-> s + n])
  BY <1>2, <1>3, <1>6, FuseAdds
<1>. QED  BY <1>2, <1>5, <1>7 DEF Means, fs

LEMMA InitHistory == Init => HistoryInv
PROOF
<1>. SUFFICES ASSUME Init, OnlyEvidence PROVE HistoryInv
  BY DEF HistoryInv, EvidenceLogged, EvidencePending, RecordRemembers,
         TicksRemember, ViewRemembers, EntriesAreOfLedger
<1>1. Log = << >> /\ DOMAIN Log = {} /\ Len(Log) = 0
  BY LogOfFacts DEF Init, Log
<1>2. record.opinion = Vacuous /\ record.count = 0
  <2>1. ~strayed /\ strayed = (record # Fresh)
    BY DEF Init, OnlyEvidence
  <2>2. record = Fresh
    BY <2>1, Zenon
  <2>. QED  BY <2>2 DEF Fresh
<1>3. Before(Log, 0) = {} /\ \A t \in 0..clock : t = 0 /\ was[t] = Vacuous
  BY <1>1, <1>2, BoundsAreNat DEF Before, Init
<1>4. Sums(Log, {}) = [positive |-> 0, negative |-> 0]
  BY SumOfNone DEF Sums
<1>5. Means(Vacuous, Log, {})
  BY <1>4, VacuousSaysNothing DEF Means
<1>6. \A t \in 0..clock : Means(was[t], Log, Before(Log, t))
  BY <1>3, <1>5
<1>7. /\ Means(record.opinion, Log, DOMAIN Log) /\ record.count = Len(Log)
      /\ pc = "idle" /\ pending = {}
  BY <1>1, <1>2, <1>5 DEF Init
<1>. QED  BY <1>1, <1>6, <1>7 DEF HistoryInv, EvidenceLogged, EvidencePending, RecordRemembers,
                                  TicksRemember, ViewRemembers, EntriesAreOfLedger

(* A submission adds what it says, to the log and to the record. *)
LEMMA ChangeRemembers ==
    ASSUME TypeInv, HistoryInv, OnlyEvidence, OnlyEvidence',
           NEW e \in Entries, NEW new \in [opinion: Weights, count: Nat], Change(e, new),
           e.type # "admin" => new.count = record.count + 1,
           misdated => misdated', misdated' \in BOOLEAN,
           ~strayed' => /\ new.opinion = Fuse(record.opinion, FromEvidence(e.evidence))
                        /\ e.type = "evidence" /\ e.source \in Sources
                        /\ ~misdated' => e.at = clock
    PROVE  HistoryInv'
PROOF
<1>. DEFINE o == new.opinion
<1>1. /\ pending' = pending \cup {e} /\ record' = new
      /\ UNCHANGED <<capacity, clock, ledger, pc, view, was>> /\ Unlocked
  BY DEF Change, explanation
<1>2. /\ pending = {} /\ e.type = "evidence" /\ e.source \in Sources
      /\ o = Fuse(record.opinion, FromEvidence(e.evidence)) /\ new.count = record.count + 1
      /\ ~misdated' => e.at = clock /\ ~misdated
  <2>1. \A x \in pending : x.type = "evidence" /\ x.type = "admin"
    BY <1>1 DEF HistoryInv, EvidenceLogged, EvidencePending, RecordRemembers,
                TicksRemember, ViewRemembers, EntriesAreOfLedger, Unlocked
  <2>2. ~strayed'
    BY DEF OnlyEvidence
  <2>. QED  BY <2>1, <2>2
<1>3. /\ ledger \in Seq(Entries) /\ record.opinion \in Weights /\ record.count \in Nat
      /\ clock \in Nat /\ view.count \in Nat /\ view.now \in Nat
  BY BoundsAreNat DEF TypeInv
<1>4. Log = ledger /\ Log' = Append(ledger, e) /\ pending' = {e}
  BY <1>1, <1>2, LogOfFacts DEF Log
<1>5. /\ \A i \in DOMAIN ledger : /\ ledger[i].type = "evidence" /\ ledger[i].source \in Sources
                                  /\ ~misdated => ledger[i].at <= clock
      /\ record.count = Len(ledger)
      /\ Means(record.opinion, ledger, DOMAIN ledger)
      /\ ~misdated => \A t \in 0..clock : Means(was[t], ledger, Before(ledger, t))
      /\ pc # "idle" =>
            /\ view.now <= clock /\ view.count <= Len(ledger)
            /\ Means(view.opinion, ledger, 1..view.count)
      /\ pc \in {"summary", "explained"} =>
            /\ Len(view.entries) <= Len(ledger)
            /\ \A i \in DOMAIN view.entries : view.entries[i] = ledger[i]
            /\ ~misdated => Before(ledger, view.now) \subseteq DOMAIN view.entries
  BY <1>4 DEF HistoryInv, EvidenceLogged, EvidencePending, RecordRemembers,
              TicksRemember, ViewRemembers, EntriesAreOfLedger
<1>. DEFINE log == Append(ledger, e)
<1>6. /\ log \in Seq(Entries) /\ Len(log) = Len(ledger) + 1 /\ Len(ledger) \in Nat
      /\ DOMAIN ledger = 1..Len(ledger) /\ DOMAIN log = DOMAIN ledger \cup {Len(log)}
      /\ log[Len(log)] = e /\ \A i \in DOMAIN ledger : log[i] = ledger[i]
  BY <1>3, AppendFacts
<1>. HIDE DEF o
<1>7. Means(o, log, DOMAIN log)
  BY <1>2, <1>3, <1>5, MeansMore
<1>. HIDE DEF log
<1>8. \A i \in DOMAIN log : /\ log[i].type = "evidence" /\ log[i].source \in Sources
                            /\ ~misdated' => log[i].at <= clock
  BY <1>2, <1>3, <1>5, <1>6
<1>9. ASSUME ~misdated', NEW t \in Nat, t <= clock
      PROVE  Before(log, t) = Before(ledger, t)
  <2>1. \A i \in DOMAIN log : log[i].at < t => i \in DOMAIN ledger
    BY <1>2, <1>3, <1>6, <1>9
  <2>. QED  BY <1>6, <2>1 DEF Before
<1>10. ASSUME ~misdated', NEW t \in 0..clock
       PROVE  Means(was[t], log, Before(log, t))
  <2>1. Before(log, t) = Before(ledger, t) /\ Before(ledger, t) \subseteq DOMAIN ledger
    BY <1>3, <1>9, <1>10 DEF Before
  <2>. QED  BY <1>2, <1>5, <1>6, <1>10, <2>1, MeansStill
<1>11. ASSUME pc # "idle"
       PROVE  view.now <= clock /\ view.count <= Len(log) /\ Means(view.opinion, log, 1..view.count)
  <2>1. 1..view.count \subseteq DOMAIN ledger /\ view.count <= Len(log)
    BY <1>3, <1>5, <1>6, <1>11
  <2>2. Means(view.opinion, log, 1..view.count)
    BY <1>5, <1>6, <1>11, <2>1, MeansStill
  <2>. QED  BY <1>5, <1>11, <2>1, <2>2
<1>12. ASSUME ~misdated', pc \in {"summary", "explained"}
       PROVE  Before(log, view.now) \subseteq DOMAIN view.entries
  BY <1>2, <1>3, <1>5, <1>9, <1>12
<1>13. record'.count = Len(log) /\ record'.opinion = o
  BY <1>1, <1>2, <1>5, <1>6 DEF o
<1>14. Log' = log
  BY <1>4 DEF log
<1>15. EvidenceLogged'
  BY <1>1, <1>8, <1>14 DEF EvidenceLogged
<1>16. EvidencePending'
  BY <1>1, <1>2, <1>4 DEF EvidencePending
<1>17. RecordRemembers'
  BY <1>7, <1>13, <1>14 DEF RecordRemembers
<1>18. TicksRemember'
  BY <1>1, <1>10, <1>14 DEF TicksRemember
<1>19. ViewRemembers'
  BY <1>1, <1>11, <1>14 DEF ViewRemembers
<1>20. EntriesAreOfLedger'
  BY <1>1, <1>5, <1>12, <1>14 DEF EntriesAreOfLedger
<1>. QED  BY <1>15, <1>16, <1>17, <1>18, <1>19, <1>20 DEF HistoryInv

(* The append changes nothing of that. *)
LEMMA AppendRemembers ==
    ASSUME TypeInv, HistoryInv, OnlyEvidence, AppendEntry
    PROVE  HistoryInv'
PROOF
<1>1. PICK e \in pending : /\ pending' = pending \ {e}
                           /\ ledger' = Kept(Append(ledger, e))
                           /\ UNCHANGED <<capacity, clock, made, record, pc, view, was, unledgered,
                                          strayed, misdated>>
  BY DEF AppendEntry, explanation
<1>2. pending = {e} /\ e \in Entries /\ ledger \in Seq(Entries) /\ capacity = 0
  BY <1>1 DEF HistoryInv, EvidenceLogged, EvidencePending, RecordRemembers,
              TicksRemember, ViewRemembers, EntriesAreOfLedger, OnlyEvidence, TypeInv
<1>3. ledger' = Append(ledger, e) /\ pending' = {}
  BY <1>1, <1>2 DEF Kept
<1>4. Log' = Log
  <2>1. Log = Append(ledger, e)
    BY <1>2, LogOfFacts DEF Log
  <2>2. Log' = LogOf(ledger', {})
    BY <1>3 DEF Log
  <2>3. LogOf(ledger', {}) = ledger'
    BY LogOfFacts
  <2>. QED  BY <1>3, <2>1, <2>2, <2>3
<1>5. view.entries \in Seq(Entries) /\ Len(ledger) \in Nat /\ Len(view.entries) \in Nat
  BY <1>2 DEF TypeInv
<1>6. Len(ledger) <= Len(ledger') /\ \A i \in 1..Len(ledger) : ledger'[i] = ledger[i]
  BY <1>2, <1>3, AppendFacts
<1>7. ASSUME pc \in {"summary", "explained"}
      PROVE  /\ Len(view.entries) <= Len(ledger')
             /\ \A i \in DOMAIN view.entries : view.entries[i] = ledger'[i]
  <2>1. /\ Len(view.entries) <= Len(ledger)
        /\ \A i \in DOMAIN view.entries : view.entries[i] = ledger[i]
    BY <1>7 DEF HistoryInv, EvidenceLogged, EvidencePending, RecordRemembers,
                TicksRemember, ViewRemembers, EntriesAreOfLedger
  <2>2. Len(ledger') \in Nat /\ DOMAIN view.entries = 1..Len(view.entries)
    BY <1>2, <1>3, <1>5, AppendFacts
  <2>. QED  BY <1>5, <1>6, <2>1, <2>2
<1>. QED  BY <1>1, <1>3, <1>4, <1>7 DEF HistoryInv, EvidenceLogged, EvidencePending, RecordRemembers,
                                        TicksRemember, ViewRemembers, EntriesAreOfLedger

(* What an explanation reads. *)
LEMMA ExplainRemembers ==
    ASSUME TypeInv, HistoryInv, OnlyEvidence, ReadRecord \/ QueryEntries \/ QuerySummary
    PROVE  HistoryInv'
PROOF
<1>1. UNCHANGED <<capacity, clock, made, record, pending, ledger, was, unledgered, strayed, misdated>>
  BY DEF ReadRecord, QueryEntries, QuerySummary
<1>2. Log' = Log
  BY <1>1 DEF Log
<1>3. /\ \A i \in DOMAIN Log : /\ Log[i].type = "evidence" /\ Log[i].source \in Sources
                               /\ ~misdated => Log[i].at <= clock
      /\ \A e \in pending : /\ pending = {e} /\ e.type = "evidence"
                            /\ ~misdated => e.at = clock
      /\ record.count = Len(Log)
      /\ Means(record.opinion, Log, DOMAIN Log)
      /\ ~misdated => \A t \in 0..clock : Means(was[t], Log, Before(Log, t))
  BY DEF HistoryInv, EvidenceLogged, EvidencePending, RecordRemembers,
         TicksRemember, ViewRemembers, EntriesAreOfLedger
<1>4. /\ Log \in Seq(Entries)
      /\ Len(ledger) \in Nat /\ Len(Log) \in Nat /\ Len(ledger) <= Len(Log)
      /\ DOMAIN ledger = 1..Len(ledger) /\ DOMAIN Log = 1..Len(Log)
      /\ \A i \in DOMAIN ledger : Log[i] = ledger[i]
      /\ \A i \in DOMAIN Log \ DOMAIN ledger : Log[i] \in pending
  BY <1>3, LogFacts
<1>5. CASE ReadRecord
  <2>1. /\ pc' = "query"
        /\ view' = [now |-> clock, opinion |-> record.opinion, count |-> record.count,
                    unledgered |-> unledgered, entries |-> << >>, total |-> 0]
    BY <1>5 DEF ReadRecord
  <2>2. view'.now = clock /\ view'.opinion = record.opinion /\ view'.count = Len(Log)
    BY <1>3, <2>1
  <2>3. clock <= clock /\ Len(Log) <= Len(Log) /\ Means(record.opinion, Log, 1..Len(Log))
    BY <1>3, <1>4, BoundsAreNat DEF TypeInv
  <2>4. pc' \notin {"summary", "explained"}
    BY <2>1
  <2>. QED  BY <1>1, <1>2, <1>3, <2>2, <2>3, <2>4 DEF HistoryInv, EvidenceLogged, EvidencePending, RecordRemembers,
                                                      TicksRemember, ViewRemembers, EntriesAreOfLedger
<1>6. CASE QueryEntries
  <2>1. /\ pc = "query" /\ pc' = "summary" /\ view' = [view EXCEPT !.entries = ledger]
    BY <1>6 DEF QueryEntries
  <2>2. /\ view'.now = view.now /\ view'.opinion = view.opinion /\ view'.count = view.count
        /\ view'.entries = ledger
    BY <2>1 DEF TypeInv
  <2>3. view.now <= clock /\ view.count <= Len(Log) /\ Means(view.opinion, Log, 1..view.count)
    BY <2>1 DEF HistoryInv, EvidenceLogged, EvidencePending, RecordRemembers,
                TicksRemember, ViewRemembers, EntriesAreOfLedger
  <2>4. ASSUME ~misdated PROVE Before(Log, view.now) \subseteq DOMAIN ledger
    <3>1. clock \in Nat /\ view.now \in Nat
      BY BoundsAreNat DEF TypeInv
    <3>2. \A i \in DOMAIN Log \ DOMAIN ledger : Log[i].at = clock
      BY <1>3, <1>4, <2>4
    <3>3. \A i \in DOMAIN Log : Log[i].at < view.now => i \in DOMAIN ledger
      BY <2>3, <3>1, <3>2
    <3>. QED  BY <3>3 DEF Before
  <2>5. Len(ledger) <= Len(ledger)
    BY <1>4
  <2>. QED  BY <1>1, <1>2, <1>3, <2>2, <2>3, <2>4, <2>5 DEF HistoryInv, EvidenceLogged, EvidencePending, RecordRemembers,
                                                            TicksRemember, ViewRemembers, EntriesAreOfLedger
<1>7. CASE QuerySummary
  <2>1. /\ pc = "summary" /\ pc' = "explained" /\ view' = [view EXCEPT !.total = Len(ledger)]
    BY <1>7 DEF QuerySummary
  <2>2. /\ view'.now = view.now /\ view'.opinion = view.opinion /\ view'.count = view.count
        /\ view'.entries = view.entries
    BY <2>1 DEF TypeInv
  <2>3. /\ view.now <= clock /\ view.count <= Len(Log) /\ Means(view.opinion, Log, 1..view.count)
        /\ Len(view.entries) <= Len(ledger)
        /\ \A i \in DOMAIN view.entries : view.entries[i] = ledger[i]
        /\ ~misdated => Before(Log, view.now) \subseteq DOMAIN view.entries
    BY <2>1 DEF HistoryInv, EvidenceLogged, EvidencePending, RecordRemembers,
                TicksRemember, ViewRemembers, EntriesAreOfLedger
  <2>. QED  BY <1>1, <1>2, <1>3, <2>2, <2>3 DEF HistoryInv, EvidenceLogged, EvidencePending, RecordRemembers,
                                                TicksRemember, ViewRemembers, EntriesAreOfLedger
<1>. QED  BY <1>5, <1>6, <1>7

(* A tick begins when all has been appended. *)
LEMMA TickRemembers ==
    ASSUME TypeInv, HistoryInv, OnlyEvidence, Tick
    PROVE  HistoryInv'
PROOF
<1>1. /\ pending = {} /\ clock' = clock + 1 /\ clock < MaxClock
      /\ was' = [was EXCEPT ![clock + 1] = record.opinion]
      /\ UNCHANGED <<capacity, made, record, pending, ledger, pc, view, unledgered, strayed, misdated>>
  BY DEF Tick, explanation
<1>2. Log' = Log
  BY <1>1 DEF Log
<1>3. clock \in Nat /\ MaxClock \in Nat /\ clock \in 0..MaxClock /\ view.now \in Nat
  BY BoundsAreNat DEF TypeInv
<1>4. /\ \A i \in DOMAIN Log : /\ Log[i].type = "evidence" /\ Log[i].source \in Sources
                               /\ ~misdated => Log[i].at <= clock
      /\ record.count = Len(Log)
      /\ Means(record.opinion, Log, DOMAIN Log)
      /\ ~misdated => \A t \in 0..clock : Means(was[t], Log, Before(Log, t))
      /\ pc # "idle" => view.now <= clock
  BY DEF HistoryInv, EvidenceLogged, EvidencePending, RecordRemembers,
         TicksRemember, ViewRemembers, EntriesAreOfLedger
<1>5. Log \in Seq(Entries) /\ \A i \in DOMAIN Log : Log[i].at \in Nat
  <2>1. Log \in Seq(Entries)
    BY <1>1, LogFacts
  <2>2. \A i \in DOMAIN Log : Log[i] \in Entries
    BY <2>1
  <2>. QED  BY <2>1, <2>2 DEF Entries
<1>6. ASSUME NEW i \in DOMAIN Log
      PROVE  /\ Log[i].type = "evidence" /\ Log[i].source \in Sources
             /\ ~misdated => Log[i].at <= clock'
  BY <1>1, <1>3, <1>4, <1>5
<1>7. ASSUME ~misdated, NEW t \in 0..clock'
      PROVE  Means(was'[t], Log, Before(Log, t))
  <2>1. CASE t = clock + 1
    <3>1. was'[t] = record.opinion
      BY <1>1, <1>3, <2>1 DEF TypeInv
    <3>2. \A i \in DOMAIN Log : Log[i].at < t
      BY <1>3, <1>4, <1>5, <1>7, <2>1
    <3>3. Before(Log, t) = DOMAIN Log
      BY <3>2 DEF Before
    <3>. QED  BY <1>4, <3>1, <3>3
  <2>2. CASE t # clock + 1
    <3>1. t \in 0..clock
      BY <1>1, <1>3, <2>2
    <3>2. was'[t] = was[t]
      BY <1>1, <1>3, <2>2, <3>1 DEF TypeInv
    <3>. QED  BY <1>4, <1>7, <3>1, <3>2
  <2>. QED  BY <2>1, <2>2
<1>8. pc # "idle" => view.now <= clock'
  BY <1>1, <1>3, <1>4
<1>. QED  BY <1>1, <1>2, <1>6, <1>7, <1>8 DEF HistoryInv, EvidenceLogged, EvidencePending, RecordRemembers,
                                              TicksRemember, ViewRemembers, EntriesAreOfLedger

LEMMA StepRemembers == CountInv /\ HistoryInv /\ [Next]_vars => HistoryInv'
PROOF
<1>. SUFFICES ASSUME CountInv, HistoryInv, [Next]_vars, OnlyEvidence' PROVE HistoryInv'
  BY DEF HistoryInv, EvidenceLogged, EvidencePending, RecordRemembers,
         TicksRemember, ViewRemembers, EntriesAreOfLedger
<1>1. TypeInv
  BY DEF CountInv
<1>2. OnlyEvidence /\ ~strayed'
  BY <1>1, OnlyEvidenceBefore DEF OnlyEvidence
<1>3. CASE Changing
  <2>1. PICK e \in Entries, new \in [opinion: Weights, count: Nat] :
              /\ Change(e, new)
              /\ misdated' \in BOOLEAN
              /\ misdated => misdated'
              /\ e.type # "admin" => new.count = record.count + 1
              /\ ~strayed' => /\ new.opinion = Fuse(record.opinion, FromEvidence(e.evidence))
                              /\ e.type = "evidence" /\ e.source \in Sources
                              /\ ~misdated' => e.at = clock
    BY <1>1, <1>3, ChangesAre
  <2>. QED  BY <1>1, <1>2, <2>1, ChangeRemembers
<1>4. CASE AppendEntry \/ ReadRecord \/ QueryEntries \/ QuerySummary \/ Tick
  BY <1>1, <1>2, <1>4, AppendRemembers, ExplainRemembers, TickRemembers
<1>5. CASE AppendFails \/ ApplyDecay \/ Reregister
  BY <1>2, <1>5 DEF AppendFails, ApplyDecay, Reregister, ChangeSilently
<1>6. CASE UNCHANGED vars
  <2>1. Log' = Log
    BY <1>6 DEF vars, Log
  <2>. QED  BY <1>2, <1>6, <2>1 DEF vars, explanation, HistoryInv, EvidenceLogged, EvidencePending, RecordRemembers,
                                    TicksRemember, ViewRemembers, EntriesAreOfLedger
<1>. QED  BY <1>3, <1>4, <1>5, <1>6 DEF Next, Changing

LEMMA AlwaysRemembers == Spec => [](CountInv /\ HistoryInv)
PROOF BY InitCount, StepCount, InitHistory, StepRemembers, PTL DEF Spec

-----------------------------------------------------------------------------
(* What an explanation says of that. *)

LEMMA EvidenceInIsSums == \A S : EvidenceIn(S) = Sums(view.entries, S)
PROOF BY DEF EvidenceIn, Sums, Sum, Amounts

(* The entries of an explanation, when only evidence drives the opinion. *)
LEMMA ExplainedEntries ==
    ASSUME CountInv, HistoryInv, Explained, OnlyEvidence
    PROVE  /\ view.entries \in Seq(Entries)
           /\ view.now \in Nat /\ view.now <= clock /\ clock \in 0..MaxClock
           /\ Indices("evidence") = DOMAIN view.entries
           /\ Log \in Seq(Entries) /\ DOMAIN view.entries \subseteq DOMAIN Log
           /\ \A i \in DOMAIN view.entries : /\ view.entries[i] = Log[i] /\ view.entries[i].at \in Nat
                                             /\ view.entries[i].source \in Sources
           /\ ~misdated => Before(Log, view.now) \subseteq DOMAIN view.entries
PROOF
<1>1. /\ TypeInv /\ pc = "explained" /\ view.entries \in Seq(Entries) /\ ledger \in Seq(Entries)
      /\ view.now \in Nat /\ clock \in 0..MaxClock
  BY BoundsAreNat DEF CountInv, TypeInv, Explained
<1>2. /\ \A i \in DOMAIN Log : Log[i].type = "evidence" /\ Log[i].source \in Sources
      /\ \A e \in pending : pending = {e}
      /\ view.now <= clock
      /\ Len(view.entries) <= Len(ledger)
      /\ \A i \in DOMAIN view.entries : view.entries[i] = ledger[i]
      /\ ~misdated => Before(Log, view.now) \subseteq DOMAIN view.entries
  BY <1>1 DEF HistoryInv, EvidenceLogged, EvidencePending, RecordRemembers,
              TicksRemember, ViewRemembers, EntriesAreOfLedger
<1>3. /\ Log \in Seq(Entries) /\ Len(ledger) \in Nat /\ Len(Log) \in Nat /\ Len(ledger) <= Len(Log)
      /\ DOMAIN ledger = 1..Len(ledger) /\ DOMAIN Log = 1..Len(Log)
      /\ \A i \in DOMAIN ledger : Log[i] = ledger[i]
  BY <1>1, <1>2, LogFacts
<1>4. /\ DOMAIN view.entries = 1..Len(view.entries) /\ Len(view.entries) \in Nat
      /\ \A i \in DOMAIN view.entries : view.entries[i] \in Entries
  BY <1>1
<1>5. DOMAIN view.entries \subseteq DOMAIN ledger /\ DOMAIN view.entries \subseteq DOMAIN Log
  BY <1>2, <1>3, <1>4
<1>6. \A i \in DOMAIN view.entries : view.entries[i] = Log[i]
  BY <1>2, <1>3, <1>5
<1>7. \A i \in DOMAIN view.entries : view.entries[i].at \in Nat /\ view.entries[i].source \in Sources
  BY <1>2, <1>4, <1>5, <1>6 DEF Entries
<1>8. Indices("evidence") = DOMAIN view.entries
  <2>1. \A i \in DOMAIN view.entries : view.entries[i].type = "evidence"
    BY <1>2, <1>5, <1>6
  <2>. QED  BY <2>1 DEF Indices
<1>. QED  BY <1>1, <1>2, <1>3, <1>5, <1>6, <1>7, <1>8

(* The start of the window is made of the entries before it. *)
LEMMA FromOpinionMeans ==
    ASSUME PriorWeight = DefaultPriorWeight, CountInv, HistoryInv, Explained, OnlyEvidence
    PROVE  LET S == DOMAIN view.entries \ Windowed("evidence")
           IN  /\ FromOpinion \in Weights /\ Means(FromOpinion, view.entries, S)
               /\ S = {i \in DOMAIN view.entries : view.entries[i].at < WindowStart}
PROOF
<1>. DEFINE S == DOMAIN view.entries \ Windowed("evidence")
            r == Sum(view.entries, S, "positive")
            s == Sum(view.entries, S, "negative")
<1>1. /\ view.entries \in Seq(Entries) /\ view.now \in Nat
      /\ Indices("evidence") = DOMAIN view.entries
      /\ \A i \in DOMAIN view.entries : view.entries[i].at \in Nat
  BY ExplainedEntries
<1>2. r \in Nat /\ s \in Nat
  <2>1. S \in SUBSET DOMAIN view.entries /\ "positive" \in Kinds /\ "negative" \in Kinds
    BY DEF Kinds
  <2>. HIDE DEF S
  <2>. QED  BY <1>1, <2>1, SumIsNat
<1>3. EvidenceIn(S) = [positive |-> r, negative |-> s]
  BY EvidenceInIsSums DEF Sums
<1>4. FromOpinion = [b |-> r, d |-> s, u |-> PriorWeight]
  <2>1. FromOpinion = [b |-> EvidenceIn(S).positive, d |-> EvidenceIn(S).negative, u |-> PriorWeight]
    BY <1>1 DEF FromOpinion
  <2>. QED  BY <1>3, <2>1, SMTT(30)
<1>5. S = {i \in DOMAIN view.entries : view.entries[i].at < WindowStart}
  <2>1. WindowStart \in Int
    BY <1>1, WindowIsPositive DEF WindowStart
  <2>2. \A i \in DOMAIN view.entries : i \notin Windowed("evidence") <=> view.entries[i].at < WindowStart
    BY <1>1, <2>1 DEF Windowed, InWindow
  <2>. QED  BY <2>2
<1>. HIDE DEF r, s, S
<1>6. FromOpinion \in Weights /\ IsEvidenceOf(FromOpinion, [positive |-> r, negative |-> s])
  BY <1>2, <1>4, EvidenceSays
<1>7. Sums(view.entries, S) = [positive |-> r, negative |-> s]
  BY DEF Sums, r, s
<1>. QED  BY <1>5, <1>6, <1>7 DEF Means, S

(* Opinions of the same entries are the same. *)
LEMMA MeansSame ==
    ASSUME NEW es \in Seq(Entries), NEW S \in SUBSET DOMAIN es,
           NEW o \in Weights, NEW p \in Weights, Means(o, es, S), Means(p, es, S)
    PROVE  Same(o, p)
PROOF
<1>. DEFINE r == Sum(es, S, "positive")
            s == Sum(es, S, "negative")
<1>1. r \in Nat /\ s \in Nat
  BY SumIsNat DEF Kinds
<1>2. /\ IsEvidenceOf(o, [positive |-> r, negative |-> s])
      /\ IsEvidenceOf(p, [positive |-> r, negative |-> s])
  BY DEF Means, Sums
<1>. HIDE DEF r, s
<1>. QED  BY <1>1, <1>2, EqualEvidenceIsSame

(* While only evidence drives the opinion, and is stamped with the time of its
   submission, from_opinion is what the opinion was when the window began,
   whatever was submitted while explain_trust read; for a manager that keeps the
   default prior weight. *)
THEOREM StartIsFaithful ==
    ASSUME PriorWeight = DefaultPriorWeight
    PROVE  Spec => []StartOfWindowIsFaithful
PROOF
<1>1. CountInv /\ HistoryInv => StartOfWindowIsFaithful
  <2>. SUFFICES ASSUME CountInv, HistoryInv, Explained, OnlyEvidence, ~misdated
                PROVE  Same(FromOpinion, was[IF WindowStart > 0 THEN WindowStart ELSE 0])
    BY DEF StartOfWindowIsFaithful
  <2>. DEFINE t == IF WindowStart > 0 THEN WindowStart ELSE 0
              S == DOMAIN view.entries \ Windowed("evidence")
  <2>1. /\ view.entries \in Seq(Entries)
        /\ view.now \in Nat /\ view.now <= clock /\ clock \in 0..MaxClock
        /\ Log \in Seq(Entries) /\ DOMAIN view.entries \subseteq DOMAIN Log
        /\ \A i \in DOMAIN view.entries : view.entries[i] = Log[i]
        /\ Before(Log, view.now) \subseteq DOMAIN view.entries
    BY ExplainedEntries
  <2>2. /\ FromOpinion \in Weights /\ Means(FromOpinion, view.entries, S)
        /\ S = {i \in DOMAIN view.entries : view.entries[i].at < WindowStart}
    BY FromOpinionMeans
  <2>3. WindowStart \in Int /\ WindowStart <= view.now /\ t \in 0..clock
    BY <2>1, WindowIsPositive, BoundsAreNat DEF WindowStart
  <2>4. \A i \in DOMAIN Log : Log[i].at \in Nat
    <3>1. \A i \in DOMAIN Log : Log[i] \in Entries
      BY <2>1
    <3>. QED  BY <3>1 DEF Entries
  <2>5. S = Before(Log, t)
    <3>1. ASSUME NEW i \in S PROVE i \in Before(Log, t)
      BY <2>1, <2>2, <2>3, <2>4 DEF Before
    <3>2. ASSUME NEW i \in Before(Log, t) PROVE i \in S
      <4>1. i \in DOMAIN Log /\ Log[i].at < t
        BY DEF Before
      <4>2. t = WindowStart
        BY <2>3, <2>4, <4>1
      <4>3. i \in Before(Log, view.now)
        BY <2>1, <2>3, <2>4, <4>1, <4>2 DEF Before
      <4>. QED  BY <2>1, <2>2, <4>1, <4>2, <4>3
    <3>. QED  BY <3>1, <3>2
  <2>6. was[t] \in Weights
    <3>. HIDE DEF t
    <3>1. MaxClock \in Nat
      BY BoundsAreNat
    <3>2. t \in 0..MaxClock
      BY <2>1, <2>3, <3>1
    <3>. QED  BY <3>2 DEF CountInv, TypeInv
  <2>7. S \in SUBSET DOMAIN view.entries
    OBVIOUS
  <2>. HIDE DEF S, t
  <2>8. Means(was[t], Log, S)
    BY <2>3, <2>5 DEF HistoryInv, EvidenceLogged, EvidencePending, RecordRemembers,
                      TicksRemember, ViewRemembers, EntriesAreOfLedger
  <2>9. Means(was[t], view.entries, S)
    BY <2>1, <2>7, <2>8, MeansStill
  <2>10. Same(FromOpinion, was[t])
    BY <2>1, <2>2, <2>6, <2>7, <2>9, MeansSame
  <2>. QED  BY <2>10 DEF t
<1>. QED  BY <1>1, AlwaysRemembers, PTL

(* What the contributors said in the window is what the window's entries say,
   every entry counted for one contributor. *)
LEMMA DifferencesAddUp ==
    ASSUME CountInv, HistoryInv, Explained, OnlyEvidence, NEW kind \in Kinds
    PROVE  Differences(kind) = Sum(view.entries, Windowed("evidence"), kind)
PROOF
<1>. DEFINE es == view.entries
            W == Windowed("evidence")
            of(s) == {i \in W : es[i].source = s}
            D == {s \in Sources : of(s) # {}}
            n == [s \in D |-> Sum(es, of(s), kind)]
            f == Amounts(es, W, kind)
            U == Units(W, f)
            class == [u \in U |-> es[u[1]].source]
<1>1. es \in Seq(Entries) /\ W \in SUBSET DOMAIN es /\ \A i \in DOMAIN es : es[i].source \in Sources
  <2>1. W \subseteq DOMAIN es
    BY DEF Windowed, Indices
  <2>. HIDE DEF W
  <2>. QED  BY <2>1, ExplainedEntries
<1>2. Differences(kind) = Total(n)
  <2>1. DOMAIN ContributorDiff = D
    BY DEF ContributorDiff
  <2>2. ASSUME NEW s \in D
        PROVE  ContributorDiff[s].evidence[kind] = Sum(es, of(s), kind)
    <3>1. ContributorDiff[s].evidence = EvidenceIn(of(s))
      BY DEF ContributorDiff
    <3>2. EvidenceIn(of(s)) = Sums(es, of(s))
      BY EvidenceInIsSums
    <3>3. \A S : Sums(es, S)[kind] = Sum(es, S, kind)
      BY DEF Sums, Kinds
    <3>. HIDE DEF of
    <3>. QED  BY <3>1, <3>2, <3>3
  <2>. HIDE DEF D, of
  <2>3. [s \in D |-> ContributorDiff[s].evidence[kind]] = n
    BY <2>2
  <2>. QED  BY <2>1, <2>3 DEF Differences
<1>3. IsFiniteSet(U) /\ Sum(es, W, kind) = Cardinality(U)
  <2>. HIDE DEF es, W
  <2>1. IsFiniteSet(W) /\ \A i \in W : f[i] \in Nat
    BY <1>1, AmountsAreNat
  <2>2. IsFiniteSet(U)
    <3>. HIDE DEF f
    <3>. QED  BY <2>1, UnitsAreFinite
  <2>3. W \in SUBSET W
    OBVIOUS
  <2>4. Sum(es, W, kind) = Cardinality(U)
    BY <2>3, SumIsUnits
  <2>. QED  BY <2>2, <2>4
<1>4. ASSUME NEW u \in U
      PROVE  u[1] \in W /\ class[u] \in D
  <2>1. u[1] \in W
    BY DEF Units
  <2>2. u[1] \in of(es[u[1]].source) /\ es[u[1]].source \in Sources
    BY <1>1, <2>1
  <2>. QED  BY <2>1, <2>2
<1>5. ASSUME NEW s \in D
      PROVE  n[s] = Cardinality({u \in U : class[u] = s})
  <2>1. of(s) \in SUBSET W
    OBVIOUS
  <2>2. Sum(es, of(s), kind) = Cardinality(Units(of(s), f))
    <3>. HIDE DEF es, of, W
    <3>. QED  BY <2>1, SumIsUnits
  <2>3. Units(of(s), f) = {u \in U : class[u] = s}
    <3>1. ASSUME NEW u \in Units(of(s), f)
          PROVE  u \in U /\ class[u] = s
      <4>1. PICK i \in of(s) : u \in {i} \X (1..f[i])
        BY DEF Units
      <4>2. u[1] = i /\ i \in W /\ es[i].source = s
        BY <4>1
      <4>3. u \in U
        BY <4>1, <4>2 DEF Units
      <4>. QED  BY <4>2, <4>3
    <3>2. ASSUME NEW u \in U, class[u] = s
          PROVE  u \in Units(of(s), f)
      <4>1. PICK i \in W : u \in {i} \X (1..f[i])
        BY DEF Units
      <4>2. u[1] = i /\ i \in of(s)
        BY <3>2, <4>1
      <4>. QED  BY <4>1, <4>2 DEF Units
    <3>. QED  BY <3>1, <3>2
  <2>. QED  BY <2>2, <2>3
<1>6. DOMAIN n = D
  OBVIOUS
<1>. HIDE DEF es, W, of, D, n, f, U, class
<1>7. Total(n) = Cardinality(U)
  BY <1>3, <1>4, <1>5, <1>6, PartsAddUp
<1>. QED  BY <1>2, <1>3, <1>7 DEF es, W

(* While only evidence drives the opinion, whatever time it is stamped with,
   from_opinion fused with what the contributors said in the window is
   to_opinion, once the entries have caught up with the record; for a manager
   that keeps the default prior weight. *)
THEOREM DeltasAreContributed ==
    ASSUME PriorWeight = DefaultPriorWeight
    PROVE  Spec => []DeltaIsContributed
PROOF
<1>1. CountInv /\ HistoryInv => DeltaIsContributed
  <2>. SUFFICES ASSUME CountInv, HistoryInv, Explained, OnlyEvidence, Settled
                PROVE  Same(view.opinion,
                            Fuse(FromOpinion,
                                 FromEvidence([positive |-> Differences("positive"),
                                               negative |-> Differences("negative")])))
    BY DEF DeltaIsContributed
  <2>. DEFINE es == view.entries
              W == Windowed("evidence")
              S == DOMAIN es \ W
              m == Sum(es, W, "positive")
              n == Sum(es, W, "negative")
              r == Sum(es, S, "positive")
              s == Sum(es, S, "negative")
              start == FromOpinion
              end == Fuse(start, FromEvidence([positive |-> m, negative |-> n]))
  <2>1. /\ es \in Seq(Entries) /\ Log \in Seq(Entries) /\ DOMAIN es \subseteq DOMAIN Log
        /\ \A i \in DOMAIN es : es[i] = Log[i]
    BY ExplainedEntries
  <2>2. start \in Weights /\ Means(start, es, S)
    BY FromOpinionMeans
  <2>3. W \subseteq DOMAIN es /\ W \in SUBSET DOMAIN es /\ S \in SUBSET DOMAIN es
        /\ S \cup W = DOMAIN es /\ S \cap W = {}
    BY DEF Windowed, Indices
  <2>4. Differences("positive") = m /\ Differences("negative") = n
    BY DifferencesAddUp DEF Kinds
  <2>5. view.opinion \in Weights
    BY DEF CountInv, TypeInv
  <2>6. Means(view.opinion, es, DOMAIN es)
    <3>1. Means(view.opinion, Log, 1..view.count)
      BY DEF HistoryInv, EvidenceLogged, EvidencePending, RecordRemembers,
             TicksRemember, ViewRemembers, EntriesAreOfLedger, Explained
    <3>2. 1..view.count = DOMAIN es
      BY <2>1 DEF Settled
    <3>. HIDE DEF es
    <3>. QED  BY <2>1, <3>1, <3>2, MeansStill
  <2>. HIDE DEF es, W, S, start
  <2>7. m \in Nat /\ n \in Nat /\ r \in Nat /\ s \in Nat
    <3>1. "positive" \in Kinds /\ "negative" \in Kinds
      BY DEF Kinds
    <3>2. m \in Nat /\ n \in Nat
      BY <2>1, <2>3, <3>1, SumIsNat
    <3>3. r \in Nat /\ s \in Nat
      BY <2>1, <2>3, <3>1, SumIsNat
    <3>. QED  BY <3>2, <3>3
  <2>8. Sums(es, DOMAIN es) = [positive |-> r + m, negative |-> s + n]
    <3>1. Sum(es, S \cup W, "positive") = r + m
      BY <2>1, <2>3, SumSplits DEF Kinds
    <3>2. Sum(es, S \cup W, "negative") = s + n
      BY <2>1, <2>3, SumSplits DEF Kinds
    <3>. QED  BY <2>3, <3>1, <3>2 DEF Sums
  <2>9. IsEvidenceOf(start, [positive |-> r, negative |-> s])
    BY <2>2 DEF Means, Sums
  <2>. HIDE DEF m, n, r, s
  <2>10. end \in Weights /\ IsEvidenceOf(end, [positive |-> r + m, negative |-> s + n])
    BY <2>2, <2>7, <2>9, FuseAdds
  <2>11. Means(end, es, DOMAIN es)
    BY <2>8, <2>10 DEF Means
  <2>. HIDE DEF end
  <2>12. Same(view.opinion, end)
    <3>1. DOMAIN es \in SUBSET DOMAIN es
      OBVIOUS
    <3>. QED  BY <2>1, <2>5, <2>6, <2>10, <2>11, <3>1, MeansSame
  <2>. QED  BY <2>4, <2>12 DEF end, start
<1>. QED  BY <1>1, AlwaysRemembers, PTL
=============================================================================

------------------------- MODULE Assessment_proofs -------------------------
(***************************************************************************)
(* Theorems about one record in exact arithmetic, and about the decisions  *)
(* and estimates that are made from it: for all evidence, all authorities, *)
(* all thresholds, any half-life and any number of submissions and sweeps. *)
(*                                                                         *)
(* The first part is about the steps of EvidenceAccount, the second about  *)
(* what Assessment concludes from a record that they have left.            *)
(***************************************************************************)
EXTENDS Assessment, FiniteSetTheorems, WellFoundedInduction, NaturalsInduction, TLAPS

(* Opinion o is supported by r and s units of evidence. *)
Supported(o, r, s) ==
    /\ o \in Opinions
    /\ ~Dogmatic(o)
    /\ PriorWeight * o.b <= r * o.u
    /\ PriorWeight * o.d <= s * o.u

-----------------------------------------------------------------------------
(* Arithmetic of natural numbers, for the provers. *)
LEMMA ProductIsNat ==
    ASSUME NEW x \in Nat, NEW y \in Nat
    PROVE  x * y \in Nat /\ (x > 0 /\ y > 0 => x * y > 0)
PROOF OBVIOUS

LEMMA ScaledLess ==
    ASSUME NEW x \in Nat, NEW y \in Nat, NEW n \in Nat, x <= y
    PROVE  x * n <= y * n
PROOF OBVIOUS

(* Two bounds on fractions over u and v add up to one over u * v. *)
LEMMA BoundsAdd ==
    ASSUME NEW w \in Nat, NEW b \in Nat, NEW u \in Nat, NEW r \in Nat, w * b <= r * u,
           NEW c \in Nat, NEW v \in Nat, NEW q \in Nat, w * c <= q * v
    PROVE  w * (b * v + c * u) <= (r + q) * (u * v)
PROOF
<1>1. (w * b) * v <= (r * u) * v
  BY ProductIsNat, ScaledLess
<1>2. (w * c) * u <= (q * v) * u
  BY ProductIsNat, ScaledLess
<1>3. w * (b * v + c * u) = (w * b) * v + (w * c) * u
  OBVIOUS
<1>4. (r + q) * (u * v) = (r * u) * v + (q * v) * u
  OBVIOUS
<1>. QED  BY <1>1, <1>2, <1>3, <1>4, ProductIsNat

-----------------------------------------------------------------------------
LEMMA OpinionParts ==
    ASSUME NEW o \in Opinions
    PROVE  o.b \in Nat /\ o.d \in Nat /\ o.u \in Nat /\ Weight(o) \in Nat \ {0}
           /\ Weight(o) = o.b + o.d + o.u
PROOF BY DEF Opinions, Weights, Weight

LEMMA CertainParts ==
    ASSUME NEW b \in Nat, NEW d \in Nat, NEW u \in Nat \ {0}
    PROVE  LET o == [b |-> b, d |-> d, u |-> u]
           IN  o \in Opinions /\ ~Dogmatic(o)
PROOF BY DEF Opinions, Weights, Weight, Dogmatic

(* The opinion evidence makes is supported by it, and is exactly it. *)
LEMMA EvidenceSupports ==
    ASSUME NEW e \in Evidence
    PROVE  /\ Supported(FromEvidence(e), e.positive, e.negative)
           /\ IsEvidenceOf(FromEvidence(e), e)
PROOF
<1>1. e.positive \in Nat /\ e.negative \in Nat
  BY EvidenceIsCounted
<1>2. FromEvidence(e) \in Opinions /\ ~Dogmatic(FromEvidence(e))
  BY <1>1, CertainParts, PriorWeightIsPositive DEF FromEvidence
<1>3. /\ PriorWeight * e.positive = e.positive * PriorWeight
      /\ PriorWeight * e.negative = e.negative * PriorWeight
  BY <1>1, PriorWeightIsPositive
<1>4. /\ e.positive * PriorWeight \in Nat
      /\ e.negative * PriorWeight \in Nat
  BY <1>1, ProductIsNat, PriorWeightIsPositive
<1>. QED  BY <1>2, <1>3, <1>4 DEF Supported, IsEvidenceOf, FromEvidence

(* Cumulative fusion adds the evidence behind two opinions. *)
LEMMA FuseSupports ==
    ASSUME NEW p, NEW q, NEW r \in Nat, NEW s \in Nat, NEW m \in Nat, NEW n \in Nat,
           Supported(p, r, s), Supported(q, m, n)
    PROVE  Supported(Fuse(p, q), r + m, s + n)
PROOF
<1>1. /\ p \in Opinions /\ q \in Opinions /\ p.u > 0 /\ q.u > 0
      /\ p.b \in Nat /\ p.d \in Nat /\ p.u \in Nat
      /\ q.b \in Nat /\ q.d \in Nat /\ q.u \in Nat
  BY OpinionParts DEF Supported, Dogmatic
<1>2. Fuse(p, q) = [b |-> p.b * q.u + q.b * p.u, d |-> p.d * q.u + q.d * p.u,
                    u |-> p.u * q.u]
  BY DEF Fuse, Supported
<1>3. /\ p.b * q.u + q.b * p.u \in Nat
      /\ p.d * q.u + q.d * p.u \in Nat
      /\ p.u * q.u \in Nat \ {0}
  BY <1>1, ProductIsNat
<1>4. Fuse(p, q) \in Opinions /\ ~Dogmatic(Fuse(p, q))
  BY <1>2, <1>3, CertainParts
<1>5. PriorWeight * (p.b * q.u + q.b * p.u) <= (r + m) * (p.u * q.u)
  BY <1>1, BoundsAdd, PriorWeightIsPositive DEF Supported
<1>6. PriorWeight * (p.d * q.u + q.d * p.u) <= (s + n) * (p.u * q.u)
  BY <1>1, BoundsAdd, PriorWeightIsPositive DEF Supported
<1>. QED  BY <1>2, <1>4, <1>5, <1>6 DEF Supported

(* The same for equality: evidence-fusion equivalence. *)
LEMMA FuseAddsEvidence ==
    ASSUME NEW o, NEW r \in Nat, NEW s \in Nat, NEW e \in Evidence,
           o \in Opinions, IsEvidenceOf(o, [positive |-> r, negative |-> s])
    PROVE  IsEvidenceOf(Fuse(o, FromEvidence(e)),
                        [positive |-> r + e.positive, negative |-> s + e.negative])
PROOF
<1>. DEFINE q == FromEvidence(e)
            f == Fuse(o, q)
<1>1. q \in Opinions /\ ~Dogmatic(q) /\ IsEvidenceOf(q, e)
      /\ e.positive \in Nat /\ e.negative \in Nat
  <2>1. Supported(q, e.positive, e.negative) /\ IsEvidenceOf(q, e)
    BY EvidenceSupports
  <2>. QED  BY <2>1, EvidenceIsCounted DEF Supported
<1>2. /\ ~Dogmatic(o)
      /\ PriorWeight * o.b = r * o.u /\ PriorWeight * o.d = s * o.u
      /\ PriorWeight * q.b = e.positive * q.u /\ PriorWeight * q.d = e.negative * q.u
  BY <1>1 DEF IsEvidenceOf
<1>3. f = [b |-> o.b * q.u + q.b * o.u, d |-> o.d * q.u + q.d * o.u, u |-> o.u * q.u]
  BY <1>2 DEF Fuse
<1>4. /\ o.b \in Nat /\ o.d \in Nat /\ o.u \in Nat \ {0}
      /\ q.b \in Nat /\ q.d \in Nat /\ q.u \in Nat \ {0}
  BY <1>1, <1>2, OpinionParts DEF Dogmatic
<1>. HIDE DEF q
<1>5. o.u * q.u > 0
  BY <1>4, ProductIsNat
<1>. HIDE DEF f
<1>6. PriorWeight \in Nat /\ o.u \in Nat /\ q.u \in Nat
  BY <1>4, PriorWeightIsPositive
<1>7. PriorWeight * (o.b * q.u + q.b * o.u) = (r + e.positive) * (o.u * q.u)
  <2>1. PriorWeight * (o.b * q.u + q.b * o.u)
          = (PriorWeight * o.b) * q.u + (PriorWeight * q.b) * o.u
    BY <1>4, <1>6
  <2>2. (r + e.positive) * (o.u * q.u) = (r * o.u) * q.u + (e.positive * q.u) * o.u
    BY <1>1, <1>6
  <2>. QED  BY <1>2, <2>1, <2>2
<1>8. PriorWeight * (o.d * q.u + q.d * o.u) = (s + e.negative) * (o.u * q.u)
  <2>1. PriorWeight * (o.d * q.u + q.d * o.u)
          = (PriorWeight * o.d) * q.u + (PriorWeight * q.d) * o.u
    BY <1>4, <1>6
  <2>2. (s + e.negative) * (o.u * q.u) = (s * o.u) * q.u + (e.negative * q.u) * o.u
    BY <1>1, <1>6
  <2>. QED  BY <1>2, <2>1, <2>2
<1>9. f.b = o.b * q.u + q.b * o.u /\ f.d = o.d * q.u + q.d * o.u /\ f.u = o.u * q.u
  BY <1>3
<1>10. ~Dogmatic(f)
  BY <1>5, <1>9 DEF Dogmatic
<1>. QED  BY <1>7, <1>8, <1>9, <1>10 DEF IsEvidenceOf, f, q

(* Moving mass from belief and disbelief to uncertainty loses no support:
   o scaled by n, of which only k times the belief and disbelief is kept. *)
LEMMA WeakerIsSupported ==
    ASSUME NEW o, NEW r \in Nat, NEW s \in Nat, Supported(o, r, s),
           NEW k \in Nat, NEW n \in Nat \ {0}, k <= n
    PROVE  Supported([b |-> k * o.b, d |-> k * o.d, u |-> n * Weight(o) - k * (o.b + o.d)], r, s)
PROOF
<1>. DEFINE v == n * Weight(o) - k * (o.b + o.d)
<1>1. /\ o.b \in Nat /\ o.d \in Nat /\ o.u \in Nat \ {0} /\ Weight(o) \in Nat
      /\ Weight(o) = o.b + o.d + o.u
  BY OpinionParts DEF Supported, Dogmatic
<1>2. k * Weight(o) <= n * Weight(o)
  BY <1>1, ScaledLess
<1>3. k * Weight(o) = k * (o.b + o.d) + k * o.u
  BY <1>1
<1>4. k * o.u \in Nat /\ k * (o.b + o.d) \in Nat /\ n * Weight(o) \in Nat
      /\ k * o.b \in Nat /\ k * o.d \in Nat
  BY <1>1, ProductIsNat
<1>5. v \in Nat \ {0} /\ k * o.u <= v
  <2>1. v \in Nat /\ k * o.u <= v
    BY <1>2, <1>3, <1>4
  <2>2. v > 0
    <3>1. CASE k = 0
      <4>1. n * Weight(o) > 0 /\ k * (o.b + o.d) = 0
        BY <1>1, <3>1, ProductIsNat
      <4>. QED  BY <4>1, <1>4
    <3>2. CASE k > 0
      <4>1. k * o.u > 0
        BY <1>1, <3>2, ProductIsNat
      <4>. QED  BY <2>1, <4>1, <1>4
    <3>. QED  BY <3>1, <3>2
  <2>. QED  BY <2>1, <2>2
<1>. HIDE DEF v
<1>6. /\ PriorWeight * (k * o.b) <= r * v
      /\ PriorWeight * (k * o.d) <= s * v
  <2>1. /\ (PriorWeight * o.b) * k <= (r * o.u) * k
        /\ (PriorWeight * o.d) * k <= (s * o.u) * k
    BY <1>1, ProductIsNat, ScaledLess, PriorWeightIsPositive DEF Supported
  <2>2. /\ PriorWeight * (k * o.b) = (PriorWeight * o.b) * k
        /\ PriorWeight * (k * o.d) = (PriorWeight * o.d) * k
    BY <1>1, PriorWeightIsPositive
  <2>3. (r * o.u) * k = (k * o.u) * r /\ (s * o.u) * k = (k * o.u) * s
    BY <1>1
  <2>4. (k * o.u) * r <= v * r /\ (k * o.u) * s <= v * s
    BY <1>4, <1>5, ScaledLess
  <2>5. v * r = r * v /\ v * s = s * v
    BY <1>5
  <2>6. /\ (r * o.u) * k <= r * v
        /\ (s * o.u) * k <= s * v
    BY <2>3, <2>4, <2>5
  <2>7. /\ PriorWeight * (k * o.b) \in Nat /\ PriorWeight * (k * o.d) \in Nat
        /\ (r * o.u) * k \in Nat /\ (s * o.u) * k \in Nat
        /\ r * v \in Nat /\ s * v \in Nat
    BY <1>1, <1>4, <1>5, ProductIsNat, PriorWeightIsPositive
  <2>. QED  BY <2>1, <2>2, <2>6, <2>7
<1>7. [b |-> k * o.b, d |-> k * o.d, u |-> v] \in Opinions
      /\ ~Dogmatic([b |-> k * o.b, d |-> k * o.d, u |-> v])
  BY <1>4, <1>5, CertainParts
<1>. QED  BY <1>6, <1>7 DEF Supported, v

LEMMA DiscountSupports ==
    ASSUME NEW authority \in Authorities, NEW e \in Evidence
    PROVE  Supported(Discount(authority, FromEvidence(e)), e.positive, e.negative)
PROOF
<1>. DEFINE t == Trustworthiness(authority)
            o == FromEvidence(e)
<1>1. Supported(o, e.positive, e.negative) /\ e.positive \in Nat /\ e.negative \in Nat
  BY EvidenceSupports, EvidenceIsCounted
<1>2. t[1] \in Nat /\ t[2] \in Nat \ {0} /\ t[1] <= t[2]
  <2>1. authority \in Opinions
    BY AuthoritiesAreOpinions
  <2>. QED  BY <2>1, OpinionParts DEF Trustworthiness
<1>3. Discount(authority, o)
        = [b |-> t[1] * o.b, d |-> t[1] * o.d, u |-> t[2] * Weight(o) - t[1] * (o.b + o.d)]
  BY DEF Discount
<1>. HIDE DEF t, o
<1>4. Supported(Discount(authority, o), e.positive, e.negative)
  BY <1>1, <1>2, <1>3, WeakerIsSupported
<1>. QED  BY <1>4 DEF o

LEMMA DecaySupports ==
    ASSUME NEW o, NEW r \in Nat, NEW s \in Nat, Supported(o, r, s), NEW g \in Nat \ {0}
    PROVE  Supported(Decay(o, g), r, s)
PROOF
<1>1. /\ o.b \in Nat /\ o.d \in Nat /\ g * Weight(o) \in Nat
  BY OpinionParts, ProductIsNat DEF Supported
<1>2. 1 * o.b = o.b /\ 1 * o.d = o.d /\ 1 * (o.b + o.d) = o.b + o.d
  BY <1>1
<1>3. Supported([b |-> 1 * o.b, d |-> 1 * o.d, u |-> g * Weight(o) - 1 * (o.b + o.d)], r, s)
  BY WeakerIsSupported
<1>. QED  BY <1>2, <1>3 DEF Decay

(* No time, no decay. *)
LEMMA DecayByOne ==
    ASSUME NEW o \in Opinions
    PROVE  Decay(o, 1) = o
PROOF
<1>1. 1 * Weight(o) - (o.b + o.d) = o.u
  BY OpinionParts
<1>2. o = [b |-> o.b, d |-> o.d, u |-> o.u]
  BY DEF Opinions, Weights
<1>. QED  BY <1>1, <1>2 DEF Decay

(* Two sweeps decay as much as one. *)
LEMMA DecayComposes ==
    ASSUME NEW o \in Opinions, NEW g \in Nat \ {0}, NEW h \in Nat \ {0}
    PROVE  Decay(Decay(o, g), h) = Decay(o, g * h)
PROOF
<1>. DEFINE w == Weight(o)
            n == o.b + o.d
<1>1. w \in Nat /\ n \in Nat /\ g * w \in Nat
  BY OpinionParts, ProductIsNat
<1>. HIDE DEF w
<1>2. Weight(Decay(o, g)) = g * w
  BY <1>1, OpinionParts DEF Weight, Decay, w
<1>3. h * (g * w) = (g * h) * w
  BY <1>1
<1>4. Decay(o, g).b = o.b /\ Decay(o, g).d = o.d
  BY DEF Decay
<1>. QED  BY <1>2, <1>3, <1>4 DEF Decay, w

LEMMA DecayParts ==
    ASSUME NEW o \in Opinions, NEW g \in Nat \ {0}
    PROVE  /\ Decay(o, g) \in Opinions
           /\ Decay(o, g).b = o.b /\ Decay(o, g).d = o.d
           /\ Decay(o, g).u = g * Weight(o) - (o.b + o.d)
           /\ Weight(Decay(o, g)) = g * Weight(o) /\ Weight(o) <= g * Weight(o)
PROOF
<1>1. o.b \in Nat /\ o.d \in Nat /\ Weight(o) \in Nat \ {0} /\ o.b + o.d <= Weight(o)
  BY OpinionParts
<1>2. 1 * Weight(o) <= g * Weight(o) /\ g * Weight(o) \in Nat
  BY <1>1, ScaledLess, ProductIsNat
<1>3. g * Weight(o) - (o.b + o.d) \in Nat
  BY <1>1, <1>2
<1>4. Weight(Decay(o, g)) = g * Weight(o)
  BY <1>1, <1>2 DEF Decay, Weight
<1>. QED  BY <1>1, <1>2, <1>3, <1>4 DEF Decay, Opinions, Weights

(* What time_decay computes, where time has not run backwards. *)
LEMMA TimeDecayIsDecay ==
    ASSUME NEW o \in Opinions, NEW k \in 0..MaxDecay
    PROVE  /\ Growth(k) \in Nat \ {0}
           /\ TimeDecay(o, k) = Decay(o, Growth(k))
PROOF
<1>1. Growth(k) \in Nat \ {0} /\ Growth(0) = 1
  BY GrowthIsExponential
<1>2. CASE k = 0
  BY <1>1, <1>2, DecayByOne DEF TimeDecay
<1>3. CASE k # 0
  <2>1. ~(k <= 0)
    BY <1>3, BoundsAreNat DEF MaxDecay
  <2>. QED  BY <1>1, <2>1 DEF TimeDecay
<1>. QED  BY <1>2, <1>3

(* Two sweeps one after the other decay as much as one. *)
LEMMA SweepsAdd ==
    ASSUME NEW o \in Opinions, NEW m \in 0..MaxDecay, NEW n \in 0..MaxDecay, m + n <= MaxDecay
    PROVE  TimeDecay(Decay(o, Growth(m)), n) = Decay(o, Growth(m + n))
PROOF
<1>1. m + n \in 0..MaxDecay
  BY BoundsAreNat DEF MaxDecay
<1>2. /\ Growth(m) \in Nat \ {0} /\ Growth(n) \in Nat \ {0}
      /\ Growth(m + n) = Growth(m) * Growth(n)
  BY GrowthIsExponential
<1>. DEFINE q == Decay(o, Growth(m))
<1>3. q \in Opinions
  BY <1>2, DecayParts
<1>4. Decay(q, Growth(n)) = Decay(o, Growth(m) * Growth(n))
  BY <1>2, DecayComposes
<1>. HIDE DEF q
<1>5. TimeDecay(q, n) = Decay(q, Growth(n))
  BY <1>3, TimeDecayIsDecay
<1>. QED  BY <1>2, <1>4, <1>5 DEF q

-----------------------------------------------------------------------------
(* The account of a record is in order. *)
AccountInv ==
    /\ TypeOK
    /\ heard.taken <= taken
    /\ Supported(record.opinion, record.positive, record.negative)
    /\ OpinionIsEvidenceSum
    /\ DecayIsScheduleFree
    /\ record.updated <= clock

LEMMA InitAccount == Init => AccountInv
PROOF
<1>. SUFFICES ASSUME Init PROVE AccountInv
  OBVIOUS
<1>1. Vacuous \in Opinions /\ ~Dogmatic(Vacuous)
  BY CertainParts DEF Vacuous
<1>2. record.opinion = Vacuous /\ record.positive = 0 /\ record.negative = 0
      /\ record.updated = 0 /\ clock = 0 /\ taken = 0
      /\ heard = [opinion |-> Vacuous, at |-> 0, taken |-> 0]
  BY DEF Init
<1>3. TypeOK
  BY <1>1, BoundsAreNat DEF Init, TypeOK
<1>4. IsEvidenceOf(Vacuous, [positive |-> 0, negative |-> 0])
      /\ Supported(Vacuous, 0, 0)
  BY <1>1, PriorWeightIsPositive DEF IsEvidenceOf, Supported, Vacuous
<1>5. record.opinion
        = Decay(heard.opinion, Growth(record.updated - heard.at + (taken - heard.taken)))
  BY <1>1, <1>2, DecayByOne, GrowthIsExponential
<1>. QED  BY <1>2, <1>3, <1>4, <1>5 DEF AccountInv, OpinionIsEvidenceSum, DecayIsScheduleFree

(* A submission, plain or discounted, whose opinion is supported by e. *)
LEMMA AbsorbAccount ==
    ASSUME AccountInv, NEW e \in Evidence, NEW op, Absorb(op, e),
           Supported(op, e.positive, e.negative), plain' \in BOOLEAN,
           plain' => plain /\ op = FromEvidence(e)
    PROVE  AccountInv'
PROOF
<1>. DEFINE o == Fuse(record.opinion, op)
            r == record.positive
            s == record.negative
<1>1. /\ e.positive \in Nat /\ e.negative \in Nat /\ r \in Nat /\ s \in Nat
      /\ record.count \in 0..MaxCount /\ clock \in 0..MaxClock /\ taken \in 0..MaxTaken
      /\ Supported(record.opinion, r, s)
  BY EvidenceIsCounted DEF AccountInv, TypeOK
<1>2. /\ record' = [opinion |-> o, positive |-> r + e.positive, negative |-> s + e.negative,
                    count |-> record.count + 1, updated |-> clock]
      /\ heard' = [opinion |-> o, at |-> clock, taken |-> taken]
      /\ clock' = clock /\ taken' = taken
      /\ record.count < MaxCount
  BY DEF Absorb
<1>3. Supported(o, r + e.positive, s + e.negative)
  BY <1>1, FuseSupports
<1>4. ASSUME plain'
      PROVE  IsEvidenceOf(o, [positive |-> r + e.positive, negative |-> s + e.negative])
  <2>1. record.opinion \in Opinions /\ op = FromEvidence(e)
        /\ IsEvidenceOf(record.opinion, [positive |-> r, negative |-> s])
    BY <1>1, <1>4 DEF AccountInv, OpinionIsEvidenceSum, Supported
  <2>. QED  BY <1>1, <2>1, FuseAddsEvidence
<1>. HIDE DEF o
<1>5. TypeOK'
  <2>1. o \in Opinions /\ record.count + 1 \in 0..MaxCount
        /\ r + e.positive \in Nat /\ s + e.negative \in Nat
    BY <1>1, <1>2, <1>3, BoundsAreNat DEF Supported
  <2>. QED  BY <1>1, <1>2, <2>1 DEF TypeOK
<1>6. DecayIsScheduleFree'
  <2>1. clock - clock + (taken - taken) = 0 /\ clock <= clock + (taken - taken)
    BY <1>1, BoundsAreNat
  <2>2. o = Decay(o, Growth(0))
    BY <1>3, DecayByOne, GrowthIsExponential DEF Supported
  <2>. QED  BY <1>2, <2>1, <2>2 DEF DecayIsScheduleFree
<1>7. OpinionIsEvidenceSum'
  BY <1>2, <1>4 DEF OpinionIsEvidenceSum
<1>8. (record.updated <= clock)' /\ (heard.taken <= taken)'
  BY <1>1, <1>2, BoundsAreNat
<1>. QED  BY <1>2, <1>3, <1>5, <1>6, <1>7, <1>8 DEF AccountInv

LEMMA DecayAccount ==
    ASSUME AccountInv, NEW now \in 0..clock, ApplyDecay(now)
    PROVE  AccountInv'
PROOF
<1>. DEFINE m == record.updated - heard.at + (taken - heard.taken)
            n == now - record.updated
            o == TimeDecay(record.opinion, n)
<1>1. /\ clock \in 0..MaxClock /\ record.updated \in 0..MaxClock /\ heard.at \in 0..MaxClock
      /\ taken \in 0..MaxTaken /\ heard.taken \in 0..MaxTaken /\ heard.taken <= taken
      /\ heard.at <= record.updated + (taken - heard.taken) /\ record.updated <= clock
      /\ heard.opinion \in Opinions /\ record.positive \in Nat /\ record.negative \in Nat
      /\ record.opinion = Decay(heard.opinion, Growth(m)) /\ record.opinion \in Opinions
      /\ Supported(record.opinion, record.positive, record.negative)
      /\ plain \in BOOLEAN
  BY DEF AccountInv, TypeOK, DecayIsScheduleFree
<1>2. /\ record' = [record EXCEPT !.opinion = o, !.updated = now]
      /\ taken' = taken + (IF now < record.updated THEN record.updated - now ELSE 0)
      /\ taken' <= MaxTaken /\ plain' = (plain /\ now <= record.updated)
      /\ clock' = clock /\ heard' = heard
  BY DEF ApplyDecay, Sweep
<1>3. /\ MaxClock \in Nat /\ MaxTaken \in Nat /\ MaxDecay = MaxClock + MaxTaken
      /\ now \in 0..MaxClock /\ now <= clock
  BY <1>1, BoundsAreNat DEF MaxDecay
<1>4. m \in 0..MaxDecay
  BY <1>1, <1>3
<1>5. /\ record'.opinion = o /\ record'.updated = now
      /\ record'.positive = record.positive /\ record'.negative = record.negative
      /\ record'.count = record.count
  BY <1>2 DEF AccountInv, TypeOK
<1>6. taken' \in 0..MaxTaken /\ heard.taken <= taken'
  BY <1>1, <1>2, <1>3
<1>7. CASE now <= record.updated
  <2>1. n <= 0 /\ taken' = taken + (record.updated - now)
    BY <1>1, <1>2, <1>3, <1>7
  <2>2. o = record.opinion
    BY <2>1 DEF TimeDecay
  <2>3. now - heard.at + (taken' - heard.taken) = m
        /\ heard.at <= now + (taken' - heard.taken)
    BY <1>1, <1>3, <2>1
  <2>. HIDE DEF m, n, o
  <2>4. DecayIsScheduleFree'
    BY <1>1, <1>2, <1>5, <2>2, <2>3 DEF DecayIsScheduleFree
  <2>5. TypeOK'
    BY <1>1, <1>2, <1>3, <1>6, <1>7, <2>2 DEF AccountInv, TypeOK
  <2>. QED  BY <1>1, <1>2, <1>3, <1>5, <1>6, <2>2, <2>4, <2>5
            DEF AccountInv, OpinionIsEvidenceSum
<1>8. CASE ~(now <= record.updated)
  <2>1. /\ n \in 0..MaxDecay /\ taken' = taken /\ m + n <= MaxDecay
        /\ now - heard.at + (taken' - heard.taken) = m + n
        /\ heard.at <= now + (taken' - heard.taken)
    BY <1>1, <1>2, <1>3, <1>8
  <2>. HIDE DEF m, n
  <2>2. o = Decay(heard.opinion, Growth(m + n))
    BY <1>1, <1>4, <2>1, SweepsAdd
  <2>3. Growth(n) \in Nat \ {0} /\ o = Decay(record.opinion, Growth(n))
    BY <1>1, <2>1, TimeDecayIsDecay
  <2>4. Supported(o, record.positive, record.negative)
    BY <1>1, <2>3, DecaySupports
  <2>. HIDE DEF o
  <2>5. DecayIsScheduleFree'
    BY <1>2, <1>5, <2>1, <2>2 DEF DecayIsScheduleFree
  <2>6. TypeOK'
    BY <1>1, <1>2, <1>3, <1>6, <2>4 DEF AccountInv, TypeOK, Supported
  <2>7. plain' = FALSE
    BY <1>2, <1>8
  <2>. QED  BY <1>1, <1>2, <1>3, <1>5, <1>6, <2>4, <2>5, <2>6, <2>7
            DEF AccountInv, OpinionIsEvidenceSum
<1>. QED  BY <1>7, <1>8

LEMMA StepAccount == AccountInv /\ [Next]_vars => AccountInv'
PROOF
<1>. SUFFICES ASSUME AccountInv, [Next]_vars PROVE AccountInv'
  OBVIOUS
<1>1. ASSUME NEW e \in Evidence, Submit(e)
      PROVE  AccountInv'
  BY <1>1, EvidenceSupports, AbsorbAccount DEF Submit, AccountInv, TypeOK
<1>2. ASSUME NEW e \in Evidence, NEW authority \in Authorities, SubmitDiscounted(authority, e)
      PROVE  AccountInv'
  BY <1>2, DiscountSupports, AbsorbAccount DEF SubmitDiscounted
<1>3. ASSUME NEW now \in 0..clock, ApplyDecay(now)
      PROVE  AccountInv'
  BY <1>3, DecayAccount
<1>4. CASE Tick
  BY <1>4, BoundsAreNat DEF Tick, AccountInv, TypeOK, OpinionIsEvidenceSum, DecayIsScheduleFree
<1>5. CASE Rest \/ UNCHANGED vars
  BY <1>5 DEF Rest, vars, AccountInv, TypeOK, OpinionIsEvidenceSum, DecayIsScheduleFree
<1>. QED  BY <1>1, <1>2, <1>3, <1>4, <1>5 DEF Next

LEMMA AccountHolds == Spec => []AccountInv
PROOF BY InitAccount, StepAccount, PTL DEF Spec

(* trust_manager.py and operators/: whatever a record was fed and however it
   decayed, its opinion claims no more than its evidence totals support. *)
THEOREM TrustStaysWithinEvidence == Spec => []TrustWithinEvidence
PROOF
<1>1. AccountInv => TrustWithinEvidence
  BY DEF AccountInv, Supported, TrustWithinEvidence
<1>. QED  BY <1>1, AccountHolds, PTL

(* fusion.py: cumulative fusion of the opinions of any sequence of evidence is
   the opinion of the sum. *)
THEOREM FusionAddsEvidence == Spec => []OpinionIsEvidenceSum
PROOF
<1>1. AccountInv => OpinionIsEvidenceSum
  BY DEF AccountInv
<1>. QED  BY <1>1, AccountHolds, PTL

(* trust_manager.py:811-834, decay.py: sweeps that begin and reach the record
   at any time decay an opinion like a single one, except that each tick by
   which a late sweep moved updated_at back is decayed once more. *)
THEOREM SweepsCompose == Spec => []DecayIsScheduleFree
PROOF
<1>1. AccountInv => DecayIsScheduleFree
  BY DEF AccountInv
<1>. QED  BY <1>1, AccountHolds, PTL

(* Submissions with a history are submissions. *)
LEMMA AssessmentIsAccount == AssessmentSpec => Spec
PROOF
<1>1. AssessmentInit => Init
  BY DEF AssessmentInit
<1>2. [AssessmentNext]_assessmentVars => [Next]_vars
  BY DEF AssessmentNext, assessmentVars, Say, SayDiscounted, Next
<1>. QED  BY <1>1, <1>2, PTL DEF AssessmentSpec, Spec

LEMMA AssessedAccountHolds == AssessmentSpec => []AccountInv
PROOF BY AssessmentIsAccount, AccountHolds, PTL

(* More arithmetic: factors that may be cancelled or multiplied in. *)
LEMMA CancelFactor ==
    ASSUME NEW x \in Int, NEW y \in Int, NEW n \in Nat \ {0}, x * n <= y * n
    PROVE  x <= y
PROOF OBVIOUS

LEMMA CancelStrictly ==
    ASSUME NEW x \in Int, NEW y \in Int, NEW n \in Nat \ {0}, x * n < y * n
    PROVE  x < y
PROOF OBVIOUS

LEMMA ScaledStrictly ==
    ASSUME NEW x \in Nat, NEW y \in Nat, NEW n \in Nat \ {0}, x < y
    PROVE  x * n < y * n
PROOF OBVIOUS

LEMMA ScaledIntegers ==
    ASSUME NEW x \in Int, NEW y \in Int, NEW n \in Nat, x <= y
    PROVE  n * x <= n * y
PROOF OBVIOUS

(* Evidence behind an opinion that clears a ceiling of uncertainty. *)
LEMMA CeilingNeedsEvidence ==
    ASSUME NEW W \in Nat, NEW b \in Nat, NEW d \in Nat, NEW u \in Nat \ {0},
           NEW r \in Nat, NEW s \in Nat, NEW xn \in Nat, NEW xd \in Nat, xn <= xd,
           W * b <= r * u, W * d <= s * u, u * xd <= xn * (b + d + u)
    PROVE  W * (xd - xn) <= (r + s) * xn
PROOF
<1>. DEFINE T == b + d + u
<1>1. W * (b + d) <= (r + s) * u
  <2>1. W * (b + d) = W * b + W * d /\ (r + s) * u = r * u + s * u
    OBVIOUS
  <2>. QED  BY <2>1, ProductIsNat
<1>2. (W * (b + d)) * xd <= ((r + s) * u) * xd
  BY <1>1, ScaledLess, ProductIsNat
<1>3. (u * xd) * (r + s) <= (xn * T) * (r + s)
  BY ScaledLess, ProductIsNat
<1>4. (W * (b + d)) * xd <= ((r + s) * xn) * T
  <2>1. ((r + s) * u) * xd = (u * xd) * (r + s) /\ ((r + s) * xn) * T = (xn * T) * (r + s)
    OBVIOUS
  <2>2. /\ (W * (b + d)) * xd \in Nat /\ ((r + s) * u) * xd \in Nat
        /\ ((r + s) * xn) * T \in Nat
    BY ProductIsNat
  <2>. QED  BY <1>2, <1>3, <2>1, <2>2
<1>5. (xd - xn) * T <= (b + d) * xd
  <2>1. (xd - xn) * T = xd * T - xn * T /\ xd * T = (b + d) * xd + u * xd
    OBVIOUS
  <2>2. xd * T \in Nat /\ xn * T \in Nat /\ (b + d) * xd \in Nat /\ u * xd \in Nat
    BY ProductIsNat
  <2>. QED  BY <2>1, <2>2
<1>6. ((xd - xn) * T) * W <= ((b + d) * xd) * W
  BY <1>5, ScaledLess, ProductIsNat
<1>7. (W * (xd - xn)) * T <= ((r + s) * xn) * T
  <2>1. ((xd - xn) * T) * W = (W * (xd - xn)) * T
        /\ ((b + d) * xd) * W = (W * (b + d)) * xd
    OBVIOUS
  <2>2. /\ (W * (xd - xn)) * T \in Nat /\ (W * (b + d)) * xd \in Nat
        /\ ((r + s) * xn) * T \in Nat
    BY ProductIsNat
  <2>. QED  BY <1>4, <1>6, <2>1, <2>2
<1>8. W * (xd - xn) \in Int /\ (r + s) * xn \in Int /\ T \in Nat \ {0}
  OBVIOUS
<1>. HIDE DEF T
<1>. QED  BY <1>7, <1>8, CancelFactor

(* Evidence in favour behind an opinion that clears floor and ceiling. *)
LEMMA FloorNeedsSupport ==
    ASSUME NEW W \in Nat, NEW b \in Nat, NEW d \in Nat, NEW u \in Nat \ {0},
           NEW r \in Nat, NEW tn \in Nat, NEW td \in Nat,
           NEW xn \in Nat, NEW xd \in Nat, W * b <= r * u,
           (2 * b + u) * td >= tn * (2 * (b + d + u)), u * xd <= xn * (b + d + u)
    PROVE  W * (2 * tn * xd - td * xn) <= 2 * r * td * xn
PROOF
<1>. DEFINE T == b + d + u
<1>1. (2 * tn) * T - u * td <= 2 * (b * td)
  <2>1. (2 * b + u) * td = 2 * (b * td) + u * td /\ tn * (2 * T) = (2 * tn) * T
    OBVIOUS
  <2>2. b * td \in Nat /\ u * td \in Nat /\ (2 * tn) * T \in Nat
    BY ProductIsNat
  <2>. QED  BY <2>1, <2>2
<1>2. (u * xd) * (2 * tn) <= (xn * T) * (2 * tn)
  BY ScaledLess, ProductIsNat
<1>3. u * (2 * tn * xd - td * xn) <= xn * (2 * (b * td))
  <2>1. u * (2 * tn * xd - td * xn) = (u * xd) * (2 * tn) - xn * (u * td)
    OBVIOUS
  <2>2. (xn * T) * (2 * tn) - xn * (u * td) = xn * ((2 * tn) * T - u * td)
    OBVIOUS
  <2>3. xn * ((2 * tn) * T - u * td) <= xn * (2 * (b * td))
    BY <1>1
  <2>4. /\ (u * xd) * (2 * tn) \in Nat /\ xn * (u * td) \in Nat
        /\ (xn * T) * (2 * tn) \in Nat /\ xn * (2 * (b * td)) \in Nat
    BY ProductIsNat
  <2>. QED  BY <1>2, <2>1, <2>2, <2>3, <2>4
<1>4. W * (u * (2 * tn * xd - td * xn)) <= W * (xn * (2 * (b * td)))
  BY <1>3
<1>5. (W * b) * (2 * (td * xn)) <= (r * u) * (2 * (td * xn))
  BY ScaledLess, ProductIsNat
<1>6. (W * (2 * tn * xd - td * xn)) * u <= (2 * r * td * xn) * u
  <2>1. W * (u * (2 * tn * xd - td * xn)) = (W * (2 * tn * xd - td * xn)) * u
    OBVIOUS
  <2>2. W * (xn * (2 * (b * td))) = (W * b) * (2 * (td * xn))
    OBVIOUS
  <2>3. (r * u) * (2 * (td * xn)) = (2 * r * td * xn) * u
    OBVIOUS
  <2>4. /\ (W * (2 * tn * xd - td * xn)) * u \in Int
        /\ (W * b) * (2 * (td * xn)) \in Nat /\ (2 * r * td * xn) * u \in Nat
    BY ProductIsNat
  <2>. QED  BY <1>4, <1>5, <2>1, <2>2, <2>3, <2>4
<1>7. W * (2 * tn * xd - td * xn) \in Int /\ 2 * r * td * xn \in Int
  OBVIOUS
<1>. QED  BY <1>6, <1>7, CancelFactor

(* policy.py and is_trusted: no sequence of submissions, discounts and sweeps
   brings an agent past a floor and a ceiling without the evidence for both. *)
THEOREM GatesNeedEvidence == AssessmentSpec => []AllowedMeansEvidence
PROOF
<1>1. AccountInv => AllowedMeansEvidence
  <2>. SUFFICES ASSUME AccountInv, NEW floor \in Floors, NEW ceiling \in Ceilings,
                       Allowed(record.opinion, floor, ceiling)
                PROVE  /\ PriorWeight * (ceiling[2] - ceiling[1])
                              <= (record.positive + record.negative) * ceiling[1]
                       /\ PriorWeight * (2 * floor[1] * ceiling[2] - floor[2] * ceiling[1])
                              <= 2 * record.positive * floor[2] * ceiling[1]
    BY DEF AllowedMeansEvidence
  <2>. DEFINE b == record.opinion.b
              d == record.opinion.d
              u == record.opinion.u
              r == record.positive
              s == record.negative
              tn == floor[1]
              td == floor[2]
              xn == ceiling[1]
              xd == ceiling[2]
  <2>1. tn \in Nat /\ td \in Nat /\ xn \in Nat /\ xd \in Nat /\ xn <= xd
    BY ThresholdsAreFractions DEF Fractions
  <2>2. r \in Nat /\ s \in Nat /\ Supported(record.opinion, r, s)
    BY DEF AccountInv, TypeOK
  <2>3. /\ b \in Nat /\ d \in Nat /\ u \in Nat \ {0}
        /\ PriorWeight * b <= r * u /\ PriorWeight * d <= s * u
    BY <2>2, OpinionParts DEF Supported, Dogmatic
  <2>4. (2 * b + u) * td >= tn * (2 * (b + d + u)) /\ ~(u * xd > xn * (b + d + u))
    BY DEF Allowed, Verdict, AtLeast, Trustworthiness, Weight
  <2>5. PriorWeight \in Nat
    BY PriorWeightIsPositive
  <2>. HIDE DEF b, d, u, r, s, tn, td, xn, xd
  <2>6. u * xd <= xn * (b + d + u)
    BY <2>1, <2>3, <2>4, ProductIsNat
  <2>7. PriorWeight * (xd - xn) <= (r + s) * xn
    BY <2>1, <2>2, <2>3, <2>5, <2>6, CeilingNeedsEvidence
  <2>8. PriorWeight * (2 * tn * xd - td * xn) <= 2 * r * td * xn
    BY <2>1, <2>2, <2>3, <2>4, <2>5, <2>6, FloorNeedsSupport
  <2>. QED  BY <2>7, <2>8 DEF r, s, tn, td, xn, xd
<1>. QED  BY <1>1, AssessedAccountHolds, PTL

-----------------------------------------------------------------------------
(* The trust floor, missed by an opinion of weights b, d and T, is missed by
   every opinion with the same belief and disbelief and more uncertainty. *)
LEMMA FloorStaysMissed ==
    ASSUME NEW b \in Nat, NEW d \in Nat, NEW T \in Nat, NEW U \in Nat, b + d <= T, T <= U,
           NEW tn \in Nat, NEW td \in Nat, td <= 2 * tn,
           (2 * b + (T - (b + d))) * td < tn * (2 * T)
    PROVE  (2 * b + (U - (b + d))) * td < tn * (2 * U)
PROOF
<1>. DEFINE c == 2 * tn - td
<1>1. c \in Nat /\ 2 * tn = c + td
  OBVIOUS
<1>2. (b - d) * td < c * T
  <2>1. (2 * b + (T - (b + d))) * td = (b - d) * td + T * td /\ tn * (2 * T) = c * T + T * td
    OBVIOUS
  <2>2. (b - d) * td \in Int /\ T * td \in Int /\ c * T \in Int
    OBVIOUS
  <2>. QED  BY <2>1, <2>2
<1>3. c * T <= c * U
  BY <1>1, ScaledLess
<1>4. (2 * b + (U - (b + d))) * td = (b - d) * td + U * td /\ tn * (2 * U) = c * U + U * td
  OBVIOUS
<1>5. (b - d) * td \in Int /\ U * td \in Int /\ c * U \in Int /\ c * T \in Int
  OBVIOUS
<1>. QED  BY <1>2, <1>3, <1>4, <1>5

(* And so is the ceiling of uncertainty. *)
LEMMA CeilingStaysMissed ==
    ASSUME NEW c \in Nat, NEW T \in Nat, NEW U \in Nat, c <= T, T <= U,
           NEW xn \in Nat, NEW xd \in Nat, xn <= xd, (T - c) * xd > xn * T
    PROVE  (U - c) * xd > xn * U
PROOF
<1>1. (xd - xn) * T <= (xd - xn) * U
  BY ScaledLess
<1>2. /\ (T - c) * xd - xn * T = (xd - xn) * T - c * xd
      /\ (U - c) * xd - xn * U = (xd - xn) * U - c * xd
  OBVIOUS
<1>3. /\ (T - c) * xd \in Int /\ xn * T \in Int /\ (U - c) * xd \in Int /\ xn * U \in Int
      /\ (xd - xn) * T \in Int /\ (xd - xn) * U \in Int /\ c * xd \in Int
  OBVIOUS
<1>. QED  BY <1>1, <1>2, <1>3

(* What is refused stays refused when it decays, at a floor that is not below
   the base rate. *)
LEMMA RefusalOutlastsDecay ==
    ASSUME NEW o \in Opinions, NEW g \in Nat \ {0},
           NEW floor \in Fractions, NEW ceiling \in Fractions,
           AtLeast(floor, <<1, 2>>), ~Allowed(o, floor, ceiling)
    PROVE  ~Allowed(Decay(o, g), floor, ceiling)
PROOF
<1>. DEFINE b == o.b
            d == o.d
            T == Weight(o)
            U == g * Weight(o)
            tn == floor[1]
            td == floor[2]
            xn == ceiling[1]
            xd == ceiling[2]
            D == Decay(o, g)
<1>1. /\ b \in Nat /\ d \in Nat /\ T \in Nat /\ U \in Nat /\ b + d <= T /\ T <= U
      /\ o.u = T - (b + d)
  BY OpinionParts, DecayParts, ProductIsNat
<1>2. /\ tn \in Nat /\ td \in Nat /\ xn \in Nat /\ xd \in Nat /\ xn <= xd
      /\ td <= 2 * tn
  BY DEF Fractions, AtLeast
<1>3. D.b = b /\ D.d = d /\ D.u = U - (b + d) /\ Weight(D) = U
  BY DecayParts
<1>4. \/ ~((2 * o.b + o.u) * td >= tn * (2 * Weight(o)))
      \/ o.u * xd > xn * Weight(o)
  BY DEF Allowed, Verdict, AtLeast, Trustworthiness
<1>5. \/ ~((2 * b + (T - (b + d))) * td >= tn * (2 * T))
      \/ (T - (b + d)) * xd > xn * T
  BY <1>1, <1>4
<1>. SUFFICES \/ ~((2 * D.b + D.u) * td >= tn * (2 * Weight(D)))
              \/ D.u * xd > xn * Weight(D)
  BY DEF Allowed, Verdict, AtLeast, Trustworthiness
<1>. HIDE DEF b, d, T, U, tn, td, xn, xd, D
<1>6. CASE ~((2 * b + (T - (b + d))) * td >= tn * (2 * T))
  <2>1. (2 * b + (T - (b + d))) * td \in Int /\ tn * (2 * T) \in Int
        /\ (2 * b + (U - (b + d))) * td \in Int /\ tn * (2 * U) \in Int
    BY <1>1, <1>2
  <2>2. (2 * b + (T - (b + d))) * td < tn * (2 * T)
    BY <1>6, <2>1
  <2>3. (2 * b + (U - (b + d))) * td < tn * (2 * U)
    BY <1>1, <1>2, <2>2, FloorStaysMissed
  <2>. QED  BY <1>3, <2>1, <2>3
<1>7. CASE (T - (b + d)) * xd > xn * T
  <2>1. b + d \in Nat
    BY <1>1
  <2>2. (U - (b + d)) * xd > xn * U
    BY <1>1, <1>2, <1>7, <2>1, CeilingStaysMissed
  <2>. QED  BY <1>3, <2>2
<1>. QED  BY <1>5, <1>6, <1>7

(* decay.py, policy.py, timeline.py: without new submissions no schedule of
   sweeps, and no forecast, turns a refusal into a permission, if the floor is
   not below the base rate. *)
THEOREM RefusalsOutlastSilence == AssessmentSpec => []SilenceNeverAdmits
PROOF
<1>1. AccountInv => SilenceNeverAdmits
  <2>. SUFFICES ASSUME AccountInv, NEW floor \in Floors, NEW ceiling \in Ceilings,
                       AtLeast(floor, <<1, 2>>), ~Allowed(heard.opinion, floor, ceiling),
                       NEW k \in 0..MaxClock
                PROVE  ~Allowed(Timeline(record.opinion, MaxClock)[k], floor, ceiling)
    BY DEF SilenceNeverAdmits
  <2>1. floor \in Fractions /\ ceiling \in Fractions
    BY ThresholdsAreFractions
  <2>. DEFINE m == record.updated - heard.at + (taken - heard.taken)
  <2>2. /\ heard.opinion \in Opinions /\ m \in 0..MaxDecay /\ k \in 0..MaxDecay
        /\ record.opinion = Decay(heard.opinion, Growth(m))
    BY BoundsAreNat DEF AccountInv, TypeOK, DecayIsScheduleFree, MaxDecay
  <2>. HIDE DEF m
  <2>3. Growth(m) \in Nat \ {0} /\ Growth(k) \in Nat \ {0}
    BY <2>2, GrowthIsExponential
  <2>4. record.opinion \in Opinions /\ ~Allowed(record.opinion, floor, ceiling)
    BY <2>1, <2>2, <2>3, DecayParts, RefusalOutlastsDecay
  <2>5. ~Allowed(Decay(record.opinion, Growth(k)), floor, ceiling)
    BY <2>1, <2>3, <2>4, RefusalOutlastsDecay
  <2>. QED  BY <2>5 DEF Timeline
<1>. QED  BY <1>1, AssessedAccountHolds, PTL

-----------------------------------------------------------------------------
(* What may be fused into a record: no authority and no evidence is certain. *)
Certain == {o \in Opinions : ~Dogmatic(o)}

SaidEntries == [at: 0..MaxClock, evidence: Evidence, opinion: Certain,
                plain: BOOLEAN, swept: BOOLEAN]

(* What has been submitted is legal. *)
SaidInv == said \in Seq(SaidEntries)

LEMMA StepSaid == AccountInv /\ SaidInv /\ [AssessmentNext]_assessmentVars => SaidInv'
PROOF
<1>. SUFFICES ASSUME AccountInv, SaidInv, [AssessmentNext]_assessmentVars PROVE SaidInv'
  OBVIOUS
<1>1. ASSUME NEW e \in Evidence, NEW op \in Certain, NEW isPlain \in BOOLEAN,
             said' = Append(said, Entry(e, op, isPlain))
      PROVE  SaidInv'
  <2>1. clock \in 0..MaxClock
    BY DEF AccountInv, TypeOK
  <2>2. Entry(e, op, isPlain) \in SaidEntries
    BY <2>1 DEF Entry, SaidEntries
  <2>. QED  BY <1>1, <2>2 DEF SaidInv
<1>2. ASSUME NEW e \in Evidence, Say(e)
      PROVE  SaidInv'
  BY <1>1, <1>2, EvidenceSupports DEF Say, Supported, Certain
<1>3. ASSUME NEW e \in Evidence, NEW authority \in Authorities, SayDiscounted(authority, e)
      PROVE  SaidInv'
  BY <1>1, <1>3, DiscountSupports DEF SayDiscounted, Supported, Certain
<1>4. CASE UNCHANGED said
  BY <1>4 DEF SaidInv
<1>. QED  BY <1>2, <1>3, <1>4 DEF AssessmentNext, assessmentVars

LEMMA SaidHolds == AssessmentSpec => []SaidInv
PROOF
<1>1. AssessmentInit => SaidInv
  BY DEF AssessmentInit, SaidInv
<1>. QED  BY <1>1, StepSaid, AssessedAccountHolds, PTL DEF AssessmentSpec

LEMMA HeardIsCertain ==
    ASSUME SaidInv
    PROVE  Heard \in Seq(Certain) /\ Len(Heard) = Len(said)
PROOF
<1>1. \A x \in SaidEntries : x.opinion \in Certain
  BY DEF SaidEntries
<1>2. said \in Seq(SaidEntries)
  BY DEF SaidInv
<1>. HIDE DEF SaidEntries, Certain
<1>. QED  BY <1>1, <1>2 DEF Heard

(* The weighted mean of a/c and x/y lies between them. *)
LEMMA MeanIsBetween ==
    ASSUME NEW m \in Nat, NEW n \in Nat, m + n > 0,
           NEW a \in Nat, NEW c \in Nat \ {0}, NEW x \in Nat, NEW y \in Nat \ {0},
           x * c >= a * y
    PROVE  LET base == <<m * a * y + n * x * c, (m + n) * c * y>>
           IN  base[2] > 0 /\ AtLeast(base, <<a, c>>) /\ AtLeast(<<x, y>>, base)
PROOF
<1>. DEFINE k == a * y
            l == x * c
            mean == m * k + n * l
<1>1. k \in Nat /\ l \in Nat /\ k <= l
  BY ProductIsNat
<1>2. m * a * y = m * k /\ n * x * c = n * l
  OBVIOUS
<1>3. a * ((m + n) * c * y) = ((m + n) * k) * c /\ x * ((m + n) * c * y) = ((m + n) * l) * y
  OBVIOUS
<1>4. (m + n) * c * y > 0
  <2>1. (m + n) * c \in Nat /\ (m + n) * c > 0
    BY ProductIsNat
  <2>. QED  BY <2>1, ProductIsNat
<1>. HIDE DEF k, l
<1>5. (m + n) * k <= mean /\ mean <= (m + n) * l
  <2>1. (m + n) * k = m * k + n * k /\ (m + n) * l = m * l + n * l
    BY <1>1
  <2>2. n * k <= n * l /\ m * k <= m * l
    BY <1>1, ScaledLess
  <2>3. n * k \in Nat /\ n * l \in Nat /\ m * k \in Nat /\ m * l \in Nat
    BY <1>1, ProductIsNat
  <2>. QED  BY <2>1, <2>2, <2>3
<1>6. mean \in Nat /\ (m + n) * k \in Nat /\ (m + n) * l \in Nat
  BY <1>1, ProductIsNat
<1>. HIDE DEF mean
<1>7. ((m + n) * k) * c <= mean * c /\ mean * y <= ((m + n) * l) * y
  BY <1>5, <1>6, ScaledLess
<1>8. /\ ((m + n) * k) * c \in Nat /\ mean * c \in Nat
      /\ mean * y \in Nat /\ ((m + n) * l) * y \in Nat
  BY <1>6, ProductIsNat
<1>9. mean * c >= a * ((m + n) * c * y) /\ x * ((m + n) * c * y) >= mean * y
  BY <1>3, <1>7, <1>8
<1>10. mean = m * a * y + n * x * c
  BY <1>2 DEF mean
<1>. QED  BY <1>4, <1>9, <1>10 DEF AtLeast

LEMMA FusedBaseIsBetween ==
    ASSUME NEW p \in Opinions, NEW q \in Opinions,
           NEW a \in Nat, NEW c \in Nat \ {0}, NEW x \in Nat, NEW y \in Nat \ {0},
           AtLeast(<<x, y>>, <<a, c>>)
    PROVE  LET base == FusedBase(p, <<a, c>>, q, <<x, y>>)
           IN  base[2] > 0 /\ AtLeast(base, <<a, c>>) /\ AtLeast(<<x, y>>, base)
PROOF
<1>. DEFINE wp == q.u * (Weight(p) - p.u)
            wq == p.u * (Weight(q) - q.u)
<1>1. /\ p.u \in Nat /\ Weight(p) - p.u \in Nat
      /\ q.u \in Nat /\ Weight(q) - q.u \in Nat
  BY OpinionParts
<1>2. wp \in Nat /\ wq \in Nat
  BY <1>1, ProductIsNat
<1>3. FusedBase(p, <<a, c>>, q, <<x, y>>)
        = IF wp + wq = 0 THEN <<a * y + x * c, 2 * c * y>>
          ELSE <<wp * a * y + wq * x * c, (wp + wq) * c * y>>
  BY DEF FusedBase
<1>4. x * c >= a * y
  BY DEF AtLeast
<1>. HIDE DEF wp, wq
<1>5. CASE wp + wq = 0
  <2>. DEFINE one == 1
              base == <<one * a * y + one * x * c, (one + one) * c * y>>
  <2>1. base = <<a * y + x * c, 2 * c * y>>
    <3>1. one * a * y + one * x * c = a * y + x * c /\ (one + one) * c * y = 2 * c * y
      OBVIOUS
    <3>. QED  BY <3>1
  <2>2. base[2] > 0 /\ AtLeast(base, <<a, c>>) /\ AtLeast(<<x, y>>, base)
    <3>1. one \in Nat /\ one + one > 0
      OBVIOUS
    <3>. HIDE DEF one
    <3>. QED  BY <1>4, <3>1, MeanIsBetween
  <2>. HIDE DEF base
  <2>. QED  BY <1>3, <1>5, <2>1, <2>2
<1>6. CASE wp + wq > 0
  <2>1. LET base == <<wp * a * y + wq * x * c, (wp + wq) * c * y>>
        IN  base[2] > 0 /\ AtLeast(base, <<a, c>>) /\ AtLeast(<<x, y>>, base)
    BY <1>2, <1>4, <1>6, MeanIsBetween
  <2>2. wp + wq # 0
    BY <1>2, <1>6
  <2>. QED  BY <1>3, <2>1, <2>2
<1>. QED  BY <1>2, <1>5, <1>6

(* fusion.py: the base rate of a fused opinion lies between those it was made
   from, for any record and anything that may be said about it. *)
THEOREM FusedBaseStaysBetween == AssessmentSpec => []BaseRateStaysBetween
PROOF
<1>1. AccountInv /\ SaidInv => BaseRateStaysBetween
  <2>. DEFINE Rates == {<<1, 5>>, <<1, 2>>, <<4, 5>>}
  <2>. SUFFICES ASSUME AccountInv, SaidInv, NEW i \in DOMAIN Heard,
                       NEW p \in Rates, NEW q \in Rates, AtLeast(q, p)
                PROVE  LET base == FusedBase(record.opinion, p, Heard[i], q)
                       IN  base[2] > 0 /\ AtLeast(base, p) /\ AtLeast(q, base)
    BY DEF BaseRateStaysBetween
  <2>1. record.opinion \in Opinions
    BY DEF AccountInv, TypeOK
  <2>2. Heard[i] \in Opinions
    <3>1. Heard \in Seq(Certain)
      BY HeardIsCertain
    <3>. HIDE DEF Heard
    <3>. QED  BY <3>1 DEF Certain
  <2>3. PICK a \in Nat, c \in Nat \ {0} : p = <<a, c>>
    OBVIOUS
  <2>4. PICK x \in Nat, y \in Nat \ {0} : q = <<x, y>>
    OBVIOUS
  <2>. HIDE DEF Rates
  <2>5. AtLeast(<<x, y>>, <<a, c>>)
    BY <2>3, <2>4
  <2>6. LET base == FusedBase(record.opinion, <<a, c>>, Heard[i], <<x, y>>)
        IN  base[2] > 0 /\ AtLeast(base, <<a, c>>) /\ AtLeast(<<x, y>>, base)
    BY <2>1, <2>2, <2>5, FusedBaseIsBetween
  <2>. QED  BY <2>3, <2>4, <2>6
<1>. QED  BY <1>1, AssessedAccountHolds, SaidHolds, PTL

-----------------------------------------------------------------------------
(* The trust of opinion b, d, u of weight T, totals r and s, misses the floor
   tn/td.  n pieces in favour, fewer than the margin asks for, do not mend it. *)
LEMMA NeedIsALowerBound ==
    ASSUME NEW W \in Nat \ {0}, NEW b \in Nat, NEW d \in Nat, NEW u \in Nat \ {0},
           NEW r \in Nat, NEW s \in Nat, NEW n \in Nat,
           NEW tn \in Nat, NEW td \in Nat, NEW T \in Nat, T = b + d + u,
           W * b = r * u, W * d = s * u, (2 * b + u) * td < tn * (2 * T),
           n * (td * (2 * T - u)) < (tn * (2 * T) - (2 * b + u) * td) * (r + s + W)
    PROVE  (2 * (b * W + n * u) + u * W) * td < tn * (2 * (T * W + n * u))
PROOF
<1>. DEFINE m == tn * (2 * T) - (2 * b + u) * td
            nu == n * u
<1>1. m \in Nat /\ nu \in Nat /\ 2 * T - u \in Nat
  <2>1. tn * (2 * T) \in Nat /\ (2 * b + u) * td \in Nat
    BY ProductIsNat
  <2>. QED  BY <2>1, ProductIsNat
<1>2. (r + s + W) * u = W * T
  <2>1. (r + s + W) * u = r * u + s * u + W * u /\ W * T = W * b + W * d + W * u
    OBVIOUS
  <2>. QED  BY <2>1
<1>3. nu * (td * (2 * T - u)) < (m * W) * T
  <2>1. (n * (td * (2 * T - u))) * u < (m * (r + s + W)) * u
    <3>1. n * (td * (2 * T - u)) \in Nat /\ m * (r + s + W) \in Nat
      BY <1>1, ProductIsNat
    <3>. QED  BY <3>1, ScaledStrictly
  <2>2. (n * (td * (2 * T - u))) * u = nu * (td * (2 * T - u))
    OBVIOUS
  <2>. HIDE DEF m
  <2>3. (m * (r + s + W)) * u = m * ((r + s + W) * u) /\ m * (W * T) = (m * W) * T
    BY <1>1
  <2>. QED  BY <1>2, <2>1, <2>2, <2>3
<1>4. (2 * (td - tn)) * T <= td * (2 * T - u)
  <2>1. u * td <= tn * (2 * T)
    <3>1. (2 * b + u) * td = 2 * (b * td) + u * td
      OBVIOUS
    <3>2. b * td \in Nat /\ u * td \in Nat /\ tn * (2 * T) \in Nat
      BY ProductIsNat
    <3>. QED  BY <3>1, <3>2
  <2>2. /\ (2 * (td - tn)) * T = 2 * (td * T) - tn * (2 * T)
        /\ td * (2 * T - u) = 2 * (td * T) - u * td
    OBVIOUS
  <2>3. td * T \in Nat /\ tn * (2 * T) \in Nat /\ u * td \in Nat
    BY ProductIsNat
  <2>. QED  BY <2>1, <2>2, <2>3
<1>. HIDE DEF nu
<1>5. nu * ((2 * (td - tn)) * T) <= nu * (td * (2 * T - u))
  BY <1>1, <1>4, ScaledIntegers
<1>6. (nu * (2 * (td - tn))) * T < (m * W) * T
  <2>1. nu * ((2 * (td - tn)) * T) = (nu * (2 * (td - tn))) * T
    BY <1>1
  <2>. HIDE DEF m
  <2>2. /\ nu * ((2 * (td - tn)) * T) \in Int /\ (m * W) * T \in Int
        /\ nu * (td * (2 * T - u)) \in Int
    BY <1>1
  <2>. QED  BY <1>3, <1>5, <2>1, <2>2
<1>7. nu * (2 * (td - tn)) < m * W
  <2>. HIDE DEF m
  <2>1. nu * (2 * (td - tn)) \in Int /\ m * W \in Int /\ T \in Nat \ {0}
    BY <1>1
  <2>. QED  BY <1>6, <2>1, CancelStrictly
<1>8. /\ (2 * (b * W + n * u) + u * W) * td = ((2 * b + u) * td) * W + (2 * nu) * td
      /\ tn * (2 * (T * W + n * u)) = (tn * (2 * T)) * W + (2 * nu) * tn
  BY DEF nu
<1>9. m * W = (tn * (2 * T)) * W - ((2 * b + u) * td) * W
  OBVIOUS
<1>10. nu * (2 * (td - tn)) = (2 * nu) * td - (2 * nu) * tn
  BY <1>1
<1>11. /\ (2 * nu) * td \in Int /\ (2 * nu) * tn \in Int
       /\ (tn * (2 * T)) * W \in Int /\ ((2 * b + u) * td) * W \in Int
  BY <1>1
<1>. HIDE DEF m
<1>. QED  BY <1>7, <1>8, <1>9, <1>10, <1>11

(* explain_trust's evidence_needed, for any floor and any evidence: as long as
   nothing was discounted and nothing has decayed, less than the estimate
   leaves the agent refused. *)
THEOREM EstimatesAreNeverTooHigh == AssessmentSpec => []NeedIsNeverOverstated
PROOF
<1>1. AccountInv => NeedIsNeverOverstated
  <2>. DEFINE needed(floor) == EvidenceNeeded(record.opinion, record, floor)
              more(n) == FromEvidence([positive |-> n, negative |-> 0])
  <2>. SUFFICES ASSUME AccountInv, NEW floor \in Floors, plain,
                       ~Allowed(record.opinion, floor, <<1, 1>>),
                       NEW n \in 0..(MaxCount * MaxCount),
                       n * needed(floor)[2] < needed(floor)[1]
                PROVE  ~Allowed(Fuse(record.opinion, more(n)), floor, <<1, 1>>)
    BY DEF NeedIsNeverOverstated
  <2>. DEFINE o == record.opinion
              r == record.positive
              s == record.negative
              tn == floor[1]
              td == floor[2]
              W == PriorWeight
              f == Fuse(o, more(n))
  <2>1. tn \in Nat /\ td \in Nat /\ n \in Nat /\ W \in Nat \ {0}
    BY ThresholdsAreFractions, BoundsAreNat, PriorWeightIsPositive DEF Fractions
  <2>2. /\ r \in Nat /\ s \in Nat
        /\ o.b \in Nat /\ o.d \in Nat /\ o.u \in Nat \ {0}
        /\ Weight(o) = o.b + o.d + o.u /\ Weight(o) \in Nat
    BY OpinionParts DEF AccountInv, TypeOK, Supported, Dogmatic
  <2>3. W * o.b = r * o.u /\ W * o.d = s * o.u
    BY DEF AccountInv, OpinionIsEvidenceSum, IsEvidenceOf
  <2>4. (2 * o.b + o.u) * td < tn * (2 * Weight(o))
    <3>1. ~((2 * o.b + o.u) * td >= tn * (2 * Weight(o))) \/ o.u * 1 > 1 * Weight(o)
      BY DEF Allowed, Verdict, AtLeast, Trustworthiness
    <3>2. (2 * o.b + o.u) * td \in Int /\ tn * (2 * Weight(o)) \in Int
      BY <2>1, <2>2
    <3>. QED  BY <2>2, <3>1, <3>2
  <2>5. n * (td * (2 * Weight(o) - o.u))
          < (tn * (2 * Weight(o)) - (2 * o.b + o.u) * td) * (r + s + W)
    BY DEF EvidenceNeeded, Trustworthiness
  <2>6. more(n) = [b |-> n, d |-> 0, u |-> W]
    BY DEF FromEvidence
  <2>7. f = [b |-> o.b * W + n * o.u, d |-> o.d * W + 0 * o.u, u |-> o.u * W]
    BY <2>1, <2>2, <2>6 DEF Fuse, Dogmatic
  <2>8. f.b = o.b * W + n * o.u /\ f.u = o.u * W /\ Weight(f) = Weight(o) * W + n * o.u
    <3>1. 0 * o.u = 0 /\ Weight(o) * W = o.b * W + o.d * W + o.u * W
      BY <2>1, <2>2
    <3>2. o.b * W \in Nat /\ n * o.u \in Nat /\ o.d * W \in Nat /\ o.u * W \in Nat
      BY <2>1, <2>2, ProductIsNat
    <3>. QED  BY <2>7, <3>1, <3>2 DEF Weight
  <2>. HIDE DEF f, o, r, s, tn, td, W
  <2>9. (2 * (o.b * W + n * o.u) + o.u * W) * td < tn * (2 * (Weight(o) * W + n * o.u))
    BY <2>1, <2>2, <2>3, <2>4, <2>5, NeedIsALowerBound
  <2>10. ~AtLeast(Trustworthiness(f), <<tn, td>>)
    <3>1. (2 * (o.b * W + n * o.u) + o.u * W) * td \in Int
          /\ tn * (2 * (Weight(o) * W + n * o.u)) \in Int
      BY <2>1, <2>2
    <3>. QED  BY <2>8, <2>9, <3>1 DEF AtLeast, Trustworthiness
  <2>. QED  BY <2>10 DEF Allowed, Verdict, AtLeast, f, o, tn, td
<1>. QED  BY <1>1, AssessedAccountHolds, PTL

-----------------------------------------------------------------------------
(* One of two opinions is not dogmatic: the general case of cumulative fusion. *)
LEMMA FuseParts ==
    ASSUME NEW p \in Opinions, NEW q \in Opinions
    PROVE  /\ ~(Dogmatic(p) /\ Dogmatic(q)) =>
                 Fuse(p, q) = [b |-> p.b * q.u + q.b * p.u, d |-> p.d * q.u + q.d * p.u,
                               u |-> p.u * q.u]
           /\ Dogmatic(p) /\ Dogmatic(q) => Fuse(p, q) = FuseDogmatic(p, q)
           /\ Fuse(p, q).u = p.u * q.u
           /\ Dogmatic(Fuse(p, q)) <=> Dogmatic(p) \/ Dogmatic(q)
PROOF
<1>1. p.u \in Nat /\ q.u \in Nat
  BY OpinionParts
<1>2. Fuse(p, q).u = p.u * q.u
  BY <1>1 DEF Fuse, FuseDogmatic, Dogmatic
<1>3. p.u * q.u = 0 <=> p.u = 0 \/ q.u = 0
  BY <1>1, ProductIsNat
<1>. QED  BY <1>2, <1>3 DEF Fuse, Dogmatic

LEMMA FuseIsOpinion ==
    ASSUME NEW p \in Opinions, NEW q \in Opinions
    PROVE  Fuse(p, q) \in Opinions
PROOF
<1>1. /\ p.b \in Nat /\ p.d \in Nat /\ p.u \in Nat /\ Weight(p) \in Nat \ {0}
      /\ q.b \in Nat /\ q.d \in Nat /\ q.u \in Nat /\ Weight(q) \in Nat \ {0}
      /\ Weight(p) = p.b + p.d + p.u /\ Weight(q) = q.b + q.d + q.u
  BY OpinionParts
<1>2. CASE Dogmatic(p) /\ Dogmatic(q)
  <2>. DEFINE b == p.b * Weight(q) + q.b * Weight(p)
              d == p.d * Weight(q) + q.d * Weight(p)
  <2>1. Fuse(p, q) = [b |-> b, d |-> d, u |-> 0]
    BY <1>2, FuseParts DEF FuseDogmatic
  <2>2. p.u = 0 /\ q.u = 0
    BY <1>2 DEF Dogmatic
  <2>3. b + d = 2 * (Weight(p) * Weight(q)) /\ Weight(p) * Weight(q) > 0
    <3>1. b + d = (p.b + p.d) * Weight(q) + (q.b + q.d) * Weight(p)
      BY <1>1
    <3>2. p.b + p.d = Weight(p) /\ q.b + q.d = Weight(q)
      BY <1>1, <2>2
    <3>3. Weight(q) * Weight(p) = Weight(p) * Weight(q) /\ Weight(p) * Weight(q) \in Nat
      BY <1>1, ProductIsNat
    <3>4. Weight(p) * Weight(q) > 0
      BY <1>1, ProductIsNat
    <3>. QED  BY <3>1, <3>2, <3>3, <3>4
  <2>4. b \in Nat /\ d \in Nat
    BY <1>1, ProductIsNat
  <2>5. Weight(p) * Weight(q) \in Nat
    BY <1>1, ProductIsNat
  <2>. HIDE DEF b, d
  <2>. QED  BY <2>1, <2>3, <2>4, <2>5 DEF Opinions, Weights, Weight
<1>3. CASE ~(Dogmatic(p) /\ Dogmatic(q))
  <2>. DEFINE b == p.b * q.u + q.b * p.u
              d == p.d * q.u + q.d * p.u
              u == p.u * q.u
  <2>1. Fuse(p, q) = [b |-> b, d |-> d, u |-> u]
    BY <1>3, FuseParts
  <2>2. b \in Nat /\ d \in Nat /\ u \in Nat
    <3>1. /\ p.b * q.u \in Nat /\ q.b * p.u \in Nat
          /\ p.d * q.u \in Nat /\ q.d * p.u \in Nat /\ p.u * q.u \in Nat
      BY <1>1, ProductIsNat
    <3>. QED  BY <3>1
  <2>3. b + d + u > 0
    <3>1. CASE p.u > 0 /\ q.u > 0
      <4>1. u > 0
        BY <1>1, <3>1, ProductIsNat
      <4>. HIDE DEF b, d, u
      <4>. QED  BY <2>2, <4>1
    <3>2. CASE p.u = 0 /\ q.u > 0
      <4>1. b = p.b * q.u /\ d = p.d * q.u /\ (p.b > 0 \/ p.d > 0)
        BY <1>1, <3>2
      <4>2. b > 0 \/ d > 0
        BY <1>1, <3>2, <4>1, ProductIsNat
      <4>. HIDE DEF b, d, u
      <4>. QED  BY <2>2, <4>2
    <3>3. CASE p.u > 0 /\ q.u = 0
      <4>1. b = q.b * p.u /\ d = q.d * p.u /\ (q.b > 0 \/ q.d > 0)
        BY <1>1, <3>3
      <4>2. b > 0 \/ d > 0
        BY <1>1, <3>3, <4>1, ProductIsNat
      <4>. HIDE DEF b, d, u
      <4>. QED  BY <2>2, <4>2
    <3>. QED  BY <1>1, <1>3, <3>1, <3>2, <3>3 DEF Dogmatic
  <2>. HIDE DEF b, d, u
  <2>. QED  BY <2>1, <2>2, <2>3 DEF Opinions, Weights, Weight
<1>. QED  BY <1>2, <1>3

(* Three opinions, of which the last two change places: nobody is dogmatic, or
   one is. *)
LEMMA ExchangeWeights ==
    ASSUME NEW p \in Opinions, NEW q \in Opinions, NEW r \in Opinions,
           ~(Dogmatic(p) /\ Dogmatic(q)), ~(Dogmatic(p) /\ Dogmatic(r)),
           ~(Dogmatic(q) /\ Dogmatic(r))
    PROVE  Fuse(Fuse(p, q), r) = Fuse(Fuse(p, r), q)
PROOF
<1>. DEFINE f == Fuse(p, q)
            g == Fuse(p, r)
<1>1. /\ p.b \in Nat /\ p.d \in Nat /\ p.u \in Nat /\ q.b \in Nat /\ q.d \in Nat /\ q.u \in Nat
      /\ r.b \in Nat /\ r.d \in Nat /\ r.u \in Nat
  BY OpinionParts
<1>2. /\ f = [b |-> p.b * q.u + q.b * p.u, d |-> p.d * q.u + q.d * p.u, u |-> p.u * q.u]
      /\ g = [b |-> p.b * r.u + r.b * p.u, d |-> p.d * r.u + r.d * p.u, u |-> p.u * r.u]
  BY FuseParts
<1>3. /\ f \in Opinions /\ g \in Opinions
      /\ ~(Dogmatic(f) /\ Dogmatic(r)) /\ ~(Dogmatic(g) /\ Dogmatic(q))
  BY FuseParts, FuseIsOpinion
<1>. HIDE DEF f, g
<1>4. /\ Fuse(f, r) = [b |-> f.b * r.u + r.b * f.u, d |-> f.d * r.u + r.d * f.u, u |-> f.u * r.u]
      /\ Fuse(g, q) = [b |-> g.b * q.u + q.b * g.u, d |-> g.d * q.u + q.d * g.u, u |-> g.u * q.u]
  BY <1>3, FuseParts
<1>5. /\ f.b = p.b * q.u + q.b * p.u /\ f.d = p.d * q.u + q.d * p.u /\ f.u = p.u * q.u
      /\ g.b = p.b * r.u + r.b * p.u /\ g.d = p.d * r.u + r.d * p.u /\ g.u = p.u * r.u
  BY <1>2
<1>6. (p.b * q.u + q.b * p.u) * r.u + r.b * (p.u * q.u)
        = (p.b * r.u + r.b * p.u) * q.u + q.b * (p.u * r.u)
  BY <1>1
<1>7. (p.d * q.u + q.d * p.u) * r.u + r.d * (p.u * q.u)
        = (p.d * r.u + r.d * p.u) * q.u + q.d * (p.u * r.u)
  BY <1>1
<1>8. (p.u * q.u) * r.u = (p.u * r.u) * q.u
  BY <1>1
<1>. QED  BY <1>4, <1>5, <1>6, <1>7, <1>8 DEF f, g

(* The first is dogmatic and the second is: their mean, and then the third
   counts for nothing. *)
LEMMA ExchangeFirst ==
    ASSUME NEW p \in Opinions, NEW q \in Opinions, NEW r \in Opinions,
           Dogmatic(p), Dogmatic(q), ~Dogmatic(r)
    PROVE  Fuse(Fuse(p, q), r) = Fuse(Fuse(p, r), q)
PROOF
<1>. DEFINE f == Fuse(p, q)
            g == Fuse(p, r)
<1>1. /\ p.b \in Nat /\ p.d \in Nat /\ p.u = 0 /\ Weight(p) = p.b + p.d
      /\ q.b \in Nat /\ q.d \in Nat /\ q.u = 0 /\ Weight(q) = q.b + q.d
      /\ r.b \in Nat /\ r.d \in Nat /\ r.u \in Nat
  BY OpinionParts DEF Dogmatic
<1>2. /\ f = [b |-> p.b * Weight(q) + q.b * Weight(p), d |-> p.d * Weight(q) + q.d * Weight(p),
              u |-> 0]
      /\ g = [b |-> p.b * r.u + r.b * p.u, d |-> p.d * r.u + r.d * p.u, u |-> p.u * r.u]
  BY FuseParts DEF FuseDogmatic
<1>3. f \in Opinions /\ g \in Opinions /\ Dogmatic(f) /\ Dogmatic(g)
  BY FuseParts, FuseIsOpinion
<1>. HIDE DEF f, g
<1>4. /\ f.b = p.b * Weight(q) + q.b * Weight(p) /\ f.d = p.d * Weight(q) + q.d * Weight(p)
      /\ f.u = 0 /\ g.b = p.b * r.u /\ g.d = p.d * r.u /\ g.u = 0
  BY <1>1, <1>2
<1>5. Weight(g) = Weight(p) * r.u
  BY <1>1, <1>4 DEF Weight
<1>6. Fuse(f, r) = [b |-> f.b * r.u, d |-> f.d * r.u, u |-> 0]
  <2>1. r.b * f.u = 0 /\ r.d * f.u = 0 /\ f.u * r.u = 0
    BY <1>1, <1>4
  <2>2. f.b * r.u + 0 = f.b * r.u /\ f.d * r.u + 0 = f.d * r.u
    <3>1. f.b \in Nat /\ f.d \in Nat
      BY <1>3, OpinionParts
    <3>. QED  BY <1>1, <3>1
  <2>. QED  BY <1>3, <2>1, <2>2, FuseParts
<1>7. Fuse(g, q) = [b |-> g.b * Weight(q) + q.b * Weight(g),
                    d |-> g.d * Weight(q) + q.d * Weight(g), u |-> 0]
  BY <1>3, FuseParts DEF FuseDogmatic
<1>8. Weight(p) \in Nat /\ Weight(q) \in Nat
  BY OpinionParts
<1>9. /\ (p.b * Weight(q) + q.b * Weight(p)) * r.u
            = (p.b * r.u) * Weight(q) + q.b * (Weight(p) * r.u)
      /\ (p.d * Weight(q) + q.d * Weight(p)) * r.u
            = (p.d * r.u) * Weight(q) + q.d * (Weight(p) * r.u)
  BY <1>1, <1>8
<1>. QED  BY <1>4, <1>5, <1>6, <1>7, <1>9 DEF f, g

(* The last two are dogmatic: their mean, of which the first is no part. *)
LEMMA ExchangeLast ==
    ASSUME NEW p \in Opinions, NEW q \in Opinions, NEW r \in Opinions,
           ~Dogmatic(p), Dogmatic(q), Dogmatic(r)
    PROVE  Fuse(Fuse(p, q), r) = Fuse(Fuse(p, r), q)
PROOF
<1>. DEFINE f == Fuse(p, q)
            g == Fuse(p, r)
<1>1. /\ p.b \in Nat /\ p.d \in Nat /\ p.u \in Nat
      /\ q.b \in Nat /\ q.d \in Nat /\ q.u = 0 /\ Weight(q) = q.b + q.d
      /\ r.b \in Nat /\ r.d \in Nat /\ r.u = 0 /\ Weight(r) = r.b + r.d
  BY OpinionParts DEF Dogmatic
<1>2. /\ f = [b |-> p.b * q.u + q.b * p.u, d |-> p.d * q.u + q.d * p.u, u |-> p.u * q.u]
      /\ g = [b |-> p.b * r.u + r.b * p.u, d |-> p.d * r.u + r.d * p.u, u |-> p.u * r.u]
  BY FuseParts
<1>3. f \in Opinions /\ g \in Opinions /\ Dogmatic(f) /\ Dogmatic(g)
  BY FuseParts, FuseIsOpinion
<1>. HIDE DEF f, g
<1>4. /\ f.b = q.b * p.u /\ f.d = q.d * p.u /\ f.u = 0
      /\ g.b = r.b * p.u /\ g.d = r.d * p.u /\ g.u = 0
  BY <1>1, <1>2
<1>5. Weight(f) = Weight(q) * p.u /\ Weight(g) = Weight(r) * p.u
  BY <1>1, <1>4 DEF Weight
<1>6. /\ Fuse(f, r) = [b |-> f.b * Weight(r) + r.b * Weight(f),
                       d |-> f.d * Weight(r) + r.d * Weight(f), u |-> 0]
      /\ Fuse(g, q) = [b |-> g.b * Weight(q) + q.b * Weight(g),
                       d |-> g.d * Weight(q) + q.d * Weight(g), u |-> 0]
  BY <1>3, FuseParts DEF FuseDogmatic
<1>7. Weight(q) \in Nat /\ Weight(r) \in Nat
  BY OpinionParts
<1>8. /\ (q.b * p.u) * Weight(r) + r.b * (Weight(q) * p.u)
            = (r.b * p.u) * Weight(q) + q.b * (Weight(r) * p.u)
      /\ (q.d * p.u) * Weight(r) + r.d * (Weight(q) * p.u)
            = (r.d * p.u) * Weight(q) + q.d * (Weight(r) * p.u)
  BY <1>1, <1>7
<1>. QED  BY <1>4, <1>5, <1>6, <1>8 DEF f, g

(* fusion.py: fusing q and then r into p leaves what r and then q leave, to the
   last weight, unless all three are dogmatic (the mean of means is not the
   mean).  What a record absorbs is never dogmatic, and so neither the order of
   two submissions nor, by exchanging neighbours, that of many matters. *)
LEMMA SubmissionsCommute ==
    ASSUME NEW p \in Opinions, NEW q \in Opinions, NEW r \in Opinions,
           ~(Dogmatic(p) /\ Dogmatic(q) /\ Dogmatic(r))
    PROVE  Fuse(Fuse(p, q), r) = Fuse(Fuse(p, r), q)
PROOF BY ExchangeWeights, ExchangeFirst, ExchangeLast

-----------------------------------------------------------------------------
(* Induction, as a fact about sets of numbers. *)
LEMMA CountingUp ==
    ASSUME NEW S \in SUBSET Nat, 0 \in S, \A n \in S : n + 1 \in S
    PROVE  S = Nat
PROOF
<1>. DEFINE T == Nat \ S
            R == OpToRel(<, Nat)
<1>. SUFFICES ASSUME T # {} PROVE FALSE
  OBVIOUS
<1>1. IsWellFoundedOn(R, Nat)
  BY NatLessThanWellFounded
<1>2. T \subseteq Nat
  OBVIOUS
<1>. HIDE DEF T, R
<1>3. PICK x \in T : \A y \in T : ~(<<y, x>> \in R)
  BY <1>1, <1>2, WFMin
<1>. USE DEF T
<1>4. x \in Nat /\ x # 0
  BY <1>3
<1>5. x - 1 \in Nat /\ x - 1 \notin S
  BY <1>3, <1>4
<1>6. <<x - 1, x>> \in R
  BY <1>4, <1>5 DEF R, OpToRel
<1>. QED  BY <1>3, <1>5, <1>6

(* f is what fusing s from left to right goes through, up to the n-th. *)
Fusing(f, s, n) ==
    /\ f \in [1..n -> Certain]
    /\ n > 0 => f[1] = s[1]
    /\ \A i \in 2..n : f[i] = Fuse(f[i - 1], s[i])

LEMMA FuseIsCertain ==
    ASSUME NEW p \in Certain, NEW q \in Certain
    PROVE  Fuse(p, q) \in Certain
PROOF BY FuseParts, FuseIsOpinion DEF Certain

(* The fold is defined, and its last value is what it computes. *)
LEMMA FuseAllFolds ==
    ASSUME NEW s \in Seq(Certain), s # << >>
    PROVE  \E f : Fusing(f, s, Len(s)) /\ FuseAll(s) = f[Len(s)]
PROOF
<1>. DEFINE N == Len(s)
            Folded == {n \in Nat : n <= N => \E f : Fusing(f, s, n)}
            Unfolded(f) == [i \in 1..N |-> IF i = 1 THEN s[1] ELSE Fuse(f[i - 1], s[i])]
            h == CHOOSE f : f = Unfolded(f)
<1>. USE DEF Fusing
<1>1. N \in Nat \ {0} /\ \A i \in 1..N : s[i] \in Certain
  OBVIOUS
<1>. HIDE DEF Certain, N
<1>2. 0 \in Folded
  <2>1. Fusing([i \in 1..0 |-> s[i]], s, 0)
    OBVIOUS
  <2>. QED  BY <2>1
<1>3. ASSUME NEW n \in Folded
      PROVE  n + 1 \in Folded
  <2>. SUFFICES ASSUME n + 1 <= N PROVE \E f : Fusing(f, s, n + 1)
    OBVIOUS
  <2>1. PICK f : Fusing(f, s, n)
    BY <1>1
  <2>. DEFINE g == [i \in 1..(n + 1) |-> IF i <= n THEN f[i]
                                         ELSE IF i = 1 THEN s[1] ELSE Fuse(f[n], s[i])]
  <2>2. \A i \in 1..(n + 1) : g[i] \in Certain
    <3>. TAKE i \in 1..(n + 1)
    <3>1. CASE i <= n
      BY <2>1, <3>1
    <3>2. CASE i = n + 1 /\ n = 0
      BY <1>1, <3>2
    <3>3. CASE i = n + 1 /\ n > 0
      <4>1. f[n] \in Certain /\ s[i] \in Certain
        BY <1>1, <2>1, <3>3
      <4>2. g[i] = Fuse(f[n], s[i])
        BY <3>3
      <4>. QED  BY <4>1, <4>2, FuseIsCertain
    <3>. QED  BY <3>1, <3>2, <3>3
  <2>3. g[1] = s[1]
    BY <2>1
  <2>4. \A i \in 2..(n + 1) : g[i] = Fuse(g[i - 1], s[i])
    BY <2>1
  <2>5. g \in [1..(n + 1) -> Certain]
    BY <2>2
  <2>. HIDE DEF g
  <2>. QED  BY <2>3, <2>4, <2>5
<1>4. Folded = Nat
  <2>. HIDE DEF Folded
  <2>1. Folded \subseteq Nat
    BY DEF Folded
  <2>. QED  BY <1>2, <1>3, <2>1, CountingUp
<1>5. PICK f : Fusing(f, s, N)
  <2>1. N \in Nat /\ N <= N
    BY <1>1
  <2>2. N \in Folded
    <3>. HIDE DEF Folded
    <3>. QED  BY <1>4, <2>1
  <2>. HIDE DEF Fusing
  <2>. QED  BY <2>1, <2>2
<1>6. f = Unfolded(f)
  <2>1. \A i \in 1..N : f[i] = IF i = 1 THEN s[1] ELSE Fuse(f[i - 1], s[i])
    BY <1>1, <1>5
  <2>2. f = [i \in 1..N |-> f[i]]
    BY <1>5
  <2>. QED  BY <2>1, <2>2
<1>7. h = Unfolded(h)
  <2>. HIDE DEF Unfolded
  <2>. QED  BY <1>6, Zenon
<1>. HIDE DEF h
<1>8. \A n \in Nat : n > 0 /\ n <= N => h[n] = f[n]
  <2>. DEFINE Equal == {n \in Nat : n > 0 /\ n <= N => h[n] = f[n]}
  <2>1. \A i \in 1..N : h[i] = IF i = 1 THEN s[1] ELSE Fuse(h[i - 1], s[i])
    BY <1>7
  <2>2. \A n \in Equal : n + 1 \in Equal
    BY <1>1, <1>5, <2>1
  <2>3. Equal = Nat
    <3>1. 0 \in Equal /\ Equal \subseteq Nat
      OBVIOUS
    <3>. HIDE DEF Equal
    <3>. QED  BY <2>2, <3>1, CountingUp
  <2>. QED  BY <2>3
<1>9. FuseAll(s) = h[N]
  BY DEF FuseAll, h, N
<1>. QED  BY <1>1, <1>5, <1>8, <1>9 DEF N

(* Two neighbours change places. *)
LEMMA SwappedParts ==
    ASSUME NEW s \in Seq(Certain), NEW i \in 1..(Len(s) - 1)
    PROVE  /\ Swapped(s, i) \in Seq(Certain) /\ Len(Swapped(s, i)) = Len(s)
           /\ Swapped(s, i)[i] = s[i + 1] /\ Swapped(s, i)[i + 1] = s[i]
           /\ \A k \in (1..Len(s)) \ {i, i + 1} : Swapped(s, i)[k] = s[k]
PROOF
<1>. HIDE DEF Certain
<1>. QED  BY DEF Swapped

LEMMA FuseIsSymmetric ==
    ASSUME NEW p \in Certain, NEW q \in Certain
    PROVE  Fuse(p, q) = Fuse(q, p)
PROOF
<1>1. /\ p.b \in Nat /\ p.d \in Nat /\ p.u \in Nat /\ q.b \in Nat /\ q.d \in Nat /\ q.u \in Nat
      /\ p \in Opinions /\ q \in Opinions /\ ~Dogmatic(p) /\ ~Dogmatic(q)
  BY OpinionParts DEF Certain
<1>2. /\ Fuse(p, q) = [b |-> p.b * q.u + q.b * p.u, d |-> p.d * q.u + q.d * p.u, u |-> p.u * q.u]
      /\ Fuse(q, p) = [b |-> q.b * p.u + p.b * q.u, d |-> q.d * p.u + p.d * q.u, u |-> q.u * p.u]
  BY <1>1, FuseParts
<1>3. /\ p.b * q.u + q.b * p.u = q.b * p.u + p.b * q.u
      /\ p.d * q.u + q.d * p.u = q.d * p.u + p.d * q.u
      /\ p.u * q.u = q.u * p.u
  BY <1>1
<1>. QED  BY <1>2, <1>3

(* The two folds go apart at i and meet again at i + 1. *)
LEMMA FusionIgnoresExchange ==
    ASSUME NEW s \in Seq(Certain), NEW i \in 1..(Len(s) - 1)
    PROVE  FuseAll(Swapped(s, i)) = FuseAll(s) /\ FuseAll(s) \in Opinions
PROOF
<1>. DEFINE N == Len(s)
            t == Swapped(s, i)
<1>1. /\ t \in Seq(Certain) /\ Len(t) = N /\ s # << >> /\ t # << >>
      /\ t[i] = s[i + 1] /\ t[i + 1] = s[i] /\ \A k \in (1..N) \ {i, i + 1} : t[k] = s[k]
  <2>1. t \in Seq(Certain) /\ Len(t) = N /\ N \in Nat /\ N > 0
        /\ t[i] = s[i + 1] /\ t[i + 1] = s[i] /\ \A k \in (1..N) \ {i, i + 1} : t[k] = s[k]
    BY SwappedParts
  <2>. HIDE DEF t
  <2>. QED  BY <2>1
<1>2. i \in Nat \ {0} /\ N \in Nat /\ i + 1 <= N
  OBVIOUS
<1>3. \A k \in 1..N : s[k] \in Certain
  OBVIOUS
<1>. HIDE DEF t, Certain
<1>4. PICK f : Fusing(f, s, N) /\ FuseAll(s) = f[N]
  BY <1>1, FuseAllFolds
<1>5. PICK g : Fusing(g, t, N) /\ FuseAll(t) = g[N]
  BY <1>1, FuseAllFolds
<1>. HIDE DEF N
<1>6. /\ f \in [1..N -> Certain] /\ f[1] = s[1] /\ \A k \in 2..N : f[k] = Fuse(f[k - 1], s[k])
      /\ g \in [1..N -> Certain] /\ g[1] = t[1] /\ \A k \in 2..N : g[k] = Fuse(g[k - 1], t[k])
  BY <1>2, <1>4, <1>5 DEF Fusing
<1>. DEFINE Equal == {n \in Nat : \A k \in 1..n : k <= N /\ k # i => f[k] = g[k]}
<1>7. ASSUME NEW n \in Equal
      PROVE  n + 1 \in Equal
  <2>. SUFFICES ASSUME n + 1 <= N, n + 1 # i PROVE f[n + 1] = g[n + 1]
    OBVIOUS
  <2>1. CASE n = i /\ i = 1
    <3>1. f[2] = Fuse(s[1], s[2]) /\ g[2] = Fuse(s[2], s[1])
      BY <1>1, <1>2, <1>6, <2>1
    <3>. QED  BY <1>2, <1>3, <2>1, <3>1, FuseIsSymmetric
  <2>2. CASE n = i /\ i > 1
    <3>. DEFINE p == f[i - 1]
    <3>1. p \in Certain /\ g[i - 1] = p /\ s[i] \in Certain /\ s[i + 1] \in Certain
      BY <1>2, <1>3, <1>6, <2>2
    <3>2. f[i] = Fuse(p, s[i]) /\ g[i] = Fuse(p, s[i + 1])
      BY <1>1, <1>2, <1>6, <2>2, <3>1
    <3>. HIDE DEF p
    <3>3. f[i + 1] = Fuse(Fuse(p, s[i]), s[i + 1]) /\ g[i + 1] = Fuse(Fuse(p, s[i + 1]), s[i])
      <4>1. i + 1 \in 2..N /\ (i + 1) - 1 = i
        BY <1>2
      <4>. QED  BY <1>1, <1>6, <3>2, <4>1
    <3>4. Fuse(Fuse(p, s[i]), s[i + 1]) = Fuse(Fuse(p, s[i + 1]), s[i])
      BY <3>1, SubmissionsCommute DEF Certain
    <3>. QED  BY <2>2, <3>3, <3>4
  <2>3. CASE n # i /\ n = 0
    BY <1>1, <1>2, <1>6, <2>3
  <2>4. CASE n # i /\ n > 0
    <3>1. f[n] = g[n] /\ t[n + 1] = s[n + 1]
      BY <1>1, <2>4
    <3>2. n + 1 \in 2..N /\ (n + 1) - 1 = n
      BY <1>2, <2>4
    <3>. QED  BY <1>6, <3>1, <3>2
  <2>. QED  BY <1>2, <2>1, <2>2, <2>3, <2>4
<1>8. Equal = Nat
  <2>1. 0 \in Equal /\ Equal \subseteq Nat
    OBVIOUS
  <2>. HIDE DEF Equal
  <2>. QED  BY <1>7, <2>1, CountingUp
<1>9. f[N] = g[N] /\ f[N] \in Certain
  BY <1>2, <1>6, <1>8
<1>. QED  BY <1>4, <1>5, <1>9 DEF t, Certain

LEMMA SameAsItself ==
    ASSUME NEW p, NEW q, p = q
    PROVE  Same(p, q)
PROOF BY DEF Same

(* fusion.py: the fold over what a record has heard is the same, to the last
   weight, after any two neighbours have changed places, and so in every order:
   for any evidence, any authorities and any number of submissions. *)
THEOREM OrderOfSubmissionsIsForgotten == AssessmentSpec => []FusionIgnoresOrder
PROOF
<1>1. SaidInv => FusionIgnoresOrder
  <2>. SUFFICES ASSUME SaidInv, NEW i \in 1..(Len(Heard) - 1)
                PROVE  Same(FuseAll(Heard), FuseAll(Swapped(Heard, i)))
    BY DEF FusionIgnoresOrder
  <2>1. Heard \in Seq(Certain)
    BY HeardIsCertain
  <2>. HIDE DEF Heard
  <2>. QED  BY <2>1, FusionIgnoresExchange, SameAsItself
<1>. QED  BY <1>1, SaidHolds, PTL

-----------------------------------------------------------------------------
(* E lists the events es, each once, in the order of the replay. *)
Listing(E, es, n) ==
    /\ E \in [1..n -> es]
    /\ \A x \in es : \E k \in 1..n : E[k] = x
    /\ \A j, k \in 1..n : j < k => Before(E[j], E[k])

EventSpace == [at: Nat, kind: Nat, index: Nat]

LEMMA BeforeIsAnOrder ==
    ASSUME NEW x \in EventSpace, NEW y \in EventSpace, Before(x, y)
    PROVE  ~Before(y, x) /\ x # y
PROOF BY DEF Before, EventSpace

(* The first m elements of a list are m. *)
LEMMA ListedAreCounted ==
    ASSUME NEW n \in Nat, NEW E, \A j, k \in 1..n : j < k => E[j] # E[k]
    PROVE  \A m \in 0..n : Cardinality({E[j] : j \in 1..m}) = m
PROOF
<1>. DEFINE First(m) == {E[j] : j \in 1..m}
            Counted == {m \in Nat : m <= n => IsFiniteSet(First(m)) /\ Cardinality(First(m)) = m}
<1>1. 0 \in Counted
  <2>1. First(0) = {}
    OBVIOUS
  <2>. QED  BY <2>1, FS_EmptySet
<1>2. ASSUME NEW m \in Counted
      PROVE  m + 1 \in Counted
  <2>. SUFFICES ASSUME m + 1 <= n
                PROVE  IsFiniteSet(First(m + 1)) /\ Cardinality(First(m + 1)) = m + 1
    OBVIOUS
  <2>1. m \in Nat /\ IsFiniteSet(First(m)) /\ Cardinality(First(m)) = m
    OBVIOUS
  <2>2. First(m + 1) = First(m) \cup {E[m + 1]}
    <3>1. 1..(m + 1) = 1..m \cup {m + 1}
      BY <2>1
    <3>. QED  BY <3>1, Zenon
  <2>3. E[m + 1] \notin First(m)
    <3>1. \A j \in 1..m : E[j] # E[m + 1]
      BY <2>1
    <3>. QED  BY <3>1
  <2>. HIDE DEF First
  <2>. QED  BY <2>1, <2>2, <2>3, FS_AddElement
<1>3. Counted = Nat
  <2>1. Counted \subseteq Nat
    OBVIOUS
  <2>. HIDE DEF Counted
  <2>. QED  BY <1>1, <1>2, <2>1, CountingUp
<1>. HIDE DEF First
<1>4. \A m \in 0..n : Cardinality(First(m)) = m
  BY <1>3
<1>. QED  BY <1>4 DEF First

(* Sorting by the number of predecessors yields the list. *)
LEMMA InOrderLists ==
    ASSUME NEW es \in SUBSET EventSpace, NEW n \in Nat, NEW E, Listing(E, es, n)
    PROVE  InOrder(es) = E /\ Len(InOrder(es)) = n
PROOF
<1>. DEFINE Rank(x) == Cardinality({y \in es : Before(y, x)})
<1>1. \A k \in 1..n : E[k] \in es /\ E[k] \in EventSpace
  BY DEF Listing
<1>2. \A j, k \in 1..n : j < k => E[j] # E[k] /\ Before(E[j], E[k]) /\ ~Before(E[k], E[j])
  BY <1>1, BeforeIsAnOrder DEF Listing
<1>3. \A k \in 1..n : ~Before(E[k], E[k])
  BY <1>1, BeforeIsAnOrder
<1>4. \A m \in 0..n : Cardinality({E[j] : j \in 1..m}) = m
  BY <1>2, ListedAreCounted
<1>5. Cardinality(es) = n
  <2>1. es = {E[j] : j \in 1..n}
    BY DEF Listing
  <2>. QED  BY <1>4, <2>1
<1>6. \A k \in 1..n : Rank(E[k]) = k - 1
  <2>. TAKE k \in 1..n
  <2>1. {y \in es : Before(y, E[k])} = {E[j] : j \in 1..(k - 1)}
    <3>1. ASSUME NEW y \in es, Before(y, E[k])
          PROVE  \E j \in 1..(k - 1) : y = E[j]
      <4>1. PICK j \in 1..n : E[j] = y
        BY DEF Listing
      <4>2. ~(k < j) /\ j # k
        BY <1>2, <1>3, <3>1, <4>1
      <4>3. j \in 1..(k - 1)
        BY <4>2
      <4>. QED  BY <4>1, <4>3
    <3>2. ASSUME NEW j \in 1..(k - 1)
          PROVE  E[j] \in es /\ Before(E[j], E[k])
      BY <1>1, <1>2
    <3>. QED  BY <3>1, <3>2
  <2>2. k - 1 \in 0..n
    OBVIOUS
  <2>. QED  BY <1>4, <2>1, <2>2
<1>7. InOrder(es) = [k \in 1..n |-> CHOOSE x \in es : Rank(x) = k - 1]
  BY <1>5 DEF InOrder
<1>. HIDE DEF Rank
<1>8. ASSUME NEW k \in 1..n
      PROVE  (CHOOSE x \in es : Rank(x) = k - 1) = E[k]
  <2>. DEFINE c == CHOOSE x \in es : Rank(x) = k - 1
  <2>1. c \in es /\ Rank(c) = k - 1
    BY <1>1, <1>6
  <2>. HIDE DEF c
  <2>2. PICK j \in 1..n : E[j] = c
    BY <2>1 DEF Listing
  <2>3. Rank(c) = j - 1
    BY <1>6, <2>2
  <2>4. j = k
    BY <2>1, <2>3
  <2>. QED  BY <2>2, <2>4 DEF c
<1>9. E = [k \in 1..n |-> E[k]]
  BY DEF Listing
<1>10. InOrder(es) = E
  BY <1>7, <1>8, <1>9
<1>11. E \in Seq(es) /\ Len(E) = n
  BY DEF Listing
<1>. QED  BY <1>10, <1>11

-----------------------------------------------------------------------------
(* What the replay keeps between two events, and what one event makes of it. *)
Moments == [opinion: Certain, last: 0..MaxClock]

Stepped(declared, m, x) ==
    LET decayed == AdvanceTime(m.opinion, x.at - m.last)
    IN  [opinion |-> IF x.kind = 0
                     THEN Fuse(decayed, FromEvidence(declared[x.index].evidence))
                     ELSE decayed,
         last    |-> x.at]

(* f is what the replay of the first n events of E goes through. *)
Replaying(f, declared, E, n) ==
    /\ f \in [0..n -> Moments]
    /\ f[0] = [opinion |-> Vacuous, last |-> 0]
    /\ \A k \in 1..n : f[k] = Stepped(declared, f[k - 1], E[k])

LEMMA EventsAre ==
    ASSUME NEW declared \in Seq(SaidEntries), NEW c \in 0..MaxClock
    PROVE  /\ Events(declared, 0..c) \in SUBSET EventSpace
           /\ \A y \in Events(declared, 0..c) :
                 /\ y \in EventSpace /\ y.at \in 0..MaxClock
                 /\ \/ y.kind = 0 /\ y.index \in DOMAIN declared /\ y.at = declared[y.index].at
                    \/ y.kind = 1 /\ y.index = y.at /\ y.at \in 0..c
PROOF
<1>1. MaxClock \in Nat
  BY BoundsAreNat
<1>2. \A i \in DOMAIN declared : declared[i].at \in 0..MaxClock /\ i \in Nat
  <2>1. \A x \in SaidEntries : x.at \in 0..MaxClock
    BY DEF SaidEntries
  <2>. HIDE DEF SaidEntries
  <2>. QED  BY <2>1
<1>3. ASSUME NEW y \in Events(declared, 0..c)
      PROVE  /\ y \in EventSpace /\ y.at \in 0..MaxClock
             /\ \/ y.kind = 0 /\ y.index \in DOMAIN declared /\ y.at = declared[y.index].at
                \/ y.kind = 1 /\ y.index = y.at /\ y.at \in 0..c
  <2>1. CASE \E i \in DOMAIN declared : y = [at |-> declared[i].at, kind |-> 0, index |-> i]
    <3>1. PICK i \in DOMAIN declared : y = [at |-> declared[i].at, kind |-> 0, index |-> i]
      BY <2>1
    <3>2. declared[i].at \in Nat /\ i \in Nat
      BY <1>1, <1>2
    <3>. QED  BY <1>2, <3>1, <3>2 DEF EventSpace
  <2>2. CASE \E t \in 0..c : y = [at |-> t, kind |-> 1, index |-> t]
    BY <1>1, <2>2 DEF EventSpace
  <2>. QED  BY <2>1, <2>2 DEF Events
<1>. QED  BY <1>3

LEMMA DecayIsCertain ==
    ASSUME NEW o \in Certain, NEW g \in Nat \ {0}
    PROVE  Decay(o, g) \in Certain
PROOF
<1>1. /\ o.b \in Nat /\ o.d \in Nat /\ o.u \in Nat \ {0} /\ Weight(o) \in Nat
      /\ Weight(o) = o.b + o.d + o.u
  BY OpinionParts DEF Certain, Dogmatic
<1>. DEFINE u == g * Weight(o) - (o.b + o.d)
<1>2. u \in Nat \ {0}
  <2>1. 1 * Weight(o) <= g * Weight(o) /\ g * Weight(o) \in Nat
    BY <1>1, ScaledLess
  <2>. QED  BY <1>1, <2>1
<1>. HIDE DEF u
<1>3. [b |-> o.b, d |-> o.d, u |-> u] \in Certain
  BY <1>1, <1>2, CertainParts DEF Certain
<1>. QED  BY <1>3 DEF Decay, u

LEMMA GrowthIsPositive ==
    ASSUME NEW k \in 0..MaxClock
    PROVE  Growth(k) \in Nat \ {0} /\ k \in 0..MaxDecay
PROOF
<1>1. k \in 0..MaxDecay
  BY BoundsAreNat DEF MaxDecay
<1>. QED  BY <1>1, GrowthIsExponential

LEMMA AdvanceIsCertain ==
    ASSUME NEW o \in Certain, NEW s \in 0..MaxClock, NEW t \in 0..MaxClock
    PROVE  AdvanceTime(o, t - s) \in Certain
PROOF
<1>1. MaxClock \in Nat
  BY BoundsAreNat
<1>2. CASE t - s <= 0
  BY <1>2 DEF AdvanceTime
<1>3. CASE ~(t - s <= 0)
  <2>1. t - s \in 0..MaxClock
    BY <1>1, <1>3
  <2>2. Growth(t - s) \in Nat \ {0}
    BY <2>1, GrowthIsPositive
  <2>. QED  BY <1>3, <2>2, DecayIsCertain DEF AdvanceTime
<1>. QED  BY <1>2, <1>3

LEMMA EntryParts ==
    ASSUME NEW x \in SaidEntries
    PROVE  /\ x.at \in 0..MaxClock /\ x.evidence \in Evidence /\ x.opinion \in Certain
           /\ FromEvidence(x.evidence) \in Certain
PROOF
<1>1. x.at \in 0..MaxClock /\ x.evidence \in Evidence /\ x.opinion \in Certain
  BY DEF SaidEntries
<1>2. FromEvidence(x.evidence) \in Certain
  BY <1>1, EvidenceSupports DEF Supported, Certain
<1>. QED  BY <1>1, <1>2

LEMMA SteppedIsMoment ==
    ASSUME NEW declared \in Seq(SaidEntries), NEW c \in 0..MaxClock, NEW m \in Moments,
           NEW y \in Events(declared, 0..c)
    PROVE  Stepped(declared, m, y) \in Moments /\ Stepped(declared, m, y).last = y.at
PROOF
<1>. DEFINE decayed == AdvanceTime(m.opinion, y.at - m.last)
            e == FromEvidence(declared[y.index].evidence)
<1>1. /\ y.at \in 0..MaxClock
      /\ \/ y.kind = 0 /\ y.index \in DOMAIN declared
         \/ y.kind = 1
  BY EventsAre
<1>2. decayed \in Certain
  <2>1. m.opinion \in Certain /\ m.last \in 0..MaxClock
    BY DEF Moments
  <2>. QED  BY <1>1, <2>1, AdvanceIsCertain
<1>3. y.kind = 0 => e \in Certain
  <2>. SUFFICES ASSUME y.kind = 0 PROVE e \in Certain
    OBVIOUS
  <2>1. y.index \in DOMAIN declared
    BY <1>1
  <2>2. declared[y.index] \in SaidEntries
    <3>. HIDE DEF SaidEntries
    <3>. QED  BY <2>1
  <2>. QED  BY <2>2, EntryParts
<1>4. Stepped(declared, m, y)
        = [opinion |-> IF y.kind = 0 THEN Fuse(decayed, e) ELSE decayed, last |-> y.at]
  BY DEF Stepped
<1>. HIDE DEF decayed, e, Certain
<1>5. (IF y.kind = 0 THEN Fuse(decayed, e) ELSE decayed) \in Certain
  BY <1>2, <1>3, FuseIsCertain
<1>. QED  BY <1>1, <1>4, <1>5 DEF Moments

(* The replay computes what such an f says. *)
LEMMA ReplayFolds ==
    ASSUME NEW declared \in Seq(SaidEntries), NEW c \in 0..MaxClock, NEW n \in Nat, NEW E, NEW f,
           Listing(E, Events(declared, 0..c), n), Replaying(f, declared, E, n)
    PROVE  Replay(declared, 0..c) = f[n].opinion
PROOF
<1>. DEFINE Start == [opinion |-> Vacuous, last |-> 0]
            Unrolled(u) == [k \in 0..n |-> IF k = 0 THEN Start
                                           ELSE Stepped(declared, u[k - 1], E[k])]
            h == CHOOSE u : u = Unrolled(u)
            Equal == {k \in Nat : k <= n => h[k] = f[k]}
<1>1. InOrder(Events(declared, 0..c)) = E /\ Len(InOrder(Events(declared, 0..c))) = n
  BY EventsAre, InOrderLists
<1>2. Replay(declared, 0..c) = h[n].opinion
  BY <1>1, ZenonT(60) DEF Replay, Stepped
<1>3. f = Unrolled(f)
  <2>. HIDE DEF Start
  <2>1. \A k \in 0..n : f[k] = IF k = 0 THEN Start ELSE Stepped(declared, f[k - 1], E[k])
    BY DEF Replaying, Start
  <2>2. f = [k \in 0..n |-> f[k]]
    BY DEF Replaying
  <2>. QED  BY <2>1, <2>2
<1>4. h = Unrolled(h)
  <2>. HIDE DEF Unrolled
  <2>. QED  BY <1>3, Zenon
<1>. HIDE DEF h
<1>5. \A k \in 0..n : h[k] = IF k = 0 THEN Start ELSE Stepped(declared, h[k - 1], E[k])
  <2>. HIDE DEF Start
  <2>. QED  BY <1>4
<1>6. 0 \in Equal /\ Equal \subseteq Nat
  BY <1>5 DEF Replaying
<1>7. \A k \in Equal : k + 1 \in Equal
  <2>. SUFFICES ASSUME NEW k \in Nat, k + 1 <= n, h[k] = f[k] PROVE h[k + 1] = f[k + 1]
    OBVIOUS
  <2>1. k + 1 \in 1..n /\ k + 1 \in 0..n /\ (k + 1) - 1 = k /\ k + 1 # 0
    OBVIOUS
  <2>. HIDE DEF Start
  <2>2. h[k + 1] = Stepped(declared, h[k], E[k + 1])
    BY <1>5, <2>1
  <2>3. f[k + 1] = Stepped(declared, f[k], E[k + 1])
    BY <2>1 DEF Replaying
  <2>. QED  BY <2>2, <2>3
<1>8. Equal = Nat
  <2>. HIDE DEF Equal
  <2>. QED  BY <1>6, <1>7, CountingUp
<1>. QED  BY <1>2, <1>8

-----------------------------------------------------------------------------
(* A replay up to tick c: E are the events, the last one is the expectation at
   c, and f is what happens to the opinion. *)
ReplayOf(declared, c, n, E, f) ==
    /\ n \in Nat \ {0}
    /\ Listing(E, Events(declared, 0..c), n)
    /\ E[n] = [at |-> c, kind |-> 1, index |-> c]
    /\ Replaying(f, declared, E, n)

(* The same event after one more piece of evidence was declared in front of
   (by = 1) or after (by = 0) the others. *)
Moved(y, by) == IF y.kind = 0 THEN [y EXCEPT !.index = @ + by] ELSE y

(* more is declared with piece x added at index new. *)
Added(declared, more, x, new, by) ==
    /\ declared \in Seq(SaidEntries) /\ more \in Seq(SaidEntries) /\ by \in {0, 1}
    /\ new \in DOMAIN more /\ more[new] = x
    /\ \A i \in DOMAIN declared : /\ i + by \in DOMAIN more /\ i + by # new
                                  /\ more[i + by] = declared[i]
    /\ \A j \in DOMAIN more : j = new \/ (j - by \in DOMAIN declared)

(* p is the place of x among the events E: what comes after it is of the same
   time. *)
Place(E, n, p, new, by, c) ==
    LET x == [at |-> c, kind |-> 0, index |-> new] IN
    /\ p \in 1..n
    /\ \A k \in 1..(p - 1) : Before(Moved(E[k], by), x)
    /\ \A k \in p..n : E[k].at = c /\ Before(x, Moved(E[k], by))

Widened(E, n, p, new, by, c) ==
    [k \in 1..(n + 1) |-> IF k < p THEN Moved(E[k], by)
                          ELSE IF k = p THEN [at |-> c, kind |-> 0, index |-> new]
                          ELSE Moved(E[k - 1], by)]

LEMMA MovedParts ==
    ASSUME NEW y \in EventSpace, NEW by \in {0, 1}
    PROVE  /\ Moved(y, by) \in EventSpace /\ Moved(y, by).at = y.at /\ Moved(y, by).kind = y.kind
           /\ Moved(y, by).index = IF y.kind = 0 THEN y.index + by ELSE y.index
PROOF
<1>1. CASE y.kind = 0
  BY <1>1 DEF Moved, EventSpace
<1>2. CASE y.kind # 0
  BY <1>2 DEF Moved
<1>. QED  BY <1>1, <1>2

LEMMA MovedKeepsOrder ==
    ASSUME NEW y \in EventSpace, NEW z \in EventSpace, NEW by \in {0, 1}, Before(y, z)
    PROVE  Before(Moved(y, by), Moved(z, by))
PROOF
<1>1. y.index \in Nat /\ z.index \in Nat /\ y.at \in Nat /\ z.at \in Nat /\ y.kind \in Nat /\ z.kind \in Nat
  BY DEF EventSpace
<1>. QED  BY <1>1, MovedParts DEF Before

(* The events of more, by their indices. *)
LEMMA MoreEvents ==
    ASSUME NEW declared, NEW more, NEW x \in SaidEntries, NEW new, NEW by, NEW c \in 0..MaxClock,
           Added(declared, more, x, new, by), x.at = c
    PROVE  /\ [at |-> c, kind |-> 0, index |-> new] \in Events(more, 0..c)
           /\ \A y \in Events(declared, 0..c) : Moved(y, by) \in Events(more, 0..c)
           /\ \A z \in Events(more, 0..c) :
                 \/ z = [at |-> c, kind |-> 0, index |-> new]
                 \/ \E y \in Events(declared, 0..c) : z = Moved(y, by)
PROOF
<1>1. /\ declared \in Seq(SaidEntries) /\ more \in Seq(SaidEntries) /\ by \in {0, 1}
      /\ new \in DOMAIN more /\ more[new] = x
      /\ \A i \in DOMAIN declared : /\ i + by \in DOMAIN more /\ more[i + by] = declared[i]
      /\ \A j \in DOMAIN more : j = new \/ (j - by \in DOMAIN declared)
  BY DEF Added
<1>2. DOMAIN declared \subseteq Nat /\ DOMAIN more \subseteq Nat
  BY <1>1
<1>. HIDE DEF SaidEntries
<1>3. [at |-> c, kind |-> 0, index |-> new] \in Events(more, 0..c)
  <2>1. [at |-> more[new].at, kind |-> 0, index |-> new] \in Events(more, 0..c)
    BY <1>1 DEF Events
  <2>. QED  BY <1>1, <2>1
<1>4. ASSUME NEW y \in Events(declared, 0..c)
      PROVE  Moved(y, by) \in Events(more, 0..c)
  <2>1. CASE \E i \in DOMAIN declared : y = [at |-> declared[i].at, kind |-> 0, index |-> i]
    <3>1. PICK i \in DOMAIN declared : y = [at |-> declared[i].at, kind |-> 0, index |-> i]
      BY <2>1
    <3>2. Moved(y, by) = [at |-> declared[i].at, kind |-> 0, index |-> i + by]
      BY <3>1 DEF Moved
    <3>3. i + by \in DOMAIN more /\ more[i + by].at = declared[i].at
      BY <1>1
    <3>. QED  BY <3>2, <3>3 DEF Events
  <2>2. CASE \E t \in 0..c : y = [at |-> t, kind |-> 1, index |-> t]
    BY <2>2 DEF Events, Moved
  <2>. QED  BY <2>1, <2>2 DEF Events
<1>5. ASSUME NEW z \in Events(more, 0..c)
      PROVE  \/ z = [at |-> c, kind |-> 0, index |-> new]
             \/ \E y \in Events(declared, 0..c) : z = Moved(y, by)
  <2>1. CASE \E j \in DOMAIN more : z = [at |-> more[j].at, kind |-> 0, index |-> j]
    <3>1. PICK j \in DOMAIN more : z = [at |-> more[j].at, kind |-> 0, index |-> j]
      BY <2>1
    <3>2. CASE j = new
      BY <1>1, <3>1, <3>2
    <3>3. CASE j # new
      <4>. DEFINE i == j - by
                  y == [at |-> declared[i].at, kind |-> 0, index |-> i]
      <4>1. i \in DOMAIN declared /\ i + by = j
        BY <1>1, <1>2, <3>3
      <4>2. more[j] = declared[i]
        BY <1>1, <4>1
      <4>. HIDE DEF i
      <4>3. y \in Events(declared, 0..c)
        BY <4>1 DEF Events
      <4>4. Moved(y, by) = [at |-> declared[i].at, kind |-> 0, index |-> i + by]
        BY DEF Moved
      <4>. QED  BY <3>1, <4>1, <4>2, <4>3, <4>4
    <3>. QED  BY <3>2, <3>3
  <2>2. CASE \E t \in 0..c : z = [at |-> t, kind |-> 1, index |-> t]
    <3>1. z \in Events(declared, 0..c) /\ Moved(z, by) = z
      BY <2>2 DEF Events, Moved
    <3>. QED  BY <3>1
  <2>. QED  BY <2>1, <2>2 DEF Events
<1>. QED  BY <1>3, <1>4, <1>5

LEMMA WidenedLists ==
    ASSUME NEW declared, NEW more, NEW x \in SaidEntries, NEW new, NEW by, NEW c \in 0..MaxClock,
           Added(declared, more, x, new, by), x.at = c, NEW n \in Nat \ {0}, NEW E,
           Listing(E, Events(declared, 0..c), n), NEW p, Place(E, n, p, new, by, c)
    PROVE  Listing(Widened(E, n, p, new, by, c), Events(more, 0..c), n + 1)
PROOF
<1>. DEFINE es == Events(declared, 0..c)
            xs == Events(more, 0..c)
            X  == [at |-> c, kind |-> 0, index |-> new]
            F  == Widened(E, n, p, new, by, c)
<1>1. by \in {0, 1} /\ es \in SUBSET EventSpace /\ p \in 1..n
  BY EventsAre DEF Added, Place
<1>2. /\ X \in xs /\ \A y \in es : Moved(y, by) \in xs
      /\ \A z \in xs : z = X \/ \E y \in es : z = Moved(y, by)
  BY MoreEvents, SMTT(30)
<1>3. /\ \A k \in 1..(p - 1) : Before(Moved(E[k], by), X)
      /\ \A k \in p..n : Before(X, Moved(E[k], by))
  BY DEF Place
<1>4. /\ E \in [1..n -> es] /\ \A y \in es : \E k \in 1..n : E[k] = y
      /\ \A j, k \in 1..n : j < k => Before(E[j], E[k])
  BY DEF Listing
<1>. HIDE DEF es, xs, X
<1>5. \A k \in 1..(n + 1) : F[k] = IF k < p THEN Moved(E[k], by)
                                   ELSE IF k = p THEN X ELSE Moved(E[k - 1], by)
  BY DEF Widened, X
<1>6. F \in [1..(n + 1) -> xs]
  <2>1. F = [k \in 1..(n + 1) |-> F[k]]
    BY DEF Widened
  <2>. HIDE DEF F
  <2>2. ASSUME NEW k \in 1..(n + 1)
        PROVE  F[k] \in xs
    <3>1. CASE k < p
      BY <1>1, <1>2, <1>4, <1>5, <3>1
    <3>2. CASE k = p
      BY <1>2, <1>5, <3>2
    <3>3. CASE k > p
      <4>1. k - 1 \in 1..n /\ F[k] = Moved(E[k - 1], by)
        BY <1>1, <1>5, <3>3
      <4>. QED  BY <1>2, <1>4, <4>1
    <3>. QED  BY <1>1, <3>1, <3>2, <3>3
  <2>. QED  BY <2>1, <2>2
<1>. HIDE DEF F
<1>7. ASSUME NEW z \in xs
      PROVE  \E k \in 1..(n + 1) : F[k] = z
  <2>1. CASE z = X
    BY <1>1, <1>5, <2>1
  <2>2. CASE z # X
    <3>1. PICK y \in es : z = Moved(y, by)
      BY <1>2, <2>2
    <3>2. PICK k \in 1..n : E[k] = y
      BY <1>4
    <3>3. CASE k < p
      BY <1>1, <1>5, <3>1, <3>2, <3>3
    <3>4. CASE ~(k < p)
      <4>1. k + 1 \in 1..(n + 1) /\ ~(k + 1 < p) /\ k + 1 # p /\ (k + 1) - 1 = k
        BY <1>1, <3>4
      <4>2. F[k + 1] = Moved(E[k], by)
        BY <1>5, <4>1
      <4>. QED  BY <3>1, <3>2, <4>1, <4>2
    <3>. QED  BY <3>3, <3>4
  <2>. QED  BY <2>1, <2>2
<1>8. \A j, k \in 1..n : j < k => Before(Moved(E[j], by), Moved(E[k], by))
  <2>1. \A k \in 1..n : E[k] \in EventSpace
    BY <1>1, <1>4
  <2>. QED  BY <1>1, <1>4, <2>1, MovedKeepsOrder
<1>9. ASSUME NEW j \in 1..(n + 1), NEW k \in 1..(n + 1), j < k
      PROVE  Before(F[j], F[k])
  <2>1. CASE k < p
    BY <1>1, <1>5, <1>8, <1>9, <2>1
  <2>2. CASE k = p
    <3>1. j \in 1..(p - 1) /\ F[j] = Moved(E[j], by) /\ F[k] = X
      BY <1>1, <1>5, <1>9, <2>2
    <3>. QED  BY <1>3, <3>1
  <2>3. CASE k > p /\ j < p
    <3>1. F[j] = Moved(E[j], by) /\ F[k] = Moved(E[k - 1], by)
      BY <1>1, <1>5, <1>9, <2>3
    <3>2. j \in 1..n /\ k - 1 \in 1..n /\ j < k - 1
      BY <1>1, <2>3
    <3>. QED  BY <1>8, <3>1, <3>2
  <2>4. CASE k > p /\ j = p
    <3>1. F[j] = X /\ F[k] = Moved(E[k - 1], by) /\ k - 1 \in p..n
      BY <1>1, <1>5, <1>9, <2>4
    <3>. QED  BY <1>3, <3>1
  <2>5. CASE k > p /\ j > p
    <3>1. F[j] = Moved(E[j - 1], by) /\ F[k] = Moved(E[k - 1], by)
      BY <1>1, <1>5, <1>9, <2>5
    <3>2. j - 1 \in 1..n /\ k - 1 \in 1..n /\ j - 1 < k - 1
      BY <1>1, <1>9, <2>5
    <3>. QED  BY <1>8, <3>1, <3>2
  <2>. QED  BY <1>1, <2>1, <2>2, <2>3, <2>4, <2>5
<1>. QED  BY <1>6, <1>7, <1>9 DEF Listing, xs, F

(* Events move, what they do stays. *)
LEMMA MovedSteps ==
    ASSUME NEW declared, NEW more, NEW x, NEW new, NEW by, NEW c \in 0..MaxClock,
           Added(declared, more, x, new, by), NEW y \in Events(declared, 0..c), NEW m
    PROVE  Stepped(more, m, Moved(y, by)) = Stepped(declared, m, y)
PROOF
<1>1. /\ declared \in Seq(SaidEntries) /\ by \in {0, 1}
      /\ \A i \in DOMAIN declared : more[i + by] = declared[i]
  BY DEF Added
<1>2. y \in EventSpace /\ (y.kind = 0 => y.index \in DOMAIN declared)
  BY <1>1, EventsAre
<1>3. /\ Moved(y, by).at = y.at /\ Moved(y, by).kind = y.kind
      /\ y.kind = 0 => more[Moved(y, by).index] = declared[y.index]
  BY <1>1, <1>2, MovedParts
<1>. QED  BY <1>3 DEF Stepped

(* A piece of evidence and any other event of its time, in either order. *)
LEMMA StepsOfOneTimeCommute ==
    ASSUME NEW declared \in Seq(SaidEntries), NEW c \in 0..MaxClock, NEW m \in Moments,
           NEW y \in Events(declared, 0..c), NEW e \in Certain, y.at = c
    PROVE  LET absorbed(s) == [opinion |-> Fuse(AdvanceTime(s.opinion, c - s.last), e),
                               last |-> c]
           IN  Stepped(declared, absorbed(m), y) = absorbed(Stepped(declared, m, y))
PROOF
<1>. DEFINE A == AdvanceTime(m.opinion, c - m.last)
            q == FromEvidence(declared[y.index].evidence)
            absorbed(s) == [opinion |-> Fuse(AdvanceTime(s.opinion, c - s.last), e), last |-> c]
<1>1. \A o : AdvanceTime(o, c - c) = o
  <2>1. c - c <= 0
    BY BoundsAreNat
  <2>. QED  BY <2>1 DEF AdvanceTime
<1>2. A \in Certain
  <2>1. m.opinion \in Certain /\ m.last \in 0..MaxClock
    BY DEF Moments
  <2>. QED  BY <2>1, AdvanceIsCertain
<1>3. y.kind = 0 => q \in Certain
  <2>. SUFFICES ASSUME y.kind = 0 PROVE q \in Certain
    OBVIOUS
  <2>1. y.index \in DOMAIN declared
    BY EventsAre
  <2>2. declared[y.index] \in SaidEntries
    <3>. HIDE DEF SaidEntries
    <3>. QED  BY <2>1
  <2>. QED  BY <2>2, EntryParts
<1>4. Stepped(declared, m, y) = [opinion |-> IF y.kind = 0 THEN Fuse(A, q) ELSE A, last |-> c]
  BY DEF Stepped
<1>5. absorbed(m) = [opinion |-> Fuse(A, e), last |-> c]
  OBVIOUS
<1>. HIDE DEF A, q, Certain
<1>6. Stepped(declared, absorbed(m), y)
        = [opinion |-> IF y.kind = 0 THEN Fuse(Fuse(A, e), q) ELSE Fuse(A, e), last |-> c]
  BY <1>1, <1>5 DEF Stepped, q
<1>7. absorbed(Stepped(declared, m, y))
        = [opinion |-> IF y.kind = 0 THEN Fuse(Fuse(A, q), e) ELSE Fuse(A, e), last |-> c]
  BY <1>1, <1>4
<1>8. y.kind = 0 => Fuse(Fuse(A, e), q) = Fuse(Fuse(A, q), e)
  BY <1>2, <1>3, SubmissionsCommute DEF Certain
<1>. QED  BY <1>6, <1>7, <1>8

(* One more piece of evidence of the last tick, wherever it was declared, is
   fused into what the replay had computed. *)
LEMMA ReplayAdds ==
    ASSUME NEW declared, NEW more, NEW x \in SaidEntries, NEW new, NEW by, NEW c \in 0..MaxClock,
           Added(declared, more, x, new, by), x.at = c, NEW n, NEW E, NEW f,
           ReplayOf(declared, c, n, E, f), NEW p, Place(E, n, p, new, by, c)
    PROVE  \E F, g : /\ ReplayOf(more, c, n + 1, F, g)
                     /\ g[n + 1].opinion = Fuse(f[n].opinion, FromEvidence(x.evidence))
PROOF
<1>. DEFINE es == Events(declared, 0..c)
            e  == FromEvidence(x.evidence)
            X  == [at |-> c, kind |-> 0, index |-> new]
            F  == Widened(E, n, p, new, by, c)
            absorbed(s) == [opinion |-> Fuse(AdvanceTime(s.opinion, c - s.last), e), last |-> c]
            g  == [k \in 0..(n + 1) |-> IF k < p THEN f[k] ELSE absorbed(f[k - 1])]
<1>1. /\ n \in Nat \ {0} /\ Listing(E, es, n) /\ Replaying(f, declared, E, n)
      /\ E[n] = [at |-> c, kind |-> 1, index |-> c]
  BY DEF ReplayOf
<1>2. /\ declared \in Seq(SaidEntries) /\ more \in Seq(SaidEntries) /\ by \in {0, 1}
      /\ more[new] = x /\ p \in 1..n
  BY DEF Added, Place
<1>3. Listing(F, Events(more, 0..c), n + 1)
  BY <1>1, WidenedLists
<1>4. \A k \in 1..(n + 1) : F[k] = IF k < p THEN Moved(E[k], by)
                                   ELSE IF k = p THEN X ELSE Moved(E[k - 1], by)
  BY DEF Widened
<1>5. \A k \in 1..n : E[k] \in es
  BY <1>1 DEF Listing
<1>6. /\ f \in [0..n -> Moments] /\ f[0] = [opinion |-> Vacuous, last |-> 0]
      /\ \A k \in 1..n : f[k] = Stepped(declared, f[k - 1], E[k])
  BY <1>1 DEF Replaying
<1>7. \A k \in p..n : E[k].at = c
  BY DEF Place
<1>8. e \in Certain
  BY EntryParts
<1>9. F[n + 1] = [at |-> c, kind |-> 1, index |-> c]
  <2>1. F[n + 1] = Moved(E[n], by)
    BY <1>1, <1>2, <1>4
  <2>. QED  BY <1>1, <2>1 DEF Moved
<1>10. \A s : Stepped(more, s, X) = absorbed(s)
  BY <1>2 DEF Stepped
<1>11. \A s \in Moments : absorbed(s) \in Moments
  <2>. SUFFICES ASSUME NEW s \in Moments PROVE absorbed(s) \in Moments
    OBVIOUS
  <2>1. s.opinion \in Certain /\ s.last \in 0..MaxClock
    BY DEF Moments
  <2>2. Fuse(AdvanceTime(s.opinion, c - s.last), e) \in Certain
    BY <1>8, <2>1, AdvanceIsCertain, FuseIsCertain
  <2>. HIDE DEF e, Certain
  <2>. QED  BY <2>2 DEF Moments
<1>. HIDE DEF es, e, X, F, Moments, absorbed
<1>12. g \in [0..(n + 1) -> Moments]
  <2>1. \A k \in 0..(n + 1) : k < p => f[k] \in Moments
    BY <1>1, <1>2, <1>6
  <2>2. \A k \in 0..(n + 1) : ~(k < p) => f[k - 1] \in Moments
    BY <1>1, <1>2, <1>6
  <2>. QED  BY <1>11, <2>1, <2>2
<1>13. \A k \in 0..(n + 1) : g[k] = IF k < p THEN f[k] ELSE absorbed(f[k - 1])
  OBVIOUS
<1>. HIDE DEF g
<1>14. g[0] = [opinion |-> Vacuous, last |-> 0]
  <2>1. 0 \in 0..(n + 1) /\ 0 < p
    BY <1>1, <1>2
  <2>2. g[0] = f[0]
    BY <1>13, <2>1
  <2>. QED  BY <1>6, <2>2
<1>15. ASSUME NEW k \in 1..(n + 1)
       PROVE  g[k] = Stepped(more, g[k - 1], F[k])
  <2>1. CASE k < p
    <3>1. k \in 1..n /\ g[k] = f[k] /\ g[k - 1] = f[k - 1] /\ F[k] = Moved(E[k], by)
      <4>1. /\ k \in 0..(n + 1) /\ k - 1 \in 0..(n + 1) /\ k < p /\ k - 1 < p
            /\ k \in 1..n
        BY <1>1, <1>2, <2>1
      <4>2. g[k] = f[k] /\ g[k - 1] = f[k - 1]
        BY <1>13, <4>1
      <4>3. F[k] = Moved(E[k], by)
        BY <1>4, <4>1
      <4>. QED  BY <4>1, <4>2, <4>3
    <3>2. E[k] \in Events(declared, 0..c) /\ f[k] = Stepped(declared, f[k - 1], E[k])
      BY <1>5, <1>6, <3>1 DEF es
    <3>. QED  BY <3>1, <3>2, MovedSteps
  <2>2. CASE k = p
    <3>0. k \in 0..(n + 1) /\ k - 1 \in 0..(n + 1) /\ ~(k < p) /\ k - 1 < p
      BY <1>1, <1>2, <2>2
    <3>1. g[k] = absorbed(f[k - 1]) /\ g[k - 1] = f[k - 1] /\ F[k] = X
      <4>1. g[k] = absorbed(f[k - 1]) /\ g[k - 1] = f[k - 1]
        BY <1>13, <3>0
      <4>2. F[k] = X
        BY <1>4, <2>2, <3>0
      <4>. QED  BY <4>1, <4>2
    <3>. QED  BY <1>10, <3>1
  <2>3. CASE k > p
    <3>1. /\ k - 1 \in 1..n /\ k - 1 \in p..n /\ g[k] = absorbed(f[k - 1])
          /\ g[k - 1] = absorbed(f[(k - 1) - 1]) /\ F[k] = Moved(E[k - 1], by)
      <4>1. /\ k \in 0..(n + 1) /\ k - 1 \in 0..(n + 1) /\ ~(k < p) /\ ~(k - 1 < p)
            /\ k - 1 \in 1..n /\ k - 1 \in p..n
        BY <1>1, <1>2, <2>3
      <4>2. g[k] = absorbed(f[k - 1]) /\ g[k - 1] = absorbed(f[(k - 1) - 1])
        BY <1>13, <4>1
      <4>3. F[k] = Moved(E[k - 1], by)
        BY <1>4, <2>3, <4>1
      <4>. QED  BY <4>1, <4>2, <4>3
    <3>. DEFINE j == k - 1
                y == E[j]
                m == f[j - 1]
    <3>2. y \in Events(declared, 0..c) /\ y.at = c /\ m \in Moments
          /\ f[j] = Stepped(declared, m, y)
      BY <1>1, <1>5, <1>6, <1>7, <3>1 DEF es
    <3>3. g[k] = absorbed(f[j]) /\ g[k - 1] = absorbed(m) /\ F[k] = Moved(y, by)
      BY <3>1
    <3>. HIDE DEF j, y, m
    <3>4. Stepped(declared, absorbed(m), y) = absorbed(Stepped(declared, m, y))
      BY <1>2, <1>8, <3>2, StepsOfOneTimeCommute DEF absorbed
    <3>5. Stepped(more, absorbed(m), Moved(y, by)) = Stepped(declared, absorbed(m), y)
      BY <3>2, MovedSteps
    <3>. QED  BY <3>2, <3>3, <3>4, <3>5
  <2>. QED  BY <1>2, <2>1, <2>2, <2>3
<1>16. ReplayOf(more, c, n + 1, F, g)
  BY <1>1, <1>3, <1>9, <1>12, <1>14, <1>15 DEF ReplayOf, Replaying
<1>17. g[n + 1].opinion = Fuse(f[n].opinion, e)
  <2>1. g[n + 1] = absorbed(f[n])
    BY <1>1, <1>2, <1>13
  <2>2. f[n] = Stepped(declared, f[n - 1], E[n])
    BY <1>1, <1>6
  <2>3. f[n].last = c
    BY <1>1, <2>2 DEF Stepped
  <2>4. c - c <= 0
    BY BoundsAreNat
  <2>. QED  BY <2>1, <2>3, <2>4 DEF absorbed, AdvanceTime
<1>. QED  BY <1>16, <1>17 DEF e

-----------------------------------------------------------------------------
(* The replay of declared up to tick c ends with opinion o. *)
Replayed(declared, c, o) ==
    \E n, E, f : ReplayOf(declared, c, n, E, f) /\ f[n].opinion = o

(* Everything declared is due by tick c. *)
Due(declared, c) == \A i \in DOMAIN declared : declared[i].at <= c

LEMMA ReplayedIs ==
    ASSUME NEW declared \in Seq(SaidEntries), NEW c \in 0..MaxClock, NEW o, Replayed(declared, c, o)
    PROVE  Replay(declared, 0..c) = o /\ o \in Certain
PROOF
<1>1. PICK n, E, f : ReplayOf(declared, c, n, E, f) /\ f[n].opinion = o
  BY DEF Replayed
<1>2. /\ n \in Nat \ {0} /\ Listing(E, Events(declared, 0..c), n)
      /\ Replaying(f, declared, E, n)
  BY <1>1 DEF ReplayOf
<1>3. f[n] \in Moments
  BY <1>2 DEF Replaying
<1>4. Replay(declared, 0..c) = f[n].opinion
  <2>1. n \in Nat /\ Listing(E, Events(declared, 0..c), n) /\ Replaying(f, declared, E, n)
    BY <1>2
  <2>. QED  BY <2>1, ReplayFolds
<1>5. f[n].opinion \in Certain
  BY <1>3 DEF Moments
<1>. QED  BY <1>1, <1>4, <1>5, Zenon

LEMMA ReplayedAtFirst == Replayed(<< >>, 0, Vacuous)
PROOF
<1>. DEFINE x == [at |-> 0, kind |-> 1, index |-> 0]
            E == [k \in 1..1 |-> x]
            s == [opinion |-> Vacuous, last |-> 0]
            f == [k \in 0..1 |-> s]
<1>1. Events(<< >>, 0..0) = {x}
  BY DEF Events
<1>2. Listing(E, {x}, 1)
  BY DEF Listing
<1>3. s \in Moments
  <2>1. Vacuous \in Certain
    BY CertainParts DEF Vacuous, Certain
  <2>2. 0 \in 0..MaxClock
    BY BoundsAreNat
  <2>. QED  BY <2>1, <2>2 DEF Moments
<1>4. Stepped(<< >>, s, x) = s
  BY DEF Stepped, AdvanceTime
<1>5. E[1] = x
  OBVIOUS
<1>. HIDE DEF s, x, Moments
<1>6. Replaying(f, << >>, E, 1)
  <2>1. f \in [0..1 -> Moments] /\ f[0] = s /\ f[1] = s /\ f[1].opinion = s.opinion
    BY <1>3
  <2>. HIDE DEF f, E
  <2>2. \A k \in 1..1 : f[k] = Stepped(<< >>, f[k - 1], E[k])
    BY <1>4, <1>5, <2>1
  <2>. QED  BY <2>1, <2>2 DEF Replaying, s
<1>7. f[1].opinion = Vacuous
  BY DEF s
<1>. HIDE DEF f, E
<1>8. ReplayOf(<< >>, 0, 1, E, f)
  <2>1. Listing(E, Events(<< >>, 0..0), 1)
    BY <1>1, <1>2, Zenon
  <2>2. E[1] = [at |-> 0, kind |-> 1, index |-> 0] /\ 1 \in Nat \ {0}
    BY <1>5 DEF x
  <2>. QED  BY <1>6, <2>1, <2>2, Zenon DEF ReplayOf
<1>. QED  BY <1>7, <1>8 DEF Replayed

LEMMA EventsAreDue ==
    ASSUME NEW declared \in Seq(SaidEntries), NEW c \in 0..MaxClock, Due(declared, c),
           NEW y \in Events(declared, 0..c)
    PROVE  y.at \in 0..c
PROOF
<1>1. /\ y.at \in 0..MaxClock
      /\ \/ y.kind = 0 /\ y.index \in DOMAIN declared /\ y.at = declared[y.index].at
         \/ y.kind = 1 /\ y.index = y.at /\ y.at \in 0..c
  BY EventsAre
<1>2. MaxClock \in Nat
  BY BoundsAreNat
<1>. QED  BY <1>1, <1>2 DEF Due

(* Time passes, and at the next tick a decision is expected again. *)
LEMMA ReplayedLater ==
    ASSUME NEW declared \in Seq(SaidEntries), NEW c \in 0..MaxClock, Due(declared, c),
           c + 1 <= MaxClock, NEW o, Replayed(declared, c, o)
    PROVE  Replayed(declared, c + 1, Decay(o, Growth(1)))
PROOF
<1>1. PICK n, E, f : ReplayOf(declared, c, n, E, f) /\ f[n].opinion = o
  BY DEF Replayed
<1>. DEFINE es == Events(declared, 0..c)
            x == [at |-> c + 1, kind |-> 1, index |-> c + 1]
            F == [k \in 1..(n + 1) |-> IF k <= n THEN E[k] ELSE x]
            s == Stepped(declared, f[n], x)
            g == [k \in 0..(n + 1) |-> IF k <= n THEN f[k] ELSE s]
<1>2. MaxClock \in Nat
  BY BoundsAreNat
<1>3. c \in Nat /\ c + 1 \in 0..MaxClock /\ c + 1 > c
  BY <1>2
<1>4. /\ n \in Nat \ {0} /\ Listing(E, es, n) /\ Replaying(f, declared, E, n)
      /\ E[n] = [at |-> c, kind |-> 1, index |-> c]
  BY <1>1 DEF ReplayOf
<1>5. Events(declared, 0..(c + 1)) = es \cup {x}
  <2>1. 0..(c + 1) = 0..c \cup {c + 1}
    BY <1>3
  <2>. QED  BY <2>1 DEF Events
<1>6. \A y \in es : Before(y, x)
  <2>. TAKE y \in es
  <2>1. y.at \in 0..c
    BY EventsAreDue
  <2>. QED  BY <1>3, <2>1 DEF Before
<1>7. /\ E \in [1..n -> es] /\ \A y \in es : \E k \in 1..n : E[k] = y
      /\ \A j, k \in 1..n : j < k => Before(E[j], E[k])
  BY <1>4 DEF Listing
<1>8. /\ f \in [0..n -> Moments] /\ f[0] = [opinion |-> Vacuous, last |-> 0]
      /\ \A k \in 1..n : f[k] = Stepped(declared, f[k - 1], E[k])
  BY <1>4 DEF Replaying
<1>9. s \in Moments
  <2>1. x \in Events(declared, 0..(c + 1)) /\ f[n] \in Moments
    BY <1>4, <1>5, <1>8
  <2>. QED  BY <1>3, <2>1, SteppedIsMoment
<1>10. s.opinion = Decay(o, Growth(1))
  <2>1. f[n] = Stepped(declared, f[n - 1], E[n])
    BY <1>4, <1>8
  <2>2. f[n].last = c
    BY <1>4, <2>1 DEF Stepped
  <2>3. s.opinion = AdvanceTime(f[n].opinion, (c + 1) - c)
    BY <2>2 DEF Stepped
  <2>4. (c + 1) - c = 1 /\ ~(1 <= 0)
    BY <1>3
  <2>. QED  BY <1>1, <2>3, <2>4 DEF AdvanceTime
<1>11. x = [at |-> c + 1, kind |-> 1, index |-> c + 1] /\ s = Stepped(declared, f[n], x)
  OBVIOUS
<1>. HIDE DEF es, x, s, Moments
<1>12. \A k \in 1..(n + 1) : F[k] = IF k <= n THEN E[k] ELSE x
  OBVIOUS
<1>13. \A k \in 0..(n + 1) : g[k] = IF k <= n THEN f[k] ELSE s
  OBVIOUS
<1>14. F \in [1..(n + 1) -> es \cup {x}]
  BY <1>4, <1>7
<1>15. g \in [0..(n + 1) -> Moments]
  BY <1>4, <1>8, <1>9
<1>. HIDE DEF F, g
<1>16. F[n + 1] = x /\ g[n + 1] = s
  BY <1>4, <1>12, <1>13
<1>17. Listing(F, es \cup {x}, n + 1)
  <2>1. ASSUME NEW y \in es \cup {x}
        PROVE  \E k \in 1..(n + 1) : F[k] = y
    <3>1. CASE y \in es
      <4>1. PICK k \in 1..n : E[k] = y
        BY <1>7, <3>1
      <4>2. k \in 1..(n + 1) /\ k <= n
        BY <1>4
      <4>. QED  BY <1>12, <4>1, <4>2
    <3>2. CASE y = x
      BY <1>4, <1>16, <3>2
    <3>. QED  BY <3>1, <3>2
  <2>2. ASSUME NEW j \in 1..(n + 1), NEW k \in 1..(n + 1), j < k
        PROVE  Before(F[j], F[k])
    <3>1. j \in 1..n /\ F[j] = E[j] /\ E[j] \in es
      BY <1>4, <1>7, <1>12, <2>2
    <3>2. CASE k <= n
      <4>1. k \in 1..n /\ F[k] = E[k]
        BY <1>4, <1>12, <3>2
      <4>. QED  BY <1>7, <2>2, <3>1, <4>1
    <3>3. CASE k = n + 1
      BY <1>6, <1>16, <3>1, <3>3
    <3>. QED  BY <1>4, <3>2, <3>3
  <2>. QED  BY <1>14, <2>1, <2>2 DEF Listing
<1>18. Replaying(g, declared, F, n + 1)
  <2>1. g[0] = [opinion |-> Vacuous, last |-> 0]
    BY <1>4, <1>8, <1>13
  <2>2. ASSUME NEW k \in 1..(n + 1)
        PROVE  g[k] = Stepped(declared, g[k - 1], F[k])
    <3>1. CASE k <= n
      <4>1. k \in 1..n /\ g[k] = f[k] /\ g[k - 1] = f[k - 1] /\ F[k] = E[k]
        BY <1>4, <1>12, <1>13, <3>1
      <4>. QED  BY <1>8, <4>1
    <3>2. CASE k = n + 1
      <4>1. g[k] = s /\ g[k - 1] = f[n] /\ F[k] = x
        BY <1>4, <1>13, <1>16, <3>2
      <4>. QED  BY <1>11, <4>1
    <3>. QED  BY <1>4, <3>1, <3>2
  <2>. QED  BY <1>15, <2>1, <2>2 DEF Replaying
<1>19. ReplayOf(declared, c + 1, n + 1, F, g)
  <2>1. Listing(F, Events(declared, 0..(c + 1)), n + 1)
    BY <1>5, <1>17, Zenon
  <2>2. F[n + 1] = [at |-> c + 1, kind |-> 1, index |-> c + 1] /\ n + 1 \in Nat \ {0}
    BY <1>4, <1>11, <1>16
  <2>. QED  BY <1>18, <2>1, <2>2, Zenon DEF ReplayOf
<1>. QED  BY <1>10, <1>16, <1>19 DEF Replayed

(* A piece that is declared after all others comes last but for the
   expectation. *)
LEMMA ReplayedAfter ==
    ASSUME NEW declared \in Seq(SaidEntries), NEW x \in SaidEntries, NEW c \in 0..MaxClock,
           Due(declared, c), x.at = c, NEW o, Replayed(declared, c, o)
    PROVE  Replayed(Append(declared, x), c, Fuse(o, FromEvidence(x.evidence)))
PROOF
<1>. DEFINE new == Len(declared) + 1
            X == [at |-> c, kind |-> 0, index |-> new]
            es == Events(declared, 0..c)
<1>1. PICK n, E, f : ReplayOf(declared, c, n, E, f) /\ f[n].opinion = o
  BY DEF Replayed
<1>2. Added(declared, Append(declared, x), x, new, 0)
  <2>. HIDE DEF SaidEntries
  <2>. QED  BY DEF Added
<1>3. /\ n \in Nat \ {0} /\ E[n] = [at |-> c, kind |-> 1, index |-> c]
      /\ \A k \in 1..n : E[k] \in es
      /\ \A k \in 1..(n - 1) : Before(E[k], E[n])
  BY <1>1 DEF ReplayOf, Listing
<1>4. \A k \in 1..n : Moved(E[k], 0) = E[k]
  <2>. TAKE k \in 1..n
  <2>1. E[k] \in EventSpace
    BY <1>3, EventsAre
  <2>. QED  BY <2>1 DEF Moved, EventSpace
<1>5. ASSUME NEW k \in 1..(n - 1)
      PROVE  Before(E[k], X)
  <2>1. E[k] \in es /\ Before(E[k], E[n])
    BY <1>3
  <2>2. /\ E[k].at \in 0..c
        /\ \/ E[k].kind = 0 /\ E[k].index \in DOMAIN declared
           \/ E[k].kind = 1 /\ E[k].index = E[k].at
    BY <2>1, EventsAre, EventsAreDue
  <2>3. c \in Nat
    BY BoundsAreNat
  <2>4. CASE E[k].kind = 0
    <3>1. E[k].index < new
      BY <2>2, <2>4
    <3>. QED  BY <2>2, <2>3, <2>4, <3>1 DEF Before
  <2>5. CASE E[k].kind = 1
    <3>1. E[k].at < c
      BY <1>3, <2>1, <2>2, <2>3, <2>5 DEF Before
    <3>. QED  BY <3>1 DEF Before
  <2>. QED  BY <2>2, <2>4, <2>5
<1>6. E[n].at = c /\ Before(X, E[n])
  BY <1>3 DEF Before
<1>. HIDE DEF new
<1>7. Place(E, n, n, new, 0, c)
  BY <1>3, <1>4, <1>5, <1>6 DEF Place
<1>8. \E F, g : /\ ReplayOf(Append(declared, x), c, n + 1, F, g)
                /\ g[n + 1].opinion = Fuse(f[n].opinion, FromEvidence(x.evidence))
  BY <1>1, <1>2, <1>7, ReplayAdds
<1>. QED  BY <1>1, <1>8 DEF Replayed

(* A piece that is declared before all others comes first of its tick. *)
LEMMA ReplayedBefore ==
    ASSUME NEW declared \in Seq(SaidEntries), NEW x \in SaidEntries, NEW c \in 0..MaxClock,
           Due(declared, c), x.at = c, NEW o, Replayed(declared, c, o),
           NEW more \in Seq(SaidEntries), Len(more) = Len(declared) + 1, more[1] = x,
           \A i \in DOMAIN declared : more[i + 1] = declared[i]
    PROVE  Replayed(more, c, Fuse(o, FromEvidence(x.evidence)))
PROOF
<1>. DEFINE X == [at |-> c, kind |-> 0, index |-> 1]
            es == Events(declared, 0..c)
<1>1. PICK n, E, f : ReplayOf(declared, c, n, E, f) /\ f[n].opinion = o
  BY DEF Replayed
<1>2. Added(declared, more, x, 1, 1)
  <2>. HIDE DEF SaidEntries
  <2>1. DOMAIN declared = 1..Len(declared) /\ DOMAIN more = 1..(Len(declared) + 1)
        /\ Len(declared) \in Nat
    OBVIOUS
  <2>2. \A i \in DOMAIN declared : i + 1 \in DOMAIN more /\ i + 1 # 1
    BY <2>1
  <2>3. \A j \in DOMAIN more : j = 1 \/ (j - 1 \in DOMAIN declared)
    BY <2>1
  <2>4. 1 \in DOMAIN more
    BY <2>1
  <2>. QED  BY <2>2, <2>3, <2>4 DEF Added
<1>3. /\ n \in Nat \ {0} /\ E[n] = [at |-> c, kind |-> 1, index |-> c]
      /\ \A k \in 1..n : E[k] \in es
      /\ \A j, k \in 1..n : j < k => Before(E[j], E[k])
  BY <1>1 DEF ReplayOf, Listing
<1>4. \A k \in 1..n : E[k] \in EventSpace /\ E[k].at \in 0..c /\ E[k].kind \in {0, 1}
                      /\ (E[k].kind = 0 => E[k].index \in Nat \ {0})
  <2>. TAKE k \in 1..n
  <2>1. E[k] \in es
    BY <1>3
  <2>2. /\ E[k] \in EventSpace
        /\ \/ E[k].kind = 0 /\ E[k].index \in DOMAIN declared
           \/ E[k].kind = 1
    BY <2>1, EventsAre
  <2>3. DOMAIN declared \subseteq Nat \ {0}
    <3>. HIDE DEF SaidEntries
    <3>. QED  OBVIOUS
  <2>. QED  BY <2>1, <2>2, <2>3, EventsAreDue
<1>5. c \in Nat
  BY BoundsAreNat
<1>6. PICK p \in 1..n : E[p].at = c /\ \A k \in 1..(p - 1) : E[k].at # c
  <2>. DEFINE Free == {q \in Nat : \A k \in 1..q : k <= n => E[k].at # c}
  <2>1. SUFFICES ASSUME \A p \in 1..n : E[p].at = c => \E k \in 1..(p - 1) : E[k].at = c
                 PROVE  FALSE
    OBVIOUS
  <2>2. 0 \in Free /\ Free \subseteq Nat
    OBVIOUS
  <2>3. ASSUME NEW q \in Free
        PROVE  q + 1 \in Free
    <3>. SUFFICES ASSUME q + 1 <= n PROVE E[q + 1].at # c
      OBVIOUS
    <3>1. q + 1 \in 1..n /\ (q + 1) - 1 = q
      BY <1>3
    <3>2. \A k \in 1..q : E[k].at # c
      BY <1>3
    <3>. QED  BY <2>1, <3>1, <3>2
  <2>4. Free = Nat
    <3>. HIDE DEF Free
    <3>. QED  BY <2>2, <2>3, CountingUp
  <2>5. \A k \in 1..n : k <= n => E[k].at # c
    <3>1. n \in Free
      <4>. HIDE DEF Free
      <4>. QED  BY <1>3, <2>4
    <3>. QED  BY <3>1
  <2>. QED  BY <1>3, <2>5
<1>7. ASSUME NEW k \in 1..(p - 1)
      PROVE  Before(Moved(E[k], 1), X)
  <2>1. k \in 1..n /\ E[k].at < c
    BY <1>3, <1>4, <1>5, <1>6
  <2>. QED  BY <1>4, <2>1, MovedParts DEF Before
<1>8. ASSUME NEW k \in p..n
      PROVE  E[k].at = c /\ Before(X, Moved(E[k], 1))
  <2>1. k \in 1..n /\ (k = p \/ Before(E[p], E[k]))
    BY <1>3
  <2>2. E[k].at = c
    BY <1>4, <1>5, <1>6, <2>1 DEF Before
  <2>3. E[k] \in EventSpace /\ E[k].kind \in {0, 1} /\ (E[k].kind = 0 => E[k].index \in Nat \ {0})
    BY <1>4, <2>1
  <2>. HIDE DEF EventSpace
  <2>. QED  BY <2>2, <2>3, MovedParts DEF Before
<1>9. Place(E, n, p, 1, 1, c)
  BY <1>6, <1>7, <1>8 DEF Place
<1>10. \E F, g : /\ ReplayOf(more, c, n + 1, F, g)
                 /\ g[n + 1].opinion = Fuse(f[n].opinion, FromEvidence(x.evidence))
  <2>. DEFINE new == 1
              by == 1
  <2>1. Added(declared, more, x, new, by) /\ Place(E, n, p, new, by, c)
    BY <1>2, <1>9
  <2>. HIDE DEF new, by, SaidEntries
  <2>. QED  BY <1>1, <2>1, ReplayAdds
<1>. QED  BY <1>1, <1>10 DEF Replayed

LEMMA ReverseIs ==
    ASSUME NEW t \in Seq(SaidEntries)
    PROVE  /\ Reverse(t) \in Seq(SaidEntries) /\ Len(Reverse(t)) = Len(t)
           /\ \A i \in 1..Len(t) : /\ Len(t) - i + 1 \in DOMAIN t
                                   /\ Reverse(t)[i] = t[Len(t) - i + 1]
PROOF
<1>. HIDE DEF SaidEntries
<1>. DEFINE r == [i \in 1..Len(t) |-> t[(Len(t) - i) + 1]]
<1>1. Reverse(t) = r
  BY DEF Reverse
<1>2. Len(t) \in Nat /\ \A i \in 1..Len(t) : Len(t) - i + 1 \in 1..Len(t)
  OBVIOUS
<1>3. \A i \in 1..Len(t) : r[i] \in SaidEntries
  BY <1>2
<1>4. r \in Seq(SaidEntries) /\ Len(r) = Len(t)
  BY <1>2, <1>3
<1>. QED  BY <1>1, <1>2, <1>4

LEMMA ReverseParts ==
    ASSUME NEW s \in Seq(SaidEntries), NEW x \in SaidEntries
    PROVE  /\ Reverse(s) \in Seq(SaidEntries) /\ Len(Reverse(s)) = Len(s)
           /\ \A i \in DOMAIN Reverse(s) : \E j \in DOMAIN s : Reverse(s)[i] = s[j]
           /\ Reverse(Append(s, x)) \in Seq(SaidEntries)
           /\ Len(Reverse(Append(s, x))) = Len(s) + 1
           /\ Reverse(Append(s, x))[1] = x
           /\ \A i \in DOMAIN Reverse(s) : Reverse(Append(s, x))[i + 1] = Reverse(s)[i]
PROOF
<1>. HIDE DEF SaidEntries
<1>. DEFINE t == Append(s, x)
            n == Len(s)
<1>1. t \in Seq(SaidEntries) /\ Len(t) = n + 1 /\ n \in Nat
      /\ t[n + 1] = x /\ \A j \in 1..n : t[j] = s[j]
  OBVIOUS
<1>. HIDE DEF t
<1>2. /\ Reverse(s) \in Seq(SaidEntries) /\ Len(Reverse(s)) = n
      /\ \A i \in 1..n : n - i + 1 \in DOMAIN s /\ Reverse(s)[i] = s[n - i + 1]
  BY ReverseIs
<1>. HIDE DEF n
<1>3. /\ Reverse(t) \in Seq(SaidEntries) /\ Len(Reverse(t)) = n + 1
      /\ \A i \in 1..(n + 1) : Reverse(t)[i] = t[(n + 1) - i + 1]
  <2>1. /\ Reverse(t) \in Seq(SaidEntries) /\ Len(Reverse(t)) = Len(t)
        /\ \A i \in 1..Len(t) : Reverse(t)[i] = t[Len(t) - i + 1]
    BY <1>1, ReverseIs
  <2>. QED  BY <1>1, <2>1
<1>4. Reverse(t)[1] = x
  <2>1. 1 \in 1..(n + 1) /\ (n + 1) - 1 + 1 = n + 1
    BY <1>1
  <2>. QED  BY <1>1, <1>3, <2>1
<1>5. ASSUME NEW i \in 1..n
      PROVE  Reverse(t)[i + 1] = Reverse(s)[i]
  <2>1. /\ i + 1 \in 1..(n + 1) /\ (n + 1) - (i + 1) + 1 = n - i + 1
        /\ n - i + 1 \in 1..n
    BY <1>1
  <2>. QED  BY <1>1, <1>2, <1>3, <2>1
<1>6. DOMAIN Reverse(s) = 1..n
  BY <1>2
<1>. QED  BY <1>2, <1>3, <1>4, <1>5, <1>6 DEF t, n

-----------------------------------------------------------------------------
(* The same opinion, with k times the weight. *)
Times(k, o) == [b |-> k * o.b, d |-> k * o.d, u |-> k * o.u]

LEMMA TimesParts ==
    ASSUME NEW o \in Certain, NEW k \in Nat \ {0}
    PROVE  /\ Times(k, o) \in Certain /\ Weight(Times(k, o)) = k * Weight(o)
           /\ Times(k, o).b = k * o.b /\ Times(k, o).d = k * o.d /\ Times(k, o).u = k * o.u
           /\ Times(1, o) = o
PROOF
<1>1. o.b \in Nat /\ o.d \in Nat /\ o.u \in Nat \ {0} /\ Weight(o) = o.b + o.d + o.u
  BY OpinionParts DEF Certain, Dogmatic
<1>2. k * o.b \in Nat /\ k * o.d \in Nat /\ k * o.u \in Nat \ {0}
  BY <1>1, ProductIsNat
<1>3. Times(k, o) \in Certain
  BY <1>2, CertainParts DEF Times, Certain
<1>4. Times(k, o).b = k * o.b /\ Times(k, o).d = k * o.d /\ Times(k, o).u = k * o.u
  BY DEF Times
<1>5. Weight(Times(k, o)) = k * Weight(o)
  <2>1. k * o.b + k * o.d + k * o.u = k * (o.b + o.d + o.u)
    BY <1>1
  <2>. QED  BY <1>1, <1>4, <2>1 DEF Weight
<1>6. Times(1, o) = o
  <2>1. 1 * o.b = o.b /\ 1 * o.d = o.d /\ 1 * o.u = o.u
    BY <1>1
  <2>2. o = [b |-> o.b, d |-> o.d, u |-> o.u]
    BY DEF Certain, Opinions, Weights
  <2>. QED  BY <2>1, <2>2 DEF Times
<1>. QED  BY <1>3, <1>4, <1>5, <1>6

LEMMA TimesFuse ==
    ASSUME NEW p \in Certain, NEW q \in Certain, NEW k \in Nat \ {0}
    PROVE  Fuse(Times(k, p), q) = Times(k, Fuse(p, q))
PROOF
<1>. DEFINE t == Times(k, p)
            f == Fuse(p, q)
<1>1. /\ p.b \in Nat /\ p.d \in Nat /\ p.u \in Nat /\ q.b \in Nat /\ q.d \in Nat /\ q.u \in Nat
      /\ p \in Opinions /\ q \in Opinions /\ ~Dogmatic(p) /\ ~Dogmatic(q)
  BY OpinionParts DEF Certain
<1>2. t \in Opinions /\ ~Dogmatic(t) /\ t.b = k * p.b /\ t.d = k * p.d /\ t.u = k * p.u
  BY TimesParts DEF Certain
<1>3. f = [b |-> p.b * q.u + q.b * p.u, d |-> p.d * q.u + q.d * p.u, u |-> p.u * q.u]
  BY <1>1, FuseParts
<1>. HIDE DEF t, f
<1>4. Fuse(t, q) = [b |-> t.b * q.u + q.b * t.u, d |-> t.d * q.u + q.d * t.u, u |-> t.u * q.u]
  BY <1>1, <1>2, FuseParts
<1>5. Times(k, f) = [b |-> k * (p.b * q.u + q.b * p.u), d |-> k * (p.d * q.u + q.d * p.u),
                     u |-> k * (p.u * q.u)]
  BY <1>3 DEF Times
<1>6. (k * p.b) * q.u + q.b * (k * p.u) = k * (p.b * q.u + q.b * p.u)
  BY <1>1
<1>7. (k * p.d) * q.u + q.d * (k * p.u) = k * (p.d * q.u + q.d * p.u)
  BY <1>1
<1>8. (k * p.u) * q.u = k * (p.u * q.u)
  BY <1>1
<1>. QED  BY <1>2, <1>4, <1>5, <1>6, <1>7, <1>8 DEF t, f

LEMMA TimesDecay ==
    ASSUME NEW p \in Certain, NEW k \in Nat \ {0}, NEW g \in Nat \ {0}
    PROVE  Decay(Times(k, p), g) = Times(k, Decay(p, g))
PROOF
<1>. DEFINE t == Times(k, p)
            f == Decay(p, g)
            w == Weight(p)
<1>1. p.b \in Nat /\ p.d \in Nat /\ w \in Nat
  BY OpinionParts DEF Certain
<1>2. t.b = k * p.b /\ t.d = k * p.d /\ Weight(t) = k * w
  BY TimesParts
<1>3. f = [b |-> p.b, d |-> p.d, u |-> g * w - (p.b + p.d)]
  BY DEF Decay
<1>4. Decay(t, g) = [b |-> t.b, d |-> t.d, u |-> g * Weight(t) - (t.b + t.d)]
  BY DEF Decay
<1>. HIDE DEF t, f, w
<1>5. Times(k, f) = [b |-> k * p.b, d |-> k * p.d, u |-> k * (g * w - (p.b + p.d))]
  BY <1>3 DEF Times
<1>6. g * (k * w) - (k * p.b + k * p.d) = k * (g * w - (p.b + p.d))
  BY <1>1
<1>. QED  BY <1>2, <1>4, <1>5, <1>6 DEF t, f

LEMMA TimesSame ==
    ASSUME NEW o \in Certain, NEW k \in Nat \ {0}
    PROVE  Same(Times(k, o), o)
PROOF
<1>. DEFINE t == Times(k, o)
            w == Weight(o)
<1>1. o.b \in Nat /\ o.d \in Nat /\ o.u \in Nat /\ w \in Nat
  BY OpinionParts DEF Certain
<1>2. t.b = k * o.b /\ t.d = k * o.d /\ t.u = k * o.u /\ Weight(t) = k * w
  BY TimesParts
<1>. HIDE DEF t, w
<1>3. /\ (k * o.b) * w = o.b * (k * w)
      /\ (k * o.d) * w = o.d * (k * w)
      /\ (k * o.u) * w = o.u * (k * w)
  BY <1>1
<1>4. Same(t, o)
  <2>1. t.b * w = o.b * Weight(t) /\ t.d * w = o.d * Weight(t) /\ t.u * w = o.u * Weight(t)
    BY <1>2, <1>3
  <2>. QED  BY <2>1 DEF Same, w
<1>. QED  BY <1>4 DEF t

(* Of an opinion without any evidence, decay only changes the weight. *)
LEMMA VacuousAdvances ==
    ASSUME NEW o \in Certain, o.b = 0, o.d = 0, NEW k \in Nat \ {0},
           NEW s \in 0..MaxClock, NEW t \in 0..MaxClock
    PROVE  \E j \in Nat \ {0} : Times(k, AdvanceTime(o, t - s)) = Times(j, o)
PROOF
<1>1. MaxClock \in Nat
  BY BoundsAreNat
<1>2. CASE t - s <= 0
  BY <1>2 DEF AdvanceTime
<1>3. CASE ~(t - s <= 0)
  <2>. DEFINE g == Growth(t - s)
  <2>1. t - s \in 0..MaxClock
    BY <1>1, <1>3
  <2>2. g \in Nat \ {0}
    BY <2>1, GrowthIsPositive
  <2>3. AdvanceTime(o, t - s) = Decay(o, g)
    BY <1>3 DEF AdvanceTime
  <2>. HIDE DEF g
  <2>4. o.u \in Nat /\ Weight(o) = o.u
    BY OpinionParts DEF Certain
  <2>5. g * o.u \in Nat /\ k * g \in Nat \ {0} /\ k * (g * o.u) = (k * g) * o.u
    BY <2>2, <2>4, ProductIsNat
  <2>6. Decay(o, g) = [b |-> 0, d |-> 0, u |-> g * o.u]
    BY <2>4, <2>5 DEF Decay
  <2>7. Times(k, Decay(o, g)) = [b |-> 0, d |-> 0, u |-> (k * g) * o.u]
    BY <2>5, <2>6 DEF Times
  <2>8. Times(k * g, o) = [b |-> 0, d |-> 0, u |-> (k * g) * o.u]
    BY <2>5 DEF Times
  <2>. QED  BY <2>3, <2>5, <2>7, <2>8
<1>. QED  BY <1>2, <1>3

(* Nothing was discounted, and before every submission apply_decay had swept. *)
Faithful(s) == \A i \in DOMAIN s : s[i].plain /\ s[i].swept

(* Both replays, of the submissions as they were made and in reverse, end with
   the same opinion, and, if the submissions are faithful and no sweep was late,
   with the one that a sweep would leave in the record now. *)
ReplayInv ==
    /\ Due(said, clock)
    /\ record.count = 0 => record.opinion.b = 0 /\ record.opinion.d = 0
    /\ \E o : /\ Replayed(said, clock, o) /\ Replayed(Reverse(said), clock, o)
              /\ Faithful(said) /\ taken = 0 =>
                    \E k \in Nat \ {0} :
                        o = Times(k, AdvanceTime(record.opinion, clock - record.updated))

LEMMA AdvanceByNothing ==
    ASSUME NEW o, NEW c \in 0..MaxClock
    PROVE  AdvanceTime(o, c - c) = o
PROOF
<1>1. c - c <= 0
  BY BoundsAreNat
<1>. QED  BY <1>1 DEF AdvanceTime

LEMMA RecordIsCertain ==
    ASSUME AccountInv
    PROVE  /\ record.opinion \in Certain /\ clock \in 0..MaxClock /\ record.updated \in 0..MaxClock
           /\ record.updated <= clock /\ record.count \in Nat
PROOF
<1>1. record.opinion \in Certain
  BY DEF AccountInv, Supported, Certain
<1>2. MaxClock \in Nat
  BY BoundsAreNat
<1>3. MaxCount \in Nat
  BY BoundsAreNat
<1>4. /\ clock \in 0..MaxClock /\ record.updated \in 0..MaxClock /\ record.count \in 0..MaxCount
      /\ record.updated <= clock
  BY DEF AccountInv, TypeOK
<1>. QED  BY <1>1, <1>2, <1>3, <1>4

LEMMA SubmitReplay ==
    ASSUME AccountInv, SaidInv, ReplayInv, NEW e \in Evidence, NEW op \in Certain,
           NEW isPlain \in BOOLEAN, Absorb(op, e), said' = Append(said, Entry(e, op, isPlain)),
           isPlain => op = FromEvidence(e)
    PROVE  ReplayInv'
PROOF
<1>. DEFINE x == Entry(e, op, isPlain)
            c == clock
            r == record.opinion
            q == FromEvidence(e)
            more == Append(said, x)
<1>1. /\ r \in Certain /\ c \in 0..MaxClock /\ record.updated \in 0..MaxClock
      /\ record.count \in Nat
  BY RecordIsCertain
<1>2. /\ x \in SaidEntries /\ x.at = c /\ x.evidence = e /\ x.plain = isPlain
      /\ x.swept = (record.updated = c \/ record.count = 0)
  BY <1>1 DEF Entry, SaidEntries
<1>3. said \in Seq(SaidEntries)
  BY DEF SaidInv
<1>4. /\ record'.opinion = Fuse(r, op) /\ record'.count = record.count + 1
      /\ record'.updated = c /\ clock' = c /\ said' = more /\ taken' = taken
  BY DEF Absorb
<1>5. q \in Certain
  BY EvidenceSupports DEF Supported, Certain
<1>6. PICK o : /\ Replayed(said, c, o) /\ Replayed(Reverse(said), c, o)
               /\ Faithful(said) /\ taken = 0 =>
                     \E k \in Nat \ {0} : o = Times(k, AdvanceTime(r, c - record.updated))
  BY DEF ReplayInv
<1>7. Due(said, c)
  BY DEF ReplayInv
<1>. HIDE DEF x, SaidEntries, Certain
<1>8. /\ Len(more) = Len(said) + 1 /\ more[Len(said) + 1] = x
      /\ Len(said) \in Nat /\ DOMAIN said = 1..Len(said) /\ DOMAIN more = 1..(Len(said) + 1)
      /\ \A i \in 1..Len(said) : more[i] = said[i]
  BY <1>2, <1>3
<1>9. Due(more, c)
  <2>. SUFFICES ASSUME NEW i \in 1..(Len(said) + 1) PROVE more[i].at <= c
    BY <1>8 DEF Due
  <2>1. CASE i = Len(said) + 1
    <3>1. c <= c
      BY <1>1, BoundsAreNat
    <3>. QED  BY <1>2, <1>8, <2>1, <3>1
  <2>2. CASE i # Len(said) + 1
    <3>1. i \in 1..Len(said)
      BY <1>8, <2>2
    <3>. QED  BY <1>7, <1>8, <3>1 DEF Due
  <2>. QED  BY <2>1, <2>2
<1>10. Replayed(more, c, Fuse(o, q))
  BY <1>1, <1>2, <1>3, <1>6, <1>7, ReplayedAfter
<1>11. Replayed(Reverse(more), c, Fuse(o, q))
  <2>. DEFINE s == Reverse(said)
              t == Reverse(more)
  <2>1. /\ s \in Seq(SaidEntries) /\ Len(s) = Len(said)
        /\ \A i \in DOMAIN s : \E j \in DOMAIN said : s[i] = said[j]
        /\ t \in Seq(SaidEntries) /\ Len(t) = Len(said) + 1 /\ t[1] = x
        /\ \A i \in DOMAIN s : t[i + 1] = s[i]
    BY <1>2, <1>3, ReverseParts
  <2>2. Replayed(s, c, o)
    BY <1>6
  <2>. HIDE DEF s, t
  <2>3. Due(s, c)
    <3>. SUFFICES ASSUME NEW i \in DOMAIN s PROVE s[i].at <= c
      BY DEF Due
    <3>1. PICK j \in DOMAIN said : s[i] = said[j]
      BY <2>1
    <3>. QED  BY <1>7, <3>1 DEF Due
  <2>4. Replayed(t, c, Fuse(o, FromEvidence(x.evidence)))
    BY <1>1, <1>2, <2>1, <2>2, <2>3, ReplayedBefore
  <2>. QED  BY <1>2, <2>4 DEF t
<1>12. ASSUME Faithful(more), taken = 0
       PROVE  \E k \in Nat \ {0} : Fuse(o, q) = Times(k, Fuse(r, op))
  <2>1. Faithful(said) /\ isPlain /\ (record.updated = c \/ record.count = 0)
    <3>1. Len(said) + 1 \in DOMAIN more /\ \A i \in DOMAIN said : i \in DOMAIN more
      BY <1>8
    <3>. QED  BY <1>2, <1>8, <1>12, <3>1 DEF Faithful
  <2>2. op = q
    BY <2>1
  <2>3. PICK k \in Nat \ {0} : o = Times(k, AdvanceTime(r, c - record.updated))
    BY <1>6, <1>12, <2>1
  <2>4. \E j \in Nat \ {0} : o = Times(j, r)
    <3>1. CASE record.updated = c
      <4>1. AdvanceTime(r, c - record.updated) = r
        BY <1>1, <3>1, AdvanceByNothing
      <4>. QED  BY <2>3, <4>1
    <3>2. CASE record.count = 0
      <4>1. r.b = 0 /\ r.d = 0
        BY <3>2 DEF ReplayInv
      <4>2. \E j \in Nat \ {0} : Times(k, AdvanceTime(r, c - record.updated)) = Times(j, r)
        <5>. DEFINE s == record.updated
        <5>1. r \in Certain /\ c \in 0..MaxClock /\ s \in 0..MaxClock /\ r.b = 0 /\ r.d = 0
          BY <1>1, <4>1
        <5>2. k \in Nat \ {0}
          OBVIOUS
        <5>. HIDE DEF r, s, c
        <5>3. \E j \in Nat \ {0} : Times(k, AdvanceTime(r, c - s)) = Times(j, r)
          BY <5>1, <5>2, VacuousAdvances
        <5>. QED  BY <5>3 DEF s
      <4>. QED  BY <2>3, <4>2
    <3>. QED  BY <2>1, <3>1, <3>2
  <2>. HIDE DEF r, q
  <2>5. PICK j \in Nat \ {0} : o = Times(j, r)
    BY <2>4
  <2>. QED  BY <1>1, <1>5, <2>2, <2>5, TimesFuse
<1>13. record'.count # 0
  BY <1>1, <1>4
<1>14. AdvanceTime(record'.opinion, clock' - record'.updated) = Fuse(r, op)
  BY <1>1, <1>4, AdvanceByNothing
<1>15. \E p : /\ Replayed(said', clock', p) /\ Replayed(Reverse(said'), clock', p)
              /\ Faithful(said') /\ taken' = 0 =>
                    \E k \in Nat \ {0} :
                        p = Times(k, AdvanceTime(record'.opinion, clock' - record'.updated))
  <2>. HIDE DEF more, q, r, c
  <2>. WITNESS Fuse(o, q)
  <2>. QED  BY <1>4, <1>10, <1>11, <1>12, <1>14
<1>16. Due(said', clock')
  BY <1>4, <1>9
<1>. QED  BY <1>13, <1>15, <1>16 DEF ReplayInv

(* Time passes in two parts as it does in one. *)
LEMMA AdvanceInParts ==
    ASSUME NEW o \in Certain, NEW s \in 0..MaxClock, NEW n \in 0..MaxClock, NEW t \in 0..MaxClock,
           s <= n, n <= t
    PROVE  AdvanceTime(TimeDecay(o, n - s), t - n) = AdvanceTime(o, t - s)
PROOF
<1>1. /\ n - s \in 0..MaxDecay /\ t - n \in 0..MaxDecay /\ t - s \in 0..MaxDecay
      /\ (n - s) + (t - n) = t - s /\ (n - s) + (t - n) <= MaxDecay
  BY BoundsAreNat DEF MaxDecay
<1>2. \A p, k : AdvanceTime(p, k) = TimeDecay(p, k)
  BY DEF AdvanceTime, TimeDecay
<1>3. o \in Opinions
  BY DEF Certain
<1>. DEFINE m == n - s
            k == t - n
<1>4. m \in 0..MaxDecay /\ k \in 0..MaxDecay /\ m + k \in 0..MaxDecay /\ m + k <= MaxDecay
      /\ m + k = t - s
  BY <1>1
<1>. HIDE DEF m, k
<1>5. TimeDecay(o, m) = Decay(o, Growth(m)) /\ TimeDecay(o, m + k) = Decay(o, Growth(m + k))
  BY <1>3, <1>4, TimeDecayIsDecay
<1>6. TimeDecay(Decay(o, Growth(m)), k) = Decay(o, Growth(m + k))
  BY <1>3, <1>4, SweepsAdd
<1>. QED  BY <1>2, <1>4, <1>5, <1>6 DEF m, k

LEMMA SweepReplay ==
    ASSUME AccountInv, SaidInv, ReplayInv, NEW now \in 0..clock, ApplyDecay(now), UNCHANGED said
    PROVE  ReplayInv'
PROOF
<1>. DEFINE c == clock
            r == record.opinion
            t == record.updated
            o2 == TimeDecay(r, now - t)
<1>1. /\ r \in Certain /\ c \in 0..MaxClock /\ t \in 0..MaxClock /\ record.count \in Nat
  BY RecordIsCertain
<1>2. MaxClock \in Nat /\ taken \in Nat
  BY BoundsAreNat DEF AccountInv, TypeOK
<1>3. /\ record'.opinion = o2 /\ record'.updated = now /\ record'.count = record.count
      /\ clock' = c /\ said' = said
      /\ taken' = taken + (IF now < t THEN t - now ELSE 0)
  BY DEF ApplyDecay, Sweep, AccountInv, TypeOK
<1>4. ASSUME taken' = 0
      PROVE  taken = 0 /\ AdvanceTime(o2, c - now) = AdvanceTime(r, c - t)
  <2>1. taken = 0 /\ t <= now /\ now <= c /\ now \in 0..MaxClock
    BY <1>1, <1>2, <1>3, <1>4
  <2>. HIDE DEF r, t, c
  <2>. QED  BY <1>1, <2>1, AdvanceInParts
<1>5. record.count = 0 => record'.opinion.b = 0 /\ record'.opinion.d = 0
  BY <1>3 DEF ReplayInv, TimeDecay, Decay
<1>6. PICK o : /\ Replayed(said, c, o) /\ Replayed(Reverse(said), c, o)
               /\ Faithful(said) /\ taken = 0 =>
                     \E k \in Nat \ {0} : o = Times(k, AdvanceTime(r, c - t))
  BY DEF ReplayInv
<1>7. Due(said', clock')
  BY <1>3 DEF ReplayInv
<1>. HIDE DEF c, r, t, o2
<1>8. \E p : /\ Replayed(said', clock', p) /\ Replayed(Reverse(said'), clock', p)
             /\ Faithful(said') /\ taken' = 0 =>
                   \E k \in Nat \ {0} :
                       p = Times(k, AdvanceTime(record'.opinion, clock' - record'.updated))
  BY <1>3, <1>4, <1>6
<1>. QED  BY <1>3, <1>5, <1>7, <1>8 DEF ReplayInv

LEMMA TickReplay ==
    ASSUME AccountInv, SaidInv, ReplayInv, Tick, UNCHANGED said
    PROVE  ReplayInv'
PROOF
<1>. DEFINE c == clock
            r == record.opinion
            t == record.updated
            g == Growth(1)
<1>1. r \in Certain /\ c \in 0..MaxClock /\ t \in 0..MaxClock /\ t <= c
  BY RecordIsCertain
<1>2. MaxClock \in Nat
  BY BoundsAreNat
<1>3. c < MaxClock /\ clock' = c + 1 /\ record' = record /\ said' = said /\ taken' = taken
  BY DEF Tick
<1>4. said \in Seq(SaidEntries) /\ Due(said, c)
  BY DEF SaidInv, ReplayInv
<1>5. PICK o : /\ Replayed(said, c, o) /\ Replayed(Reverse(said), c, o)
               /\ Faithful(said) /\ taken = 0 =>
                     \E k \in Nat \ {0} : o = Times(k, AdvanceTime(r, c - t))
  BY DEF ReplayInv
<1>6. record.count = 0 => r.b = 0 /\ r.d = 0
  BY DEF ReplayInv
<1>. HIDE DEF c, r, t, SaidEntries, Certain
<1>7. Due(said, c + 1)
  <2>. SUFFICES ASSUME NEW i \in DOMAIN said PROVE said[i].at <= c + 1
    BY DEF Due
  <2>1. said[i] \in SaidEntries
    BY <1>4
  <2>2. said[i].at \in 0..MaxClock /\ said[i].at <= c
    BY <1>4, <2>1, EntryParts DEF Due
  <2>. QED  BY <1>1, <1>2, <2>2
<1>8. Replayed(said, c + 1, Decay(o, g))
  <2>1. c + 1 <= MaxClock
    BY <1>1, <1>2, <1>3
  <2>. QED  BY <1>1, <1>4, <1>5, <2>1, ReplayedLater
<1>9. Replayed(Reverse(said), c + 1, Decay(o, g))
  <2>. DEFINE s == Reverse(said)
  <2>1. c + 1 <= MaxClock
    BY <1>1, <1>2, <1>3
  <2>2. s \in Seq(SaidEntries) /\ Len(s) = Len(said)
        /\ \A i \in 1..Len(said) : Len(said) - i + 1 \in DOMAIN said
                                   /\ s[i] = said[Len(said) - i + 1]
    BY <1>4, ReverseIs
  <2>3. Replayed(s, c, o)
    BY <1>5
  <2>. HIDE DEF s
  <2>4. Due(s, c)
    <3>. SUFFICES ASSUME NEW i \in DOMAIN s PROVE s[i].at <= c
      BY DEF Due
    <3>1. i \in 1..Len(said)
      BY <2>2
    <3>2. Len(said) - i + 1 \in DOMAIN said /\ s[i] = said[Len(said) - i + 1]
      BY <2>2, <3>1
    <3>. QED  BY <1>4, <3>2 DEF Due
  <2>5. Replayed(s, c + 1, Decay(o, g))
    BY <1>1, <2>1, <2>2, <2>3, <2>4, ReplayedLater
  <2>. QED  BY <2>5 DEF s
<1>10. g \in Nat \ {0}
  <2>1. 1 \in 0..MaxClock
    BY <1>1, <1>2, <1>3
  <2>. QED  BY <2>1, GrowthIsPositive
<1>11. AdvanceTime(r, (c + 1) - t) = Decay(AdvanceTime(r, c - t), g)
  <2>1. ~((c + 1) - t <= 0) /\ c - t \in 0..MaxClock /\ (c - t) + 1 <= MaxClock
        /\ 1 \in 0..MaxClock /\ (c + 1) - t = (c - t) + 1
    BY <1>1, <1>2, <1>3
  <2>2. AdvanceTime(r, (c + 1) - t) = Decay(r, Growth((c - t) + 1))
    BY <2>1 DEF AdvanceTime
  <2>3. CASE c - t = 0
    <3>1. AdvanceTime(r, c - t) = r /\ (c - t) + 1 = 1
      BY <2>3 DEF AdvanceTime
    <3>. QED  BY <2>1, <2>2, <3>1
  <2>4. CASE c - t # 0
    <3>. DEFINE k == c - t
                h == Growth(k)
    <3>1. Growth(k + 1) = h * g /\ h \in Nat \ {0}
      <4>. HIDE DEF k
      <4>1. k \in 0..MaxDecay /\ 1 \in 0..MaxDecay /\ k + 1 <= MaxDecay
        BY <1>2, <2>1, BoundsAreNat DEF k, MaxDecay
      <4>. QED  BY <4>1, GrowthIsExponential
    <3>2. AdvanceTime(r, k) = Decay(r, h)
      <4>1. ~(c - t <= 0)
        BY <2>1, <2>4
      <4>. QED  BY <4>1 DEF AdvanceTime
    <3>. HIDE DEF k, h, g
    <3>3. r \in Opinions
      BY <1>1 DEF Certain
    <3>4. Decay(Decay(r, h), g) = Decay(r, h * g)
      BY <1>10, <3>1, <3>3, DecayComposes
    <3>. QED  BY <2>2, <3>1, <3>2, <3>4 DEF k
  <2>. QED  BY <2>3, <2>4
<1>. HIDE DEF g
<1>12. ASSUME Faithful(said), taken = 0
       PROVE  \E k \in Nat \ {0} : Decay(o, g) = Times(k, AdvanceTime(r, (c + 1) - t))
  <2>. DEFINE q == AdvanceTime(r, c - t)
  <2>1. PICK k \in Nat \ {0} : o = Times(k, q)
    BY <1>5, <1>12
  <2>2. q \in Certain
    BY <1>1, AdvanceIsCertain
  <2>3. AdvanceTime(r, (c + 1) - t) = Decay(q, g)
    BY <1>11
  <2>. HIDE DEF q
  <2>4. Decay(o, g) = Times(k, Decay(q, g))
    BY <1>10, <2>1, <2>2, TimesDecay
  <2>. QED  BY <2>3, <2>4
<1>13. \E p : /\ Replayed(said, c + 1, p) /\ Replayed(Reverse(said), c + 1, p)
              /\ Faithful(said) /\ taken = 0 =>
                    \E k \in Nat \ {0} : p = Times(k, AdvanceTime(r, (c + 1) - t))
  BY <1>8, <1>9, <1>12
<1>14. /\ Due(said', clock')
       /\ record'.count = 0 => record'.opinion.b = 0 /\ record'.opinion.d = 0
  BY <1>3, <1>6, <1>7 DEF r
<1>15. r = record'.opinion /\ t = record'.updated /\ c + 1 = clock' /\ said = said'
  BY <1>3 DEF r, t
<1>16. \E p : /\ Replayed(said', clock', p) /\ Replayed(Reverse(said'), clock', p)
              /\ Faithful(said') /\ taken' = 0 =>
                    \E k \in Nat \ {0} :
                        p = Times(k, AdvanceTime(record'.opinion, clock' - record'.updated))
  BY <1>3, <1>13, <1>15
<1>. QED  BY <1>14, <1>16 DEF ReplayInv

LEMMA InitReplay == AssessmentInit => ReplayInv
PROOF
<1>. SUFFICES ASSUME AssessmentInit PROVE ReplayInv
  OBVIOUS
<1>1. clock = 0 /\ said = << >> /\ record.opinion = Vacuous /\ record.updated = 0
  BY DEF AssessmentInit, Init
<1>2. Due(said, clock)
  BY <1>1 DEF Due
<1>3. Reverse(said) = << >>
  BY <1>1 DEF Reverse
<1>4. Vacuous \in Certain
  BY CertainParts DEF Vacuous, Certain
<1>5. Vacuous = Times(1, AdvanceTime(record.opinion, clock - record.updated))
  <2>1. AdvanceTime(Vacuous, 0) = Vacuous
    BY DEF AdvanceTime
  <2>2. Times(1, Vacuous) = Vacuous
    BY <1>4, TimesParts
  <2>. QED  BY <1>1, <2>1, <2>2
<1>6. Vacuous.b = 0 /\ Vacuous.d = 0
  BY DEF Vacuous
<1>7. Replayed(said, clock, Vacuous) /\ Replayed(Reverse(said), clock, Vacuous)
  BY <1>1, <1>3, ReplayedAtFirst
<1>. QED  BY <1>1, <1>2, <1>5, <1>6, <1>7 DEF ReplayInv

LEMMA StepReplay ==
    AccountInv /\ SaidInv /\ ReplayInv /\ [AssessmentNext]_assessmentVars => ReplayInv'
PROOF
<1>. SUFFICES ASSUME AccountInv, SaidInv, ReplayInv, [AssessmentNext]_assessmentVars
              PROVE  ReplayInv'
  OBVIOUS
<1>1. ASSUME NEW e \in Evidence, Say(e)
      PROVE  ReplayInv'
  <2>1. FromEvidence(e) \in Certain
    BY EvidenceSupports DEF Supported, Certain
  <2>2. Absorb(FromEvidence(e), e) /\ said' = Append(said, Entry(e, FromEvidence(e), TRUE))
    BY <1>1 DEF Say, Submit
  <2>. QED  BY <2>1, <2>2, SubmitReplay
<1>2. ASSUME NEW e \in Evidence, NEW authority \in Authorities, SayDiscounted(authority, e)
      PROVE  ReplayInv'
  <2>. DEFINE op == Discount(authority, FromEvidence(e))
  <2>1. op \in Certain
    BY DiscountSupports DEF Supported, Certain
  <2>2. Absorb(op, e) /\ said' = Append(said, Entry(e, op, FALSE))
    BY <1>2 DEF SayDiscounted, SubmitDiscounted
  <2>. HIDE DEF op
  <2>. QED  BY <2>1, <2>2, SubmitReplay
<1>3. ASSUME NEW now \in 0..clock, ApplyDecay(now), UNCHANGED said
      PROVE  ReplayInv'
  BY <1>3, SweepReplay
<1>4. CASE Tick /\ UNCHANGED said
  BY <1>4, TickReplay
<1>5. CASE UNCHANGED <<vars, said>>
  BY <1>5 DEF vars, ReplayInv
<1>6. CASE Rest /\ UNCHANGED said
  BY <1>5, <1>6 DEF Rest
<1>. QED  BY <1>1, <1>2, <1>3, <1>4, <1>5, <1>6 DEF AssessmentNext, assessmentVars

LEMMA ReplayHolds == AssessmentSpec => []ReplayInv
PROOF BY InitReplay, StepReplay, AssessedAccountHolds, SaidHolds, PTL DEF AssessmentSpec

(* runner.py and trust_manager.py: whenever everything was said plainly, every
   submission found a swept record and no sweep was late, the offline replay of the same
   evidence, declared forwards or backwards, ends with the opinion the manager
   holds, for any evidence, any half-life and any number of submissions and
   sweeps. *)
THEOREM ReplayAgreesWithTheManager == AssessmentSpec => []ReplayAgrees
PROOF
<1>1. AccountInv /\ SaidInv /\ ReplayInv => ReplayAgrees
  <2>. SUFFICES ASSUME AccountInv, SaidInv, ReplayInv, taken = 0, Faithful(said),
                       NEW declared \in {said, Reverse(said)}
                PROVE  Same(Replay(declared, 0..clock),
                            AdvanceTime(record.opinion, clock - record.updated))
    BY DEF ReplayAgrees, Faithful
  <2>. DEFINE q == AdvanceTime(record.opinion, clock - record.updated)
  <2>1. PICK o : /\ Replayed(said, clock, o) /\ Replayed(Reverse(said), clock, o)
                 /\ \E k \in Nat \ {0} : o = Times(k, q)
    BY DEF ReplayInv
  <2>2. PICK k \in Nat \ {0} : o = Times(k, q)
    BY <2>1
  <2>3. clock \in 0..MaxClock /\ q \in Certain
    BY RecordIsCertain, AdvanceIsCertain
  <2>4. said \in Seq(SaidEntries)
    BY DEF SaidInv
  <2>5. Reverse(said) \in Seq(SaidEntries)
    BY <2>4, ReverseIs
  <2>. HIDE DEF q, SaidEntries
  <2>6. Replay(said, 0..clock) = o
    BY <2>1, <2>3, <2>4, ReplayedIs
  <2>7. Replay(Reverse(said), 0..clock) = o
    BY <2>1, <2>3, <2>5, ReplayedIs
  <2>8. Same(o, q)
    BY <2>2, <2>3, TimesSame
  <2>. QED  BY <2>6, <2>7, <2>8 DEF q
<1>. QED  BY <1>1, AssessedAccountHolds, SaidHolds, ReplayHolds, PTL

-----------------------------------------------------------------------------
(* f is what a loop over numbers that multiplies and adds goes through. *)
Running(f, start, mul, add, n) ==
    /\ f \in [0..n -> Nat]
    /\ f[0] = start
    /\ \A k \in 1..n : f[k] = mul[k] * f[k - 1] + add[k]

LEMMA RunExists ==
    ASSUME NEW n \in Nat, NEW start \in Nat, NEW mul \in [1..n -> Nat], NEW add \in [1..n -> Nat]
    PROVE  \E f : Running(f, start, mul, add, n)
PROOF
<1>. DEFINE Runs(f, m) == Running(f, start, mul, add, m)
            Reached == {m \in Nat : m <= n => \E f : Runs(f, m)}
<1>1. 0 \in Reached
  <2>1. Runs([k \in 0..0 |-> start], 0)
    BY DEF Running
  <2>. QED  BY <2>1
<1>2. ASSUME NEW m \in Reached
      PROVE  m + 1 \in Reached
  <2>. SUFFICES ASSUME m + 1 <= n PROVE \E f : Runs(f, m + 1)
    OBVIOUS
  <2>1. PICK f : Runs(f, m)
    OBVIOUS
  <2>2. m \in Nat /\ m + 1 \in 1..n /\ mul[m + 1] \in Nat /\ add[m + 1] \in Nat
    OBVIOUS
  <2>3. /\ f \in [0..m -> Nat] /\ f[0] = start /\ f[m] \in Nat
        /\ \A k \in 1..m : f[k] = mul[k] * f[k - 1] + add[k]
    BY <2>1, <2>2 DEF Running
  <2>. HIDE DEF Reached, Runs
  <2>. DEFINE last == mul[m + 1] * f[m] + add[m + 1]
              g == [k \in 0..(m + 1) |-> IF k <= m THEN f[k] ELSE last]
  <2>4. last \in Nat
    <3>1. mul[m + 1] * f[m] \in Nat
      BY <2>2, <2>3, ProductIsNat
    <3>. QED  BY <2>2, <3>1
  <2>5. last = mul[m + 1] * f[m] + add[m + 1]
    OBVIOUS
  <2>. HIDE DEF last
  <2>6. g \in [0..(m + 1) -> Nat]
    BY <2>2, <2>3, <2>4
  <2>7. \A k \in 0..(m + 1) : g[k] = IF k <= m THEN f[k] ELSE last
    OBVIOUS
  <2>. HIDE DEF g
  <2>8. g[0] = start
    BY <2>2, <2>3, <2>7
  <2>9. ASSUME NEW k \in 1..(m + 1)
        PROVE  g[k] = mul[k] * g[k - 1] + add[k]
    <3>1. CASE k <= m
      <4>1. k \in 1..m /\ g[k] = f[k] /\ g[k - 1] = f[k - 1]
        BY <2>2, <2>7, <3>1
      <4>. QED  BY <2>3, <4>1
    <3>2. CASE k = m + 1
      <4>1. g[k] = last /\ g[k - 1] = f[m]
        BY <2>2, <2>7, <3>2
      <4>. QED  BY <2>5, <3>2, <4>1
    <3>. QED  BY <2>2, <3>1, <3>2
  <2>10. Runs(g, m + 1)
    BY <2>6, <2>8, <2>9 DEF Running, Runs
  <2>. QED  BY <2>10
<1>3. Reached = Nat
  <2>1. Reached \subseteq Nat
    OBVIOUS
  <2>. HIDE DEF Reached
  <2>. QED  BY <1>1, <1>2, <2>1, CountingUp
<1>4. n \in Reached
  <2>. HIDE DEF Reached
  <2>. QED  BY <1>3
<1>. QED
  <2>1. n <= n
    OBVIOUS
  <2>. QED  BY <1>4, <2>1

(* What such a loop computes are numbers, if each of its steps does. *)
LEMMA RunStaysNat ==
    ASSUME NEW n \in Nat, NEW h, h[0] \in Nat, \A k \in 1..n : h[k - 1] \in Nat => h[k] \in Nat
    PROVE  \A k \in 0..n : h[k] \in Nat
PROOF
<1>. DEFINE Good == {k \in Nat : k <= n => h[k] \in Nat}
<1>1. 0 \in Good /\ Good \subseteq Nat
  OBVIOUS
<1>2. ASSUME NEW k \in Good
      PROVE  k + 1 \in Good
  <2>. SUFFICES ASSUME k + 1 <= n PROVE h[k + 1] \in Nat
    OBVIOUS
  <2>1. k + 1 \in 1..n /\ (k + 1) - 1 = k /\ h[k] \in Nat
    OBVIOUS
  <2>. QED  BY <2>1
<1>3. Good = Nat
  <2>. HIDE DEF Good
  <2>. QED  BY <1>1, <1>2, CountingUp
<1>. QED  BY <1>3

(* f is what the product of all ns but the i-th goes through. *)
Multiplying(f, ns, i) ==
    /\ f \in [0..Len(ns) -> Nat]
    /\ f[0] = 1
    /\ \A k \in 1..Len(ns) : f[k] = IF k = i THEN f[k - 1] ELSE ns[k] * f[k - 1]

LEMMA ProductButMultiplies ==
    ASSUME NEW ns \in Seq(Nat), NEW i
    PROVE  \E f : Multiplying(f, ns, i) /\ ProductBut(ns, i) = f[Len(ns)]
PROOF
<1>. DEFINE n == Len(ns)
            Unrolled(u) == [k \in 0..n |->
                               IF k = 0 THEN 1 ELSE IF k = i THEN u[k - 1] ELSE ns[k] * u[k - 1]]
            h == CHOOSE u : u = Unrolled(u)
            mul == [k \in 1..n |-> IF k = i THEN 1 ELSE ns[k]]
            add == [k \in 1..n |-> 0]
<1>1. n \in Nat /\ \A k \in 1..n : ns[k] \in Nat
  OBVIOUS
<1>2. mul \in [1..n -> Nat] /\ add \in [1..n -> Nat]
  BY <1>1
<1>. HIDE DEF Unrolled, h
<1>3. PICK f : Running(f, 1, mul, add, n)
  <2>1. 1 \in Nat
    OBVIOUS
  <2>. HIDE DEF mul, add, n
  <2>. QED  BY <1>1, <1>2, <2>1, RunExists, Zenon
<1>4. f = Unrolled(f)
  <2>1. ASSUME NEW k \in 1..n
        PROVE  f[k] = IF k = i THEN f[k - 1] ELSE ns[k] * f[k - 1]
    <3>1. add[k] = 0 /\ mul[k] = IF k = i THEN 1 ELSE ns[k]
      OBVIOUS
    <3>. HIDE DEF mul, add, n
    <3>2. f[k - 1] \in Nat /\ ns[k] \in Nat /\ f[k] = mul[k] * f[k - 1] + add[k]
      <4>1. k - 1 \in 0..n
        BY <1>1
      <4>. QED  BY <1>1, <1>3, <4>1 DEF Running
    <3>3. ns[k] * f[k - 1] \in Nat
      BY <3>2, ProductIsNat
    <3>. QED  BY <3>1, <3>2, <3>3
  <2>2. \A k \in 0..n : k # 0 => k \in 1..n
    BY <1>1
  <2>. HIDE DEF mul, add
  <2>3. f = [k \in 0..n |-> f[k]] /\ f[0] = 1
    BY <1>3 DEF Running
  <2>. QED  BY <2>1, <2>2, <2>3 DEF Unrolled
<1>5. h = Unrolled(h)
  BY <1>4, Zenon DEF h
<1>6. ProductBut(ns, i) = h[n]
  BY DEF ProductBut, h, Unrolled
<1>. HIDE DEF mul, add
<1>7. h[0] = 1 /\ \A k \in 1..n : h[k] = IF k = i THEN h[k - 1] ELSE ns[k] * h[k - 1]
  <2>1. \A k \in 0..n : h[k] = IF k = 0 THEN 1
                               ELSE IF k = i THEN h[k - 1] ELSE ns[k] * h[k - 1]
    BY <1>5 DEF Unrolled
  <2>2. 0 \in 0..n /\ \A k \in 1..n : k \in 0..n /\ k # 0
    BY <1>1
  <2>. HIDE DEF n
  <2>. QED  BY <2>1, <2>2
<1>8. \A k \in 0..n : h[k] \in Nat
  <2>1. ASSUME NEW k \in 1..n, h[k - 1] \in Nat
        PROVE  h[k] \in Nat
    BY <1>1, <1>7, <2>1, ProductIsNat
  <2>2. h[0] \in Nat
    BY <1>7
  <2>. HIDE DEF n
  <2>. QED  BY <1>1, <2>1, <2>2, RunStaysNat
<1>9. h \in [0..n -> Nat]
  <2>1. h = [k \in 0..n |-> h[k]]
    BY <1>5 DEF Unrolled
  <2>. HIDE DEF n
  <2>. QED  BY <1>8, <2>1
<1>. QED  BY <1>6, <1>7, <1>9 DEF Multiplying

LEMMA ProductsAreNat ==
    ASSUME NEW ns \in Seq(Nat), NEW i
    PROVE  ProductBut(ns, i) \in Nat
PROOF
<1>1. PICK f : Multiplying(f, ns, i) /\ ProductBut(ns, i) = f[Len(ns)]
  BY ProductButMultiplies
<1>. QED  BY <1>1 DEF Multiplying

(* f is what the sum of ns, weighed with ws, goes through. *)
Adding(f, ns, ws, n) ==
    /\ f \in [0..n -> Nat]
    /\ f[0] = 0
    /\ \A k \in 1..n : f[k] = f[k - 1] + ns[k] * ws[k]

LEMMA OthersAreNat ==
    ASSUME NEW s \in Seq(Opinions)
    PROVE  /\ DOMAIN Others(s) = 1..Len(s)
           /\ [j \in DOMAIN s |-> s[j].u] \in Seq(Nat) /\ Len([j \in DOMAIN s |-> s[j].u]) = Len(s)
           /\ \A i \in 1..Len(s) : /\ Others(s)[i] = ProductBut([j \in DOMAIN s |-> s[j].u], i)
                                   /\ Others(s)[i] \in Nat
PROOF
<1>. DEFINE us == [j \in DOMAIN s |-> s[j].u]
<1>1. Len(s) \in Nat /\ DOMAIN s = 1..Len(s) /\ \A j \in 1..Len(s) : s[j] \in Opinions
  OBVIOUS
<1>2. \A j \in 1..Len(s) : s[j].u \in Nat
  BY <1>1, OpinionParts
<1>. HIDE DEF Opinions
<1>3. us \in Seq(Nat) /\ Len(us) = Len(s)
  BY <1>1, <1>2
<1>. HIDE DEF us
<1>4. \A i \in 1..Len(s) : Others(s)[i] = ProductBut(us, i)
  BY <1>1 DEF Others, us
<1>5. \A i \in 1..Len(s) : ProductBut(us, i) \in Nat
  BY <1>3, ProductsAreNat
<1>6. DOMAIN Others(s) = 1..Len(s)
  BY <1>1 DEF Others
<1>. QED  BY <1>3, <1>4, <1>5, <1>6 DEF us

LEMMA WeightedSumAdds ==
    ASSUME NEW s \in Seq(Opinions), NEW ns \in Seq(Nat), Len(ns) = Len(s)
    PROVE  \E f : Adding(f, ns, Others(s), Len(s)) /\ WeightedSum(s, ns) = f[Len(s)]
PROOF
<1>. DEFINE n == Len(s)
            ws == Others(s)
            Unrolled(u) == [k \in 0..n |-> IF k = 0 THEN 0 ELSE u[k - 1] + ns[k] * ws[k]]
            h == CHOOSE u : u = Unrolled(u)
            mul == [k \in 1..n |-> 1]
            add == [k \in 1..n |-> ns[k] * ws[k]]
<1>1. n \in Nat /\ \A k \in 1..n : ns[k] \in Nat
  OBVIOUS
<1>2. \A k \in 1..n : ws[k] \in Nat
  BY OthersAreNat
<1>. HIDE DEF n, ws, Unrolled, h
<1>3. \A k \in 1..n : ns[k] * ws[k] \in Nat
  BY <1>1, <1>2, ProductIsNat
<1>4. mul \in [1..n -> Nat] /\ add \in [1..n -> Nat]
  BY <1>3
<1>5. \A k \in 1..n : mul[k] = 1 /\ add[k] = ns[k] * ws[k]
  OBVIOUS
<1>. HIDE DEF mul, add
<1>6. PICK f : Running(f, 0, mul, add, n)
  <2>1. 0 \in Nat
    OBVIOUS
  <2>. QED  BY <1>1, <1>4, <2>1, RunExists, Zenon
<1>7. f = Unrolled(f)
  <2>1. ASSUME NEW k \in 1..n
        PROVE  f[k] = f[k - 1] + ns[k] * ws[k]
    <3>1. f[k - 1] \in Nat /\ f[k] = mul[k] * f[k - 1] + add[k]
      <4>1. k - 1 \in 0..n
        BY <1>1
      <4>. QED  BY <1>6, <4>1 DEF Running
    <3>. QED  BY <1>3, <1>5, <3>1
  <2>2. \A k \in 0..n : k # 0 => k \in 1..n
    BY <1>1
  <2>3. f = [k \in 0..n |-> f[k]] /\ f[0] = 0
    BY <1>6 DEF Running
  <2>. QED  BY <2>1, <2>2, <2>3 DEF Unrolled
<1>8. h = Unrolled(h)
  BY <1>7, Zenon DEF h
<1>9. WeightedSum(s, ns) = h[n]
  BY DEF WeightedSum, h, Unrolled, n, ws
<1>10. h[0] = 0 /\ \A k \in 1..n : h[k] = h[k - 1] + ns[k] * ws[k]
  <2>1. \A k \in 0..n : h[k] = IF k = 0 THEN 0 ELSE h[k - 1] + ns[k] * ws[k]
    BY <1>8 DEF Unrolled
  <2>2. 0 \in 0..n /\ \A k \in 1..n : k \in 0..n /\ k # 0
    BY <1>1
  <2>. QED  BY <2>1, <2>2
<1>11. \A k \in 0..n : h[k] \in Nat
  <2>1. ASSUME NEW k \in 1..n, h[k - 1] \in Nat
        PROVE  h[k] \in Nat
    BY <1>3, <1>10, <2>1
  <2>2. h[0] \in Nat
    BY <1>10
  <2>. QED  BY <1>1, <2>1, <2>2, RunStaysNat
<1>12. h \in [0..n -> Nat]
  <2>1. h = [k \in 0..n |-> h[k]]
    BY <1>8 DEF Unrolled
  <2>. QED  BY <1>11, <2>1
<1>. QED  BY <1>9, <1>10, <1>12 DEF Adding, n, ws

(* Two lists, one after the other. *)
LEMMA JoinedParts ==
    ASSUME NEW S, NEW s \in Seq(S), NEW t \in Seq(S)
    PROVE  /\ s \o t \in Seq(S) /\ Len(s \o t) = Len(s) + Len(t)
           /\ Len(s) \in Nat /\ Len(t) \in Nat
           /\ \A k \in 1..Len(s) : (s \o t)[k] = s[k]
           /\ \A k \in 1..Len(t) : (s \o t)[Len(s) + k] = t[k]
PROOF
<1>1. /\ s \o t \in Seq(S) /\ Len(s \o t) = Len(s) + Len(t)
      /\ Len(s) \in Nat /\ Len(t) \in Nat
  OBVIOUS
<1>2. \A k \in 1..Len(s) : (s \o t)[k] = s[k]
  OBVIOUS
<1>3. \A k \in 1..Len(t) : (s \o t)[Len(s) + k] = t[k]
  OBVIOUS
<1>. QED  BY <1>1, <1>2, <1>3

(* The product over two lists is that of their products. *)
LEMMA ProductOfJoined ==
    ASSUME NEW ns \in Seq(Nat), NEW ms \in Seq(Nat), NEW i \in Nat
    PROVE  /\ i <= Len(ns) => ProductBut(ns \o ms, i) = ProductBut(ns, i) * Product(ms)
           /\ i >= 1 => ProductBut(ns \o ms, Len(ns) + i) = Product(ns) * ProductBut(ms, i)
PROOF
<1>. DEFINE n == Len(ns)
            m == Len(ms)
            all == ns \o ms
<1>1. /\ n \in Nat /\ m \in Nat /\ all \in Seq(Nat) /\ Len(all) = n + m
      /\ \A k \in 1..n : all[k] = ns[k] /\ ns[k] \in Nat
      /\ \A k \in 1..m : all[n + k] = ms[k] /\ ms[k] \in Nat
  <2>1. (\A k \in 1..n : ns[k] \in Nat) /\ \A k \in 1..m : ms[k] \in Nat
    OBVIOUS
  <2>. QED  BY <2>1, JoinedParts
<1>. HIDE DEF n, m, all
<1>2. ASSUME NEW j \in Nat, NEW l \in Nat, NEW x \in Nat,
             \A k \in 1..n : k = x <=> k = j, \A k \in 1..m : n + k = x <=> k = l
      PROVE  ProductBut(all, x) = ProductBut(ns, j) * ProductBut(ms, l)
  <2>1. PICK f : Multiplying(f, ns, j) /\ ProductBut(ns, j) = f[n]
    BY ProductButMultiplies DEF n
  <2>2. PICK g : Multiplying(g, ms, l) /\ ProductBut(ms, l) = g[m]
    BY ProductButMultiplies DEF m
  <2>3. PICK h : Multiplying(h, all, x) /\ ProductBut(all, x) = h[n + m]
    BY <1>1, ProductButMultiplies
  <2>4. /\ f \in [0..n -> Nat] /\ f[0] = 1
        /\ \A k \in 1..n : f[k] = IF k = j THEN f[k - 1] ELSE ns[k] * f[k - 1]
    BY <2>1 DEF Multiplying, n
  <2>5. /\ g \in [0..m -> Nat] /\ g[0] = 1
        /\ \A k \in 1..m : g[k] = IF k = l THEN g[k - 1] ELSE ms[k] * g[k - 1]
    BY <2>2 DEF Multiplying, m
  <2>6. /\ h \in [0..(n + m) -> Nat] /\ h[0] = 1
        /\ \A k \in 1..(n + m) : h[k] = IF k = x THEN h[k - 1] ELSE all[k] * h[k - 1]
    BY <1>1, <2>3 DEF Multiplying
  <2>. DEFINE First == {k \in Nat : k <= n => h[k] = f[k]}
              Second == {k \in Nat : k <= m => h[n + k] = f[n] * g[k]}
  <2>7. First = Nat
    <3>1. 0 \in First /\ First \subseteq Nat
      BY <2>4, <2>6
    <3>2. ASSUME NEW k \in First
          PROVE  k + 1 \in First
      <4>. SUFFICES ASSUME k + 1 <= n PROVE h[k + 1] = f[k + 1]
        OBVIOUS
      <4>1. k + 1 \in 1..n /\ k + 1 \in 1..(n + m) /\ (k + 1) - 1 = k /\ h[k] = f[k]
        BY <1>1
      <4>2. f[k + 1] = IF k + 1 = j THEN f[k] ELSE ns[k + 1] * f[k]
        BY <2>4, <4>1
      <4>3. h[k + 1] = IF k + 1 = x THEN h[k] ELSE all[k + 1] * h[k]
        BY <2>6, <4>1
      <4>4. all[k + 1] = ns[k + 1] /\ (k + 1 = x <=> k + 1 = j)
        BY <1>1, <1>2, <4>1
      <4>. QED  BY <4>1, <4>2, <4>3, <4>4
    <3>. HIDE DEF First
    <3>. QED  BY <3>1, <3>2, CountingUp
  <2>8. f[n] \in Nat /\ h[n] = f[n]
    <3>1. n <= n /\ n \in 0..n
      BY <1>1
    <3>2. n \in First
      <4>. HIDE DEF First
      <4>. QED  BY <1>1, <2>7
    <3>. QED  BY <2>4, <3>1, <3>2
  <2>9. Second = Nat
    <3>1. 0 \in Second /\ Second \subseteq Nat
      <4>1. h[n + 0] = f[n] * g[0]
        BY <1>1, <2>5, <2>8
      <4>. QED  BY <4>1
    <3>2. ASSUME NEW k \in Second
          PROVE  k + 1 \in Second
      <4>. SUFFICES ASSUME k + 1 <= m PROVE h[n + (k + 1)] = f[n] * g[k + 1]
        OBVIOUS
      <4>1. /\ k \in Nat /\ k + 1 \in 1..m /\ n + (k + 1) \in 1..(n + m) /\ (k + 1) - 1 = k
            /\ (n + (k + 1)) - 1 = n + k /\ h[n + k] = f[n] * g[k]
        BY <1>1
      <4>2. g[k + 1] = IF k + 1 = l THEN g[k] ELSE ms[k + 1] * g[k]
        BY <2>5, <4>1
      <4>3. h[n + (k + 1)] = IF n + (k + 1) = x THEN h[n + k] ELSE all[n + (k + 1)] * h[n + k]
        BY <2>6, <4>1
      <4>4. all[n + (k + 1)] = ms[k + 1] /\ (n + (k + 1) = x <=> k + 1 = l)
        BY <1>1, <1>2, <4>1
      <4>5. ms[k + 1] \in Nat /\ g[k] \in Nat
        <5>1. k \in 0..m
          BY <1>1, <4>1
        <5>. QED  BY <1>1, <2>5, <4>1, <5>1
      <4>6. ms[k + 1] * (f[n] * g[k]) = f[n] * (ms[k + 1] * g[k])
        BY <2>8, <4>5
      <4>. HIDE DEF Second
      <4>. QED  BY <4>1, <4>2, <4>3, <4>4, <4>6
    <3>. HIDE DEF Second
    <3>. QED  BY <3>1, <3>2, CountingUp
  <2>10. h[n + m] = f[n] * g[m]
    <3>1. m <= m
      BY <1>1
    <3>2. m \in Second
      <4>. HIDE DEF Second
      <4>. QED  BY <1>1, <2>9
    <3>. QED  BY <3>1, <3>2
  <2>. QED  BY <2>1, <2>2, <2>3, <2>10
<1>3. ASSUME i <= n
      PROVE  ProductBut(all, i) = ProductBut(ns, i) * ProductBut(ms, 0)
  <2>1. /\ 0 \in Nat /\ \A k \in 1..n : k = i <=> k = i
        /\ \A k \in 1..m : n + k = i <=> k = 0
    BY <1>1, <1>3
  <2>. QED  BY <1>2, <2>1
<1>4. ASSUME i >= 1
      PROVE  ProductBut(all, n + i) = ProductBut(ns, 0) * ProductBut(ms, i)
  <2>1. /\ 0 \in Nat /\ n + i \in Nat /\ \A k \in 1..n : k = n + i <=> k = 0
        /\ \A k \in 1..m : n + k = n + i <=> k = i
    BY <1>1, <1>4
  <2>. QED  BY <1>2, <2>1
<1>. QED  BY <1>3, <1>4 DEF Product, n, all

(* A list of opinions, said twice: each is worth less by the product of all. *)
LEMMA OthersOfTwice ==
    ASSUME NEW s \in Seq(Opinions)
    PROVE  LET product == Product([j \in DOMAIN s |-> s[j].u])
           IN  /\ product \in Nat
               /\ Product([j \in DOMAIN (s \o s) |-> (s \o s)[j].u]) = product * product
               /\ \A i \in 1..Len(s) : /\ Others(s \o s)[i] = product * Others(s)[i]
                                       /\ Others(s \o s)[Len(s) + i] = product * Others(s)[i]
PROOF
<1>. DEFINE twice == s \o s
            n == Len(s)
            us == [j \in DOMAIN s |-> s[j].u]
            both == [j \in DOMAIN twice |-> twice[j].u]
<1>1. /\ twice \in Seq(Opinions) /\ Len(twice) = n + n /\ n \in Nat
      /\ \A k \in 1..n : twice[k] = s[k] /\ twice[n + k] = s[k]
  <2>. HIDE DEF Opinions
  <2>. QED  BY JoinedParts
<1>2. /\ us \in Seq(Nat) /\ Len(us) = n
      /\ \A i \in 1..n : Others(s)[i] = ProductBut(us, i) /\ Others(s)[i] \in Nat
  BY OthersAreNat
<1>3. /\ both \in Seq(Nat) /\ Len(both) = n + n
      /\ \A i \in 1..(n + n) : Others(twice)[i] = ProductBut(both, i)
  <2>. HIDE DEF twice, Opinions
  <2>. QED  BY <1>1, OthersAreNat
<1>4. \A k \in 1..n : us[k] = s[k].u
  <2>1. DOMAIN s = 1..n
    OBVIOUS
  <2>. QED  BY <2>1
<1>5. \A k \in 1..(n + n) : both[k] = twice[k].u
  <2>1. DOMAIN twice = 1..(n + n)
    <3>. HIDE DEF twice, Opinions, n
    <3>. QED  BY <1>1
  <2>. QED  BY <2>1
<1>. HIDE DEF us, both, twice, n
<1>6. both = us \o us
  <2>. DEFINE joined == us \o us
  <2>1. /\ joined \in Seq(Nat) /\ Len(joined) = Len(us) + Len(us)
        /\ \A k \in 1..Len(us) : joined[k] = us[k] /\ joined[Len(us) + k] = us[k]
    <3>1. us \in Seq(Nat)
      BY <1>2
    <3>. QED  BY <3>1, JoinedParts
  <2>. HIDE DEF joined
  <2>2. /\ Len(joined) = n + n
        /\ \A k \in 1..n : joined[k] = us[k] /\ joined[n + k] = us[k]
    BY <1>2, <2>1
  <2>3. ASSUME NEW k \in 1..n
        PROVE  both[k] = joined[k] /\ both[n + k] = joined[n + k]
    <3>1. k \in 1..(n + n) /\ n + k \in 1..(n + n)
      BY <1>1
    <3>2. both[k] = s[k].u /\ both[n + k] = s[k].u /\ us[k] = s[k].u
      BY <1>1, <1>4, <1>5, <3>1
    <3>. QED  BY <2>2, <3>2
  <2>4. ASSUME NEW k \in 1..(n + n)
        PROVE  both[k] = joined[k]
    <3>1. CASE k <= n
      <4>1. k \in 1..n
        BY <1>1, <3>1
      <4>. QED  BY <2>3, <4>1
    <3>2. CASE k > n
      <4>. DEFINE l == k - n
      <4>1. l \in 1..n /\ k = n + l
        BY <1>1, <3>2
      <4>. HIDE DEF l
      <4>. QED  BY <2>3, <4>1
    <3>. QED  BY <1>1, <3>1, <3>2
  <2>5. both = joined
    BY <1>1, <1>3, <2>1, <2>2, <2>4
  <2>. QED  BY <2>5 DEF joined
<1>. DEFINE product == Product(us)
<1>7. product \in Nat
  BY <1>2, ProductsAreNat DEF Product
<1>8. Product(both) = product * product
  <2>1. 0 \in Nat /\ 0 <= n
    BY <1>1
  <2>2. ProductBut(us \o us, 0) = ProductBut(us, 0) * Product(us)
    BY <1>2, <2>1, ProductOfJoined
  <2>. QED  BY <1>6, <2>2 DEF Product
<1>9. ASSUME NEW i \in 1..n
      PROVE  /\ Others(twice)[i] = product * Others(s)[i]
             /\ Others(twice)[n + i] = product * Others(s)[i]
  <2>1. i \in Nat /\ i <= n /\ i >= 1 /\ i \in 1..(n + n) /\ n + i \in 1..(n + n)
    BY <1>1
  <2>2. /\ ProductBut(us \o us, i) = ProductBut(us, i) * Product(us)
        /\ ProductBut(us \o us, n + i) = Product(us) * ProductBut(us, i)
    BY <1>2, <2>1, ProductOfJoined
  <2>3. Others(s)[i] = ProductBut(us, i) /\ Others(s)[i] \in Nat
    BY <1>2
  <2>4. Others(twice)[i] = ProductBut(both, i) /\ Others(twice)[n + i] = ProductBut(both, n + i)
    BY <1>3, <2>1
  <2>5. ProductBut(us, i) * Product(us) = Product(us) * ProductBut(us, i)
    <3>. HIDE DEF product
    <3>1. Product(us) \in Nat /\ ProductBut(us, i) \in Nat
      BY <1>7, <2>3 DEF product
    <3>. QED  BY <3>1
  <2>. QED  BY <1>6, <2>2, <2>3, <2>4, <2>5
<1>. QED  BY <1>7, <1>8, <1>9 DEF us, both, twice, n

LEMMA WeightedSumIsNat ==
    ASSUME NEW s \in Seq(Opinions), NEW ns \in Seq(Nat), Len(ns) = Len(s)
    PROVE  WeightedSum(s, ns) \in Nat
PROOF
<1>1. PICK f : Adding(f, ns, Others(s), Len(s)) /\ WeightedSum(s, ns) = f[Len(s)]
  BY WeightedSumAdds
<1>2. Len(s) \in 0..Len(s)
  OBVIOUS
<1>. QED  BY <1>1, <1>2 DEF Adding

LEMMA WeightedSumOfTwice ==
    ASSUME NEW s \in Seq(Opinions), NEW ns \in Seq(Nat), Len(ns) = Len(s)
    PROVE  LET product == Product([j \in DOMAIN s |-> s[j].u])
           IN  WeightedSum(s \o s, ns \o ns) = 2 * (product * WeightedSum(s, ns))
PROOF
<1>. DEFINE twice == s \o s
            two == ns \o ns
            n == Len(s)
            product == Product([j \in DOMAIN s |-> s[j].u])
            ws == Others(s)
            wss == Others(twice)
<1>1. /\ twice \in Seq(Opinions) /\ Len(twice) = n + n /\ n \in Nat
      /\ two \in Seq(Nat) /\ Len(two) = n + n
      /\ \A k \in 1..n : two[k] = ns[k] /\ two[n + k] = ns[k] /\ ns[k] \in Nat
  <2>. HIDE DEF Opinions
  <2>1. twice \in Seq(Opinions) /\ Len(twice) = n + n /\ n \in Nat
    BY JoinedParts
  <2>2. /\ two \in Seq(Nat) /\ Len(two) = n + n
        /\ \A k \in 1..n : two[k] = ns[k] /\ two[n + k] = ns[k]
    BY JoinedParts
  <2>3. \A k \in 1..n : ns[k] \in Nat
    OBVIOUS
  <2>. QED  BY <2>1, <2>2, <2>3
<1>2. /\ product \in Nat
      /\ \A k \in 1..n : wss[k] = product * ws[k] /\ wss[n + k] = product * ws[k]
  BY OthersOfTwice
<1>3. \A k \in 1..n : ws[k] \in Nat
  BY OthersAreNat
<1>4. PICK f : Adding(f, ns, ws, n) /\ WeightedSum(s, ns) = f[n]
  BY WeightedSumAdds
<1>. HIDE DEF twice, two, n, product, ws
<1>5. PICK h : Adding(h, two, wss, n + n) /\ WeightedSum(twice, two) = h[n + n]
  BY <1>1, WeightedSumAdds
<1>. HIDE DEF wss
<1>6. /\ f \in [0..n -> Nat] /\ f[0] = 0
      /\ \A k \in 1..n : f[k] = f[k - 1] + ns[k] * ws[k]
  BY <1>4 DEF Adding
<1>7. /\ h \in [0..(n + n) -> Nat] /\ h[0] = 0
      /\ \A k \in 1..(n + n) : h[k] = h[k - 1] + two[k] * wss[k]
  BY <1>5 DEF Adding
<1>8. ASSUME NEW c \in Nat, NEW x \in Nat, NEW a \in Nat, NEW w \in Nat
      PROVE  product * x + a * (product * w) = product * (x + a * w)
  <2>1. product * (x + a * w) = product * x + product * (a * w)
    BY <1>2, <1>8
  <2>2. product * (a * w) = a * (product * w)
    BY <1>2, <1>8
  <2>. QED  BY <2>1, <2>2
<1>. DEFINE First == {k \in Nat : k <= n => h[k] = product * f[k]}
            Second == {k \in Nat : k <= n => h[n + k] = product * f[n] + product * f[k]}
<1>9. First = Nat
  <2>1. 0 \in First /\ First \subseteq Nat
    BY <1>2, <1>6, <1>7
  <2>2. ASSUME NEW k \in First
        PROVE  k + 1 \in First
    <3>. SUFFICES ASSUME k + 1 <= n PROVE h[k + 1] = product * f[k + 1]
      OBVIOUS
    <3>1. /\ k \in Nat /\ k + 1 \in 1..n /\ k + 1 \in 1..(n + n) /\ (k + 1) - 1 = k
          /\ k \in 0..n /\ h[k] = product * f[k]
      BY <1>1
    <3>2. h[k + 1] = h[k] + two[k + 1] * wss[k + 1] /\ f[k + 1] = f[k] + ns[k + 1] * ws[k + 1]
      BY <1>6, <1>7, <3>1
    <3>3. /\ two[k + 1] = ns[k + 1] /\ wss[k + 1] = product * ws[k + 1]
          /\ ns[k + 1] \in Nat /\ ws[k + 1] \in Nat /\ f[k] \in Nat
      BY <1>1, <1>2, <1>3, <1>6, <3>1
    <3>4. product * f[k] + ns[k + 1] * (product * ws[k + 1])
              = product * (f[k] + ns[k + 1] * ws[k + 1])
      BY <1>8, <3>3
    <3>. HIDE DEF First
    <3>. QED  BY <3>1, <3>2, <3>3, <3>4
  <2>. HIDE DEF First
  <2>. QED  BY <2>1, <2>2, CountingUp
<1>10. n \in Nat /\ n <= n /\ n \in 0..n /\ f[n] \in Nat
  BY <1>1, <1>6
<1>11. h[n] = product * f[n]
  <2>1. n \in First
    <3>. HIDE DEF First
    <3>. QED  BY <1>9, <1>10
  <2>. QED  BY <1>10, <2>1
<1>12. Second = Nat
  <2>1. 0 \in Second /\ Second \subseteq Nat
    <3>1. n + 0 = n /\ product * f[0] = 0 /\ product * f[n] \in Nat
      BY <1>2, <1>6, <1>10, ProductIsNat
    <3>. QED  BY <1>11, <3>1
  <2>2. ASSUME NEW k \in Second
        PROVE  k + 1 \in Second
    <3>. SUFFICES ASSUME k + 1 <= n
                  PROVE  h[n + (k + 1)] = product * f[n] + product * f[k + 1]
      OBVIOUS
    <3>1. /\ k \in Nat /\ k + 1 \in 1..n /\ n + (k + 1) \in 1..(n + n) /\ (k + 1) - 1 = k
          /\ (n + (k + 1)) - 1 = n + k /\ k \in 0..n
          /\ h[n + k] = product * f[n] + product * f[k]
      BY <1>1
    <3>2. /\ h[n + (k + 1)] = h[n + k] + two[n + (k + 1)] * wss[n + (k + 1)]
          /\ f[k + 1] = f[k] + ns[k + 1] * ws[k + 1]
      BY <1>6, <1>7, <3>1
    <3>3. /\ two[n + (k + 1)] = ns[k + 1] /\ wss[n + (k + 1)] = product * ws[k + 1]
          /\ ns[k + 1] \in Nat /\ ws[k + 1] \in Nat /\ f[k] \in Nat
      BY <1>1, <1>2, <1>3, <1>6, <3>1
    <3>4. product * f[k] + ns[k + 1] * (product * ws[k + 1])
              = product * (f[k] + ns[k + 1] * ws[k + 1])
      BY <1>8, <3>3
    <3>5. /\ product * f[n] \in Nat /\ product * f[k] \in Nat
          /\ ns[k + 1] * (product * ws[k + 1]) \in Nat
      BY <1>2, <1>10, <3>3, ProductIsNat
    <3>. HIDE DEF Second
    <3>. QED  BY <3>1, <3>2, <3>3, <3>4, <3>5
  <2>. HIDE DEF Second
  <2>. QED  BY <2>1, <2>2, CountingUp
<1>13. h[n + n] = product * f[n] + product * f[n]
  <2>1. n \in Second
    <3>. HIDE DEF Second
    <3>. QED  BY <1>10, <1>12
  <2>. QED  BY <1>10, <2>1
<1>14. product * f[n] + product * f[n] = 2 * (product * f[n])
  BY <1>2, <1>10, ProductIsNat
<1>. QED  BY <1>4, <1>5, <1>13, <1>14 DEF twice, two, n, product

(* multi_source_averaging_fusion, but for its special cases. *)
Averaged(s) ==
    [b |-> WeightedSum(s, [i \in DOMAIN s |-> s[i].b]),
     d |-> WeightedSum(s, [i \in DOMAIN s |-> s[i].d]),
     u |-> Len(s) * Product([i \in DOMAIN s |-> s[i].u])]

LEMMA FieldsAreNat ==
    ASSUME NEW s \in Seq(Opinions)
    PROVE  /\ [i \in DOMAIN s |-> s[i].b] \in Seq(Nat) /\ Len([i \in DOMAIN s |-> s[i].b]) = Len(s)
           /\ [i \in DOMAIN s |-> s[i].d] \in Seq(Nat) /\ Len([i \in DOMAIN s |-> s[i].d]) = Len(s)
           /\ [i \in DOMAIN s |-> s[i].u] \in Seq(Nat) /\ Len([i \in DOMAIN s |-> s[i].u]) = Len(s)
PROOF
<1>1. Len(s) \in Nat /\ DOMAIN s = 1..Len(s) /\ \A j \in 1..Len(s) : s[j] \in Opinions
  OBVIOUS
<1>2. \A j \in 1..Len(s) : s[j].b \in Nat /\ s[j].d \in Nat /\ s[j].u \in Nat
  BY <1>1, OpinionParts
<1>. HIDE DEF Opinions
<1>. QED  BY <1>1, <1>2

LEMMA TwiceIs ==
    ASSUME NEW n \in Nat, NEW xs \in Seq(Nat), Len(xs) = n,
           NEW ys \in Seq(Nat), Len(ys) = n + n,
           \A k \in 1..n : ys[k] = xs[k] /\ ys[n + k] = xs[k]
    PROVE  ys = xs \o xs
PROOF
<1>. DEFINE joined == xs \o xs
<1>1. /\ joined \in Seq(Nat) /\ Len(joined) = Len(xs) + Len(xs)
      /\ \A k \in 1..Len(xs) : joined[k] = xs[k] /\ joined[Len(xs) + k] = xs[k]
  <2>1. joined \in Seq(Nat) /\ Len(joined) = Len(xs) + Len(xs)
    BY JoinedParts
  <2>2. \A k \in 1..Len(xs) : joined[k] = xs[k]
    BY JoinedParts
  <2>3. \A k \in 1..Len(xs) : joined[Len(xs) + k] = xs[k]
    BY JoinedParts
  <2>. QED  BY <2>1, <2>2, <2>3
<1>. HIDE DEF joined
<1>2. Len(joined) = n + n
  BY <1>1
<1>3. \A k \in 1..n : joined[k] = xs[k] /\ joined[n + k] = xs[k]
  BY <1>1
<1>4. ASSUME NEW k \in 1..(n + n)
      PROVE  ys[k] = joined[k]
  <2>1. CASE k <= n
    <3>1. k \in 1..n
      BY <2>1
    <3>. QED  BY <1>3, <3>1
  <2>2. CASE k > n
    <3>. DEFINE l == k - n
    <3>1. l \in 1..n /\ k = n + l
      BY <2>2
    <3>. HIDE DEF l
    <3>2. ys[n + l] = xs[l] /\ joined[n + l] = xs[l]
      BY <1>3, <3>1
    <3>. QED  BY <3>1, <3>2
  <2>. QED  BY <2>1, <2>2
<1>5. ys = joined
  <2>1. joined \in Seq(Nat) /\ Len(joined) = Len(ys) /\ Len(ys) = n + n
    BY <1>1, <1>2
  <2>2. \A k \in 1..Len(ys) : ys[k] = joined[k]
    BY <1>4, <2>1
  <2>. QED  BY <2>1, <2>2
<1>. QED  BY <1>5 DEF joined

(* The numbers of a list, said twice, are those of the list, twice. *)
LEMMA FieldsOfTwice ==
    ASSUME NEW s \in Seq(Opinions)
    PROVE  LET twice == s \o s
               bs == [i \in DOMAIN s |-> s[i].b]
               ds == [i \in DOMAIN s |-> s[i].d]
           IN  /\ [i \in DOMAIN twice |-> twice[i].b] = bs \o bs
               /\ [i \in DOMAIN twice |-> twice[i].d] = ds \o ds
PROOF
<1>. DEFINE n == Len(s)
            twice == s \o s
            bs == [i \in DOMAIN s |-> s[i].b]
            ds == [i \in DOMAIN s |-> s[i].d]
<1>1. /\ twice \in Seq(Opinions) /\ Len(twice) = n + n /\ n \in Nat
      /\ \A k \in 1..n : twice[k] = s[k] /\ twice[n + k] = s[k]
  <2>. HIDE DEF Opinions
  <2>. QED  BY JoinedParts
<1>2. DOMAIN twice = 1..(n + n) /\ DOMAIN s = 1..n
  <2>. HIDE DEF twice, Opinions
  <2>. QED  BY <1>1
<1>5. bs \in Seq(Nat) /\ Len(bs) = n /\ ds \in Seq(Nat) /\ Len(ds) = n
  BY FieldsAreNat
<1>6. \A k \in 1..n : bs[k] = s[k].b /\ ds[k] = s[k].d
  BY <1>2
<1>. DEFINE bss == [i \in DOMAIN twice |-> twice[i].b]
            dss == [i \in DOMAIN twice |-> twice[i].d]
<1>7. /\ bss \in Seq(Nat) /\ Len(bss) = n + n /\ dss \in Seq(Nat) /\ Len(dss) = n + n
      /\ \A k \in 1..(n + n) : bss[k] = twice[k].b
      /\ \A k \in 1..(n + n) : dss[k] = twice[k].d
  <2>. HIDE DEF n, twice, Opinions
  <2>1. /\ bss \in Seq(Nat) /\ Len(bss) = n + n /\ dss \in Seq(Nat) /\ Len(dss) = n + n
    BY <1>1, FieldsAreNat
  <2>. QED  BY <1>2, <2>1
<1>8. \A k \in 1..n : k \in 1..(n + n) /\ n + k \in 1..(n + n)
  BY <1>1
<1>. HIDE DEF n, twice, bs, ds, bss, dss
<1>9. \A k \in 1..n : bss[k] = bs[k] /\ bss[n + k] = bs[k]
  BY <1>1, <1>6, <1>7, <1>8
<1>10. \A k \in 1..n : dss[k] = ds[k] /\ dss[n + k] = ds[k]
  BY <1>1, <1>6, <1>7, <1>8
<1>11. bss = bs \o bs
  BY <1>1, <1>5, <1>7, <1>9, TwiceIs
<1>12. dss = ds \o ds
  BY <1>1, <1>5, <1>7, <1>10, TwiceIs
<1>. QED  BY <1>11, <1>12 DEF twice, bs, ds, bss, dss

LEMMA AveragedTwice ==
    ASSUME NEW s \in Seq(Opinions)
    PROVE  /\ Averaged(s) \in Weights
           /\ \E k \in Nat : Averaged(s \o s) = Times(k, Averaged(s))
PROOF
<1>. DEFINE n == Len(s)
            twice == s \o s
            bs == [i \in DOMAIN s |-> s[i].b]
            ds == [i \in DOMAIN s |-> s[i].d]
            us == [i \in DOMAIN s |-> s[i].u]
            b == WeightedSum(s, bs)
            d == WeightedSum(s, ds)
            product == Product(us)
<1>1. n \in Nat /\ Len(twice) = n + n
  BY JoinedParts
<1>2. bs \in Seq(Nat) /\ Len(bs) = n /\ ds \in Seq(Nat) /\ Len(ds) = n
  BY FieldsAreNat
<1>3. b \in Nat /\ d \in Nat
  BY <1>2, WeightedSumIsNat
<1>4. product \in Nat /\ Product([i \in DOMAIN twice |-> twice[i].u]) = product * product
  BY OthersOfTwice
<1>5. /\ WeightedSum(twice, bs \o bs) = 2 * (product * b)
      /\ WeightedSum(twice, ds \o ds) = 2 * (product * d)
  BY <1>2, WeightedSumOfTwice
<1>6. /\ [i \in DOMAIN twice |-> twice[i].b] = bs \o bs
      /\ [i \in DOMAIN twice |-> twice[i].d] = ds \o ds
  BY FieldsOfTwice
<1>7. Averaged(s) = [b |-> b, d |-> d, u |-> n * product]
  BY DEF Averaged
<1>8. Averaged(twice) = [b |-> 2 * (product * b), d |-> 2 * (product * d),
                         u |-> (n + n) * (product * product)]
  BY <1>1, <1>4, <1>5, <1>6 DEF Averaged
<1>. HIDE DEF n, twice, b, d, product
<1>9. /\ 2 * (product * b) = (2 * product) * b /\ 2 * (product * d) = (2 * product) * d
      /\ (n + n) * (product * product) = (2 * product) * (n * product)
  BY <1>1, <1>3, <1>4
<1>10. Averaged(twice) = Times(2 * product, Averaged(s))
  BY <1>7, <1>8, <1>9 DEF Times
<1>11. Averaged(s) \in Weights
  <2>1. n * product \in Nat
    BY <1>1, <1>4, ProductIsNat
  <2>. QED  BY <1>3, <1>7, <2>1 DEF Weights
<1>12. 2 * product \in Nat
  BY <1>4
<1>. QED  BY <1>10, <1>11, <1>12 DEF twice

LEMMA MultiplesAreSame ==
    ASSUME NEW o \in Weights, NEW k \in Nat
    PROVE  Same(Times(k, o), o)
PROOF
<1>. DEFINE t == Times(k, o)
            w == Weight(o)
<1>1. o.b \in Nat /\ o.d \in Nat /\ o.u \in Nat /\ w = o.b + o.d + o.u
  BY DEF Weights, Weight
<1>2. t.b = k * o.b /\ t.d = k * o.d /\ t.u = k * o.u
  BY DEF Times
<1>3. Weight(t) = k * w
  <2>1. Weight(t) = t.b + t.d + t.u
    BY DEF Weight
  <2>. HIDE DEF t, w
  <2>. QED  BY <1>1, <1>2, <2>1
<1>. HIDE DEF t, w
<1>4. /\ (k * o.b) * w = o.b * (k * w)
      /\ (k * o.d) * w = o.d * (k * w)
      /\ (k * o.u) * w = o.u * (k * w)
  BY <1>1
<1>. QED  BY <1>2, <1>3, <1>4 DEF Same, t, w

(* Products of one number and of two. *)
LEMMA SmallProducts ==
    ASSUME NEW ns \in Seq(Nat)
    PROVE  /\ Len(ns) = 1 => Product(ns) = ns[1] /\ ProductBut(ns, 1) = 1
           /\ Len(ns) = 2 => /\ Product(ns) = ns[1] * ns[2]
                             /\ ProductBut(ns, 1) = ns[2] /\ ProductBut(ns, 2) = ns[1]
PROOF
<1>1. \A k \in 1..Len(ns) : ns[k] \in Nat
  OBVIOUS
<1>2. ASSUME NEW i, Len(ns) = 1
      PROVE  ProductBut(ns, i) = IF 1 = i THEN 1 ELSE ns[1]
  <2>1. PICK f : Multiplying(f, ns, i) /\ ProductBut(ns, i) = f[1]
    BY <1>2, ProductButMultiplies
  <2>2. f[0] = 1 /\ f[1] = (IF 1 = i THEN f[0] ELSE ns[1] * f[0]) /\ ns[1] \in Nat
    BY <1>1, <1>2, <2>1 DEF Multiplying
  <2>. QED  BY <2>1, <2>2
<1>3. ASSUME NEW i, Len(ns) = 2
      PROVE  ProductBut(ns, i) = (IF 2 = i THEN 1 ELSE ns[2]) * (IF 1 = i THEN 1 ELSE ns[1])
  <2>1. PICK f : Multiplying(f, ns, i) /\ ProductBut(ns, i) = f[2]
    BY <1>3, ProductButMultiplies
  <2>2. /\ f[0] = 1 /\ f[1] = (IF 1 = i THEN f[0] ELSE ns[1] * f[0])
        /\ f[2] = (IF 2 = i THEN f[1] ELSE ns[2] * f[1])
    BY <1>3, <2>1 DEF Multiplying
  <2>3. ns[1] \in Nat /\ ns[2] \in Nat
    BY <1>1, <1>3
  <2>4. f[1] = (IF 1 = i THEN 1 ELSE ns[1]) /\ f[1] \in Nat
    BY <2>2, <2>3
  <2>. QED  BY <2>1, <2>2, <2>3, <2>4
<1>4. Len(ns) = 1 => Product(ns) = ns[1] /\ ProductBut(ns, 1) = 1
  BY <1>2 DEF Product
<1>5. ASSUME Len(ns) = 2
      PROVE  /\ Product(ns) = ns[1] * ns[2]
             /\ ProductBut(ns, 1) = ns[2] /\ ProductBut(ns, 2) = ns[1]
  <2>1. ns[1] \in Nat /\ ns[2] \in Nat
    BY <1>1, <1>5
  <2>2. /\ ProductBut(ns, 0) = ns[2] * ns[1]
        /\ ProductBut(ns, 1) = ns[2] * 1 /\ ProductBut(ns, 2) = 1 * ns[1]
    BY <1>3, <1>5
  <2>. QED  BY <2>1, <2>2 DEF Product
<1>. QED  BY <1>4, <1>5

LEMMA SmallSums ==
    ASSUME NEW s \in Seq(Opinions), NEW ns \in Seq(Nat), Len(ns) = Len(s)
    PROVE  /\ Len(s) = 1 => WeightedSum(s, ns) = ns[1]
           /\ Len(s) = 2 => WeightedSum(s, ns) = ns[1] * s[2].u + ns[2] * s[1].u
PROOF
<1>. DEFINE us == [j \in DOMAIN s |-> s[j].u]
<1>1. \A k \in 1..Len(s) : ns[k] \in Nat
  OBVIOUS
<1>2. \A k \in 1..Len(s) : us[k] = s[k].u
  <2>1. DOMAIN s = 1..Len(s)
    OBVIOUS
  <2>. QED  BY <2>1
<1>3. /\ us \in Seq(Nat) /\ Len(us) = Len(s)
      /\ \A i \in 1..Len(s) : Others(s)[i] = ProductBut(us, i) /\ Others(s)[i] \in Nat
  BY OthersAreNat
<1>4. PICK f : Adding(f, ns, Others(s), Len(s)) /\ WeightedSum(s, ns) = f[Len(s)]
  BY WeightedSumAdds
<1>. HIDE DEF us
<1>5. ASSUME Len(s) = 1
      PROVE  WeightedSum(s, ns) = ns[1]
  <2>1. Others(s)[1] = 1
    <3>1. ProductBut(us, 1) = 1
      BY <1>3, <1>5, SmallProducts
    <3>. QED  BY <1>3, <1>5, <3>1
  <2>2. f[0] = 0 /\ f[1] = f[0] + ns[1] * Others(s)[1] /\ ns[1] \in Nat
    BY <1>1, <1>4, <1>5 DEF Adding
  <2>. QED  BY <1>4, <1>5, <2>1, <2>2
<1>6. ASSUME Len(s) = 2
      PROVE  WeightedSum(s, ns) = ns[1] * s[2].u + ns[2] * s[1].u
  <2>1. us[1] = s[1].u /\ us[2] = s[2].u
    BY <1>2, <1>6
  <2>2. Others(s)[1] = s[2].u /\ Others(s)[2] = s[1].u
    <3>1. ProductBut(us, 1) = us[2] /\ ProductBut(us, 2) = us[1]
      BY <1>3, <1>6, SmallProducts
    <3>. QED  BY <1>3, <1>6, <2>1, <3>1
  <2>3. /\ f[0] = 0 /\ f[1] = f[0] + ns[1] * Others(s)[1]
        /\ f[2] = f[1] + ns[2] * Others(s)[2]
    BY <1>4, <1>6 DEF Adding
  <2>4. ns[1] * s[2].u \in Nat
    <3>1. ns[1] \in Nat /\ Others(s)[1] \in Nat
      BY <1>1, <1>3, <1>6
    <3>. QED  BY <2>2, <3>1, ProductIsNat
  <2>. QED  BY <1>4, <1>6, <2>2, <2>3, <2>4
<1>. QED  BY <1>5, <1>6

LEMMA AveragedOne ==
    ASSUME NEW s \in Seq(Opinions), Len(s) = 1
    PROVE  Averaged(s) = s[1]
PROOF
<1>. DEFINE bs == [i \in DOMAIN s |-> s[i].b]
            ds == [i \in DOMAIN s |-> s[i].d]
            us == [i \in DOMAIN s |-> s[i].u]
<1>1. 1 \in DOMAIN s /\ s[1] \in Opinions
  OBVIOUS
<1>2. bs[1] = s[1].b /\ ds[1] = s[1].d /\ us[1] = s[1].u
  BY <1>1
<1>3. /\ bs \in Seq(Nat) /\ Len(bs) = Len(s) /\ ds \in Seq(Nat) /\ Len(ds) = Len(s)
      /\ us \in Seq(Nat) /\ Len(us) = Len(s)
  BY FieldsAreNat
<1>4. Averaged(s) = [b |-> WeightedSum(s, bs), d |-> WeightedSum(s, ds),
                     u |-> Len(s) * Product(us)]
  BY DEF Averaged
<1>. HIDE DEF bs, ds, us, Opinions
<1>5. WeightedSum(s, bs) = bs[1] /\ WeightedSum(s, ds) = ds[1]
  BY <1>3, SmallSums
<1>6. Product(us) = us[1]
  BY <1>3, SmallProducts
<1>7. s[1].u \in Nat /\ s[1] = [b |-> s[1].b, d |-> s[1].d, u |-> s[1].u]
  <2>1. s[1] \in Weights
    BY <1>1 DEF Opinions
  <2>. QED  BY <2>1 DEF Weights
<1>. QED  BY <1>2, <1>4, <1>5, <1>6, <1>7

(* averaging_fusion is the same for two. *)
LEMMA AveragedTwo ==
    ASSUME NEW s \in Seq(Certain), Len(s) = 2
    PROVE  Averaged(s) = Average(s[1], s[2])
PROOF
<1>1. /\ 1 \in DOMAIN s /\ 2 \in DOMAIN s /\ s[1] \in Certain /\ s[2] \in Certain
      /\ s \in Seq(Opinions)
  <2>1. \A i \in 1..Len(s) : s[i] \in Certain
    OBVIOUS
  <2>2. 1 \in 1..Len(s) /\ 2 \in 1..Len(s) /\ DOMAIN s = 1..Len(s)
    OBVIOUS
  <2>3. Certain \subseteq Opinions
    BY DEF Certain
  <2>4. s \in Seq(Opinions)
    BY <2>3
  <2>. QED  BY <2>1, <2>2, <2>4
<1>. DEFINE bs == [i \in DOMAIN s |-> s[i].b]
            ds == [i \in DOMAIN s |-> s[i].d]
            us == [i \in DOMAIN s |-> s[i].u]
<1>2. /\ bs[1] = s[1].b /\ ds[1] = s[1].d /\ us[1] = s[1].u
      /\ bs[2] = s[2].b /\ ds[2] = s[2].d /\ us[2] = s[2].u
  BY <1>1
<1>3. /\ bs \in Seq(Nat) /\ Len(bs) = Len(s) /\ ds \in Seq(Nat) /\ Len(ds) = Len(s)
      /\ us \in Seq(Nat) /\ Len(us) = Len(s)
  BY <1>1, FieldsAreNat
<1>4. Averaged(s) = [b |-> WeightedSum(s, bs), d |-> WeightedSum(s, ds),
                     u |-> Len(s) * Product(us)]
  BY DEF Averaged
<1>. HIDE DEF bs, ds, us
<1>5. /\ WeightedSum(s, bs) = bs[1] * s[2].u + bs[2] * s[1].u
      /\ WeightedSum(s, ds) = ds[1] * s[2].u + ds[2] * s[1].u
  BY <1>1, <1>3, SmallSums
<1>6. Product(us) = us[1] * us[2]
  BY <1>3, SmallProducts
<1>7. Average(s[1], s[2]) =
          [b |-> s[1].b * s[2].u + s[2].b * s[1].u, d |-> s[1].d * s[2].u + s[2].d * s[1].u,
           u |-> 2 * s[1].u * s[2].u]
  BY <1>1 DEF Average, Certain
<1>8. 2 * (s[1].u * s[2].u) = 2 * s[1].u * s[2].u
  <2>1. s[1].u \in Nat /\ s[2].u \in Nat
    BY <1>1, OpinionParts DEF Certain
  <2>. QED  BY <2>1
<1>. QED  BY <1>2, <1>4, <1>5, <1>6, <1>7, <1>8

-----------------------------------------------------------------------------
(* What may be submitted. *)
Sources ==
    {FromEvidence(e) : e \in Evidence}
        \cup {Discount(authority, FromEvidence(e)) : authority \in Authorities, e \in Evidence}

(* So many opinions, each said twice, still leave enough uncertainty for an
   average; with more of them, or with more certain ones, cumulative fusion
   takes its place (TooCertain). *)
LeavesDoubt == \A s \in Seq(Sources) : Len(s) \in 2..(2 * MaxCount) => ~TooCertain(s)

SourcesInv == said \in Seq([at: Nat, evidence: Evidence, opinion: Sources, plain: BOOLEAN,
                            swept: BOOLEAN])
              /\ Len(said) = record.count

LEMMA StepSources == AccountInv /\ SourcesInv /\ [AssessmentNext]_assessmentVars => SourcesInv'
PROOF
<1>. SUFFICES ASSUME AccountInv, SourcesInv, [AssessmentNext]_assessmentVars PROVE SourcesInv'
  OBVIOUS
<1>. DEFINE SourceEntries == [at: Nat, evidence: Evidence, opinion: Sources, plain: BOOLEAN,
                              swept: BOOLEAN]
<1>1. ASSUME NEW e \in Evidence, NEW op \in Sources, NEW isPlain \in BOOLEAN,
             said' = Append(said, Entry(e, op, isPlain)), record'.count = record.count + 1
      PROVE  SourcesInv'
  <2>1. clock \in Nat
    BY DEF AccountInv, TypeOK
  <2>2. Entry(e, op, isPlain) \in SourceEntries
    BY <2>1 DEF Entry
  <2>3. said \in Seq(SourceEntries) /\ Len(said) = record.count
    BY DEF SourcesInv
  <2>. HIDE DEF SourceEntries
  <2>4. said' \in Seq(SourceEntries) /\ Len(said') = record'.count
    BY <1>1, <2>2, <2>3
  <2>. QED  BY <2>4 DEF SourcesInv, SourceEntries
<1>2. ASSUME NEW e \in Evidence, Say(e)
      PROVE  SourcesInv'
  <2>1. FromEvidence(e) \in Sources
    BY DEF Sources
  <2>2. record'.count = record.count + 1 /\ said' = Append(said, Entry(e, FromEvidence(e), TRUE))
    BY <1>2 DEF Say, Submit, Absorb
  <2>. QED  BY <1>1, <2>1, <2>2
<1>3. ASSUME NEW e \in Evidence, NEW authority \in Authorities, SayDiscounted(authority, e)
      PROVE  SourcesInv'
  <2>1. Discount(authority, FromEvidence(e)) \in Sources
    BY DEF Sources
  <2>2. /\ record'.count = record.count + 1
        /\ said' = Append(said, Entry(e, Discount(authority, FromEvidence(e)), FALSE))
    BY <1>3 DEF SayDiscounted, SubmitDiscounted, Absorb
  <2>. QED  BY <1>1, <2>1, <2>2
<1>4. CASE ((\E now \in 0..clock : ApplyDecay(now)) \/ Tick \/ Rest) /\ UNCHANGED said
  <2>1. record'.count = record.count
    BY <1>4 DEF ApplyDecay, Sweep, Tick, Rest, vars, AccountInv, TypeOK
  <2>. QED  BY <1>4, <2>1 DEF SourcesInv
<1>5. CASE UNCHANGED assessmentVars
  BY <1>5 DEF SourcesInv, assessmentVars, vars
<1>. QED  BY <1>2, <1>3, <1>4, <1>5 DEF AssessmentNext

LEMMA SourcesHold == AssessmentSpec => []SourcesInv
PROOF
<1>1. AssessmentInit => SourcesInv
  BY DEF AssessmentInit, Init, SourcesInv
<1>. QED  BY <1>1, StepSources, AssessedAccountHolds, PTL DEF AssessmentSpec

LEMMA HeardFromSources ==
    ASSUME SourcesInv, AccountInv
    PROVE  Heard \in Seq(Sources) /\ Len(Heard) \in 0..MaxCount
PROOF
<1>. DEFINE SourceEntries == [at: Nat, evidence: Evidence, opinion: Sources, plain: BOOLEAN,
                              swept: BOOLEAN]
<1>1. \A x \in SourceEntries : x.opinion \in Sources
  OBVIOUS
<1>2. said \in Seq(SourceEntries) /\ Len(said) = record.count
  BY DEF SourcesInv
<1>3. record.count \in 0..MaxCount
  BY DEF AccountInv, TypeOK
<1>. HIDE DEF SourceEntries, Sources
<1>4. Heard \in Seq(Sources) /\ Len(Heard) = Len(said)
  BY <1>1, <1>2 DEF Heard
<1>. QED  BY <1>2, <1>3, <1>4

(* fusion.py: as long as so many opinions leave enough uncertainty for an
   average, one over a list in which every opinion appears once more is the
   average of the list, and that of two is averaging_fusion: for any evidence,
   any authorities and any prior weight. *)
THEOREM AveragesCountNobodyTwice ==
    ASSUME LeavesDoubt
    PROVE  AssessmentSpec => []AveragingCountsNobodyTwice
PROOF
<1>1. AccountInv /\ SaidInv /\ SourcesInv => AveragingCountsNobodyTwice
  <2>. SUFFICES ASSUME AccountInv, SaidInv, SourcesInv PROVE AveragingCountsNobodyTwice
    OBVIOUS
  <2>. DEFINE s == Heard
              twice == s \o s
              n == Len(s)
  <2>1. s \in Seq(Certain) /\ s \in Seq(Sources) /\ n \in 0..MaxCount
    BY HeardIsCertain, HeardFromSources
  <2>2. s \in Seq(Opinions)
    <3>1. Certain \subseteq Opinions
      BY DEF Certain
    <3>. HIDE DEF Certain, Opinions, s
    <3>. QED  BY <2>1, <3>1
  <2>. HIDE DEF s, Certain, Sources, Opinions
  <2>3. MaxCount \in Nat /\ n \in Nat
    <3>1. MaxCount \in Nat
      BY BoundsAreNat
    <3>. QED  BY <2>1, <3>1
  <2>4. twice \in Seq(Sources) /\ Len(twice) = n + n
    BY <2>1, JoinedParts
  <2>. HIDE DEF twice, n
  <2>5. ASSUME s # << >>
        PROVE  AverageAll(s) = Averaged(s) /\ AverageAll(twice) = Averaged(twice)
    <3>1. n \in 1..MaxCount
      <4>1. n # 0
        BY <2>1, <2>5 DEF n
      <4>. QED  BY <2>1, <2>3, <4>1
    <3>2. n = 1 \/ n \in 2..(2 * MaxCount)
      BY <2>3, <3>1
    <3>3. n + n \in 2..(2 * MaxCount) /\ n + n # 1
      BY <2>3, <3>1
    <3>4. ~TooCertain(twice)
      BY <2>4, <3>3 DEF LeavesDoubt
    <3>5. n # 1 => ~TooCertain(s)
      BY <2>1, <3>2 DEF LeavesDoubt, n
    <3>6. n = 1 => Averaged(s) = s[1]
      BY <2>2, AveragedOne DEF n
    <3>7. AverageAll(twice) = Averaged(twice)
      BY <2>4, <3>3, <3>4 DEF AverageAll, Averaged
    <3>8. AverageAll(s) = Averaged(s)
      <4>1. CASE n = 1
        BY <3>6, <4>1 DEF AverageAll, n
      <4>2. CASE n # 1
        BY <3>5, <4>2 DEF AverageAll, Averaged, n
      <4>. QED  BY <4>1, <4>2
    <3>. QED  BY <3>7, <3>8
  <2>6. s # << >> => Same(AverageAll(twice), AverageAll(s))
    <3>1. Averaged(s) \in Weights /\ \E k \in Nat : Averaged(twice) = Times(k, Averaged(s))
      BY <2>2, AveragedTwice DEF twice
    <3>2. Same(Averaged(twice), Averaged(s))
      BY <3>1, MultiplesAreSame
    <3>. QED  BY <2>5, <3>2
  <2>7. ASSUME n = 2
        PROVE  Same(AverageAll(s), Average(s[1], s[2]))
    <3>1. s # << >>
      BY <2>7 DEF n
    <3>2. Averaged(s) = Average(s[1], s[2])
      BY <2>1, <2>7, AveragedTwo DEF n
    <3>. QED  BY <2>5, <3>1, <3>2, SameAsItself
  <2>. QED  BY <2>6, <2>7 DEF AveragingCountsNobodyTwice, s, twice, n
<1>. QED  BY <1>1, AssessedAccountHolds, SaidHolds, SourcesHold, PTL
=============================================================================

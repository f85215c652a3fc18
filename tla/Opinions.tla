------------------------------ MODULE Opinions ------------------------------
(***************************************************************************)
(* The algebra of subjective opinions (core/opinion.py and operators/), in *)
(* exact arithmetic.                                                       *)
(*                                                                         *)
(* An opinion is a triple of weights, of which only the ratios matter:     *)
(* [b |-> 3, d |-> 1, u |-> 4] has belief 3/8, disbelief 1/8, uncertainty  *)
(* 4/8.  That is what normalize_opinion makes of it, so no operator below  *)
(* normalizes, and Same is equality of opinions.  A fraction is a pair of  *)
(* numerator and denominator.  The epsilons of operators/constants.py are  *)
(* tests for zero, but for EPSILON_DEGENERATE, which a product of small    *)
(* uncertainties reaches in earnest: 1/Degenerate.                         *)
(***************************************************************************)
EXTENDS Integers, Sequences

CONSTANTS
    PriorWeight,    \* W of the evidence mapping, the config's prior_weight
    Degenerate      \* 1 / EPSILON_DEGENERATE

ASSUME PriorWeightIsPositive == PriorWeight \in Nat \ {0}

ASSUME DegenerateIsPositive == Degenerate \in Nat \ {0}

Weights == [b: Nat, d: Nat, u: Nat]

Weight(o) == o.b + o.d + o.u

Opinions == {o \in Weights : Weight(o) > 0}

Dogmatic(o) == o.u = 0

(* Opinion.__eq__: equal belief, disbelief and uncertainty. *)
Same(p, q) ==
    /\ p.b * Weight(q) = q.b * Weight(p)
    /\ p.d * Weight(q) = q.d * Weight(p)
    /\ p.u * Weight(q) = q.u * Weight(p)

Vacuous == [b |-> 0, d |-> 0, u |-> 1]

DogmaticTrust == [b |-> 1, d |-> 0, u |-> 0]

(* Opinion.from_evidence: (r, s, W) / (r + s + W). *)
FromEvidence(e) == [b |-> e.positive, d |-> e.negative, u |-> PriorWeight]

(* opinion_to_evidence gives e back, from an opinion that is not dogmatic. *)
IsEvidenceOf(o, e) ==
    /\ ~Dogmatic(o)
    /\ PriorWeight * o.b = e.positive * o.u
    /\ PriorWeight * o.d = e.negative * o.u

-----------------------------------------------------------------------------
(* Two dogmatic opinions count the same: both inverse weights are 1/epsilon. *)
FuseDogmatic(p, q) ==
    [b |-> p.b * Weight(q) + q.b * Weight(p),
     d |-> p.d * Weight(q) + q.d * Weight(p),
     u |-> 0]

(* Mutant: the second opinion is weighed by its own uncertainty. *)
FuseUncrossed(p, q) ==
    IF Dogmatic(p) /\ Dogmatic(q) THEN FuseDogmatic(p, q)
    ELSE [b |-> p.b * q.u + q.b * q.u,
          d |-> p.d * q.u + q.d * q.u,
          u |-> p.u * q.u]

(* cumulative_fusion, but for the base rate. *)
Fuse(p, q) ==
    IF Dogmatic(p) /\ Dogmatic(q) THEN FuseDogmatic(p, q)
    ELSE [b |-> p.b * q.u + q.b * p.u,
          d |-> p.d * q.u + q.d * p.u,
          u |-> p.u * q.u]

(* multi_source_cumulative_fusion: from left to right. *)
FuseAll(s) ==
    LET upTo[i \in 1..Len(s)] == IF i = 1 THEN s[1] ELSE Fuse(upTo[i - 1], s[i])
    IN  upTo[Len(s)]

(* Mutant: the weighted sum is not divided by the weights. *)
FusedBaseUnscaled(p, basep, q, baseq) ==
    LET wp == q.u * (Weight(p) - p.u)
        wq == p.u * (Weight(q) - q.u)
    IN  <<wp * basep[1] * baseq[2] + wq * baseq[1] * basep[2], basep[2] * baseq[2]>>

(* The base rate of cumulative_fusion: the mean of the two, each weighed by
   the other's uncertainty and its own certainty; the plain mean when neither
   weighs anything. *)
FusedBase(p, basep, q, baseq) ==
    LET wp == q.u * (Weight(p) - p.u)
        wq == p.u * (Weight(q) - q.u)
    IN  IF wp + wq = 0
        THEN <<basep[1] * baseq[2] + baseq[1] * basep[2], 2 * basep[2] * baseq[2]>>
        ELSE <<wp * basep[1] * baseq[2] + wq * baseq[1] * basep[2],
               (wp + wq) * basep[2] * baseq[2]>>

(* averaging_fusion. *)
Average(p, q) ==
    IF Dogmatic(p) /\ Dogmatic(q) THEN FuseDogmatic(p, q)
    ELSE [b |-> (p.b * q.u + q.b * p.u), d |-> (p.d * q.u + q.d * p.u), u |-> 2 * p.u * q.u]

(* The product of the numbers, but for the i-th. *)
ProductBut(ns, i) ==
    LET upTo[k \in 0..Len(ns)] ==
            IF k = 0 THEN 1 ELSE IF k = i THEN upTo[k - 1] ELSE ns[k] * upTo[k - 1]
    IN  upTo[Len(ns)]

Product(ns) == ProductBut(ns, 0)

(* The weight of opinion i in an average: the product of the others'
   uncertainties, so 0 for all of them when two are dogmatic. *)
Others(s) == [i \in DOMAIN s |-> ProductBut([j \in DOMAIN s |-> s[j].u], i)]

(* The sum of the numbers, each weighed. *)
WeightedSum(s, ns) ==
    LET weights == Others(s)
        upTo[k \in 0..Len(s)] == IF k = 0 THEN 0 ELSE upTo[k - 1] + ns[k] * weights[k]
    IN  upTo[Len(s)]

(* The weights sum to less than EPSILON_DEGENERATE. *)
TooCertain(s) ==
    LET totals == [i \in DOMAIN s |-> Weight(s[i])]
    IN  Degenerate * WeightedSum(s, totals) < Product(totals)

(* Mutant: the product of the uncertainties is not scaled by their number. *)
AverageAllUnscaled(s) ==
    [b |-> WeightedSum(s, [i \in DOMAIN s |-> s[i].b]),
     d |-> WeightedSum(s, [i \in DOMAIN s |-> s[i].d]),
     u |-> Product([i \in DOMAIN s |-> s[i].u])]

(* multi_source_averaging_fusion; a list of too certain opinions is folded
   with cumulative fusion instead. *)
AverageAll(s) ==
    IF Len(s) = 1 THEN s[1]
    ELSE IF TooCertain(s) THEN FuseAll(s)
    ELSE [b |-> WeightedSum(s, [i \in DOMAIN s |-> s[i].b]),
          d |-> WeightedSum(s, [i \in DOMAIN s |-> s[i].d]),
          u |-> Len(s) * Product([i \in DOMAIN s |-> s[i].u])]

-----------------------------------------------------------------------------
(* Opinion.trustworthiness, for the default base rate of 1/2. *)
Trustworthiness(o) == <<2 * o.b + o.u, 2 * Weight(o)>>

(* Mutant: what the authority does not vouch for counts as disbelief. *)
DiscountToDisbelief(authority, o) ==
    LET t == Trustworthiness(authority) IN
    [b |-> t[1] * o.b, d |-> t[2] * Weight(o) - t[1] * (o.b + o.u), u |-> t[1] * o.u]

(* discount_opinion: belief and disbelief shrink to the authority's
   trustworthiness, the rest is uncertainty. *)
Discount(authority, o) ==
    LET t == Trustworthiness(authority) IN
    [b |-> t[1] * o.b,
     d |-> t[1] * o.d,
     u |-> t[2] * Weight(o) - t[1] * (o.b + o.d)]

(* Mutant: grows by the factor by which it should shrink. *)
DecayInverted(o, g) == [b |-> g * o.b, d |-> g * o.d, u |-> Weight(o) - g * (o.b + o.d)]

(* time_decay by the factor 1/g: belief and disbelief shrink, the rest is
   uncertainty. *)
Decay(o, g) == [b |-> o.b, d |-> o.d, u |-> g * Weight(o) - (o.b + o.d)]
=============================================================================

----------------------------- MODULE Assessment -----------------------------
(***************************************************************************)
(* What is concluded from the record of EvidenceAccount: the decisions of  *)
(* is_trusted and of ThresholdPolicy, the forecasts of trust_timeline and  *)
(* the estimate of explain_trust, and the offline replay of the evaluation *)
(* harness, which computes the record a second time from declared evidence.*)
(*                                                                         *)
(* All of them only read; the state is the record's, with a history of the *)
(* submissions.  A threshold is a fraction.                                *)
(***************************************************************************)
EXTENDS EvidenceAccount, SequencesExt

CONSTANTS
    Floors,     \* thresholds, min_trust
    Ceilings    \* max_uncertainty

Fractions == {f \in Nat \X Nat : f[1] <= f[2] /\ f[2] > 0}

ASSUME ThresholdsAreFractions == Floors \subseteq Fractions /\ Ceilings \subseteq Fractions

VARIABLE
    said    \* history: the submissions, in the order in which they were made

assessmentVars == <<vars, said>>

AtLeast(p, q) == p[1] * q[2] >= q[1] * p[2]

-----------------------------------------------------------------------------
(* Submission e as it arrives: whether it is evidence and nothing else, and
   whether apply_decay has swept the record at this time. *)
Entry(e, op, isPlain) ==
    [at |-> clock, evidence |-> e, opinion |-> op, plain |-> isPlain,
     swept |-> record.updated = clock \/ record.count = 0]

Say(e) ==
    Submit(e) /\ said' = Append(said, Entry(e, FromEvidence(e), TRUE))

SayDiscounted(authority, e) ==
    /\ SubmitDiscounted(authority, e)
    /\ said' = Append(said, Entry(e, Discount(authority, FromEvidence(e)), FALSE))

AssessmentInit == Init /\ said = << >>

AssessmentNext ==
    \/ \E e \in Evidence : Say(e)
    \/ \E e \in Evidence, authority \in Authorities : SayDiscounted(authority, e)
    \/ (\E now \in 0..clock : ApplyDecay(now)) /\ UNCHANGED said
    \/ (Tick \/ Rest) /\ UNCHANGED said

AssessmentSpec == AssessmentInit /\ [][AssessmentNext]_assessmentVars

-----------------------------------------------------------------------------
(* Mutant: the scalar projection alone decides. *)
VerdictIgnoringCeiling(o, floor, ceiling) ==
    IF AtLeast(Trustworthiness(o), floor) THEN "allow" ELSE "trust_below_min_trust"

(* ThresholdPolicy.evaluate and is_trusted: the trust floor first, then the
   ceiling of uncertainty.  A policy without ceiling is one with ceiling 1. *)
Verdict(o, floor, ceiling) ==
    IF ~AtLeast(Trustworthiness(o), floor) THEN "trust_below_min_trust"
    ELSE IF o.u * ceiling[2] > ceiling[1] * Weight(o) THEN "uncertainty_above_max_uncertainty"
    ELSE "allow"

Allowed(o, floor, ceiling) == Verdict(o, floor, ceiling) = "allow"

(* generate_trust_timeline, and the projections of explain_trust: the opinion
   after so many ticks, counted from the last update of the record. *)
Timeline(o, duration) == [elapsed \in 0..duration |-> Decay(o, Growth(elapsed))]

(* Mutant: the denominator is base_rate * u. *)
EvidenceNeededOfDoubt(o, e, floor) ==
    LET t == Trustworthiness(o) IN
    <<(floor[1] * t[2] - t[1] * floor[2]) * (e.positive + e.negative + PriorWeight),
      floor[2] * o.u>>

(* evidence_needed of explain_trust, for a record with the totals e that is
   below the threshold: margin * (totals + W) / (1 - base_rate * u). *)
EvidenceNeeded(o, e, floor) ==
    LET t == Trustworthiness(o) IN
    <<(floor[1] * t[2] - t[1] * floor[2]) * (e.positive + e.negative + PriorWeight),
      floor[2] * (t[2] - o.u)>>

-----------------------------------------------------------------------------
(* A ScenarioCase: pieces of evidence, in any order, and the times at which a
   decision is expected. *)
Events(evidence, expectations) ==
    {[at |-> evidence[i].at, kind |-> 0, index |-> i] : i \in DOMAIN evidence}
        \cup {[at |-> t, kind |-> 1, index |-> t] : t \in expectations}

(* Mutant: the evidence is taken in the order in which it is declared. *)
BeforeAsDeclared(x, y) ==
    \/ x.kind < y.kind
    \/ x.kind = y.kind /\ x.index < y.index

(* Sorted by time; evidence comes before an expectation of the same time,
   and evidence of one time in the order in which it is declared. *)
Before(x, y) ==
    \/ x.at < y.at
    \/ x.at = y.at /\ x.kind < y.kind
    \/ x.at = y.at /\ x.kind = y.kind /\ x.index < y.index

InOrder(events) ==
    [k \in 1..Cardinality(events) |->
        CHOOSE x \in events : Cardinality({y \in events : Before(y, x)}) = k - 1]

(* _advance_time. *)
AdvanceTime(o, elapsed) == IF elapsed <= 0 THEN o ELSE Decay(o, Growth(elapsed))

(* evaluate_scenario: the final opinion. *)
Replay(evidence, expectations) ==
    LET events == InOrder(Events(evidence, expectations))
        upTo[k \in 0..Len(events)] ==
            IF k = 0 THEN [opinion |-> Vacuous, last |-> 0]
            ELSE LET before  == upTo[k - 1]
                     x       == events[k]
                     decayed == AdvanceTime(before.opinion, x.at - before.last)
                 IN  [opinion |-> IF x.kind = 0
                                  THEN Fuse(decayed, FromEvidence(evidence[x.index].evidence))
                                  ELSE decayed,
                      last    |-> x.at]
    IN  upTo[Len(events)].opinion

-----------------------------------------------------------------------------
(* The opinions that have been fused into the record. *)
Heard == [i \in DOMAIN said |-> said[i].opinion]

(* s with elements i and i + 1 exchanged. *)
Swapped(s, i) == [s EXCEPT ![i] = s[i + 1], ![i + 1] = s[i]]

(* Cumulative fusion does not depend on the order in which concurrent
   submissions got the lock: a fold over any other order gives the same
   (fusion.py:19-75).  Exchanging neighbours generates all orders, and every
   order is reached. *)
FusionIgnoresOrder ==
    \A i \in 1..(Len(Heard) - 1) : Same(FuseAll(Heard), FuseAll(Swapped(Heard, i)))

(* Averaging counts no dependent observation twice: a list of referrals in
   which every authority appears once more averages to the same opinion, and
   an average of two is the binary one (fusion.py:78-145). *)
AveragingCountsNobodyTwice ==
    /\ Heard # << >> => Same(AverageAll(Heard \o Heard), AverageAll(Heard))
    /\ Len(Heard) = 2 => Same(AverageAll(Heard), Average(Heard[1], Heard[2]))

(* The base rate of two fused opinions lies between theirs, so that the fused
   opinion is a legal one, also after decay: normalize_opinion does not clamp
   it (fusion.py:51-65, normalize.py:23-51). *)
BaseRateStaysBetween ==
    \A i \in DOMAIN Heard :
        \A p \in {<<1, 5>>, <<1, 2>>, <<4, 5>>}, q \in {<<1, 5>>, <<1, 2>>, <<4, 5>>} :
            AtLeast(q, p) =>
                LET base == FusedBase(record.opinion, p, Heard[i], q)
                IN  base[2] > 0 /\ AtLeast(base, p) /\ AtLeast(q, base)

(* The evaluation harness and the manager agree, as long as no sweep was late:
   when the record was swept before each submission, nothing was discounted and
   no sweep moved updated_at back, the replay of the same evidence, declared in
   either order and with a decision expected at every tick, ends with the
   opinion that a sweep would leave now, and so with the same verdict at every
   threshold (runner.py:88-167, trust_manager.py:811-834).  A submission that
   forgets to stamp updated_at, or a tie sorted the wrong way, separates the
   two; so does a late sweep, which the harness does not have. *)
ReplayAgrees ==
    taken = 0 /\ (\A i \in DOMAIN said : said[i].plain /\ said[i].swept) =>
        \A declared \in {said, Reverse(said)} :
            Same(Replay(declared, 0..clock),
                 AdvanceTime(record.opinion, clock - record.updated))

(* Silence never admits: an agent that was refused after the last submission
   is still refused, whatever sweeps there were, and so at every point of its
   timeline, if the floor is not below the base rate.  (Below it decay does
   raise the trust of a distrusted agent over the floor.)
   policy.py:134-188, decay.py:9-25, timeline.py:144-193. *)
SilenceNeverAdmits ==
    \A floor \in Floors, ceiling \in Ceilings :
        AtLeast(floor, <<1, 2>>) /\ ~Allowed(heard.opinion, floor, ceiling) =>
            \A k \in 0..MaxClock :
                ~Allowed(Timeline(record.opinion, MaxClock)[k], floor, ceiling)

(* An agent is only allowed on counted evidence: whoever passes floor t and
   ceiling x has at least W(1 - x)/x pieces of evidence in its totals, and at
   least W(t/x - 1/2) of them in its favour, whatever authorities said and
   however often its opinion decayed (policy.py:134-188, trust_manager.py:711-773). *)
AllowedMeansEvidence ==
    \A floor \in Floors, ceiling \in Ceilings :
        Allowed(record.opinion, floor, ceiling) =>
            /\ PriorWeight * (ceiling[2] - ceiling[1])
                   <= (record.positive + record.negative) * ceiling[1]
            /\ PriorWeight * (2 * floor[1] * ceiling[2] - floor[2] * ceiling[1])
                   <= 2 * record.positive * floor[2] * ceiling[1]

(* explain_trust never asks for more than is needed: as long as nothing was
   discounted or has decayed, less positive evidence than its estimate leaves
   the agent blocked (trust_manager.py:641-660). *)
NeedIsNeverOverstated ==
    \A floor \in Floors :
        plain /\ ~Allowed(record.opinion, floor, <<1, 1>>) =>
            LET needed == EvidenceNeeded(record.opinion, record, floor) IN
            \A n \in 0..(MaxCount * MaxCount) :
                n * needed[2] < needed[1] =>
                    LET more == FromEvidence([positive |-> n, negative |-> 0])
                    IN  ~Allowed(Fuse(record.opinion, more), floor, <<1, 1>>)
=============================================================================

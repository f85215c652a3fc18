-------------------------- MODULE EvidenceAccount --------------------------
(***************************************************************************)
(* One record as evidence, discounted evidence and decay change it, in the *)
(* exact arithmetic of module Opinions.                                    *)
(*                                                                         *)
(* A record keeps the trust it derived from the evidence twice: as an      *)
(* opinion, and as the totals positive_total and negative_total            *)
(* (core/trust_record.py:14-17).  Submissions update both, decay only the  *)
(* opinion.  TrustManager says when the steps happen; this module says     *)
(* what they compute.                                                      *)
(***************************************************************************)
EXTENDS Opinions

CONSTANTS
    Evidence,       \* what may be submitted
    Authorities,    \* opinions the manager may have of an observing authority
    Growth(_),      \* 1 / decay_factor after so many ticks
    MaxCount,       \* bound: submissions
    MaxClock,       \* bound: ticks of time.time()
    MaxTaken        \* bound: ticks that late sweeps take back from updated_at

ASSUME EvidenceIsCounted == Evidence \subseteq [positive: Nat, negative: Nat]

ASSUME AuthoritiesAreOpinions == Authorities \subseteq Opinions

ASSUME BoundsAreNat == MaxCount \in Nat /\ MaxClock \in Nat /\ MaxTaken \in Nat

(* A tick that was taken back is decayed once more. *)
MaxDecay == MaxClock + MaxTaken

(* Decay is exponential: the factors of consecutive intervals multiply. *)
ASSUME GrowthIsExponential ==
    /\ \A n \in 0..MaxDecay : Growth(n) \in Nat \ {0}
    /\ Growth(0) = 1
    /\ \A m, n \in 0..MaxDecay : m + n <= MaxDecay => Growth(m + n) = Growth(m) * Growth(n)

VARIABLES
    clock,
    record,
    plain,      \* history: nothing was discounted, nothing has decayed
    taken,      \* history: the ticks that late sweeps took back from updated_at
    heard       \* history: the opinion after the last submission, its time,
                \*   and what had been taken by then

vars == <<clock, record, plain, taken, heard>>

(* A record changed by op, with e counted, at this time. *)
Absorb(op, e) ==
    /\ record.count < MaxCount
    /\ record' = [opinion  |-> Fuse(record.opinion, op),
                  positive |-> record.positive + e.positive,
                  negative |-> record.negative + e.negative,
                  count    |-> record.count + 1,
                  updated  |-> clock]
    /\ heard' = [opinion |-> record'.opinion, at |-> clock, taken |-> taken]
    /\ UNCHANGED <<clock, taken>>

(* submit_evidence. *)
Submit(e) == Absorb(FromEvidence(e), e) /\ UNCHANGED plain

(* DistributedAuthority.observe, then submit_discounted_opinion. *)
SubmitDiscounted(authority, e) ==
    Absorb(Discount(authority, FromEvidence(e)), e) /\ plain' = FALSE

(* time_decay: time that has not passed decays nothing. *)
TimeDecay(o, elapsed) == IF elapsed <= 0 THEN o ELSE Decay(o, Growth(elapsed))

(* A sweep that began at this time decays the record.  The loop may reach the
   record much later, when it has been updated since: then updated_at goes back
   to the beginning of the sweep. *)
Sweep(now, stamp) ==
    /\ taken' = taken + (IF now < record.updated THEN record.updated - now ELSE 0)
    /\ taken' <= MaxTaken
    /\ record' = [record EXCEPT !.opinion = TimeDecay(@, now - record.updated),
                                !.updated = stamp]
    /\ plain' = (plain /\ now <= record.updated)
    /\ UNCHANGED <<clock, heard>>

(* Mutant: updated_at is not moved, the same time is decayed again. *)
ApplyDecayAgain(now) == Sweep(now, record.updated)

(* apply_decay, for one record. *)
ApplyDecay(now) == Sweep(now, now)

Tick == clock < MaxClock /\ clock' = clock + 1 /\ UNCHANGED <<record, plain, taken, heard>>

(* The bounds are reached. *)
Rest == record.count = MaxCount /\ clock = MaxClock /\ UNCHANGED vars

Init ==
    /\ clock = 0
    /\ record = [opinion |-> Vacuous, positive |-> 0, negative |-> 0, count |-> 0,
                 updated |-> 0]
    /\ plain = TRUE
    /\ taken = 0
    /\ heard = [opinion |-> Vacuous, at |-> 0, taken |-> 0]

Next ==
    \/ \E e \in Evidence : Submit(e)
    \/ \E e \in Evidence, authority \in Authorities : SubmitDiscounted(authority, e)
    \/ \E now \in 0..clock : ApplyDecay(now)
    \/ Tick
    \/ Rest

Spec == Init /\ [][Next]_vars

-----------------------------------------------------------------------------
TypeOK ==
    /\ clock \in 0..MaxClock
    /\ record \in [opinion: Opinions, positive: Nat, negative: Nat, count: 0..MaxCount,
                   updated: 0..MaxClock]
    /\ plain \in BOOLEAN
    /\ taken \in 0..MaxTaken
    /\ heard \in [opinion: Opinions, at: 0..MaxClock, taken: 0..MaxTaken]

(* The trust of a record is never more, for or against the agent, than the
   evidence it has counted supports, whatever was discounted and however often
   it decayed: opinion_to_evidence(record.opinion) is at most
   (positive_total, negative_total). *)
TrustWithinEvidence ==
    LET o == record.opinion IN
    /\ ~Dogmatic(o)
    /\ PriorWeight * o.b <= record.positive * o.u
    /\ PriorWeight * o.d <= record.negative * o.u

(* Without discount and decay the two accounts agree exactly: fusing the
   opinions of many pieces of evidence is the opinion of their sum. *)
OpinionIsEvidenceSum ==
    plain => IsEvidenceOf(record.opinion, [positive |-> record.positive,
                                           negative |-> record.negative])

(* It does not matter how often apply_decay sweeps, nor when its loop reaches
   the record: after any number of sweeps the opinion is the one of the last
   submission, decayed once by the time in between, plus exactly the ticks that
   late sweeps have since taken back from updated_at.  Those are decayed a
   second time: apply_decay stamps a time it read before it waited for a lock
   (trust_manager.py:822, 833).  No sweep loses time, and no sweep that finds
   the record no younger than itself decays anything twice. *)
DecayIsScheduleFree ==
    LET again == taken - heard.taken IN
    /\ heard.at <= record.updated + again
    /\ record.opinion = Decay(heard.opinion, Growth(record.updated - heard.at + again))
=============================================================================

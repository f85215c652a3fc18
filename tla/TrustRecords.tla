---------------------------- MODULE TrustRecords ----------------------------
(***************************************************************************)
(* The records TrustManager keeps (core/trust_record.py) and, for each of  *)
(* its calls, the condition under which the call changes a record and the  *)
(* record it leaves (the straight-line code between `store.get` and        *)
(* `store.put` of each method of manager/trust_manager.py).                *)
(*                                                                         *)
(* Opinions are a parameter.  The manager takes its fusion and discount    *)
(* functions from its constructor (trust_manager.py:86-87), so nothing     *)
(* here may depend on which algebra is plugged in; module Opinions is the  *)
(* one the code uses by default.                                           *)
(***************************************************************************)
EXTENDS Integers

CONSTANTS
    Agents,             \* agent and authority ids
    NoRecord,           \* what store.get returns for an unknown id (None)
    Opinion,            \* the opinions
    Vacuous,            \* Opinion.vacuous
    DogmaticTrust,      \* Opinion.dogmatic_trust
    Evidence,           \* pairs of positive and negative weight
    EvidenceOpinion(_), \* evidence_to_opinion
    Fuse(_, _),         \* fusion_fn
    Discount(_, _),     \* discount_fn
    Merge(_),           \* multi_source_averaging_fusion of the discounted pairs
    Decay(_, _),        \* time_decay(opinion, elapsed) for the configured half-life
    Trusted(_),         \* trustworthiness >= config.trust_threshold
    Referrals,          \* argument lists of merge_authority_opinions
    NoReferral,         \* the empty list among them
    MaxAge              \* config.max_stale_age_seconds, in ticks

Record == [opinion: Opinion, count: Nat, positive: Nat, negative: Nat,
           updated: Nat, authority: BOOLEAN]

ASSUME OpinionsClosed ==
    /\ Vacuous \in Opinion
    /\ DogmaticTrust \in Opinion
    /\ Evidence \subseteq [positive: Nat, negative: Nat]
    /\ NoReferral \in Referrals
    /\ \A e \in Evidence : EvidenceOpinion(e) \in Opinion
    /\ \A p, q \in Opinion : Fuse(p, q) \in Opinion /\ Discount(p, q) \in Opinion
    /\ \A ref \in Referrals \ {NoReferral} : Merge(ref) \in Opinion

ASSUME NoRecordIsNone == NoRecord \notin Record

ASSUME MaxAgeIsNat == MaxAge \in Nat

-----------------------------------------------------------------------------
(* The calls, by method name, with the arguments that matter.              *)

AgentCall == [op: {"deregister_agent", "deregister_authority"}, agent: Agents]

OpinionCall == [op: {"register_agent", "register_authority",
                     "set_authority_trust", "reseed_opinion"},
                agent: Agents, opinion: Opinion]

ResetCall == [op: {"reset_agent"}, agent: Agents, opinion: Opinion, clear: BOOLEAN]

EvidenceCall == [op: {"submit_evidence", "reseed_evidence"},
                 agent: Agents, evidence: Evidence]

DiscountedCall == [op: {"submit_discounted_opinion"}, agent: Agents,
                   opinion: Opinion, evidence: Evidence]

ObserveCall == [op: {"observe"}, agent: Agents, by: Agents, evidence: Evidence]

MergeCall == [op: {"merge_authority_opinions"}, agent: Agents, referral: Referrals]

(* Calls that visit every stored id; reset_agents also carries arguments. *)
SweepCall == [op: {"apply_decay", "evict_stale_agents", "export_snapshot"}]
             \cup [op: {"reset_agents"}, opinion: Opinion, clear: BOOLEAN]

(* A snapshot holds a record for some of the ids. *)
Snapshot == [Agents -> Record \cup {NoRecord}]

ImportCall == [op: {"import_snapshot"}, replace: BOOLEAN, snapshot: Snapshot]

Call == AgentCall \cup OpinionCall \cup ResetCall \cup EvidenceCall
        \cup DiscountedCall \cup ObserveCall \cup MergeCall \cup SweepCall
        \cup ImportCall

-----------------------------------------------------------------------------
(* TrustRecord(agent_id, opinion): zero counters, stamped with the time. *)
NewRecord(opinion, flag, ts) ==
    [opinion |-> opinion, count |-> 0, positive |-> 0, negative |-> 0,
     updated |-> ts, authority |-> flag]

(* The auto-registration of submit_evidence and its siblings. *)
OrNew(rec, ts) == IF rec = NoRecord THEN NewRecord(Vacuous, FALSE, ts) ELSE rec

(* Mutant: the negative weight is subtracted. *)
AbsorbSubtracting(rec, op, e, ts) ==
    LET r == OrNew(rec, ts) IN
    [r EXCEPT !.opinion  = Fuse(r.opinion, op),
              !.count    = @ + 1,
              !.positive = @ + e.positive,
              !.negative = @ - e.negative,
              !.updated  = ts]

(* One unit of evidence e, seen as opinion op, absorbed into the record. *)
Absorb(rec, op, e, ts) ==
    LET r == OrNew(rec, ts) IN
    [r EXCEPT !.opinion  = Fuse(r.opinion, op),
              !.count    = @ + 1,
              !.positive = @ + e.positive,
              !.negative = @ + e.negative,
              !.updated  = ts]

MergeReferral(rec, ref, ts) ==
    LET r == OrNew(rec, ts) IN
    [r EXCEPT !.opinion = Fuse(r.opinion, Merge(ref)), !.updated = ts]

(* elapsed = now - updated_at, which time_decay clamps at 0. *)
DecayTo(rec, now) ==
    LET elapsed == IF now > rec.updated THEN now - rec.updated ELSE 0 IN
    [rec EXCEPT !.opinion = Decay(rec.opinion, elapsed), !.updated = now]

Reset(rec, opinion, clear, ts) ==
    [rec EXCEPT !.opinion  = opinion,
                !.count    = IF clear THEN 0 ELSE @,
                !.positive = IF clear THEN 0 ELSE @,
                !.negative = IF clear THEN 0 ELSE @,
                !.updated  = ts]

(* reseed creates the record when there is none and keeps its metadata. *)
Reseed(rec, opinion, n, e, ts) ==
    [OrNew(rec, ts) EXCEPT !.opinion  = opinion, !.count    = n,
                           !.positive = e.positive, !.negative = e.negative,
                           !.updated  = ts]

NoEvidence == [positive |-> 0, negative |-> 0]

IsAuthority(rec) == rec # NoRecord /\ rec.authority

-----------------------------------------------------------------------------
(* Does call c, visiting id a whose record is rec, change the record?  The
   early returns and the errors raised before the write.                   *)
Admits(c, a, rec, ts) ==
    CASE c.op = "register_agent"     -> rec = NoRecord
      [] c.op = "register_authority" -> ~IsAuthority(rec)
      [] c.op = "merge_authority_opinions" -> c.referral # NoReferral
      [] c.op \in {"set_authority_trust", "deregister_authority"} -> IsAuthority(rec)
      [] c.op \in {"apply_decay", "reset_agent", "reset_agents"} -> rec # NoRecord
      [] c.op = "evict_stale_agents" -> rec # NoRecord /\ ts > rec.updated + MaxAge
      [] c.op = "load" -> c.snapshot[a] # NoRecord
      [] c.op = "export_snapshot"    -> FALSE
      [] OTHER -> TRUE

(* The record call c leaves under id a; NoRecord when it deletes it.        *)
Outcome(c, a, rec, ts) ==
    CASE c.op = "register_agent" -> NewRecord(c.opinion, FALSE, ts)
      [] c.op = "register_authority" ->
            IF rec = NoRecord THEN NewRecord(c.opinion, TRUE, ts)
                              ELSE [rec EXCEPT !.authority = TRUE]
      [] c.op = "submit_evidence" ->
            Absorb(rec, EvidenceOpinion(c.evidence), c.evidence, ts)
      [] c.op = "submit_discounted_opinion" -> Absorb(rec, c.opinion, c.evidence, ts)
      [] c.op = "merge_authority_opinions" -> MergeReferral(rec, c.referral, ts)
      [] c.op = "apply_decay" -> DecayTo(rec, ts)
      [] c.op = "set_authority_trust" -> Reset(rec, c.opinion, FALSE, ts)
      [] c.op \in {"reset_agent", "reset_agents"} -> Reset(rec, c.opinion, c.clear, ts)
      [] c.op = "reseed_opinion" -> Reseed(rec, c.opinion, 0, NoEvidence, ts)
      [] c.op = "reseed_evidence" ->
            Reseed(rec, EvidenceOpinion(c.evidence), 1, c.evidence, ts)
      [] c.op = "load" -> c.snapshot[a]
      [] OTHER -> NoRecord
=============================================================================

--------------------------- MODULE MCTrustManager ---------------------------
(***************************************************************************)
(* Small instances of TrustManager.                                        *)
(*                                                                         *)
(* Opinions are counts of positive and negative evidence, up to Cap:       *)
(* cumulative fusion of opinions made from evidence adds the evidence (see *)
(* module EvidenceAccount), decay with one half-life per tick halves it    *)
(* (operators/decay.py:28-39).  <<Cap, 0>> is dogmatic trust, which fusion *)
(* with evidence does not move.  No instance fuses enough to reach Cap by  *)
(* counting.                                                               *)
(***************************************************************************)
EXTENDS TrustManager

CONSTANTS a, v          \* an agent and an authority

Cap == 5

MCOpinion == (0..Cap) \X (0..Cap)

MCVacuous == <<0, 0>>

MCDogmatic == <<Cap, 0>>

Least(m, n) == IF m < n THEN m ELSE n

MCEvidenceOpinion(e) == <<Least(e.positive, Cap - 1), Least(e.negative, Cap - 1)>>

MCFuse(p, q) ==
    IF p = MCDogmatic THEN p
    ELSE IF q = MCDogmatic THEN q
    ELSE <<Least(p[1] + q[1], Cap - 1), Least(p[2] + q[2], Cap - 1)>>

Halve(p) == <<p[1] \div 2, p[2] \div 2>>

MCDecay(p, n) == IF n = 0 THEN p ELSE IF n = 1 THEN Halve(p) ELSE Halve(Halve(p))

(* A dogmatically trusted authority is taken at its word, others at half. *)
MCDiscount(p, q) == IF p = MCDogmatic THEN q ELSE Halve(q)

(* With a threshold of 0.6: (r + 1) / (r + s + 2) >= 0.6. *)
MCTrusted(p) == 2 * p[1] >= 3 * p[2] + 1

(* One pair of opinions, of the authority and of what it says. *)
MCReferral == <<MCDogmatic, <<2, 0>> >>

MCNoReferral == << >>

MCReferrals == {MCNoReferral, MCReferral}

MCMerge(ref) == MCDiscount(ref[1], ref[2])

Good == [positive |-> 1, negative |-> 0]

Bad == [positive |-> 0, negative |-> 1]

MCEvidence == {Good, Bad}

-----------------------------------------------------------------------------
(* The calls of each instance. *)

Register(id, p) == [op |-> "register_agent", agent |-> id, opinion |-> p]

RegisterAuthority(id) ==
    [op |-> "register_authority", agent |-> id, opinion |-> MCDogmatic]

Submit(id, e) == [op |-> "submit_evidence", agent |-> id, evidence |-> e]

Observe(id, by, e) == [op |-> "observe", agent |-> id, by |-> by, evidence |-> e]

MergeOpinions(id, ref) ==
    [op |-> "merge_authority_opinions", agent |-> id, referral |-> ref]

Sweep(op) == [op |-> op]

ById(op, id) == [op |-> op, agent |-> id]

WithOpinion(op, id, p) == [op |-> op, agent |-> id, opinion |-> p]

ResetOf(id) == [op |-> "reset_agent", agent |-> id, opinion |-> MCVacuous, clear |-> TRUE]

ResetAll == [op |-> "reset_agents", opinion |-> MCVacuous, clear |-> FALSE]

ReseedEvidence(id) == [op |-> "reseed_evidence", agent |-> id, evidence |-> Bad]

OldRecord == [opinion |-> <<0, 1>>, count |-> 1, positive |-> 0, negative |-> 1,
              updated |-> 0, authority |-> FALSE]

Import(ids, replaces) ==
    [op |-> "import_snapshot", replace |-> replaces,
     snapshot |-> [i \in Agents |-> IF i \in ids THEN OldRecord ELSE NoRecord]]

(* Calls that may go wrong anywhere, with the sweeps and an import. *)
ManagerRequests ==
    {RegisterAuthority(v), Submit(a, Bad), Observe(a, v, Bad),
     Sweep("apply_decay"), Sweep("evict_stale_agents"), Import({a}, TRUE)}

(* Calls that owe an entry or an event to somebody. *)
BookkeepingRequests ==
    {Register(a, <<1, 0>>), Submit(a, Good), Submit(a, Bad), Observe(a, v, Good),
     Sweep("apply_decay"),
     MergeOpinions(a, << >>), MergeOpinions(a, MCReferral),
     RegisterAuthority(a), RegisterAuthority(v),
     WithOpinion("set_authority_trust", v, <<1, 0>>), ById("deregister_authority", v),
     ById("deregister_agent", a), ResetOf(a), ResetAll, ReseedEvidence(a),
     WithOpinion("reseed_opinion", a, <<1, 1>>),
     Sweep("export_snapshot"), Import({a}, FALSE)}

DeregisterRequests == {Submit(a, Good), ById("deregister_agent", a)}
=============================================================================

--------------------------- MODULE MCExplainTrust ---------------------------
(* A small instance of ExplainTrust: evidence speaks for and against the
   agent, in different amounts. *)
EXTENDS ExplainTrust, TLC

MCEvidence == {[positive |-> 2, negative |-> 1]}

(* Two submissions in favour, and one against. *)
MCSnapshots == {[opinion |-> [b |-> 2, d |-> 1, u |-> 2], count |-> 3]}

(* No definition tells one source from another. *)
SourcesAlike == Permutations(Sources)
=============================================================================

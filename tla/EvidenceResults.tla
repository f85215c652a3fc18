-------------------------- MODULE EvidenceResults --------------------------
(***************************************************************************)
(* What a source of evidence, a rule or a callback, comes back with.       *)
(***************************************************************************)
CONSTANTS
    None,       \* Python's None: it says nothing
    Error       \* an exception

(* EvidenceResult: amounts of evidence for and against the agent. *)
Result(p, n) == [positive |-> p, negative |-> n]
=============================================================================

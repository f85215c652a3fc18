---------------------------- MODULE MCAssessment ----------------------------
(* A small instance of Assessment: one half-life per tick. *)
EXTENDS Assessment

MCEvidence == {[positive |-> 1, negative |-> 0], [positive |-> 0, negative |-> 2],
               [positive |-> 1, negative |-> 1]}

(* A fully trusted authority, and one of which nothing is known. *)
MCAuthorities == {DogmaticTrust, Vacuous}

MCGrowth(n) == 2^n

MCFloors == {<<1, 4>>, <<1, 2>>, <<3, 5>>, <<4, 5>>}

MCCeilings == {<<1, 2>>, <<3, 4>>, <<1, 1>>}
=============================================================================

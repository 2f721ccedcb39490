------------------------ MODULE MCOutcomeEvaluation ------------------------
(* Values for the constants of OutcomeEvaluation.                          *)
EXTENDS OutcomeEvaluation, TLC

CONSTANTS w1, w2, w3, r1, t1, t5, o1, o2, host, host2, api

\* w1 and w2 are worker processes of one host, w3 of another.
MCOwner == w1 :> host @@ w2 :> host @@ w3 :> host2 @@ r1 :> api

Symmetry == Permutations({w1, w2}) \cup Permutations(Windows) \cup Permutations(Observations)

=============================================================================

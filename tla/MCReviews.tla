----------------------------- MODULE MCReviews -----------------------------
(* Two decisions that each have a bundle and an outcome, both good.        *)
EXTENDS DecisionRecords, TLC

CONSTANTS d1, d2, o1, o2

OutcomeOfDef == (o1 :> d1) @@ (o2 :> d2)

ExcessDef == (o1 :> 2) @@ (o2 :> 1)

=============================================================================

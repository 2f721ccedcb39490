-------------------------- MODULE MCFormalDecision --------------------------
(* Small instances of FormalDecision.                                      *)
EXTENDS FormalDecision

CONSTANTS c1, c2, k1, k2, p1, p2, full, partial

Calc(action, veto, missing, rejected, weight) ==
    [action |-> action, riskVeto |-> veto, missing |-> missing,
     rejected |-> rejected, weight |-> weight, late |-> FALSE]

\* A purchase that is approved, also a day after as_of, one that the risk
\* specialist vetoes, one the policy rejects, one that lacks portfolio context,
\* one of nothing, and one to hold.
SomeCalculations ==
    {Calc("BUY", FALSE, FALSE, FALSE, 1), Calc("BUY", TRUE, FALSE, FALSE, 1),
     Calc("BUY", FALSE, FALSE, TRUE, 1), Calc("BUY", FALSE, TRUE, FALSE, 1),
     Calc("BUY", FALSE, FALSE, FALSE, 0), Calc("HOLD", FALSE, FALSE, FALSE, 0),
     [Calc("BUY", FALSE, FALSE, FALSE, 1) EXCEPT !.late = TRUE]}

=============================================================================

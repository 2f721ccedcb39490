------------------------------- MODULE Totals -------------------------------
(* Sums that the program forms in more than one place.                     *)
EXTENDS Integers, FiniteSets, FiniteSetsExt

\* sum(...): of the amounts f of the members of S.
Total(f, S) == MapThenSumSet(LAMBDA x : f[x], S)
=============================================================================

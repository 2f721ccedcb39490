------------------------ MODULE MCKnowledgeConclusion ------------------------
(* Values for the constants of KnowledgeConclusion.                        *)
EXTENDS KnowledgeConclusion, TLC

CONSTANTS w1, w2, q1, q2, b1, b2, bx, good, bad, t1, t2, s1, s2

\* q2 asks for another snapshot; bx is a bundle of the wrong snapshot.
MCSnapshotOf == q1 :> s1 @@ q2 :> s2 @@ b1 :> s1 @@ b2 :> s1 @@ bx :> s2

\* Requests, bundles, workers and instants are interchangeable names.
WorkerSymmetry == Permutations(Workers)

=============================================================================

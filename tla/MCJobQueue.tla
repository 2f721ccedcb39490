----------------------------- MODULE MCJobQueue -----------------------------
(* Values for the constants of JobQueue.                                   *)
EXTENDS JobQueue, TLC

CONSTANTS w1, w2, op, j1, j2, c1, c2, k1, k2, host, console

\* w1 and w2 are worker processes of one host; op claims by job id.
MCWorkerId == w1 :> host @@ w2 :> host @@ op :> console

=============================================================================

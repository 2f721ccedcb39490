---------------------------- MODULE DurableResult ----------------------------
(***************************************************************************)
(* What a durable key promises its callers - the idempotency key of a      *)
(* knowledge conclusion, the snapshot of an outcome evaluation: one result *)
(* is chosen once, and only that result is ever delivered.                 *)
(***************************************************************************)
CONSTANTS Results, None

VARIABLES
    result,      \* the durable result, None until there is one
    delivered    \* results some caller was given

Init == result = None /\ delivered = {}

\* The result is chosen; the call that chose it may deliver it at once.
Choose(r) ==
    /\ result = None
    /\ result' = r
    /\ delivered' \in {delivered, delivered \cup {r}}

Deliver ==
    /\ result # None
    /\ delivered' = delivered \cup {result}
    /\ UNCHANGED result

Next == (\E r \in Results : Choose(r)) \/ Deliver

Spec == Init /\ [][Next]_<<result, delivered>>

=============================================================================

---------------------------- MODULE ModelGateway ----------------------------
(***************************************************************************)
(* ModelGateway.complete() and the circuit breakers its threads share, and *)
(* SubsystemHttpClient.request(), which uses the same breaker class.       *)
(*                                                                         *)
(* A call tries the routes in order.  Each route is guarded by the budget  *)
(* of the call's owner (ModelRequest.budget) and by the route's breaker;   *)
(* a schema-invalid response is asked for once more; a transient error is  *)
(* retried.  Money stands for the tokens and the cost a budget counts.     *)
(* left is the time until an open breaker may be tried again.              *)
(***************************************************************************)
EXTENDS Naturals, Sequences

CONSTANTS
    Callers,      \* threads that call complete(), each with its own budget
    Clients,      \* threads that call request() of one HTTP client
    Routes,       \* the routes in order
    Dependency,   \* the HTTP client's breaker
    Threshold,    \* failure_threshold
    Recovery,     \* recovery_seconds, in ticks
    MaxAttempts,  \* RetryPolicy.max_attempts
    Estimate,     \* what a request is estimated to cost
    Repair,       \* what the repair instruction adds to it
    Costs,        \* what a response can cost
    MaxCost       \* the budget

Breakers == {Routes[i] : i \in DOMAIN Routes} \cup {Dependency}

ASSUME GatewayAssumption ==
    /\ Threshold \in Nat \ {0} /\ Recovery \in Nat /\ MaxAttempts \in Nat \ {0}
    /\ Estimate \in Nat /\ Repair \in Nat /\ MaxCost \in Nat /\ Costs \subseteq Nat
    /\ Routes \in Seq(Breakers) /\ Routes # << >>
    /\ Callers \cap Clients = {}  \* a thread is in one of the two at a time

VARIABLES
    breaker,   \* the circuit breakers
    spent,     \* what each budget has recorded
    call       \* local state of each thread

gatewayVars == <<breaker, spent, call>>

Closed == [state |-> "CLOSED", failures |-> 0, left |-> 0]

\* before and billed are history: the budget when the call began, and what
\* the providers have billed for it.
NoCall == [pc |-> "idle", route |-> 1, tries |-> 0, structured |-> 1,
           cost |-> 0, before |-> 0, billed |-> 0]

GatewayInit ==
    /\ breaker = [b \in Breakers |-> Closed]
    /\ spent = [c \in Callers |-> 0]
    /\ call = [c \in Callers \cup Clients |-> NoCall]

Ended == {"idle", "ok", "failed", "budget"}

RouteOf(c) == IF c \in Clients THEN Dependency ELSE Routes[call[c].route]

-----------------------------------------------------------------------------
\* The breaker.
Allows(b) == b.state = "OPEN" => b.left = 0

\* allow(): an open breaker whose time is over lets calls through again.
Admitted(b) == IF b.state = "OPEN" THEN [b EXCEPT !.state = "HALF_OPEN"] ELSE b

Tripped(b) ==
    IF b.state = "HALF_OPEN" \/ b.failures + 1 >= Threshold
    THEN [state |-> "OPEN", failures |-> b.failures + 1, left |-> Recovery]
    ELSE [b EXCEPT !.failures = @ + 1]

\* failure().  The count has no upper bound in the code; above the threshold
\* it makes no difference.
AfterFailure(b) ==
    LET t == Tripped(b) IN
    [t EXCEPT !.failures = IF @ > Threshold THEN Threshold ELSE @]

\* Mutant: a rejection counts as one more failure.
Rejected_Counted(b) == AfterFailure(b)

\* An open breaker rejects without counting a failure.
Rejected(b) == b

Elapse ==
    /\ \E b \in Breakers : breaker[b].left > 0
    /\ breaker' = [b \in Breakers |->
           [breaker[b] EXCEPT !.left = IF @ > 0 THEN @ - 1 ELSE 0]]
    /\ UNCHANGED <<spent, call>>

-----------------------------------------------------------------------------
\* complete()
Complete(c) ==
    /\ call[c].pc \in Ended
    /\ call' = [call EXCEPT ![c] = [NoCall EXCEPT !.pc = "route", !.before = spent[c]]]
    /\ UNCHANGED <<breaker, spent>>

Affordable(c, amount) == spent[c] + amount <= MaxCost

Asks(c) == Estimate + (IF call[c].structured = 2 THEN Repair ELSE 0)

\* BudgetExceededError leaves complete() at once, whatever the breaker's state.
Unaffordable(c) ==
    /\ call[c].pc \in {"route", "attempt"}
    /\ ~Affordable(c, Asks(c))
    /\ call' = [call EXCEPT ![c].pc = "budget"]
    /\ UNCHANGED <<breaker, spent>>

BeforeCall(c) ==
    /\ call[c].pc = "route" /\ Affordable(c, Asks(c))
    /\ Allows(breaker[RouteOf(c)])
    /\ breaker' = [breaker EXCEPT ![RouteOf(c)] = Admitted(@)]
    /\ call' = [call EXCEPT ![c].pc = "attempt"]
    /\ UNCHANGED spent

NextRoute(c) ==
    IF call[c].route < Len(Routes)
    THEN [call[c] EXCEPT !.pc = "route", !.route = @ + 1, !.tries = 0, !.structured = 1]
    ELSE [call[c] EXCEPT !.pc = "failed", !.tries = 0, !.structured = 1]

CircuitOpen(c) ==
    /\ call[c].pc = "route" /\ Affordable(c, Asks(c))
    /\ ~Allows(breaker[RouteOf(c)])
    /\ breaker' = [breaker EXCEPT ![RouteOf(c)] = Rejected(@)]
    /\ call' = [call EXCEPT ![c] = NextRoute(c)]
    /\ UNCHANGED spent

\* The provider is called.
Invoke(c) ==
    /\ call[c].pc = "attempt" /\ Affordable(c, Asks(c))
    /\ call' = [call EXCEPT ![c].pc = "wait", ![c].tries = 1]
    /\ UNCHANGED <<breaker, spent>>

\* retry_call: a transient error, and attempts left.
Retry(c) ==
    /\ c \in Callers
    /\ call[c].pc = "wait" /\ call[c].tries < MaxAttempts
    /\ call' = [call EXCEPT ![c].tries = @ + 1]
    /\ UNCHANGED <<breaker, spent>>

\* The route fails: an error that is not retried, or no object in the answer.
RouteFails(c) ==
    /\ c \in Callers /\ call[c].pc = "wait"
    /\ breaker' = [breaker EXCEPT ![RouteOf(c)] = AfterFailure(@)]
    /\ call' = [call EXCEPT ![c] = NextRoute(c)]
    /\ UNCHANGED spent

\* A response that does not fit the budget raises before it is recorded.
ResponseOverBudget(c) ==
    /\ c \in Callers /\ call[c].pc = "wait"
    /\ \E cost \in Costs :
           /\ ~Affordable(c, cost)
           /\ call' = [call EXCEPT ![c].pc = "budget", ![c].billed = @ + cost]
    /\ UNCHANGED <<breaker, spent>>

\* Mutant: a schema-invalid response is not charged.
Charge_ValidOnly(c, cost, valid) == IF valid THEN cost ELSE 0

\* budget.charge: every response, schema-invalid ones too.
Charge(c, cost, valid) == cost

Respond(c) ==
    /\ c \in Callers /\ call[c].pc = "wait"
    /\ \E cost \in Costs, valid \in BOOLEAN :
        LET charged == Charge(c, cost, valid)
            charging == [call[c] EXCEPT !.cost = @ + charged, !.billed = @ + cost]
        IN  /\ Affordable(c, cost)
            /\ spent' = [spent EXCEPT ![c] = @ + charged]
            /\ \/ /\ valid
                  /\ breaker' = [breaker EXCEPT ![RouteOf(c)] = Closed]
                  /\ call' = [call EXCEPT ![c] = [charging EXCEPT !.pc = "ok"]]
               \/ /\ ~valid /\ call[c].structured = 1
                  /\ call' = [call EXCEPT ![c] =
                         [charging EXCEPT !.pc = "attempt", !.structured = 2]]
                  /\ UNCHANGED breaker
               \/ /\ ~valid /\ call[c].structured = 2
                  /\ breaker' = [breaker EXCEPT ![RouteOf(c)] = AfterFailure(@)]
                  /\ call' = [call EXCEPT ![c] =
                         [NextRoute(c) EXCEPT !.cost = charging.cost,
                                              !.billed = charging.billed]]

-----------------------------------------------------------------------------
\* SubsystemHttpClient.request()
Request(d) ==
    /\ call[d].pc \in Ended
    /\ IF Allows(breaker[Dependency])
       THEN /\ breaker' = [breaker EXCEPT ![Dependency] = Admitted(@)]
            /\ call' = [call EXCEPT ![d] = [NoCall EXCEPT !.pc = "wait", !.tries = 1]]
       ELSE /\ breaker' = [breaker EXCEPT ![Dependency] = Rejected(@)]
            /\ call' = [call EXCEPT ![d] = [NoCall EXCEPT !.pc = "failed"]]
    /\ UNCHANGED spent

\* A timeout, a network error or a transient status, and attempts left.
RequestAgain(d) ==
    /\ call[d].pc = "wait" /\ call[d].tries < MaxAttempts
    /\ call' = [call EXCEPT ![d].tries = @ + 1]
    /\ UNCHANGED <<breaker, spent>>

\* The last attempt failed, or the status, the JSON or the protocol is wrong.
RequestFails(d) ==
    /\ call[d].pc = "wait"
    /\ breaker' = [breaker EXCEPT ![Dependency] = AfterFailure(@)]
    /\ call' = [call EXCEPT ![d].pc = "failed"]
    /\ UNCHANGED spent

\* A stale body, a wrong contract or snapshot: the breaker is not told.
ContractViolated(d) ==
    /\ call[d].pc = "wait"
    /\ call' = [call EXCEPT ![d].pc = "failed"]
    /\ UNCHANGED <<breaker, spent>>

RequestSucceeds(d) ==
    /\ call[d].pc = "wait"
    /\ breaker' = [breaker EXCEPT ![Dependency] = Closed]
    /\ call' = [call EXCEPT ![d].pc = "ok"]
    /\ UNCHANGED spent

CompleteStep(c) ==
    \/ Complete(c) \/ Unaffordable(c) \/ BeforeCall(c) \/ CircuitOpen(c) \/ Invoke(c)
    \/ Retry(c) \/ RouteFails(c) \/ ResponseOverBudget(c) \/ Respond(c)

RequestStep(d) ==
    \/ Request(d) \/ RequestAgain(d) \/ RequestFails(d) \/ ContractViolated(d)
    \/ RequestSucceeds(d)

CompleteNext == Elapse \/ \E c \in Callers : CompleteStep(c)

RequestNext == Elapse \/ \E d \in Clients : RequestStep(d)

GatewayNext == CompleteNext \/ RequestNext

\* Time passes, and a call that was begun runs.
CompleteFairness ==
    WF_gatewayVars(Elapse) /\ \A c \in Callers : WF_gatewayVars(CompleteStep(c))

RequestFairness ==
    WF_gatewayVars(Elapse) /\ \A d \in Clients : WF_gatewayVars(RequestStep(d))

GatewaySpec == /\ GatewayInit
               /\ [][GatewayNext]_gatewayVars
               /\ CompleteFairness /\ RequestFairness

-----------------------------------------------------------------------------
\* A call that ends other than by its budget has recorded in the budget all that
\* the providers billed for it, repaired and fallback responses included, and an
\* answered call reports that sum (complete(): "so fallback cannot hide actual
\* spend").
SpendIsReported ==
    \A c \in Callers : call[c].pc \in {"ok", "failed"} =>
        /\ spent[c] = call[c].before + call[c].billed
        /\ call[c].cost = call[c].billed

\* Sustained traffic does not postpone the recovery of an open breaker: its time
\* runs out again and again, although callers keep being rejected and calls that
\* were admitted before still fail (complete(): "doing so would refresh opened_at
\* and postpone half-open recovery under sustained traffic").
BreakerRecovers ==
    \A b \in Breakers : []<>(breaker[b].state # "OPEN" \/ breaker[b].left = 0)

=============================================================================

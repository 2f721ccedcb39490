---------------------------- MODULE MCInProcess ----------------------------
(* Small instances of the objects that threads of a process share: the     *)
(* supervisor's budget, the circuit breakers of the model gateway and of   *)
(* an HTTP client, and the readiness cache.  They share no state with each *)
(* other, so each behaviour exercises one.                                 *)
EXTENDS AgentSupervisor, ModelGateway, Readiness, TLC

CONSTANTS market, research, portfolio, primary, fallback, http, quant

VARIABLE part   \* the object this behaviour is about

Amount(tools, tokens) == [tool_calls |-> tools, tokens |-> tokens]

\* Two specialists in parallel and one that waits for both.
DependsOnDef == (market :> {}) @@ (research :> {}) @@ (portfolio :> {market, research})

ResourcesDef == {"tool_calls", "tokens"}

LimitDef == Amount(3, 3)

ReservationDef ==
    (market :> Amount(1, 1)) @@ (research :> Amount(2, 1)) @@ (portfolio :> Amount(2, 1))

\* Less than was reserved, or more.
UsagesDef == {Amount(1, 0), Amount(2, 2)}

RoutesDef == <<primary, fallback>>

NamesDef == <<quant>>

vars == <<part, supervisorVars, gatewayVars, readinessVars>>

Init ==
    /\ part \in {"supervisor", "gateway", "client", "readiness"}
    /\ SupervisorInit /\ GatewayInit
    /\ ReadinessInit
    /\ part # "readiness" => setup = [fixture |-> TRUE, manifest |-> TRUE, probes |-> {}]

Next ==
    /\ UNCHANGED part
    /\ \/ /\ part = "supervisor"
          /\ SupervisorNext
          /\ UNCHANGED <<gatewayVars, readinessVars>>
       \/ /\ part = "gateway"
          /\ CompleteNext
          /\ UNCHANGED <<supervisorVars, readinessVars>>
       \/ /\ part = "client"
          /\ RequestNext
          /\ UNCHANGED <<supervisorVars, readinessVars>>
       \/ /\ part = "readiness"
          /\ ReadinessNext
          /\ UNCHANGED <<supervisorVars, gatewayVars>>

\* The fairness of the part at hand; the others do not move.
Fairness ==
    /\ part = "supervisor" => SupervisorFairness
    /\ part = "gateway" => CompleteFairness
    /\ part = "client" => RequestFairness

Spec == Init /\ [][Next]_vars /\ Fairness

\* A supervisor's run ends (only said of the behaviours about it).
RunsEnd == part = "supervisor" => SupervisorEnds

=============================================================================

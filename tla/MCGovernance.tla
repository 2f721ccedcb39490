---------------------------- MODULE MCGovernance ----------------------------
(* Small instances of the way from evidence to a decision and to trades:   *)
(* the formal calculation, the grounding of a knowledge conclusion, the    *)
(* replay of a decision, the portfolio plan, the backtest and its trading  *)
(* calendar.  They share no state with each other, so each behaviour       *)
(* exercises one.                                                          *)
EXTENDS FormalGovernance, MCGrounding, DecisionReplay, PortfolioPipeline, Backtest, TradingClock

CONSTANTS a, b

VARIABLE part   \* the component this behaviour is about

-----------------------------------------------------------------------------
(* Governance: a skill of every kind of evidence, one that asks for what   *)
(* the gateway cannot give, and one with risk events.                      *)

SkillsDef ==
    {<<"MARKET_SNAPSHOT", "TECHNICAL_SIGNAL", "PORTFOLIO_POSITION", "PORTFOLIO_RISK", "KNOWLEDGE_CLAIM">>,
     <<"MARKET_SNAPSHOT", "FACTOR_SCORE", "VALUATION_FACT">>,
     <<"MARKET_SNAPSHOT", "PORTFOLIO_RISK", "RISK_EVENT">>}

SubjectsDef == <<"symbol">>

Good(data) == [kind |-> "payload", quality |-> "VERIFIED", asOf |-> 3, available |-> 3, data |-> data]

\* Known only after the decision, and out of date.
Late(data) == [Good(data) EXCEPT !.available = 4]

Old(data) == [Good(data) EXCEPT !.asOf = 1, !.quality = "STALE"]

Fails(code) == [kind |-> code]

Positions == [gross : {3, 5}, net : {2, 4}, current : {0, 3}, drawdown : BOOLEAN, restricted : {FALSE}]

RepliesDef(r) ==
    CASE r.type = "MARKET_SNAPSHOT" -> {Good(None), Late(None), Old(None), Fails("DEPENDENCY_UNAVAILABLE")}
      [] r.type = "TECHNICAL_SIGNAL" ->
            {Good([st |-> FALSE, suspended |-> FALSE, liquid |-> TRUE]),
             Good([st |-> TRUE, suspended |-> None, liquid |-> TRUE]), Fails("CONTRACT_MISMATCH")}
      [] r.type = "PORTFOLIO_POSITION" -> {Good(p) : p \in Positions} \cup {Fails("STALE_DATA")}
      [] r.type = "PORTFOLIO_RISK" ->
            {Good([veto |-> FALSE]), Good([veto |-> TRUE]), Fails("DEPENDENCY_UNAVAILABLE")}
      [] OTHER -> {Good(None), Old(None), Late(None)}

ModelProposalsDef ==
    [action : {"BUY", "REDUCE", "HOLD"}, target : {None, 0, 2, 4}, delta : {None, -1, 2}, confidence : {0, 1}]

\* The analysis pipeline: a conflict that its owner decides and that may
\* carry a risk opinion, and a profile that caps, narrows or excludes.
Opinion(agent, veto) == [agent |-> agent, veto |-> veto, confidence |-> 1]

Conflicts ==
    [type : {"SIGNAL_CONFLICT", "RISK_CONFLICT"}, risk_veto : BOOLEAN,
     opinions : {{Opinion("factor", TRUE)}, {Opinion("factor", FALSE), Opinion("risk", FALSE)},
                 {Opinion("factor", FALSE), Opinion("risk", TRUE)}}]

Profiles ==
    {None} \cup [allowed : BOOLEAN, risk : {1}, appetite : {0, 1}, mismatch : BOOLEAN, cap : {2}]

AnalysesDef ==
    [proposal : [action : {"BUY", "HOLD"}, weight : {2, 4}, st : {FALSE}, suspended : {FALSE},
                 evidence : {TRUE}, confidence : {1}, factors : {TRUE}, liquid : {TRUE},
                 sector : BOOLEAN, theme : {TRUE}],
     context : [current : {0, 1, 3}, drawdown : BOOLEAN, restricted : {FALSE}, industry : {0, 2}, theme : {0, 2}],
     conflicts : {{}} \cup {{k} : k \in Conflicts}, risk : BOOLEAN, profile : Profiles]

-----------------------------------------------------------------------------
(* Replay: an envelope may hold either spelling of the policy, identities  *)
(* that are or are not the recorded ones, a proposal and a final decision. *)

Optional(key, values) == {<<>>} \cup {key :> v : v \in values}

Evaluations == {[version |-> v, verdict |-> v] : v \in {0, 1}}

EnvelopesDef ==
    {p @@ q @@ v @@ s @@ r @@ f @@ [applied_overrides |-> 1, specialists |-> 1, conflicts |-> 0] :
        p \in Optional("policy", Evaluations), q \in Optional("policy_evaluation", Evaluations),
        v \in Optional("policy_version", {0, 1}), s \in Optional("skill_identity", {0, 1}),
        r \in Optional("proposal", {0, 1}), f \in Optional("final", {1})}

OverrideSetsDef == {{}, {"model"}, {"skill"}, {"policy"}, {"market_regime", "policy"}}

Stored(symbol, rank) == [symbol |-> symbol, rank |-> rank]

HistoriesDef ==
    [run : {"none", "found"}, risk : {"none", "veto"}, market : {"1"},
     row : [candidates : {<<>>, <<Stored("a", 2), Stored("b", 1)>>, <<Stored("a", NoRank), Stored("b", 1)>>},
            actions : {"0"}, primary : {"none", "0"}, regime : {"0"}, veto : {"none", "no"}],
     chain : [order : {<<"b">>, <<"b", "a">>}, actions : {"0"}, primary : {"1"}]]

-----------------------------------------------------------------------------
(* The plan: three names in two groups of each kind.                       *)

ComponentWeightsDef == [theme |-> 50, technical |-> 30, risk |-> 20]

Offered(score, quoted) ==
    [quoted |-> quoted, suspended |-> FALSE, invalidated |-> FALSE, over_risk |-> FALSE,
     liquidity |-> NoScore, coverage |-> NoScore, score |-> score,
     components |-> [theme |-> NoScore, technical |-> NoScore, risk |-> NoScore]]

OffersDef ==
    {NoOffer, Offered(90, TRUE), Offered(65, TRUE), Offered(65, FALSE),
     [Offered(NoScore, TRUE) EXCEPT !.components.theme = 100, !.components.technical = 90]}

BandsDef ==
    [watch |-> [lo |-> 0, hi |-> 0], starter |-> [lo |-> 2, hi |-> 4],
     normal |-> [lo |-> 4, hi |-> 8], high_conviction |-> [lo |-> 8, hi |-> 14]]

GroupOfDef == [theme |-> <<1, 1, 0>>, sector |-> <<1, 2, 2>>]

GroupCapDef == [theme |-> 12, sector |-> 10]

GroupingsDef == <<"theme", "sector">>

-----------------------------------------------------------------------------
(* The backtest: days that rise, fall, are suspended or reach a limit.     *)

QuoteOf(up, risk, upper) == Quote(NoValue, up, NoValue, risk, NoValue, upper, NoValue)

NoLimitQuote == Quote("NO_LIMIT", NoValue, NoValue, NoValue, NoValue, NoValue, NoValue)

Day(price, close, score, quote) ==
    [price |-> price, close |-> close, volume |-> price > 0, range |-> "inside", score |-> score,
     quote |-> quote]

BarsDef ==
    LET plain == QuoteOf(NoValue, "no", NoValue)
    IN  {Day(10, 10, 1, plain), Day(10, 11, 2, plain), Day(11, 10, 2, plain), Day(9, 10, 1, plain),
         Day(0, 0, 0, plain), Day(14, 14, 1, QuoteOf(1000, "no", 13)),
         Day(11, 11, 1, QuoteOf(NoValue, NoValue, NoValue)), Day(6, 6, 0, NoLimitQuote)}

ScoreTimesDef ==
    [known : {TRUE}, feature : {0}, available : {0}, executable : {1}, for : 0 .. 2]
    \cup [known : {TRUE}, feature : {0}, available : {1}, executable : {1}, for : {0}]

BoardOfDef == (a :> "main") @@ (b :> "STAR")

PositionDef == (a :> 1) @@ (b :> 2)

-----------------------------------------------------------------------------
(* The calendar: a week with a holiday; the window reaches back over it.   *)

CalendarDaysDef == -2 .. 9

OpenDaysDef == {-1, 0, 1, 4, 5, 6, 9}

-----------------------------------------------------------------------------

vars == <<part, governanceVars, groundingVars, replayVars2, pipelineVars, backtestVars, clockVars>>

Init ==
    /\ part \in {"governance", "grounding", "replay", "pipeline", "backtest", "clock"}
    /\ GovernanceInit
    /\ part # "governance" => skill = <<"MARKET_SNAPSHOT", "FACTOR_SCORE", "VALUATION_FACT">>
    /\ GroundingInit /\ PipelineInit /\ BacktestInit
    /\ ClockInit
    /\ part # "clock" => horizon = 0
    /\ DecisionReplayInit

Next ==
    /\ UNCHANGED part
    /\ \/ /\ part = "governance"
          /\ GovernanceNext
          /\ UNCHANGED <<groundingVars, replayVars2, pipelineVars, backtestVars, clockVars>>
       \/ /\ part = "grounding"
          /\ GroundingNext
          /\ UNCHANGED <<governanceVars, replayVars2, pipelineVars, backtestVars, clockVars>>
       \/ /\ part = "replay"
          /\ AnswerReplay
          /\ UNCHANGED <<governanceVars, groundingVars, pipelineVars, backtestVars, clockVars>>
       \/ /\ part = "pipeline"
          /\ PipelineNext
          /\ UNCHANGED <<governanceVars, groundingVars, replayVars2, backtestVars, clockVars>>
       \/ /\ part = "backtest"
          /\ BacktestNext
          /\ UNCHANGED <<governanceVars, groundingVars, replayVars2, pipelineVars, clockVars>>
       \/ /\ part = "clock"
          /\ ClockNext
          /\ UNCHANGED <<governanceVars, groundingVars, replayVars2, pipelineVars, backtestVars>>

Spec == Init /\ [][Next]_vars

=============================================================================

--------------------------- MODULE StrategyFactory ---------------------------
(* Promotion of a generated strategy (engines/strategy_factory): static    *)
(* validation, backtest, out-of-sample validation, paper tracking, shadow  *)
(* and active.  The gates read evaluation runs that are stored by id; the  *)
(* statistics a run computes are chosen from Results.  Registry and runs   *)
(* are shared by every caller of the factory.                              *)
EXTENDS Integers, FiniteSets

CONSTANTS
    Strategies,
    Definitions(_),  \* what may be generated under an id
    RunIds,            \* ids of evaluation runs
    Results,         \* what an evaluation of a definition may measure
    PaperResults,    \* what the persisted execution data may show
    Windows,         \* test windows of the walk-forward
    MinOosDays, MinPaperDays, MaxDrawdown, MaxTurnover, MinSharpe, MaxPbo, MaxPaperErrors,
    Absent

ASSUME PromotionAssumption == {MinOosDays, MinPaperDays, Windows} \subseteq Nat

VARIABLES
    strategies,   \* _strategies: Absent, or [status, definition]
    runs,         \* _runs: Absent, or [strategy, type, metrics, passed]
    passedGates   \* history: gates each strategy passed since it was generated

factoryVars == <<strategies, runs, passedGates>>

Statuses == {"GENERATED", "STATIC_VALIDATED", "BACKTESTED", "OOS_VALIDATED", "PAPER_TRACKING",
             "SHADOW", "ACTIVE", "DECAYING", "RETIRED", "REJECTED"}

Registered == [status : Statuses, definition : UNION {Definitions(s) : s \in Strategies}]

Evaluations == [strategy : Strategies, type : {"BACKTEST", "OOS"}, metrics : Results, passed : BOOLEAN]

ASSUME AbsentAssumption == Absent \notin Registered /\ Absent \notin Evaluations

FactoryInit ==
    /\ strategies = [s \in Strategies |-> Absent]
    /\ runs = [r \in RunIds |-> Absent]
    /\ passedGates = [s \in Strategies |-> {}]

\* _validate_schema: rules on both sides, executed at the next open, in the
\* rule language and without lookahead.
ValidSchema(d) == d.entry /\ d.exit /\ d.fill = "next_open" /\ ~d.banned

Has(s, status) == strategies[s] # Absent /\ strategies[s].status = status

Move(s, status) == strategies' = [strategies EXCEPT ![s].status = status]

Generate(s, d) ==
    /\ ValidSchema(d)
    /\ strategies' = [strategies EXCEPT ![s] = [status |-> "GENERATED", definition |-> d]]
    /\ passedGates' = [passedGates EXCEPT ![s] = {}]
    /\ UNCHANGED runs

\* A gate that records its verdict.
Gate(s, ok, name, status) ==
    /\ Move(s, IF ok THEN status ELSE "REJECTED")
    /\ passedGates' = IF ok THEN [passedGates EXCEPT ![s] = @ \cup {name}] ELSE passedGates
    /\ UNCHANGED runs

ValidateStatic(s) ==
    /\ Has(s, "GENERATED")
    /\ \E covered \in BOOLEAN : Gate(s, covered, "static", "STATIC_VALIDATED")

-----------------------------------------------------------------------------
(* Evaluation runs. *)

\* validate_strategy_statistics: false discovery, deflated Sharpe, overfitting.
StatisticsPass(m) == m.fdr /\ m.sharpe >= MinSharpe /\ m.pbo <= MaxPbo

\* evaluate_strategy, and for OOS the walk-forward's majority of windows.
RunPasses(m, type) ==
    /\ StatisticsPass(m)
    /\ ~m.flagged
    /\ type = "OOS" => m.positive * 2 >= Windows /\ Windows > 0

\* oos_days: the code adds the lengths of the windows' bounds, which are
\* pairs, and not the days between them.
OosDays == 2 * Windows

\* StrategyEvaluationRunner.run, which compiles the definition first.
RunEvaluation(s, r, type, m) ==
    /\ strategies[s] # Absent
    /\ strategies[s].definition.ranking
    /\ runs[r] = Absent
    /\ runs' = [runs EXCEPT ![r] =
        [strategy |-> s, type |-> type, metrics |-> m, passed |-> RunPasses(m, type)]]
    /\ UNCHANGED <<strategies, passedGates>>

\* Mutant: a run of another strategy counts.
Usable_AnyStrategy(s, r, type) == runs[r] # Absent /\ runs[r].type = type

\* _evaluation: a run of this strategy and of this type, or an error.
Usable(s, r, type) ==
    /\ runs[r] # Absent
    /\ runs[r].strategy = s
    /\ runs[r].type = type

EvaluateBacktest(s, r) ==
    /\ Has(s, "STATIC_VALIDATED")
    /\ Usable(s, r, "BACKTEST")
    /\ LET m == runs[r].metrics
           ok == runs[r].passed /\ m.drawdown <= MaxDrawdown /\ m.turnover <= MaxTurnover
       IN  Gate(s, ok, "backtest", "BACKTESTED")

OosPasses(run) ==
    /\ run.passed
    /\ OosDays >= MinOosDays
    /\ run.metrics.sharpe >= MinSharpe
    /\ run.metrics.pbo <= MaxPbo

ValidateOos(s, r) ==
    /\ Has(s, "BACKTESTED")
    /\ Usable(s, r, "OOS")
    /\ Gate(s, OosPasses(runs[r]), "oos", "OOS_VALIDATED")

\* StrategyPaperEvidenceProvider.collect: missing observations never pass.
PaperTracked(e) ==
    /\ e.days >= MinPaperDays
    /\ e.decisions > 0 /\ e.orders > 0 /\ e.fills > 0 /\ e.outcomes > 0
    /\ e.failed * 100 <= e.orders * MaxPaperErrors

PaperTrack(s, e) ==
    /\ Has(s, "OOS_VALIDATED")
    /\ Gate(s, PaperTracked(e), "paper", "PAPER_TRACKING")

PromoteShadow(s) ==
    /\ Has(s, "PAPER_TRACKING")
    /\ Move(s, "SHADOW")
    /\ UNCHANGED <<runs, passedGates>>

\* activate, which refuses every execution mode but LIVE.
Activate(s) ==
    /\ Has(s, "SHADOW")
    /\ Move(s, "ACTIVE")
    /\ UNCHANGED <<runs, passedGates>>

\* monitor: an active strategy decays on what it now measures, or retires
\* on it or on request.
Monitor(s, m) ==
    /\ Has(s, "ACTIVE")
    /\ \E retire \in BOOLEAN :
        CASE retire \/ m.sharpe < 0 -> Move(s, "RETIRED")
          [] ~retire /\ m.sharpe >= 0 /\ m.drawdown > MaxDrawdown -> Move(s, "DECAYING")
          [] OTHER -> UNCHANGED strategies
    /\ UNCHANGED <<runs, passedGates>>

FactoryNext ==
    \E s \in Strategies :
        \/ \E d \in Definitions(s) : Generate(s, d)
        \/ ValidateStatic(s) \/ PromoteShadow(s) \/ Activate(s)
        \/ \E r \in RunIds :
            \/ \E type \in {"BACKTEST", "OOS"}, m \in Results : RunEvaluation(s, r, type, m)
            \/ EvaluateBacktest(s, r) \/ ValidateOos(s, r)
        \/ \E e \in PaperResults : PaperTrack(s, e)
        \/ \E m \in Results : Monitor(s, m)

FactorySpec == FactoryInit /\ [][FactoryNext]_factoryVars

-----------------------------------------------------------------------------

\* A strategy that trades passed each gate since it was last generated, on
\* runs of its own that passed: whatever runs other strategies left in the
\* registry, and however its gates were repeated (_evaluation, activate).
ActiveIsProven ==
    \A s \in Strategies :
        strategies[s] # Absent /\ strategies[s].status \in {"SHADOW", "ACTIVE", "DECAYING", "RETIRED"} =>
            /\ passedGates[s] = {"static", "backtest", "oos", "paper"}
            /\ \A type \in {"BACKTEST", "OOS"} :
                \E r \in RunIds : runs[r] # Absent /\ runs[r].strategy = s /\ runs[r].type = type /\ runs[r].passed
=============================================================================

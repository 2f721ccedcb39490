----------------------------- MODULE MCRecords -----------------------------
(* Small instances of what outlives a request: replay runs, the records    *)
(* and reviews of decisions, long-term memory and its index, retrieval,    *)
(* the regime, the skills under evolution, the strategies of the factory   *)
(* and the chat sessions with the skill runs behind them.  They share no   *)
(* state with each other, so each behaviour exercises one.                 *)
EXTENDS ReplayRuns, MCReviews, MemoryIndex, Retrieval, RegimeState, SkillEvolution, StrategyFactory,
        SkillExecution

CONSTANTS s1, s2, t1, t2, t3, x1, x2, blank, u1, u2, u3, u4, source, b1, b2

VARIABLE part   \* the component this behaviour is about

-----------------------------------------------------------------------------
(* Replay runs: two threads of one service and one of another.             *)

ServiceOfDef == (t1 :> s1) @@ (t2 :> s1) @@ (t3 :> s2)

-----------------------------------------------------------------------------
(* Memory: a bull case, a bear case that contradicts it, and a third with  *)
(* nothing to compare.  The first content has two chunks.                  *)

Memory(content, facts, lessons, regimes, relevant, timed, trusted) ==
    [content |-> content, facts |-> facts, lessons |-> lessons, regimes |-> regimes,
     relevant |-> relevant, timed |-> timed, trusted |-> trusted, source |-> source]

CandidatesDef ==
    {Memory(x1, [stance |-> "bull"], {1}, {}, TRUE, FALSE, FALSE),
     Memory(x2, [stance |-> "bear"], {2}, {"range"}, FALSE, TRUE, TRUE),
     Memory(blank, <<>>, {2}, {}, FALSE, FALSE, FALSE)}

ChunksDef(content) == CASE content = x1 -> 2 [] content = x2 -> 1 [] content = blank -> 0

-----------------------------------------------------------------------------
(* Retrieval: units that differ in the index and in the database, and one  *)
(* that only the sparse recall finds, active or retired.                   *)

IndexPayload(support, score, truth, reviewed, expired) ==
    [support |-> support, score |-> score, truth |-> truth, review |-> reviewed, expired |-> expired]

DatabaseRow(support, score, truth, lifecycle, expired) ==
    [support |-> support, score |-> score, truth |-> truth, lifecycle |-> lifecycle,
     expired |-> expired]

UnitsDef ==
    {[id |-> u1, payload |-> IndexPayload("SOURCE_SUPPORTED", 70, "UNKNOWN", "APPROVED", FALSE),
      row |-> DatabaseRow("SOURCE_SUPPORTED", 65, "UNKNOWN", "ACTIVE", FALSE)],
     [id |-> u2, payload |-> IndexPayload("VALIDATED", 90, "EXTERNALLY_VERIFIED", "REJECTED", FALSE),
      row |-> DatabaseRow("VALIDATED", 90, "EXTERNALLY_VERIFIED", "ACTIVE", FALSE)],
     [id |-> u3, payload |-> IndexPayload("EXTERNALLY_VERIFIED", 80, "EXTERNALLY_VERIFIED", "PENDING", TRUE),
      row |-> DatabaseRow("EXTERNALLY_VERIFIED", 80, "EXTERNALLY_VERIFIED", "ACTIVE", TRUE)]}
    \cup {[id |-> u4, payload |-> NoFilter,
           row |-> DatabaseRow("NEEDS_REVIEW", 90, "UNKNOWN", lifecycle, FALSE)] :
                lifecycle \in {"ACTIVE", "RETIRED"}}

QueriesDef ==
    [support : {NoFilter, "UNSUPPORTED", "VALIDATED", "none"}, score : {NoFilter, 10, 80},
     truth : {NoFilter, {"UNKNOWN"}, {}, {"EXTERNALLY_VERIFIED", "UNKNOWN"}},
     denied : {{}, {"PENDING"}}, validOnly : BOOLEAN]

-----------------------------------------------------------------------------
(* The regime: a clear market, a close one and two that lack scores.     *)

Market(retreat, drawdown, breadth, crowding, range, rotation) ==
    [retreat |-> retreat, drawdown |-> drawdown, breadth |-> breadth, crowding |-> crowding,
     range |-> range, rotation |-> rotation]

FeatureSetsDef ==
    {Market(90, 20, 50, 20, 20, 20), Market(10, 20, 45, 10, 95, 10),
     Market(Missing, Missing, Missing, 95, Missing, Missing),
     Market(Missing, Missing, Missing, 10, Missing, Missing)}

ConfirmationDaysDef ==
    [high_position_retreat |-> 1, downtrend_market |-> 2, crowding_market |-> 2,
     rotation_market |-> 2, range_market |-> 3]

-----------------------------------------------------------------------------
(* Skill evolution: patches that hold, that cost too much, that need more  *)
(* or less evidence, and one of a field that may not be patched.           *)

BaseContractDef ==
    [evidence |-> {"m"}, specialists |-> {"risk"}, require_risk |-> TRUE, require_policy |-> FALSE,
     freshness |-> [m |-> 1], sections |-> {"s"}, tokens |-> 10]

PatchesDef ==
    {[tokens |-> 11], [tokens |-> 12], [evidence |-> {"m", "f"}], [evidence |-> {}], [python |-> TRUE]}

CasesDef ==
    {[evidence |-> [m |-> "VERIFIED", f |-> "STALE"], specialists |-> [risk |-> "SUCCESS"],
      risk |-> TRUE, policy |-> FALSE, ages |-> [m |-> 1], sections |-> {"s"}, errors |-> FALSE]}

PaperEvidenceDef ==
    [rows : {5}, evaluated : {5}, calls : {20}, toolErrors : {1, 2}, outputFailures : {0},
     decisionFailures : {0}]

-----------------------------------------------------------------------------
(* The factory: a definition that fills at the next open and one that does *)
(* not; results that pass, draw down too far or earn too little.           *)

DefinitionsDef(s) ==
    [entry : {TRUE}, exit : {TRUE}, fill : {"next_open", "vwap"}, banned : {FALSE}, ranking : {TRUE}]

ResultsDef ==
    [fdr : {TRUE}, sharpe : {1}, pbo : {0}, flagged : {FALSE}, positive : {1}, drawdown : {1, 2},
     turnover : {1}]
    \cup [fdr : {TRUE}, sharpe : {-1}, pbo : {0}, flagged : {FALSE}, positive : {1}, drawdown : {1},
          turnover : {1}]

PaperResultsDef ==
    [days : {1, 2}, decisions : {1}, orders : {20}, fills : {1}, outcomes : {1}, failed : {1}]

-----------------------------------------------------------------------------
(* The chat: two requests of one session and a pool of one thread.         *)

\* A skill that needs a fresh reading of the market; one of version 3 that
\* needs evidence and a risk verdict, or one that needs the regime and a
\* memory.
NoContract ==
    [version |-> 2, required |-> {}, anyOf |-> {}, conditional |-> {}, forbidden |-> {},
     minRounds |-> 0, maxRounds |-> 2, memory |-> FALSE, regime |-> FALSE, market |-> NoStamp,
     evidence |-> {}, specialists |-> {}, risk |-> FALSE, policy |-> FALSE]

ContractsOfDef ==
    (b1 :> {[NoContract EXCEPT
                !.required = {"get_market_snapshot"}, !.forbidden = {"construct_portfolio_v2"},
                !.conditional = {[flag |-> "deep", require |-> {}, anyOf |-> {"get_market_snapshot"}]},
                !.market = [maxAge |-> 0, sameDay |-> TRUE, afterOpen |-> FALSE]]})
    @@ (b2 :> {[NoContract EXCEPT !.version = 3, !.evidence = {"DECISION_MEMORY"}, !.risk = TRUE,
                                  !.minRounds = 2],
            [NoContract EXCEPT !.anyOf = {{"get_market_regime", "get_factor_set"}},
                               !.regime = TRUE, !.memory = TRUE]})

FlagsOfDef == (b1 :> {"deep"}) @@ (b2 :> {})

PlansOfDef ==
    (b1 :> {<<"get_market_snapshot", "get_market_snapshot">>,
            <<"construct_portfolio_v2">>})
    @@ (b2 :> {<<"get_market_regime", "search_decision_memory">>})

\* A reading that is over the size limit loses its timestamp.
ResultsOfDef ==
    [get_market_snapshot |-> {[Blank EXCEPT !.age = 0], [Blank EXCEPT !.age = 0, !.large = TRUE]},
     get_market_regime |-> {Blank},
     search_decision_memory |->
        {[Blank EXCEPT !.evidence = {"DECISION_MEMORY"}, !.risk = TRUE, !.memories = TRUE]}]

-----------------------------------------------------------------------------

vars == <<part, replayVars, recordVars, memoryVars, retrievalVars, regimeVars, evolutionVars,
          factoryVars, chatVars>>

Init ==
    /\ part \in {"replay", "records", "memory", "retrieval", "regime", "evolution", "factory", "chat"}
    /\ ReplayInit /\ RecordsInit /\ MemoryInit /\ RetrievalInit
    /\ RegimeInit /\ EvolutionInit /\ FactoryInit /\ ChatInit

Next ==
    /\ UNCHANGED part
    /\ \/ /\ part = "replay"
          /\ ReplayNext
          /\ UNCHANGED <<recordVars, memoryVars, retrievalVars, regimeVars, evolutionVars, factoryVars, chatVars>>
       \/ /\ part = "records"
          /\ RecordsNext
          /\ UNCHANGED <<replayVars, memoryVars, retrievalVars, regimeVars, evolutionVars, factoryVars, chatVars>>
       \/ /\ part = "memory"
          /\ MemoryNext
          /\ UNCHANGED <<replayVars, recordVars, retrievalVars, regimeVars, evolutionVars, factoryVars, chatVars>>
       \/ /\ part = "retrieval"
          /\ RetrievalNext
          /\ UNCHANGED <<replayVars, recordVars, memoryVars, regimeVars, evolutionVars, factoryVars, chatVars>>
       \/ /\ part = "regime"
          /\ RegimeNext
          /\ UNCHANGED <<replayVars, recordVars, memoryVars, retrievalVars, evolutionVars, factoryVars, chatVars>>
       \/ /\ part = "evolution"
          /\ EvolutionNext
          /\ UNCHANGED <<replayVars, recordVars, memoryVars, retrievalVars, regimeVars, factoryVars, chatVars>>
       \/ /\ part = "factory"
          /\ FactoryNext
          /\ UNCHANGED <<replayVars, recordVars, memoryVars, retrievalVars, regimeVars, evolutionVars, chatVars>>
       \/ /\ part = "chat"
          /\ ChatNext
          /\ UNCHANGED <<replayVars, recordVars, memoryVars, retrievalVars, regimeVars, evolutionVars,
                         factoryVars>>

Spec == Init /\ [][Next]_vars

=============================================================================

-------------------------- MODULE LifecycleProofs --------------------------
(***************************************************************************)
(* Lifecycles and durable records, for any strategies, proposals, days,    *)
(* memories, thresholds, services, threads, lease lengths, decisions, bundles, *)
(* rows and callers: nothing is active, released, confirmed or shown that did *)
(* not pass what stands before it; and the lease of a replay run, the lineage *)
(* of a decision, the memory of its review and the index of the memories.  *)
(***************************************************************************)
EXTENDS StrategyFactory, SkillEvolution, RegimeState, Retrieval,
        ReplayRuns, DecisionRecords, MemoryIndex,
        TotalsProofs, FiniteSetTheorems, TLAPS

----------------------------------------------------------------------------
(* Strategy factory.                                                       *)

\* Types of the tables.
FactoryTypeOK ==
    /\ strategies \in [Strategies -> Registered \cup {Absent}]
    /\ runs \in [RunIds -> Evaluations \cup {Absent}]
    /\ passedGates \in [Strategies -> SUBSET {"static", "backtest", "oos", "paper"}]

\* A stored run of the strategy that passed.
HasRun(s, type) ==
    \E r \in RunIds : /\ runs[r] # Absent
                      /\ runs[r].strategy = s /\ runs[r].type = type
                      /\ runs[r].passed

\* Statuses behind each gate.
AfterPaper == {"PAPER_TRACKING", "SHADOW", "ACTIVE", "DECAYING", "RETIRED"}

AfterOos == AfterPaper \cup {"OOS_VALIDATED"}

AfterBacktest == AfterOos \cup {"BACKTESTED"}

\* The gates behind a strategy that was not rejected are those its status
\* stands for, and the runs two of them read are still there.
HasEarned(s) ==
    LET status == strategies[s].status IN
    strategies[s] # Absent =>
        /\ status = "GENERATED" => passedGates[s] = {}
        /\ status = "STATIC_VALIDATED" => passedGates[s] = {"static"}
        /\ status = "BACKTESTED" => passedGates[s] = {"static", "backtest"}
        /\ status = "OOS_VALIDATED" => passedGates[s] = {"static", "backtest", "oos"}
        /\ status \in AfterPaper => passedGates[s] = {"static", "backtest", "oos", "paper"}
        /\ status \in AfterBacktest => HasRun(s, "BACKTEST")
        /\ status \in AfterOos => HasRun(s, "OOS")

\* The inductive invariant of the lifecycle.
FactoryInvariant == FactoryTypeOK /\ \A s \in Strategies : HasEarned(s)

----------------------------------------------------------------------------

\* Runs are only added: what a gate read stays.
LEMMA RunsStay ==
    ASSUME FactoryTypeOK, [FactoryNext]_factoryVars,
           NEW r \in RunIds, runs[r] # Absent
    PROVE  runs'[r] = runs[r]
<1>1. CASE UNCHANGED factoryVars
  BY <1>1 DEF factoryVars
<1>2. ASSUME NEW s \in Strategies, NEW q \in RunIds, NEW type \in {"BACKTEST", "OOS"},
             NEW m \in Results, RunEvaluation(s, q, type, m)
      PROVE  runs'[r] = runs[r]
  BY <1>2 DEF RunEvaluation, FactoryTypeOK
<1>3. CASE UNCHANGED runs
  BY <1>3
<1> QED
  BY <1>1, <1>2, <1>3 DEF FactoryNext, Generate, ValidateStatic, Gate, EvaluateBacktest,
     ValidateOos, PaperTrack, PromoteShadow, Activate, Monitor

\* So a strategy that has a passing run keeps it.
LEMMA HasRunStays ==
    ASSUME FactoryTypeOK, [FactoryNext]_factoryVars,
           NEW s \in Strategies, NEW type, HasRun(s, type)
    PROVE  HasRun(s, type)'
BY RunsStay DEF HasRun

\* A strategy that a step leaves alone keeps what it earned.
LEMMA OthersEarned ==
    ASSUME FactoryInvariant, [FactoryNext]_factoryVars, NEW s \in Strategies,
           strategies'[s] = strategies[s], passedGates'[s] = passedGates[s]
    PROVE  HasEarned(s)'
<1>1. HasEarned(s)
  BY DEF FactoryInvariant
<1>2. HasRun(s, "BACKTEST") => HasRun(s, "BACKTEST")'
  BY HasRunStays DEF FactoryInvariant
<1>3. HasRun(s, "OOS") => HasRun(s, "OOS")'
  BY HasRunStays DEF FactoryInvariant
<1> QED
  BY <1>1, <1>2, <1>3 DEF HasEarned

\* A move changes the status of one strategy, which stays registered.
LEMMA MoveEffect ==
    ASSUME FactoryTypeOK, NEW s \in Strategies, NEW status \in Statuses,
           strategies[s] # Absent, Move(s, status)
    PROVE  /\ strategies' \in [Strategies -> Registered \cup {Absent}]
           /\ strategies'[s] # Absent /\ strategies'[s].status = status
           /\ \A t \in Strategies \ {s} : strategies'[t] = strategies[t]
<1>1. strategies[s] \in Registered
  BY DEF FactoryTypeOK
<1>2. [strategies[s] EXCEPT !.status = status] \in Registered
  BY <1>1 DEF Registered
<1>3. [strategies[s] EXCEPT !.status = status].status = status
  BY <1>1 DEF Registered
<1>4. strategies' = [strategies EXCEPT ![s] = [strategies[s] EXCEPT !.status = status]]
  BY DEF Move
<1> QED
  BY <1>2, <1>3, <1>4, AbsentAssumption DEF FactoryTypeOK

\* A step that moves one strategy: the others keep what they earned, so
\* only the moved one is left to show.
LEMMA MoveStep ==
    ASSUME FactoryInvariant, [FactoryNext]_factoryVars,
           NEW s \in Strategies, NEW status \in Statuses,
           strategies[s] # Absent, Move(s, status), UNCHANGED runs,
           passedGates' \in [Strategies -> SUBSET {"static", "backtest", "oos", "paper"}],
           \A t \in Strategies \ {s} : passedGates'[t] = passedGates[t],
           HasEarned(s)'
    PROVE  FactoryInvariant'
<1>1. FactoryTypeOK
  BY DEF FactoryInvariant
<1>2. FactoryTypeOK'
  BY <1>1, MoveEffect DEF FactoryTypeOK
<1>3. \A t \in Strategies \ {s} : strategies'[t] = strategies[t]
  BY <1>1, MoveEffect
<1>4. \A t \in Strategies \ {s} : HasEarned(t)'
  BY <1>3, OthersEarned
<1> QED
  BY <1>2, <1>4 DEF FactoryInvariant

\* A gate adds its name and moves the strategy on, or rejects it.
LEMMA GateStep ==
    ASSUME FactoryInvariant, [FactoryNext]_factoryVars,
           NEW s \in Strategies, NEW ok \in BOOLEAN,
           NEW name \in {"static", "backtest", "oos", "paper"}, NEW status \in Statuses,
           strategies[s] # Absent, Gate(s, ok, name, status),
           ok /\ strategies'[s].status = status /\ passedGates'[s] = passedGates[s] \cup {name}
              => HasEarned(s)'
    PROVE  FactoryInvariant'
<1>0. FactoryTypeOK
  BY DEF FactoryInvariant
<1>1. CASE ok
  <2>1. Move(s, status) /\ runs' = runs
    BY <1>1 DEF Gate
  <2>2. passedGates' = [passedGates EXCEPT ![s] = @ \cup {name}]
    BY <1>1 DEF Gate
  <2>3. strategies'[s].status = status
    BY <1>0, <2>1, MoveEffect
  <2>4. /\ passedGates' \in [Strategies -> SUBSET {"static", "backtest", "oos", "paper"}]
        /\ passedGates'[s] = passedGates[s] \cup {name}
        /\ \A t \in Strategies \ {s} : passedGates'[t] = passedGates[t]
    BY <1>0, <2>2 DEF FactoryTypeOK
  <2>5. HasEarned(s)'
    BY <1>1, <2>3, <2>4
  <2> QED
    BY <2>1, <2>4, <2>5, MoveStep
<1>2. CASE ~ok
  <2>1. Move(s, "REJECTED") /\ runs' = runs /\ passedGates' = passedGates
    BY <1>2 DEF Gate
  <2>2. strategies'[s].status = "REJECTED"
    BY <1>0, <2>1, MoveEffect DEF Statuses
  <2>3. HasEarned(s)'
    BY <2>2 DEF HasEarned, AfterBacktest, AfterOos, AfterPaper
  <2> QED
    BY <1>0, <2>1, <2>3, MoveStep DEF FactoryTypeOK, Statuses
<1> QED
  BY <1>1, <1>2

\* Every operation of the factory keeps the invariant.
LEMMA FactoryStep ==
    ASSUME FactoryInvariant, [FactoryNext]_factoryVars
    PROVE  FactoryInvariant'
<1>0. FactoryTypeOK
  BY DEF FactoryInvariant
<1>1. CASE UNCHANGED factoryVars
  <2>1. FactoryTypeOK'
    BY <1>0, <1>1 DEF FactoryTypeOK, factoryVars
  <2> QED
    BY <1>1, <2>1, OthersEarned DEF FactoryInvariant, factoryVars
<1>2. ASSUME NEW s \in Strategies, NEW d \in Definitions(s), Generate(s, d)
      PROVE  FactoryInvariant'
  <2>1. [status |-> "GENERATED", definition |-> d] \in Registered
    BY <1>2 DEF Registered, Statuses
  <2>2. FactoryTypeOK'
    BY <1>0, <1>2, <2>1 DEF Generate, FactoryTypeOK
  <2>3. strategies'[s].status = "GENERATED" /\ passedGates'[s] = {}
    BY <1>0, <1>2, <2>1 DEF Generate, FactoryTypeOK
  <2>4. HasEarned(s)'
    BY <2>3 DEF HasEarned, AfterBacktest, AfterOos, AfterPaper
  <2>5. \A t \in Strategies \ {s} : strategies'[t] = strategies[t] /\ passedGates'[t] = passedGates[t]
    BY <1>0, <1>2 DEF Generate, FactoryTypeOK
  <2> QED
    BY <2>2, <2>4, <2>5, OthersEarned DEF FactoryInvariant
<1>3. ASSUME NEW s \in Strategies, ValidateStatic(s)
      PROVE  FactoryInvariant'
  <2>1. PICK covered \in BOOLEAN : Gate(s, covered, "static", "STATIC_VALIDATED")
    BY <1>3 DEF ValidateStatic
  <2>2. strategies[s] # Absent /\ passedGates[s] = {}
    BY <1>3 DEF ValidateStatic, Has, FactoryInvariant, HasEarned
  <2>3. strategies'[s].status = "STATIC_VALIDATED" /\ passedGates'[s] = passedGates[s] \cup {"static"}
          => HasEarned(s)'
    BY <2>2 DEF HasEarned, AfterBacktest, AfterOos, AfterPaper
  <2> QED
    BY <2>1, <2>2, <2>3, GateStep DEF Statuses
<1>4. ASSUME NEW s \in Strategies, NEW r \in RunIds, EvaluateBacktest(s, r)
      PROVE  FactoryInvariant'
  <2> DEFINE m == runs[r].metrics
             ok == runs[r].passed /\ m.drawdown <= MaxDrawdown /\ m.turnover <= MaxTurnover
  <2>1. Gate(s, ok, "backtest", "BACKTESTED") /\ Usable(s, r, "BACKTEST")
    BY <1>4 DEF EvaluateBacktest
  <2>2. strategies[s] # Absent /\ passedGates[s] = {"static"}
    BY <1>4 DEF EvaluateBacktest, Has, FactoryInvariant, HasEarned
  <2>3. ok => HasRun(s, "BACKTEST")
    BY <2>1 DEF Usable, HasRun
  <2>4. ok => HasRun(s, "BACKTEST")'
    BY <1>0, <2>3, HasRunStays
  <2>5. ok /\ strategies'[s].status = "BACKTESTED" /\ passedGates'[s] = passedGates[s] \cup {"backtest"}
          => HasEarned(s)'
    BY <2>2, <2>4 DEF HasEarned, AfterBacktest, AfterOos, AfterPaper
  <2>6. ok \in BOOLEAN
    OBVIOUS
  <2> HIDE DEF ok
  <2> QED
    BY <2>1, <2>2, <2>5, <2>6, GateStep DEF Statuses
<1>5. ASSUME NEW s \in Strategies, NEW r \in RunIds, ValidateOos(s, r)
      PROVE  FactoryInvariant'
  <2> DEFINE ok == OosPasses(runs[r])
  <2>1. Gate(s, ok, "oos", "OOS_VALIDATED") /\ Usable(s, r, "OOS")
    BY <1>5 DEF ValidateOos
  <2>2. strategies[s] # Absent /\ passedGates[s] = {"static", "backtest"} /\ HasRun(s, "BACKTEST")
    BY <1>5 DEF ValidateOos, Has, FactoryInvariant, HasEarned, AfterBacktest
  <2>3. ok => HasRun(s, "OOS")
    BY <2>1 DEF Usable, HasRun, OosPasses
  <2>4. HasRun(s, "BACKTEST")' /\ (ok => HasRun(s, "OOS")')
    BY <1>0, <2>2, <2>3, HasRunStays
  <2>5. ok /\ strategies'[s].status = "OOS_VALIDATED" /\ passedGates'[s] = passedGates[s] \cup {"oos"}
          => HasEarned(s)'
    BY <2>2, <2>4 DEF HasEarned, AfterBacktest, AfterOos, AfterPaper
  <2>6. ok \in BOOLEAN
    BY DEF OosPasses
  <2> HIDE DEF ok
  <2> QED
    BY <2>1, <2>2, <2>5, <2>6, GateStep DEF Statuses
<1>6. ASSUME NEW s \in Strategies, NEW e \in PaperResults, PaperTrack(s, e)
      PROVE  FactoryInvariant'
  <2> DEFINE ok == PaperTracked(e)
  <2>1. Gate(s, ok, "paper", "PAPER_TRACKING")
    BY <1>6 DEF PaperTrack
  <2>2. /\ strategies[s] # Absent /\ passedGates[s] = {"static", "backtest", "oos"}
        /\ HasRun(s, "BACKTEST") /\ HasRun(s, "OOS")
    BY <1>6 DEF PaperTrack, Has, FactoryInvariant, HasEarned, AfterBacktest, AfterOos
  <2>3. HasRun(s, "BACKTEST")' /\ HasRun(s, "OOS")'
    BY <1>0, <2>2, HasRunStays
  <2>4. strategies'[s].status = "PAPER_TRACKING" /\ passedGates'[s] = passedGates[s] \cup {"paper"}
          => HasEarned(s)'
    BY <2>2, <2>3 DEF HasEarned, AfterBacktest, AfterOos, AfterPaper
  <2>5. ok \in BOOLEAN
    BY DEF PaperTracked
  <2> HIDE DEF ok
  <2> QED
    BY <2>1, <2>2, <2>4, <2>5, GateStep DEF Statuses
<1>7. ASSUME NEW s \in Strategies, NEW from \in AfterPaper, NEW to \in AfterPaper,
             Has(s, from), Move(s, to), UNCHANGED <<runs, passedGates>>
      PROVE  FactoryInvariant'
  <2>1. /\ strategies[s] # Absent /\ passedGates[s] = {"static", "backtest", "oos", "paper"}
        /\ HasRun(s, "BACKTEST") /\ HasRun(s, "OOS")
    BY <1>7 DEF Has, FactoryInvariant, HasEarned, AfterBacktest, AfterOos
  <2>2. to \in Statuses
    BY DEF AfterPaper, Statuses
  <2>3. strategies'[s].status = to
    BY <1>0, <1>7, <2>1, <2>2, MoveEffect
  <2>4. HasRun(s, "BACKTEST")' /\ HasRun(s, "OOS")'
    BY <1>0, <2>1, HasRunStays
  <2>5. HasEarned(s)'
    BY <1>7, <2>1, <2>3, <2>4 DEF HasEarned, AfterPaper
  <2> QED
    BY <1>0, <1>7, <2>1, <2>2, <2>5, MoveStep DEF FactoryTypeOK
<1>8. ASSUME NEW s \in Strategies, NEW r \in RunIds, NEW type \in {"BACKTEST", "OOS"},
             NEW m \in Results, RunEvaluation(s, r, type, m)
      PROVE  FactoryInvariant'
  <2>1. RunPasses(m, type) \in BOOLEAN
    BY DEF RunPasses
  <2>2. [strategy |-> s, type |-> type, metrics |-> m, passed |-> RunPasses(m, type)] \in Evaluations
    BY <2>1 DEF Evaluations
  <2>3. FactoryTypeOK'
    BY <1>0, <1>8, <2>2 DEF RunEvaluation, FactoryTypeOK
  <2> QED
    BY <1>8, <2>3, OthersEarned DEF RunEvaluation, FactoryInvariant
<1>9. ASSUME NEW s \in Strategies, NEW m \in Results, Monitor(s, m)
      PROVE  FactoryInvariant'
  <2>1. \/ Move(s, "RETIRED") \/ Move(s, "DECAYING")
        \/ UNCHANGED factoryVars
    BY <1>9 DEF Monitor, factoryVars
  <2> QED
    BY <1>1, <1>7, <1>9, <2>1 DEF Monitor, AfterPaper
<1>10. ASSUME NEW s \in Strategies, PromoteShadow(s) \/ Activate(s)
       PROVE  FactoryInvariant'
  BY <1>7, <1>10 DEF PromoteShadow, Activate, AfterPaper
<1> QED
  BY <1>1, <1>2, <1>3, <1>4, <1>5, <1>6, <1>8, <1>9, <1>10 DEF FactoryNext

----------------------------------------------------------------------------

\* The invariant holds in every state of the factory.
THEOREM FactoryInvariance == FactorySpec => []FactoryInvariant
<1>1. FactoryInit => FactoryInvariant
  BY DEF FactoryInit, FactoryInvariant, FactoryTypeOK, HasEarned
<1>2. FactoryInvariant /\ [FactoryNext]_factoryVars => FactoryInvariant'
  BY FactoryStep
<1> QED
  BY <1>1, <1>2, PTL DEF FactorySpec

\* A strategy that trades passed every gate on passing runs of its own
\* (activate, _evaluation).
THEOREM ActiveEarnedIt == FactorySpec => []ActiveIsProven
<1>1. FactoryInvariant => ActiveIsProven
  BY DEF FactoryInvariant, HasEarned, ActiveIsProven, HasRun, AfterBacktest, AfterOos, AfterPaper
<1> QED
  BY <1>1, FactoryInvariance, PTL

----------------------------------------------------------------------------
(* Skill evolution.                                                        *)

\* The columns and the local variables of the service.
EvolutionTypeOK ==
    /\ proposals \in [Proposals -> ProposalRows \cup {None}]
    /\ evaluating \in [Proposals -> {"no", "static", "golden", "paper"}]
    /\ workspace = [p \in Proposals |-> workspace[p]]
    /\ releases = [v \in Versions |-> releases[v]]
    /\ pointer \in [active : Versions \cup {None}, previous : Versions \cup {None}]
    /\ releasing \in Proposals \cup {None}

\* The golden cases and the replay accept a contract.
Sound(contract) == GoldenPasses(contract) /\ ReplayPasses(contract)

\* The workspace of a proposal that was built is what its patch makes of the
\* skill; a proposal that may be published was proven as it stands.
ProposalKnown(p) ==
    /\ evaluating[p] # "no" => proposals[p] # None
    /\ proposals[p] # None /\ (evaluating[p] # "no" \/ proposals[p].status # "PROPOSED")
        => workspace[p] = Candidate(p)
    /\ proposals[p] # None /\ proposals[p].status = "PAPER_VALIDATED" => Candidate(p) \in proven
    /\ evaluating[p] = "paper" => Sound(workspace[p])

\* What is released, and what is being released, was proven.
ReleasesKnown ==
    /\ \A contract \in proven : Sound(contract)
    /\ releasing # None => workspace[releasing] \in proven
    /\ \A v \in Versions : releases[v] \in proven \cup {None}

\* The inductive invariant of the lifecycle.
EvolutionInvariant ==
    /\ EvolutionTypeOK
    /\ \A p \in Proposals : ProposalKnown(p)
    /\ ReleasesKnown

----------------------------------------------------------------------------

\* A status written to a proposal that exists.
LEMMA StatusSet ==
    ASSUME EvolutionTypeOK, NEW p \in Proposals, NEW status \in ProposalStatuses, proposals[p] # None,
           SetStatus(p, status)
    PROVE  /\ proposals' \in [Proposals -> ProposalRows \cup {None}]
           /\ \A q \in Proposals \ {p} : proposals'[q] = proposals[q]
           /\ proposals'[p].status = status /\ proposals'[p].patch = proposals[p].patch
           /\ proposals'[p] # None
  <1>1. proposals[p] \in ProposalRows
    BY DEF EvolutionTypeOK
  <1>2. [proposals[p] EXCEPT !.status = status] \in ProposalRows
    BY <1>1 DEF ProposalRows
  <1>3. proposals'[p] = [proposals[p] EXCEPT !.status = status]
    BY DEF SetStatus, EvolutionTypeOK
  <1> QED BY <1>1, <1>2, <1>3, SkillEvolutionAssumption DEF SetStatus, EvolutionTypeOK, ProposalRows

\* A proposal whose patch and workspace stay is known as before.
LEMMA StaysKnown ==
    ASSUME NEW q \in Proposals, ProposalKnown(q), proposals'[q] = proposals[q],
           evaluating'[q] = evaluating[q], workspace'[q] = workspace[q], proven \subseteq proven'
    PROVE  ProposalKnown(q)'
  BY DEF ProposalKnown, Candidate

\* A gate gives its verdict on a proposal that was built: the proposal is
\* PAPER_VALIDATED only if it was proven.
LEMMA VerdictStep ==
    ASSUME EvolutionInvariant, NEW p \in Proposals, NEW status \in ProposalStatuses,
           NEW stage \in {"no", "static", "golden", "paper"},
           proposals[p] # None, workspace[p] = Candidate(p),
           SetStatus(p, status), At(p, stage),
           proven \subseteq proven', status = "PAPER_VALIDATED" => Candidate(p) \in proven',
           stage = "paper" => Sound(workspace[p]), \A contract \in proven' : Sound(contract),
           UNCHANGED <<workspace, releases, pointer, releasing>>
    PROVE  EvolutionInvariant'
  <1> USE DEF EvolutionInvariant
  <1>1. /\ proposals' \in [Proposals -> ProposalRows \cup {None}]
        /\ \A q \in Proposals \ {p} : proposals'[q] = proposals[q]
        /\ proposals'[p].status = status /\ proposals'[p].patch = proposals[p].patch
        /\ proposals'[p] # None
    BY StatusSet
  <1>2. /\ evaluating' \in [Proposals -> {"no", "static", "golden", "paper"}]
        /\ \A q \in Proposals \ {p} : evaluating'[q] = evaluating[q]
    BY DEF At, EvolutionTypeOK
  <1>3. EvolutionTypeOK'
    BY <1>1, <1>2 DEF EvolutionTypeOK
  <1>4. Candidate(p)' = Candidate(p)
    BY <1>1 DEF Candidate
  <1>5. ASSUME NEW q \in Proposals PROVE ProposalKnown(q)'
    <2>1. CASE q # p
      BY <1>1, <1>2, <2>1, StaysKnown
    <2>2. CASE q = p
      <3>1. evaluating'[p] = stage
        BY DEF At, EvolutionTypeOK
      <3> QED BY <1>1, <1>4, <2>2, <3>1 DEF ProposalKnown
    <2> QED BY <2>1, <2>2
  <1> QED BY <1>3, <1>5 DEF ReleasesKnown

\* Every step of the service, the registry and a restart keeps the invariant.
LEMMA EvolutionStep ==
    ASSUME EvolutionInvariant, [EvolutionNext]_evolutionVars
    PROVE  EvolutionInvariant'
  <1> USE DEF EvolutionInvariant
  <1>0. BaseVersion + 1 \in Versions
    BY SkillEvolutionAssumption DEF Versions
  <1>1. CASE UNCHANGED evolutionVars
    BY <1>1 DEF evolutionVars, EvolutionTypeOK, ProposalKnown, ReleasesKnown, Candidate
  <1>2. ASSUME NEW p \in Proposals, NEW patch \in Patches, Propose(p, patch)
        PROVE  EvolutionInvariant'
    <2>1. [status |-> "PROPOSED", patch |-> patch] \in ProposalRows
      BY DEF ProposalStatuses, ProposalRows
    <2>2. EvolutionTypeOK'
      BY <1>2, <2>1 DEF Propose, EvolutionTypeOK
    <2>3. /\ proposals'[p] = [status |-> "PROPOSED", patch |-> patch]
          /\ \A q \in Proposals \ {p} : proposals'[q] = proposals[q]
          /\ UNCHANGED <<evaluating, workspace, proven, releases, releasing>>
          /\ proposals[p] = None
      BY <1>2 DEF Propose, EvolutionTypeOK
    <2>4. ASSUME NEW q \in Proposals PROVE ProposalKnown(q)'
      <3>1. CASE q # p
        BY <2>3, <3>1, StaysKnown
      <3>2. CASE q = p
        <4>1. evaluating[p] = "no"
          BY <2>3 DEF ProposalKnown
        <4> QED BY <2>3, <3>2, <4>1 DEF ProposalKnown
      <3> QED BY <3>1, <3>2
    <2> QED BY <2>2, <2>3, <2>4 DEF ReleasesKnown
  <1>3. ASSUME NEW p \in Proposals, BuildCandidate(p) PROVE EvolutionInvariant'
    <2>1. /\ workspace'[p] = Candidate(p) /\ evaluating'[p] = "static"
          /\ \A q \in Proposals \ {p} : workspace'[q] = workspace[q] /\ evaluating'[q] = evaluating[q]
          /\ UNCHANGED <<proposals, proven, releases, releasing, pointer>>
          /\ releasing = None /\ proposals[p] # None
      BY <1>3 DEF BuildCandidate, At, EvolutionTypeOK
    <2>2. EvolutionTypeOK'
      BY <1>3, <2>1 DEF BuildCandidate, At, EvolutionTypeOK
    <2>3. ASSUME NEW q \in Proposals PROVE ProposalKnown(q)'
      <3>1. CASE q # p
        BY <2>1, <3>1, StaysKnown
      <3>2. CASE q = p
        BY <2>1, <3>2 DEF ProposalKnown, Candidate
      <3> QED BY <3>1, <3>2
    <2> QED BY <2>1, <2>2, <2>3 DEF ReleasesKnown
  <1>4. ASSUME NEW p \in Proposals, StaticValidate(p) PROVE EvolutionInvariant'
    <2>0. proposals[p] # None /\ workspace[p] = Candidate(p)
      BY <1>4 DEF StaticValidate, ProposalKnown
    <2>1. UNCHANGED <<workspace, releases, pointer, releasing, proven>>
      BY <1>4 DEF StaticValidate
    <2>2. ASSUME NEW status \in {"STATIC_VALIDATED", "REJECTED"}, SetStatus(p, status),
                 NEW stage \in {"golden", "no"}, At(p, stage)
          PROVE  EvolutionInvariant'
      BY <2>0, <2>1, <2>2, VerdictStep DEF ProposalStatuses, ReleasesKnown
    <2>3. CASE At(p, "no") /\ UNCHANGED proposals
      <3>1. EvolutionTypeOK'
        BY <2>1, <2>3 DEF At, EvolutionTypeOK
      <3>2. ASSUME NEW q \in Proposals PROVE ProposalKnown(q)'
        BY <2>1, <2>3 DEF At, EvolutionTypeOK, ProposalKnown, Candidate
      <3> QED BY <3>1, <3>2, <2>1 DEF ReleasesKnown
    <2> QED BY <1>4, <2>2, <2>3 DEF StaticValidate
  <1>5. ASSUME NEW p \in Proposals, ReplayValidate(p) PROVE EvolutionInvariant'
    <2>0. proposals[p] # None /\ workspace[p] = Candidate(p)
      BY <1>5 DEF ReplayValidate, ProposalKnown
    <2>1. UNCHANGED <<workspace, releases, pointer, releasing, proven>>
      BY <1>5 DEF ReplayValidate
    <2>2. ASSUME NEW status \in {"REPLAY_VALIDATED", "REJECTED"}, SetStatus(p, status),
                 NEW stage \in {"paper", "no"}, At(p, stage),
                 stage = "paper" => Sound(workspace[p])
          PROVE  EvolutionInvariant'
      BY <2>0, <2>1, <2>2, VerdictStep DEF ProposalStatuses, ReleasesKnown
    <2> QED BY <1>5, <2>2 DEF ReplayValidate, Sound
  <1>6. ASSUME NEW p \in Proposals, NEW e \in PaperEvidence, PaperValidate(p, e)
        PROVE  EvolutionInvariant'
    <2>0. proposals[p] # None /\ workspace[p] = Candidate(p) /\ Sound(workspace[p])
      BY <1>6 DEF PaperValidate, ProposalKnown
    <2>1. UNCHANGED <<workspace, releases, pointer, releasing>> /\ At(p, "no")
      BY <1>6 DEF PaperValidate
    <2>2. CASE PaperPasses(e)
      <3>1. SetStatus(p, "PAPER_VALIDATED") /\ proven' = proven \cup {workspace[p]}
        BY <1>6, <2>2 DEF PaperValidate
      <3> QED BY <3>1, <2>0, <2>1, VerdictStep DEF ProposalStatuses, ReleasesKnown
    <2>3. CASE ~PaperPasses(e)
      <3>1. SetStatus(p, "REJECTED") /\ proven' = proven
        BY <1>6, <2>3 DEF PaperValidate
      <3> QED BY <3>1, <2>0, <2>1, VerdictStep DEF ProposalStatuses, ReleasesKnown
    <2> QED BY <2>2, <2>3
  <1>7. ASSUME NEW p \in Proposals, PromoteUnapproved(p) PROVE EvolutionInvariant'
    <2>0. proposals[p] # None /\ workspace[p] = Candidate(p)
      BY <1>7 DEF PromoteUnapproved, Promotable, ProposalKnown
    <2>1. /\ UNCHANGED <<workspace, releases, pointer, releasing, proven>>
          /\ SetStatus(p, "APPROVED")
      BY <1>7 DEF PromoteUnapproved
    <2>2. At(p, "no")
      BY <1>7 DEF PromoteUnapproved, At, EvolutionTypeOK
    <2> QED BY <2>0, <2>1, <2>2, VerdictStep DEF ProposalStatuses, ReleasesKnown
  <1>8. ASSUME NEW p \in Proposals, PublishVersion(p) PROVE EvolutionInvariant'
    <2>0. proposals[p] # None /\ workspace[p] = Candidate(p) /\ Candidate(p) \in proven
      BY <1>8 DEF PublishVersion, Promotable, ProposalKnown
    <2>1. /\ proposals' \in [Proposals -> ProposalRows \cup {None}]
          /\ \A q \in Proposals \ {p} : proposals'[q] = proposals[q]
          /\ proposals'[p].status = "ACTIVE" /\ proposals'[p].patch = proposals[p].patch
          /\ proposals'[p] # None
      <3>1. SetStatus(p, "ACTIVE")
        BY <1>8 DEF PublishVersion
      <3> QED BY <3>1, <2>0, StatusSet DEF ProposalStatuses
    <2>2. /\ releases' = [releases EXCEPT ![BaseVersion + 1] = None] /\ releasing' = p
          /\ UNCHANGED <<workspace, evaluating, pointer, proven>>
      BY <1>8 DEF PublishVersion
    <2>3. EvolutionTypeOK'
      BY <2>1, <2>2 DEF EvolutionTypeOK
    <2>4. ASSUME NEW q \in Proposals PROVE ProposalKnown(q)'
      <3>1. CASE q # p
        BY <2>1, <2>2, <3>1, StaysKnown
      <3>2. CASE q = p
        BY <2>0, <2>1, <2>2, <3>2 DEF ProposalKnown, Candidate
      <3> QED BY <3>1, <3>2
    <2>5. ReleasesKnown'
      BY <2>0, <2>2 DEF ReleasesKnown, EvolutionTypeOK
    <2> QED BY <2>3, <2>4, <2>5
  <1>9. CASE CopyRelease
    <2>1. /\ releases' = [releases EXCEPT ![BaseVersion + 1] = workspace[releasing]]
          /\ releasing # None
          /\ UNCHANGED <<proposals, workspace, evaluating, pointer, releasing, proven>>
      BY <1>9 DEF CopyRelease
    <2>2. ReleasesKnown'
      BY <2>1 DEF ReleasesKnown, EvolutionTypeOK
    <2> QED BY <2>1, <2>2 DEF EvolutionTypeOK, ProposalKnown, Candidate
  <1>10. CASE MovePointer
    <2>1. /\ pointer' = [active |-> BaseVersion + 1, previous |-> pointer.active]
          /\ releasing' = None
          /\ UNCHANGED <<proposals, workspace, evaluating, releases, proven>>
      BY <1>10 DEF MovePointer
    <2> QED BY <2>1, <1>0 DEF EvolutionTypeOK, ProposalKnown, Candidate, ReleasesKnown
  <1>11. CASE RollbackService
    <2>1. UNCHANGED <<workspace, evaluating, releases, pointer, releasing, proven>>
      BY <1>11 DEF RollbackService
    <2>2. ASSUME NEW q \in Proposals, proposals[q] # None, proposals[q].status = "ACTIVE"
          PROVE  /\ proposals'[q] \in ProposalRows /\ proposals'[q].status = "ROLLED_BACK"
                 /\ proposals'[q].patch = proposals[q].patch
      <3>1. proposals'[q] = [proposals[q] EXCEPT !.status = "ROLLED_BACK"]
        BY <1>11, <2>2 DEF RollbackService
      <3>2. proposals[q] \in ProposalRows
        BY <2>2 DEF EvolutionTypeOK
      <3> QED BY <3>1, <3>2 DEF ProposalRows, ProposalStatuses
    <2>3. ASSUME NEW q \in Proposals, ~(proposals[q] # None /\ proposals[q].status = "ACTIVE")
          PROVE  proposals'[q] = proposals[q]
      BY <1>11, <2>3 DEF RollbackService
    <2>4. EvolutionTypeOK'
      <3>1. proposals' = [q \in Proposals |-> proposals'[q]]
        BY <1>11 DEF RollbackService
      <3>2. \A q \in Proposals : proposals'[q] \in ProposalRows \cup {None}
        BY <2>2, <2>3 DEF EvolutionTypeOK
      <3> QED BY <3>1, <3>2, <2>1 DEF EvolutionTypeOK
    <2>5. ASSUME NEW q \in Proposals PROVE ProposalKnown(q)'
      <3>1. CASE proposals[q] # None /\ proposals[q].status = "ACTIVE"
        BY <3>1, <2>1, <2>2, SkillEvolutionAssumption DEF ProposalKnown, Candidate
      <3>2. CASE ~(proposals[q] # None /\ proposals[q].status = "ACTIVE")
        BY <3>2, <2>1, <2>3, StaysKnown
      <3> QED BY <3>1, <3>2
    <2> QED BY <2>1, <2>4, <2>5 DEF ReleasesKnown
  <1>12. CASE RollbackPointer
    BY <1>12 DEF RollbackPointer, EvolutionTypeOK, ProposalKnown, Candidate, ReleasesKnown
  <1>13. CASE Restart
    <2>1. /\ proposals' = [p \in Proposals |-> None] /\ evaluating' = [p \in Proposals |-> "no"]
          /\ releasing' = None /\ UNCHANGED <<workspace, releases, pointer, proven>>
      BY <1>13 DEF Restart
    <2> QED BY <2>1 DEF EvolutionTypeOK, ProposalKnown, ReleasesKnown
  <1> QED BY <1>1, <1>2, <1>3, <1>4, <1>5, <1>6, <1>7, <1>8, <1>9, <1>10, <1>11, <1>12, <1>13
          DEF EvolutionNext

\* The pointer, the releases and the proposals are what they should be.
THEOREM EvolutionInvariance == EvolutionSpec => []EvolutionInvariant
  <1>1. EvolutionInit => EvolutionInvariant
    BY DEF EvolutionInit, EvolutionInvariant, EvolutionTypeOK, ProposalKnown, ReleasesKnown, NoPointer
  <1> QED BY <1>1, EvolutionStep, PTL DEF EvolutionSpec

\* What passed the paper gate passed the golden cases and the replay as it
\* stands: no rebuild, rejection, rollback or restart in between lets a
\* contract skip them (run_full_evaluation).
THEOREM ProvenPassedEveryGate == EvolutionSpec => [](\A contract \in proven : Sound(contract))
  <1>1. EvolutionInvariant => \A contract \in proven : Sound(contract)
    BY DEF EvolutionInvariant, ReleasesKnown
  <1> QED BY <1>1, EvolutionInvariance, PTL

\* What active.json names passed every gate, or is a release that was cut off.
THEOREM ReleasedWasValidated == EvolutionSpec => []ReleasedIsValidated
  <1>1. EvolutionInvariant => ReleasedIsValidated
    BY DEF EvolutionInvariant, EvolutionTypeOK, ReleasesKnown, ReleasedIsValidated
  <1> QED BY <1>1, EvolutionInvariance, PTL

----------------------------------------------------------------------------
(* Regime state machine.                                                   *)

\* Rows of the history.
PeriodRows == [regime : Classes, from : Days, to : Days \cup {Missing}]

\* Evaluations.
SeenRows == [day : Days, candidate : Classes, founded : BOOLEAN]

\* The history row a state row has open.
Opens(stateRow) == [regime |-> stateRow.confirmed, from |-> stateRow.since, to |-> Missing]

\* The one open row of the history is that of the state row.
OneOpen(stateRow) ==
    \E i \in DOMAIN periods : /\ periods[i] = Opens(stateRow)
                              /\ \A j \in DOMAIN periods : periods[j].to = Missing => j = i

\* Every row of the history is closed.
NoneOpen == \A j \in DOMAIN periods : periods[j].to # Missing

\* A candidate's days are the last evaluations, all of them well founded.
Counts(stateRow) ==
    /\ stateRow \in RegimeRows
    /\ stateRow.candidateDays <= Len(seen)
    /\ \A e \in LastSeen(stateRow.candidateDays) : e.candidate = stateRow.candidate /\ e.founded

\* A confirmed regime was the candidate of the days the machine asks for.
HasItsDays(stateRow) ==
    /\ Len(seen) >= NeededDays(stateRow.confirmed)
    /\ \A e \in LastSeen(NeededDays(stateRow.confirmed)) : e.candidate = stateRow.confirmed /\ e.founded

\* The state row and the history agree, as long as nothing is being written.
Agree(stateRow) ==
    /\ Counts(stateRow) /\ OneOpen(stateRow)
    /\ stateRow.days = 1 /\ Len(periods) > 1 => HasItsDays(stateRow)

\* What an advance has still to write.
AtRest == writing = <<>> /\ IF regime = Missing THEN periods = <<>> ELSE Agree(regime)

\* The write in flight: a state row alone.
Saving == \E stateRow : writing = <<[save |-> stateRow]>> /\ Agree(stateRow)

\* The write in flight closes the open row, adds one and saves the state.
Closing ==
    \E day \in Days : \E stateRow :
        /\ writing = <<[close |-> day], [save |-> stateRow], [add |-> Opens(stateRow)]>>
        /\ Counts(stateRow) /\ HasItsDays(stateRow) /\ \E old : OneOpen(old)

\* The write in flight, with the open row closed.
Renewing ==
    \E stateRow : /\ writing = <<[save |-> stateRow], [add |-> Opens(stateRow)]>>
                  /\ Counts(stateRow) /\ NoneOpen
                  /\ periods # <<>> => HasItsDays(stateRow)

\* The write in flight, with the new row added.
Adding ==
    /\ writing = <<[add |-> Opens(regime)]>>
    /\ Counts(regime) /\ NoneOpen
    /\ periods # <<>> => HasItsDays(regime)

\* The inductive invariant of the state machine.
RegimeInvariant ==
    /\ stops \in Nat
    /\ stops = 0 => /\ regime \in RegimeRows \cup {Missing}
                    /\ periods \in Seq(PeriodRows) /\ seen \in Seq(SeenRows)
                    /\ AtRest \/ Saving \/ Closing \/ Renewing \/ Adding

----------------------------------------------------------------------------

\* Small sets are finite.
LEMMA FiveIsFinite == \A a, b, c, d, e : IsFiniteSet({a, b, c, d, e})
  <1> SUFFICES ASSUME NEW a, NEW b, NEW c, NEW d, NEW e PROVE IsFiniteSet({a, b, c, d, e})
    OBVIOUS
  <1>1. IsFiniteSet({a})
    BY FS_Singleton
  <1>2. IsFiniteSet({a} \cup {b})
    BY <1>1, FS_AddElement
  <1>3. IsFiniteSet(({a} \cup {b}) \cup {c})
    BY <1>2, FS_AddElement
  <1>4. IsFiniteSet((({a} \cup {b}) \cup {c}) \cup {d})
    BY <1>3, FS_AddElement
  <1>5. IsFiniteSet(((({a} \cup {b}) \cup {c}) \cup {d}) \cup {e})
    BY <1>4, FS_AddElement
  <1>6. {a, b, c, d, e} = ((({a} \cup {b}) \cup {c}) \cup {d}) \cup {e}
    OBVIOUS
  <1> QED BY <1>5, <1>6

\* Six values are finitely many.
LEMMA SixIsFinite == \A a, b, c, d, e, f : IsFiniteSet({a, b, c, d, e, f})
  <1> SUFFICES ASSUME NEW a, NEW b, NEW c, NEW d, NEW e, NEW f PROVE IsFiniteSet({a, b, c, d, e, f})
    OBVIOUS
  <1>1. IsFiniteSet({a, b, c, d, e} \cup {f})
    BY FiveIsFinite, FS_AddElement
  <1>2. {a, b, c, d, e, f} = {a, b, c, d, e} \cup {f}
    OBVIOUS
  <1> QED BY <1>1, <1>2

\* A regime that was classified was classified from one of its own scores:
\* without any of them its membership is the floor of two hundredths, and
\* one missing slot alone outweighs that.
LEMMA PrimaryIsFounded ==
    ASSUME NEW f \in FeatureSets
    PROVE  Founded(Primary(f), f)
  <1> SUFFICES ASSUME Primary(f) \in Regimes, \A name \in Required(Primary(f)) : f[name] = Missing
               PROVE  FALSE
    BY DEF Founded
  <1> DEFINE r == Primary(f)
  <1>0. f \in [FeatureNames -> Int \cup {Missing}] /\ Missing \notin Int
    BY RegimeAssumption
  <1>1. r \in {"high_position_retreat", "downtrend_market", "crowding_market", "range_market",
               "rotation_market"}
    BY DEF Regimes, RegimeOrder
  <1>2. r = Best(f) /\ ~(UnknownMass(f) > Membership(Best(f), f))
    <2>1. r # "UNKNOWN"
      BY <1>1
    <2> QED BY <2>1 DEF Primary
  <1> HIDE DEF r
  <1>3. \A name \in Required(r) : f[name] = Missing
    BY DEF r
  <1>4. Membership(r, f) = 200
    <2>1. CASE r = "high_position_retreat"
      BY <2>1, <1>3 DEF Membership, Required, Term
    <2>2. CASE r = "downtrend_market"
      BY <2>2, <1>3 DEF Membership, Required, Term
    <2>3. CASE r = "crowding_market"
      BY <2>3, <1>3 DEF Membership, Required, Term
    <2>4. CASE r = "range_market"
      BY <2>4, <1>3 DEF Membership, Required, Term
    <2>5. CASE r = "rotation_market"
      BY <2>5, <1>3 DEF Membership, Required, Term
    <2> QED BY <1>1, <2>1, <2>2, <2>3, <2>4, <2>5
  <1>5. \E name \in Required(r) : name \in FeatureNames
    BY <1>1 DEF Required, FeatureNames
  <1>6. PICK name \in Required(r) : name \in FeatureNames
    BY <1>5
  <1>7. <<r, name>> \in MissingSlots(f)
    <2>1. r \in Regimes /\ DOMAIN f = FeatureNames
      BY <1>0 DEF r
    <2> QED BY <2>1, <1>3, <1>6 DEF MissingSlots
  <1>8. IsFiniteSet(MissingSlots(f)) /\ Cardinality(MissingSlots(f)) \in Nat
    <2>1. IsFiniteSet(Regimes)
      <3>1. Regimes = {"high_position_retreat", "downtrend_market", "crowding_market", "range_market",
                       "rotation_market"}
        BY DEF Regimes, RegimeOrder
      <3> QED BY <3>1, FiveIsFinite
    <2>2. IsFiniteSet(DOMAIN f)
      <3>1. DOMAIN f = FeatureNames
        BY <1>0
      <3>2. IsFiniteSet({"retreat", "drawdown", "breadth", "crowding", "range", "rotation"})
        BY SixIsFinite
      <3> QED BY <3>1, <3>2 DEF FeatureNames
    <2>3. IsFiniteSet(Regimes \X DOMAIN f)
      BY <2>1, <2>2, FS_Product
    <2>4. MissingSlots(f) \in SUBSET (Regimes \X DOMAIN f)
      BY DEF MissingSlots
    <2> QED BY <2>3, <2>4, FS_Subset, FS_CardinalityType
  <1>9. Cardinality(MissingSlots(f)) >= 1
    BY <1>7, <1>8, FS_EmptySet
  <1>10. UnknownMass(f) >= 1250
    BY <1>8, <1>9 DEF UnknownMass
  <1>11. UnknownMass(f) \in Int
    BY <1>8 DEF UnknownMass
  <1> QED BY <1>2, <1>4, <1>10, <1>11

\* The days a regime needs are a number.
LEMMA NeededIsNat == \A r : NeededDays(r) \in Nat
  BY RegimeAssumption DEF NeededDays

\* One more evaluation: the last n + 1 are the last n and the new one.
LEMMA OneMoreSeen ==
    ASSUME seen \in Seq(SeenRows), NEW e \in SeenRows, seen' = Append(seen, e), NEW n \in Nat
    PROVE  /\ seen' \in Seq(SeenRows) /\ Len(seen') = Len(seen) + 1
           /\ \A x \in LastSeen(n + 1)' : x = e \/ x \in LastSeen(n)
  <1>1. seen' \in Seq(SeenRows) /\ Len(seen') = Len(seen) + 1 /\ Len(seen) \in Nat
    OBVIOUS
  <1>2. ASSUME NEW x \in LastSeen(n + 1)' PROVE x = e \/ x \in LastSeen(n)
    <2>1. PICK i \in DOMAIN seen' : i > Len(seen') - (n + 1) /\ x = seen'[i]
      BY DEF LastSeen
    <2>2. i \in 1 .. Len(seen) + 1 /\ i > Len(seen) - n
      BY <2>1, <1>1
    <2>3. CASE i = Len(seen) + 1
      BY <2>1, <2>3
    <2>4. CASE i # Len(seen) + 1
      <3>1. i \in DOMAIN seen /\ seen'[i] = seen[i]
        BY <2>2, <2>4, <1>1
      <3> QED BY <2>1, <2>2, <3>1 DEF LastSeen
    <2> QED BY <2>3, <2>4
  <1> QED BY <1>1, <1>2

\* Fewer of the last evaluations are among more of them; of none there is none.
LEMMA FewerSeen ==
    ASSUME seen \in Seq(SeenRows), NEW m \in Nat, NEW n \in Nat, m <= n
    PROVE  LastSeen(m) \subseteq LastSeen(n) /\ LastSeen(0) = {}
  <1>1. Len(seen) \in Nat /\ DOMAIN seen = 1 .. Len(seen)
    OBVIOUS
  <1>2. \A j \in DOMAIN seen : j > Len(seen) - m => j > Len(seen) - n
    BY <1>1
  <1>3. \A j \in DOMAIN seen : ~(j > Len(seen) - 0)
    BY <1>1
  <1> QED BY <1>2, <1>3 DEF LastSeen

\* The same of the evaluations after a step.
LEMMA FewerSeenNext ==
    ASSUME seen' \in Seq(SeenRows)
    PROVE  /\ \A m, n \in Nat : m <= n => LastSeen(m)' \subseteq LastSeen(n)'
           /\ LastSeen(0)' = {}
  <1>1. Len(seen') \in Nat /\ DOMAIN seen' = 1 .. Len(seen')
    OBVIOUS
  <1>2. ASSUME NEW m \in Nat, NEW n \in Nat, m <= n PROVE LastSeen(m)' \subseteq LastSeen(n)'
    <2>1. \A j \in DOMAIN seen' : j > Len(seen') - m => j > Len(seen') - n
      BY <1>1, <1>2
    <2> QED BY <2>1 DEF LastSeen
  <1>3. \A j \in DOMAIN seen' : ~(j > Len(seen') - 0)
    BY <1>1
  <1> QED BY <1>2, <1>3 DEF LastSeen

\* A row that a day was counted on, and the three rows it may become.
LEMMA RowsOfADay ==
    ASSUME NEW stateRow \in RegimeRows, NEW day \in Days, NEW f \in FeatureSets
    PROVE  LET counted == CountedRow(stateRow, day)
               watched == Watched(counted, Primary(f))
               kept == Reaffirmed(counted, Confidence(f))
               fresh == Confirmed(Primary(f), day, Confidence(f))
           IN  /\ kept \in RegimeRows /\ kept.candidateDays = 0 /\ kept.days > 1
               /\ kept.confirmed = stateRow.confirmed /\ kept.since = stateRow.since
               /\ watched \in RegimeRows /\ watched.candidate = Primary(f) /\ watched.days > 1
               /\ watched.confirmed = stateRow.confirmed /\ watched.since = stateRow.since
               /\ \/ watched.candidateDays = 1
                  \/ watched.candidateDays = stateRow.candidateDays + 1 /\ stateRow.candidate = Primary(f)
               /\ fresh \in RegimeRows /\ fresh.candidateDays = 0 /\ fresh.days = 1
               /\ fresh.confirmed = Primary(f) /\ fresh.since = day
  <1> DEFINE counted == CountedRow(stateRow, day)
             watched == Watched(counted, Primary(f))
             kept == Reaffirmed(counted, Confidence(f))
             fresh == Confirmed(Primary(f), day, Confidence(f))
  <1>0. Primary(f) \in Classes /\ Confidence(f) \in {Confidence(g) : g \in FeatureSets}
    BY DEF Classes
  <1>1. /\ counted \in RegimeRows /\ counted.days > 1
        /\ counted.confirmed = stateRow.confirmed /\ counted.since = stateRow.since
        /\ counted.candidate = stateRow.candidate /\ counted.candidateDays = stateRow.candidateDays
    <2>1. stateRow.days + 1 \in Nat \ {0} /\ stateRow.days + 1 > 1
      BY DEF RegimeRows
    <2> QED BY <2>1 DEF CountedRow, RegimeRows
  <1>2. /\ fresh \in RegimeRows /\ fresh.candidateDays = 0 /\ fresh.days = 1
        /\ fresh.confirmed = Primary(f) /\ fresh.since = day
    BY <1>0 DEF Confirmed, RegimeRows
  <1> HIDE DEF counted
  <1>3. /\ kept \in RegimeRows /\ kept.candidateDays = 0 /\ kept.days > 1
        /\ kept.confirmed = stateRow.confirmed /\ kept.since = stateRow.since
    BY <1>0, <1>1 DEF Reaffirmed, RegimeRows
  <1>4. /\ watched \in RegimeRows /\ watched.candidate = Primary(f) /\ watched.days > 1
        /\ watched.confirmed = stateRow.confirmed /\ watched.since = stateRow.since
        /\ \/ watched.candidateDays = 1
           \/ watched.candidateDays = stateRow.candidateDays + 1 /\ stateRow.candidate = Primary(f)
    <2>1. CASE Primary(f) = counted.candidate
      <3>1. watched = [counted EXCEPT !.candidateDays = @ + 1]
        BY <2>1 DEF Watched
      <3>2. counted.candidateDays + 1 \in Nat
        BY <1>1 DEF RegimeRows
      <3> QED BY <3>1, <3>2, <2>1, <1>0, <1>1 DEF RegimeRows
    <2>2. CASE Primary(f) # counted.candidate
      <3>1. watched = [counted EXCEPT !.candidate = Primary(f), !.candidateDays = 1]
        BY <2>2 DEF Watched
      <3>2. watched \in RegimeRows
        <4>1. Primary(f) \in Classes \cup {Missing} /\ 1 \in Nat
          BY <1>0
        <4>2. [counted EXCEPT !.candidate = Primary(f)] \in RegimeRows
          BY <4>1, <1>1 DEF RegimeRows
        <4>3. [[counted EXCEPT !.candidate = Primary(f)] EXCEPT !.candidateDays = 1] \in RegimeRows
          BY <4>1, <4>2 DEF RegimeRows
        <4>4. watched = [[counted EXCEPT !.candidate = Primary(f)] EXCEPT !.candidateDays = 1]
          BY <3>1, <1>1 DEF RegimeRows
        <4> QED BY <4>3, <4>4
      <3>3. /\ watched.candidate = Primary(f) /\ watched.candidateDays = 1
            /\ watched.days = counted.days
            /\ watched.confirmed = counted.confirmed /\ watched.since = counted.since
        BY <3>1, <1>1 DEF RegimeRows
      <3> QED BY <3>2, <3>3, <1>1
    <2> QED BY <2>1, <2>2
  <1> QED BY <1>2, <1>3, <1>4 DEF counted

\* advance, while no process has stopped.
LEMMA AdvanceStep ==
    ASSUME RegimeInvariant, stops = 0, NEW day \in Days, NEW f \in FeatureSets, AdvanceRegime(day, f)
    PROVE  /\ regime' \in RegimeRows \cup {Missing}
           /\ periods' \in Seq(PeriodRows) /\ seen' \in Seq(SeenRows)
           /\ (Saving \/ Closing \/ Renewing)'
  <1> DEFINE counted == CountedRow(regime, day)
             watched == Watched(counted, Primary(f))
             kept == Reaffirmed(counted, Confidence(f))
             fresh == Confirmed(Primary(f), day, Confidence(f))
             opens == [regime |-> Primary(f), from |-> day, to |-> Missing]
             today == [day |-> day, candidate |-> Primary(f), founded |-> Founded(Primary(f), f)]
  <1>0. /\ writing = <<>> /\ UNCHANGED <<regime, periods>>
        /\ regime \in RegimeRows \cup {Missing} /\ periods \in Seq(PeriodRows) /\ seen \in Seq(SeenRows)
        /\ Len(seen) \in Nat
    BY DEF RegimeInvariant, AdvanceRegime, NothingToWrite
  <1>1. IF regime = Missing THEN periods = <<>> ELSE Agree(regime)
    <2>1. ~Saving /\ ~Closing /\ ~Renewing /\ ~Adding
      BY <1>0 DEF Saving, Closing, Renewing, Adding
    <2> QED BY <2>1 DEF RegimeInvariant, AtRest
  <1>2. today \in SeenRows /\ today.founded /\ today.candidate = Primary(f)
    BY PrimaryIsFounded DEF SeenRows, Classes, Founded
  <1>3. CASE regime # Missing /\ regime.last = day
    <2>1. writing' = <<[save |-> regime]>> /\ seen' = seen
      BY <1>3 DEF AdvanceRegime
    <2>2. Agree(regime)'
      BY <1>0, <1>1, <1>3, <2>1 DEF Agree, Counts, OneOpen, HasItsDays, LastSeen
    <2> QED BY <2>1, <2>2, <1>0 DEF Saving
  <1>4. ASSUME ~(regime # Missing /\ regime.last = day)
        PROVE  /\ seen' = Append(seen, today)
               /\ seen' \in Seq(SeenRows) /\ Len(seen') = Len(seen) + 1
               /\ \A n \in Nat : \A x \in LastSeen(n + 1)' : x = today \/ x \in LastSeen(n)
               /\ LastSeen(0)' = {}
    <2>1. seen' = Append(seen, today)
      BY <1>4 DEF AdvanceRegime
    <2> HIDE DEF today
    <2>2. /\ seen' \in Seq(SeenRows) /\ Len(seen') = Len(seen) + 1
          /\ \A n \in Nat : \A x \in LastSeen(n + 1)' : x = today \/ x \in LastSeen(n)
      BY <2>1, <1>0, <1>2, OneMoreSeen
    <2>3. LastSeen(0)' = {}
      BY <2>2, FewerSeenNext
    <2> QED BY <2>1, <2>2, <2>3
  <1>5. fresh \in RegimeRows /\ fresh.candidateDays = 0 /\ fresh.days = 1
        /\ fresh.confirmed = Primary(f) /\ fresh.since = day
    BY DEF Confirmed, RegimeRows, Classes
  <1>6. opens = Opens(fresh)
    BY <1>5 DEF Opens
  <1>f. PICK n : n = fresh
    OBVIOUS
  <1>7. CASE regime = Missing
    <2>1. writing' = <<[save |-> n], [add |-> Opens(n)]>>
      BY <1>7, <1>6, <1>f DEF AdvanceRegime
    <2> HIDE DEF fresh, opens, today
    <2>2. Counts(n)'
      BY <1>0, <1>4, <1>5, <1>7, <1>f DEF Counts
    <2>3. NoneOpen' /\ periods' = <<>>
      BY <1>0, <1>1, <1>7 DEF NoneOpen
    <2>4. Renewing'
      BY <2>1, <2>2, <2>3 DEF Renewing, Opens
    <2> QED BY <2>4, <1>0, <1>4, <1>7
  <1>8. CASE regime # Missing /\ regime.last # day
    <2>0. regime \in RegimeRows /\ Agree(regime) /\ Counts(regime)
      BY <1>0, <1>1, <1>8 DEF Agree
    <2>1. /\ kept \in RegimeRows /\ kept.candidateDays = 0 /\ kept.days > 1
          /\ kept.confirmed = regime.confirmed /\ kept.since = regime.since
          /\ watched \in RegimeRows /\ watched.candidate = Primary(f) /\ watched.days > 1
          /\ watched.confirmed = regime.confirmed /\ watched.since = regime.since
          /\ \/ watched.candidateDays = 1
             \/ watched.candidateDays = regime.candidateDays + 1 /\ regime.candidate = Primary(f)
      BY <2>0, RowsOfADay
    <2>2. \/ writing' = <<[save |-> kept]>>
          \/ writing' = <<[save |-> watched]>>
          \/ /\ writing' = <<[close |-> day], [save |-> fresh], [add |-> opens]>>
             /\ Switches(watched, Primary(f), Confidence(f))
      <3>1. writing' = IF Primary(f) = regime.confirmed THEN <<[save |-> kept]>>
                       ELSE IF Switches(watched, Primary(f), Confidence(f))
                       THEN <<[close |-> day], [save |-> fresh], [add |-> opens]>>
                       ELSE <<[save |-> watched]>>
        BY <1>8 DEF AdvanceRegime
      <3> QED BY <3>1
    <2>r. PICK k, w, r : k = kept /\ w = watched /\ r = regime
      OBVIOUS
    <2>a. /\ k \in RegimeRows /\ k.candidateDays = 0 /\ k.days > 1
          /\ k.confirmed = r.confirmed /\ k.since = r.since
          /\ w \in RegimeRows /\ w.candidate = Primary(f) /\ w.days > 1
          /\ w.confirmed = r.confirmed /\ w.since = r.since
          /\ \/ w.candidateDays = 1
             \/ w.candidateDays = r.candidateDays + 1 /\ r.candidate = Primary(f)
          /\ r \in RegimeRows /\ Agree(r) /\ Counts(r)
          /\ n \in RegimeRows /\ n.candidateDays = 0 /\ n.days = 1
          /\ n.confirmed = Primary(f) /\ n.since = day
      BY <2>0, <2>1, <2>r, <1>5, <1>f
    <2>b. \/ writing' = <<[save |-> k]>>
          \/ writing' = <<[save |-> w]>>
          \/ /\ writing' = <<[close |-> day], [save |-> n], [add |-> Opens(n)]>>
             /\ Switches(w, Primary(f), Confidence(f))
      BY <2>2, <2>r, <1>f, <1>6
    <2> HIDE DEF counted, watched, kept, fresh, opens, today
    <2>3. \A stateRow : stateRow.confirmed = r.confirmed /\ stateRow.since = r.since => OneOpen(stateRow)'
      BY <2>a, <1>0 DEF Agree, OneOpen, Opens
    <2>4. Counts(w)'
      <3>0. r.candidateDays \in Nat /\ r.candidateDays <= Len(seen)
        BY <2>a DEF Counts, RegimeRows
      <3>1. CASE w.candidateDays = 1
        <4>1. \A x \in LastSeen(0 + 1)' : x = today \/ x \in LastSeen(0)
          BY <1>4, <1>8
        <4>2. LastSeen(0) = {} /\ 0 + 1 = 1
          BY <1>0, FewerSeen
        <4> QED BY <3>1, <4>1, <4>2, <2>a, <1>0, <1>2, <1>4, <1>8 DEF Counts
      <3>2. CASE w.candidateDays = r.candidateDays + 1 /\ r.candidate = Primary(f)
        <4>1. \A x \in LastSeen(r.candidateDays + 1)' : x = today \/ x \in LastSeen(r.candidateDays)
          BY <3>0, <1>4, <1>8
        <4>2. \A x \in LastSeen(r.candidateDays + 1)' : x.candidate = Primary(f) /\ x.founded
          BY <4>1, <3>2, <2>a, <1>2 DEF Counts
        <4>3. w.candidateDays <= Len(seen')
          BY <3>0, <3>2, <1>0, <1>4, <1>8
        <4> QED BY <3>2, <4>2, <4>3, <2>a DEF Counts
      <3> QED BY <2>a, <3>1, <3>2
    <2>5. CASE writing' = <<[save |-> k]>>
      <3>1. Counts(k)'
        BY <2>a, <1>0, <1>4, <1>8 DEF Counts
      <3>2. Agree(k)'
        <4>1. k.days # 1
          BY <2>a DEF RegimeRows
        <4> QED BY <3>1, <4>1, <2>a, <2>3 DEF Agree
      <3> QED BY <2>5, <3>2, <1>0, <1>4, <1>8 DEF Saving
    <2>6. CASE writing' = <<[save |-> w]>>
      <3>1. Agree(w)'
        <4>1. w.days # 1
          BY <2>a DEF RegimeRows
        <4> QED BY <2>4, <4>1, <2>a, <2>3 DEF Agree
      <3> QED BY <2>6, <3>1, <1>0, <1>4, <1>8 DEF Saving
    <2>7. CASE /\ writing' = <<[close |-> day], [save |-> n], [add |-> Opens(n)]>>
               /\ Switches(w, Primary(f), Confidence(f))
      <3>1. w.candidateDays >= NeededDays(Primary(f)) /\ NeededDays(Primary(f)) \in Nat
            /\ w.candidateDays \in Nat /\ Len(seen') \in Nat
        BY <2>7, <2>a, <1>0, <1>4, <1>8, NeededIsNat DEF Switches, RegimeRows
      <3>2. LastSeen(NeededDays(Primary(f)))' \subseteq LastSeen(w.candidateDays)'
        BY <3>1, <1>4, <1>8, FewerSeenNext
      <3>3. HasItsDays(n)'
        BY <3>1, <3>2, <2>a, <2>4, <2>a DEF HasItsDays, Counts
      <3>4. Counts(n)'
        BY <2>a, <1>0, <1>4, <1>8 DEF Counts
      <3>5. OneOpen(r)'
        BY <2>3, <1>0
      <3>6. Closing'
        BY <2>7, <3>3, <3>4, <3>5 DEF Closing, Opens
      <3> QED BY <3>6, <1>0, <1>4, <1>8
    <2> QED BY <2>b, <2>5, <2>6, <2>7
  <1> QED BY <1>3, <1>7, <1>8

\* A transaction, while no process has stopped.
LEMMA WriteStep ==
    ASSUME RegimeInvariant, stops = 0, Write
    PROVE  /\ regime' \in RegimeRows \cup {Missing}
           /\ periods' \in Seq(PeriodRows) /\ seen' \in Seq(SeenRows)
           /\ (AtRest \/ Renewing \/ Adding)'
  <1>0. /\ writing # <<>> /\ seen' = seen /\ writing' = Tail(writing)
        /\ regime \in RegimeRows \cup {Missing} /\ periods \in Seq(PeriodRows) /\ seen \in Seq(SeenRows)
    BY DEF RegimeInvariant, Write, NothingToWrite
  <1>1. \A stateRow : (Counts(stateRow) => Counts(stateRow)') /\ (HasItsDays(stateRow) => HasItsDays(stateRow)')
    BY <1>0 DEF Counts, HasItsDays, LastSeen
  <1>2. CASE Saving
    <2>1. PICK stateRow : writing = <<[save |-> stateRow]>> /\ Agree(stateRow)
      BY <1>2 DEF Saving
    <2>2. regime' = stateRow /\ periods' = periods /\ writing' = <<>>
      BY <1>0, <2>1 DEF Write
    <2>3. stateRow \in RegimeRows /\ stateRow # Missing
      BY <2>1, RegimeAssumption DEF Agree, Counts
    <2>4. Agree(stateRow)'
      BY <2>1, <2>2, <1>1 DEF Agree, OneOpen
    <2>5. Agree(regime)'
      BY <2>2, <2>4
    <2> QED BY <2>2, <2>3, <2>5, <1>0 DEF AtRest
  <1>3. CASE Closing
    <2>0. PICK day \in Days : \E stateRow :
            /\ writing = <<[close |-> day], [save |-> stateRow], [add |-> Opens(stateRow)]>>
            /\ Counts(stateRow) /\ HasItsDays(stateRow) /\ \E old : OneOpen(old)
      BY <1>3 DEF Closing
    <2>1. PICK stateRow :
            /\ writing = <<[close |-> day], [save |-> stateRow], [add |-> Opens(stateRow)]>>
            /\ Counts(stateRow) /\ HasItsDays(stateRow) /\ \E old : OneOpen(old)
      BY <2>0
    <2>2. regime' = regime /\ periods' = HistoryClosed(day)
          /\ writing' = <<[save |-> stateRow], [add |-> Opens(stateRow)]>>
      BY <1>0, <2>1 DEF Write
    <2>3. PICK i \in DOMAIN periods : /\ periods[i].to = Missing
                                     /\ \A j \in DOMAIN periods : periods[j].to = Missing => j = i
      BY <2>1 DEF OneOpen, Opens
    <2>4. {j \in DOMAIN periods : periods[j].to = Missing} = {i} /\ i <= i
      BY <2>3, <1>0
    <2>5. HistoryClosed(day) = [periods EXCEPT ![i].to = day]
      <3>1. (CHOOSE k \in {i} : \A j \in {i} : j <= k) = i
        BY <2>4
      <3>2. {j \in DOMAIN periods : periods[j].to = Missing} # {}
        BY <2>4
      <3>3. HistoryClosed(day) = [periods EXCEPT ![CHOOSE k \in {i} : \A j \in {i} : j <= k].to = day]
        BY <2>4, <3>2 DEF HistoryClosed
      <3> QED BY <3>1, <3>3
    <2>6. periods' \in Seq(PeriodRows) /\ DOMAIN periods' = DOMAIN periods /\ Len(periods') = Len(periods)
          /\ \A j \in DOMAIN periods : periods'[j] = IF j = i THEN [periods[j] EXCEPT !.to = day] ELSE periods[j]
      <3>1. periods[i] \in PeriodRows
        BY <2>3, <1>0
      <3>2. PICK p \in PeriodRows : p = periods[i]
        BY <3>1
      <3>3. [p EXCEPT !.to = day] \in PeriodRows
        BY DEF PeriodRows
      <3>4. periods' = [periods EXCEPT ![i] = [p EXCEPT !.to = day]]
        BY <3>2, <2>2, <2>5
      <3>5. \A s \in Seq(PeriodRows), q \in PeriodRows : \A m \in DOMAIN s :
              /\ [s EXCEPT ![m] = q] \in Seq(PeriodRows) /\ Len([s EXCEPT ![m] = q]) = Len(s)
              /\ DOMAIN [s EXCEPT ![m] = q] = DOMAIN s
              /\ \A j \in DOMAIN s : [s EXCEPT ![m] = q][j] = IF j = m THEN q ELSE s[j]
        OBVIOUS
      <3> QED BY <3>2, <3>3, <3>4, <3>5, <2>3, <1>0
    <2>7. NoneOpen'
      <3>1. Missing # day
        BY RegimeAssumption
      <3>2. ASSUME NEW j \in DOMAIN periods' PROVE periods'[j].to # Missing
        <4>1. CASE j = i
          <5>1. periods[i] \in PeriodRows /\ periods'[j] = [periods[i] EXCEPT !.to = day]
            BY <4>1, <2>3, <2>6, <1>0
          <5>2. \A p \in PeriodRows : [p EXCEPT !.to = day].to = day
            BY DEF PeriodRows
          <5>3. periods'[j].to = day
            BY <5>1, <5>2
          <5> QED BY <5>3, <3>1
        <4>2. CASE j # i
          BY <4>2, <2>3, <2>6
        <4> QED BY <4>1, <4>2
      <3> QED BY <3>2 DEF NoneOpen
    <2>8. Renewing'
      BY <2>1, <2>2, <2>7, <1>1 DEF Renewing, Opens
    <2> QED BY <2>2, <2>6, <2>8, <1>0
  <1>4. CASE Renewing
    <2>1. PICK stateRow : /\ writing = <<[save |-> stateRow], [add |-> Opens(stateRow)]>>
                          /\ Counts(stateRow) /\ NoneOpen /\ (periods # <<>> => HasItsDays(stateRow))
      BY <1>4 DEF Renewing
    <2>2. regime' = stateRow /\ periods' = periods /\ writing' = <<[add |-> Opens(stateRow)]>>
      BY <1>0, <2>1 DEF Write
    <2>3. Counts(stateRow)' /\ NoneOpen' /\ (periods # <<>> => HasItsDays(stateRow)')
      BY <2>1, <2>2, <1>1 DEF NoneOpen
    <2>4. Counts(regime)' /\ (periods # <<>> => HasItsDays(regime)')
      BY <2>2, <2>3
    <2> QED BY <2>1, <2>2, <2>3, <2>4, <1>0 DEF Adding, Opens, Counts
  <1>5. CASE Adding
    <2>1. regime' = regime /\ periods' = Append(periods, Opens(regime)) /\ writing' = <<>>
      BY <1>0, <1>5 DEF Write, Adding
    <2>2. regime \in RegimeRows /\ regime # Missing
      BY <1>5, RegimeAssumption DEF Adding, Counts
    <2>3. Opens(regime) \in PeriodRows /\ Opens(regime).to = Missing
      BY <2>2 DEF Opens, PeriodRows, RegimeRows
    <2>4. /\ periods' \in Seq(PeriodRows) /\ Len(periods') = Len(periods) + 1
          /\ Len(periods) \in Nat /\ periods'[Len(periods) + 1] = Opens(regime)
          /\ \A j \in DOMAIN periods : periods'[j] = periods[j]
          /\ DOMAIN periods = 1 .. Len(periods) /\ DOMAIN periods' = 1 .. Len(periods) + 1
      BY <2>1, <2>3, <1>0
    <2>5. OneOpen(regime)'
      <3>1. \A j \in DOMAIN periods' : periods'[j].to = Missing => j = Len(periods) + 1
        BY <2>4, <1>5 DEF Adding, NoneOpen
      <3>2. Len(periods) + 1 \in DOMAIN periods'
        BY <2>4
      <3>3. Opens(regime)' = Opens(regime)
        BY <2>1 DEF Opens
      <3> QED BY <3>1, <3>2, <3>3, <2>4 DEF OneOpen
    <2>6. Counts(regime)'
      BY <2>1, <1>0, <1>5 DEF Adding, Counts, LastSeen
    <2>7. Len(periods') > 1 => HasItsDays(regime)'
      <3>1. Len(periods') > 1 => periods # <<>>
        BY <2>4
      <3> QED BY <3>1, <2>1, <1>0, <1>5 DEF Adding, HasItsDays, LastSeen
    <2> QED BY <2>1, <2>2, <2>4, <2>5, <2>6, <2>7, <1>0 DEF AtRest, Agree
  <1>6. ~AtRest
    BY <1>0 DEF AtRest
  <1> QED BY <1>2, <1>3, <1>4, <1>5, <1>6 DEF RegimeInvariant

\* Every behaviour keeps the invariant.
THEOREM RegimeInvariance == RegimeSpec => []RegimeInvariant
  <1>1. RegimeInit => RegimeInvariant
    BY DEF RegimeInit, RegimeInvariant, AtRest, NothingToWrite
  <1>2. ASSUME RegimeInvariant, [RegimeNext]_regimeVars PROVE RegimeInvariant'
    <2>1. CASE \E day \in Days, f \in FeatureSets : AdvanceRegime(day, f)
      <3>1. stops' = stops /\ stops \in Nat
        BY <1>2, <2>1 DEF AdvanceRegime, RegimeInvariant
      <3> QED BY <1>2, <2>1, <3>1, AdvanceStep DEF RegimeInvariant
    <2>2. CASE Write
      <3>1. stops' = stops /\ stops \in Nat
        BY <1>2, <2>2 DEF Write, RegimeInvariant
      <3> QED BY <1>2, <2>2, <3>1, WriteStep DEF RegimeInvariant
    <2>3. CASE Stop
      BY <1>2, <2>3 DEF Stop, RegimeInvariant
    <2>4. CASE UNCHANGED regimeVars
      BY <1>2, <2>4 DEF regimeVars, RegimeInvariant, AtRest, Saving, Closing, Renewing, Adding,
         Agree, Counts, HasItsDays, OneOpen, NoneOpen, LastSeen
    <2> QED BY <1>2, <2>1, <2>2, <2>3, <2>4 DEF RegimeNext
  <1> QED BY <1>1, <1>2, PTL DEF RegimeSpec

\* The regime is confirmed.
THEOREM RegimeConfirmed == RegimeSpec => []RegimeIsConfirmed
  <1>1. RegimeInvariant => RegimeIsConfirmed
    <2> SUFFICES ASSUME RegimeInvariant, writing = <<>>, regime # Missing, stops = 0
                 PROVE  /\ regime.days = 1 /\ Len(periods) > 1 => HasItsDays(regime)
                        /\ {r \in {periods[i] : i \in DOMAIN periods} : r.to = Missing} = {Opens(regime)}
      BY DEF RegimeIsConfirmed, NothingToWrite, HasItsDays, Opens
    <2>1. Agree(regime)
      <3>1. ~Saving /\ ~Closing /\ ~Renewing /\ ~Adding
        BY DEF Saving, Closing, Renewing, Adding
      <3> QED BY <3>1 DEF RegimeInvariant, AtRest
    <2>2. PICK i \in DOMAIN periods : periods[i] = Opens(regime)
                                     /\ \A j \in DOMAIN periods : periods[j].to = Missing => j = i
      BY <2>1 DEF Agree, OneOpen
    <2>3. Opens(regime).to = Missing
      BY DEF Opens
    <2> QED BY <2>1, <2>2, <2>3 DEF Agree
  <1> QED BY <1>1, RegimeInvariance, PTL

----------------------------------------------------------------------------
(* Retrieval policy.                                                       *)

\* The filters of a retrieval in flight are a rule merged with a request,
\* and its candidates have scores.
RetrievalInvariant ==
    /\ question # NoFilter =>
        \E intent \in Intents, requested \in Queries :
            question = [intent |-> intent, filters |-> MergedFilters(AccessRule(intent), requested)]
    /\ \A c \in recalled : c.score \in Int
    /\ CallerOnlyTightens

----------------------------------------------------------------------------

\* The rank of a status is its place in the order, if it has one.
LEMMA RankIsPlace ==
    ASSUME NEW status, SupportRank(status) # NoFilter
    PROVE  SupportRank(status) \in 1 .. 7
  <1>1. DOMAIN SupportOrder = 1 .. 7
    BY DEF SupportOrder
  <1> DEFINE Place(i) == SupportOrder[i] = status
  <1>2. \E i \in DOMAIN SupportOrder : Place(i)
    BY DEF SupportRank
  <1>3. SupportRank(status) = CHOOSE i \in DOMAIN SupportOrder : Place(i)
    BY <1>2 DEF SupportRank
  <1>4. (CHOOSE i \in DOMAIN SupportOrder : Place(i)) \in DOMAIN SupportOrder
    <2> HIDE DEF Place
    <2> QED BY <1>2
  <1> QED BY <1>1, <1>3, <1>4

\* A stricter minimum allows no status that the policy does not.
LEMMA StricterAllowsLess ==
    ASSUME NEW policy, NEW requested, SupportRank(policy) \in Int
    PROVE  AllowedStatuses(StricterSupport(policy, requested)) \subseteq AllowedStatuses(policy)
  <1>1. CASE SupportRank(requested) # NoFilter /\ SupportRank(requested) > SupportRank(policy)
    <2>1. SupportRank(requested) \in Int
      BY <1>1, RankIsPlace
    <2>2. DOMAIN SupportOrder = 1 .. 7
      BY DEF SupportOrder
    <2>3. \A j \in DOMAIN SupportOrder : j >= SupportRank(requested) => j >= SupportRank(policy)
      BY <1>1, <2>1, <2>2
    <2>4. StricterSupport(policy, requested) = requested
      BY <1>1 DEF StricterSupport
    <2> QED BY <2>3, <2>4 DEF AllowedStatuses
  <1>2. CASE ~(SupportRank(requested) # NoFilter /\ SupportRank(requested) > SupportRank(policy))
    BY <1>2 DEF StricterSupport
  <1> QED BY <1>1, <1>2

\* The minimum of every access rule has a rank.
LEMMA PolicyHasRank == SupportRank("SOURCE_SUPPORTED") \in Int
  <1>1. SupportOrder[4] = "SOURCE_SUPPORTED" /\ 4 \in DOMAIN SupportOrder /\ DOMAIN SupportOrder = 1 .. 7
    BY DEF SupportOrder
  <1> DEFINE Place(i) == SupportOrder[i] = "SOURCE_SUPPORTED"
  <1>2. \E i \in DOMAIN SupportOrder : Place(i)
    BY <1>1
  <1>3. SupportRank("SOURCE_SUPPORTED") = CHOOSE i \in DOMAIN SupportOrder : Place(i)
    BY <1>2 DEF SupportRank
  <1>4. (CHOOSE i \in DOMAIN SupportOrder : Place(i)) \in DOMAIN SupportOrder
    <2> HIDE DEF Place
    <2> QED BY <1>2
  <1> QED BY <1>1, <1>3, <1>4

\* What passes the merged filters passes the rule of the intent, whatever
\* the caller asked for.
LEMMA MergeOnlyTightens ==
    ASSUME NEW intent \in Intents, NEW requested \in Queries, NEW c, c.score \in Int,
           PassesGate(c, MergedFilters(AccessRule(intent), requested))
    PROVE  PassesGate(c, AccessRule(intent))
  <1> DEFINE rule == AccessRule(intent)
             merged == MergedFilters(rule, requested)
  <1>1. c.support \in AllowedStatuses(rule.support)
    <2>1. rule.support = "SOURCE_SUPPORTED"
      BY DEF AccessRule
    <2>2. merged.support = StricterSupport(rule.support, requested.support)
      BY DEF MergedFilters
    <2>3. c.support \in AllowedStatuses(merged.support)
      BY DEF PassesGate
    <2> HIDE DEF rule, merged
    <2> QED BY <2>1, <2>2, <2>3, PolicyHasRank, StricterAllowsLess
  <1>2. c.score >= rule.score
    <2>1. rule.score \in Int /\ requested.score \in Int \cup {NoFilter}
      BY RetrievalAssumption DEF AccessRule
    <2>2. merged.score = StricterScore(rule.score, requested.score)
      BY DEF MergedFilters
    <2>3. c.score >= merged.score
      BY DEF PassesGate
    <2> HIDE DEF rule, merged
    <2> QED BY <2>1, <2>2, <2>3 DEF StricterScore
  <1>3. TruthPasses(rule, c.truth)
    <2>1. merged.truth = MergedTruth(rule.truth, requested.truth)
      BY DEF MergedFilters
    <2>2. TruthPasses(merged, c.truth)
      BY DEF PassesGate
    <2> HIDE DEF rule, merged
    <2> QED BY <2>1, <2>2 DEF MergedTruth, TruthPasses
  <1>4. c.review \notin rule.denied \cup {"REJECTED"}
    <2>1. merged.denied = rule.denied \cup requested.denied
      BY DEF MergedFilters
    <2>2. c.review \notin merged.denied \cup {"REJECTED"}
      BY DEF PassesGate
    <2> QED BY <2>1, <2>2
  <1> QED BY <1>1, <1>2, <1>3, <1>4 DEF PassesGate

\* A retrieval recalls and returns under the same merged filters.
LEMMA RetrievalStep ==
    ASSUME RetrievalInvariant, [RetrievalNext]_retrievalVars
    PROVE  RetrievalInvariant'
  <1>1. CASE UNCHANGED retrievalVars
    BY <1>1 DEF retrievalVars, RetrievalInvariant, CallerOnlyTightens
  <1>2. ASSUME NEW intent \in Intents, NEW requested \in Queries, Recall(intent, requested)
        PROVE  RetrievalInvariant'
    <2> DEFINE f == MergedFilters(AccessRule(intent), requested)
    <2>1. question' = [intent |-> intent, filters |-> f] /\ contexts' = NoFilter
      BY <1>2 DEF Recall
    <2>2. PICK sparseFails \in BOOLEAN :
            recalled' = MergedRecall(
                {DenseCandidate(u) : u \in {v \in Units : DenseHit(v, f)}},
                {SparseCandidate(u) : u \in {v \in Units : ~sparseFails /\ SparseHit(v, f)}})
      BY <1>2 DEF Recall
    <2> HIDE DEF f
    <2>3. ASSUME NEW c \in recalled' PROVE c.score \in Int
      <3>1. \/ \E u \in Units : DenseHit(u, f) /\ c = DenseCandidate(u)
            \/ \E u \in Units : c = SparseCandidate(u)
        BY <2>2 DEF MergedRecall
      <3>2. ASSUME NEW u \in Units, DenseHit(u, f), c = DenseCandidate(u) PROVE c.score \in Int
        BY <3>2, RetrievalAssumption DEF DenseHit, DenseCandidate
      <3>3. ASSUME NEW u \in Units, c = SparseCandidate(u) PROVE c.score \in Int
        BY <3>3, RetrievalAssumption DEF SparseCandidate
      <3> QED BY <3>1, <3>2, <3>3
    <2> QED BY <2>1, <2>3 DEF RetrievalInvariant, CallerOnlyTightens, f
  <1>3. CASE Retrieve
    <2>1. PICK intent \in Intents, requested \in Queries :
            question = [intent |-> intent, filters |-> MergedFilters(AccessRule(intent), requested)]
      BY <1>3 DEF Retrieve, RetrievalInvariant
    <2>2. question.intent = intent /\ question.filters = MergedFilters(AccessRule(intent), requested)
      BY <2>1
    <2>3. PICK best \in Rankings({c \in recalled : PassesGate(c, question.filters)}) :
            contexts' = [intent |-> question.intent,
                         found |-> {c \in best : StillValid(c, question.intent)}]
      BY <1>3 DEF Retrieve
    <2>4. best \subseteq {c \in recalled : PassesGate(c, question.filters)}
      BY <2>3 DEF Rankings
    <2>5. /\ contexts'.intent = intent
          /\ contexts'.found \subseteq {c \in recalled : PassesGate(c, question.filters)}
      BY <2>2, <2>3, <2>4
    <2>6. \A c \in contexts'.found : PassesGate(c, AccessRule(intent))
      BY <2>2, <2>5, MergeOnlyTightens DEF RetrievalInvariant
    <2>7. question' = NoFilter /\ recalled' = {}
      BY <1>3 DEF Retrieve
    <2> QED BY <2>5, <2>6, <2>7 DEF RetrievalInvariant, CallerOnlyTightens
  <1> QED BY <1>1, <1>2, <1>3 DEF RetrievalNext

\* Whatever the caller's filters are, what it is given meets the access rule
\* of its intent.
THEOREM CallerTightens == RetrievalSpec => []CallerOnlyTightens
  <1>1. RetrievalInit => RetrievalInvariant
    BY DEF RetrievalInit, RetrievalInvariant, CallerOnlyTightens
  <1>2. RetrievalInvariant => CallerOnlyTightens
    BY DEF RetrievalInvariant
  <1> QED BY <1>1, <1>2, RetrievalStep, PTL DEF RetrievalSpec

----------------------------------------------------------------------------
(* Replay runs and their lease.                                            *)

\* A run that may be reported: the row has finished, with the same result.
Settled(run) ==
    /\ run # NoRun /\ run.status = "SUCCEEDED"
    /\ row # NoRun /\ row.status = "SUCCEEDED"
    /\ run.result = row.result

\* A finished copy of a service is the finished row.
CopiesSettled ==
    \A s \in Services : cached[s] # NoRun /\ cached[s].status = "SUCCEEDED" => Settled(cached[s])

\* What a thread knows of its run at each label.
ThreadKnows(t) ==
    /\ call[t].pc \in {"SUCCEEDED", "remember"} => Settled(call[t].run)
    /\ call[t].pc \in {"calculate", "persist"} => call[t].run # NoRun /\ row # NoRun
    /\ call[t].pc = "persist" => call[t].run.status = "SUCCEEDED"

\* The inductive invariant of the run.
ReplayInvariant ==
    /\ ReplayTypeOK
    /\ CopiesSettled
    /\ \A t \in Threads : ThreadKnows(t)

\* A step that changes the row finds it unfinished; the row is never lost.
RowMoves ==
    /\ row # NoRun /\ row.status = "SUCCEEDED" => row' = row
    /\ row # NoRun => row' # NoRun

----------------------------------------------------------------------------

\* What a claim writes is a run.
LEMMA ClaimedIsRun ==
    ASSUME ReplayTypeOK, NEW s \in Services
    PROVE  /\ ClaimedRun(s) \in Runs
           /\ ClaimedRun(s) # NoRun
           /\ ClaimedRun(s).status = "RUNNING"
<1>1. clock + ReplayLease \in Nat
  BY ReplayAssumption DEF ReplayTypeOK
<1>2. (IF row = NoRun THEN 1 ELSE row.token + 1) \in Nat
  BY DEF ReplayTypeOK, Runs
<1>3. ClaimedRun(s) \in Runs
  BY <1>1, <1>2 DEF ClaimedRun, Run, Runs
<1> QED
  BY <1>3, NoRunIsNoRow DEF ClaimedRun, Run

\* Every step keeps the types.
LEMMA TypeStep ==
    ASSUME ReplayInvariant, [ReplayNext]_replayVars
    PROVE  ReplayTypeOK'
<1> USE DEF ReplayInvariant
<1>1. CASE Tick
  BY <1>1 DEF Tick, ReplayTypeOK
<1>2. ASSUME NEW t \in Threads, ReplayStep(t) PROVE ReplayTypeOK'
  <2> DEFINE s == ServiceOf[t]
  <2>1. s \in Services
    BY ReplayAssumption
  <2>2. CASE LookUpRun(t)
    <3>1. Prior(s) \in Runs \cup {NoRun}
      BY <2>1 DEF Prior, ReplayTypeOK
    <3> QED
      BY <2>1, <2>2, <3>1 DEF LookUpRun, ReplayTypeOK, Labels
  <2>3. CASE ClaimRun(t)
    <3>1. ClaimedRun(s) \in Runs
      BY <2>1, ClaimedIsRun
    <3> QED
      BY <2>1, <2>3, <3>1 DEF ClaimRun, ReplayTypeOK, Labels
  <2>4. CASE RunCalculator(t)
    <3>1. call[t].run \in Runs
      BY <2>4 DEF RunCalculator, ThreadKnows, ReplayTypeOK
    <3>2. [call[t].run EXCEPT !.status = "SUCCEEDED", !.result = call[t].run.token] \in Runs
      BY <3>1 DEF Runs
    <3> QED
      BY <2>4, <3>2 DEF RunCalculator, ReplayTypeOK, Labels
  <2>5. CASE CalculatorFails(t)
    BY <2>5 DEF CalculatorFails, ReplayTypeOK, Labels
  <2>6. CASE Persist(t)
    <3>1. row \in Runs /\ call[t].run \in Runs
      BY <2>6 DEF Persist, ThreadKnows, ReplayTypeOK
    <3>2. [row EXCEPT !.status = "SUCCEEDED", !.result = call[t].run.result] \in Runs
      BY <3>1 DEF Runs
    <3> QED
      BY <2>6, <3>2 DEF Persist, ReplayTypeOK, Labels
  <2>7. CASE Remember(t)
    BY <2>1, <2>7 DEF Remember, ReplayTypeOK, Labels
  <2> QED
    BY <1>2, <2>2, <2>3, <2>4, <2>5, <2>6, <2>7 DEF ReplayStep
<1>3. CASE UNCHANGED replayVars
  BY <1>3 DEF replayVars, ReplayTypeOK
<1> QED
  BY <1>1, <1>2, <1>3 DEF ReplayNext

\* No step replaces a finished row: a claim and a result both need an
\* unfinished one.
LEMMA RowStep ==
    ASSUME ReplayInvariant, [ReplayNext]_replayVars
    PROVE  RowMoves
<1> USE DEF ReplayInvariant, RowMoves
<1>1. CASE Tick
  BY <1>1 DEF Tick
<1>2. ASSUME NEW t \in Threads, ReplayStep(t) PROVE RowMoves
  <2>1. CASE LookUpRun(t)
    BY <2>1 DEF LookUpRun
  <2>2. CASE ClaimRun(t)
    BY <2>2, ReplayAssumption, ClaimedIsRun DEF ClaimRun, Claimable
  <2>3. CASE RunCalculator(t)
    BY <2>3 DEF RunCalculator
  <2>4. CASE CalculatorFails(t)
    BY <2>4 DEF CalculatorFails
  <2>5. CASE Persist(t)
    <3>1. row \in Runs /\ call[t].run \in Runs
      BY <2>5 DEF Persist, ThreadKnows, ReplayTypeOK
    <3>2. [row EXCEPT !.status = "SUCCEEDED", !.result = call[t].run.result] \in Runs
      BY <3>1 DEF Runs
    <3> QED
      BY <2>5, <3>2, NoRunIsNoRow DEF Persist, Fences
  <2>6. CASE Remember(t)
    BY <2>6 DEF Remember
  <2> QED
    BY <1>2, <2>1, <2>2, <2>3, <2>4, <2>5, <2>6 DEF ReplayStep
<1>3. CASE UNCHANGED replayVars
  BY <1>3 DEF replayVars
<1> QED
  BY <1>1, <1>2, <1>3 DEF ReplayNext

\* What is settled stays settled.
LEMMA SettledStays ==
    ASSUME ReplayInvariant, [ReplayNext]_replayVars, NEW run, Settled(run)
    PROVE  /\ run # NoRun /\ run.status = "SUCCEEDED"
           /\ row' # NoRun /\ row'.status = "SUCCEEDED"
           /\ run.result = row'.result
BY RowStep DEF RowMoves, Settled

\* A thread that takes no step keeps what it knows.
LEMMA OthersKnow ==
    ASSUME ReplayInvariant, [ReplayNext]_replayVars, NEW t \in Threads, call'[t] = call[t]
    PROVE  ThreadKnows(t)'
<1>1. ThreadKnows(t)
  BY DEF ReplayInvariant
<1>2. CASE call[t].pc \in {"SUCCEEDED", "remember"}
  <2>1. Settled(call[t].run)
    BY <1>1, <1>2 DEF ThreadKnows
  <2> QED
    BY <1>2, <2>1, SettledStays DEF ThreadKnows, Settled
<1>3. CASE call[t].pc \notin {"SUCCEEDED", "remember"}
  BY <1>1, <1>3, RowStep DEF ThreadKnows, RowMoves
<1> QED
  BY <1>2, <1>3

\* Every step keeps what the services and the threads know.
LEMMA KnowledgeStep ==
    ASSUME ReplayInvariant, [ReplayNext]_replayVars
    PROVE  CopiesSettled' /\ \A t \in Threads : ThreadKnows(t)'
<1>1. CASE Tick \/ UNCHANGED replayVars
  <2>1. cached' = cached /\ call' = call
    BY <1>1 DEF Tick, replayVars
  <2>2. CopiesSettled'
    BY <2>1, SettledStays DEF ReplayInvariant, CopiesSettled, Settled
  <2> QED
    BY <2>1, <2>2, OthersKnow
<1>2. ASSUME NEW t \in Threads, ReplayStep(t)
      PROVE  CopiesSettled' /\ \A u \in Threads : ThreadKnows(u)'
  <2> DEFINE s == ServiceOf[t]
  <2>0. s \in Services
    BY ReplayAssumption
  <2>1. ReplayTypeOK /\ CopiesSettled /\ ThreadKnows(t)
    BY DEF ReplayInvariant
  <2>2. CASE LookUpRun(t)
    <3>1. Prior(s) # NoRun /\ Prior(s).status = "SUCCEEDED" => Settled(Prior(s))
      BY <2>0, <2>1 DEF Prior, CopiesSettled, Settled
    <3>2. row' = row
      BY <2>2 DEF LookUpRun
    <3>3. CopiesSettled'
      BY <2>0, <2>1, <2>2, <3>1, <3>2 DEF LookUpRun, ReplayTypeOK, CopiesSettled, Settled
    <3>4. ThreadKnows(t)'
      BY <2>1, <2>2, <3>1, <3>2 DEF LookUpRun, ReplayTypeOK, ThreadKnows, Settled
    <3>5. \A u \in Threads \ {t} : call'[u] = call[u]
      BY <2>1, <2>2 DEF LookUpRun, ReplayTypeOK
    <3> QED
      BY <3>3, <3>4, <3>5, OthersKnow
  <2>3. CASE ClaimRun(t)
    <3>1. ClaimedRun(s) # NoRun /\ ClaimedRun(s).status = "RUNNING"
      BY <2>0, <2>1, ClaimedIsRun
    <3>2. \A v \in Services : cached'[v] = cached[v] \/ cached'[v].status = "RUNNING"
      BY <2>0, <2>1, <2>3, <3>1 DEF ClaimRun, ReplayTypeOK
    <3>3. CopiesSettled'
      BY <2>1, <3>2, SettledStays DEF CopiesSettled, Settled
    <3>4. ThreadKnows(t)'
      BY <2>1, <2>3, <3>1 DEF ClaimRun, ReplayTypeOK, ThreadKnows
    <3>5. \A u \in Threads \ {t} : call'[u] = call[u]
      BY <2>1, <2>3 DEF ClaimRun, ReplayTypeOK
    <3> QED
      BY <3>3, <3>4, <3>5, OthersKnow
  <2>4. CASE RunCalculator(t)
    <3>1. row' = row /\ cached' = cached
      BY <2>4 DEF RunCalculator
    <3>2. call[t].run \in Runs /\ row # NoRun
      BY <2>1, <2>4 DEF RunCalculator, ThreadKnows, ReplayTypeOK
    <3>3. [call[t].run EXCEPT !.status = "SUCCEEDED", !.result = call[t].run.token] \in Runs
      BY <3>2 DEF Runs
    <3>4. /\ call'[t].pc = "persist"
          /\ call'[t].run \in Runs
          /\ call'[t].run.status = "SUCCEEDED"
      BY <2>1, <2>4, <3>2, <3>3 DEF RunCalculator, ReplayTypeOK, Runs
    <3>5. ThreadKnows(t)'
      BY <3>1, <3>2, <3>4, NoRunIsNoRow DEF ThreadKnows
    <3>6. CopiesSettled'
      BY <2>1, <3>1 DEF CopiesSettled, Settled
    <3>7. \A u \in Threads \ {t} : call'[u] = call[u]
      BY <2>1, <2>4 DEF RunCalculator, ReplayTypeOK
    <3> QED
      BY <3>5, <3>6, <3>7, OthersKnow
  <2>5. CASE CalculatorFails(t)
    <3>1. row' = row /\ cached' = cached /\ call'[t].pc = "ERROR"
      BY <2>1, <2>5 DEF CalculatorFails, ReplayTypeOK
    <3>2. CopiesSettled' /\ ThreadKnows(t)'
      BY <2>1, <3>1 DEF CopiesSettled, Settled, ThreadKnows
    <3>3. \A u \in Threads \ {t} : call'[u] = call[u]
      BY <2>1, <2>5 DEF CalculatorFails, ReplayTypeOK
    <3> QED
      BY <3>2, <3>3, OthersKnow
  <2>6. CASE Persist(t)
    <3>1. cached' = cached
      BY <2>6 DEF Persist
    <3>2. CopiesSettled'
      BY <2>1, <3>1, SettledStays DEF CopiesSettled, Settled
    <3>3. row \in Runs /\ call[t].run \in Runs /\ call[t].run.status = "SUCCEEDED"
      BY <2>1, <2>6 DEF Persist, ThreadKnows, ReplayTypeOK
    <3>4. ThreadKnows(t)'
      <4>1. CASE Fences(call[t].run)
        <5>1. call'[t].pc = "FENCED"
          BY <2>1, <2>6, <4>1 DEF Persist, ReplayTypeOK
        <5> QED
          BY <5>1 DEF ThreadKnows
      <4>2. CASE ~Fences(call[t].run)
        <5>1. /\ row' = [row EXCEPT !.status = "SUCCEEDED", !.result = call[t].run.result]
              /\ call'[t].pc = "remember" /\ call'[t].run = call[t].run
          BY <2>1, <2>6, <4>2 DEF Persist, ReplayTypeOK
        <5>2. row' \in Runs /\ row'.status = "SUCCEEDED" /\ row'.result = call[t].run.result
          BY <3>3, <5>1 DEF Runs
        <5> QED
          BY <3>3, <5>1, <5>2, NoRunIsNoRow DEF ThreadKnows, Settled
      <4> QED
        BY <4>1, <4>2
    <3>5. \A u \in Threads \ {t} : call'[u] = call[u]
      BY <2>1, <2>6 DEF Persist, ReplayTypeOK
    <3> QED
      BY <3>2, <3>4, <3>5, OthersKnow
  <2>7. CASE Remember(t)
    <3>1. row' = row /\ Settled(call[t].run)
      BY <2>1, <2>7 DEF Remember, ThreadKnows
    <3>2. CopiesSettled'
      BY <2>0, <2>1, <2>7, <3>1 DEF Remember, ReplayTypeOK, CopiesSettled, Settled
    <3>3. ThreadKnows(t)'
      BY <2>1, <2>7, <3>1 DEF Remember, ReplayTypeOK, ThreadKnows, Settled
    <3>4. \A u \in Threads \ {t} : call'[u] = call[u]
      BY <2>1, <2>7 DEF Remember, ReplayTypeOK
    <3> QED
      BY <3>2, <3>3, <3>4, OthersKnow
  <2> QED
    BY <1>2, <2>2, <2>3, <2>4, <2>5, <2>6, <2>7 DEF ReplayStep
<1> QED
  BY <1>1, <1>2 DEF ReplayNext

----------------------------------------------------------------------------

\* The invariant holds in every state: run_exact and the two UPDATEs keep it.
THEOREM ReplayInvariance == ReplaySpec => []ReplayInvariant
<1>1. ReplayInit => ReplayInvariant
  BY DEF ReplayInit, ReplayInvariant, ReplayTypeOK, CopiesSettled, ThreadKnows, Resting, Labels
<1>2. ReplayInvariant /\ [ReplayNext]_replayVars => ReplayInvariant'
  BY TypeStep, KnowledgeStep DEF ReplayInvariant
<1> QED
  BY <1>1, <1>2, PTL DEF ReplaySpec

\* The variables of the replay service keep their types.
THEOREM ReplayTypeCorrect == ReplaySpec => []ReplayTypeOK
<1>1. ReplayInvariant => ReplayTypeOK
  BY DEF ReplayInvariant
<1> QED
  BY <1>1, ReplayInvariance, PTL

\* Whoever is answered SUCCEEDED by run_exact has the one stored result.
THEOREM ReplayResultIsOne == ReplaySpec => []OneReplayResult
<1>1. ReplayInvariant => OneReplayResult
  BY DEF ReplayInvariant, ThreadKnows, Settled, OneReplayResult
<1> QED
  BY <1>1, ReplayInvariance, PTL

\* _claim_persistent and _persist leave a finished row alone.
THEOREM FinishedStays == ReplaySpec => FinishedRunIsFinal
<1>1. ReplayInvariant /\ [ReplayNext]_replayVars
        => [row # NoRun /\ row.status = "SUCCEEDED" => row' = row]_replayVars
  BY RowStep DEF RowMoves
<1> QED
  BY <1>1, ReplayInvariance, PTL DEF ReplaySpec, FinishedRunIsFinal

----------------------------------------------------------------------------
(* Decision service, outcomes and reviews.                                 *)

\* Rows of the tables.
Snapshots == [bundle : Bundles, payload : Bundles, content : Contents, hashes : Contents,
              output : Decisions \X Bundles, lineage : Decisions \X Bundles]

Segments == [decision : Decisions, bundle : Bundles, content : Contents]

Answers == [decision : Decisions, snapshot : Snapshots]

Reviews == [by : Callers, memory : {"SUCCESS_PATTERN", "FAILURE_PATTERN"}]

Memories == [review : Decisions \X SUBSET Outcomes, by : Callers]

\* A save_review call: the review's id, its row, and what comes next.
ReviewCalls == [id : Decisions \X SUBSET Outcomes,
                row : [by : Callers, memory : {"SUCCESS_PATTERN", "FAILURE_PATTERN"}],
                step : {"save", "remember"}]

\* Each table is a function on the keys it has.
TablesOK ==
    /\ bound \in [DOMAIN bound -> Bundles]
    /\ segments \in [DOMAIN segments -> Segments]
    /\ snapshots \in [DOMAIN snapshots -> Snapshots]
    /\ answers \subseteq Answers
    /\ DOMAIN snapshots \subseteq Decisions

\* Types of the review side.
ReviewsOK ==
    /\ reviews \in [DOMAIN reviews -> Reviews]
    /\ memories \in [DOMAIN memories -> Memories]
    /\ review \in [Callers -> ReviewCalls \cup {Idle}]

\* The binding is one to one, and every row and every snapshot follows it.
BindingDecides ==
    /\ \A d, e \in DOMAIN bound : bound[d] = bound[e] => d = e
    /\ \A r \in DOMAIN segments :
          /\ segments[r].decision \in DOMAIN bound
          /\ bound[segments[r].decision] = segments[r].bundle
    /\ \A d \in DOMAIN snapshots :
          /\ d \in DOMAIN bound /\ bound[d] = snapshots[d].bundle
          /\ snapshots[d].output = <<d, snapshots[d].bundle>>
    /\ \A a \in answers : a.decision \in DOMAIN snapshots /\ snapshots[a.decision] = a.snapshot

\* The inductive invariant of the lineage.
LineageInvariant == TablesOK /\ BindingDecides

\* A call that is about to remember has its review in the table.
CallKnows(c) ==
    review[c] # Idle /\ review[c].step = "remember" =>
        /\ review[c].id \in DOMAIN reviews
        /\ reviews[review[c].id] = review[c].row

\* The inductive invariant of reviews and memories.
MemoryInvariant == ReviewsOK /\ MemoryHasItsReview /\ \A c \in Callers : CallKnows(c)

----------------------------------------------------------------------------

\* Binding a pair that may be bound keeps the binding one to one and all
\* that was bound.
LEMMA Bind ==
    ASSUME LineageInvariant, NEW d \in Decisions, NEW b \in Bundles,
           Bindable(d, b), bound' = Put(bound, d, b)
    PROVE  /\ bound' \in [DOMAIN bound' -> Bundles]
           /\ DOMAIN bound' = DOMAIN bound \cup {d}
           /\ bound'[d] = b
           /\ \A e \in DOMAIN bound : bound'[e] = bound[e]
           /\ \A e, g \in DOMAIN bound' : bound'[e] = bound'[g] => e = g
<1>1. bound \in [DOMAIN bound -> Bundles]
  BY DEF LineageInvariant, TablesOK
<1>3. /\ DOMAIN bound' = DOMAIN bound \cup {d}
      /\ bound'[d] = b
      /\ \A e \in DOMAIN bound \ {d} : bound'[e] = bound[e]
      /\ bound' \in [DOMAIN bound' -> Bundles]
  BY <1>1 DEF Put
<1>4. \A e \in DOMAIN bound : bound'[e] = bound[e]
  BY <1>3 DEF Bindable
<1>6. ASSUME NEW e \in DOMAIN bound', NEW g \in DOMAIN bound', bound'[e] = bound'[g]
      PROVE  e = g
  BY <1>3, <1>4, <1>6 DEF Bindable, LineageInvariant, BindingDecides
<1> QED
  BY <1>3, <1>4, <1>6

\* save_formal_segments keeps the lineage.
LEMMA SegmentsStep ==
    ASSUME LineageInvariant, SaveSegments
    PROVE  LineageInvariant'
<1>1. PICK d \in Decisions, b \in Bundles, ids \in SUBSET RowIds, c \in Contents :
        /\ Bindable(d, b)
        /\ \A r \in ids \cap DOMAIN segments :
              segments[r] = [decision |-> d, bundle |-> b, content |-> c]
        /\ bound' = Put(bound, d, b)
        /\ segments' = [r \in DOMAIN segments \cup ids |->
              IF r \in ids THEN [decision |-> d, bundle |-> b, content |-> c] ELSE segments[r]]
        /\ UNCHANGED <<snapshots, answers>>
  BY DEF SaveSegments
<1> DEFINE own == [decision |-> d, bundle |-> b, content |-> c]
<1>2. own \in Segments /\ own.decision = d /\ own.bundle = b
  BY DEF Segments
<1>3. /\ segments' = [r \in DOMAIN segments \cup ids |-> IF r \in ids THEN own ELSE segments[r]]
      /\ \A r \in ids \cap DOMAIN segments : segments[r] = own
  BY <1>1
<1> HIDE DEF own
<1>5. /\ DOMAIN segments' = DOMAIN segments \cup ids
      /\ \A r \in DOMAIN segments : segments'[r] = segments[r]
      /\ \A r \in ids : segments'[r] = own
      /\ segments' = [r \in DOMAIN segments' |-> segments'[r]]
  BY <1>3
<1>6. segments' \in [DOMAIN segments' -> Segments]
  BY <1>2, <1>5 DEF LineageInvariant, TablesOK
<1>7. /\ bound' \in [DOMAIN bound' -> Bundles]
      /\ DOMAIN bound' = DOMAIN bound \cup {d}
      /\ bound'[d] = b
      /\ \A e \in DOMAIN bound : bound'[e] = bound[e]
      /\ \A e, g \in DOMAIN bound' : bound'[e] = bound'[g] => e = g
  BY <1>1, Bind
<1>8. TablesOK'
  BY <1>1, <1>6, <1>7 DEF LineageInvariant, TablesOK
<1>9. BindingDecides'
  <2>1. \A r \in DOMAIN segments' :
          segments'[r].decision \in DOMAIN bound' /\ bound'[segments'[r].decision] = segments'[r].bundle
    BY <1>2, <1>5, <1>7 DEF LineageInvariant, BindingDecides
  <2> QED
    BY <1>1, <1>7, <2>1 DEF LineageInvariant, BindingDecides
<1> QED
  BY <1>8, <1>9 DEF LineageInvariant

\* save_v3 keeps the lineage.
LEMMA SnapshotStep ==
    ASSUME LineageInvariant, SaveSnapshot
    PROVE  LineageInvariant'
<1>0. PICK d \in Decisions, b \in Bundles, c \in Contents : \E s \in Drafts(b, c) :
        /\ SnapshotOk(d, s) /\ Bindable(d, b) /\ SameSnapshot(d, s)
        /\ bound' = Put(bound, d, b)
        /\ snapshots' = IF d \in DOMAIN snapshots THEN snapshots ELSE Put(snapshots, d, s)
        /\ answers' = answers \cup {[decision |-> d, snapshot |-> s]}
        /\ UNCHANGED segments
  BY DEF SaveSnapshot
<1>1. PICK s \in Drafts(b, c) :
        /\ SnapshotOk(d, s) /\ Bindable(d, b) /\ SameSnapshot(d, s)
        /\ bound' = Put(bound, d, b)
        /\ snapshots' = IF d \in DOMAIN snapshots THEN snapshots ELSE Put(snapshots, d, s)
        /\ answers' = answers \cup {[decision |-> d, snapshot |-> s]}
        /\ UNCHANGED segments
  BY <1>0
<1>2. s \in Snapshots /\ s.bundle = b /\ s.output = <<d, b>>
  BY <1>1 DEF Drafts, Snapshots, SnapshotOk
<1>3. /\ bound' \in [DOMAIN bound' -> Bundles]
      /\ DOMAIN bound' = DOMAIN bound \cup {d}
      /\ bound'[d] = b
      /\ \A e \in DOMAIN bound : bound'[e] = bound[e]
      /\ \A e, g \in DOMAIN bound' : bound'[e] = bound'[g] => e = g
  BY <1>1, Bind
<1>4. snapshots \in [DOMAIN snapshots -> Snapshots]
  BY DEF LineageInvariant, TablesOK
<1>5. d \notin DOMAIN snapshots =>
        /\ DOMAIN snapshots' = DOMAIN snapshots \cup {d}
        /\ \A e \in DOMAIN snapshots : snapshots'[e] = snapshots[e]
        /\ snapshots'[d] = s
        /\ snapshots' \in [DOMAIN snapshots' -> Snapshots]
  BY <1>1, <1>2, <1>4 DEF Put
<1>6. /\ DOMAIN snapshots' = DOMAIN snapshots \cup {d}
      /\ \A e \in DOMAIN snapshots : snapshots'[e] = snapshots[e]
      /\ snapshots' \in [DOMAIN snapshots' -> Snapshots]
  BY <1>1, <1>4, <1>5
<1>7. snapshots'[d] = s
  BY <1>1, <1>5 DEF SameSnapshot
<1> DEFINE answer == [decision |-> d, snapshot |-> s]
<1>9. answer \in Answers /\ answer.decision = d /\ answer.snapshot = s
  BY <1>2 DEF Answers
<1>10. answers' = answers \cup {answer}
  BY <1>1
<1> HIDE DEF answer
<1>11. TablesOK'
  BY <1>1, <1>3, <1>6, <1>9, <1>10 DEF LineageInvariant, TablesOK
<1>12. BindingDecides'
  <2>1. \A e \in DOMAIN snapshots' :
          /\ e \in DOMAIN bound' /\ bound'[e] = snapshots'[e].bundle
          /\ snapshots'[e].output = <<e, snapshots'[e].bundle>>
    BY <1>2, <1>3, <1>6, <1>7 DEF LineageInvariant, BindingDecides
  <2>2. \A a \in answers' : a.decision \in DOMAIN snapshots' /\ snapshots'[a.decision] = a.snapshot
    BY <1>6, <1>7, <1>9, <1>10 DEF LineageInvariant, BindingDecides
  <2>3. \A r \in DOMAIN segments' :
          segments'[r].decision \in DOMAIN bound' /\ bound'[segments'[r].decision] = segments'[r].bundle
    BY <1>1, <1>3 DEF LineageInvariant, BindingDecides
  <2> QED
    BY <1>3, <2>1, <2>2, <2>3 DEF BindingDecides
<1> QED
  BY <1>11, <1>12 DEF LineageInvariant

\* Reviews touch no table of the lineage.
LEMMA LineageStep ==
    ASSUME LineageInvariant, [RecordsNext]_recordVars
    PROVE  LineageInvariant'
<1>1. CASE SaveSegments
  BY <1>1, SegmentsStep
<1>2. CASE SaveSnapshot
  BY <1>2, SnapshotStep
<1>3. CASE UNCHANGED <<bound, segments, snapshots, answers>>
  BY <1>3 DEF LineageInvariant, TablesOK, BindingDecides
<1> QED
  BY <1>1, <1>2, <1>3 DEF RecordsNext, recordVars, BeginReview, SaveReview, Materialize, LoseReview

----------------------------------------------------------------------------

\* A new review row of a call keeps the rows that were there.
LEMMA ReviewRowAdded ==
    ASSUME ReviewsOK, NEW id \in Decisions \X SUBSET Outcomes, NEW own \in Reviews,
           id \in DOMAIN reviews => reviews[id] = own,
           reviews' = Put(reviews, id, own)
    PROVE  /\ reviews' \in [DOMAIN reviews' -> Reviews]
           /\ id \in DOMAIN reviews' /\ reviews'[id] = own
           /\ \A x \in DOMAIN reviews : x \in DOMAIN reviews' /\ reviews'[x] = reviews[x]
<1>1. reviews \in [DOMAIN reviews -> Reviews]
  BY DEF ReviewsOK
<1> QED
  BY <1>1 DEF Put

\* As long as no review row changes, stored memories keep theirs.
LEMMA MemoriesKeep ==
    ASSUME MemoryInvariant, UNCHANGED memories,
           \A x \in DOMAIN reviews : x \in DOMAIN reviews' /\ reviews'[x] = reviews[x]
    PROVE  MemoryHasItsReview'
BY DEF MemoryInvariant, MemoryHasItsReview

\* Every step keeps the memories and what the calls know.
LEMMA MemoryStep ==
    ASSUME MemoryInvariant, [RecordsNext]_recordVars
    PROVE  MemoryInvariant'
<1>0. ReviewsOK /\ MemoryHasItsReview /\ \A c \in Callers : CallKnows(c)
  BY DEF MemoryInvariant
<1>1. CASE UNCHANGED <<reviews, memories, review>>
  BY <1>0, <1>1 DEF MemoryInvariant, ReviewsOK, MemoryHasItsReview, CallKnows
<1>2. ASSUME NEW c \in Callers, NEW d \in Decisions, NEW refs \in SUBSET Outcomes,
             BeginReview(c, d, refs)
      PROVE  MemoryInvariant'
  <2> DEFINE id == ReviewId(d, refs)
             own == IF id \in DOMAIN reviews THEN reviews[id] ELSE [by |-> c, memory |-> MemoryType(refs)]
             new == [id |-> id, row |-> own, step |-> FirstStep(id)]
  <2>1. MemoryType(refs) \in {"SUCCESS_PATTERN", "FAILURE_PATTERN"}
    BY DEF MemoryType
  <2>2. id \in Decisions \X SUBSET Outcomes
    BY DEF ReviewId
  <2>3. own \in Reviews
    BY <1>0, <2>1 DEF ReviewsOK, Reviews
  <2>4. new \in ReviewCalls
    BY <2>2, <2>3 DEF ReviewCalls, Reviews, FirstStep
  <2>5. new.step = "remember" => id \in DOMAIN reviews /\ reviews[id] = own
    BY DEF FirstStep
  <2>6. new.id = id /\ new.row = own
    OBVIOUS
  <2>7. review' = [review EXCEPT ![c] = new] /\ UNCHANGED <<reviews, memories>>
    BY <1>2 DEF BeginReview
  <2> HIDE DEF id, own, new
  <2>8. ReviewsOK'
    BY <1>0, <2>4, <2>7 DEF ReviewsOK
  <2>9. \A u \in Callers : CallKnows(u)'
    BY <1>0, <2>5, <2>6, <2>7 DEF ReviewsOK, CallKnows
  <2> QED
    BY <1>0, <2>7, <2>8, <2>9 DEF MemoryInvariant, MemoryHasItsReview
<1>3. ASSUME NEW c \in Callers, SaveReview(c)
      PROVE  MemoryInvariant'
  <2> DEFINE id == review[c].id
             own == review[c].row
  <2>1. review[c] \in ReviewCalls
    BY <1>0, <1>3 DEF SaveReview, ReviewsOK
  <2>2. id \in Decisions \X SUBSET Outcomes /\ own \in Reviews
    BY <2>1 DEF ReviewCalls, Reviews
  <2>3. UNCHANGED memories
    BY <1>3 DEF SaveReview
  <2>4. CASE id \in DOMAIN reviews /\ reviews[id] # own
    <3>1. review' = [review EXCEPT ![c] = Idle] /\ UNCHANGED reviews
      BY <1>3, <2>4 DEF SaveReview
    <3> QED
      BY <1>0, <2>3, <3>1 DEF MemoryInvariant, ReviewsOK, MemoryHasItsReview, CallKnows
  <2>5. CASE ~(id \in DOMAIN reviews /\ reviews[id] # own)
    <3>1. reviews' = Put(reviews, id, own) /\ review' = [review EXCEPT ![c].step = "remember"]
      BY <1>3, <2>5 DEF SaveReview
    <3>2. /\ reviews' \in [DOMAIN reviews' -> Reviews]
          /\ id \in DOMAIN reviews' /\ reviews'[id] = own
          /\ \A x \in DOMAIN reviews : x \in DOMAIN reviews' /\ reviews'[x] = reviews[x]
      <4> HIDE DEF id, own
      <4> QED
        BY <1>0, <2>2, <2>5, <3>1, ReviewRowAdded
    <3>3. [review[c] EXCEPT !.step = "remember"] \in ReviewCalls
      BY <2>1 DEF ReviewCalls
    <3>4. /\ review' = [review EXCEPT ![c] = [review[c] EXCEPT !.step = "remember"]]
          /\ [review[c] EXCEPT !.step = "remember"].id = id
          /\ [review[c] EXCEPT !.step = "remember"].row = own
      BY <2>1, <3>1 DEF ReviewCalls
    <3>5. ReviewsOK'
      BY <1>0, <2>3, <3>2, <3>3, <3>4 DEF ReviewsOK
    <3>6. MemoryHasItsReview'
      BY <2>3, <3>2, MemoriesKeep
    <3>7. CallKnows(c)'
      BY <1>0, <3>2, <3>4 DEF CallKnows, ReviewsOK
    <3>8. \A u \in Callers \ {c} : CallKnows(u)'
      BY <1>0, <3>2, <3>4 DEF CallKnows, ReviewsOK
    <3> QED
      BY <3>5, <3>6, <3>7, <3>8 DEF MemoryInvariant
  <2> QED
    BY <2>4, <2>5
<1>4. ASSUME NEW c \in Callers, Materialize(c)
      PROVE  MemoryInvariant'
  <2> DEFINE key == DedupeKey(review[c].row.memory)
             memory == MemoryOf(review[c])
  <2>1. review[c] \in ReviewCalls
    BY <1>0, <1>4 DEF Materialize, ReviewsOK
  <2>2. review[c].id \in DOMAIN reviews /\ reviews[review[c].id] = review[c].row
    BY <1>0, <1>4 DEF Materialize, CallKnows
  <2>3. /\ memory \in Memories
        /\ memory.review = review[c].id /\ memory.by = review[c].row.by
    BY <2>1 DEF MemoryOf, Memories, ReviewCalls
  <2>4. DedupeKey(reviews[memory.review].memory) = key
    BY <2>2, <2>3
  <2>5. review' = [review EXCEPT ![c] = Idle] /\ UNCHANGED reviews
    BY <1>4 DEF Materialize
  <2>6. /\ memories' \in [DOMAIN memories' -> Memories]
        /\ MemoryHasItsReview'
    <3>1. CASE key \in DOMAIN memories
      <4>1. memories' = memories
        BY <1>4, <3>1 DEF Materialize, Stored
      <4> QED
        BY <1>0, <2>5, <4>1 DEF ReviewsOK, MemoryHasItsReview
    <3>2. CASE key \notin DOMAIN memories
      <4>1. memories' = Put(memories, key, memory)
        BY <1>4, <3>2 DEF Materialize, Stored
      <4>2. memories \in [DOMAIN memories -> Memories]
        BY <1>0 DEF ReviewsOK
      <4> HIDE DEF key, memory
      <4>3. /\ DOMAIN memories' = DOMAIN memories \cup {key}
            /\ \A k \in DOMAIN memories : memories'[k] = memories[k]
            /\ memories'[key] = memory
            /\ memories' \in [DOMAIN memories' -> Memories]
        BY <2>3, <3>2, <4>1, <4>2 DEF Put
      <4>5. MemoryHasItsReview'
        BY <1>0, <2>2, <2>3, <2>4, <2>5, <4>3 DEF MemoryHasItsReview
      <4> QED
        BY <4>3, <4>5
    <3> QED
      BY <3>1, <3>2
  <2>7. ReviewsOK'
    BY <1>0, <2>5, <2>6 DEF ReviewsOK
  <2>8. \A u \in Callers : CallKnows(u)'
    BY <1>0, <2>5 DEF ReviewsOK, CallKnows
  <2> QED
    BY <2>6, <2>7, <2>8 DEF MemoryInvariant
<1>5. ASSUME NEW c \in Callers, LoseReview(c)
      PROVE  MemoryInvariant'
  <2>1. review' = [review EXCEPT ![c] = Idle] /\ UNCHANGED <<reviews, memories>>
    BY <1>5 DEF LoseReview
  <2> QED
    BY <1>0, <2>1 DEF MemoryInvariant, ReviewsOK, MemoryHasItsReview, CallKnows
<1> QED
  BY <1>1, <1>2, <1>3, <1>4, <1>5 DEF RecordsNext, recordVars, SaveSegments, SaveSnapshot

----------------------------------------------------------------------------

\* The tables of the lineage follow the binding, in every order of calls.
THEOREM LineageInvariance == RecordsSpec => []LineageInvariant
<1>1. RecordsInit => LineageInvariant
  BY DEF RecordsInit, LineageInvariant, TablesOK, BindingDecides
<1>2. LineageInvariant /\ [RecordsNext]_recordVars => LineageInvariant'
  BY LineageStep
<1> QED
  BY <1>1, <1>2, PTL DEF RecordsSpec

\* One decision has one bundle and one bundle one decision, everywhere
\* (_ensure_decision_bundle_binding, save_formal_segments, save_v3).
THEOREM LineageIsUnique == RecordsSpec => []LineageIsOneToOne
<1>1. LineageInvariant => LineageIsOneToOne
  <2> SUFFICES ASSUME LineageInvariant PROVE LineageIsOneToOne
    OBVIOUS
  <2> DEFINE pairs == {<<d, bound[d]>> : d \in DOMAIN bound}
                 \cup {<<segments[r].decision, segments[r].bundle>> : r \in DOMAIN segments}
                 \cup {<<d, snapshots[d].bundle>> : d \in DOMAIN snapshots}
                 \cup {snapshots[d].output : d \in DOMAIN snapshots}
  <2>1. \A p \in pairs : p[1] \in DOMAIN bound /\ p[2] = bound[p[1]]
    BY DEF LineageInvariant, BindingDecides
  <2>2. \A p, q \in pairs : p[1] = q[1] <=> p[2] = q[2]
    <3> HIDE DEF pairs
    <3> QED
      BY <2>1 DEF LineageInvariant, BindingDecides
  <2> QED
    BY <2>2 DEF LineageIsOneToOne, LineageInvariant, BindingDecides
<1> QED
  BY <1>1, LineageInvariance, PTL

\* A memory cites a stored review of its own call and verdict
\* (ReviewService.save_review, across crashes and racing callers).
THEOREM MemoryIsFounded == RecordsSpec => []MemoryHasItsReview
<1>1. RecordsInit => MemoryInvariant
  BY DEF RecordsInit, MemoryInvariant, ReviewsOK, MemoryHasItsReview, CallKnows
<1>2. MemoryInvariant /\ [RecordsNext]_recordVars => MemoryInvariant'
  BY MemoryStep
<1>3. MemoryInvariant => MemoryHasItsReview
  BY DEF MemoryInvariant
<1> QED
  BY <1>1, <1>2, <1>3, PTL DEF RecordsSpec

----------------------------------------------------------------------------
(* Memory records and their index.                                         *)

\* VectorIndexTask
Tasks == [record : Records, status : {"pending", "processing", "success", "failed"}]

\* What the variables that the index follows from hold.
MemoryTypeOK ==
    /\ rows \in [Records -> MemoryRows \cup {NoMemory}]
    /\ tasks \in Seq(Tasks)
    /\ points = [p \in DOMAIN points |-> points[p]]
    /\ merging \in [Mergers -> Merges \cup {NoMemory}]
    /\ outcome # NoMemory => outcome.record \in Live /\ outcome.status \in MemoryStatuses
    /\ indexer \in Indexings \cup {NoMemory}

\* What a merger and the worker refer to exists.
RefersToLive ==
    /\ \A m \in Mergers : merging[m] # NoMemory =>
        /\ merging[m].step # "create" => merging[m].record \in Live
        /\ merging[m].step \in {"snapshot", "update"} => merging[m].old \in MemoryRows
    /\ \A i \in DOMAIN tasks : tasks[i].record \in Live
    /\ indexer # NoMemory => /\ indexer.task \in DOMAIN tasks
                             /\ tasks[indexer.task].status = "processing"
                             /\ indexer.step # "load" => indexer.content \in MemoryContents
                             /\ indexer.step \in {"point", "map"} => indexer.chunk >= 1
    /\ \A p \in DOMAIN points \cup mapped : \E r \in Live, i \in Nat : p = <<r, i>>

\* The entries of a record, and its first n chunks.
Held(S, r) == {p \in S : p[1] = r}
Upto(r, n) == {<<r, i>> : i \in 1 .. n}

\* A task for the record is to come or is waiting.
Waiting(r) ==
    \/ \E m \in Mergers : MergerAt(m, "enqueue") /\ merging[m].record = r
    \/ \E i \in Pending : tasks[i].record = r

\* The points of the record are its first n chunks.
Shows(r, n) ==
    /\ Held(DOMAIN points, r) = Upto(r, n)
    /\ \A p \in Upto(r, n) : points[p] = rows[r].content

\* The worker is at a task of the record.
Indexing(r) == indexer # NoMemory /\ IndexedRecord = r

\* How far the worker is with the content the record has now.
Fixing(r) ==
    /\ indexer.step # "load" => indexer.content = rows[r].content
    /\ indexer.step = "unmap" => Held(DOMAIN points, r) = {}
    /\ indexer.step = "point" => Shows(r, indexer.chunk - 1)
    /\ indexer.step = "map" => Shows(r, indexer.chunk)
    /\ indexer.step \in {"point", "map"} =>
        /\ Held(mapped, r) = Upto(r, indexer.chunk - 1)
        /\ indexer.chunk <= Chunks(rows[r].content)

\* The index holds what the record says.
Clean(r) ==
    /\ Shows(r, Chunks(rows[r].content))
    /\ Held(mapped, r) = Upto(r, Chunks(rows[r].content))

\* The record is indexed, is being indexed, or will be.
Kept(r) == Waiting(r) \/ (Indexing(r) /\ Fixing(r)) \/ (~Indexing(r) /\ Clean(r))

\* Unless something failed, every record is indexed, or will be.
IndexInvariant ==
    /\ faults \in Nat
    /\ faults = 0 /\ Target \in Collections =>
        MemoryTypeOK /\ RefersToLive /\ \A r \in Live : Kept(r)

----------------------------------------------------------------------------

\* A payload is a row.
LEMMA PayloadIsRow ==
    ASSUME NEW c \in Candidates, NEW source \in {x.source : x \in Candidates} \cup {NoMemory}
    PROVE  Payload(c, source) \in MemoryRows
  <1>1. /\ c.content \in MemoryContents /\ c.facts \in {x.facts : x \in Candidates}
        /\ c.relevant \in BOOLEAN /\ c.timed \in BOOLEAN
    BY MemoryAssumption DEF MemoryContents
  <1>2. /\ c.lessons \in SUBSET UNION {x.lessons : x \in Candidates}
        /\ c.regimes \in SUBSET UNION {x.regimes : x \in Candidates}
    OBVIOUS
  <1> QED BY <1>1, <1>2 DEF Payload, MemoryRows, MemoryStatuses

\* So is what a record and a candidate are merged to.
LEMMA MergedIsRow ==
    ASSUME NEW old \in MemoryRows, NEW c \in Candidates
    PROVE  Merged(old, c) \in MemoryRows
  <1>1. PICK p \in MemoryRows : p = Payload(c, NoMemory)
    BY PayloadIsRow
  <1>2. /\ p.lessons \cup old.lessons \in SUBSET UNION {x.lessons : x \in Candidates}
        /\ p.regimes \cup old.regimes \in SUBSET UNION {x.regimes : x \in Candidates}
    BY DEF MemoryRows
  <1> DEFINE p1 == [p EXCEPT !.lessons = p.lessons \cup old.lessons]
             p2 == [p1 EXCEPT !.regimes = p.regimes \cup old.regimes]
  <1>3. p1 \in MemoryRows /\ p1.regimes = p.regimes
    BY <1>2 DEF MemoryRows
  <1>4. p2 \in MemoryRows
    <2> HIDE DEF p1
    <2> QED BY <1>2, <1>3 DEF MemoryRows
  <1>5. Merged(old, c) = p2
    BY <1>1, <1>3 DEF Merged, MemoryRows
  <1> QED BY <1>4, <1>5

\* The status of a row changes nothing else.
LEMMA StatusOnly ==
    ASSUME NEW given \in MemoryRows, NEW status \in MemoryStatuses
    PROVE  /\ [given EXCEPT !.status = status] \in MemoryRows
           /\ [given EXCEPT !.status = status].content = given.content
           /\ [given EXCEPT !.status = status] # NoMemory
  <1>1. [given EXCEPT !.status = status] \in MemoryRows
    BY DEF MemoryRows
  <1> QED BY <1>1, MemoryAssumption DEF MemoryRows

\* A verdict is a status.
LEMMA JudgedIsStatus ==
    ASSUME NEW status \in MemoryStatuses, NEW e
    PROVE  Judged(status, e) \in MemoryStatuses
  BY DEF Judged, MemoryStatuses, ConfidenceAtLeast, ConfidenceAtMost

\* What a record that keeps its content is owed stays, while the index and the
\* worker stand still and no task is lost.
LEMMA StaysKept ==
    ASSUME MemoryTypeOK, RefersToLive, NEW r \in Live, Kept(r),
           rows'[r].content = rows[r].content,
           UNCHANGED <<points, mapped, indexer>>,
           \A i \in DOMAIN tasks : i \in DOMAIN tasks' /\ tasks'[i] = tasks[i],
           Waiting(r) => Waiting(r)'
    PROVE  Kept(r)'
  <1>1. Indexing(r)' = Indexing(r)
    BY DEF Indexing, IndexedRecord, RefersToLive
  <1>2. Fixing(r) => Fixing(r)'
    BY DEF Fixing, Shows
  <1>3. Clean(r) => Clean(r)'
    BY DEF Clean, Shows
  <1> QED BY <1>1, <1>2, <1>3 DEF Kept

\* A step of the mergers or of the life of records: rows stay, and one whose
\* content changes is to be enqueued.
LEMMA RecordStep ==
    ASSUME MemoryTypeOK, RefersToLive, \A r \in Live : Kept(r), MemoryTypeOK',
           UNCHANGED <<points, mapped, indexer>>,
           \A i \in DOMAIN tasks : i \in DOMAIN tasks' /\ tasks'[i] = tasks[i],
           \A i \in DOMAIN tasks' \ DOMAIN tasks : tasks'[i].record \in Live,
           \A r \in Live : rows'[r] # NoMemory,
           \A r \in Records : rows'[r] # NoMemory =>
               \/ Waiting(r)'
               \/ r \in Live /\ rows'[r].content = rows[r].content /\ (Waiting(r) => Waiting(r)'),
           \A m \in Mergers : merging'[m] # NoMemory =>
               /\ merging'[m].step # "create" => merging'[m].record \in Live'
               /\ merging'[m].step \in {"snapshot", "update"} => merging'[m].old \in MemoryRows
    PROVE  RefersToLive' /\ \A r \in Live' : Kept(r)'
  <1>1. \A r \in Live : r \in Live'
    BY DEF Live
  <1>2. RefersToLive'
    <2>1. \A i \in DOMAIN tasks' : tasks'[i].record \in Live'
      BY <1>1 DEF RefersToLive
    <2>2. indexer # NoMemory => /\ indexer.task \in DOMAIN tasks'
                                /\ tasks'[indexer.task].status = "processing"
      BY DEF RefersToLive
    <2>3. \A p \in DOMAIN points' \cup mapped' : \E r \in Live', i \in Nat : p = <<r, i>>
      BY <1>1 DEF RefersToLive
    <2> QED BY <2>1, <2>2, <2>3 DEF RefersToLive
  <1>3. ASSUME NEW r \in Live' PROVE Kept(r)'
    <2>1. r \in Records /\ rows'[r] # NoMemory
      BY DEF Live
    <2>2. CASE Waiting(r)'
      BY <2>2 DEF Kept
    <2>3. CASE r \in Live /\ rows'[r].content = rows[r].content /\ (Waiting(r) => Waiting(r)')
      BY <2>3, StaysKept
    <2> QED BY <2>1, <2>2, <2>3
  <1> QED BY <1>2, <1>3

\* A merger's move keeps the records that wait for the others.
LEMMA WaitingStays ==
    ASSUME NEW r, NEW m \in Mergers,
           \A n \in Mergers \ {m} : merging'[n] = merging[n],
           \A i \in DOMAIN tasks : i \in DOMAIN tasks' /\ tasks'[i] = tasks[i],
           ~MergerAt(m, "enqueue")
    PROVE  Waiting(r) => Waiting(r)'
  BY DEF Waiting, Pending, MergerAt

\* Every step of a merge that is not lost.
LEMMA MergeStep ==
    ASSUME MemoryTypeOK, RefersToLive, \A r \in Live : Kept(r), NEW m \in Mergers,
           \/ \E c \in Candidates : Lookup(m, c)
           \/ Snapshot(m) \/ Supersede(m) \/ Create(m) \/ Update(m) \/ Enqueue(m)
    PROVE  MemoryTypeOK' /\ RefersToLive' /\ \A r \in Live' : Kept(r)'
  <1>0. /\ rows \in [Records -> MemoryRows \cup {NoMemory}] /\ tasks \in Seq(Tasks)
        /\ merging \in [Mergers -> Merges \cup {NoMemory}]
        /\ NoMemory \notin MemoryRows /\ NoMemory \notin Merges /\ NoMemory \notin Indexings
        /\ Records \subseteq Nat
    BY MemoryAssumption DEF MemoryTypeOK, Records
  <1>a. UNCHANGED <<points, mapped, indexer, outcome>>
    BY DEF Lookup, Snapshot, Supersede, Create, Update, Enqueue
  <1>b. ASSUME rows' \in [Records -> MemoryRows \cup {NoMemory}], tasks' \in Seq(Tasks),
               merging' \in [Mergers -> Merges \cup {NoMemory}],
               \A r \in Live : rows'[r] # NoMemory
        PROVE  MemoryTypeOK'
    BY <1>a, <1>b DEF MemoryTypeOK, Live
  <1>1. CASE \E c \in Candidates : Lookup(m, c)
    <2>1. PICK c \in Candidates : Lookup(m, c)
      BY <1>1
    <2>2. UNCHANGED <<rows, tasks>> /\ merging[m] = NoMemory
      BY <2>1 DEF Lookup
    <2>3. PICK g \in Merges : /\ merging' = [merging EXCEPT ![m] = g]
                              /\ g.step # "enqueue"
                              /\ g.step # "create" => g.record \in Live
                              /\ g.step \in {"snapshot", "update"} => g.old \in MemoryRows
      <3>1. CASE Existing = {}
        <4> DEFINE g == [step |-> "create", candidate |-> c, record |-> 0, old |-> NoMemory,
                         source |-> NoMemory]
        <4>1. merging' = [merging EXCEPT ![m] = g]
          BY <2>1, <3>1 DEF Lookup
        <4>2. g \in Merges
          BY DEF Merges
        <4> QED BY <4>1, <4>2
      <3>2. CASE Existing # {}
        <4>1. PICK x : x = CHOOSE r \in Existing : TRUE
          OBVIOUS
        <4>2. x \in Existing
          BY <4>1, <3>2, Zenon
        <4>3. x \in Live /\ x \in Nat /\ rows[x] \in MemoryRows
          BY <4>2, <1>0 DEF Existing, Live
        <4> DEFINE g == [step |-> "snapshot", candidate |-> c, record |-> x, old |-> rows[x],
                         source |-> NoMemory]
        <4>4. merging' = [merging EXCEPT ![m] = g]
          BY <2>1, <3>2, <4>1 DEF Lookup
        <4>5. g \in Merges
          BY <4>3 DEF Merges
        <4> QED BY <4>3, <4>4, <4>5
      <3> QED BY <3>1, <3>2
    <2>4. merging' \in [Mergers -> Merges \cup {NoMemory}]
      BY <2>3, <1>0
    <2>5. \A r \in Records : Waiting(r) => Waiting(r)'
      BY <2>2, <2>3, <1>0, WaitingStays DEF MergerAt
    <2>6. \A x \in Mergers : merging'[x] = IF x = m THEN g ELSE merging[x]
      BY <2>3, <1>0
    <2>7. Live' = Live
      BY <2>2 DEF Live
    <2>8. MemoryTypeOK'
      BY <2>2, <2>4, <1>0, <1>b DEF Live
    <2>9. \A x \in Mergers : merging'[x] # NoMemory =>
             /\ merging'[x].step # "create" => merging'[x].record \in Live'
             /\ merging'[x].step \in {"snapshot", "update"} => merging'[x].old \in MemoryRows
      BY <2>3, <2>6, <2>7 DEF RefersToLive
    <2> QED BY <2>2, <2>5, <2>8, <2>9, <1>a, RecordStep DEF Live
  <1>2. CASE Snapshot(m)
    <2>1. /\ UNCHANGED <<rows, tasks>> /\ merging[m] \in Merges /\ merging[m].step = "snapshot"
          /\ merging[m].old \in MemoryRows /\ merging[m].record \in Live
      BY <1>2, <1>0 DEF Snapshot, MergerAt, RefersToLive
    <2>2. PICK g \in Merges \cup {NoMemory} :
             /\ merging' = [merging EXCEPT ![m] = g]
             /\ g # NoMemory => /\ g.step \in {"update", "supersede"}
                                /\ g.record \in Live /\ g.old \in MemoryRows
      <3>1. CASE Resolution(merging[m].old, merging[m].candidate) = "touch"
        BY <1>2, <3>1 DEF Snapshot, EndMerge
      <3>2. CASE Resolution(merging[m].old, merging[m].candidate) # "touch"
        <4>1. PICK s : s = Resolution(merging[m].old, merging[m].candidate)
          OBVIOUS
        <4>2. s \in {"update", "supersede"}
          BY <4>1, <3>2 DEF Resolution
        <4>3. merging' = [merging EXCEPT ![m].step = s]
          BY <1>2, <3>2, <4>1 DEF Snapshot, MoveMerger
        <4>4. [merging[m] EXCEPT !.step = s] \in Merges
          BY <2>1, <4>2 DEF Merges
        <4>5. /\ [merging[m] EXCEPT !.step = s].step = s
              /\ [merging[m] EXCEPT !.step = s].record = merging[m].record
              /\ [merging[m] EXCEPT !.step = s].old = merging[m].old
          BY <2>1 DEF Merges
        <4> QED BY <4>2, <4>3, <4>4, <4>5, <2>1, <1>0
      <3> QED BY <3>1, <3>2
    <2>4. merging' \in [Mergers -> Merges \cup {NoMemory}]
      BY <2>2, <1>0
    <2>5. \A r \in Records : Waiting(r) => Waiting(r)'
      BY <2>1, <2>2, <1>0, WaitingStays DEF MergerAt
    <2>6. \A x \in Mergers : merging'[x] = IF x = m THEN g ELSE merging[x]
      BY <2>2, <1>0
    <2>7. Live' = Live
      BY <2>1 DEF Live
    <2>8. MemoryTypeOK'
      BY <2>1, <2>4, <1>0, <1>b DEF Live
    <2>9. \A x \in Mergers : merging'[x] # NoMemory =>
             /\ merging'[x].step # "create" => merging'[x].record \in Live'
             /\ merging'[x].step \in {"snapshot", "update"} => merging'[x].old \in MemoryRows
      BY <2>2, <2>6, <2>7 DEF RefersToLive
    <2> QED BY <2>1, <2>5, <2>8, <2>9, <1>a, RecordStep DEF Live
  <1>3. CASE Supersede(m)
    <2>1. /\ tasks' = tasks /\ merging[m] \in Merges /\ merging[m].step = "supersede"
          /\ merging[m].record \in Live
      BY <1>3, <1>0 DEF Supersede, MergerAt, RefersToLive
    <2> DEFINE h == merging[m].record
               c == merging[m].candidate
    <2>2. PICK s : s = c.source
      OBVIOUS
    <2>3. s \in {x.source : x \in Candidates} \cup {NoMemory}
      BY <2>1, <2>2 DEF Merges
    <2>4. merging' = [merging EXCEPT ![m] = [[merging[m] EXCEPT !.step = "create"] EXCEPT !.source = s]]
      BY <1>3, <2>2, <1>0, <2>1 DEF Supersede, Merges
    <2>5. [merging[m] EXCEPT !.step = "create"] \in Merges
          /\ [merging[m] EXCEPT !.step = "create"].step = "create"
      BY <2>1 DEF Merges
    <2>6. PICK f \in Merges : f = [merging[m] EXCEPT !.step = "create"] /\ f.step = "create"
      BY <2>5
    <2>7. [f EXCEPT !.source = s] \in Merges /\ [f EXCEPT !.source = s].step = "create"
      BY <2>3, <2>6 DEF Merges
    <2>8. PICK g \in Merges : merging' = [merging EXCEPT ![m] = g] /\ g.step = "create"
      BY <2>4, <2>6, <2>7
    <2>10. merging' \in [Mergers -> Merges \cup {NoMemory}]
      BY <2>8, <1>0
    <2>11. \A x \in Mergers : merging'[x] = IF x = m THEN g ELSE merging[x]
      BY <2>8, <1>0
    <2>12. rows[h] \in MemoryRows /\ rows' = [rows EXCEPT ![h] = [rows[h] EXCEPT !.status = "SUPERSEDED"]]
           /\ h \in Records
      BY <1>3, <2>1, <1>0 DEF Supersede, Live
    <2>13. PICK new \in MemoryRows : /\ rows' = [rows EXCEPT ![h] = new]
                                     /\ new.content = rows[h].content
      BY <2>12, StatusOnly DEF MemoryStatuses
    <2>14. /\ \A r \in Records : rows'[r] = IF r = h THEN new ELSE rows[r]
           /\ rows' \in [Records -> MemoryRows \cup {NoMemory}] /\ Live' = Live
      BY <2>13, <2>12, <1>0 DEF Live
    <2>15. \A r \in Records : Waiting(r) => Waiting(r)'
      BY <2>1, <2>11, <1>0, WaitingStays DEF MergerAt
    <2>16. MemoryTypeOK'
      BY <2>1, <2>10, <2>14, <1>0, <1>b DEF Live
    <2>17. \A x \in Mergers : merging'[x] # NoMemory =>
             /\ merging'[x].step # "create" => merging'[x].record \in Live'
             /\ merging'[x].step \in {"snapshot", "update"} => merging'[x].old \in MemoryRows
      BY <2>8, <2>11, <2>14 DEF RefersToLive
    <2>18. /\ \A r \in Live : rows'[r] # NoMemory
           /\ \A r \in Records : rows'[r] # NoMemory =>
                r \in Live /\ rows'[r].content = rows[r].content
      BY <2>12, <2>13, <2>14, <1>0 DEF Live
    <2> HIDE DEF h
    <2> QED BY <2>1, <2>15, <2>16, <2>17, <2>18, <1>a, RecordStep
  <1>4. CASE Create(m)
    <2>1. /\ tasks' = tasks /\ merging[m] \in Merges /\ merging[m].step = "create"
      BY <1>4, <1>0 DEF Create, MergerAt
    <2>2. CASE KeyTaken(merging[m].source)
      <3>1. rows' = rows /\ merging' = [merging EXCEPT ![m] = NoMemory]
        BY <1>4, <2>2 DEF Create, EndMerge
      <3>2. merging' \in [Mergers -> Merges \cup {NoMemory}]
        BY <3>1, <1>0
      <3>3. \A x \in Mergers : merging'[x] = IF x = m THEN NoMemory ELSE merging[x]
        BY <3>1, <1>0
      <3>4. \A r \in Records : Waiting(r) => Waiting(r)'
        BY <2>1, <3>3, <1>0, WaitingStays DEF MergerAt
      <3>5. MemoryTypeOK' /\ Live' = Live
        BY <2>1, <3>1, <3>2, <1>0, <1>b DEF Live
      <3>6. \A x \in Mergers : merging'[x] # NoMemory =>
             /\ merging'[x].step # "create" => merging'[x].record \in Live'
             /\ merging'[x].step \in {"snapshot", "update"} => merging'[x].old \in MemoryRows
        BY <3>3, <3>5 DEF RefersToLive
      <3> QED BY <2>1, <3>1, <3>4, <3>5, <3>6, <1>a, RecordStep DEF Live
    <2>3. CASE ~KeyTaken(merging[m].source)
      <3>1. PICK h : h = Cardinality(Live) + 1
        OBVIOUS
      <3>2. PICK new : new = Payload(merging[m].candidate, merging[m].source)
        OBVIOUS
      <3>3. /\ h \in Records /\ rows' = [rows EXCEPT ![h] = new]
            /\ merging' = [merging EXCEPT ![m].step = "enqueue", ![m].record = h]
        BY <1>4, <2>3, <3>1, <3>2 DEF Create
      <3>4. merging' = [merging EXCEPT ![m] = [[merging[m] EXCEPT !.step = "enqueue"] EXCEPT !.record = h]]
        BY <3>3, <1>0, <2>1 DEF Merges
      <3>a. /\ [merging[m] EXCEPT !.step = "enqueue"] \in Merges
            /\ [merging[m] EXCEPT !.step = "enqueue"].step = "enqueue"
        BY <2>1 DEF Merges
      <3>5. PICK f \in Merges : f = [merging[m] EXCEPT !.step = "enqueue"] /\ f.step = "enqueue"
        BY <3>a
      <3>6. /\ [f EXCEPT !.record = h] \in Merges /\ [f EXCEPT !.record = h].step = "enqueue"
            /\ [f EXCEPT !.record = h].record = h
        BY <3>3, <3>5, <1>0 DEF Merges
      <3>7. PICK g \in Merges : merging' = [merging EXCEPT ![m] = g] /\ g.step = "enqueue" /\ g.record = h
        BY <3>4, <3>5, <3>6
      <3>8. new \in MemoryRows
        BY <2>1, <3>2, PayloadIsRow DEF Merges
      <3>9. /\ \A r \in Records : rows'[r] = IF r = h THEN new ELSE rows[r]
            /\ rows' \in [Records -> MemoryRows \cup {NoMemory}]
            /\ merging' \in [Mergers -> Merges \cup {NoMemory}]
            /\ \A x \in Mergers : merging'[x] = IF x = m THEN g ELSE merging[x]
        BY <3>3, <3>7, <3>8, <1>0
      <3>10. \A r \in Live : rows'[r] # NoMemory
        BY <3>8, <3>9, <1>0 DEF Live
      <3>11. h \in Live' /\ \A r \in Live : r \in Live'
        BY <3>3, <3>8, <3>9, <3>10, <1>0 DEF Live
      <3>12. Waiting(h)'
        BY <3>7, <3>9, <1>0 DEF Waiting, MergerAt
      <3>13. \A r \in Records : Waiting(r) => Waiting(r)'
        BY <2>1, <3>9, <1>0, WaitingStays DEF MergerAt
      <3>14. MemoryTypeOK'
        BY <2>1, <3>9, <3>10, <1>0, <1>b
      <3>15. \A x \in Mergers : merging'[x] # NoMemory =>
             /\ merging'[x].step # "create" => merging'[x].record \in Live'
             /\ merging'[x].step \in {"snapshot", "update"} => merging'[x].old \in MemoryRows
        BY <3>7, <3>9, <3>11 DEF RefersToLive
      <3>16. \A r \in Records : rows'[r] # NoMemory =>
               \/ Waiting(r)'
               \/ r \in Live /\ rows'[r].content = rows[r].content /\ (Waiting(r) => Waiting(r)')
        BY <3>9, <3>12, <3>13 DEF Live
      <3> QED BY <2>1, <3>10, <3>14, <3>15, <3>16, <1>a, RecordStep
    <2> QED BY <2>2, <2>3
  <1>5. CASE Update(m)
    <2>1. /\ tasks' = tasks /\ merging[m] \in Merges /\ merging[m].step = "update"
          /\ merging[m].record \in Live /\ merging[m].old \in MemoryRows
      BY <1>5, <1>0 DEF Update, MergerAt, RefersToLive
    <2>2. PICK h : h = merging[m].record
      OBVIOUS
    <2>3. PICK new : new = Merged(merging[m].old, merging[m].candidate)
      OBVIOUS
    <2>4. new \in MemoryRows /\ h \in Records
      BY <2>1, <2>2, <2>3, MergedIsRow DEF Merges, Live
    <2>5. rows' = [rows EXCEPT ![h] = new] /\ merging' = [merging EXCEPT ![m].step = "enqueue"]
      BY <1>5, <2>2, <2>3 DEF Update, MoveMerger
    <2>6. PICK g \in Merges : merging' = [merging EXCEPT ![m] = g] /\ g.step = "enqueue" /\ g.record = h
      <3>1. /\ [merging[m] EXCEPT !.step = "enqueue"] \in Merges
            /\ [merging[m] EXCEPT !.step = "enqueue"].step = "enqueue"
            /\ [merging[m] EXCEPT !.step = "enqueue"].record = h
        BY <2>1, <2>2 DEF Merges
      <3> QED BY <3>1, <2>5
    <2>9. /\ \A r \in Records : rows'[r] = IF r = h THEN new ELSE rows[r]
          /\ rows' \in [Records -> MemoryRows \cup {NoMemory}]
          /\ merging' \in [Mergers -> Merges \cup {NoMemory}]
          /\ \A x \in Mergers : merging'[x] = IF x = m THEN g ELSE merging[x]
      BY <2>4, <2>5, <2>6, <1>0
    <2>10. \A r \in Live : rows'[r] # NoMemory
      BY <2>4, <2>9, <1>0 DEF Live
    <2>11. h \in Live' /\ \A r \in Live : r \in Live'
      BY <2>4, <2>9, <2>10, <1>0 DEF Live
    <2>12. Waiting(h)'
      BY <2>6, <2>9, <1>0 DEF Waiting, MergerAt
    <2>13. \A r \in Records : Waiting(r) => Waiting(r)'
      BY <2>1, <2>9, <1>0, WaitingStays DEF MergerAt
    <2>14. MemoryTypeOK'
      BY <2>1, <2>9, <2>10, <1>0, <1>b
    <2>15. \A x \in Mergers : merging'[x] # NoMemory =>
             /\ merging'[x].step # "create" => merging'[x].record \in Live'
             /\ merging'[x].step \in {"snapshot", "update"} => merging'[x].old \in MemoryRows
      BY <2>6, <2>9, <2>11 DEF RefersToLive
    <2>16. \A r \in Records : rows'[r] # NoMemory =>
               \/ Waiting(r)'
               \/ r \in Live /\ rows'[r].content = rows[r].content /\ (Waiting(r) => Waiting(r)')
      BY <2>9, <2>12, <2>13 DEF Live
    <2> QED BY <2>1, <2>10, <2>14, <2>15, <2>16, <1>a, RecordStep
  <1>6. CASE Enqueue(m)
    <2>1. /\ rows' = rows /\ merging[m] \in Merges /\ merging[m].step = "enqueue"
          /\ merging[m].record \in Live
      BY <1>6, <1>0 DEF Enqueue, MergerAt, RefersToLive
    <2>a. PICK h \in Records : h = merging[m].record
      BY <2>1 DEF Live
    <2>b. [record |-> h, status |-> "pending"] \in Tasks
      BY DEF Tasks
    <2>2. PICK t \in Tasks : /\ t = [record |-> merging[m].record, status |-> "pending"]
                             /\ t.record = merging[m].record /\ t.status = "pending"
      BY <2>a, <2>b
    <2>3. tasks' = Append(tasks, t) /\ merging' = [merging EXCEPT ![m] = NoMemory]
      BY <1>6, <2>2 DEF Enqueue, EndMerge
    <2>4. /\ tasks' \in Seq(Tasks) /\ DOMAIN tasks' = DOMAIN tasks \cup {Len(tasks) + 1}
          /\ \A i \in DOMAIN tasks : tasks'[i] = tasks[i]
          /\ tasks'[Len(tasks) + 1] = t
      BY <2>3, <1>0
    <2>5. /\ merging' \in [Mergers -> Merges \cup {NoMemory}]
          /\ \A x \in Mergers : merging'[x] = IF x = m THEN NoMemory ELSE merging[x]
      BY <2>3, <1>0
    <2>6. Live' = Live /\ MemoryTypeOK'
      BY <2>1, <2>4, <2>5, <1>0, <1>b DEF Live
    <2>7. ASSUME NEW r \in Records, Waiting(r) PROVE Waiting(r)'
      <3>1. CASE r = merging[m].record
        <4>1. Len(tasks) + 1 \in Pending' /\ tasks'[Len(tasks) + 1].record = r
          BY <3>1, <2>2, <2>4 DEF Pending
        <4> QED BY <4>1 DEF Waiting
      <3>2. CASE r # merging[m].record
        <4>1. \A i \in Pending : i \in Pending' /\ tasks'[i] = tasks[i]
          BY <2>4 DEF Pending
        <4>2. \A x \in Mergers : MergerAt(x, "enqueue") /\ merging[x].record = r =>
                MergerAt(x, "enqueue")' /\ merging'[x].record = r
          BY <3>2, <2>5 DEF MergerAt
        <4> QED BY <2>7, <4>1, <4>2 DEF Waiting
      <3> QED BY <3>1, <3>2
    <2>8. \A x \in Mergers : merging'[x] # NoMemory =>
             /\ merging'[x].step # "create" => merging'[x].record \in Live'
             /\ merging'[x].step \in {"snapshot", "update"} => merging'[x].old \in MemoryRows
      BY <2>5, <2>6 DEF RefersToLive
    <2>9. \A i \in DOMAIN tasks' \ DOMAIN tasks : tasks'[i].record \in Live
      BY <2>1, <2>2, <2>4
    <2> QED BY <2>1, <2>4, <2>6, <2>7, <2>8, <2>9, <1>a, RecordStep DEF Live
  <1> QED BY <1>1, <1>2, <1>3, <1>4, <1>5, <1>6

\* Records expire, and outcomes are judged: only statuses change.
LEMMA LifeStep ==
    ASSUME MemoryTypeOK, RefersToLive, \A r \in Live : Kept(r),
           \/ \E r \in Records : Expire(r) \/ ReadForOutcome(r)
           \/ \E d \in JudgedDecisions, direction \in {-1, 0, 1} : RecordOutcome(d, direction)
    PROVE  MemoryTypeOK' /\ RefersToLive' /\ \A r \in Live' : Kept(r)'
  <1>0. /\ rows \in [Records -> MemoryRows \cup {NoMemory}] /\ tasks \in Seq(Tasks)
        /\ merging \in [Mergers -> Merges \cup {NoMemory}]
        /\ NoMemory \notin MemoryRows
    BY MemoryAssumption DEF MemoryTypeOK
  <1>a. UNCHANGED <<points, mapped, indexer, tasks, merging>>
    BY DEF Expire, ReadForOutcome, RecordOutcome
  <1>b. \A r : Waiting(r)' = Waiting(r)
    BY <1>a DEF Waiting, MergerAt, Pending
  <1>c. ASSUME NEW h \in Live, NEW status \in MemoryStatuses,
               rows' = [rows EXCEPT ![h].status = status], outcome' \in {outcome, NoMemory}
        PROVE  MemoryTypeOK' /\ RefersToLive' /\ \A r \in Live' : Kept(r)'
    <2>1. h \in Records /\ rows[h] \in MemoryRows
      BY <1>0 DEF Live
    <2>2. PICK new \in MemoryRows : /\ rows' = [rows EXCEPT ![h] = new]
                                    /\ new.content = rows[h].content
      BY <1>c, <2>1, StatusOnly
    <2>3. /\ \A r \in Records : rows'[r] = IF r = h THEN new ELSE rows[r]
          /\ rows' \in [Records -> MemoryRows \cup {NoMemory}] /\ Live' = Live
      BY <2>1, <2>2, <1>0 DEF Live
    <2>4. MemoryTypeOK'
      BY <1>a, <1>c, <2>3 DEF MemoryTypeOK
    <2>5. /\ \A r \in Live : rows'[r] # NoMemory
          /\ \A r \in Records : rows'[r] # NoMemory =>
               r \in Live /\ rows'[r].content = rows[r].content
      BY <2>1, <2>2, <2>3, <1>0 DEF Live
    <2>6. \A x \in Mergers : merging'[x] # NoMemory =>
             /\ merging'[x].step # "create" => merging'[x].record \in Live'
             /\ merging'[x].step \in {"snapshot", "update"} => merging'[x].old \in MemoryRows
      BY <1>a, <2>3 DEF RefersToLive
    <2> QED BY <2>4, <2>5, <2>6, <1>a, <1>b, RecordStep
  <1>1. ASSUME NEW r \in Records, Expire(r)
        PROVE  MemoryTypeOK' /\ RefersToLive' /\ \A x \in Live' : Kept(x)'
    BY <1>1, <1>c DEF Expire, MemoryStatuses
  <1>2. ASSUME NEW h \in Records, ReadForOutcome(h)
        PROVE  MemoryTypeOK' /\ RefersToLive' /\ \A x \in Live' : Kept(x)'
    <2>1. rows' = rows /\ h \in Live /\ outcome' = [record |-> h, status |-> rows[h].status] /\ Live' = Live
      BY <1>2 DEF ReadForOutcome, Live
    <2>2. outcome'.record = h /\ outcome'.status \in MemoryStatuses
      BY <2>1, <1>0 DEF Live, MemoryRows
    <2>3. MemoryTypeOK'
      BY <1>a, <2>1, <2>2 DEF MemoryTypeOK
    <2>4. \A x \in Mergers : merging'[x] # NoMemory =>
             /\ merging'[x].step # "create" => merging'[x].record \in Live'
             /\ merging'[x].step \in {"snapshot", "update"} => merging'[x].old \in MemoryRows
      BY <1>a, <2>1 DEF RefersToLive
    <2> QED BY <2>1, <2>3, <2>4, <1>a, <1>b, RecordStep DEF Live
  <1>3. ASSUME NEW d \in JudgedDecisions, NEW direction \in {-1, 0, 1}, RecordOutcome(d, direction)
        PROVE  MemoryTypeOK' /\ RefersToLive' /\ \A x \in Live' : Kept(x)'
    <2>1. PICK e : e = [x \in DOMAIN judgments[outcome.record] \cup {d} |->
                           IF x = d THEN direction ELSE judgments[outcome.record][x]]
      OBVIOUS
    <2>2. PICK status : status = Judged(outcome.status, e)
      OBVIOUS
    <2>3. /\ outcome.record \in Live /\ outcome' = NoMemory
          /\ rows' = [rows EXCEPT ![outcome.record].status = status]
      BY <1>3, <2>1, <2>2 DEF RecordOutcome, MemoryTypeOK
    <2>4. status \in MemoryStatuses
      BY <1>3, <2>2, JudgedIsStatus DEF RecordOutcome, MemoryTypeOK
    <2> QED BY <2>3, <2>4, <1>c
  <1> QED BY <1>1, <1>2, <1>3

\* The worker's steps concern one record: what the others are owed stays.
LEMMA OthersKept ==
    ASSUME NEW r \in Live, Kept(r), ~Indexing(r), ~Indexing(r)', rows' = rows,
           Waiting(r) => Waiting(r)',
           Held(DOMAIN points', r) = Held(DOMAIN points, r),
           \A p \in Held(DOMAIN points, r) : points'[p] = points[p],
           Held(mapped', r) = Held(mapped, r)
    PROVE  Kept(r)'
  BY DEF Kept, Clean, Shows

\* One more chunk.
LEMMA OneMore ==
    ASSUME NEW r, NEW n \in Nat
    PROVE  /\ Upto(r, 0) = {}
           /\ Upto(r, n + 1) = Upto(r, n) \cup {<<r, n + 1>>}
           /\ \A p \in Upto(r, n) : p[1] = r
  <1>1. 1 .. (n + 1) = (1 .. n) \cup {n + 1}
    OBVIOUS
  <1>2. Upto(r, n + 1) = {<<r, i>> : i \in (1 .. n) \cup {n + 1}}
    BY <1>1 DEF Upto
  <1>3. Upto(r, n + 1) = Upto(r, n) \cup {<<r, n + 1>>}
    <2>1. \A p : p \in Upto(r, n + 1) <=> p \in Upto(r, n) \/ p = <<r, n + 1>>
      BY <1>2, Zenon DEF Upto
    <2> QED BY <2>1, Zenon
  <1>4. Upto(r, 0) = {}
    <2>1. 1 .. 0 = {}
      OBVIOUS
    <2> QED BY <2>1, Zenon DEF Upto
  <1>5. \A p \in Upto(r, n) : p[1] = r
    BY DEF Upto
  <1> QED BY <1>3, <1>4, <1>5

\* What the worker does between taking a task and its end.
LEMMA WorkerFacts ==
    ASSUME MemoryTypeOK, RefersToLive, indexer # NoMemory
    PROVE  /\ indexer \in Indexings /\ indexer.task \in DOMAIN tasks
           /\ tasks[indexer.task] \in Tasks /\ tasks[indexer.task].status = "processing"
           /\ IndexedRecord \in Live /\ rows[IndexedRecord] \in MemoryRows
           /\ rows[IndexedRecord].content \in MemoryContents
           /\ Chunks(rows[IndexedRecord].content) \in Nat
  <1>1. IndexedRecord \in Live /\ rows[IndexedRecord] \in MemoryRows
    BY DEF MemoryTypeOK, RefersToLive, IndexedRecord, Live
  <1>2. rows[IndexedRecord].content \in MemoryContents
    BY <1>1 DEF MemoryRows
  <1> QED BY <1>1, <1>2, MemoryAssumption DEF MemoryTypeOK, RefersToLive

\* The end of a task is the end of one that was being processed.
LEMMA TaskEnds ==
    ASSUME MemoryTypeOK, RefersToLive, indexer # NoMemory, EndTask("success"), merging' = merging
    PROVE  /\ tasks' \in Seq(Tasks) /\ DOMAIN tasks' = DOMAIN tasks /\ indexer' = NoMemory
           /\ \A i \in DOMAIN tasks : tasks'[i].record = tasks[i].record
           /\ \A r : Waiting(r) => Waiting(r)'
           /\ \A r : ~Indexing(r)'
  <1>0. /\ indexer.task \in DOMAIN tasks /\ tasks[indexer.task] \in Tasks
        /\ tasks[indexer.task].status = "processing" /\ tasks \in Seq(Tasks)
    BY WorkerFacts DEF MemoryTypeOK
  <1>1. PICK k : k = indexer.task
    OBVIOUS
  <1>2. PICK new \in Tasks : /\ new = [tasks[k] EXCEPT !.status = "success"]
                             /\ new.record = tasks[k].record
    <2>1. /\ [tasks[k] EXCEPT !.status = "success"] \in Tasks
          /\ [tasks[k] EXCEPT !.status = "success"].record = tasks[k].record
      BY <1>0, <1>1 DEF Tasks
    <2> QED BY <2>1
  <1>3. tasks' = [tasks EXCEPT ![k] = new] /\ indexer' = NoMemory
    BY <1>1, <1>2 DEF EndTask
  <1>4. /\ tasks' \in Seq(Tasks) /\ DOMAIN tasks' = DOMAIN tasks
        /\ \A i \in DOMAIN tasks : tasks'[i] = IF i = k THEN new ELSE tasks[i]
    <2>1. \A s \in Seq(Tasks), q \in Tasks : \A i \in DOMAIN s :
            /\ [s EXCEPT ![i] = q] \in Seq(Tasks) /\ DOMAIN [s EXCEPT ![i] = q] = DOMAIN s
            /\ \A j \in DOMAIN s : [s EXCEPT ![i] = q][j] = IF j = i THEN q ELSE s[j]
      OBVIOUS
    <2> QED BY <2>1, <1>0, <1>1, <1>3
  <1>5. \A i \in Pending : i \in Pending' /\ tasks'[i].record = tasks[i].record
    BY <1>0, <1>1, <1>2, <1>4 DEF Pending
  <1>6. \A r : Waiting(r) => Waiting(r)'
    BY <1>5 DEF Waiting, MergerAt
  <1> QED BY <1>2, <1>3, <1>4, <1>6 DEF Indexing

\* The worker's move within a task.
LEMMA WorkerMoves ==
    ASSUME MemoryTypeOK, RefersToLive, indexer # NoMemory, UNCHANGED <<tasks, merging, rows, outcome>>,
           indexer' \in Indexings, indexer'.task = indexer.task,
           indexer'.step # "load" => indexer'.content \in MemoryContents,
           indexer'.step \in {"point", "map"} => indexer'.chunk >= 1,
           points' = [p \in DOMAIN points' |-> points'[p]],
           \A p \in DOMAIN points' \cup mapped' : \E r \in Live, i \in Nat : p = <<r, i>>
    PROVE  /\ MemoryTypeOK' /\ RefersToLive' /\ Live' = Live
           /\ \A r : Waiting(r)' = Waiting(r)
           /\ \A r : Indexing(r)' = Indexing(r)
           /\ indexer' # NoMemory
  <1>1. indexer' # NoMemory
    BY MemoryAssumption
  <1>2. Live' = Live
    BY DEF Live
  <1>3. MemoryTypeOK'
    BY <1>2 DEF MemoryTypeOK
  <1>4. RefersToLive'
    BY <1>1, <1>2 DEF RefersToLive
  <1> QED BY <1>1, <1>2, <1>3, <1>4 DEF Waiting, MergerAt, Pending, Indexing, IndexedRecord

\* Every step of the worker that does not fail.
LEMMA WorkerStep ==
    ASSUME MemoryTypeOK, RefersToLive, \A r \in Live : Kept(r), Target \in Collections,
           \/ NextPending \/ LoadMemory \/ ClearPoints \/ ClearMappings \/ UpsertPoint \/ UpsertMapping
    PROVE  MemoryTypeOK' /\ RefersToLive' /\ \A r \in Live' : Kept(r)'
  <1>0. /\ tasks \in Seq(Tasks) /\ NoMemory \notin Indexings
        /\ points = [p \in DOMAIN points |-> points[p]]
        /\ indexer \in Indexings \cup {NoMemory}
    BY MemoryAssumption DEF MemoryTypeOK
  <1>a. UNCHANGED <<rows, merging, outcome>> /\ Live' = Live
    BY DEF NextPending, LoadMemory, ClearPoints, ClearMappings, UpsertPoint, UpsertMapping, Live
  <1>b. \A p \in DOMAIN points \cup mapped : \E r \in Live, i \in Nat : p = <<r, i>>
    BY DEF RefersToLive
  <1>1. CASE NextPending
    <2>1. indexer = NoMemory /\ UNCHANGED <<points, mapped>> /\ Pending # {} /\ Pending \subseteq Nat
      <3>1. Pending \subseteq Nat
        <4>1. DOMAIN tasks \subseteq Nat
          BY <1>0
        <4> QED BY <4>1 DEF Pending
      <3> QED BY <1>1, <3>1 DEF NextPending
    <2>2. PICK k : k = CHOOSE i \in Pending : \A j \in Pending : i <= j
      OBVIOUS
    <2>3. k \in Pending
      <3>1. \E i \in Pending : \A j \in Pending : i <= j
        BY <2>1, LeastNat
      <3> QED BY <2>2, <3>1, Zenon
    <2>4. k \in DOMAIN tasks /\ tasks[k] \in Tasks /\ k \in Nat
      BY <2>3, <1>0 DEF Pending
    <2>5. PICK new \in Tasks : /\ new = [tasks[k] EXCEPT !.status = "processing"]
                               /\ new.record = tasks[k].record /\ new.status = "processing"
      <3>1. /\ [tasks[k] EXCEPT !.status = "processing"] \in Tasks
            /\ [tasks[k] EXCEPT !.status = "processing"].record = tasks[k].record
            /\ [tasks[k] EXCEPT !.status = "processing"].status = "processing"
        BY <2>4 DEF Tasks
      <3> QED BY <3>1
    <2>6. /\ tasks' = [tasks EXCEPT ![k] = new]
          /\ indexer' = [task |-> k, step |-> "load", content |-> NoMemory, chunk |-> 0]
      BY <1>1, <2>2, <2>5 DEF NextPending
    <2>7. /\ tasks' \in Seq(Tasks) /\ DOMAIN tasks' = DOMAIN tasks
          /\ \A i \in DOMAIN tasks : tasks'[i] = IF i = k THEN new ELSE tasks[i]
      <3>1. \A s \in Seq(Tasks), q \in Tasks : \A i \in DOMAIN s :
              /\ [s EXCEPT ![i] = q] \in Seq(Tasks) /\ DOMAIN [s EXCEPT ![i] = q] = DOMAIN s
              /\ \A j \in DOMAIN s : [s EXCEPT ![i] = q][j] = IF j = i THEN q ELSE s[j]
        OBVIOUS
      <3> QED BY <3>1, <1>0, <2>4, <2>6
    <2>8. /\ indexer' \in Indexings /\ indexer' # NoMemory
          /\ indexer'.task = k /\ indexer'.step = "load"
      BY <2>4, <2>6, <1>0 DEF Indexings
    <2>9. MemoryTypeOK'
      BY <1>a, <2>1, <2>7, <2>8 DEF MemoryTypeOK
    <2>10. RefersToLive'
      <3>1. \A i \in DOMAIN tasks' : tasks'[i].record \in Live
        BY <2>4, <2>5, <2>7 DEF RefersToLive
      <3>2. indexer'.task \in DOMAIN tasks' /\ tasks'[indexer'.task].status = "processing"
        BY <2>4, <2>5, <2>7, <2>8
      <3> QED BY <1>a, <2>1, <2>8, <3>1, <3>2 DEF RefersToLive
    <2>11. ASSUME NEW r \in Live PROVE Kept(r)'
      <3>1. Indexing(r)' <=> r = tasks[k].record
        BY <2>4, <2>5, <2>7, <2>8 DEF Indexing, IndexedRecord
      <3>2. CASE r = tasks[k].record
        BY <3>1, <3>2, <2>8 DEF Kept, Fixing
      <3>3. CASE r # tasks[k].record
        <4>1. \A i \in Pending : tasks[i].record = r => i \in Pending' /\ tasks'[i].record = r
          BY <3>3, <2>7 DEF Pending
        <4>2. Waiting(r) => Waiting(r)'
          BY <1>a, <4>1 DEF Waiting, MergerAt
        <4>3. ~Indexing(r)
          BY <2>1 DEF Indexing
        <4> QED BY <3>1, <3>3, <4>2, <4>3, <2>1, <1>a, OthersKept
      <3> QED BY <3>2, <3>3
    <2> QED BY <2>9, <2>10, <2>11, <1>a
  <1>2. ASSUME indexer # NoMemory,
               LoadMemory \/ ClearPoints \/ ClearMappings \/ UpsertPoint \/ UpsertMapping
        PROVE  MemoryTypeOK' /\ RefersToLive' /\ \A r \in Live' : Kept(r)'
    <2>0. PICK h : h = IndexedRecord
      OBVIOUS
    <2>00. PICK b : b = rows[h].content
      OBVIOUS
    <2>1. /\ indexer \in Indexings /\ h \in Live /\ b \in MemoryContents /\ Chunks(b) \in Nat
          /\ Indexing(h) /\ \A r : Indexing(r) => r = h
      BY <1>2, <2>0, <2>00, WorkerFacts DEF Indexing
    <2>2. Waiting(h) \/ Fixing(h)
      BY <2>1 DEF Kept
    <2>3. ASSUME NEW r \in Live, r # h, ~Indexing(r)', Waiting(r) => Waiting(r)',
                 Held(DOMAIN points', r) = Held(DOMAIN points, r),
                 \A p \in Held(DOMAIN points, r) : points'[p] = points[p],
                 Held(mapped', r) = Held(mapped, r)
          PROVE  Kept(r)'
      BY <2>1, <2>3, <1>a, OthersKept
    <2>4. CASE LoadMemory
      <3>1. /\ UNCHANGED <<tasks, points, mapped>>
            /\ indexer' = [[indexer EXCEPT !.step = "clear"] EXCEPT !.content = b]
        BY <2>4, <2>0, <2>00, <2>1 DEF LoadMemory, Indexings
      <3>2. PICK f \in Indexings : f = [indexer EXCEPT !.step = "clear"] /\ f.step = "clear" /\ f.task = indexer.task
        <4>1. /\ [indexer EXCEPT !.step = "clear"] \in Indexings
              /\ [indexer EXCEPT !.step = "clear"].step = "clear"
              /\ [indexer EXCEPT !.step = "clear"].task = indexer.task
          BY <2>1 DEF Indexings
        <4> QED BY <4>1
      <3>3. /\ indexer' \in Indexings /\ indexer'.step = "clear" /\ indexer'.content = b
            /\ indexer'.task = indexer.task
        BY <3>1, <3>2, <2>1 DEF Indexings
      <3>4. /\ MemoryTypeOK' /\ RefersToLive'
            /\ \A r : Waiting(r)' = Waiting(r) /\ Indexing(r)' = Indexing(r)
        BY <1>0, <1>2, <1>a, <1>b, <3>1, <3>3, <2>1, WorkerMoves
      <3>5. Kept(h)'
        BY <3>3, <3>4, <2>00, <2>1, <1>a DEF Kept, Fixing
      <3>6. \A r \in Live : r # h => Kept(r)'
        BY <3>1, <3>4, <2>1, <2>3
      <3> QED BY <3>4, <3>5, <3>6, <1>a
    <2>5. CASE ClearPoints
      <3>1. /\ UNCHANGED <<tasks, mapped>> /\ points' = WithoutRecord(h) /\ indexer.step = "clear"
            /\ indexer' = [indexer EXCEPT !.step = "unmap"]
        BY <2>5, <2>0 DEF ClearPoints, IndexerAt
      <3>2. /\ indexer' \in Indexings /\ indexer'.step = "unmap" /\ indexer'.content = indexer.content
            /\ indexer'.task = indexer.task /\ indexer.content \in MemoryContents
        BY <3>1, <2>1, <1>2 DEF Indexings, RefersToLive
      <3>3. /\ DOMAIN points' = {q \in DOMAIN points : q[1] # h}
            /\ \A p \in DOMAIN points' : points'[p] = points[p]
            /\ points' = [p \in DOMAIN points' |-> points'[p]]
        BY <3>1 DEF WithoutRecord
      <3>4. /\ MemoryTypeOK' /\ RefersToLive'
            /\ \A r : Waiting(r)' = Waiting(r) /\ Indexing(r)' = Indexing(r)
        BY <1>2, <1>a, <1>b, <3>1, <3>2, <3>3, WorkerMoves
      <3>5. Held(DOMAIN points', h) = {} /\ \A r : r # h => Held(DOMAIN points', r) = Held(DOMAIN points, r)
        BY <3>3 DEF Held
      <3>6. Kept(h)'
        BY <3>1, <3>2, <3>4, <3>5, <2>1, <2>2, <1>a DEF Kept, Fixing
      <3>7. ASSUME NEW r \in Live, r # h PROVE Kept(r)'
        <4>1. \A p \in Held(DOMAIN points, r) : points'[p] = points[p]
          BY <3>3, <3>7 DEF Held
        <4> QED BY <3>1, <3>4, <3>5, <3>7, <4>1, <2>1, <2>3
      <3> QED BY <3>4, <3>6, <3>7, <1>a
    <2>6. CASE ClearMappings
      <3>1. /\ points' = points /\ mapped' = {p \in mapped : p[1] # h} /\ indexer.step = "unmap"
            /\ indexer.content \in MemoryContents
        BY <2>6, <2>0, <1>2 DEF ClearMappings, IndexerAt, RefersToLive
      <3>2. Held(mapped', h) = {} /\ \A r : r # h => Held(mapped', r) = Held(mapped, r)
        BY <3>1 DEF Held
      <3>3. \A p \in DOMAIN points' \cup mapped' : \E r \in Live, i \in Nat : p = <<r, i>>
        BY <3>1, <1>b
      <3>4. Fixing(h) => indexer.content = b /\ Held(DOMAIN points, h) = {}
        BY <3>1, <2>00 DEF Fixing
      <3>5. CASE Chunks(indexer.content) = 0
        <4>1. EndTask("success")
          BY <2>6, <3>5 DEF ClearMappings
        <4>2. /\ tasks' \in Seq(Tasks) /\ DOMAIN tasks' = DOMAIN tasks /\ indexer' = NoMemory
              /\ \A i \in DOMAIN tasks : tasks'[i].record = tasks[i].record
              /\ \A r : Waiting(r) => Waiting(r)'
              /\ \A r : ~Indexing(r)'
          BY <4>1, <1>2, <1>a, TaskEnds
        <4>3. MemoryTypeOK'
          BY <1>a, <3>1, <4>2 DEF MemoryTypeOK
        <4>4. RefersToLive'
          BY <1>a, <3>3, <4>2 DEF RefersToLive
        <4>5. Kept(h)'
          <5>1. Fixing(h) => Clean(h)'
            BY <3>1, <3>2, <3>4, <3>5, <2>00, <1>a, OneMore DEF Clean, Shows
          <5> QED BY <5>1, <4>2, <2>2 DEF Kept
        <4>6. \A r \in Live : r # h => Kept(r)'
          BY <3>1, <3>2, <4>2, <2>3
        <4> QED BY <4>3, <4>4, <4>5, <4>6, <1>a
      <3>6. CASE Chunks(indexer.content) # 0
        <4>1. tasks' = tasks /\ indexer' = [[indexer EXCEPT !.step = "point"] EXCEPT !.chunk = 1]
          BY <2>6, <3>6, <2>1 DEF ClearMappings, Indexings
        <4>2. PICK f \in Indexings : /\ f = [indexer EXCEPT !.step = "point"] /\ f.step = "point"
                                     /\ f.task = indexer.task /\ f.content = indexer.content
          <5>1. /\ [indexer EXCEPT !.step = "point"] \in Indexings
                /\ [indexer EXCEPT !.step = "point"].step = "point"
                /\ [indexer EXCEPT !.step = "point"].task = indexer.task
                /\ [indexer EXCEPT !.step = "point"].content = indexer.content
            BY <2>1 DEF Indexings
          <5> QED BY <5>1
        <4>3. /\ indexer' \in Indexings /\ indexer'.step = "point" /\ indexer'.content = indexer.content
              /\ indexer'.task = indexer.task /\ indexer'.chunk = 1
          BY <4>1, <4>2 DEF Indexings
        <4>4. /\ MemoryTypeOK' /\ RefersToLive'
              /\ \A r : Waiting(r)' = Waiting(r) /\ Indexing(r)' = Indexing(r)
          BY <1>0, <1>2, <1>a, <3>1, <3>3, <4>1, <4>3, WorkerMoves
        <4>5. Kept(h)'
          <5>1. ASSUME Fixing(h) PROVE Fixing(h)'
            <6>1. Upto(h, 0) = {}
              BY OneMore
            <6>2. Shows(h, 0)' /\ Held(mapped', h) = Upto(h, 0)
              BY <5>1, <6>1, <3>1, <3>2, <3>4 DEF Shows
            <6>3. Chunks(b) \in Nat /\ Chunks(b) # 0 /\ rows'[h].content = b
              BY <5>1, <3>4, <3>6, <2>00, <2>1, <1>a
            <6>4. indexer'.chunk - 1 = 0 /\ indexer'.chunk <= Chunks(b) /\ indexer'.content = b
              BY <5>1, <3>4, <4>3, <6>3
            <6> QED BY <6>2, <6>3, <6>4, <4>3 DEF Fixing
          <5> QED BY <5>1, <4>4, <2>1, <2>2 DEF Kept
        <4>6. \A r \in Live : r # h => Kept(r)'
          BY <3>1, <3>2, <4>4, <2>1, <2>3
        <4> QED BY <4>4, <4>5, <4>6, <1>a
      <3> QED BY <3>5, <3>6
    <2>7. CASE UpsertPoint
      <3>0. PICK n \in Nat : n + 1 = indexer.chunk /\ n = indexer.chunk - 1
        <4>1. indexer.step = "point" /\ indexer.chunk \in Nat /\ indexer.chunk >= 1
          BY <2>7, <2>1, <1>2 DEF UpsertPoint, IndexerAt, RefersToLive, Indexings
        <4>2. indexer.chunk - 1 \in Nat /\ (indexer.chunk - 1) + 1 = indexer.chunk
          BY <4>1
        <4> QED BY <4>2
      <3>00. PICK q : q = <<h, n + 1>>
        OBVIOUS
      <3>1. /\ UNCHANGED <<tasks, mapped>> /\ indexer.step = "point" /\ indexer.content \in MemoryContents
            /\ points' = [p \in DOMAIN points \cup {q} |-> IF p = q THEN indexer.content ELSE points[p]]
            /\ indexer' = [indexer EXCEPT !.step = "map"]
        BY <2>7, <2>0, <3>0, <3>00, <1>2 DEF UpsertPoint, IndexerAt, RefersToLive
      <3>2. /\ indexer' \in Indexings /\ indexer'.step = "map" /\ indexer'.content = indexer.content
            /\ indexer'.task = indexer.task /\ indexer'.chunk = n + 1
        BY <3>0, <3>1, <2>1 DEF Indexings
      <3>3. /\ DOMAIN points' = DOMAIN points \cup {q}
            /\ \A p \in DOMAIN points : p # q => points'[p] = points[p]
            /\ points'[q] = indexer.content
            /\ points' = [p \in DOMAIN points' |-> points'[p]]
        BY <3>1
      <3>4. \A p \in DOMAIN points' \cup mapped' : \E r \in Live, i \in Nat : p = <<r, i>>
        BY <3>0, <3>00, <3>1, <3>3, <1>b, <2>1
      <3>5. /\ MemoryTypeOK' /\ RefersToLive'
            /\ \A r : Waiting(r)' = Waiting(r) /\ Indexing(r)' = Indexing(r)
        BY <1>2, <1>a, <3>1, <3>2, <3>3, <3>4, WorkerMoves
      <3>6. /\ Held(DOMAIN points', h) = Held(DOMAIN points, h) \cup {q}
            /\ \A r : r # h => Held(DOMAIN points', r) = Held(DOMAIN points, r)
        BY <3>00, <3>3 DEF Held
      <3>7. Kept(h)'
        <4>1. ASSUME Fixing(h) PROVE Fixing(h)'
          <5>1. /\ indexer.content = b /\ Held(DOMAIN points, h) = Upto(h, n)
                /\ \A p \in Upto(h, n) : points[p] = b
                /\ Held(mapped, h) = Upto(h, n) /\ n + 1 <= Chunks(b)
            BY <4>1, <3>0, <3>1, <2>00 DEF Fixing, Shows
          <5>2. Upto(h, n + 1) = Upto(h, n) \cup {q}
            BY <3>00, OneMore
          <5>3. Held(DOMAIN points', h) = Upto(h, n + 1)
            BY <5>1, <5>2, <3>6
          <5>4. \A p \in Upto(h, n + 1) : points'[p] = b
            BY <5>1, <5>2, <3>3 DEF Held
          <5> QED BY <5>1, <5>3, <5>4, <3>0, <3>1, <3>2, <2>00, <1>a DEF Fixing, Shows
        <4> QED BY <4>1, <3>5, <2>1, <2>2 DEF Kept
      <3>8. ASSUME NEW r \in Live, r # h PROVE Kept(r)'
        <4>1. \A p \in Held(DOMAIN points, r) : points'[p] = points[p]
          BY <3>00, <3>3, <3>8 DEF Held
        <4> QED BY <3>1, <3>5, <3>6, <3>8, <4>1, <2>1, <2>3
      <3> QED BY <3>5, <3>7, <3>8, <1>a
    <2>8. CASE UpsertMapping
      <3>0. PICK n \in Nat : n + 1 = indexer.chunk /\ n = indexer.chunk - 1
        <4>1. indexer.step = "map" /\ indexer.chunk \in Nat /\ indexer.chunk >= 1
          BY <2>8, <2>1, <1>2 DEF UpsertMapping, IndexerAt, RefersToLive, Indexings
        <4>2. indexer.chunk - 1 \in Nat /\ (indexer.chunk - 1) + 1 = indexer.chunk
          BY <4>1
        <4> QED BY <4>2
      <3>00. PICK q : q = <<h, n + 1>>
        OBVIOUS
      <3>1. /\ points' = points /\ indexer.step = "map" /\ indexer.content \in MemoryContents
            /\ mapped' = mapped \cup {q}
        BY <2>8, <2>0, <3>0, <3>00, <1>2 DEF UpsertMapping, IndexerAt, RefersToLive
      <3>2. /\ Held(mapped', h) = Held(mapped, h) \cup {q}
            /\ \A r : r # h => Held(mapped', r) = Held(mapped, r)
        BY <3>00, <3>1 DEF Held
      <3>3. \A p \in DOMAIN points' \cup mapped' : \E r \in Live, i \in Nat : p = <<r, i>>
        BY <3>0, <3>00, <3>1, <1>b, <2>1
      <3>4. Fixing(h) => /\ indexer.content = b /\ Shows(h, n + 1)
                         /\ Held(mapped', h) = Upto(h, n + 1) /\ n + 1 <= Chunks(b)
        <4>1. Upto(h, n + 1) = Upto(h, n) \cup {q}
          BY <3>00, OneMore
        <4> QED BY <4>1, <3>0, <3>1, <3>2, <2>00 DEF Fixing
      <3>5. CASE indexer.chunk < Chunks(indexer.content)
        <4>1. /\ tasks' = tasks /\ n + 2 \in Nat
              /\ indexer' = [[indexer EXCEPT !.step = "point"] EXCEPT !.chunk = n + 2]
          <5>1. indexer.chunk + 1 = n + 2 /\ n + 2 \in Nat
            BY <3>0
          <5>2. /\ tasks' = tasks
                /\ indexer' = [indexer EXCEPT !.step = "point", !.chunk = indexer.chunk + 1]
            BY <2>8, <3>5 DEF UpsertMapping
          <5>3. indexer' = [indexer EXCEPT !.step = "point", !.chunk = n + 2]
            BY <5>1, <5>2
          <5> QED BY <5>1, <5>2, <5>3, <2>1 DEF Indexings
        <4>2. PICK f \in Indexings : /\ f = [indexer EXCEPT !.step = "point"] /\ f.step = "point"
                                     /\ f.task = indexer.task /\ f.content = indexer.content
          <5>1. /\ [indexer EXCEPT !.step = "point"] \in Indexings
                /\ [indexer EXCEPT !.step = "point"].step = "point"
                /\ [indexer EXCEPT !.step = "point"].task = indexer.task
                /\ [indexer EXCEPT !.step = "point"].content = indexer.content
            BY <2>1 DEF Indexings
          <5> QED BY <5>1
        <4>3. /\ indexer' \in Indexings /\ indexer'.step = "point" /\ indexer'.content = indexer.content
              /\ indexer'.task = indexer.task /\ indexer'.chunk = n + 2 /\ n + 2 >= 1
              /\ indexer'.chunk - 1 = n + 1
          <5>1. PICK m \in Nat : m = n + 2 /\ m >= 1 /\ m - 1 = n + 1
            BY <4>1
          <5>2. indexer' = [f EXCEPT !.chunk = m]
            BY <4>1, <4>2, <5>1
          <5> QED BY <4>2, <5>1, <5>2 DEF Indexings
        <4>4. /\ MemoryTypeOK' /\ RefersToLive'
              /\ \A r : Waiting(r)' = Waiting(r) /\ Indexing(r)' = Indexing(r)
          BY <1>0, <1>2, <1>a, <3>1, <3>3, <4>1, <4>3, WorkerMoves
        <4>5. Kept(h)'
          <5>1. ASSUME Fixing(h) PROVE Fixing(h)'
            <6>1. Shows(h, n + 1)' /\ n + 2 <= Chunks(b)
              BY <5>1, <3>0, <3>1, <3>4, <3>5, <2>1, <1>a DEF Shows
            <6>2. rows'[h].content = b
              BY <2>00, <1>a
            <6> QED BY <5>1, <6>1, <6>2, <3>4, <4>3 DEF Fixing
          <5> QED BY <5>1, <4>4, <2>1, <2>2 DEF Kept
        <4>6. \A r \in Live : r # h => Kept(r)'
          BY <3>1, <3>2, <4>4, <2>1, <2>3
        <4> QED BY <4>4, <4>5, <4>6, <1>a
      <3>6. CASE ~(indexer.chunk < Chunks(indexer.content))
        <4>1. EndTask("success")
          BY <2>8, <3>6 DEF UpsertMapping
        <4>2. /\ tasks' \in Seq(Tasks) /\ DOMAIN tasks' = DOMAIN tasks /\ indexer' = NoMemory
              /\ \A i \in DOMAIN tasks : tasks'[i].record = tasks[i].record
              /\ \A r : Waiting(r) => Waiting(r)'
              /\ \A r : ~Indexing(r)'
          BY <4>1, <1>2, <1>a, TaskEnds
        <4>3. MemoryTypeOK'
          BY <1>a, <3>1, <4>2 DEF MemoryTypeOK
        <4>4. RefersToLive'
          BY <1>a, <3>3, <4>2 DEF RefersToLive
        <4>5. Kept(h)'
          <5>1. ASSUME Fixing(h) PROVE Clean(h)'
            <6>1. n + 1 = Chunks(b)
              BY <5>1, <3>0, <3>4, <3>6, <2>1
            <6>2. Shows(h, n + 1)'
              BY <5>1, <3>1, <3>4, <1>a DEF Shows
            <6> QED BY <5>1, <6>1, <6>2, <3>4, <2>00, <1>a DEF Clean
          <5> QED BY <5>1, <4>2, <2>2 DEF Kept
        <4>6. \A r \in Live : r # h => Kept(r)'
          BY <3>1, <3>2, <4>2, <2>3
        <4> QED BY <4>3, <4>4, <4>5, <4>6, <1>a
      <3> QED BY <3>5, <3>6
    <2> QED BY <1>2, <2>4, <2>5, <2>6, <2>7, <2>8
  <1>3. CASE LoadMemory \/ ClearPoints \/ ClearMappings \/ UpsertPoint \/ UpsertMapping
    BY <1>2, <1>3 DEF LoadMemory, ClearPoints, ClearMappings, UpsertPoint, UpsertMapping, IndexerAt
  <1> QED BY <1>1, <1>3

\* Every step keeps the invariant: a fault ends what it says.
LEMMA MemoryIndexStep ==
    ASSUME IndexInvariant, [MemoryNext]_memoryVars
    PROVE  IndexInvariant'
  <1>1. faults' \in Nat /\ (faults' = 0 => faults = 0)
    <2>0. faults \in Nat
      BY DEF IndexInvariant
    <2>1. CASE UNCHANGED faults
      BY <2>0, <2>1
    <2>2. CASE faults' = faults + 1
      BY <2>0, <2>2
    <2>3. ASSUME NEW m \in Mergers, NEW c \in Candidates, Lookup(m, c) PROVE UNCHANGED faults
      BY <2>3 DEF Lookup
    <2>4. ASSUME NEW m \in Mergers,
                 Snapshot(m) \/ Supersede(m) \/ Create(m) \/ Update(m) \/ Enqueue(m)
          PROVE  UNCHANGED faults
      BY <2>4 DEF Snapshot, Supersede, Create, Update, Enqueue
    <2>5. ASSUME NEW r \in Records, Expire(r) \/ ReadForOutcome(r) PROVE UNCHANGED faults
      BY <2>5 DEF Expire, ReadForOutcome
    <2>6. ASSUME NEW d \in JudgedDecisions, NEW direction \in {-1, 0, 1}, RecordOutcome(d, direction)
          PROVE  UNCHANGED faults
      BY <2>6 DEF RecordOutcome
    <2>7. CASE \/ NextPending \/ LoadMemory \/ ClearPoints \/ ClearMappings \/ UpsertPoint
               \/ UpsertMapping \/ UNCHANGED memoryVars
      BY <2>1, <2>7 DEF NextPending, LoadMemory, ClearPoints, ClearMappings, UpsertPoint,
             UpsertMapping, memoryVars
    <2>8. CASE FailTask \/ LoseIndexer \/ \E m \in Mergers : LoseMerger(m)
      BY <2>2, <2>8 DEF FailTask, LoseIndexer, LoseMerger
    <2> QED BY <2>1, <2>3, <2>4, <2>5, <2>6, <2>7, <2>8 DEF MemoryNext
  <1>2. ASSUME faults' = 0, Target \in Collections
        PROVE  MemoryTypeOK' /\ RefersToLive' /\ \A r \in Live' : Kept(r)'
    <2>1. faults = 0 /\ MemoryTypeOK /\ RefersToLive /\ \A r \in Live : Kept(r)
      BY <1>1, <1>2 DEF IndexInvariant
    <2>2. ~FailTask /\ ~LoseIndexer /\ \A m \in Mergers : ~LoseMerger(m)
      BY <1>2, <2>1 DEF FailTask, LoseIndexer, LoseMerger
    <2>3. CASE UNCHANGED memoryVars
      BY <2>1, <2>3 DEF memoryVars, MemoryTypeOK, RefersToLive, Live, Kept, Waiting, MergerAt,
             Pending, Indexing, IndexedRecord, Fixing, Clean, Shows
    <2> QED BY <1>2, <2>1, <2>2, <2>3, MergeStep, LifeStep, WorkerStep DEF MemoryNext
  <1> QED BY <1>1, <1>2 DEF IndexInvariant

\* Unless something failed, every record is indexed as it stands, or a task for
\* it is to come, is waiting, or is being carried out on its content.
THEOREM IndexInvariance == MemorySpec => []IndexInvariant
  <1>1. MemoryInit => IndexInvariant
    <2> SUFFICES ASSUME MemoryInit PROVE IndexInvariant
      OBVIOUS
    <2>1. Live = {} /\ DOMAIN points = {} /\ mapped = {} /\ DOMAIN tasks = {}
      BY DEF MemoryInit, Live
    <2>2. MemoryTypeOK /\ RefersToLive
      BY <2>1 DEF MemoryInit, MemoryTypeOK, RefersToLive
    <2> QED BY <2>1, <2>2 DEF MemoryInit, IndexInvariant
  <1> QED BY <1>1, MemoryIndexStep, PTL DEF MemorySpec

\* Once every task is done and nothing failed, the index holds exactly the chunks
\* of the contents the records have now, for any contents, mergers and
\* interleavings with the worker (process_one_task, write_memory_and_enqueue).
THEOREM IndexFollows == MemorySpec => []IndexFollowsTheRecord
  <1>1. IndexInvariant => IndexFollowsTheRecord
    <2> SUFFICES ASSUME IndexInvariant, Quiet, Target \in Collections
                 PROVE  /\ mapped = DOMAIN points
                        /\ DOMAIN points = UNION {ChunksOf(r) : r \in Live}
                        /\ \A p \in DOMAIN points : points[p] = rows[p[1]].content
      BY DEF IndexFollowsTheRecord
    <2>1. RefersToLive /\ \A r \in Live : Kept(r)
      BY DEF IndexInvariant, Quiet
    <2>2. ASSUME NEW r \in Live
          PROVE  /\ Held(DOMAIN points, r) = ChunksOf(r) /\ Held(mapped, r) = ChunksOf(r)
                 /\ \A p \in Held(DOMAIN points, r) : points[p] = rows[r].content
      <3>1. ~Waiting(r) /\ ~Indexing(r)
        BY DEF Quiet, Waiting, MergerAt, Indexing
      <3>2. Clean(r)
        BY <2>1, <3>1 DEF Kept
      <3> QED BY <3>2 DEF Clean, Shows, Upto, ChunksOf
    <2>3. ASSUME NEW p \in DOMAIN points \cup mapped
          PROVE  p[1] \in Live
      BY <2>1 DEF RefersToLive
    <2>4. \A p : p \in DOMAIN points <=> \E r \in Live : p \in ChunksOf(r)
      BY <2>2, <2>3 DEF Held
    <2>5. \A p : p \in mapped <=> \E r \in Live : p \in ChunksOf(r)
      BY <2>2, <2>3 DEF Held
    <2>6. \A p \in DOMAIN points : points[p] = rows[p[1]].content
      BY <2>2, <2>3 DEF Held
    <2>7. mapped = DOMAIN points
      BY <2>4, <2>5, Zenon
    <2>8. DOMAIN points = UNION {ChunksOf(r) : r \in Live}
      <3>1. \A p : p \in UNION {ChunksOf(r) : r \in Live} <=> \E r \in Live : p \in ChunksOf(r)
        BY Zenon
      <3> QED BY <2>4, <3>1, Zenon
    <2> QED BY <2>6, <2>7, <2>8
  <1> QED BY <1>1, IndexInvariance, PTL

=============================================================================

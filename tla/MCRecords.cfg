SPECIFICATION Spec
CONSTANTS
    s1 = s1
    s2 = s2
    t1 = t1
    t2 = t2
    t3 = t3
    Services = {s1, s2}
    Threads = {t1, t2, t3}
    ServiceOf <- ServiceOfDef
    ReplayLease = 1
    MaxClock = 2
    MaxClaims = 3
    NoRun = NoRun
    d1 = d1
    d2 = d2
    o1 = o1
    o2 = o2
    Decisions = {d1, d2}
    Bundles = {b1, b2}
    RowIds = {row1}
    Contents = {c1, c2}
    Outcomes = {o1, o2}
    OutcomeOf <- OutcomeOfDef
    Excess <- ExcessDef
    Callers = {r1, r2}
    NoRow = NoRow
    Idle = Idle
    MaxRows = 1
    x1 = x1
    x2 = x2
    blank = blank
    source = source
    Candidates <- CandidatesDef
    Chunks <- ChunksDef
    Mergers = {m1, m2}
    JudgedDecisions = {j1}
    Target = memory
    Collections = {memory}
    MinEvidence = 1
    MaxRecords = 2
    MaxMerges = 2
    MaxOutcomes = 1
    MaxFaults = 1
    NoMemory = NoMemory
    u1 = u1
    u2 = u2
    u3 = u3
    u4 = u4
    Units <- UnitsDef
    Queries <- QueriesDef
    TopResults = 2
    NoFilter = NoFilter
    Days = {1, 2, 3}
    FeatureSets <- FeatureSetsDef
    ConfirmationDays <- ConfirmationDaysDef
    MinDaysInRegime = 2
    ConfidenceGap = 8
    MaxEvaluations = 4
    MaxStops = 1
    Missing = Missing
    Proposals = {p1, p2}
    Patches <- PatchesDef
    BaseContract <- BaseContractDef
    BaseVersion = 1
    Cases <- CasesDef
    PaperEvidence <- PaperEvidenceDef
    MinSamples = 5
    MaxErrorRatio = 20
    TokenRatio = 110
    MaxRestarts = 1
    None = None
    Strategies = {y1, y2}
    Definitions <- DefinitionsDef
    RunIds = {e1, e2, e3}
    Results <- ResultsDef
    PaperResults <- PaperResultsDef
    Windows = 2
    MinOosDays = 3
    MinPaperDays = 2
    MaxDrawdown = 1
    MaxTurnover = 1
    MinSharpe = 1
    MaxPbo = 1
    MaxPaperErrors = 5
    Absent = Absent
    b1 = b1
    b2 = b2
    ChatCallers = {b1, b2}
    ChatSessions = {h1}
    ContractsOf <- ContractsOfDef
    FlagsOf <- FlagsOfDef
    PlansOf <- PlansOfDef
    ResultsOf <- ResultsOfDef
    PoolSize = 1
    Skew = 0
    DayLength = 2
    OpenAt = 0
    MaxTime = 1
    NoStamp = NoStamp
INVARIANTS
    OneReplayResult
    LineageIsOneToOne
    MemoryHasItsReview
    IndexFollowsTheRecord
    CallerOnlyTightens
    RegimeIsConfirmed
    ReleasedIsValidated
    ActiveIsProven
    StoredReportsAreEarned
CHECK_DEADLOCK FALSE

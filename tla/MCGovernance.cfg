SPECIFICATION Spec
CONSTANTS
    Skills <- SkillsDef
    Subjects <- SubjectsDef
    Replies <- RepliesDef
    DecisionTime = 3
    NoBundle = NoBundle
    Refused = Refused
    None = None
    SingleLimit = 4
    DrawdownCap = 2
    GrossLimit = 5
    NetLimit = 4
    IndustryLimit = 3
    ThemeLimit = 3
    ConservativeCap = 1
    MinConfidence = 1
    MaxAge = 1
    ModelProposals <- ModelProposalsDef
    Analyses <- AnalysesDef
    RiskRuns = TRUE
    NoDecision = NoDecision
    BundleRequests <- BundleRequestsDef
    Payloads <- PayloadsDef
    Proposals <- ProposalsDef
    Nothing = Nothing
    Raised = Raised
    Envelopes <- EnvelopesDef
    OverrideSets <- OverrideSetsDef
    Histories <- HistoriesDef
    NoHistory = NoHistory
    NoRank = NoRank
    NoAsk = NoAsk
    Names = {1, 2, 3}
    Offers <- OffersDef
    Holdings = {0, 4, 10}
    KnownScores = {NoScore, 20, 40}
    NoOffer = NoOffer
    NoScore = NoScore
    MinLiquidity = 20
    MinCoverage = 60
    ComponentWeights <- ComponentWeightsDef
    NeutralScore = 50
    Starter = 60
    Normal = 72
    HighConviction = 85
    ReduceBelow = 45
    ExitBelow = 30
    Bands <- BandsDef
    MaxSingle = 10
    Groupings <- GroupingsDef
    GroupOf <- GroupOfDef
    GroupCap <- GroupCapDef
    RegimeBudget = 18
    MinDelta = 2
    MaxTurnover = 10
    a = a
    b = b
    BoardOf <- BoardOfDef
    Effective = 2
    NoValue = NoValue
    Symbols = {a, b}
    Position <- PositionDef
    Bars <- BarsDef
    ScoreTimes <- ScoreTimesDef
    Days = 3
    Interval = 1
    TopK = 1
    InitialCash = 100
    Lot = 2
    CommissionMin = 2
    CommissionPer = 40
    StampPer = 50
    SlippagePer = 20
    LimitOrders = FALSE
    FailOnAmbiguous = TRUE
    CalendarDays <- CalendarDaysDef
    OpenDays <- OpenDaysDef
    Back = 4
    Ahead = 2
    Unavailable = Unavailable
INVARIANTS
    ApprovedTargetFits
    ApprovedIsGrounded
    AnalysisIsGoverned
    ConclusionIsGrounded
    ReplayKeepsTheAnchor
    PlanIsWithinLimits
    TradesAreReal
    NoSessionIsSkipped
CHECK_DEADLOCK FALSE

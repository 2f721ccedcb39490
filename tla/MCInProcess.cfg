SPECIFICATION Spec
CONSTANTS
    market = market
    research = research
    portfolio = portfolio
    Tasks = {market, research, portfolio}
    DependsOn <- DependsOnDef
    Resources <- ResourcesDef
    Limit <- LimitDef
    Reservation <- ReservationDef
    Usages <- UsagesDef
    MaxParallel = 2
    MaxWriteErrors = 2
    primary = primary
    fallback = fallback
    http = http
    Callers = {g1}
    Clients = {d1, d2}
    Routes <- RoutesDef
    Dependency = http
    Threshold = 2
    Recovery = 2
    MaxAttempts = 2
    Estimate = 1
    Repair = 1
    Costs = {1, 2}
    MaxCost = 3
    quant = quant
    Checkers = {c1, c2}
    Names <- NamesDef
    Ages = {0, 2}
    MaxAge = 2
    Ttl = 1
    MaxNow = 2
    NoEntry = NoEntry
INVARIANTS
    TasksAreAccountedFor
    SpendIsReported
    ReadyIsEvidenced
PROPERTIES
    RunsEnd
    BreakerRecovers
CHECK_DEADLOCK FALSE

CONSTANTS
    w1 = w1
    w2 = w2
    op = op
    j1 = j1
    j2 = j2
    c1 = c1
    c2 = c2
    k1 = k1
    k2 = k2
    host = host
    console = console
    None = None
    Jobs = {j1, j2}
    Keys = {k1}
    Creators = {c1, c2}
    Workers = {w1, w2, op}
    Operators = {op}
    WorkerId <- MCWorkerId
    MaxRetries = 1
    Lease = 2
    MaxWait = 1
    MaxFaults = 2
SPECIFICATION FairSpec
INVARIANTS
    OneOfEach
    ReclaimsAreFaults
PROPERTIES
    LateStepsChangeNothing
    EveryJobEnds
CHECK_DEADLOCK FALSE

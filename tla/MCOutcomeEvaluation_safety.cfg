CONSTANTS
    w1 = w1
    w2 = w2
    w3 = w3
    r1 = r1
    t1 = t1
    t5 = t5
    o1 = o1
    o2 = o2
    host = host
    host2 = host2
    api = api
    None = None
    Owner <- MCOwner
    Workers = {w1, w2}
    Requests = {r1}
    Windows = {t1, t5}
    Observations = {o1, o2}
    MaxClaims = 2
    MaxFaults = 2
SPECIFICATION Spec
SYMMETRY Symmetry
INVARIANTS
    OneOutcome
PROPERTIES
    OutcomesStay
    ImplementsPromise
CHECK_DEADLOCK FALSE

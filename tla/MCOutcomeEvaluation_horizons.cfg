CONSTANTS
    w1 = w1
    w2 = w2
    w3 = w3
    r1 = r1
    t1 = t1
    t5 = t5
    o1 = o1
    o2 = o2
    host = host
    host2 = host2
    api = api
    None = None
    Owner <- MCOwner
    Workers = {w1}
    Requests = {}
    Windows = {t1, t5}
    Observations = {o1}
    MaxClaims = 2
    MaxFaults = 0
SPECIFICATION Spec
INVARIANTS
    AnswersTheWindowAsked

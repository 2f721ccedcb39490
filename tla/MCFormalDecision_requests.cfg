SPECIFICATION FairSpec
CONSTANTS
    c1 = c1
    c2 = c2
    k1 = k1
    k2 = k2
    p1 = p1
    p2 = p2
    full = full
    partial = partial
    None = None
    Callers = {c1, c2}
    Keys = {k1}
    Payloads = {p1, p2}
    Evidence = {full, partial}
    Complete = {full}
    Calculations <- SomeCalculations
    Fixture = FALSE
    MaxIds = 3
    MaxFaults = 2
INVARIANTS
    SettledAtomically
    AnswersTheRequest
    AuthorizationIsGoverned
PROPERTIES
    DecisionsStand
    RequestsEnd

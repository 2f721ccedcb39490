CONSTANTS
    w1 = w1
    w2 = w2
    q1 = q1
    q2 = q2
    b1 = b1
    b2 = b2
    bx = bx
    good = good
    bad = bad
    t1 = t1
    t2 = t2
    s1 = s1
    s2 = s2
    None = None
    Workers = {w1, w2}
    Requests = {q1, q2}
    Bundles = {b1, b2, bx}
    Concludable = {b1, bx}
    SnapshotOf <- MCSnapshotOf
    Responses = {good, bad}
    Valid = {good}
    Instants = {t1, t2}
    FallbackEnabled = FALSE
    MaxCrashes = 1
SPECIFICATION Spec
SYMMETRY WorkerSymmetry
INVARIANTS
    EffectsHappenOnce
    ResultStandsOnSeals
PROPERTIES
    HistoryIsKept
    ImplementsPromise

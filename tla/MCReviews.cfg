SPECIFICATION RetriedSpec
CONSTANTS
    d1 = d1
    d2 = d2
    o1 = o1
    o2 = o2
    Decisions = {d1, d2}
    Bundles = {b1, b2}
    RowIds = {}
    Contents = {x}
    Outcomes = {o1, o2}
    OutcomeOf <- OutcomeOfDef
    Excess <- ExcessDef
    Callers = {c1}
    NoRow = NoRow
    Idle = Idle
    MaxRows = 1
PROPERTIES
    ReviewIsRemembered
CHECK_DEADLOCK FALSE

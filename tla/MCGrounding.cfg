SPECIFICATION GroundingSpec
CONSTANTS
    BundleRequests <- BundleRequestsDef
    Payloads <- PayloadsDef
    Proposals <- ProposalsDef
    Nothing = Nothing
    Raised = Raised
INVARIANTS
    FallbackConcludes
CHECK_DEADLOCK FALSE

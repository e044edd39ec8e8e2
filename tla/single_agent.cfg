CONSTANTS
    None = None
    Proposal = {p1}
    Design <- TwoWays
    Baseline = "as_is"
    UseFalsifier = FALSE
    Parallel = 2
    PassageCount = 1
    EvidenceLimit = 9
    Limit <- SingleAgent
    ElapsedLimit = 0
    Charges <- Free
    AttemptLimit <- TwoEach
    ForceExperimentAfter <- TwoEach
    EvidenceTurnReserve <- FourEach
    TerminalToolReserve <- OneEach
    CoordinationToolReserve <- TwoEach
SPECIFICATION Spec
INVARIANTS RepairAuthorized
PROPERTIES ImplementsAuthority
CHECK_DEADLOCK FALSE

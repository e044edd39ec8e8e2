CONSTANTS
    None = None
    Proposal = {p1, p2}
    Design <- AsIs
    Baseline = "as_is"
    UseFalsifier = TRUE
    Parallel = 1
    PassageCount = 1
    EvidenceLimit = 3
    Limit <- TwoRounds
    ElapsedLimit = 0
    Charges <- Free
    AttemptLimit <- OneAndTwo
    ForceExperimentAfter <- OneEach
    EvidenceTurnReserve <- FourEach
    TerminalToolReserve <- OneEach
    CoordinationToolReserve <- TwoEach
SPECIFICATION Spec
INVARIANTS TypeOK RepairAuthorized InconclusiveStops
PROPERTIES FalsifierConfined ImplementsAuthority SupportedRepairOffered
CHECK_DEADLOCK FALSE

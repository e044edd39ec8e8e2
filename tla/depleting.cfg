CONSTANTS
    None = None
    Proposal = {p1}
    Design <- TwoWays
    Baseline = "as_is"
    UseFalsifier = TRUE
    Parallel = 2
    PassageCount = 1
    EvidenceLimit = 9
    Limit <- Depleting
    ElapsedLimit = 0
    Charges <- Metered
    AttemptLimit <- TwoEach
    ForceExperimentAfter <- TwoEach
    EvidenceTurnReserve <- FourEach
    TerminalToolReserve <- OneEach
    CoordinationToolReserve <- TwoEach
SPECIFICATION Spec
INVARIANTS LastTurnDecides 
PROPERTIES Termination DecisionFinal
CHECK_DEADLOCK FALSE

CONSTANTS
    Methods = {"advanced", "baseline", "agent"}
    Reviewer = {r1, r2}
    None = None
    MaxSessions = 3
    MaxFailures = 2
    MaxTurns = 4
    Workbook = {"clean", "three", "many", "stuck", "masked", "deep"}
    Case = {"low", "mid", "high"}
    Cell <- Cells
    Depends <- References
    Faulty <- WrongCells
    Mismatch <- Differs
    CaseLimit = 24
SPECIFICATION Spec
INVARIANTS TypeOK PublishedTrailComplete CommitMarkerLast DecisionEarned
CHECK_DEADLOCK FALSE

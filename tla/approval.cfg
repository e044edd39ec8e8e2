CONSTANTS
    None = None
    Unapproved = Unapproved
    Reviewer = {r1, r2, r3}
    Informed = {r1, r2}
    Content = {reviewed, edited}
    Reviewed = reviewed
    AwaitReport = TRUE
    MaxFaults = 3
    MaxEdits = 2
SPECIFICATION Spec
INVARIANTS TypeOK ServedIsApproved
PROPERTIES ImplementsRegister InterruptedApprovalCompletes

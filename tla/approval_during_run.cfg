CONSTANTS
    None = None
    Unapproved = Unapproved
    Reviewer = {r1}
    Informed = {r1}
    Content = {reviewed, edited}
    Reviewed = reviewed
    AwaitReport = FALSE
    MaxFaults = 0
    MaxEdits = 0
SPECIFICATION Spec
INVARIANTS MarkerCommits

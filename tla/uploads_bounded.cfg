CONSTANTS
    Upload = {u1, u2, u3}
    Handler = {h1}
    Reaper = reaper
    Worker = worker
    None = None
    MaxUploads = 1
    MaxProcessing = 1
    VanishedChildRaises = TRUE
    MaxRemovalFailures = 4
    MaxStartFailures = 1
SPECIFICATION Spec
SYMMETRY Interchangeable
INVARIANTS NoUploadLost UploadsBounded

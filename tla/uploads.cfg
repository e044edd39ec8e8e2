CONSTANTS
    Upload = {u1, u2}
    Handler = {h1, h2}
    Reaper = reaper
    Worker = worker
    None = None
    MaxUploads = 1
    MaxProcessing = 1
    VanishedChildRaises = TRUE
    MaxRemovalFailures = 1
    MaxStartFailures = 1
SPECIFICATION Spec
SYMMETRY Interchangeable
INVARIANTS TypeOK UsersKeepTheirFiles LockHandedOver
PROPERTIES ImplementsLifecycle

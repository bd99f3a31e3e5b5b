CONSTANTS
    Worker = {w1, w2}
    Event = {e1}
    Binding = {b1, b2}
    Job <- MCJob
    EventOf <- MCEventOf
    BindingOf <- MCBindingOf
    Policies = {"redacted"}
    MaxAttempts = 2
    Backoff <- MCBackoff
    Jitter = 0
    LeaseTime = 1
    SendTimeout = 1
    HoldLimit = 1
    Horizon = 1
    Disturbances = {"retry", "crash", "dbfail", "drop", "purge"}
    Quota = 2
    NoJob = NoJob
SPECIFICATION Spec
SYMMETRY MCSymmetry
INVARIANTS
    PolicyApplied
    CompleteHistory
    OneWorkerPerJob
    PayloadKeptWhileNeeded
PROPERTIES
    DeliveredStaysDelivered
    PayloadStaysMasked
    KeepsContract

CONSTANTS
    Worker = {w1, w2}
    Event = {e1}
    Binding = {b1}
    Job <- MCJob
    EventOf <- MCEventOf
    BindingOf <- MCBindingOf
    Policies = {"redacted"}
    MaxAttempts = 2
    Backoff <- MCBackoff
    Jitter = 0
    LeaseTime = 1
    SendTimeout = 1
    HoldLimit = 1
    Horizon = 0
    Disturbances = {"drop"}
    Quota = 1
    NoJob = NoJob
SPECIFICATION Spec
SYMMETRY MCSymmetry
PROPERTIES
    QueuedJobsSurvive

CONSTANTS
    Worker = {w1, w2}
    Event = {e1}
    Binding = {b1}
    Job <- MCJob
    EventOf <- MCEventOf
    BindingOf <- MCBindingOf
    Policies = {"none"}
    MaxAttempts = 2
    Backoff <- MCBackoff
    Jitter = 0
    LeaseTime = 1
    SendTimeout = 1
    HoldLimit = 2
    Horizon = 0
    Disturbances = {"retry", "crash", "dbfail"}
    Quota = 2
    NoJob = NoJob
SPECIFICATION FairSpec
INVARIANTS
    AttemptsLeft
    SuccessWasAccepted
    LogMatchesJob
PROPERTIES
    EveryJobSettles

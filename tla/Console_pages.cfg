SPECIFICATION Spec
CONSTANTS
    MaxCalls = 3
    MaxSession = 2
    MaxEvents = 2
    Days = {0, 1}
    Blank = Blank
    ChannelTypes <- Types
    FirstTable <- FirstRows
    Tours <- PageTours
INVARIANTS
    TokenIsPageSession
    CopiesFollowWrites
    ShownAddressWorks
    CopiedAddressWorks
    RowsFit
    ShownCodesInForce
    UntouchedFormIsCurrent
CHECK_DEADLOCK FALSE
PROPERTIES
    PollsCatchUp

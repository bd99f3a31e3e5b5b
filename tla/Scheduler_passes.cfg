CONSTANTS
    Schedule = {s1, s2, s3}
    Recurrence = {"once", "often"}
    Occurs <- MCOccurs
    MaxTime = 2
    Batch = 2
    Lead = 1
    Quota = 3
    NoRow = NoRow
SPECIFICATION FairSpec
CHECK_DEADLOCK FALSE
INVARIANTS
    OneEventPerOccurrence
PROPERTIES
    NoRunIsLost
    KeepsAgenda
    DueRunsHappen

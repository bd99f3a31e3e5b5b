CONSTANTS
    r1 = r1
    r2 = r2
    r3 = r3
    s1 = s1
    s2 = s2
    x1 = x1
    x2 = x2
    g1 = g1
    g2 = g2
    b1 = b1
    b2 = b2
    k1 = k1
    Request = {r1}
    Source = {s1}
    Rule = {x1}
    Group = {g1}
    Binding = {b1}
    Key = {k1}
    SourceOf <- MCSourceOf
    KeyOf <- MCKeyOf
    Matches <- MCMatches
    CreatedAt <- MCCreatedAt
    GroupOf <- MCGroupOf
    Window = 1
    Retention = 1
    MaxTime = 1
    Disturbances = {"edit"}
    Quota = 1
    NoKey = NoKey
    None = None
SPECIFICATION Spec
CHECK_DEADLOCK FALSE
INVARIANTS
    BodyNotKept

CONSTANTS
    Pools = {{c1}, {c1, c2}}
    Worker = {w1}
    Request = {r1, r2}
    Group = {g1, g2}
    NoOne = NoOne
SPECIFICATION ImpatientSpec
INVARIANTS
    NothingLeaks
PROPERTIES
    WorkersAreServed

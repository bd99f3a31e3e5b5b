CONSTANTS
    Pools = {{c1}}
    Worker = {w1}
    Request = {r1, r2}
    Group = {g1, g2}
    NoOne = NoOne
SPECIFICATION FairSpec
PROPERTIES
    GroupsAreListed

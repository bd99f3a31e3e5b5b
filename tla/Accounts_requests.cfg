CONSTANTS
    Request = {r1, r2, r3}
    Identity = {i1, i2}
    Earlier = Earlier
    None = None
SPECIFICATION Spec
SYMMETRY MCSymmetry
INVARIANTS
    OneAdministrator
    UsedOnce
    FactorIsConfirmed
    SessionsOfTheBound
    PasswordEndsSessions

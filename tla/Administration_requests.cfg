CONSTANTS
    Request = {r1, r2, r3}
    Earlier = Earlier
    None = None
SPECIFICATION Spec
SYMMETRY MCSymmetry
INVARIANTS
    SettingsAgree
    EnabledIsConfigured
    CredentialsWereShown
    VoidTokensStayVoid

SPECIFICATION Spec
CONSTANTS
    Calls = {c1, c2}
    MaxTime = 2
    MaxRows = 3
    None = None
SYMMETRY MCSymmetry
INVARIANTS
    SessionsEndForGood
PROPERTIES
    CookieOutlivesNoSession
CHECK_DEADLOCK FALSE

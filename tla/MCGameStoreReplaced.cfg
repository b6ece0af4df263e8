SPECIFICATION Spec
CONSTANTS
    g1 = g1
    g2 = g2
    g3 = g3
    b1 = b1
    b2 = b2
    Guests = {g1, g2, g3}
    Batches = {b1, b2}
    Own = Own
    Session = Session
    None = None
SYMMETRY Symmetry
CONSTRAINT Bound
PROPERTIES
    TokenNotReplaced
CHECK_DEADLOCK FALSE

CONSTANTS
    h1 = h1
    h2 = h2
    h3 = h3
    f = f
    Members = {h1, h2, h3, f}
    Honest = {h1, h2, h3}
    Vvecs = {1, 2}
    None = None
    minSize = 3
    dkgBadVotesThreshold = 3
    FaultyMessages <- MCFaultyMessages
    MaxSigned = 3
    MaxFaults = 1
SPECIFICATION Spec
INVARIANTS
    TypeOK
    HonestStayValid
    
    KeyHeld
    OneFinalKey
CHECK_DEADLOCK FALSE
SYMMETRY Symmetry

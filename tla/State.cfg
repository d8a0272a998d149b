SPECIFICATION PartsSpec
CONSTANTS
    Parts = {"kernel", "admission", "waits", "scope", "artifact"}
    p1 = p1
    p2 = p2
    q1 = q1
    q2 = q2
    ap3 = ap3
    Kinds <- MCKinds
    Ceiling <- MCCeiling
    Launch = {p1, p2}
    Gen = {q1, q2}
    MaxDispatch = 2
    ProbeLimit = 1
    MaxAttempts = 2
    MaxOwner = 2
    None = None
SYMMETRY Symmetry
INVARIANTS OneWriter SealedIsAccounted TerminalIsQuiet RecoveryAccepts AdmissionAgrees WaitsReopen
PROPERTIES WorkersAreConfined ContentIsWhole
CHECK_DEADLOCK FALSE

SPECIFICATION PartsSpec
CONSTANTS
    Parts = {"compact", "session", "credential", "owner", "control", "install", "handle", "generation", "source", "stream", "read", "broker", "platform"}
    x1 = x1
    p1 = p1
    p2 = p2
    cp1 = cp1
    cp2 = cp2
    cp3 = cp3
    w1 = w1
    w2 = w2
    w3 = w3
    rv1 = rv1
    op1 = op1
    op2 = op2
    ht1 = ht1
    hj1 = hj1
    Proc = {p1, p2}
    MaxSession = 3
    MaxSnap = 2
    MaxRecord = 1
    MaxPlan = 1
    MaxText = 2
    MaxCall = 4
    MaxFault = 1
    RecentMax = 2
SYMMETRY Symmetry
INVARIANTS FilesAgree CutsAreWhole
PROPERTIES NothingIsDropped SecretsAreKnown OneStateOwner ControlIsExact InstallIsContained TreesAreExact
CHECK_DEADLOCK FALSE

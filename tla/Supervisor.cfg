SPECIFICATION MCSpec
CONSTANTS
    Run = {r1, r2}
    MaxTurn = 1
    MaxFault = 1
    MaxEpoch = 2
INVARIANTS EffectsAreCharged ScopesAreOwned
PROPERTIES NoEffectAfterStop ResultIsKept RunEnds

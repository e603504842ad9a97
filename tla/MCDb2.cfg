SPECIFICATION Spec
CONSTANTS
    a = a
    b = b
    Proc = {a, b}
    MaxInode = 2
    K = 3
    unlockiter <- MCUnlockiter
    MaxGen = 1
CONSTRAINT Bounded
INVARIANTS
    TypeOK
    Exclusion
    NothingKept
    NeverUpgraded
    NoDeadlock
    PermanentSurvives
    OneGeneration
PROPERTIES
    IterationComplete
CHECK_DEADLOCK FALSE

SPECIFICATION NetSpec
CONSTANTS
    Fd <- MCFd
    MaxConns = 2
    MaxClock = 2
INVARIANTS Counted Owned Bounded

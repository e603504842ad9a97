SPECIFICATION Spec
CONSTANTS
    Req = {a, t, junk}
    ReqLen <- MCReqLen
    ENTRY = 1
    LOOKASIDE_MAX_SIZE = 6
    STALE_TIME = 2
    NoMemory = FALSE
    AS = {a}
    TGS = {t}
    ReplyLen = {1, 3}
    max_dgram_reply_size = 2
    NULL = NULL
    States = {s1, s2}
    MaxTime = 2
    MaxRuns = 1
SYMMETRY MCSymmetry
INVARIANT RepeatDropped
CHECK_DEADLOCK FALSE

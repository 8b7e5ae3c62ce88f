CONSTANTS
    p1 = p1
    p2 = p2
    AnyPid = AnyPid
    NoPid = NoPid
    Pids = {p1, p2}
    MaxJobs = 2
    ForkFails = TRUE
    BigOutput = TRUE
    Ops = {"fg", "bg", "capture", "wait", "pause", "poll", "show"}
SPECIFICATION FairSpec
CHECK_DEADLOCK FALSE
INVARIANTS NextIdIsTableSize IdBoundsPosition
PROPERTIES StatementsEnd

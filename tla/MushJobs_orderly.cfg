CONSTANTS
    p1 = p1
    p2 = p2
    p3 = p3
    AnyPid = AnyPid
    NoPid = NoPid
    Pids = {p1, p2, p3}
    MaxJobs = 3
    ForkFails = TRUE
    BigOutput = TRUE
    Ops = {"fg", "bg", "capture", "cancel", "pause", "exit"}
SPECIFICATION FairSpec
CHECK_DEADLOCK FALSE
INVARIANTS ForegroundWaitsForOwn CompletedHasTerminated ChildrenAreNamed

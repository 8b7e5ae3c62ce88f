CONSTANTS
    p1 = p1
    p2 = p2
    AnyPid = AnyPid
    NoPid = NoPid
    Pids = {p1, p2}
    MaxJobs = 2
    ForkFails = FALSE
    BigOutput = FALSE
    Ops = {"fg", "bg", "exit"}
    Lines = {10, 20}
    Bodies <- Looping
    MaxCounter = 2
    Strings = {"one"}
    Strtol <- MCStrtol
    Junk = Junk
    Leftover = {0}
    Vars = {"JOB", "STATUS", "OUTPUT"}
    MaxDepth = 0
SPECIFICATION FairShellSpec
PROPERTIES QuitEnds StraightRunsEnd
CHECK_DEADLOCK FALSE

CONSTANTS
    p1 = p1
    p2 = p2
    AnyPid = AnyPid
    NoPid = NoPid
    Pids = {p1}
    MaxJobs = 1
    ForkFails = FALSE
    BigOutput = FALSE
    Ops = {"fg", "bg", "capture", "wait", "poll", "cancel", "pause", "show", "exit"}
    Lines = {10}
    Bodies <- All
    MaxCounter = 1
    Strings = {"one"}
    Strtol <- MCStrtol
    Junk = Junk
    Leftover = {0}
    Vars = {"JOB", "STATUS", "OUTPUT"}
    MaxDepth = 1
SPECIFICATION ShellSpec
INVARIANTS QuitIsNotKept RunStaysInProgram
CHECK_DEADLOCK FALSE

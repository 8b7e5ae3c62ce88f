------------------------------ MODULE MushJobs ------------------------------
(***************************************************************************)
(* The job table of mush (hw4/src/jobs.c), the child processes in it, and  *)
(* the statements that use it (FG, BG, WAIT, POLL, CANCEL and PAUSE in     *)
(* exec_stmt, hw4/src/execution.c).  The shell is one process, its         *)
(* children run beside it.  A statement is one step up to the point where  *)
(* the shell blocks in the kernel; `call` says where that is.              *)
(***************************************************************************)
EXTENDS Integers, Sequences, FiniteSets, SequencesExt

CONSTANTS
    Pids,       \* process ids for children
    AnyPid,     \* the -1 of a failed fork; to waitpid and kill, every child
    NoPid,      \* a pid that is no child of the shell
    MaxJobs,    \* bound on the table: no job is started beyond it
    ForkFails,  \* BOOLEAN: may fork fail
    BigOutput,  \* BOOLEAN: may a captured command write more than a pipe holds
    Ops         \* the statements in use

AllOps == {"fg", "bg", "capture", "wait", "poll", "cancel", "pause", "show", "exit"}

ASSUME PidAssumption == AnyPid \notin Pids /\ NoPid \notin Pids /\ AnyPid # NoPid
ASSUME SizeAssumption == MaxJobs \in Nat /\ Ops \subseteq AllOps
ASSUME SwitchAssumption == ForkFails \in BOOLEAN /\ BigOutput \in BOOLEAN

VARIABLES
    jobs,   \* the list `first`, in order
    ID,     \* the global ID, handed to the next job
    procs,  \* the children as the kernel knows them
    call,   \* where the shell is blocked
    ret     \* what a call returns in this step: the value, the captured output

jvars == <<jobs, ID, procs, call, ret>>

\* "full": blocked writing to a pipe nobody reads.  "killed": SIGKILL is on its
\* way.  Zombies are told apart by what waitpid reports of them.
Exited == {"exit0", "exit1"}
Zombie == Exited \cup {"sigkill", "signal"}
Alive == {"running", "full", "killed"}
ProcStates == {"none"} \cup Alive \cup Zombie

WIFEXITED(w) == w \in Exited
WEXITSTATUS(w) == IF w = "exit0" THEN 0 ELSE 1

\* NEW and ABORTED are declared in jobs.c and never assigned.
Status == {"running", "completed", "canceled"}
Msg == {"line", "junk"}     \* what fgets stored, or an array never written
Job == [id : Nat, pid : Pids \cup {AnyPid}, status : Status, captures : BOOLEAN, msg : Msg]

\* arg is the statement that waits or, in jobs_show, the variable `status`.
NoCall == [op |-> "none", arg |-> "none", id |-> 0, at |-> 0, pid |-> NoPid]
Idle == call = NoCall
Calls(op, arg, id, at, pid) ==
    call' = [op |-> op, arg |-> arg, id |-> id, at |-> at, pid |-> pid]
NoRet == [op |-> "none", id |-> 0, val |-> 0, out |-> "none"]
Returns(op, id, val, out) == ret' = [op |-> op, id |-> id, val |-> val, out |-> out]

JobsInit ==
    /\ jobs = <<>>
    /\ ID = 0
    /\ procs = [p \in Pids |-> "none"]
    /\ call = NoCall
    /\ ret = NoRet

-----------------------------------------------------------------------------
(* Children and the system calls on them. *)

Exit(p) ==
    /\ \/ procs[p] = "running" /\ \E s \in Exited \cup {"signal"} : procs' = [procs EXCEPT ![p] = s]
       \/ procs[p] = "killed" /\ procs' = [procs EXCEPT ![p] = "sigkill"]
    /\ UNCHANGED <<jobs, ID, call>> /\ ret' = NoRet

\* The parent reads one line of captured output and no more.
Fill(p) ==
    /\ BigOutput
    /\ procs[p] = "running"
    /\ \E i \in DOMAIN jobs : jobs[i].pid = p /\ jobs[i].captures
    /\ procs' = [procs EXCEPT ![p] = "full"]
    /\ UNCHANGED <<jobs, ID, call>> /\ ret' = NoRet

\* A pid is not used again while the table names it.
FreshPids == {p \in Pids : procs[p] = "none" /\ \A i \in DOMAIN jobs : jobs[i].pid # p}
Fork(p) ==
    \/ p \in FreshPids /\ procs' = [procs EXCEPT ![p] = "running"]
    \/ ForkFails /\ p = AnyPid /\ UNCHANGED procs

Meant(pid) == IF pid = AnyPid THEN Pids ELSE {pid} \cap Pids
Children(pid) == {p \in Meant(pid) : procs[p] # "none"}
Reapable(pid) == {p \in Meant(pid) : procs[p] \in Zombie}

\* waitpid leaves w in the caller's variable `status`.  When it reaps nothing
\* it does not write it, and the callers never initialise it: w is then
\* whatever was on the stack.
Reaps(pid, w) ==
    \E p \in Reapable(pid) : w = procs[p] /\ procs' = [procs EXCEPT ![p] = "none"]
NotWritten(w) == w \in Zombie /\ UNCHANGED procs

waitpid(pid, w) == Reaps(pid, w) \/ (Children(pid) = {} /\ NotWritten(w))
waitpid_nohang(pid, w) == Reaps(pid, w) \/ (Reapable(pid) = {} /\ NotWritten(w))

\* SIGKILL to pids.  A zombie takes the signal and stays what it is.
Kill(pids) ==
    procs' = [p \in Pids |-> IF p \in pids /\ procs[p] \in Alive THEN "killed" ELSE procs[p]]

-----------------------------------------------------------------------------
(* The table. *)

\* The lookup all functions share: the first entry with this job ID or else
\* the sentinel, position 0.  Then the local `pid` is never written.
Hits(js, id) == {i \in DOMAIN js : js[i].id = id}
Find(js, id) ==
    IF Hits(js, id) = {} THEN 0
    ELSE CHOOSE i \in Hits(js, id) : \A k \in Hits(js, id) : i <= k
LookedUp(at, pid) == IF at = 0 THEN pid \in Pids \cup {NoPid} ELSE pid = jobs[at].pid

SetStatus(at, s) == IF at = 0 THEN jobs ELSE [jobs EXCEPT ![at].status = s]

\* Mutants: the entry goes to the front; the ID is not given back; the first entry is removed, whatever the ID.
PrependJob(p, captures, msg, stmt) ==
    /\ jobs' = <<[id |-> ID, pid |-> p, status |-> "running",
                  captures |-> captures, msg |-> msg]>> \o jobs
    /\ ID' = ID + 1
    /\ Returns("run", ID, ID, "none")
    /\ IF stmt = "fg" THEN LET at == Find(jobs', ID) IN Calls("wait", "fg", ID, at, jobs'[at].pid)
       ELSE call' = NoCall

ExpungeKeepsId(js, id) ==
    LET at == Find(js, id)
    IN  /\ jobs' = IF at # 0 /\ js[at].status = "completed" THEN RemoveAt(js, at) ELSE js
        /\ UNCHANGED ID

ExpungeFirst(js, id) ==
    IF Find(js, id) # 0 /\ js[Find(js, id)].status = "completed"
    THEN jobs' = Tail(js) /\ ID' = ID - 1
    ELSE jobs' = js /\ UNCHANGED ID

\* jobs_run after the fork: the entry goes to the end.  An FG statement goes on
\* to wait for the ID it was given.
NewJob(p, captures, msg, stmt) ==
    /\ jobs' = Append(jobs, [id |-> ID, pid |-> p, status |-> "running",
                             captures |-> captures, msg |-> msg])
    /\ ID' = ID + 1
    /\ Returns("run", ID, ID, "none")
    /\ IF stmt = "fg" THEN LET at == Find(jobs', ID) IN Calls("wait", "fg", ID, at, jobs'[at].pid)
       ELSE call' = NoCall

jobs_expunge(js, id) ==
    LET at == Find(js, id)
    IN  IF at # 0 /\ js[at].status = "completed"
        THEN jobs' = RemoveAt(js, at) /\ ID' = ID - 1
        ELSE jobs' = js /\ UNCHANGED ID

\* The entry's msg, read without asking whether anything was captured.
jobs_get_output(id) == IF Find(jobs, id) = 0 THEN "none" ELSE jobs[Find(jobs, id)].msg

\* What jobs_wait and jobs_poll make of the status they ended up with.
Judged(at, w) == IF WIFEXITED(w) THEN SetStatus(at, "completed") ELSE jobs
Verdict(w) == IF WIFEXITED(w) THEN WEXITSTATUS(w) ELSE -1

-----------------------------------------------------------------------------
(* The statements. *)

Ready(op) == Idle /\ op \in Ops
Room == Len(jobs) < MaxJobs

Run(stmt) ==
    /\ Ready(stmt) /\ Room
    /\ \E p \in Pids \cup {AnyPid} : Fork(p) /\ NewJob(p, FALSE, "junk", stmt)

\* With captured output jobs_run reads a line from its child before it makes
\* the entry.
RunCapture(stmt) ==
    /\ Ready(stmt) /\ "capture" \in Ops /\ Room
    /\ \E p \in Pids \cup {AnyPid} : Fork(p) /\ Calls("fgets", stmt, ID, 0, p)
    /\ UNCHANGED <<jobs, ID>> /\ ret' = NoRet

FgetsReturns ==
    /\ call.op = "fgets"
    /\ \/ call.pid \in Pids /\ NewJob(call.pid, TRUE, "line", call.arg)
       \/ /\ \A p \in {call.pid} \cap Pids : procs[p] \notin Alive
          /\ NewJob(call.pid, TRUE, "junk", call.arg)
    /\ UNCHANGED procs

WaitFor(id) ==
    /\ Ready("wait")
    /\ IF jobs = <<>> THEN Returns("wait", id, -1, "none") /\ UNCHANGED call
       ELSE /\ \E pid \in Pids \cup {AnyPid, NoPid} :
                  LookedUp(Find(jobs, id), pid) /\ Calls("wait", "wait", id, Find(jobs, id), pid)
            /\ ret' = NoRet
    /\ UNCHANGED <<jobs, ID, procs>>

\* The rest of an FG or WAIT statement: status, output and expunge.
WaitReturns ==
    /\ call.op = "wait"
    /\ \E w \in Zombie :
          /\ waitpid(call.pid, w)
          /\ Returns("wait", call.id, Verdict(w),
                     IF call.arg = "fg" /\ ~jobs[Len(jobs)].captures THEN "none"
                     ELSE jobs_get_output(call.id))
          /\ jobs_expunge(Judged(call.at, w), call.id)
    /\ call' = NoCall

Poll(id) ==
    /\ Ready("poll")
    /\ IF jobs = <<>> THEN Returns("poll", id, -1, "none") /\ UNCHANGED <<jobs, ID, procs>>
       ELSE \E pid \in Pids \cup {AnyPid, NoPid}, w \in Zombie :
              /\ LookedUp(Find(jobs, id), pid)
              /\ waitpid_nohang(pid, w)
              /\ IF WIFEXITED(w)
                 THEN /\ Returns("poll", id, WEXITSTATUS(w), jobs_get_output(id))
                      /\ jobs_expunge(Judged(Find(jobs, id), w), id)
                 ELSE Returns("poll", id, -1, "none") /\ UNCHANGED <<jobs, ID>>
    /\ UNCHANGED call

Cancel(id) ==
    /\ Ready("cancel")
    /\ \E pid \in Pids \cup {AnyPid, NoPid} :
          /\ LookedUp(Find(jobs, id), pid)
          /\ IF jobs # <<>> /\ (pid = AnyPid \/ Children(pid) # {})
             THEN /\ Kill(Meant(pid))
                  /\ jobs' = SetStatus(Find(jobs, id), "canceled")
                  /\ Returns("cancel", id, 0, "none")
             ELSE Returns("cancel", id, -1, "none") /\ UNCHANGED <<jobs, procs>>
    /\ UNCHANGED <<ID, call>>

\* jobs_pause and jobs_show make one system call per entry, in table order.
Pause ==
    /\ Ready("pause")
    /\ IF jobs = <<>> THEN Returns("pause", 0, -1, "none") /\ UNCHANGED call
       ELSE Calls("pause", "none", 0, 1, jobs[1].pid) /\ ret' = NoRet
    /\ UNCHANGED <<jobs, ID, procs>>

\* Mutant: the loop stays on its entry.
SameEntry(op, arg) ==
    IF call.at = Len(jobs) THEN Returns(op, 0, 0, "none") /\ call' = NoCall
    ELSE Calls(op, arg, 0, call.at, call.pid) /\ ret' = NoRet

NextEntry(op, arg) ==
    IF call.at = Len(jobs) THEN Returns(op, 0, 0, "none") /\ call' = NoCall
    ELSE Calls(op, arg, 0, call.at + 1, jobs[call.at + 1].pid) /\ ret' = NoRet

\* Mutant: the loop does not block on the child.
PauseImpatient ==
    /\ call.op = "pause"
    /\ \E w \in Zombie : waitpid_nohang(call.pid, w)
    /\ jobs' = SetStatus(call.at, "completed")
    /\ NextEntry("pause", "none")
    /\ UNCHANGED ID

PauseStep ==
    /\ call.op = "pause"
    /\ \E w \in Zombie : waitpid(call.pid, w)
    /\ jobs' = SetStatus(call.at, "completed")
    /\ NextEntry("pause", "none")
    /\ UNCHANGED ID

Show ==
    /\ Ready("show") /\ jobs # <<>>
    /\ \E w \in Zombie : Calls("show", w, 0, 1, jobs[1].pid)
    /\ UNCHANGED <<jobs, ID, procs>> /\ ret' = NoRet

ShowStep ==
    /\ call.op = "show"
    /\ \E w \in Zombie :
          /\ \/ Reaps(call.pid, w)
             \/ Reapable(call.pid) = {} /\ w = call.arg /\ UNCHANGED procs
          /\ jobs' = Judged(call.at, w)
          /\ NextEntry("show", w)
    /\ UNCHANGED ID

\* main ends with jobs_fini: every entry marked running is sent SIGKILL and the
\* table is emptied.  The cancel in it finds the entry itself, which is the
\* first one left; the expunge never applies to it.
jobs_fini ==
    LET running == {jobs[i].pid : i \in {k \in DOMAIN jobs : jobs[k].status = "running"}}
    IN  /\ Ready("exit")
        /\ Kill(UNION {Meant(pid) : pid \in running})
        /\ jobs' = <<>>
        /\ ID' = ID - Len(jobs)
        /\ Calls("exited", "none", 0, 0, NoPid)
        /\ ret' = NoRet

JobIds == 0 .. MaxJobs

ShellBlocked == FgetsReturns \/ WaitReturns \/ PauseStep \/ ShowStep

Shell ==
    \/ \E stmt \in {"fg", "bg"} : Run(stmt) \/ RunCapture(stmt)
    \/ \E id \in JobIds : WaitFor(id) \/ Poll(id) \/ Cancel(id)
    \/ Pause \/ Show \/ jobs_fini
    \/ ShellBlocked

JobsNext == Shell \/ \E p \in Pids : Exit(p) \/ Fill(p)

JobsSpec == JobsInit /\ [][JobsNext]_jvars

\* mush never gives up a blocked call, and a program that a job runs terminates.
FairSpec ==
    /\ JobsSpec
    /\ WF_jvars(ShellBlocked)
    /\ \A p \in Pids : WF_jvars(Exit(p))

-----------------------------------------------------------------------------
(* Properties. *)

JobsTypeOK ==
    /\ jobs \in Seq(Job)
    /\ ID \in Nat
    /\ procs \in [Pids -> ProcStates]
    /\ call.op \in {"none", "fgets", "wait", "pause", "show", "exited"}
    /\ call.at \in 0 .. Len(jobs)
    /\ call.pid \in Pids \cup {AnyPid, NoPid}
    /\ call.op = "fgets" => call.pid # NoPid

\* jobs.c:61: the "next ID" is not a serial number; expunging gives IDs back, so
\* that at any time the next job gets the number of entries as its ID.
NextIdIsTableSize == ID = Len(jobs)

\* So an entry never sits further down the table than its ID says: the entry
\* with ID n is among the first n + 1, and whatever jobs_expunge removes from
\* before it, the search of the other functions still meets it there.
IdBoundsPosition == \A i \in DOMAIN jobs : i <= jobs[i].id + 1

\* jobs.c:29, where poll and jobs_show are not used: an entry is only marked
\* completed when the child it names is gone, though jobs_pause does not look
\* at what waitpid reports and jobs_wait may have waited for another entry.
CompletedHasTerminated ==
    \A i \in DOMAIN jobs :
        jobs[i].status = "completed" /\ jobs[i].pid \in Pids => procs[jobs[i].pid] \notin Alive

\* jobs.c:350, likewise: a child is not forgotten while it runs or waits to be
\* reaped; an entry names it, or jobs_run is about to make that entry.
ChildrenAreNamed ==
    call.op # "exited" =>
        \A p \in Pids : procs[p] # "none" =>
            (\E i \in DOMAIN jobs : jobs[i].pid = p) \/ (call.op = "fgets" /\ call.pid = p)

\* Where jobs are only run, canceled and paused for, the job ID tells jobs apart
\* (jobs.c:21), so that a foreground statement waits for the child it started.
ForegroundWaitsForOwn == call.op = "wait" /\ call.arg = "fg" => call.at = Len(jobs)

\* The children that could be reaped cannot go on: one line of their output was
\* read (jobs.c:261) and nobody reads the rest.
WaitsForFull ==
    /\ call.op \in {"wait", "pause"} /\ Children(call.pid) # {}
    /\ \A p \in Children(call.pid) : procs[p] = "full"

\* execution.c:204-256: provided the programs terminate, every statement ends, but
\* for one that waits for a captured child with more output than a pipe holds;
\* jobs_pause and jobs_wait block on no child twice and on none that is gone.
StatementsEnd == ~Idle ~> (Idle \/ call.op = "exited" \/ WaitsForFull)
=============================================================================

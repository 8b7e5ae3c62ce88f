----------------------------- MODULE MushShell -----------------------------
(***************************************************************************)
(* The execution engine of mush (hw4/src/execution.c) with the modules it  *)
(* drives: it reads statements, stores those that have a line number and   *)
(* executes the others, `run` and `cont` executing the stored program      *)
(* until it stops, fails, or the user sends SIGQUIT.  The shell, its       *)
(* children and the user act independently.                                *)
(***************************************************************************)
EXTENDS MushProgram, MushJobs, MushStore

CONSTANTS Vars, MaxDepth    \* variables in use; bound on nested input files

\* A body is an operation, the line it may jump to, the variable and the string
\* (or second variable) it names.
StmtOps == {"stop", "goto", "if", "ifnot", "ifeq", "set", "copy", "unset", "source",
            "fg", "bg", "wait", "poll", "cancel", "pause"}
ASSUME BodiesAssumption ==
    Bodies \subseteq [op : StmtOps, to : Lines \cup {0}, var : Vars,
               arg : Strings \cup Vars \cup {"capture"}]
ASSUME VarsAssumption == {"JOB", "STATUS", "OUTPUT"} \subseteq Vars /\ MaxDepth \in Nat

VARIABLES
    pc,         \* where exec_interactive, exec_cont or exec_stmt is
    cur,        \* the statement in exec_stmt; line number 0 if it has none
    armed,      \* SIGQUIT is handled, not ignored
    got_quit,   \* the flag of the handler
    depth       \* how many input files are nested

shvars == <<pc, cur, armed, got_quit, depth>>
vars == <<pvars, jvars, svars, shvars>>

NoStmt == [lineno |-> 0, body |-> [op |-> "none", to |-> 0, var |-> "JOB", arg |-> "JOB"]]

\* stdin is a terminal: the shell then shows its tables before each prompt.
Tty == "show" \in Ops

ShellInit ==
    /\ ProgInit /\ JobsInit /\ StoreInit
    /\ pc = "prompt" /\ cur = NoStmt
    /\ armed = FALSE /\ got_quit = FALSE
    /\ depth = 0

\* Steps that leave the job table alone.
NoJobs == UNCHANGED <<jobs, ID, procs, call>> /\ ret' = NoRet

-----------------------------------------------------------------------------
(* The statement being executed: exec_stmt. *)

\* Control returns to exec_interactive.
Prompt(d) == IF Tty /\ d = 0 THEN "show" ELSE "prompt"

Finish(err) ==
    /\ pc' = IF cur.lineno = 0 THEN Prompt(depth') ELSE IF err THEN "left" ELSE "loop"
    /\ cur' = NoStmt

Executing(op) == pc = "stmt" /\ Idle /\ cur.body.op = op
Quietly == NoJobs /\ UNCHANGED <<armed, got_quit, depth>>

Jump ==
    \/ prog_goto(cur.body.to) /\ Finish(FALSE)
    \/ At(cur.body.to) = {} /\ Finish(TRUE) /\ UNCHANGED pvars

Stop == Executing("stop") /\ Quietly /\ Finish(TRUE) /\ UNCHANGED <<pvars, svars>>

GoTo == Executing("goto") /\ Quietly /\ Jump /\ UNCHANGED svars

\* if #v: an integer the store gives out is not 0, and with none exec_stmt
\* fails.  if !#v: so that the negation is always false.
If ==
    /\ Executing("if") /\ Quietly /\ UNCHANGED svars
    /\ IF HasInt(store, cur.body.var) THEN Jump ELSE Finish(TRUE) /\ UNCHANGED pvars

IfNot ==
    /\ Executing("ifnot") /\ Quietly /\ UNCHANGED <<pvars, svars>>
    /\ Finish(~HasInt(store, cur.body.var))

\* if #v == literal compares strings.  One that was never written may be equal.
IfEqual ==
    LET str == store_get_string(store, cur.body.var)
    IN  /\ Executing("ifeq") /\ Quietly /\ UNCHANGED svars
        /\ \/ str \in {cur.body.arg, Junk} /\ Jump
           \/ str # cur.body.arg /\ Finish(str = "none") /\ UNCHANGED pvars

\* set v = literal, set v = #w.
Set ==
    /\ Executing("set") /\ Quietly /\ UNCHANGED pvars
    /\ store' \in store_set_string(store, cur.body.var, cur.body.arg, errno)
    /\ Finish(FALSE) /\ UNCHANGED errno

Copy ==
    /\ Executing("copy") /\ Quietly /\ UNCHANGED <<pvars, errno>>
    /\ store' = IF HasInt(store, cur.body.arg)
                THEN store_set_int(store, cur.body.var, store[cur.body.arg].number) ELSE store
    /\ Finish(~HasInt(store, cur.body.arg))

\* store_set_string copies NULL for a variable that is not in use.
Unset ==
    /\ Executing("unset") /\ Quietly /\ UNCHANGED <<pvars, errno>>
    /\ store' = store_unset(store, cur.body.var)
    /\ IF cur.body.var \in DOMAIN store THEN Finish(FALSE) ELSE pc' = "dead" /\ UNCHANGED cur

\* The file is read when the program has stopped.  fopen may fail.
Source ==
    /\ Executing("source") /\ NoJobs /\ UNCHANGED <<pvars, store, armed, got_quit>>
    /\ \/ depth < MaxDepth /\ depth' = depth + 1 /\ Finish(FALSE) /\ UNCHANGED errno
       \/ UNCHANGED depth /\ Finish(TRUE) /\ errno' = TRUE

\* What the job statements assign to JOB, STATUS and OUTPUT, after the system
\* calls, of which each may have failed.
Results ==
    LET st == CASE ret'.op = "run" -> store_set_int(store, "JOB", ret'.val)
                [] ret'.op \in {"wait", "poll"} -> store_set_int(store, "STATUS", ret'.val)
                [] OTHER -> store
    IN  CASE ret'.out = "none" -> store' = st
          [] ret'.out = "line" -> \E s \in Strings : store' \in store_set_string(st, "OUTPUT", s, errno')
          [] OTHER -> store' \in store_set_string(st, "OUTPUT", Junk, errno')

JobStep(Step) ==
    /\ pc = "stmt"
    /\ Step
    /\ errno' \in {errno, TRUE}
    /\ Results
    /\ UNCHANGED <<pvars, armed, got_quit, depth>>
    /\ IF call' = NoCall THEN Finish(FALSE) ELSE UNCHANGED <<pc, cur>>

StartJob ==
    \E op \in {"fg", "bg"} :
        /\ Executing(op)
        /\ JobStep(IF cur.body.arg = "capture" THEN RunCapture(op) ELSE Run(op))

JobNo == store[cur.body.var].number
NoJob ==
    /\ \E op \in {"wait", "poll", "cancel"} : Executing(op)
    /\ ~HasInt(store, cur.body.var)
    /\ Quietly /\ Finish(TRUE) /\ UNCHANGED <<pvars, svars>>
OnJob ==
    \/ HasInt(store, cur.body.var) /\
        \/ Executing("wait") /\ JobStep(WaitFor(JobNo))
        \/ Executing("poll") /\ JobStep(Poll(JobNo))
        \/ Executing("cancel") /\ JobStep(Cancel(JobNo))
    \/ Executing("pause") /\ JobStep(Pause)

Resume == JobStep(FgetsReturns \/ WaitReturns \/ PauseStep)

Execute ==
    \/ Stop \/ GoTo \/ If \/ IfNot \/ IfEqual \/ Set \/ Copy \/ Unset \/ Source
    \/ StartJob \/ NoJob \/ OnJob \/ Resume

-----------------------------------------------------------------------------
(* The loops: exec_interactive and exec_cont. *)

Elsewhere == NoJobs /\ UNCHANGED svars

\* A statement is read: isatty fails where stdin is no terminal, and the scanner
\* clears errno when it fills its buffer from a file.
Read ==
    /\ UNCHANGED store
    /\ \/ UNCHANGED errno
       \/ depth = 0 /\ ~Tty /\ errno' = TRUE
       \/ (depth > 0 \/ ~Tty) /\ errno' = FALSE

TypeStmt ==
    /\ pc = "prompt"
    /\ \E stmt \in Stmts : prog_insert(stmt)
    /\ pc' = Prompt(depth)
    /\ NoJobs /\ Read /\ UNCHANGED <<cur, armed, got_quit, depth>>

TypeCommand ==
    /\ pc = "prompt"
    /\ \E b \in Bodies : cur' = [lineno |-> 0, body |-> b]
    /\ pc' = "stmt"
    /\ NoJobs /\ Read /\ UNCHANGED <<pvars, armed, got_quit, depth>>

Delete ==
    /\ pc = "prompt"
    /\ \E min, max \in Lines : prog_delete(min, max)
    /\ pc' = Prompt(depth)
    /\ NoJobs /\ Read /\ UNCHANGED <<cur, armed, got_quit, depth>>

\* Mutants: cont does not look for a statement first; the loop ignores the flag;
\* the loop does not advance; a run is left in the other order.
ContUnchecked == armed' = TRUE /\ pc' = "loop"

LoopDeaf ==
    /\ pc = "loop"
    /\ IF ~HasNext THEN pc' = "left" /\ UNCHANGED <<pvars, cur>>
       ELSE pc' = "stmt" /\ cur' = prog_fetch /\ prog_next
    /\ Elsewhere /\ UNCHANGED <<armed, got_quit, depth>>

LoopStays ==
    /\ pc = "loop"
    /\ IF got_quit \/ ~HasNext THEN pc' = "left" /\ UNCHANGED <<pvars, cur>>
       ELSE pc' = "stmt" /\ cur' = prog_fetch /\ UNCHANGED pvars
    /\ Elsewhere /\ UNCHANGED <<armed, got_quit, depth>>

LeaveSwapped ==
    /\ \/ /\ pc = "left" /\ pc' = "ignored"
          /\ got_quit' = FALSE /\ UNCHANGED armed
       \/ /\ pc = "ignored" /\ pc' = Prompt(depth)
          /\ armed' = FALSE /\ UNCHANGED got_quit
    /\ Elsewhere /\ UNCHANGED <<pvars, cur, depth>>

\* run and cont.  Without a statement to execute they return at once.
exec_cont ==
    IF counter' < Len(prog) THEN armed' = TRUE /\ pc' = "loop"
    ELSE pc' = Prompt(depth) /\ UNCHANGED armed

RunOrCont ==
    /\ pc = "prompt"
    /\ prog_reset \/ UNCHANGED pvars
    /\ exec_cont
    /\ NoJobs /\ Read /\ UNCHANGED <<cur, got_quit, depth>>

Loop ==
    /\ pc = "loop"
    /\ IF got_quit \/ ~HasNext THEN pc' = "left" /\ UNCHANGED <<pvars, cur>>
       ELSE pc' = "stmt" /\ cur' = prog_fetch /\ prog_next
    /\ Elsewhere /\ UNCHANGED <<armed, got_quit, depth>>

\* signal(SIGQUIT, SIG_IGN), and then got_quit = 0.
LeaveRun ==
    /\ \/ /\ pc = "left" /\ pc' = "ignored"
          /\ armed' = FALSE /\ UNCHANGED got_quit
       \/ /\ pc = "ignored" /\ pc' = Prompt(depth)
          /\ got_quit' = FALSE /\ UNCHANGED armed
    /\ Elsewhere /\ UNCHANGED <<pvars, cur, depth>>

ShowTables ==
    /\ pc = "show"
    /\ \/ jobs = <<>> /\ NoJobs /\ pc' = "prompt"
       \/ Show /\ UNCHANGED pc
       \/ ShowStep /\ pc' = IF call' = NoCall THEN "prompt" ELSE "show"
    /\ UNCHANGED <<pvars, svars, cur, armed, got_quit, depth>>

\* The end of an input file, and of the input.
ReadEof ==
    /\ pc = "prompt"
    /\ \/ depth > 0 /\ depth' = depth - 1 /\ pc' = Prompt(depth') /\ NoJobs
       \/ depth = 0 /\ UNCHANGED depth /\ pc' = "exited" /\ jobs_fini
    /\ Read /\ UNCHANGED <<pvars, cur, armed, got_quit>>

Engine == Execute \/ Loop \/ LeaveRun \/ ShowTables

-----------------------------------------------------------------------------
(* The user and the children. *)

Input == TypeStmt \/ TypeCommand \/ Delete \/ RunOrCont \/ ReadEof

\* SIGQUIT.  The handler interrupts nothing: system calls are restarted.
Quit ==
    /\ armed /\ got_quit' = TRUE
    /\ UNCHANGED <<pvars, jvars, svars, pc, cur, armed, depth>>

Child(p) == (Exit(p) \/ Fill(p)) /\ UNCHANGED <<pvars, svars, shvars>>

ShellNext == Input \/ Engine \/ Quit \/ \E p \in Pids : Child(p)

ShellSpec == ShellInit /\ [][ShellNext]_vars

\* The shell goes on whenever it can; a program that it starts need not end ...
EngineSpec == ShellSpec /\ WF_vars(Engine)

\* ... or does.
FairShellSpec == EngineSpec /\ \A p \in Pids : WF_vars(Exit(p) /\ Child(p))

-----------------------------------------------------------------------------
(* Properties. *)

\* execution.c:108-135: a SIGQUIT that comes at any moment of one run, even when
\* it is being left, is not kept for the next, which would then end at once.
QuitIsNotKept == pc \in {"prompt", "show"} => ~armed /\ ~got_quit

\* Whatever was deleted while a program was stopped, the counter of one that
\* runs is within it; only then does prog_fetch find what comes next.
RunStaysInProgram == pc = "loop" \/ (pc = "stmt" /\ cur.lineno # 0) => counter <= Len(prog)

\* A quit ends a run, be it an endless loop, provided the programs it starts end.
\* (The bound on the job table may stop the model instead.)
AtBound == pc = "stmt" /\ Idle /\ cur.body.op \in {"fg", "bg"} /\ ~Room
QuitEnds == got_quit ~> pc \in {"prompt", "dead"} \/ AtBound

\* A program without jumps comes to an end: no statement is executed twice.
Straight == \A i \in DOMAIN prog : prog[i].body.op \notin {"goto", "if", "ifeq"}
StraightRunsEnd == pc = "loop" /\ Straight ~> pc \in {"prompt", "dead"} \/ AtBound
=============================================================================

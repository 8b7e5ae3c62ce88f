---------------------------- MODULE MCMushShell ----------------------------
(***************************************************************************)
(* MushShell for TLC: the statements a user may type.                      *)
(***************************************************************************)
EXTENDS MushShell

MCStrtol == [s \in Strings |-> IF s = "one" THEN 1 ELSE 0]

Plain(op) == [op |-> op, to |-> 0, var |-> "JOB", arg |-> "JOB"]
With(op, n, v, a) == [op |-> op, to |-> n, var |-> v, arg |-> a]

\* Every kind of statement, on the one line 10.
All == {Plain(op) : op \in {"stop", "source", "bg", "pause", "wait", "poll", "cancel", "unset"}}
       \cup {With("fg", 0, "JOB", "capture"),
             With("goto", 10, "JOB", "JOB"), With("if", 10, "JOB", "JOB"),
             With("ifnot", 0, "JOB", "JOB"), With("ifeq", 10, "JOB", "one"),
             With("set", 0, "JOB", "one"), With("copy", 0, "STATUS", "JOB")}

\* Loops with jobs in them.
Looping == {Plain("bg"), Plain("fg"), With("goto", 10, "JOB", "JOB")}
=============================================================================

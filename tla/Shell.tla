-------------------------------- MODULE Shell --------------------------------
(***************************************************************************)
(* The job-control shell of Assignment 3 (wonderShell.c, the file its      *)
(* Makefile builds): the loop of main, redirections, pipelines, the list   *)
(* of jobs, the programs it starts and waits for, and the signals that the *)
(* terminal sends to all of them.                                          *)
(*                                                                         *)
(* The last command of a pipeline runs in a child that returns into the    *)
(* loop of main: it is a shell like its parent, which waits for it.  So    *)
(* the model has any number of shells.  A step is what happens between two *)
(* system calls that another process or the user can notice; a handler     *)
(* runs between two steps.  The kernel (fork, waitpid, kill, the terminal) *)
(* is modelled by what the shell uses of it.                               *)
(***************************************************************************)
EXTENDS Integers, FiniteSets, Sequences

CONSTANTS Commands,  \* what the user may type
          MaxPid,    \* bound: process IDs, after which fork fails
          MaxJobs    \* bound: the jobs that Ctrl-Z adds to a list

Pids == 1..MaxPid

Root == 1            \* shell_pid

Any == -1            \* waitpid(-1)

(* What descriptors 0 and 1 lead to: these, or a pipe, a positive number.  *)
Tty == 0
File == -1
Closed == -2

Pipes == 1..MaxPid

(* A command: what executeInbuild tells apart, a number, its redirections, *)
(* and the command before it in a pipeline.                                *)
Ops == {"none", "prog", "reader", "ls", "builtin", "jobs", "amp", "fg", "bg", "kill",
        "stop", "cont", "overkill", "quit"}

Cmds == [op : Ops, arg : Int, redir : {"none", "in", "out", "both"}, first : Ops]

ASSUME ShellAssumption ==
    Commands \subseteq Cmds /\ MaxPid \in Nat \ {0} /\ MaxJobs \in Nat

VARIABLES proc,      \* the processes
          sh,        \* the variables of those that are shells
          next       \* the next process ID

vars == <<proc, sh, next>>

NoProc == [st |-> "none", what |-> "none", parent |-> 0, reads |-> FALSE,
           in |-> Tty, out |-> Tty]

NoCommand == [op |-> "none", arg |-> 0, redir |-> "none", first |-> "none"]

NoShell == [pc |-> "none", cmd |-> NoCommand, stage |-> "only", left |-> 0,
            jobs |-> <<>>, Childpid |-> 0, waits |-> 0, pipe |-> 0,
            a |-> Tty, b |-> Tty]

(* main, before its loop *)
Init ==
    /\ proc = [p \in Pids |-> IF p = Root
                 THEN [NoProc EXCEPT !.st = "run", !.what = "shell"] ELSE NoProc]
    /\ sh = [p \in Pids |-> IF p = Root
                 THEN [NoShell EXCEPT !.pc = "prompt"] ELSE NoShell]
    /\ next = 2

-----------------------------------------------------------------------------
(* The kernel *)

Live == {p \in Pids : proc[p].st \in {"run", "stopped", "doomed"}}

Programs == {p \in Live : proc[p].what # "shell"}

Children(p) == {c \in Pids : proc[c].parent = p /\ proc[c].st # "none"}

Zombies(p) == {c \in Children(p) : proc[c].st = "zombie"}

(* What a process becomes when it ends: a zombie of its parent. *)
Ended(q) == IF q.parent = 0 THEN NoProc ELSE [q EXCEPT !.st = "zombie"]

(* A stopped process dies of a signal when it is continued, but for KILL.  *)
Hit(q, sig) ==
    CASE sig = "kill" /\ q.st \in {"run", "stopped", "doomed"} -> Ended(q)
      [] sig = "die" /\ q.st = "run" -> Ended(q)
      [] sig = "die" /\ q.st = "stopped" -> [q EXCEPT !.st = "doomed"]
      [] sig = "stop" /\ q.st = "run" -> [q EXCEPT !.st = "stopped"]
      [] sig = "cont" /\ q.st = "stopped" -> [q EXCEPT !.st = "run"]
      [] sig = "cont" /\ q.st = "doomed" -> Ended(q)
      [] OTHER -> q

Signal(S, sig) == [q \in Pids |-> IF q \in S THEN Hit(proc[q], sig) ELSE proc[q]]

(* The end of a shell; its children are handed to init. *)
Dies(p) ==
    /\ proc' = [q \in Pids |->
                  CASE q = p -> Ended(proc[p])
                    [] proc[q].parent = p /\ proc[q].st = "zombie" -> NoProc
                    [] proc[q].parent = p /\ proc[q].st # "zombie" ->
                         [proc[q] EXCEPT !.parent = 0]
                    [] OTHER -> proc[q]]
    /\ sh' = [sh EXCEPT ![p] = NoShell]
    /\ UNCHANGED next

Child(p, what, reads, out) ==
    [st |-> "run", what |-> what, parent |-> p, reads |-> reads,
     in |-> proc[p].in, out |-> out]

(* The write end of pipe k is open as long as somebody writes to it; who   *)
(* reads until end of file cannot end before.                              *)
Open(k) == \E q \in Live : proc[q].out = k

MayEnd(q) == ~(proc[q].reads /\ proc[q].in \in Pipes /\ Open(proc[q].in))

-----------------------------------------------------------------------------
(* main *)

At(p, s) == proc[p].st = "run" /\ sh[p].pc = s

Goto(p, s) == sh' = [sh EXCEPT ![p].pc = s]

ReadCommand(p, c) ==
    /\ At(p, "prompt")
    /\ c.op # "quit"
    /\ sh' = [sh EXCEPT ![p].cmd = c, ![p].a = proc[p].in, ![p].b = proc[p].out,
                        ![p].pc = IF c.first = "none" THEN "redirect" ELSE "pipe"]
    /\ UNCHANGED <<proc, next>>

Quit(p) ==
    /\ At(p, "prompt")
    /\ \E c \in Commands : c.op = "quit"
    /\ Dies(p)

(* update_job_status; the status of a process that is neither running,     *)
(* sleeping nor a zombie is a pointer that is not initialised.  No list    *)
(* ever holds one when it is printed or compared: see ForegroundDone.      *)
StatusOf(pid) ==
    CASE proc[pid].st = "run" -> {"Running", "Sleeping"}
      [] proc[pid].st = "zombie" -> {"Zombie"}
      [] OTHER -> {"junk"}

Known(jobs, k) == \A j \in 1..k : proc[jobs[j].pid].st # "none"

(* dup2 of what main has saved in a and b, which does nothing if there was *)
(* nothing to save.  (Mutation: of descriptor 0 only.)                     *)
RestoreIn(p) == [proc[p] EXCEPT !.in = IF sh[p].a = Closed THEN @ ELSE sh[p].a]

Restore(p) ==
    [proc[p] EXCEPT !.in = IF sh[p].a = Closed THEN @ ELSE sh[p].a, !.out = sh[p].b]

Update(p) ==
    /\ At(p, "update")
    /\ LET old == sh[p].jobs
       IN  \E status \in [DOMAIN old -> {"Running", "Sleeping", "Zombie", "Stopped", "junk"}] :
              /\ \A k \in DOMAIN old :
                    IF Known(old, k) THEN status[k] \in StatusOf(old[k].pid)
                    ELSE status[k] = old[k].status
              /\ sh' = [sh EXCEPT ![p] = [NoShell EXCEPT !.pc = "prompt",
                           !.jobs = [k \in DOMAIN old |->
                                       [pid |-> old[k].pid, status |-> status[k]]]]]
    /\ proc' = [proc EXCEPT ![p] = Restore(p)]
    /\ UNCHANGED next

-----------------------------------------------------------------------------
(* splitcommands: the next command of the same line, after a semicolon.    *)
NextCommand(p, c) ==
    /\ At(p, "update") /\ sh[p].cmd.first = "none"
    /\ c.op # "quit" /\ c.first = "none"
    /\ sh' = [sh EXCEPT ![p].cmd = c, ![p].stage = "only", ![p].pc = "redirect"]
    /\ UNCHANGED <<proc, next>>

(* pipe_split_command: in a line that has pipes, the next pipeline; what is*)
(* a single command between its semicolons is passed over.                 *)
NextPipeline(p, c) ==
    /\ At(p, "update") /\ sh[p].cmd.first # "none"
    /\ c.op # "quit" /\ c.first # "none"
    /\ sh' = [sh EXCEPT ![p].cmd = c, ![p].stage = "only", ![p].pc = "pipe"]
    /\ UNCHANGED <<proc, next>>

(* chkFile: inputFileFrom, which closes 0 before it takes the file, ...    *)
Inputs(p) ==
    IF sh[p].cmd.redir \notin {"in", "both"} THEN {proc[p].in}
    ELSE IF proc[p].in = Closed THEN {Closed} ELSE {File, Closed}

(* ... and outputFileAt, which executes the command if it has the file.    *)
(* chkFile executes it at its end, and without redirection before as well. *)
Redirect(p) ==
    /\ At(p, "redirect")
    /\ \E in \in Inputs(p) :
          \/ /\ sh[p].cmd.redir \in {"out", "both"}
             /\ sh' = [sh EXCEPT ![p].pc = "exec", ![p].left = 2]
             /\ proc' = [proc EXCEPT ![p].in = in, ![p].out = File]
          \/ /\ sh' = [sh EXCEPT ![p].pc = "exec",
                         ![p].left = IF sh[p].cmd.redir = "none" THEN 2 ELSE 1]
             /\ proc' = [proc EXCEPT ![p].in = in]
    /\ UNCHANGED next

(* The command that executeInbuild has before it. *)
Op(p) == IF sh[p].stage = "first" THEN sh[p].cmd.first ELSE sh[p].cmd.op

(* executeInbuild returns: once more, or on with main or the pipeline; the *)
(* terminal is opened again after output into a file.                      *)
Step(s) ==
    [s EXCEPT !.left = @ - 1, !.waits = 0,
              !.pc = CASE s.left > 1 -> "exec"
                       [] s.left = 1 /\ s.stage = "first" -> "pipe_last"
                       [] OTHER -> "update"]

After(q) == [q EXCEPT !.out = IF @ = File THEN Tty ELSE @]

Executed(p) ==
    /\ sh' = [sh EXCEPT ![p] = Step(@)]
    /\ proc' = [proc EXCEPT ![p] = After(@)]

-----------------------------------------------------------------------------
(* checkChild reaps any child; delete_job walks over the end of a list     *)
(* that has jobs but not this one.                                         *)
Listed(p) == {sh[p].jobs[k].pid : k \in DOMAIN sh[p].jobs}

CheckChild(p) ==
    /\ At(p, "exec")
    /\ Zombies(p) = {}
    /\ Goto(p, "run")
    /\ UNCHANGED <<proc, next>>

(* (Mutation: the test for the empty list is missing.) *)
DeleteFailsEmpty(p, c) == c \notin Listed(p)

DeleteFails(p, c) == sh[p].jobs # <<>> /\ c \notin Listed(p)

FirstJob(p, c) == CHOOSE k \in DOMAIN sh[p].jobs :
    /\ sh[p].jobs[k].pid = c
    /\ \A j \in 1..(k - 1) : sh[p].jobs[j].pid # c

DeleteJob(p, c) ==
    LET jobs == sh[p].jobs
    IN  IF jobs = <<>> THEN jobs
        ELSE [j \in 1..(Len(jobs) - 1) |->
                IF j < FirstJob(p, c) THEN jobs[j] ELSE jobs[j + 1]]

Reap(p) ==
    /\ At(p, "exec")
    /\ \E c \in Zombies(p) :
          \/ /\ ~DeleteFails(p, c)
             /\ sh' = [sh EXCEPT ![p].pc = "run", ![p].jobs = DeleteJob(p, c)]
             /\ proc' = [proc EXCEPT ![c] = NoProc]
             /\ UNCHANGED next
          \/ DeleteFails(p, c) /\ Dies(p)

-----------------------------------------------------------------------------
(* executeInbuild: what changes nothing the model has. *)
Builtin(p) ==
    /\ At(p, "run")
    /\ Op(p) \in {"ls", "builtin", "jobs"}
    /\ Executed(p)
    /\ UNCHANGED next

(* foreGroundProcess: fork, Childpid, waitpid until the program has ended. *)
ForkProgram(p) ==
    /\ At(p, "run")
    /\ Op(p) \in {"prog", "reader"}
    /\ \/ /\ next <= MaxPid
          /\ proc' = [proc EXCEPT ![next] = Child(p, "fg", Op(p) = "reader", proc[p].out)]
          /\ sh' = [sh EXCEPT ![p].pc = "forked", ![p].waits = next]
          /\ next' = next + 1
       \/ /\ next > MaxPid
          /\ Executed(p)
          /\ UNCHANGED next

SetChildpid(p) ==
    /\ At(p, "forked")
    /\ sh' = [sh EXCEPT ![p].Childpid = sh[p].waits, ![p].pc = "wait"]
    /\ UNCHANGED <<proc, next>>

Awaited(p) == {c \in Children(p) : sh[p].waits \in {c, Any}}

(* (Mutation: the status is not looked at, and a stop ends the wait.) *)
WaitedUntraced(p) ==
    /\ At(p, "wait")
    /\ \E c \in Awaited(p) :
          /\ proc[c].st \in {"stopped", "zombie"}
          /\ proc' = [proc EXCEPT ![p] = After(@),
                        ![c] = IF @.st = "zombie" THEN NoProc ELSE @]
          /\ sh' = [sh EXCEPT ![p] = Step(@)]
    /\ UNCHANGED next

Waited(p) ==
    /\ At(p, "wait")
    /\ \E c \in Awaited(p) \cap Zombies(p) :
          /\ proc' = [proc EXCEPT ![p] = After(@), ![c] = NoProc]
          /\ sh' = [sh EXCEPT ![p] = Step(@)]
    /\ UNCHANGED next

(* fg: the same loop, for any number; it may not end if there is no such   *)
(* child, for status is not initialised.                                   *)
Fg(p) ==
    /\ At(p, "run") /\ Op(p) = "fg"
    /\ sh' = [sh EXCEPT ![p].pc = "wait", ![p].waits = sh[p].cmd.arg]
    /\ UNCHANGED <<proc, next>>

WaitFails(p) ==
    /\ At(p, "wait")
    /\ Awaited(p) = {}
    /\ Executed(p)
    /\ UNCHANGED next

-----------------------------------------------------------------------------
(* backGroundProcess overwrites the & with NULL; the second execution of   *)
(* the command looks there for it again.                                   *)
Started(p, pid) ==
    \E status \in {"Running", "Sleeping", "Zombie", "junk"} :
        sh' = [sh EXCEPT ![p] = Step([sh[p] EXCEPT !.Childpid = pid,
                  !.jobs = Append(@, [pid |-> pid, status |-> status])])]

BackgroundUnchecked(p) ==    \* a mutation: a fork that failed is listed as well
    /\ At(p, "run") /\ Op(p) = "amp" /\ sh[p].left = 2
    /\ \/ /\ next <= MaxPid
          /\ proc' = [proc EXCEPT ![next] = Child(p, "bg", FALSE, proc[p].out)]
          /\ Started(p, next)
          /\ next' = next + 1
       \/ /\ next > MaxPid
          /\ Started(p, -1)
          /\ UNCHANGED <<proc, next>>

Background(p) ==
    /\ At(p, "run") /\ Op(p) = "amp" /\ sh[p].left = 2
    /\ \/ /\ next <= MaxPid
          /\ proc' = [proc EXCEPT ![next] = Child(p, "bg", FALSE, proc[p].out)]
          /\ Started(p, next)
          /\ next' = next + 1
       \/ /\ next > MaxPid
          /\ Executed(p)
          /\ UNCHANGED next

BackgroundAgain(p) ==
    /\ At(p, "run") /\ Op(p) = "amp" /\ sh[p].left = 1
    /\ Dies(p)

-----------------------------------------------------------------------------
(* bg n: get_job_pid finds the first for 1, the one after the n-th, none   *)
(* (-1), or goes over the end of a list of exactly n jobs.                 *)
GetJobFails(p, n) == n > 1 /\ n = Len(sh[p].jobs)

GetJobPid(p, n) ==
    LET jobs == sh[p].jobs
    IN  CASE jobs = <<>> -> 0
          [] n = 1 /\ jobs # <<>> -> jobs[1].pid
          [] n > 1 /\ n < Len(jobs) -> jobs[n + 1].pid
          [] OTHER -> -1

(* search_job and change_to_running look at the first and the last job,    *)
(* is_job_running at the status of the first.                              *)
Wakes(p, pid) ==
    LET jobs == sh[p].jobs
    IN  /\ jobs # <<>>
        /\ pid \in {jobs[1].pid, jobs[Len(jobs)].pid}
        /\ jobs[1].status # "Running"

Bg(p) ==
    /\ At(p, "run") /\ Op(p) = "bg"
    /\ \/ /\ GetJobFails(p, sh[p].cmd.arg)
          /\ Dies(p)
       \/ /\ ~GetJobFails(p, sh[p].cmd.arg)
          /\ LET pid == GetJobPid(p, sh[p].cmd.arg)
             IN  \/ /\ Wakes(p, pid)
                    /\ sh' = [sh EXCEPT ![p] = Step([sh[p] EXCEPT !.jobs[1].status = "Stopped"])]
                    /\ proc' = [Signal({pid}, "cont") EXCEPT ![p] = After(@)]
                 \/ /\ ~Wakes(p, pid)
                    /\ Executed(p)
          /\ UNCHANGED next

(* kjob and overkill *)
Kjob(p) ==
    /\ At(p, "run") /\ Op(p) \in {"kill", "stop", "cont"}
    /\ proc' = [Signal({sh[p].cmd.arg} \cap Programs, Op(p)) EXCEPT ![p] = After(@)]
    /\ sh' = [sh EXCEPT ![p] = Step(@)]
    /\ UNCHANGED next

OverKill(p) ==
    /\ At(p, "run") /\ Op(p) = "overkill"
    /\ proc' = [Signal(Listed(p), "die") EXCEPT ![p] = After(@)]
    /\ sh' = [sh EXCEPT ![p] = Step(@)]
    /\ UNCHANGED next

-----------------------------------------------------------------------------
(* fork_pipes and executeCommand, for two commands.  chkInpt says that ls  *)
(* is built in; for another name it returns no value, which may be the     *)
(* same as 1.                                                              *)
PipeForked(p) ==
    /\ At(p, "pipe")
    /\ sh[p].cmd.first # "ls"
    /\ \/ /\ next <= MaxPid
          /\ proc' = [proc EXCEPT ![next] = Child(p, "stage", FALSE, next)]
          /\ sh' = [sh EXCEPT ![p].pc = "pipe_last", ![p].pipe = next]
          /\ next' = next + 1
       \/ /\ next > MaxPid
          /\ sh' = [sh EXCEPT ![p].pc = "pipe_last", ![p].pipe = next - 1]
          /\ UNCHANGED <<proc, next>>

(* The shell itself writes into the pipe, and keeps it as its output. *)
PipeInShell(p) ==
    /\ At(p, "pipe")
    /\ LET k == IF next <= MaxPid THEN next ELSE next - 1
       IN  /\ proc' = [proc EXCEPT ![p].out = k]
           /\ sh' = [sh EXCEPT ![p].pc = "exec", ![p].stage = "first",
                               ![p].left = 2, ![p].pipe = k]
    /\ UNCHANGED next

(* The child becomes a shell of its own; without one, waitpid(-1). *)
PipeLast(p) ==
    /\ At(p, "pipe_last")
    /\ \/ /\ next <= MaxPid
          /\ proc' = [proc EXCEPT ![p].in = sh[p].pipe,
                        ![next] = [Child(p, "shell", FALSE, proc[p].out)
                                     EXCEPT !.in = sh[p].pipe]]
          /\ sh' = [sh EXCEPT ![p].pc = "wait_last", ![p].waits = next, ![p].stage = "last",
                              ![next] = [sh[p] EXCEPT !.pc = "redirect", !.stage = "last"]]
          /\ next' = next + 1
       \/ /\ next > MaxPid
          /\ proc' = [proc EXCEPT ![p].in = sh[p].pipe]
          /\ sh' = [sh EXCEPT ![p].pc = "wait_last", ![p].waits = Any, ![p].stage = "last"]
          /\ UNCHANGED next

(* (Mutation: it waits for any child, like checkChild.) *)
WaitLastAny(p) ==
    /\ At(p, "wait_last")
    /\ \E c \in Zombies(p) : proc' = [proc EXCEPT ![c] = NoProc]
    /\ Goto(p, "update")
    /\ UNCHANGED next

WaitLast(p) ==
    /\ At(p, "wait_last")
    /\ \/ \E c \in Awaited(p) \cap Zombies(p) : proc' = [proc EXCEPT ![c] = NoProc]
       \/ Awaited(p) = {} /\ UNCHANGED proc
    /\ Goto(p, "update")
    /\ UNCHANGED next

-----------------------------------------------------------------------------
(* The terminal and the programs.  Everybody is in one process group: the  *)
(* programs get the signal themselves, the shells have handlers, which do  *)
(* nothing in any shell but the first.                                     *)
CtrlC ==
    /\ proc[Root].st = "run"
    /\ \E q \in Programs : Hit(proc[q], "die") # proc[q]
    /\ proc' = Signal(Programs, "die")
    /\ UNCHANGED <<sh, next>>

CtrlZ ==
    /\ proc[Root].st = "run"
    /\ Len(sh[Root].jobs) < MaxJobs
    /\ proc' = Signal(Programs, "stop")
    /\ sh' = IF sh[Root].Childpid \in {0, Root} THEN sh
             ELSE [sh EXCEPT ![Root].jobs =
                     Append(@, [pid |-> sh[Root].Childpid, status |-> "Stopped"])]
    /\ UNCHANGED next

Exits(q) ==
    /\ q \in Programs /\ proc[q].st = "run"
    /\ MayEnd(q)
    /\ proc' = [proc EXCEPT ![q] = Ended(@)]
    /\ UNCHANGED <<sh, next>>

(* Somebody else continues a program. *)
Continued(q) ==
    /\ q \in Programs /\ proc[q].st \in {"stopped", "doomed"}
    /\ proc' = Signal({q}, "cont")
    /\ UNCHANGED <<sh, next>>

Over ==
    /\ Root \notin Live
    /\ UNCHANGED vars

-----------------------------------------------------------------------------
Main(p) ==
    \/ \E c \in Commands : ReadCommand(p, c) \/ NextCommand(p, c) \/ NextPipeline(p, c)
    \/ Quit(p)
    \/ Update(p)

ChkFile(p) == Redirect(p) \/ CheckChild(p) \/ Reap(p)

ForeGroundProcess(p) == ForkProgram(p) \/ SetChildpid(p) \/ Waited(p) \/ Fg(p) \/ WaitFails(p)

BackGroundProcess(p) == Background(p) \/ BackgroundAgain(p)

ExecuteInbuild(p) == Builtin(p) \/ Bg(p) \/ Kjob(p) \/ OverKill(p)

ForkPipes(p) == PipeForked(p) \/ PipeInShell(p) \/ PipeLast(p) \/ WaitLast(p)

Next ==
    \/ \E p \in Pids :
          \/ Main(p) \/ ChkFile(p) \/ ForeGroundProcess(p) \/ BackGroundProcess(p)
          \/ ExecuteInbuild(p) \/ ForkPipes(p)
    \/ CtrlC
    \/ CtrlZ
    \/ \E q \in Pids : Exits(q) \/ Continued(q)
    \/ Over

Spec == Init /\ [][Next]_vars

-----------------------------------------------------------------------------
(* Properties *)

Shells == {p \in Live : proc[p].what = "shell"}

(* Types of what the shell keeps. *)
TypeOK ==
    /\ next \in 2..(MaxPid + 1)
    /\ \A p \in Pids :
          /\ proc[p].st \in {"none", "run", "stopped", "doomed", "zombie"}
          /\ proc[p].what \in {"none", "shell", "fg", "bg", "stage"}
          /\ proc[p].parent \in 0..MaxPid
          /\ proc[p].in \in Pipes \cup {Tty, File, Closed}
          /\ proc[p].out \in Pipes \cup {Tty, File}
          /\ sh[p].left \in 0..2
          /\ Len(sh[p].jobs) <= MaxJobs + 1
          /\ Listed(p) \subseteq Pids
          /\ sh[p].pc # "none" <=> p \in Shells

(* However deep pipelines have nested shells and whatever signals come,    *)
(* at most one shell reads the terminal and runs commands: all others wait *)
(* for the child of their pipeline, and none is left without a parent.     *)
OneReader ==
    /\ Cardinality({p \in Shells : sh[p].pc # "wait_last"}) <= 1
    /\ Root \in Live \/ Shells = {}

(* Every redirection and every pipeline, failed or not, is undone when the *)
(* shell prompts again: it reads from the terminal and writes to it.       *)
TerminalAtPrompt ==
    \A p \in Shells : sh[p].pc = "prompt" => proc[p].in = Tty /\ proc[p].out = Tty

(* A shell prompts only after its foreground programs have ended and are   *)
(* reaped, also those that were stopped and continued meanwhile; so the    *)
(* jobs in its list, which Ctrl-Z put there, have ended as well.           *)
ForegroundDone ==
    \A p \in Shells : sh[p].pc = "prompt" =>
        /\ \A c \in Children(p) : proc[c].what \notin {"fg", "shell"}
        /\ \A c \in Listed(p) : proc[c].st = "none"

(* Without jobs in the list nothing makes a shell die but quit and the &:  *)
(* the children of pipelines that checkChild reaps are no jobs.            *)
DiesOfJobsOnly ==
    [][\A p \in Shells :
          sh[p].jobs = <<>> /\ Op(p) # "amp" /\ ~Quit(p) => p \in Shells']_vars

(* readme.md promises that & lets a program run in the background.         *)
AmpersandReturns ==
    [][\A p \in Shells : sh[p].cmd.op = "amp" => p \in Shells']_vars
-----------------------------------------------------------------------------
(* What the properties rest on: the types of all variables,                *)
Codes == {"none", "prompt", "redirect", "exec", "run", "forked", "wait", "update",
          "pipe", "pipe_last", "wait_last"}

Processes ==
    [st : {"none", "run", "stopped", "doomed", "zombie"},
     what : {"none", "shell", "fg", "bg", "stage"}, parent : 0..MaxPid, reads : BOOLEAN,
     in : Pipes \cup {Tty, File, Closed}, out : Pipes \cup {Tty, File}]

Jobs == [pid : Pids, status : {"Running", "Sleeping", "Zombie", "Stopped", "junk"}]

ShellStates ==
    [pc : Codes, cmd : Cmds, stage : {"only", "first", "last"}, left : 0..2,
     jobs : Seq(Jobs), Childpid : 0..MaxPid, waits : Int, pipe : 0..MaxPid,
     a : {Tty}, b : {Tty}]

ShellTypes ==
    /\ next \in 2..(MaxPid + 1)
    /\ proc \in [Pids -> Processes]
    /\ sh \in [Pids -> ShellStates]
    /\ \A p \in Pids : IF p \in Shells THEN sh[p].pc # "none" ELSE sh[p] = NoShell
    /\ \A p \in Pids : proc[p].parent < p /\ (p >= next => proc[p].st = "none")

(* that the shells are a chain, each the parent of the next one and waiting*)
(* for it, but for the last,                                               *)
IsTail(p) == sh[p].pc # "wait_last" \/ sh[p].waits \notin Shells

WaitedFor(q) ==
    LET p == proc[q].parent
    IN  /\ p \in Shells /\ sh[p].pc = "wait_last" /\ sh[p].waits = q
        /\ \A s \in Shells : s <= p \/ q <= s

Chain ==
    /\ \A q \in Pids : proc[q].st # "none" /\ proc[q].what = "shell" /\ q # Root => WaitedFor(q)
    /\ \A p \in Shells : ~IsTail(p) => proc[sh[p].waits].parent = p
    /\ \A p, s \in Shells : IsTail(p) => s <= p
    /\ Shells # {} => Root \in Shells

(* and what each shell has got at its place in the loop: descriptors, a    *)
(* program in the foreground, jobs.                                        *)
Again(p) == Op(p) = "amp" /\ sh[p].left = 1 /\ sh[p].pc \in {"exec", "run"}

JobFits(p, c) ==
    /\ c < next
    /\ proc[c].what # "shell"
    /\ proc[c].st = "none" \/ (proc[c].what = "fg" /\ proc[c].parent = p) \/ Again(p)

ShellFits(p) ==
    /\ sh[p].pc = "prompt" => proc[p].in = Tty /\ proc[p].out = Tty
    /\ sh[p].pc \in {"exec", "run", "forked", "wait"} => sh[p].left > 0
    /\ sh[p].pc = "pipe_last" \/ sh[p].stage = "first" => sh[p].pipe > 0
    /\ \A c \in Children(p) :
          proc[c].what = "fg" => sh[p].pc \in {"forked", "wait"} /\ sh[p].waits = c
    /\ sh[p].pc = "forked" => sh[p].waits \in Children(p) /\ proc[sh[p].waits].what = "fg"
    /\ sh[p].pc = "wait_last" => sh[p].waits < next
    /\ Len(sh[p].jobs) <= MaxJobs + 1
    /\ Again(p) \/ Len(sh[p].jobs) <= MaxJobs
    /\ \A c \in Listed(p) \cup ({sh[p].Childpid} \ {0}) : JobFits(p, c)

ShellInv ==
    /\ ShellTypes
    /\ Chain
    /\ \A p \in Shells : ShellFits(p)
=============================================================================

----------------------------- MODULE FirstShell -----------------------------
(***************************************************************************)
(* The first shell (Assignment2/wonderShell/wonderShell.c): one reminder,  *)
(* looked at when a line has been read; `clock -t`, which SIGINT ends; and *)
(* child processes, in the foreground or not.  The builtins that only print*)
(* are "other".  The clock may be set by hand.                             *)
(***************************************************************************)
EXTENDS Integers, Sequences, FiniteSets

CONSTANTS Pids,
          Lines,    \* what is typed: sequences of commands, or "exit"
          Waits, Texts,  \* the arguments of remindme
          MaxTime,  \* of the clock
          MaxReminders,  \* a bound on history
          None

VARIABLES pc, todo,         \* todo: the commands of the line that are left
          now,              \* time(NULL)
          timeVLD, timSt, waitFor, msg,   \* the reminder; msg is what strcat joins
          loopflg, handler, \* handler: is eleminate installed?
          child, fg,        \* child[pid]: none, running, zombie; fg: waited for
          set, printed,     \* history: the reminders set and printed
          last              \* history: how the last one was printed

fvars == <<pc, todo, now, timeVLD, timSt, waitFor, msg, loopflg, handler, child,
           fg, set, printed, last>>
alarm == <<timeVLD, timSt, waitFor, msg, set, printed, last>>
clock == <<loopflg, handler>>
kids == <<child, fg>>

Init ==
    /\ pc = "read" /\ todo = <<>> /\ now \in 0..MaxTime
    /\ timeVLD = 0 /\ timSt = 0 /\ waitFor = 0 /\ msg = <<>>
    /\ loopflg = 1 /\ handler = FALSE
    /\ child = [p \in Pids |-> "none"] /\ fg = None
    /\ set = <<>> /\ printed = <<>> /\ last = None

-----------------------------------------------------------------------------
(* main, splitcommands *)

Read ==
    /\ pc = "read"
    /\ \E line \in Lines : todo' = line
    /\ pc' = "alarm"
    /\ UNCHANGED <<now, alarm, clock, kids>>

(* chkAlarm without strcpy(msg, ""): a mutation. *)
PrintsAndKeeps(how) ==
    /\ timeVLD' = 0 /\ UNCHANGED msg
    /\ printed' = Append(printed, msg)
    /\ last' = [how |-> how, after |-> now - timSt, wait |-> waitFor]

Prints(how) ==
    /\ timeVLD' = 0 /\ msg' = <<>>
    /\ printed' = Append(printed, msg)
    /\ last' = [how |-> how, after |-> now - timSt, wait |-> waitFor]

ChkAlarm ==
    /\ pc = "alarm"
    /\ LET diff == now - timSt
       IN  CASE timeVLD = 1 /\ diff >= waitFor -> Prints("reminder")
             [] timeVLD = 1 /\ diff < waitFor /\ diff < 0 -> Prints("failed")
             [] OTHER -> UNCHANGED <<timeVLD, msg, printed, last>>
    /\ pc' = IF todo = <<"exit">> THEN "exited" ELSE "next"
    /\ UNCHANGED <<todo, now, timSt, waitFor, set, clock, kids>>

LineDone ==
    /\ pc = "next" /\ todo = <<>>
    /\ pc' = "read"
    /\ UNCHANGED <<todo, now, alarm, clock, kids>>

(* executeInbuild begins with checkChild: waitpid(-1, WNOHANG). *)
Zombies == {p \in Pids : child[p] = "zombie"}

Reaped == IF Zombies = {} THEN {child}
          ELSE {[child EXCEPT ![p] = "none"] : p \in Zombies}

Command(cmd) ==
    /\ pc = "next" /\ todo # <<>> /\ Head(todo) = cmd
    /\ todo' = Tail(todo)

SetAlarm ==
    /\ Command("remindme") /\ (timeVLD = 1 \/ Len(set) < MaxReminders)
    /\ child' \in Reaped
    /\ IF timeVLD = 1 THEN UNCHANGED alarm
       ELSE \E w \in Waits, t \in Texts :
               /\ timeVLD' = 1 /\ waitFor' = w /\ timSt' = now
               /\ msg' = Append(msg, t)
               /\ set' = Append(set, t)
               /\ UNCHANGED <<printed, last>>
    /\ UNCHANGED <<pc, now, clock, fg>>

Other ==
    /\ Command("other")
    /\ child' \in Reaped
    /\ UNCHANGED <<pc, now, alarm, clock, fg>>

(* fork may fail; a pid that has been reaped may come again. *)
Forks(cmd, t) ==
    /\ Command(cmd)
    /\ \E c \in Reaped :
          \/ child' = c /\ UNCHANGED <<pc, fg>>
          \/ \E p \in Pids :
                /\ c[p] = "none"
                /\ child' = [c EXCEPT ![p] = "running"]
                /\ pc' = t
                /\ fg' = IF t = "waiting" THEN p ELSE fg
    /\ UNCHANGED <<now, alarm, clock>>

BackGroundProcess == Forks("background", "next")
ForeGroundProcess == Forks("foreground", "waiting")

(* waitpid for this child until it has exited or was killed. *)
WaitForeground ==
    /\ pc = "waiting" /\ child[fg] = "zombie"
    /\ child' = [child EXCEPT ![fg] = "none"] /\ fg' = None
    /\ pc' = "next"
    /\ UNCHANGED <<todo, now, alarm, clock>>

(* clock -t installs the handler and turns until loopflg is 0. *)
ClkCmd ==
    /\ Command("clock")
    /\ child' \in Reaped
    /\ handler' = TRUE /\ pc' = "clock"
    /\ UNCHANGED <<now, alarm, loopflg, fg>>

ClkEnds ==
    /\ pc = "clock" /\ loopflg = 0
    /\ loopflg' = 1 /\ pc' = "next"
    /\ UNCHANGED <<todo, now, alarm, handler, kids>>

-----------------------------------------------------------------------------
(* Outside *)

Alive == pc \notin {"exited", "killed"}

(* SIGINT goes to the shell and to all its children. *)
Interrupt ==
    /\ Alive
    /\ IF handler THEN loopflg' = 0 /\ UNCHANGED pc
                  ELSE pc' = "killed" /\ UNCHANGED loopflg
    /\ \E S \in SUBSET {p \in Pids : child[p] = "running"} :
          child' = [p \in Pids |-> IF p \in S THEN "zombie" ELSE child[p]]
    /\ UNCHANGED <<todo, now, alarm, handler, fg>>

ChildExits(p) ==
    /\ Alive /\ child[p] = "running"
    /\ child' = [child EXCEPT ![p] = "zombie"]
    /\ UNCHANGED <<pc, todo, now, alarm, clock, fg>>

(* Time passes, or somebody sets the clock. *)
Time ==
    /\ Alive
    /\ now' \in 0..MaxTime
    /\ UNCHANGED <<pc, todo, alarm, clock, kids>>

Next ==
    \/ Read \/ ChkAlarm \/ LineDone \/ SetAlarm \/ Other
    \/ BackGroundProcess \/ ForeGroundProcess \/ WaitForeground
    \/ ClkCmd \/ ClkEnds \/ Interrupt \/ Time
    \/ \E p \in Pids : ChildExits(p)

-----------------------------------------------------------------------------
(* A reminder that was set is printed once, with its own text and nothing  *)
(* of an earlier one, not before its time unless somebody sets the clock   *)
(* back; and one that is refused is never printed.                         *)
RemindedOnce ==
    /\ Len(set) = Len(printed) + timeVLD
    /\ \A k \in 1..Len(printed) : printed[k] = <<set[k]>>
    /\ last # None => \/ last.how = "reminder" /\ last.after >= last.wait
                      \/ last.how = "failed" /\ last.after < 0
=============================================================================

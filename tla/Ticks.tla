-------------------------------- MODULE Ticks --------------------------------
(***************************************************************************)
(* sys_sleep of sysproc.c.  A section under tickslock is one step; sleep   *)
(* gives the lock up.  The timer interrupt counts and wakes all sleepers;  *)
(* kill takes no tickslock (trap.c and proc.c are not in the repository).  *)
(***************************************************************************)
EXTENDS Integers

CONSTANTS Procs, W,  \* ticks is unsigned: modulo W
          Naps,      \* the arguments: of type int
          MaxTicks   \* of the timer

VARIABLES ticks,          \* the counter, of type uint
          count,          \* history: the interrupts so far
          pc,             \* user, test, sleep, asleep, ok, failed
          n, ticks0,      \* of each process
          since,          \* history: count at the call
          killed

tvars == <<ticks, count, pc, n, ticks0, since, killed>>

Init ==
    /\ ticks \in {0, W - 1} /\ count = 0
    /\ pc = [p \in Procs |-> "user"]
    /\ n \in [Procs -> Naps]
    /\ ticks0 = [p \in Procs |-> 0]
    /\ since = [p \in Procs |-> 0]
    /\ killed = [p \in Procs |-> FALSE]

Goto(p, s) == pc' = [pc EXCEPT ![p] = s]

Sleep(p) ==
    /\ pc[p] = "user"
    /\ ticks0' = [ticks0 EXCEPT ![p] = ticks]
    /\ since' = [since EXCEPT ![p] = count]
    /\ Goto(p, "test")
    /\ UNCHANGED <<ticks, count, n, killed>>

(* ticks - ticks0 < n as signed numbers: a mutation. *)
DueSigned(p) == (ticks - ticks0[p]) >= n[p]

(* ticks - ticks0 < n makes n unsigned. *)
Due(p) == (ticks - ticks0[p]) % W >= n[p] % W

(* The test of the loop, and the test of killed under the same lock. *)
Test(p) ==
    /\ pc[p] = "test"
    /\ Goto(p, IF Due(p) THEN "ok" ELSE IF killed[p] THEN "failed" ELSE "sleep")
    /\ UNCHANGED <<ticks, count, n, ticks0, since, killed>>

(* sleep: still under tickslock, so no tick comes in between, but kill may.*)
FallAsleep(p) ==
    /\ pc[p] = "sleep"
    /\ Goto(p, "asleep")
    /\ UNCHANGED <<ticks, count, n, ticks0, since, killed>>

Tick ==
    /\ count < MaxTicks
    /\ \A p \in Procs : pc[p] # "sleep"
    /\ ticks' = (ticks + 1) % W
    /\ count' = count + 1
    /\ pc' = [p \in Procs |-> IF pc[p] = "asleep" THEN "test" ELSE pc[p]]
    /\ UNCHANGED <<n, ticks0, since, killed>>

Kill(p) ==
    /\ ~killed[p]
    /\ killed' = [killed EXCEPT ![p] = TRUE]
    /\ Goto(p, IF pc[p] = "asleep" THEN "test" ELSE pc[p])
    /\ UNCHANGED <<ticks, count, n, ticks0, since>>

Over == count = MaxTicks /\ UNCHANGED tvars

Next ==
    \/ \E p \in Procs : Sleep(p) \/ Test(p) \/ FallAsleep(p) \/ Kill(p)
    \/ Tick \/ Over

-----------------------------------------------------------------------------
(* sleep returns 0 only after n ticks, although the counter wraps and the  *)
(* process may run again long after it was woken; a negative n counts as   *)
(* what it is as an unsigned number.  It fails only for a kill.  And nobody*)
(* sleeps whose time has come.                                             *)
SleepSound ==
    \A p \in Procs :
        /\ pc[p] = "ok" => count - since[p] >= n[p] % W
        /\ pc[p] = "failed" => killed[p]
        /\ pc[p] = "asleep" => ~Due(p)
=============================================================================

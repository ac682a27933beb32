------------------------------- MODULE SleepLock -------------------------------
(***************************************************************************)
(* The sleep locks of xv6 (sleeplock.c), for the modules whose processes   *)
(* take them.  Each function holds lk->lk from its first to its last line, *)
(* except inside sleep, which gives it up and sleeps in one step: a turn   *)
(* of acquiresleep's loop is one step, and so is releasesleep.             *)
(***************************************************************************)
CONSTANTS Procs,  \* the processes
          Locks,  \* the sleep locks
          NoProc, \* lk->pid == 0
          NoLock  \* a process that sleeps on nothing

VARIABLES locked, \* lk->locked
          lockpid, \* lk->pid
          asleep   \* the lock each process sleeps on

sleeplocks == <<locked, lockpid, asleep>>

(* initsleeplock *)
InitSleepLocks ==
    /\ locked = [k \in Locks |-> FALSE]
    /\ lockpid = [k \in Locks |-> NoProc]
    /\ asleep = [p \in Procs |-> NoLock]

(* acquiresleep finds the lock free and takes it, or sleeps. *)
Takes(p, k) ==
    /\ asleep[p] = NoLock
    /\ ~locked[k]
    /\ locked' = [locked EXCEPT ![k] = TRUE]
    /\ lockpid' = [lockpid EXCEPT ![k] = p]
    /\ UNCHANGED asleep

SleepsOn(p, k) ==
    /\ asleep[p] = NoLock
    /\ locked[k]
    /\ asleep' = [asleep EXCEPT ![p] = k]
    /\ UNCHANGED <<locked, lockpid>>

(* wakeup(lk): every process that sleeps on it tries again. *)
Wakeup(k) == asleep' = [p \in Procs |-> IF asleep[p] = k THEN NoLock ELSE asleep[p]]

(* releasesleep that wakes nobody: a mutation. *)
ReleasesQuietly(k) ==
    /\ locked' = [locked EXCEPT ![k] = FALSE]
    /\ lockpid' = [lockpid EXCEPT ![k] = NoProc]
    /\ UNCHANGED asleep

Releases(k) ==
    /\ locked' = [locked EXCEPT ![k] = FALSE]
    /\ lockpid' = [lockpid EXCEPT ![k] = NoProc]
    /\ Wakeup(k)

(* holdingsleep *)
HoldingSleep(p, k) == locked[k] /\ lockpid[k] = p

SleepLockTypes ==
    /\ locked \in [Locks -> BOOLEAN]
    /\ lockpid \in [Locks -> Procs \cup {NoProc}]
    /\ asleep \in [Procs -> Locks \cup {NoLock}]
=============================================================================

------------------------------- MODULE Spinlock -------------------------------
(***************************************************************************)
(* The spin locks of xv6 (spinlock.c): acquire, release, holding, pushcli  *)
(* and popcli, run by the CPUs of the machine and by the interrupt handler *)
(* that may suspend the code of a CPU whenever its interrupt flag is set.  *)
(*                                                                         *)
(* A step is one access to memory that another CPU or a handler can see:   *)
(* the read of eflags, cli with the counters it protects, the two reads of *)
(* holding, xchg, the write of lk->cpu, and so on.  What runs between cli  *)
(* and sti and touches only the CPU's own struct is one step.              *)
(*                                                                         *)
(* The callers are not in spinlock.c.  They keep the order of xv6: code    *)
(* acquires locks in ascending order and releases those it holds, in any   *)
(* order, and an interrupt handler returns when it holds none.             *)
(***************************************************************************)
EXTENDS Integers, FiniteSets

CONSTANTS Cpus,   \* the CPUs
          Locks,  \* the locks, numbers in the order code acquires them
          NoLock, \* no lock: the code of a level is outside acquire and release
          NoCpu   \* lk->cpu == 0

ASSUME SpinlockAssumption ==
    /\ Locks \subseteq Nat
    /\ IsFiniteSet(Locks)
    /\ NoLock \notin Locks
    /\ NoCpu \notin Cpus

(* What runs on a CPU: a process (or the scheduler), or the handler that   *)
(* interrupted it.  A handler is entered through an interrupt gate, which  *)
(* clears the flag; InterruptsRestored says that nothing the handler calls *)
(* sets it again, so a handler is never interrupted itself.                *)
Levels == {"proc", "irq"}

VARIABLES locked,   \* lk->locked
          owner,    \* lk->cpu
          ncli,     \* mycpu()->ncli
          intena,   \* mycpu()->intena
          flag,     \* FL_IF in eflags of each CPU
          level,    \* the level that runs on each CPU
          pc,       \* where the code of a level stands
          arg,      \* the lock it called acquire or release with
          eflags,   \* pushcli's local copy of FL_IF
          held,     \* the locks its calls of acquire returned with
          outer     \* history: FL_IF of the CPU when no lock is involved

vars == <<locked, owner, ncli, intena, flag, level, pc, arg, eflags, held, outer>>

Init ==
    /\ locked = [k \in Locks |-> FALSE]
    /\ owner = [k \in Locks |-> NoCpu]
    /\ ncli = [c \in Cpus |-> 0]
    /\ outer \in [Cpus -> BOOLEAN]
    /\ flag = outer
    /\ intena = [c \in Cpus |-> FALSE]
    /\ level = [c \in Cpus |-> "proc"]
    /\ pc = [c \in Cpus |-> [l \in Levels |-> "idle"]]
    /\ arg = [c \in Cpus |-> [l \in Levels |-> NoLock]]
    /\ eflags = [c \in Cpus |-> [l \in Levels |-> FALSE]]
    /\ held = [c \in Cpus |-> [l \in Levels |-> {}]]

-----------------------------------------------------------------------------
(* The code of level l stands at s and is what runs on CPU c. *)
At(c, l, s) == level[c] = l /\ pc[c][l] = s

Goto(c, l, s) == pc' = [pc EXCEPT ![c][l] = s]

Return(c, l) == Goto(c, l, "idle") /\ arg' = [arg EXCEPT ![c][l] = NoLock]

(* From cli on, pushcli: f is the copy of the flag it took before.         *)
Pushcli(c, f) ==
    /\ flag' = [flag EXCEPT ![c] = FALSE]
    /\ intena' = IF ncli[c] = 0 THEN [intena EXCEPT ![c] = f] ELSE intena
    /\ ncli' = [ncli EXCEPT ![c] = @ + 1]

(* popcli; PopcliPanics tells when it panics instead. *)
PopcliPanics(c) == flag[c] \/ ncli[c] < 1

Popcli(c) ==
    /\ ncli' = [ncli EXCEPT ![c] = @ - 1]
    /\ flag' = [flag EXCEPT ![c] = @ \/ (ncli[c] = 1 /\ intena[c])]
    /\ UNCHANGED intena

(* An interrupt arrives, and the handler returns from it. *)
Interrupt(c) ==
    /\ level[c] = "proc"
    /\ flag[c]
    /\ level' = [level EXCEPT ![c] = "irq"]
    /\ flag' = [flag EXCEPT ![c] = FALSE]
    /\ UNCHANGED <<locked, owner, ncli, intena, pc, arg, eflags, held, outer>>

Iret(c) ==
    /\ At(c, "irq", "idle")
    /\ held[c]["irq"] = {}
    /\ level' = [level EXCEPT ![c] = "proc"]
    /\ flag' = [flag EXCEPT ![c] = TRUE]
    /\ UNCHANGED <<locked, owner, ncli, intena, pc, arg, eflags, held, outer>>

-----------------------------------------------------------------------------
(* acquire *)

(* The call, and eflags = readeflags() of its pushcli. *)
AcquireRead(c, l, k) ==
    /\ At(c, l, "idle")
    /\ \A h \in held[c][l] : h < k
    /\ arg' = [arg EXCEPT ![c][l] = k]
    /\ eflags' = [eflags EXCEPT ![c][l] = flag[c]]
    /\ Goto(c, l, "cli")
    /\ UNCHANGED <<locked, owner, ncli, intena, flag, level, held, outer>>

(* pushcli that reads the flag after cli: a mutation. *)
AcquireLateRead(c, l) ==
    /\ At(c, l, "cli")
    /\ Pushcli(c, FALSE)
    /\ Goto(c, l, "a_locked")
    /\ UNCHANGED <<locked, owner, level, arg, eflags, held, outer>>

(* pushcli that forgets to count itself: a mutation. *)
AcquireNoCount(c, l) ==
    /\ At(c, l, "cli")
    /\ flag' = [flag EXCEPT ![c] = FALSE]
    /\ intena' = IF ncli[c] = 0 THEN [intena EXCEPT ![c] = eflags[c][l]] ELSE intena
    /\ Goto(c, l, "a_locked")
    /\ UNCHANGED <<locked, owner, ncli, level, arg, eflags, held, outer>>

(* cli, and the rest of pushcli. *)
AcquireCli(c, l) ==
    /\ At(c, l, "cli")
    /\ Pushcli(c, eflags[c][l])
    /\ Goto(c, l, "a_locked")
    /\ eflags' = [eflags EXCEPT ![c][l] = FALSE]
    /\ UNCHANGED <<locked, owner, level, arg, held, outer>>

(* xchg that is not atomic with its test: a mutation. *)
AcquireBlindXchg(c, l) ==
    /\ At(c, l, "xchg")
    /\ locked' = [locked EXCEPT ![arg[c][l]] = TRUE]
    /\ Goto(c, l, "setcpu")
    /\ UNCHANGED <<owner, ncli, intena, flag, level, arg, eflags, held, outer>>

(* xchg: a turn of the loop that finds the lock taken changes nothing. *)
AcquireXchg(c, l) ==
    /\ At(c, l, "xchg")
    /\ ~locked[arg[c][l]]
    /\ locked' = [locked EXCEPT ![arg[c][l]] = TRUE]
    /\ Goto(c, l, "setcpu")
    /\ UNCHANGED <<owner, ncli, intena, flag, level, arg, eflags, held, outer>>

(* lk->cpu = mycpu(), and acquire returns. *)
AcquireOwn(c, l) ==
    /\ At(c, l, "setcpu")
    /\ owner' = [owner EXCEPT ![arg[c][l]] = c]
    /\ held' = [held EXCEPT ![c][l] = @ \cup {arg[c][l]}]
    /\ Return(c, l)
    /\ UNCHANGED <<locked, ncli, intena, flag, level, eflags, outer>>

-----------------------------------------------------------------------------
(* holding, called by acquire (which panics when it returns 1) and release *)
(* (which panics when it returns 0).                                       *)

LockedPc(op) == IF op = "acquire" THEN "a_locked" ELSE "r_locked"

CpuPc(op) == IF op = "acquire" THEN "a_cpu" ELSE "r_cpu"

After(op, holds) ==
    IF op = "acquire" THEN (IF holds THEN "panic" ELSE "xchg")
                      ELSE (IF holds THEN "clearcpu" ELSE "panic")

(* It finds lock->locked == 0 and returns 0 without a look at lock->cpu.   *)
(* Its pushcli and popcli leave ncli as it was.                            *)
HoldingFree(c, l, op) ==
    /\ At(c, l, LockedPc(op))
    /\ ~locked[arg[c][l]]
    /\ flag' = [flag EXCEPT ![c] = @ /\ ncli[c] = 0]
    /\ intena' = IF ncli[c] = 0 THEN [intena EXCEPT ![c] = flag[c]] ELSE intena
    /\ Goto(c, l, After(op, FALSE))
    /\ UNCHANGED <<locked, owner, ncli, level, arg, eflags, held, outer>>

(* Its pushcli, and it finds lock->locked == 1. *)
HoldingLocked(c, l, op) ==
    /\ At(c, l, LockedPc(op))
    /\ locked[arg[c][l]]
    /\ Pushcli(c, flag[c])
    /\ Goto(c, l, CpuPc(op))
    /\ UNCHANGED <<locked, owner, level, arg, eflags, held, outer>>

(* lock->cpu == mycpu(), and its popcli. *)
HoldingCpu(c, l, op) ==
    /\ At(c, l, CpuPc(op))
    /\ Popcli(c)
    /\ Goto(c, l, IF PopcliPanics(c) THEN "panic"
                  ELSE After(op, owner[arg[c][l]] = c))
    /\ UNCHANGED <<locked, owner, level, arg, eflags, held, outer>>

-----------------------------------------------------------------------------
(* release *)

ReleaseCall(c, l, k) ==
    /\ At(c, l, "idle")
    /\ k \in held[c][l]
    /\ arg' = [arg EXCEPT ![c][l] = k]
    /\ Goto(c, l, "r_locked")
    /\ UNCHANGED <<locked, owner, ncli, intena, flag, level, eflags, held, outer>>

(* release that leaves lk->cpu as it was: a mutation. *)
ReleaseKeepsCpu(c, l) ==
    /\ At(c, l, "clearcpu")
    /\ Goto(c, l, "unlock")
    /\ UNCHANGED <<locked, owner, ncli, intena, flag, level, arg, eflags, held, outer>>

(* lk->cpu = 0 *)
ReleaseDisown(c, l) ==
    /\ At(c, l, "clearcpu")
    /\ owner' = [owner EXCEPT ![arg[c][l]] = NoCpu]
    /\ Goto(c, l, "unlock")
    /\ UNCHANGED <<locked, ncli, intena, flag, level, arg, eflags, held, outer>>

(* movl $0, lk->locked: from here on another CPU may take the lock. *)
ReleaseUnlock(c, l) ==
    /\ At(c, l, "unlock")
    /\ locked' = [locked EXCEPT ![arg[c][l]] = FALSE]
    /\ held' = [held EXCEPT ![c][l] = @ \ {arg[c][l]}]
    /\ Goto(c, l, "popcli")
    /\ UNCHANGED <<owner, ncli, intena, flag, level, arg, eflags, outer>>

(* popcli that sets the flag while other locks are held: a mutation. *)
ReleaseStiEarly(c, l) ==
    /\ At(c, l, "popcli")
    /\ ncli' = [ncli EXCEPT ![c] = @ - 1]
    /\ flag' = [flag EXCEPT ![c] = @ \/ intena[c]]
    /\ Return(c, l)
    /\ UNCHANGED <<locked, owner, intena, level, eflags, held, outer>>

(* popcli, and release returns. *)
ReleasePopcli(c, l) ==
    /\ At(c, l, "popcli")
    /\ Popcli(c)
    /\ IF PopcliPanics(c) THEN Goto(c, l, "panic") /\ UNCHANGED arg
                          ELSE Return(c, l)
    /\ UNCHANGED <<locked, owner, level, eflags, held, outer>>

-----------------------------------------------------------------------------
Acquire(c, l) ==
    \/ \E k \in Locks : AcquireRead(c, l, k)
    \/ AcquireCli(c, l)
    \/ AcquireXchg(c, l)
    \/ AcquireOwn(c, l)

Holding(c, l) ==
    \E op \in {"acquire", "release"} :
        HoldingFree(c, l, op) \/ HoldingLocked(c, l, op) \/ HoldingCpu(c, l, op)

Release(c, l) ==
    \/ \E k \in Locks : ReleaseCall(c, l, k)
    \/ ReleaseDisown(c, l)
    \/ ReleaseUnlock(c, l)
    \/ ReleasePopcli(c, l)

Next ==
    \E c \in Cpus :
        \/ Interrupt(c)
        \/ Iret(c)
        \/ \E l \in Levels : Acquire(c, l) \/ Holding(c, l) \/ Release(c, l)

Spec == Init /\ [][Next]_vars

(* A CPU that is inside acquire, holding or release keeps executing, a     *)
(* handler returns, and code that holds a lock releases it some day.       *)
(* Nothing promises that a spinning CPU wins the lock.                     *)
FairSpec ==
    /\ Spec
    /\ \A c \in Cpus :
        /\ WF_vars(Iret(c))
        /\ \A l \in Levels :
            /\ WF_vars(AcquireCli(c, l) \/ AcquireXchg(c, l) \/ AcquireOwn(c, l)
                         \/ Holding(c, l))
            /\ WF_vars(Release(c, l))

-----------------------------------------------------------------------------
(* Properties *)

Codes == {"idle", "cli", "a_locked", "a_cpu", "xchg", "setcpu",
          "r_locked", "r_cpu", "clearcpu", "unlock", "popcli", "panic"}

(* Types of every variable; ncli never goes below zero. *)
TypeOK ==
    /\ locked \in [Locks -> BOOLEAN]
    /\ owner \in [Locks -> Cpus \cup {NoCpu}]
    /\ ncli \in [Cpus -> Nat]
    /\ intena \in [Cpus -> BOOLEAN]
    /\ flag \in [Cpus -> BOOLEAN]
    /\ level \in [Cpus -> Levels]
    /\ pc \in [Cpus -> [Levels -> Codes]]
    /\ arg \in [Cpus -> [Levels -> Locks \cup {NoLock}]]
    /\ eflags \in [Cpus -> [Levels -> BOOLEAN]]
    /\ held \in [Cpus -> [Levels -> SUBSET Locks]]
    /\ outer \in [Cpus -> BOOLEAN]

(* The locks of a level: those it holds and the one xchg just gave it. *)
Owns(c, l) ==
    held[c][l] \cup (IF pc[c][l] = "setcpu" THEN {arg[c][l]} ELSE {})

(* A lock belongs to one level of one CPU at a time, not even to a handler *)
(* and the process it interrupted, and it is locked exactly while it has   *)
(* an owner.                                                               *)
MutualExclusion ==
    /\ \A c, d \in Cpus : \A l, m \in Levels :
          Owns(c, l) \cap Owns(d, m) # {} => c = d /\ l = m
    /\ \A k \in Locks :
          locked[k] <=> \E c \in Cpus, l \in Levels : k \in Owns(c, l)

(* The panics of acquire, release and popcli are never reached by code     *)
(* that releases what it holds and acquires in ascending order: the two    *)
(* unsynchronised reads of holding never mistake another CPU's lock for    *)
(* the caller's, nor miss the caller's.                                    *)
NoPanic == \A c \in Cpus, l \in Levels : pc[c][l] # "panic"

(* A CPU runs with interrupts off while any level of it holds a lock, so a *)
(* handler never spins on a lock of the code it interrupted.               *)
HolderMasked ==
    \A c \in Cpus, l \in Levels : Owns(c, l) # {} => ~flag[c]

(* acquire and release leave the interrupt flag of the process as they     *)
(* found it, and a handler never sees it set, although interrupts arrive   *)
(* between the readeflags and the cli of pushcli and use the same intena.  *)
InterruptsRestored ==
    \A c \in Cpus :
        /\ level[c] = "irq" => ~flag[c]
        /\ level[c] = "proc" /\ pc[c]["proc"] \in {"idle", "cli"}
             /\ held[c]["proc"] = {} => flag[c] = outer[c]

(* Locks exclude CPUs and handlers from each other, and the reads that     *)
(* holding makes without a lock never panic a correct caller.              *)
LocksSound == MutualExclusion /\ NoPanic

(* The interrupt flag is off while a lock is held, and after the last      *)
(* release it is what it was before the first acquire.                     *)
InterruptsSound == HolderMasked /\ InterruptsRestored

(* A lock that is taken is free again some day, if it is the last in the   *)
(* order: its owner waits for nothing.                                     *)
LastLockFreed ==
    \A k \in Locks :
        (\A j \in Locks : j <= k) => (locked[k] ~> ~locked[k])

-----------------------------------------------------------------------------
(* What the invariants above rest on. *)

(* The calls of pushcli that a level at s has not undone, not counting one *)
(* for each lock it holds.                                                 *)
Pushed(s) ==
    CASE s = "a_cpu" -> 2
      [] s \in {"a_locked", "xchg", "setcpu", "r_cpu", "popcli"} -> 1
      [] OTHER -> 0

Depth(c, l) == Cardinality(held[c][l]) + Pushed(pc[c][l])

(* mycpu()->ncli counts the locks held and the pushclis under way. *)
NcliCounts == \A c \in Cpus : ncli[c] = Depth(c, "proc") + Depth(c, "irq")

(* A level that does not run is outside the lock code, or in a pushcli     *)
(* that has not reached cli.                                               *)
Suspended ==
    \A c \in Cpus :
        /\ level[c] = "irq" => /\ pc[c]["proc"] \in {"idle", "cli"}
                               /\ held[c]["proc"] = {}
                               /\ outer[c]
        /\ level[c] = "proc" => pc[c]["irq"] = "idle" /\ held[c]["irq"] = {}

(* acquire is called for a lock the level does not hold, release for one   *)
(* it holds, until the lock is given up.                                   *)
Arguments ==
    \A c \in Cpus, l \in Levels :
        /\ pc[c][l] # "idle" => arg[c][l] \in Locks
        /\ pc[c][l] \in {"cli", "a_locked", "a_cpu", "xchg", "setcpu"}
             => arg[c][l] \notin held[c][l]
        /\ pc[c][l] \in {"r_locked", "r_cpu", "clearcpu", "unlock"}
             => arg[c][l] \in held[c][l]

(* The flag the CPU has outside all locks, as the running level sees it.   *)
Base(c) == level[c] = "proc" /\ outer[c]

(* The flag is off under a pushcli, and intena remembers what it was. *)
Masked ==
    \A c \in Cpus :
        IF ncli[c] = 0 THEN flag[c] = Base(c)
                       ELSE ~flag[c] /\ intena[c] = Base(c)

(* So does the copy of the flag that pushcli has read but not yet used,    *)
(* even if a handler ran in between.                                       *)
CopyFresh ==
    \A c \in Cpus, l \in Levels :
        pc[c][l] = "cli" /\ held[c][l] = {} => eflags[c][l] = (l = "proc" /\ outer[c])

(* lk->cpu names the CPU that owns the lock, between lk->cpu = mycpu() and *)
(* lk->cpu = 0.                                                            *)
Owned(c, l) ==
    IF pc[c][l] = "unlock" THEN held[c][l] \ {arg[c][l]} ELSE held[c][l]

OwnerRecorded ==
    \A c \in Cpus, k \in Locks :
        owner[k] = c <=> \E l \in Levels : k \in Owned(c, l)

SpinInv ==
    /\ TypeOK
    /\ NcliCounts
    /\ Suspended
    /\ Arguments
    /\ Masked
    /\ CopyFresh
    /\ OwnerRecorded
    /\ MutualExclusion
    /\ NoPanic
=============================================================================

------------------------------ MODULE InodeCache ------------------------------
(***************************************************************************)
(* The inode cache of xv6 (fs.c: ialloc, iupdate, iget, idup, ilock,       *)
(* iunlock, iput), used by processes that look up, create, open, use and   *)
(* remove the files of one directory.                                      *)
(*                                                                         *)
(* A step is a section under icache.lock, a section under the lock of a    *)
(* disk buffer, a turn of acquiresleep, a releasesleep, or what a process  *)
(* does to an inode whose sleep lock it holds.  The system calls are in    *)
(* sysfile.c, which is not in the repository: they are modelled by the     *)
(* order in which they call fs.c.  A file has one name at most.            *)
(***************************************************************************)
EXTENDS Integers, FiniteSets, SleepLock

CONSTANTS Inodes,  \* icache.inode, numbered from 0
          Inums,   \* the inode numbers on disk, from 1
          Dir,     \* the lock of the directory, whose inode stays in the cache
          NoInode, \* the NULL pointer
          Free,    \* dip->type == 0
          File     \* any other type

ASSUME InodeCacheAssumption ==
    /\ Inums \subseteq Nat \ {0}
    /\ Inodes \subseteq Nat
    /\ IsFiniteSet(Procs)
    /\ Locks = Inodes \cup {Dir}
    /\ Dir \notin Inodes
    /\ NoInode \notin Inodes
    /\ NoProc \notin Procs
    /\ NoLock \notin Locks
    /\ Free # File

VARIABLES dtype, dnlink,         \* the dinodes on disk
          names,                 \* the inode numbers the directory names
          ref, inum,             \* struct inode, under icache.lock
          valid, type, nlink,    \* struct inode, under ip->lock
          pc, job,               \* where each process stands, in which call
          ip,                    \* the inode it has a reference to
          next                   \* inum of ialloc's loop

disk == <<dtype, dnlink, names>>
refs == <<ref, inum>>
copy == <<valid, type, nlink>>
vars == <<disk, refs, copy, pc, job, ip, next, sleeplocks>>

(* Some files exist when the system starts; nothing is cached. *)
Init ==
    /\ names \in SUBSET Inums
    /\ dtype = [n \in Inums |-> IF n \in names THEN File ELSE Free]
    /\ dnlink = [n \in Inums |-> IF n \in names THEN 1 ELSE 0]
    /\ ref = [i \in Inodes |-> 0]
    /\ inum = [i \in Inodes |-> 0]
    /\ valid = [i \in Inodes |-> FALSE]
    /\ type = [i \in Inodes |-> Free]
    /\ nlink = [i \in Inodes |-> 0]
    /\ pc = [p \in Procs |-> "user"]
    /\ job = [p \in Procs |-> "none"]
    /\ ip = [p \in Procs |-> NoInode]
    /\ next = [p \in Procs |-> 1]
    /\ InitSleepLocks

-----------------------------------------------------------------------------
At(p, s) == pc[p] = s /\ asleep[p] = NoLock

Goto(p, s) == pc' = [pc EXCEPT ![p] = s]

(* acquiresleep at s: on to t, or to sleep at s. *)
Acquiresleep(p, k, s, t) ==
    /\ At(p, s)
    /\ \/ Takes(p, k) /\ Goto(p, t)
       \/ SleepsOn(p, k) /\ UNCHANGED pc
    /\ UNCHANGED <<disk, refs, copy, job, ip, next>>

(* The call is over when t is user code again. *)
Return(p, t) ==
    /\ Goto(p, t)
    /\ job' = IF t = "user" THEN [job EXCEPT ![p] = "none"] ELSE job

(* releasesleep, by iunlock with its test: a panic when it fails. *)
Iunlock(p, k, s, t) ==
    /\ At(p, s)
    /\ IF HoldingSleep(p, k) /\ (k \in Inodes => ref[k] >= 1)
       THEN Releases(k) /\ Return(p, t)
       ELSE Return(p, "panic") /\ UNCHANGED sleeplocks
    /\ UNCHANGED <<disk, refs, copy, ip, next>>

-----------------------------------------------------------------------------
(* iget, under icache.lock *)

Cached(n) == {i \in Inodes : ref[i] > 0 /\ inum[i] = n}

Unused == {i \in Inodes : ref[i] = 0}

(* The search finds the inode: one reference more. *)
IgetFinds(p, n, t) ==
    \E i \in Cached(n) :
        /\ ref' = [ref EXCEPT ![i] = @ + 1]
        /\ ip' = [ip EXCEPT ![p] = i]
        /\ Goto(p, t)
        /\ UNCHANGED <<inum, copy>>

(* It does not: the first unused entry is recycled. *)
Recycles(p, i, n, t) ==
    /\ i \in Unused /\ \A j \in Unused : i <= j
    /\ ref' = [ref EXCEPT ![i] = 1]
    /\ inum' = [inum EXCEPT ![i] = n]
    /\ ip' = [ip EXCEPT ![p] = i]
    /\ Goto(p, t)

(* iget that recycles an entry without a look for n: a mutation. *)
IgetRecyclesBlindly(p, n, t) ==
    \E i \in Inodes :
        /\ Recycles(p, i, n, t)
        /\ valid' = [valid EXCEPT ![i] = FALSE]
        /\ UNCHANGED <<type, nlink>>

(* iget that forgets valid when it recycles an entry: a mutation. *)
IgetKeepsValid(p, n, t) ==
    /\ Cached(n) = {}
    /\ \E i \in Inodes : Recycles(p, i, n, t) /\ UNCHANGED copy

IgetRecycles(p, n, t) ==
    /\ Cached(n) = {}
    /\ \E i \in Inodes :
          /\ Recycles(p, i, n, t)
          /\ valid' = [valid EXCEPT ![i] = FALSE]
    /\ UNCHANGED <<type, nlink>>

(* There is none: panic. *)
IgetFails(p, n) ==
    /\ Cached(n) = {} /\ Unused = {}
    /\ Goto(p, "full")
    /\ UNCHANGED <<refs, copy, ip>>

Iget(p, n, t) == IgetFinds(p, n, t) \/ IgetRecycles(p, n, t) \/ IgetFails(p, n)

(* idup that does not count: a mutation. *)
IdupUncounted(p, q) ==
    /\ At(p, "user") /\ ip[p] # NoInode
    /\ At(q, "user") /\ ip[q] = NoInode
    /\ ip' = [ip EXCEPT ![q] = ip[p]]
    /\ UNCHANGED <<disk, refs, copy, pc, job, next, sleeplocks>>

(* idup: fork, or dup of the working directory, shares p's inode with q.   *)
Idup(p, q) ==
    /\ At(p, "user") /\ ip[p] # NoInode
    /\ At(q, "user") /\ ip[q] = NoInode
    /\ ref' = [ref EXCEPT ![ip[p]] = @ + 1]
    /\ ip' = [ip EXCEPT ![q] = ip[p]]
    /\ UNCHANGED <<disk, inum, copy, pc, job, next, sleeplocks>>

-----------------------------------------------------------------------------
(* ialloc, called by create with the directory locked: each dinode is      *)
(* tested and claimed under the lock of its buffer.                        *)
IallocNext(p) ==
    /\ At(p, "ialloc")
    /\ next[p] \in Inums /\ dtype[next[p]] # Free
    /\ next' = [next EXCEPT ![p] = @ + 1]
    /\ UNCHANGED <<disk, refs, copy, pc, job, ip, sleeplocks>>

IallocClaim(p) ==
    /\ At(p, "ialloc")
    /\ next[p] \in Inums /\ dtype[next[p]] = Free
    /\ dtype' = [dtype EXCEPT ![next[p]] = File]
    /\ dnlink' = [dnlink EXCEPT ![next[p]] = 0]
    /\ Goto(p, "iget")
    /\ UNCHANGED <<names, refs, copy, job, ip, next, sleeplocks>>

IallocFails(p) ==
    /\ At(p, "ialloc")
    /\ next[p] \notin Inums
    /\ Goto(p, "full")
    /\ UNCHANGED <<disk, refs, copy, job, ip, next, sleeplocks>>

IallocIget(p) ==
    /\ At(p, "iget")
    /\ Iget(p, next[p], "ilock")
    /\ next' = [next EXCEPT ![p] = 1]
    /\ UNCHANGED <<disk, job, sleeplocks>>

-----------------------------------------------------------------------------
(* ilock: its test of ref, acquiresleep, and the read of the dinode; then  *)
(* the call goes on with what it locked the inode for.                     *)
Ilock(p) ==
    /\ ip[p] \in Inodes
    /\ IF ref[ip[p]] < 1
       THEN /\ At(p, "ilock")
            /\ Goto(p, "panic")
            /\ UNCHANGED <<disk, refs, copy, job, ip, next, sleeplocks>>
       ELSE Acquiresleep(p, ip[p], "ilock", "load")

Locked(p) == CASE job[p] = "use" -> "iunlock"
               [] job[p] = "create" -> "dirlink"
               [] job[p] = "unlink" -> "dirunlink"

IlockLoad(p) ==
    /\ At(p, "load")
    /\ IF valid[ip[p]]
       THEN Goto(p, Locked(p)) /\ UNCHANGED copy
       ELSE LET n == inum[ip[p]]
            IN  /\ valid' = [valid EXCEPT ![ip[p]] = TRUE]
                /\ type' = [type EXCEPT ![ip[p]] = dtype[n]]
                /\ nlink' = [nlink EXCEPT ![ip[p]] = dnlink[n]]
                /\ Goto(p, IF dtype[n] = Free THEN "panic" ELSE Locked(p))
    /\ UNCHANGED <<disk, refs, job, ip, next, sleeplocks>>

(* iupdate, under ip->lock: the dinode becomes what the copy becomes. *)
Iupdate(i) ==
    /\ dtype' = [dtype EXCEPT ![inum[i]] = type'[i]]
    /\ dnlink' = [dnlink EXCEPT ![inum[i]] = nlink'[i]]

-----------------------------------------------------------------------------
(* iput *)

(* The inode is freed if it has no name and, as a look at ip->ref under    *)
(* icache.lock says, no other reference.                                   *)
LastNameless(p) == valid[ip[p]] /\ nlink[ip[p]] = 0 /\ ref[ip[p]] = 1

(* iput that does not look at ip->ref: a mutation. *)
IputTestNames(p) ==
    /\ At(p, "test")
    /\ Goto(p, IF valid[ip[p]] /\ nlink[ip[p]] = 0 THEN "free" ELSE "putunlock")
    /\ UNCHANGED <<disk, refs, copy, job, ip, next, sleeplocks>>

IputTest(p) ==
    /\ At(p, "test")
    /\ Goto(p, IF LastNameless(p) THEN "free" ELSE "putunlock")
    /\ UNCHANGED <<disk, refs, copy, job, ip, next, sleeplocks>>

(* itrunc, ip->type = 0 and iupdate.  The buffer is unlocked after it: the *)
(* next ialloc may claim the dinode before ip->valid is cleared.           *)
IputFree(p) ==
    /\ At(p, "free")
    /\ type' = [type EXCEPT ![ip[p]] = Free]
    /\ UNCHANGED <<valid, nlink>>
    /\ Iupdate(ip[p])
    /\ Goto(p, "invalidate")
    /\ UNCHANGED <<names, refs, job, ip, next, sleeplocks>>

(* iput that leaves ip->valid as it was: a mutation. *)
IputKeepsValid(p) ==
    /\ At(p, "invalidate")
    /\ Goto(p, "putunlock")
    /\ UNCHANGED <<disk, refs, copy, job, ip, next, sleeplocks>>

IputInvalidate(p) ==
    /\ At(p, "invalidate")
    /\ valid' = [valid EXCEPT ![ip[p]] = FALSE]
    /\ Goto(p, "putunlock")
    /\ UNCHANGED <<disk, refs, type, nlink, job, ip, next, sleeplocks>>

IputUnlock(p) ==
    /\ At(p, "putunlock")
    /\ Releases(ip[p])
    /\ Goto(p, "deref")
    /\ UNCHANGED <<disk, refs, copy, job, ip, next>>

IputDeref(p) ==
    /\ At(p, "deref")
    /\ ref' = [ref EXCEPT ![ip[p]] = @ - 1]
    /\ ip' = [ip EXCEPT ![p] = NoInode]
    /\ Return(p, "user")
    /\ UNCHANGED <<disk, inum, copy, next, sleeplocks>>

-----------------------------------------------------------------------------
(* The system calls *)

(* read, write, fstat and close of an open file; open, creat and unlink.   *)
Call(p, j) ==
    /\ At(p, "user")
    /\ j \in {"use", "close"} <=> ip[p] # NoInode
    /\ job' = [job EXCEPT ![p] = j]
    /\ Goto(p, CASE j = "use" -> "ilock"
                 [] j = "close" -> "iput"
                 [] OTHER -> "dir")
    /\ UNCHANGED <<disk, refs, copy, ip, next, sleeplocks>>

(* The calls lock the directory first; create found no such name. *)
LockDir(p) ==
    Acquiresleep(p, Dir, "dir", IF job[p] = "create" THEN "ialloc" ELSE "lookup")

(* dirlookup finds the name and calls iget, or returns 0. *)
Dirlookup(p) ==
    /\ At(p, "lookup")
    /\ \/ \E n \in names : Iget(p, n, IF job[p] = "open" THEN "undir" ELSE "ilock")
       \/ Goto(p, "undir") /\ UNCHANGED <<refs, copy, ip>>
    /\ UNCHANGED <<disk, job, next, sleeplocks>>

(* create that leaves nlink at zero: a mutation. *)
DirlinkOnly(p) ==
    /\ At(p, "dirlink")
    /\ names' = names \cup {inum[ip[p]]}
    /\ Goto(p, "undir")
    /\ UNCHANGED <<dtype, dnlink, refs, copy, job, ip, next, sleeplocks>>

(* create: nlink = 1, iupdate, dirlink. *)
Dirlink(p) ==
    /\ At(p, "dirlink")
    /\ nlink' = [nlink EXCEPT ![ip[p]] = 1]
    /\ UNCHANGED <<valid, type>>
    /\ Iupdate(ip[p])
    /\ names' = names \cup {inum[ip[p]]}
    /\ Goto(p, "undir")
    /\ UNCHANGED <<refs, job, ip, next, sleeplocks>>

(* unlink: the name goes first, nlink after the directory is unlocked. *)
Dirunlink(p) ==
    /\ At(p, "dirunlink")
    /\ names' = names \ {inum[ip[p]]}
    /\ Goto(p, "undir")
    /\ UNCHANGED <<dtype, dnlink, refs, copy, job, ip, next, sleeplocks>>

UnlockDir(p) ==
    Iunlock(p, Dir, "undir",
            CASE job[p] = "create" -> "iunlock"
              [] job[p] = "unlink" /\ ip[p] # NoInode -> "drop"
              [] OTHER -> "user")

DropLink(p) ==
    /\ At(p, "drop")
    /\ nlink' = [nlink EXCEPT ![ip[p]] = @ - 1]
    /\ UNCHANGED <<valid, type>>
    /\ Iupdate(ip[p])
    /\ Goto(p, "iunlock")
    /\ UNCHANGED <<names, refs, job, ip, next, sleeplocks>>

UnlockInode(p) ==
    /\ ip[p] \in Inodes
    /\ Iunlock(p, ip[p], "iunlock", IF job[p] = "unlink" THEN "iput" ELSE "user")

LockToPut(p) ==
    /\ ip[p] \in Inodes
    /\ Acquiresleep(p, ip[p], "iput", "test")

-----------------------------------------------------------------------------
Ialloc(p) == IallocNext(p) \/ IallocClaim(p) \/ IallocFails(p) \/ IallocIget(p)

Iput(p) ==
    \/ LockToPut(p)
    \/ IputTest(p)
    \/ IputFree(p)
    \/ IputInvalidate(p)
    \/ IputUnlock(p)
    \/ IputDeref(p)

Directory(p) ==
    \/ LockDir(p)
    \/ Dirlookup(p)
    \/ Dirlink(p)
    \/ Dirunlink(p)
    \/ UnlockDir(p)

Step(p) ==
    \/ \E j \in {"use", "close", "open", "create", "unlink"} : Call(p, j)
    \/ \E q \in Procs : Idup(p, q)
    \/ Directory(p)
    \/ Ialloc(p)
    \/ Ilock(p)
    \/ IlockLoad(p)
    \/ DropLink(p)
    \/ UnlockInode(p)
    \/ Iput(p)

(* A panic stops the system: of a function that finds its caller at fault, *)
(* or of iget and ialloc when the cache or the disk is full.               *)
Halted == \E p \in Procs : pc[p] \in {"panic", "full"}

Next ==
    \/ ~Halted /\ \E p \in Procs : Step(p)
    \/ Halted /\ UNCHANGED vars

Spec == Init /\ [][Next]_vars

-----------------------------------------------------------------------------
(* Properties *)

Codes == {"user", "dir", "lookup", "ialloc", "iget", "ilock", "load",
          "dirlink", "dirunlink", "undir", "drop", "iunlock", "iput", "test",
          "free", "invalidate", "putunlock", "deref", "panic", "full"}

Jobs == {"none", "use", "close", "open", "create", "unlink"}

(* Types of every variable; a process inside a call on an inode has one. *)
TypeOK ==
    /\ dtype \in [Inums -> {Free, File}]
    /\ dnlink \in [Inums -> Nat]
    /\ names \subseteq Inums
    /\ ref \in [Inodes -> Nat]
    /\ inum \in [Inodes -> Inums \cup {0}]
    /\ valid \in [Inodes -> BOOLEAN]
    /\ type \in [Inodes -> {Free, File}]
    /\ nlink \in [Inodes -> Nat]
    /\ pc \in [Procs -> Codes]
    /\ job \in [Procs -> Jobs]
    /\ ip \in [Procs -> Inodes \cup {NoInode}]
    /\ next \in [Procs -> Nat]
    /\ SleepLockTypes

Holders(i) == {p \in Procs : ip[p] = i}

(* ip->ref is the number of pointers to the entry: it is neither recycled  *)
(* under a pointer nor kept for nobody.                                    *)
RefsCounted == \A i \in Inodes : ref[i] = Cardinality(Holders(i))

(* An inode on disk has one entry in the cache at most, so its sleep lock  *)
(* is one lock, although iget's search and ialloc's claim are not one step.*)
OneEntryPerInode ==
    \A i, j \in Inodes : ref[i] > 0 /\ ref[j] > 0 /\ inum[i] = inum[j] => i = j

(* The counters and the entries stand for the pointers and the inodes: no  *)
(* entry is recycled under a pointer, no inode is cached twice.            *)
CountsSound == RefsCounted /\ OneEntryPerInode

(* The cache is write-through: an entry with ip->valid set is the inode on *)
(* disk, except while iput has freed the inode and not yet cleared valid.  *)
WriteThrough ==
    \A i \in Inodes :
        /\ ref[i] > 0 /\ valid[i]
        /\ \A p \in Holders(i) : pc[p] # "invalidate"
        => type[i] = File /\ dtype[inum[i]] = File /\ nlink[i] = dnlink[inum[i]]

(* An inode is freed only when no name and no pointer leads to it, but for *)
(* the pointer of the iput that frees it.                                  *)
NoneFreedInUse ==
    \A n \in Inums : dtype[n] = Free =>
        /\ n \notin names
        /\ \A p \in Procs : ip[p] # NoInode /\ inum[ip[p]] = n
                              => pc[p] \in {"invalidate", "putunlock", "deref"}

(* ilock, iunlock and iget are never given an inode at which they panic,   *)
(* other than for want of room.                                            *)
NoPanic == \A p \in Procs : pc[p] # "panic"

(* Whoever sleeps on a lock has a holder to wait for, and the chain of     *)
(* holders that sleep themselves ends in a process that runs.              *)
Waits(p) == lockpid[asleep[p]]

SleepersAreWoken ==
    \A p \in Procs : asleep[p] # NoLock =>
        /\ locked[asleep[p]]
        /\ Waits(p) \in Procs
        /\ asleep[Waits(p)] # NoLock =>
              /\ Waits(Waits(p)) \in Procs
              /\ asleep[Waits(Waits(p))] = NoLock

(* The comment of iput: if that was the last reference and the inode has   *)
(* no links to it, free the inode on disk.  It fails: of two that drop     *)
(* their references together, each may see the other's.                    *)
LastPutFrees ==
    ~Halted =>
        \A n \in Inums : dtype[n] # Free /\ dnlink[n] = 0 =>
            \E p \in Procs : \/ ip[p] # NoInode /\ inum[ip[p]] = n
                             \/ pc[p] = "iget" /\ next[p] = n

-----------------------------------------------------------------------------
(* What RefsCounted and OneEntryPerInode rest on: the types of what iget,  *)
(* idup and iput use, and where in a call a process has a pointer.         *)
CacheTypes ==
    /\ names \subseteq Inums
    /\ ref \in [Inodes -> Nat]
    /\ inum \in [Inodes -> Inums \cup {0}]
    /\ pc \in [Procs -> Codes]
    /\ job \in [Procs -> Jobs]
    /\ ip \in [Procs -> Inodes \cup {NoInode}]
    /\ next \in [Procs -> Nat]

WithInode == {"ilock", "load", "dirlink", "dirunlink", "drop", "iunlock", "iput",
              "test", "free", "invalidate", "putunlock", "deref"}

Pointers ==
    \A p \in Procs :
        /\ pc[p] \in WithInode => ip[p] \in Inodes
        /\ pc[p] = "undir" /\ job[p] = "create" => ip[p] \in Inodes
        /\ pc[p] \in {"dir", "lookup", "ialloc", "iget"} => ip[p] = NoInode
        /\ pc[p] = "iget" => next[p] \in Inums
        /\ pc[p] = "lookup" => job[p] \in {"open", "unlink"}
        /\ pc[p] \in {"ialloc", "iget"} => job[p] = "create"
        /\ pc[p] = "dir" => job[p] \in {"open", "create", "unlink"}
        /\ pc[p] \in {"ilock", "load"} => job[p] \in {"use", "create", "unlink"}

Referenced == \A i \in Inodes : ref[i] > 0 => inum[i] \in Inums

CountInv ==
    /\ CacheTypes
    /\ Pointers
    /\ Referenced
    /\ RefsCounted
    /\ OneEntryPerInode
-----------------------------------------------------------------------------
(* What the other invariants rest on: which process has which lock.        *)
OfDirectory == {"create", "unlink"}

HoldsDir(p) ==
    \/ pc[p] \in {"lookup", "ialloc", "iget", "dirlink", "dirunlink", "undir", "full"}
    \/ pc[p] \in {"ilock", "load"} /\ job[p] \in OfDirectory

HoldsInode(p) ==
    \/ pc[p] \in {"load", "dirlink", "dirunlink", "drop", "iunlock", "test",
                  "free", "invalidate", "putunlock"}
    \/ pc[p] = "undir" /\ job[p] \in OfDirectory /\ ip[p] # NoInode

LocksOwned ==
    /\ \A k \in Locks : locked[k] <=> lockpid[k] # NoProc
    /\ \A p \in Procs : lockpid[Dir] = p <=> HoldsDir(p)
    /\ \A p \in Procs, i \in Inodes : lockpid[i] = p <=> HoldsInode(p) /\ ip[p] = i

(* A process sleeps in acquiresleep only, on a lock that is taken.         *)
Sleeping ==
    \A p \in Procs : asleep[p] # NoLock =>
        /\ locked[asleep[p]]
        /\ \/ pc[p] = "dir" /\ asleep[p] = Dir
           \/ pc[p] \in {"ilock", "iput"} /\ asleep[p] = ip[p] /\ ip[p] \in Inodes

(* Where a process stands tells its job. *)
JobFits(p) ==
    /\ pc[p] = "dirlink" => job[p] = "create"
    /\ pc[p] \in {"dirunlink", "drop"} => job[p] = "unlink"
    /\ pc[p] = "undir" => job[p] \in {"open", "create", "unlink"}

JobsFit == \A p \in Procs : JobFits(p)

LockInv == SleepLockTypes /\ JobsFit /\ LocksOwned /\ Sleeping

(* And what the copies and the dinodes hold meanwhile.                     *)
Leaving == {"invalidate", "putunlock", "deref"}

PointsTo(p, n) == ip[p] # NoInode /\ inum[ip[p]] = n

(* ialloc has claimed n for p, and no name leads to it yet. *)
Claims(p, n) ==
    \/ pc[p] = "iget" /\ next[p] = n
    \/ pc[p] \in {"ilock", "load", "dirlink"} /\ job[p] = "create" /\ PointsTo(p, n)

(* unlink has removed the name, and not yet counted it off. *)
Unlinks(p, n) == pc[p] \in {"undir", "drop"} /\ job[p] = "unlink" /\ PointsTo(p, n)

NamedLinked == \A n \in names : dtype[n] = File /\ dnlink[n] = 1

ClaimedAlone ==
    \A p \in Procs, n \in Inums : Claims(p, n) =>
        /\ dtype[n] = File /\ dnlink[n] = 0 /\ n \notin names
        /\ \A q \in Procs \ {p} : PointsTo(q, n) => pc[q] \in Leaving

UnlinkedOnce ==
    \A p \in Procs, n \in Inums : Unlinks(p, n) => n \notin names /\ dnlink[n] = 1

(* unlink has found the name, and not yet removed it. *)
Finds(p, n) ==
    pc[p] \in {"ilock", "load", "dirunlink"} /\ job[p] = "unlink" /\ PointsTo(p, n)

NameKept == \A p \in Procs, n \in Inums : Finds(p, n) => n \in names

(* What was loaded under the lock is still there, and iput's test still    *)
(* holds when it frees the inode.                                          *)
HasCopy(p) ==
    /\ \/ pc[p] \in {"dirlink", "dirunlink", "drop", "iunlock", "free"}
       \/ pc[p] = "undir" /\ HoldsInode(p)
       => valid[ip[p]]
    /\ pc[p] = "free" => nlink[ip[p]] = 0 /\ ref[ip[p]] = 1

Loaded == \A p \in Procs : HasCopy(p)

DiskTypes ==
    /\ dtype \in [Inums -> {Free, File}]
    /\ dnlink \in [Inums -> Nat]
    /\ valid \in [Inodes -> BOOLEAN]
    /\ type \in [Inodes -> {Free, File}]
    /\ nlink \in [Inodes -> Nat]

DiskInv ==
    /\ DiskTypes
    /\ NamedLinked
    /\ ClaimedAlone
    /\ UnlinkedOnce
    /\ NameKept
    /\ Loaded
    /\ WriteThrough
    /\ NoneFreedInUse
    /\ NoPanic

IInv == CountInv /\ LockInv /\ DiskInv
=============================================================================

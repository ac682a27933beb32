----------------------------- MODULE Directories -----------------------------
(***************************************************************************)
(* Directories and path names (fs.c: dirlookup, dirlink, namex, namei,     *)
(* nameiparent), as open, chdir, create and unlink of sysfile.c use them.  *)
(* That file is not in the repository: the calls appear as the order in    *)
(* which they lock inodes and call fs.c.                                   *)
(*                                                                         *)
(* A directory is a sequence of entries, of which readi and writei move    *)
(* one at a time under the directory's sleep lock; a path is a sequence of *)
(* the elements that skipelem cuts off.  A step ends where a lock is taken *)
(* or given up.  An inode that is neither linked nor referenced is freed   *)
(* by the iput that drops it (InodeCache has its steps).                   *)
(***************************************************************************)
EXTENDS Integers, Sequences, FiniteSets

CONSTANTS Procs,
          Inums,  \* inode numbers; 1 is ROOTINO
          Calls,  \* what is asked for: an operation and a sequence of names
          NoProc

Root == 1

VARIABLES type,     \* of an inode: "free", "dir" or "file"
          linked,   \* nlink > 0
          entries,  \* of a directory: name and inum; inum 0 is an empty entry
          holder,   \* who holds the sleep lock
          pc, op,   \* where a process stands, in which call
          path,     \* what is left of its path
          cwd, ip, child,  \* the inodes it has references to; 0 is none
          elem      \* the element it looked up last

dvars == <<type, linked, entries, holder, pc, op, path, cwd, ip, child, elem>>
tree == <<type, linked, entries>>

NewDir(self, parent) == << [name |-> ".", inum |-> self],
                           [name |-> "..", inum |-> parent] >>

Init ==
    /\ type = [n \in Inums |-> IF n = Root THEN "dir" ELSE "free"]
    /\ linked = [n \in Inums |-> n = Root]
    /\ entries = [n \in Inums |-> IF n = Root THEN NewDir(Root, Root) ELSE <<>>]
    /\ holder = [n \in Inums |-> NoProc]
    /\ pc = [p \in Procs |-> "user"]
    /\ op = [p \in Procs |-> "none"]
    /\ path = [p \in Procs |-> <<>>]
    /\ cwd = [p \in Procs |-> Root]
    /\ ip = [p \in Procs |-> 0]
    /\ child = [p \in Procs |-> 0]
    /\ elem = [p \in Procs |-> "/"]

-----------------------------------------------------------------------------
Halted == \E p \in Procs : pc[p] = "panic"

At(p, s) == pc[p] = s /\ ~Halted

Goto(p, s) == pc' = [pc EXCEPT ![p] = s]

(* dirlookup: the entries that match, of which it takes the first. *)
Matches(d, name) ==
    {k \in 1..Len(entries[d]) : entries[d][k].inum # 0 /\ entries[d][k].name = name}

Lookup(d, name) ==
    IF Matches(d, name) = {} THEN 0
    ELSE LET k == CHOOSE k \in Matches(d, name) :
                     \A j \in Matches(d, name) : k <= j
         IN  entries[d][k].inum

(* dirlink puts an entry into the first empty slot, or at the end. *)
Linked(d, name, n) ==
    LET empty == {k \in 1..Len(entries[d]) : entries[d][k].inum = 0}
        de == [name |-> name, inum |-> n]
    IN  IF empty = {} THEN Append(entries[d], de)
        ELSE [entries[d] EXCEPT ![CHOOSE k \in empty : \A j \in empty : k <= j] = de]

(* ilock: the inode is loaded, and panics if it is free on disk. *)
Ilock(p, n, t) ==
    /\ holder[n] = NoProc
    /\ IF type[n] = "free" THEN Goto(p, "panic") /\ UNCHANGED holder
       ELSE Goto(p, t) /\ holder' = [holder EXCEPT ![n] = p]

Unlock(n) == holder' = [holder EXCEPT ![n] = NoProc]

(* ref of the inode. *)
Ref(n) == Cardinality({p \in Procs : cwd[p] = n}) + Cardinality({p \in Procs : ip[p] = n})
              + Cardinality({p \in Procs : child[p] = n})

Iput(n) ==
    IF linked[n] \/ Ref(n) > 1 \/ type[n] = "free"
    THEN UNCHANGED tree
    ELSE /\ type' = [type EXCEPT ![n] = "free"]
         /\ entries' = [entries EXCEPT ![n] = <<>>]
         /\ UNCHANGED linked

-----------------------------------------------------------------------------
(* namex *)

(* A call begins at the root (iget), or at the current directory (idup). *)
Call(p) ==
    /\ At(p, "user")
    /\ \E c \in Calls :
          /\ op' = [op EXCEPT ![p] = c[1]]
          /\ path' = [path EXCEPT ![p] = c[2]]
    /\ \E d \in {Root, cwd[p]} : ip' = [ip EXCEPT ![p] = d]
    /\ elem' = [elem EXCEPT ![p] = "/"]
    /\ Goto(p, "walk")
    /\ UNCHANGED <<cwd, tree, holder, child>>

Parent(p) == op[p] \notin {"open", "chdir"}

(* The path is used up: namei returns the inode, nameiparent has none. *)
WalkEnds(p) ==
    /\ At(p, "walk") /\ path[p] = <<>>
    /\ Goto(p, IF Parent(p) THEN "put" ELSE "open")
    /\ UNCHANGED <<cwd, tree, holder, op, path, ip, child, elem>>

WalkLock(p) ==
    /\ At(p, "walk") /\ path[p] # <<>>
    /\ Ilock(p, ip[p], "locked")
    /\ UNCHANGED <<cwd, tree, op, path, ip, child, elem>>

(* nameiparent stops one level early, with the last element in name. *)
Early(p) == Parent(p) /\ Len(path[p]) = 1

WalkStops(p) ==
    /\ At(p, "locked") /\ type[ip[p]] = "dir" /\ Early(p)
    /\ Unlock(ip[p])
    /\ elem' = [elem EXCEPT ![p] = Head(path[p])]
    /\ Goto(p, "parent")
    /\ UNCHANGED <<cwd, tree, op, path, ip, child>>

(* Not a directory, or no such entry. *)
WalkFails(p) ==
    /\ At(p, "locked")
    /\ \/ type[ip[p]] # "dir"
       \/ ~Early(p) /\ Lookup(ip[p], Head(path[p])) = 0
    /\ Unlock(ip[p])
    /\ Goto(p, "put")
    /\ UNCHANGED <<cwd, tree, op, path, ip, child, elem>>

(* The next inode is referenced, and the directory unlocked before it is   *)
(* locked.                                                                 *)
Finds(p) ==
    /\ At(p, "locked") /\ type[ip[p]] = "dir" /\ ~Early(p)
    /\ Lookup(ip[p], Head(path[p])) # 0
    /\ child' = [child EXCEPT ![p] = Lookup(ip[p], Head(path[p]))]
    /\ elem' = [elem EXCEPT ![p] = Head(path[p])]
    /\ path' = [path EXCEPT ![p] = Tail(@)]

(* iput where iunlockput is meant: a mutation. *)
WalkFindsKeepsLock(p) ==
    /\ Finds(p)
    /\ Goto(p, "next")
    /\ UNCHANGED <<cwd, tree, holder, op, ip>>

WalkFinds(p) ==
    /\ Finds(p)
    /\ Unlock(ip[p])
    /\ Goto(p, "next")
    /\ UNCHANGED <<cwd, tree, op, ip>>

WalkNext(p) ==
    /\ At(p, "next")
    /\ Iput(ip[p])
    /\ ip' = [ip EXCEPT ![p] = child[p]]
    /\ child' = [child EXCEPT ![p] = 0]
    /\ Goto(p, "walk")
    /\ UNCHANGED <<cwd, holder, op, path, elem>>

-----------------------------------------------------------------------------
(* What the callers do with the inode *)

(* open locks what it has found. *)
Open(p) ==
    /\ At(p, "open")
    /\ Ilock(p, ip[p], "use")
    /\ UNCHANGED <<cwd, tree, op, path, ip, child, elem>>

(* chdir takes a directory for the current one, and drops that instead. *)
Unuse(p) ==
    /\ At(p, "use")
    /\ Unlock(ip[p])
    /\ IF op[p] = "chdir" /\ type[ip[p]] = "dir"
       THEN cwd' = [cwd EXCEPT ![p] = ip[p]] /\ ip' = [ip EXCEPT ![p] = cwd[p]]
       ELSE UNCHANGED <<cwd, ip>>
    /\ Goto(p, "put")
    /\ UNCHANGED <<tree, op, path, child, elem>>

Put(p) ==
    /\ At(p, "put")
    /\ Iput(ip[p])
    /\ ip' = [ip EXCEPT ![p] = 0]
    /\ op' = [op EXCEPT ![p] = "none"]
    /\ path' = [path EXCEPT ![p] = <<>>]
    /\ elem' = [elem EXCEPT ![p] = "/"]
    /\ Goto(p, "user")
    /\ UNCHANGED <<cwd, holder, child>>

(* create and unlink lock the parent. *)
LockParent(p) ==
    /\ At(p, "parent")
    /\ Ilock(p, ip[p], IF op[p] = "unlink" THEN "unlink" ELSE "create")
    /\ UNCHANGED <<cwd, tree, op, path, ip, child, elem>>

(* dirlookup has found the name, or there is no inode left. *)
CreateFails(p) ==
    /\ At(p, "create")
    /\ Lookup(ip[p], elem[p]) # 0 \/ \A n \in Inums : type[n] # "free"
    /\ Unlock(ip[p])
    /\ Goto(p, "put")
    /\ UNCHANGED <<cwd, tree, op, path, ip, child, elem>>

(* A new directory gets its own entries first; then dirlink. *)
Adds(p, d, n) ==
    LET t == IF op[p] = "mkdir" THEN "dir" ELSE "file"
    IN  /\ type' = [type EXCEPT ![n] = t]
        /\ linked' = [linked EXCEPT ![n] = TRUE]
        /\ entries' = [entries EXCEPT ![n] = IF t = "dir" THEN NewDir(n, d) ELSE <<>>,
                                      ![d] = Linked(d, elem[p], n)]

Create(p) ==
    /\ At(p, "create") /\ Lookup(ip[p], elem[p]) = 0
    /\ \E n \in Inums : type[n] = "free" /\ Adds(p, ip[p], n)
    /\ Unlock(ip[p])
    /\ Goto(p, "put")
    /\ UNCHANGED <<cwd, op, path, ip, child, elem>>

Fixed == {".", ".."}

UnlinkFails(p) ==
    /\ At(p, "unlink")
    /\ elem[p] \in Fixed \/ Lookup(ip[p], elem[p]) = 0
    /\ Unlock(ip[p])
    /\ Goto(p, "put")
    /\ UNCHANGED <<cwd, tree, op, path, ip, child, elem>>

(* unlink keeps the directory locked while it waits for the inode. *)
UnlinkFinds(p) ==
    /\ At(p, "unlink")
    /\ elem[p] \notin Fixed /\ Lookup(ip[p], elem[p]) # 0
    /\ child' = [child EXCEPT ![p] = Lookup(ip[p], elem[p])]
    /\ Goto(p, "victim")
    /\ UNCHANGED <<cwd, tree, holder, op, path, ip, elem>>

LockVictim(p) ==
    /\ At(p, "victim")
    /\ Ilock(p, child[p], "both")
    /\ UNCHANGED <<cwd, tree, op, path, ip, child, elem>>

IsDirEmpty(n) == \A k \in 3..Len(entries[n]) : entries[n][k].inum = 0

Kept(p) == type[child[p]] = "dir" /\ ~IsDirEmpty(child[p])

(* The entry is overwritten with zeros, unless a directory is in use. *)
Unlink(p) ==
    /\ At(p, "both")
    /\ IF Kept(p) THEN UNCHANGED entries
       ELSE \E k \in Matches(ip[p], elem[p]) :
               entries' = [entries EXCEPT ![ip[p]][k].inum = 0]
    /\ Unlock(ip[p])
    /\ Goto(p, IF Kept(p) THEN "keep" ELSE "drop")
    /\ UNCHANGED <<cwd, type, linked, op, path, ip, child, elem>>

(* nlink goes down under the lock of the inode. *)
DropLink(p) ==
    /\ pc[p] \in {"keep", "drop"} /\ ~Halted
    /\ linked' = [linked EXCEPT ![child[p]] = @ /\ pc[p] = "keep"]
    /\ Unlock(child[p])
    /\ Goto(p, "putchild")
    /\ UNCHANGED <<cwd, type, entries, op, path, ip, child, elem>>

PutChild(p) ==
    /\ At(p, "putchild")
    /\ Iput(child[p])
    /\ child' = [child EXCEPT ![p] = 0]
    /\ Goto(p, "put")
    /\ UNCHANGED <<cwd, holder, op, path, ip, elem>>

-----------------------------------------------------------------------------
Step(p) ==
    \/ Call(p) \/ WalkEnds(p) \/ WalkLock(p) \/ WalkStops(p) \/ WalkFails(p)
    \/ WalkFinds(p) \/ WalkNext(p) \/ Open(p) \/ Unuse(p) \/ Put(p)
    \/ LockParent(p) \/ CreateFails(p) \/ Create(p) \/ UnlinkFails(p)
    \/ UnlinkFinds(p) \/ LockVictim(p) \/ Unlink(p) \/ DropLink(p) \/ PutChild(p)

(* A panic stops the machine. *)
Stopped == Halted /\ UNCHANGED dvars

Next == (\E p \in Procs : Step(p)) \/ Stopped

Spec == Init /\ [][Next]_dvars

-----------------------------------------------------------------------------
(* Properties *)

(* The inode a process waits for, and who has it. *)
WaitsFor(p) ==
    CASE pc[p] \in {"walk", "open", "parent"} -> ip[p]
      [] pc[p] = "victim" -> child[p]
      [] OTHER -> 0

Blocked(p) == WaitsFor(p) # 0 /\ holder[WaitsFor(p)] # NoProc
              /\ (pc[p] = "walk" => path[p] # <<>>)

(* Nobody waits in a circle, though unlink holds a directory while it waits*)
(* for what is in it and paths go up through ".." as well as down: of the  *)
(* processes inside a call one can always go on.                           *)
NoWaitCycle ==
    Halted \/ \A S \in SUBSET Procs : S # {} =>
        \E p \in S : ~Blocked(p) \/ holder[WaitsFor(p)] \notin S

Names(d) == {k \in 1..Len(entries[d]) : entries[d][k].inum # 0
                                        /\ entries[d][k].name \notin Fixed}

(* A directory has one entry of a name, an inode has one entry that leads  *)
(* to it, and the entry leads to an allocated inode, whose ".." leads back *)
(* if it is a directory.                                                   *)
TreeSound ==
    \A d, e \in Inums : \A j \in Names(d), k \in Names(e) :
        LET n == entries[d][j].inum IN
        /\ n = entries[e][k].inum => <<d, j>> = <<e, k>>
        /\ d = e /\ entries[d][j].name = entries[e][k].name => j = k
        /\ type[n] # "free"
        /\ type[n] = "dir" => Lookup(n, "..") = d

(* ilock panics ("no type") for nobody but a walk that went up through the *)
(* ".." of a directory that had been removed while it stood in it.         *)
PanicsAtDotDot == \A p \in Procs : pc[p] = "panic" => elem[p] = ".."
=============================================================================

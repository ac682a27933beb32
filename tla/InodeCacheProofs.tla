--------------------------- MODULE InodeCacheProofs ---------------------------
(***************************************************************************)
(* Proofs about the inode cache, for any number of processes, cache        *)
(* entries and inodes: references are counted exactly and an inode has one *)
(* cache entry (CountInv); every sleep lock has the owner that the place   *)
(* of the processes tells, and nobody sleeps for nothing (LockInv); and    *)
(* with both, what the disk and the copies in the cache hold (DiskInv).    *)
(***************************************************************************)
EXTENDS InodeCache, FiniteSetTheorems, TLAPS

-----------------------------------------------------------------------------
(* The pointers to an entry are finitely many. *)
LEMMA HoldersFinite ==
    ASSUME NEW i PROVE IsFiniteSet(Holders(i)) /\ Cardinality(Holders(i)) \in Nat
<1>1. Holders(i) \subseteq Procs
  BY DEF Holders
<1> QED
  BY <1>1, FS_Subset, FS_CardinalityType, InodeCacheAssumption

(* A process that gets a pointer to i is one holder more of i, and of no   *)
(* other entry.                                                            *)
LEMMA PointerGained ==
    ASSUME CacheTypes, NEW p \in Procs, NEW i \in Inodes,
           ip[p] = NoInode, ip' = [ip EXCEPT ![p] = i]
    PROVE  /\ Cardinality(Holders(i)') = Cardinality(Holders(i)) + 1
           /\ \A j \in Inodes \ {i} : Holders(j)' = Holders(j)
<1>1. Holders(i)' = Holders(i) \cup {p}
  BY DEF Holders, CacheTypes
<1>2. p \notin Holders(i)
  BY InodeCacheAssumption DEF Holders
<1>3. \A j \in Inodes \ {i} : Holders(j)' = Holders(j)
  BY InodeCacheAssumption DEF Holders, CacheTypes
<1> QED
  BY <1>1, <1>2, <1>3, HoldersFinite, FS_AddElement

(* A process that gives its pointer up is one holder less. *)
LEMMA PointerDropped ==
    ASSUME CacheTypes, NEW p \in Procs, NEW i \in Inodes,
           ip[p] = i, ip' = [ip EXCEPT ![p] = NoInode]
    PROVE  /\ Cardinality(Holders(i)') = Cardinality(Holders(i)) - 1
           /\ \A j \in Inodes \ {i} : Holders(j)' = Holders(j)
<1>1. Holders(i)' = Holders(i) \ {p}
  BY InodeCacheAssumption DEF Holders, CacheTypes
<1>2. p \in Holders(i)
  BY DEF Holders
<1>3. \A j \in Inodes \ {i} : Holders(j)' = Holders(j)
  BY InodeCacheAssumption DEF Holders, CacheTypes
<1> QED
  BY <1>1, <1>2, <1>3, HoldersFinite, FS_RemoveElement

(* A step that leaves the pointers and the entries alone keeps the counts. *)
LEMMA QuietStep ==
    ASSUME CountInv, CacheTypes', Pointers', UNCHANGED <<ref, inum, ip>>
    PROVE  CountInv'
<1>1. \A i \in Inodes : Holders(i)' = Holders(i)
  BY DEF Holders
<1>2. RefsCounted'
  BY <1>1 DEF CountInv, RefsCounted
<1>3. Referenced' /\ OneEntryPerInode'
  BY DEF CountInv, Referenced, OneEntryPerInode
<1> QED
  BY <1>2, <1>3 DEF CountInv

(* A counter that follows the holders of one entry keeps RefsCounted.      *)
LEMMA CountsFollow ==
    ASSUME CountInv, NEW i \in Inodes, NEW c,
           ref' = [ref EXCEPT ![i] = c],
           c = Cardinality(Holders(i)'),
           \A j \in Inodes \ {i} : Holders(j)' = Holders(j)
    PROVE  RefsCounted'
<1> SUFFICES ASSUME NEW j \in Inodes
             PROVE  ref'[j] = Cardinality(Holders(j)')
  BY DEF RefsCounted
<1>1. CASE j = i
  BY <1>1 DEF CountInv, CacheTypes
<1>2. CASE j # i
  BY <1>2 DEF CountInv, CacheTypes, RefsCounted
<1> QED
  BY <1>1, <1>2

-----------------------------------------------------------------------------
(* iget: the entry it finds or recycles is the only one of the inode. *)
LEMMA IgetStep ==
    ASSUME CountInv, NEW p \in Procs, NEW n \in Inums, NEW t,
           ip[p] = NoInode, Iget(p, n, t)
    PROVE  /\ ref' \in [Inodes -> Nat]
           /\ inum' \in [Inodes -> Inums \cup {0}]
           /\ RefsCounted' /\ Referenced' /\ OneEntryPerInode'
           /\ \/ /\ pc' = [pc EXCEPT ![p] = t]
                 /\ \E i \in Inodes : ip' = [ip EXCEPT ![p] = i]
              \/ /\ pc' = [pc EXCEPT ![p] = "full"]
                 /\ UNCHANGED ip
<1>1. CASE IgetFinds(p, n, t)
  <2>1. PICK i \in Cached(n) : /\ ref' = [ref EXCEPT ![i] = @ + 1]
                               /\ ip' = [ip EXCEPT ![p] = i]
                               /\ Goto(p, t)
                               /\ UNCHANGED <<inum, copy>>
    BY <1>1 DEF IgetFinds
  <2>2. i \in Inodes /\ ref[i] > 0 /\ inum[i] = n
    BY DEF Cached
  <2>3. /\ Cardinality(Holders(i)') = Cardinality(Holders(i)) + 1
        /\ \A j \in Inodes \ {i} : Holders(j)' = Holders(j)
    BY <2>1, <2>2, PointerGained DEF CountInv
  <2>4. ref' = [ref EXCEPT ![i] = ref[i] + 1] /\ ref[i] = Cardinality(Holders(i))
    BY <2>1, <2>2 DEF CountInv, RefsCounted
  <2>5. RefsCounted'
    BY <2>2, <2>3, <2>4, CountsFollow
  <2>6. /\ ref' \in [Inodes -> Nat]
        /\ \A j \in Inodes : ref'[j] > 0 => ref[j] > 0
    BY <2>2, <2>4 DEF CountInv, CacheTypes
  <2>7. Referenced' /\ OneEntryPerInode'
    BY <2>1, <2>6 DEF CountInv, Referenced, OneEntryPerInode
  <2> QED
    BY <2>1, <2>2, <2>5, <2>6, <2>7 DEF Goto, CountInv, CacheTypes
<1>2. CASE IgetRecycles(p, n, t)
  <2>1. PICK i \in Inodes : Recycles(p, i, n, t)
    BY <1>2 DEF IgetRecycles
  <2>2. Cached(n) = {}
    BY <1>2 DEF IgetRecycles
  <2>3. i \in Inodes /\ ref[i] = 0
    BY <2>1 DEF Recycles, Unused
  <2>4. /\ ref' = [ref EXCEPT ![i] = 1]
        /\ inum' = [inum EXCEPT ![i] = n]
        /\ ip' = [ip EXCEPT ![p] = i]
        /\ pc' = [pc EXCEPT ![p] = t]
    BY <2>1 DEF Recycles, Goto
  <2>5. /\ Cardinality(Holders(i)') = Cardinality(Holders(i)) + 1
        /\ \A j \in Inodes \ {i} : Holders(j)' = Holders(j)
    BY <2>3, <2>4, PointerGained DEF CountInv
  <2>6. 1 = Cardinality(Holders(i)')
    BY <2>3, <2>5 DEF CountInv, RefsCounted
  <2>7. RefsCounted'
    BY <2>3, <2>4, <2>5, <2>6, CountsFollow
  <2>8. /\ ref' \in [Inodes -> Nat]
        /\ inum' \in [Inodes -> Inums \cup {0}]
        /\ inum'[i] = n
        /\ \A j \in Inodes \ {i} : ref'[j] = ref[j] /\ inum'[j] = inum[j]
    BY <2>3, <2>4 DEF CountInv, CacheTypes
  <2>9. \A j \in Inodes : ref[j] > 0 => inum[j] # n
    BY <2>2 DEF Cached
  <2>10. Referenced'
    BY <2>8 DEF CountInv, Referenced
  <2>11. OneEntryPerInode'
    BY <2>8, <2>9 DEF CountInv, OneEntryPerInode
  <2>12. \E k \in Inodes : ip' = [ip EXCEPT ![p] = k]
    BY <2>3, <2>4
  <2>13. ref' \in [Inodes -> Nat] /\ inum' \in [Inodes -> Inums \cup {0}]
    BY <2>8
  <2>14. pc' = [pc EXCEPT ![p] = t]
    BY <2>4
  <2> QED
    BY <2>7, <2>10, <2>11, <2>12, <2>13, <2>14
<1>3. CASE IgetFails(p, n)
  <2>1. UNCHANGED <<ref, inum, ip>> /\ pc' = [pc EXCEPT ![p] = "full"]
    BY <1>3 DEF IgetFails, refs, Goto
  <2>2. \A i \in Inodes : Holders(i)' = Holders(i)
    BY <2>1 DEF Holders
  <2>3. RefsCounted' /\ Referenced' /\ OneEntryPerInode'
    BY <2>1, <2>2 DEF CountInv, RefsCounted, Referenced, OneEntryPerInode
  <2> QED
    BY <2>1, <2>3 DEF CountInv, CacheTypes
<1> QED
  BY <1>1, <1>2, <1>3 DEF Iget

(* idup: q becomes a holder of p's entry, which has a reference already. *)
LEMMA IdupStep ==
    ASSUME CountInv, NEW p \in Procs, NEW q \in Procs, Idup(p, q)
    PROVE  CountInv'
<1>0. PICK i \in Inodes : i = ip[p]
  BY DEF Idup, CountInv, CacheTypes
<1>1. /\ ip[q] = NoInode /\ ip' = [ip EXCEPT ![q] = i]
      /\ ref' = [ref EXCEPT ![i] = ref[i] + 1]
      /\ pc[q] = "user" /\ UNCHANGED <<names, inum, pc, job, next>>
  BY <1>0 DEF Idup, At, disk
<1>2. /\ Cardinality(Holders(i)') = Cardinality(Holders(i)) + 1
      /\ \A j \in Inodes \ {i} : Holders(j)' = Holders(j)
  BY <1>1, PointerGained DEF CountInv
<1>3. ref[i] = Cardinality(Holders(i)) /\ ref[i] > 0
  <2>1. p \in Holders(i)
    BY <1>0 DEF Holders
  <2> QED
    BY <2>1, HoldersFinite, FS_EmptySet DEF CountInv, RefsCounted
<1>4. RefsCounted'
  BY <1>1, <1>2, <1>3, CountsFollow
<1>5. CacheTypes'
  BY <1>1 DEF CountInv, CacheTypes
<1>6. \A j \in Inodes : ref'[j] > 0 => ref[j] > 0
  BY <1>1, <1>3 DEF CountInv, CacheTypes
<1>7. Referenced' /\ OneEntryPerInode'
  BY <1>1, <1>6 DEF CountInv, Referenced, OneEntryPerInode
<1>8. Pointers'
  <2> SUFFICES ASSUME NEW r \in Procs
               PROVE  ip'[r] = ip[r] \/ (pc[r] = "user" /\ ip'[r] = i)
    BY <1>1 DEF CountInv, Pointers, WithInode
  <2> QED
    BY <1>1 DEF CountInv, CacheTypes
<1> QED
  BY <1>4, <1>5, <1>7, <1>8 DEF CountInv

(* The end of iput: the holder leaves, and the counter follows. *)
LEMMA DerefStep ==
    ASSUME CountInv, NEW p \in Procs, IputDeref(p)
    PROVE  CountInv'
<1>0. PICK i \in Inodes : i = ip[p]
  BY DEF IputDeref, At, CountInv, Pointers, WithInode
<1>1. /\ ip' = [ip EXCEPT ![p] = NoInode]
      /\ ref' = [ref EXCEPT ![i] = ref[i] - 1]
      /\ pc' = [pc EXCEPT ![p] = "user"]
      /\ job' = [job EXCEPT ![p] = "none"]
      /\ UNCHANGED <<names, inum, next>>
  BY <1>0 DEF IputDeref, Return, Goto, disk
<1>2. /\ Cardinality(Holders(i)') = Cardinality(Holders(i)) - 1
      /\ \A j \in Inodes \ {i} : Holders(j)' = Holders(j)
  BY <1>0, <1>1, PointerDropped DEF CountInv
<1>3. ref[i] = Cardinality(Holders(i)) /\ ref[i] > 0
  <2>1. p \in Holders(i)
    BY <1>0 DEF Holders
  <2> QED
    BY <2>1, HoldersFinite, FS_EmptySet DEF CountInv, RefsCounted
<1>4. RefsCounted'
  BY <1>1, <1>2, <1>3, CountsFollow
<1>5. CacheTypes'
  BY <1>1, <1>3 DEF CountInv, CacheTypes, Codes, Jobs
<1>6. \A j \in Inodes : ref'[j] > 0 => ref[j] > 0
  BY <1>1, <1>3 DEF CountInv, CacheTypes
<1>7. Referenced' /\ OneEntryPerInode'
  BY <1>1, <1>6 DEF CountInv, Referenced, OneEntryPerInode
<1>8. Pointers'
  BY <1>1 DEF CountInv, CacheTypes, Pointers, WithInode
<1> QED
  BY <1>4, <1>5, <1>7, <1>8 DEF CountInv

-----------------------------------------------------------------------------
(* A step of p that leaves all pointers and entries alone: what Pointers   *)
(* asks of the place p goes to must hold of its pointer, its job and its   *)
(* inum in ialloc.                                                         *)
LEMMA ProcessMoves ==
    ASSUME CountInv, NEW p \in Procs, NEW s \in Codes, NEW j \in Jobs,
           NEW n \in Nat,
           pc' = [pc EXCEPT ![p] = s], job' = [job EXCEPT ![p] = j],
           next' = [next EXCEPT ![p] = n], names' \subseteq Inums,
           UNCHANGED <<ref, inum, ip>>,
           s \in WithInode => ip[p] \in Inodes,
           s = "undir" /\ j = "create" => ip[p] \in Inodes,
           s \in {"dir", "lookup", "ialloc", "iget"} => ip[p] = NoInode,
           s = "iget" => n \in Inums,
           s = "lookup" => j \in {"open", "unlink"},
           s \in {"ialloc", "iget"} => j = "create",
           s = "dir" => j \in {"open", "create", "unlink"},
           s \in {"ilock", "load"} => j \in {"use", "create", "unlink"}
    PROVE  CountInv'
<1>1. CacheTypes'
  BY DEF CountInv, CacheTypes
<1>2. Pointers'
  <2> SUFFICES ASSUME NEW q \in Procs
               PROVE  \/ /\ q = p /\ pc'[q] = s /\ job'[q] = j /\ next'[q] = n
                         /\ ip'[q] = ip[p]
                      \/ /\ pc'[q] = pc[q] /\ job'[q] = job[q]
                         /\ next'[q] = next[q] /\ ip'[q] = ip[q]
    BY DEF CountInv, Pointers
  <2> QED
    BY DEF CountInv, CacheTypes
<1> QED
  BY <1>1, <1>2, QuietStep

(* A caller of iget goes on with a pointer, or stops. *)
LEMMA IgetCaller ==
    ASSUME CountInv, NEW p \in Procs, NEW n \in Inums, NEW m \in Nat,
           NEW t \in {"undir", "ilock"},
           ip[p] = NoInode, Iget(p, n, t),
           t = "ilock" => job[p] \in {"use", "create", "unlink"},
           next' = [next EXCEPT ![p] = m], UNCHANGED <<names, job>>
    PROVE  CountInv'
<1>1. /\ ref' \in [Inodes -> Nat]
      /\ inum' \in [Inodes -> Inums \cup {0}]
      /\ RefsCounted' /\ Referenced' /\ OneEntryPerInode'
      /\ \/ /\ pc' = [pc EXCEPT ![p] = t]
            /\ \E i \in Inodes : ip' = [ip EXCEPT ![p] = i]
         \/ /\ pc' = [pc EXCEPT ![p] = "full"]
            /\ UNCHANGED ip
  BY IgetStep
<1>2. CASE /\ pc' = [pc EXCEPT ![p] = t]
           /\ \E i \in Inodes : ip' = [ip EXCEPT ![p] = i]
  <2>1. PICK i \in Inodes : ip' = [ip EXCEPT ![p] = i]
    BY <1>2
  <2>2. CacheTypes'
    BY <1>1, <1>2, <2>1 DEF CountInv, CacheTypes, Codes
  <2>3. Pointers'
    <3> SUFFICES ASSUME NEW q \in Procs
                 PROVE  \/ /\ q = p /\ pc'[q] = t /\ ip'[q] \in Inodes
                           /\ job'[q] = job[p]
                        \/ /\ pc'[q] = pc[q] /\ job'[q] = job[q]
                           /\ next'[q] = next[q] /\ ip'[q] = ip[q]
      BY DEF CountInv, Pointers
    <3> QED
      BY <1>2, <2>1 DEF CountInv, CacheTypes
  <2> QED
    BY <1>1, <2>2, <2>3 DEF CountInv
<1>3. CASE pc' = [pc EXCEPT ![p] = "full"] /\ UNCHANGED ip
  <2>1. CacheTypes'
    BY <1>1, <1>3 DEF CountInv, CacheTypes, Codes
  <2>2. Pointers'
    <3> SUFFICES ASSUME NEW q \in Procs
                 PROVE  \/ pc'[q] = "full"
                        \/ /\ pc'[q] = pc[q] /\ job'[q] = job[q]
                           /\ next'[q] = next[q] /\ ip'[q] = ip[q]
      BY DEF CountInv, Pointers, WithInode
    <3> QED
      BY <1>3 DEF CountInv, CacheTypes
  <2> QED
    BY <1>1, <2>1, <2>2 DEF CountInv
<1> QED
  BY <1>1, <1>2, <1>3

(* acquiresleep moves a process to t, or leaves it asleep where it is. *)
LEMMA AcquiresleepStep ==
    ASSUME CountInv, NEW p \in Procs, NEW k, NEW s, NEW t \in Codes,
           Acquiresleep(p, k, s, t),
           t \in WithInode => ip[p] \in Inodes,
           t \in {"lookup", "ialloc"} => ip[p] = NoInode,
           t = "lookup" => job[p] \in {"open", "unlink"},
           t = "ialloc" => job[p] = "create",
           t \in {"ilock", "load"} => job[p] \in {"use", "create", "unlink"},
           t \notin {"undir", "dir", "iget"}
    PROVE  CountInv'
<1>1. job[p] \in Jobs /\ next[p] \in Nat
  BY DEF CountInv, CacheTypes
<1>2. UNCHANGED <<ref, inum, ip, names, job, next>>
  BY DEF Acquiresleep, disk, refs
<1>3. /\ job' = [job EXCEPT ![p] = job[p]] /\ next' = [next EXCEPT ![p] = next[p]]
      /\ names' \subseteq Inums
  BY <1>2 DEF CountInv, CacheTypes
<1>4. CASE pc' = [pc EXCEPT ![p] = t]
  <2>1. UNCHANGED <<ref, inum, ip>>
    BY <1>2
  <2> QED
    BY <1>1, <1>3, <1>4, <2>1, ProcessMoves
<1>5. CASE UNCHANGED pc
  <2>1. CacheTypes' /\ Pointers'
    BY <1>2, <1>5 DEF CountInv, CacheTypes, Pointers
  <2> QED
    BY <1>2, <2>1, QuietStep
<1> QED
  BY <1>4, <1>5 DEF Acquiresleep, Goto

(* A step that only moves a process inside its call. *)
LEMMA Moves ==
    ASSUME CountInv, NEW p \in Procs, NEW s \in Codes,
           pc' = [pc EXCEPT ![p] = s], UNCHANGED <<ref, inum, ip, job, next>>,
           names' \subseteq Inums,
           s \in WithInode => ip[p] \in Inodes,
           s = "undir" /\ job[p] = "create" => ip[p] \in Inodes,
           s \notin {"dir", "lookup", "ialloc", "iget", "ilock", "load"}
    PROVE  CountInv'
<1>1. CacheTypes'
  BY DEF CountInv, CacheTypes
<1>2. Pointers'
  <2> SUFFICES ASSUME NEW q \in Procs
               PROVE  \/ q = p /\ pc'[q] = s /\ job'[q] = job[p] /\ ip'[q] = ip[p]
                      \/ /\ pc'[q] = pc[q] /\ job'[q] = job[q]
                         /\ next'[q] = next[q] /\ ip'[q] = ip[q]
    BY DEF CountInv, Pointers
  <2> QED
    BY DEF CountInv, CacheTypes
<1> QED
  BY <1>1, <1>2, QuietStep

(* A pointer leads to an entry that caches some inode. *)
LEMMA HolderReferences ==
    ASSUME CountInv, NEW p \in Procs, ip[p] \in Inodes
    PROVE  inum[ip[p]] \in Inums
<1>1. p \in Holders(ip[p])
  BY DEF Holders
<1>2. ref[ip[p]] > 0
  BY <1>1, HoldersFinite, FS_EmptySet DEF CountInv, RefsCounted
<1> QED
  BY <1>2 DEF CountInv, Referenced

(* iunlock moves a process to t, or to a panic. *)
LEMMA IunlockStep ==
    ASSUME CountInv, NEW p \in Procs, NEW k, NEW s,
           NEW t \in {"user", "iunlock", "drop", "iput"}, Iunlock(p, k, s, t),
           t \in WithInode => ip[p] \in Inodes
    PROVE  CountInv'
<1>1. PICK r \in {t, "panic"} : Return(p, r)
  BY DEF Iunlock
<1>2. UNCHANGED <<ref, inum, ip, names, next>>
  BY DEF Iunlock, disk, refs
<1>3. /\ next' = [next EXCEPT ![p] = next[p]] /\ next[p] \in Nat
      /\ job[p] \in Jobs /\ job = [job EXCEPT ![p] = job[p]]
      /\ names' \subseteq Inums
  BY <1>2 DEF CountInv, CacheTypes
<1>4. PICK j \in Jobs : job' = [job EXCEPT ![p] = j]
  BY <1>1, <1>3 DEF Return, Jobs
<1>5. pc' = [pc EXCEPT ![p] = r] /\ r \in {"user", "iunlock", "drop", "iput", "panic"}
  BY <1>1 DEF Return, Goto
<1>6. r \in Codes /\ (r \in WithInode => ip[p] \in Inodes)
  BY <1>1, <1>5 DEF Codes, WithInode
<1>7. UNCHANGED <<ref, inum, ip>>
  BY <1>2
<1> QED
  BY <1>3, <1>4, <1>5, <1>6, <1>7, ProcessMoves

-----------------------------------------------------------------------------
(* The steps one by one *)

LEMMA CallStep ==
    ASSUME CountInv, NEW p \in Procs,
           NEW j \in {"use", "close", "open", "create", "unlink"}, Call(p, j)
    PROVE  CountInv'
<1>1. /\ j \in {"use", "close"} <=> ip[p] # NoInode
      /\ job' = [job EXCEPT ![p] = j]
      /\ UNCHANGED <<names, ref, inum, ip, next>>
  BY DEF Call, disk, refs
<1>2. /\ next' = [next EXCEPT ![p] = next[p]] /\ next[p] \in Nat
      /\ names' \subseteq Inums /\ ip[p] \in Inodes \cup {NoInode}
  BY <1>1 DEF CountInv, CacheTypes
<1>3. UNCHANGED <<ref, inum, ip>> /\ j \in Jobs
  BY <1>1 DEF Jobs
<1>4. CASE j = "use"
  <2>1. pc' = [pc EXCEPT ![p] = "ilock"]
    BY <1>4 DEF Call, Goto
  <2> QED
    BY <1>1, <1>2, <1>3, <1>4, <2>1, ProcessMoves DEF Codes
<1>5. CASE j = "close"
  <2>1. pc' = [pc EXCEPT ![p] = "iput"]
    BY <1>5 DEF Call, Goto
  <2> QED
    BY <1>1, <1>2, <1>3, <1>5, <2>1, ProcessMoves DEF Codes
<1>6. CASE j \in {"open", "create", "unlink"}
  <2>1. pc' = [pc EXCEPT ![p] = "dir"] /\ ip[p] = NoInode
    BY <1>1, <1>6 DEF Call, Goto
  <2> QED
    BY <1>1, <1>2, <1>3, <1>6, <2>1, ProcessMoves DEF Codes, WithInode
<1> QED
  BY <1>4, <1>5, <1>6

LEMMA DirectoryStep ==
    ASSUME CountInv, NEW p \in Procs, Directory(p)
    PROVE  CountInv'
<1>1. CASE LockDir(p)
  <2>1. pc[p] = "dir"
    BY <1>1 DEF LockDir, Acquiresleep, At
  <2>2. job[p] \in {"open", "create", "unlink"} /\ ip[p] = NoInode
    BY <2>1 DEF CountInv, Pointers
  <2>3. CASE job[p] = "create"
    <3>1. Acquiresleep(p, Dir, "dir", "ialloc")
      BY <1>1, <2>3 DEF LockDir
    <3> QED
      BY <2>2, <2>3, <3>1, AcquiresleepStep DEF Codes, WithInode
  <2>4. CASE job[p] # "create"
    <3>1. Acquiresleep(p, Dir, "dir", "lookup")
      BY <1>1, <2>4 DEF LockDir
    <3> QED
      BY <2>2, <2>4, <3>1, AcquiresleepStep DEF Codes, WithInode
  <2> QED
    BY <2>3, <2>4
<1>2. CASE Dirlookup(p)
  <2>1. pc[p] = "lookup" /\ UNCHANGED <<names, job, next>>
    BY <1>2 DEF Dirlookup, At, disk
  <2>2. /\ job[p] \in {"open", "unlink"} /\ ip[p] = NoInode
        /\ next' = [next EXCEPT ![p] = next[p]] /\ next[p] \in Nat
        /\ names \subseteq Inums /\ names' \subseteq Inums
    BY <2>1 DEF CountInv, Pointers, CacheTypes
  <2>3. ASSUME NEW n \in names,
               Iget(p, n, IF job[p] = "open" THEN "undir" ELSE "ilock")
        PROVE  CountInv'
    <3>1. CASE job[p] = "open"
      <4>1. Iget(p, n, "undir")
        BY <2>3, <3>1
      <4> QED
        BY <2>1, <2>2, <4>1, IgetCaller
    <3>2. CASE job[p] = "unlink"
      <4>1. Iget(p, n, "ilock")
        BY <2>3, <3>2
      <4> QED
        BY <2>1, <2>2, <3>2, <4>1, IgetCaller
    <3> QED
      BY <2>2, <3>1, <3>2
  <2>4. CASE Goto(p, "undir") /\ UNCHANGED <<refs, copy, ip>>
    <3>1. /\ pc' = [pc EXCEPT ![p] = "undir"]
          /\ UNCHANGED <<ref, inum, ip, job, next>>
      BY <2>1, <2>4 DEF Goto, refs
    <3> QED
      BY <2>2, <3>1, Moves DEF Codes, WithInode
  <2> QED
    BY <1>2, <2>3, <2>4 DEF Dirlookup
<1>3. CASE Dirlink(p)
  <2>1. pc[p] = "dirlink" /\ pc' = [pc EXCEPT ![p] = "undir"]
    BY <1>3 DEF Dirlink, At, Goto
  <2>2. UNCHANGED <<ref, inum, ip, job, next>> /\ names' = names \cup {inum[ip[p]]}
    BY <1>3 DEF Dirlink, refs
  <2>3. ip[p] \in Inodes
    BY <2>1 DEF CountInv, Pointers, WithInode
  <2>4. inum[ip[p]] \in Inums
    BY <2>3, HolderReferences
  <2>5. names' \subseteq Inums
    BY <2>2, <2>4 DEF CountInv, CacheTypes
  <2> QED
    BY <2>1, <2>2, <2>3, <2>5, Moves DEF Codes, WithInode
<1>4. CASE Dirunlink(p)
  <2>1. pc[p] = "dirunlink" /\ pc' = [pc EXCEPT ![p] = "undir"]
    BY <1>4 DEF Dirunlink, At, Goto
  <2>2. UNCHANGED <<ref, inum, ip, job, next>> /\ names' \subseteq names
    BY <1>4 DEF Dirunlink, refs
  <2>3. ip[p] \in Inodes /\ names' \subseteq Inums
    BY <2>1, <2>2 DEF CountInv, Pointers, CacheTypes, WithInode
  <2> QED
    BY <2>1, <2>2, <2>3, Moves DEF Codes, WithInode
<1>5. CASE UnlockDir(p)
  <2>1. pc[p] = "undir"
    BY <1>5 DEF UnlockDir, Iunlock, At
  <2>2. job[p] = "create" => ip[p] \in Inodes
    BY <2>1 DEF CountInv, Pointers
  <2>3. PICK t : t = CASE job[p] = "create" -> "iunlock"
                       [] job[p] = "unlink" /\ ip[p] # NoInode -> "drop"
                       [] OTHER -> "user"
    OBVIOUS
  <2>4. /\ t \in {"iunlock", "drop", "user"}
        /\ t \in WithInode => ip[p] \in Inodes
    BY <2>2, <2>3 DEF CountInv, CacheTypes, WithInode
  <2>5. Iunlock(p, Dir, "undir", t)
    BY <1>5, <2>3 DEF UnlockDir
  <2> QED
    BY <2>4, <2>5, IunlockStep
<1> QED
  BY <1>1, <1>2, <1>3, <1>4, <1>5 DEF Directory

LEMMA IallocStep ==
    ASSUME CountInv, NEW p \in Procs, Ialloc(p)
    PROVE  CountInv'
<1>0. pc[p] \in {"ialloc", "iget"}
  BY DEF Ialloc, IallocNext, IallocClaim, IallocFails, IallocIget, At
<1>1. /\ ip[p] = NoInode /\ job[p] = "create"
      /\ next[p] \in Nat /\ job[p] \in Jobs /\ names \subseteq Inums
  BY <1>0 DEF CountInv, Pointers, CacheTypes
<1>2. CASE IallocNext(p)
  <2>1. next' = [next EXCEPT ![p] = next[p] + 1] /\ pc[p] = "ialloc"
    BY <1>2 DEF IallocNext, At
  <2>2. UNCHANGED <<ref, inum, ip, pc, job, names>>
    BY <1>2 DEF IallocNext, refs, disk
  <2>3. /\ pc' = [pc EXCEPT ![p] = "ialloc"] /\ job' = [job EXCEPT ![p] = job[p]]
        /\ names' \subseteq Inums /\ next[p] + 1 \in Nat
    BY <1>1, <2>1, <2>2 DEF CountInv, CacheTypes
  <2> QED
    BY <1>1, <2>1, <2>2, <2>3, ProcessMoves DEF Codes, WithInode
<1>3. CASE IallocClaim(p)
  <2>1. next[p] \in Inums /\ pc' = [pc EXCEPT ![p] = "iget"]
    BY <1>3 DEF IallocClaim, Goto
  <2>2. UNCHANGED <<ref, inum, ip, job, next, names>>
    BY <1>3 DEF IallocClaim, refs
  <2>3. /\ next' = [next EXCEPT ![p] = next[p]] /\ job' = [job EXCEPT ![p] = job[p]]
        /\ names' \subseteq Inums
    BY <1>1, <2>2 DEF CountInv, CacheTypes
  <2>4. "iget" \in Codes /\ "iget" \notin WithInode
    BY DEF Codes, WithInode
  <2>5. UNCHANGED <<ref, inum, ip>>
    BY <2>2
  <2> QED
    BY <1>1, <2>1, <2>3, <2>4, <2>5, ProcessMoves
<1>4. CASE IallocFails(p)
  <2>1. pc' = [pc EXCEPT ![p] = "full"]
    BY <1>4 DEF IallocFails, Goto
  <2>2. UNCHANGED <<ref, inum, ip, job, next>> /\ names' \subseteq Inums
    BY <1>1, <1>4 DEF IallocFails, refs, disk
  <2> QED
    BY <2>1, <2>2, Moves DEF Codes, WithInode
<1>5. CASE IallocIget(p)
  <2>1. pc[p] = "iget" /\ Iget(p, next[p], "ilock")
    BY <1>5 DEF IallocIget, At
  <2>2. next[p] \in Inums
    BY <2>1 DEF CountInv, Pointers
  <2>3. next' = [next EXCEPT ![p] = 1] /\ UNCHANGED <<names, job>>
    BY <1>5 DEF IallocIget, disk
  <2> QED
    BY <1>1, <2>1, <2>2, <2>3, IgetCaller
<1> QED
  BY <1>2, <1>3, <1>4, <1>5 DEF Ialloc

LEMMA InodeStep ==
    ASSUME CountInv, NEW p \in Procs,
           Ilock(p) \/ IlockLoad(p) \/ DropLink(p) \/ UnlockInode(p)
    PROVE  CountInv'
<1>1. CASE Ilock(p)
  <2>1. ip[p] \in Inodes
    BY <1>1 DEF Ilock
  <2>2. pc[p] = "ilock"
    BY <1>1 DEF Ilock, Acquiresleep, At
  <2>3. job[p] \in {"use", "create", "unlink"}
    BY <2>2 DEF CountInv, Pointers
  <2>4. CASE ref[ip[p]] < 1
    <3>1. /\ pc' = [pc EXCEPT ![p] = "panic"]
          /\ UNCHANGED <<ref, inum, ip, job, next, names>>
      BY <1>1, <2>4 DEF Ilock, Goto, refs, disk
    <3>2. names' \subseteq Inums
      BY <3>1 DEF CountInv, CacheTypes
    <3> QED
      BY <3>1, <3>2, Moves DEF Codes, WithInode
  <2>5. CASE ~(ref[ip[p]] < 1)
    <3>1. Acquiresleep(p, ip[p], "ilock", "load")
      BY <1>1, <2>5 DEF Ilock
    <3> QED
      BY <2>1, <2>3, <3>1, AcquiresleepStep DEF Codes
  <2> QED
    BY <2>4, <2>5
<1>2. CASE IlockLoad(p)
  <2>1. pc[p] = "load"
    BY <1>2 DEF IlockLoad, At
  <2>2. ip[p] \in Inodes /\ job[p] \in {"use", "create", "unlink"}
    BY <2>1 DEF CountInv, Pointers, WithInode
  <2>3. Locked(p) \in {"iunlock", "dirlink", "dirunlink"}
    BY <2>2 DEF Locked
  <2>4. PICK s \in {"iunlock", "dirlink", "dirunlink", "panic"} : Goto(p, s)
    <3>1. CASE valid[ip[p]]
      BY <1>2, <2>3, <3>1 DEF IlockLoad
    <3>2. CASE ~valid[ip[p]]
      <4>1. Goto(p, IF dtype[inum[ip[p]]] = Free THEN "panic" ELSE Locked(p))
        BY <1>2, <3>2 DEF IlockLoad
      <4> QED
        BY <2>3, <4>1
    <3> QED
      BY <3>1, <3>2
  <2>5. UNCHANGED <<ref, inum, ip, job, next>> /\ names' \subseteq Inums
    BY <1>2 DEF IlockLoad, refs, disk, CountInv, CacheTypes
  <2> QED
    BY <2>2, <2>4, <2>5, Moves DEF Codes, WithInode, Goto
<1>3. CASE DropLink(p)
  <2>1. pc[p] = "drop" /\ pc' = [pc EXCEPT ![p] = "iunlock"]
    BY <1>3 DEF DropLink, At, Goto
  <2>2. UNCHANGED <<ref, inum, ip, job, next>> /\ names' \subseteq Inums
    BY <1>3 DEF DropLink, refs, CountInv, CacheTypes
  <2>3. ip[p] \in Inodes
    BY <2>1 DEF CountInv, Pointers, WithInode
  <2> QED
    BY <2>1, <2>2, <2>3, Moves DEF Codes, WithInode
<1>4. CASE UnlockInode(p)
  <2>1. PICK t \in {"iput", "user"} : Iunlock(p, ip[p], "iunlock", t)
    BY <1>4 DEF UnlockInode
  <2>2. ip[p] \in Inodes
    BY <1>4 DEF UnlockInode
  <2> QED
    BY <2>1, <2>2, IunlockStep DEF WithInode
<1> QED
  BY <1>1, <1>2, <1>3, <1>4

LEMMA IputStep ==
    ASSUME CountInv, NEW p \in Procs, Iput(p)
    PROVE  CountInv'
<1>1. CASE LockToPut(p)
  BY <1>1, AcquiresleepStep DEF LockToPut, Codes
<1>2. CASE IputTest(p) \/ IputFree(p) \/ IputInvalidate(p) \/ IputUnlock(p)
  <2>1. pc[p] \in {"test", "free", "invalidate", "putunlock"}
    BY <1>2 DEF IputTest, IputFree, IputInvalidate, IputUnlock, At
  <2>2. PICK s \in {"free", "invalidate", "putunlock", "deref"} : Goto(p, s)
    BY <1>2 DEF IputTest, IputFree, IputInvalidate, IputUnlock
  <2>3. UNCHANGED <<ref, inum, ip, job, next, names>>
    BY <1>2 DEF IputTest, IputFree, IputInvalidate, IputUnlock, refs, disk
  <2>4. names' \subseteq Inums /\ ip[p] \in Inodes
    BY <2>1, <2>3 DEF CountInv, CacheTypes, Pointers, WithInode
  <2> QED
    BY <2>2, <2>3, <2>4, Moves DEF Codes, Goto
<1>3. CASE IputDeref(p)
  BY <1>3, DerefStep
<1> QED
  BY <1>1, <1>2, <1>3 DEF Iput

-----------------------------------------------------------------------------
(* Nothing is cached at the start. *)
LEMMA CountInit == Init => CountInv
<1> SUFFICES ASSUME Init PROVE CountInv
  OBVIOUS
<1>1. CacheTypes /\ Pointers
  BY DEF Init, CacheTypes, Pointers, Codes, Jobs, WithInode
<1>2. Referenced /\ OneEntryPerInode
  BY DEF Init, Referenced, OneEntryPerInode
<1>3. RefsCounted
  <2> SUFFICES ASSUME NEW i \in Inodes
               PROVE  ref[i] = Cardinality(Holders(i))
    BY DEF RefsCounted
  <2>1. Holders(i) = {}
    BY InodeCacheAssumption DEF Init, Holders
  <2> QED
    BY <2>1, FS_EmptySet DEF Init
<1> QED
  BY <1>1, <1>2, <1>3 DEF CountInv

LEMMA CountNext == CountInv /\ [Next]_vars => CountInv'
<1> SUFFICES ASSUME CountInv, [Next]_vars
             PROVE  CountInv'
  OBVIOUS
<1>1. ASSUME NEW p \in Procs, Step(p)
      PROVE  CountInv'
  BY <1>1, CallStep, IdupStep, DirectoryStep, IallocStep, InodeStep, IputStep
     DEF Step
<1>2. CASE UNCHANGED vars
  <2>1. UNCHANGED <<names, ref, inum, pc, job, ip, next>>
    BY <1>2 DEF vars, disk, refs
  <2>2. CacheTypes' /\ Pointers'
    BY <2>1 DEF CountInv, CacheTypes, Pointers
  <2> QED
    BY <2>1, <2>2, QuietStep
<1> QED
  BY <1>1, <1>2 DEF Next

(* The references of the cache are counted exactly and lead to one entry   *)
(* per inode, in every reachable state: iget, idup, ialloc, iput (fs.c).   *)
THEOREM CacheInvariant == Spec => []CountInv
<1> QED
  BY CountInit, CountNext, PTL DEF Spec

(* ip->ref is the number of C pointers to the entry, so that iget never    *)
(* recycles an entry in use and iput never leaves one unusable; and no     *)
(* inode is cached twice: its sleep lock excludes every other user.        *)
THEOREM CacheCounts == Spec => []CountsSound
<1>1. CountInv => CountsSound
  BY DEF CountInv, CountsSound
<1> QED
  BY <1>1, CacheInvariant, PTL

-----------------------------------------------------------------------------
(* The locks *)

(* What a step of p leaves alone of the other processes. *)
OthersStay(p) ==
    \A q \in Procs \ {p} : pc'[q] = pc[q] /\ job'[q] = job[q] /\ ip'[q] = ip[q]

LEMMA OthersHold ==
    ASSUME NEW p \in Procs, OthersStay(p)
    PROVE  \A q \in Procs \ {p} : /\ HoldsDir(q)' <=> HoldsDir(q)
                                  /\ HoldsInode(q)' <=> HoldsInode(q)
                                  /\ JobFits(q)' <=> JobFits(q)
                                  /\ ip'[q] = ip[q]
BY DEF OthersStay, HoldsDir, HoldsInode, JobFits

(* A process that neither takes nor releases a lock goes where it holds    *)
(* the same locks.                                                         *)
LEMMA LocksKept ==
    ASSUME LockInv, NEW p \in Procs, asleep[p] = NoLock,
           UNCHANGED sleeplocks, OthersStay(p), JobFits(p)',
           HoldsDir(p)' <=> HoldsDir(p),
           HoldsInode(p)' <=> HoldsInode(p),
           HoldsInode(p) => ip'[p] = ip[p]
    PROVE  LockInv'
<1>1. UNCHANGED <<locked, lockpid, asleep>>
  BY DEF sleeplocks
<1>2. \A q \in Procs : /\ HoldsDir(q)' <=> HoldsDir(q)
                       /\ HoldsInode(q)' <=> HoldsInode(q)
                       /\ HoldsInode(q) => ip'[q] = ip[q]
  BY OthersHold
<1>3. SleepLockTypes' /\ JobsFit'
  BY <1>1, OthersHold DEF LockInv, SleepLockTypes, JobsFit
<1>4. LocksOwned'
  BY <1>1, <1>2 DEF LockInv, LocksOwned
<1>5. Sleeping'
  BY <1>1 DEF LockInv, Sleeping, OthersStay
<1> QED
  BY <1>3, <1>4, <1>5 DEF LockInv

(* A process that finds a lock free is its owner from then on. *)
LEMMA LockTaken ==
    ASSUME LockInv, NEW p \in Procs, NEW k \in Locks, Takes(p, k),
           OthersStay(p), JobFits(p)', ip'[p] = ip[p],
           HoldsDir(p)' <=> HoldsDir(p) \/ k = Dir,
           HoldsInode(p)' <=> HoldsInode(p) \/ k # Dir,
           k # Dir => k = ip[p],
           k # Dir => ~HoldsInode(p)
    PROVE  LockInv'
<1>1. /\ asleep[p] = NoLock /\ ~locked[k] /\ asleep' = asleep
      /\ locked' = [locked EXCEPT ![k] = TRUE]
      /\ lockpid' = [lockpid EXCEPT ![k] = p]
  BY DEF Takes
<1>2. locked \in [Locks -> BOOLEAN] /\ lockpid \in [Locks -> Procs \cup {NoProc}]
  BY DEF LockInv, SleepLockTypes
<1>3. lockpid[k] = NoProc
  BY <1>1 DEF LockInv, LocksOwned
<1>4. SleepLockTypes' /\ JobsFit'
  <2>1. SleepLockTypes'
    BY <1>1 DEF LockInv, SleepLockTypes
  <2> QED
    BY <2>1, OthersHold DEF LockInv, JobsFit
<1>5. LocksOwned'
  <2>1. ASSUME NEW l \in Locks PROVE locked'[l] <=> lockpid'[l] # NoProc
    <3>1. CASE l = k
      BY <1>1, <1>2, <3>1, InodeCacheAssumption
    <3>2. CASE l # k
      BY <1>1, <1>2, <3>2 DEF LockInv, LocksOwned
    <3> QED
      BY <3>1, <3>2
  <2>2. \A q \in Procs : lockpid'[Dir] = q <=> HoldsDir(q)'
    <3>1. \A q \in Procs : lockpid[Dir] = q <=> HoldsDir(q)
      BY DEF LockInv, LocksOwned
    <3>2. CASE k = Dir
      BY <1>1, <1>2, <1>3, <3>1, <3>2, OthersHold, InodeCacheAssumption
    <3>3. CASE k # Dir
      <4>1. lockpid'[Dir] = lockpid[Dir]
        BY <1>1, <1>2, <3>3, InodeCacheAssumption
      <4> QED
        BY <3>1, <3>3, <4>1, OthersHold
    <3> QED
      BY <3>2, <3>3
  <2>3. ASSUME NEW q \in Procs, NEW i \in Inodes
        PROVE  lockpid'[i] = q <=> HoldsInode(q)' /\ ip'[q] = i
    <3>1. /\ lockpid[i] = q <=> HoldsInode(q) /\ ip[q] = i
          /\ i \in Locks /\ i # Dir
      BY InodeCacheAssumption DEF LockInv, LocksOwned
    <3>2. CASE k = i
      BY <1>1, <1>2, <1>3, <3>1, <3>2, OthersHold, InodeCacheAssumption
    <3>3. CASE k # i
      <4>1. lockpid'[i] = lockpid[i]
        BY <1>1, <1>2, <3>1, <3>3
      <4> QED
        BY <3>1, <3>3, <4>1, OthersHold
    <3> QED
      BY <3>2, <3>3
  <2> QED
    BY <2>1, <2>2, <2>3 DEF LocksOwned
<1>6. Sleeping'
  <2> SUFFICES ASSUME NEW q \in Procs, asleep[q] # NoLock
               PROVE  /\ locked'[asleep[q]]
                      /\ pc'[q] = pc[q] /\ ip'[q] = ip[q]
    BY <1>1 DEF LockInv, Sleeping
  <2>1. q # p /\ locked[asleep[q]] /\ asleep[q] \in Locks
    BY <1>1 DEF LockInv, Sleeping, SleepLockTypes
  <2> QED
    BY <1>1, <1>2, <2>1 DEF OthersStay
<1> QED
  BY <1>4, <1>5, <1>6 DEF LockInv

(* A process that finds it taken sleeps where it stands. *)
LEMMA LockAwaited ==
    ASSUME LockInv, NEW p \in Procs, NEW k \in Locks, SleepsOn(p, k),
           UNCHANGED <<pc, job, ip>>,
           \/ pc[p] = "dir" /\ k = Dir
           \/ pc[p] \in {"ilock", "iput"} /\ k = ip[p] /\ ip[p] \in Inodes
    PROVE  LockInv'
<1>1. /\ locked[k] /\ asleep' = [asleep EXCEPT ![p] = k]
      /\ UNCHANGED <<locked, lockpid>>
  BY DEF SleepsOn
<1>2. SleepLockTypes' /\ JobsFit'
  BY <1>1 DEF LockInv, SleepLockTypes, JobsFit, JobFits
<1>3. LocksOwned'
  BY <1>1 DEF LockInv, LocksOwned, HoldsDir, HoldsInode
<1>4. Sleeping'
  <2> SUFFICES ASSUME NEW q \in Procs, asleep'[q] # NoLock
               PROVE  /\ locked[asleep'[q]]
                      /\ \/ pc[q] = "dir" /\ asleep'[q] = Dir
                         \/ /\ pc[q] \in {"ilock", "iput"}
                            /\ asleep'[q] = ip[q] /\ ip[q] \in Inodes
    BY <1>1 DEF Sleeping
  <2>1. CASE q = p
    BY <1>1, <2>1 DEF LockInv, SleepLockTypes
  <2>2. CASE q # p
    BY <1>1, <2>2 DEF LockInv, SleepLockTypes, Sleeping
  <2> QED
    BY <2>1, <2>2
<1> QED
  BY <1>2, <1>3, <1>4 DEF LockInv

(* A release leaves the lock to nobody, and nobody asleep on it. *)
LEMMA LockReleased ==
    ASSUME LockInv, NEW p \in Procs, NEW k \in Locks, Releases(k),
           lockpid[k] = p, asleep[p] = NoLock,
           OthersStay(p), JobFits(p)', ip'[p] = ip[p],
           HoldsDir(p)' <=> HoldsDir(p) /\ k # Dir,
           HoldsInode(p)' <=> HoldsInode(p) /\ k = Dir,
           k # Dir => k = ip[p]
    PROVE  LockInv'
<1>1. /\ locked' = [locked EXCEPT ![k] = FALSE]
      /\ lockpid' = [lockpid EXCEPT ![k] = NoProc]
      /\ asleep' = [q \in Procs |-> IF asleep[q] = k THEN NoLock ELSE asleep[q]]
  BY DEF Releases, Wakeup
<1>2. locked \in [Locks -> BOOLEAN] /\ lockpid \in [Locks -> Procs \cup {NoProc}]
  BY DEF LockInv, SleepLockTypes
<1>3. SleepLockTypes' /\ JobsFit'
  <2>1. SleepLockTypes'
    BY <1>1 DEF LockInv, SleepLockTypes
  <2> QED
    BY <2>1, OthersHold DEF LockInv, JobsFit
<1>4. LocksOwned'
  <2>1. ASSUME NEW l \in Locks PROVE locked'[l] <=> lockpid'[l] # NoProc
    <3>1. CASE l = k
      BY <1>1, <1>2, <3>1
    <3>2. CASE l # k
      BY <1>1, <1>2, <3>2 DEF LockInv, LocksOwned
    <3> QED
      BY <3>1, <3>2
  <2>2. \A q \in Procs : lockpid'[Dir] = q <=> HoldsDir(q)'
    <3>1. \A q \in Procs : lockpid[Dir] = q <=> HoldsDir(q)
      BY DEF LockInv, LocksOwned
    <3>2. CASE k = Dir
      BY <1>1, <1>2, <3>1, <3>2, OthersHold, InodeCacheAssumption
    <3>3. CASE k # Dir
      <4>1. lockpid'[Dir] = lockpid[Dir]
        BY <1>1, <1>2, <3>3, InodeCacheAssumption
      <4> QED
        BY <3>1, <3>3, <4>1, OthersHold
    <3> QED
      BY <3>2, <3>3
  <2>3. ASSUME NEW q \in Procs, NEW i \in Inodes
        PROVE  lockpid'[i] = q <=> HoldsInode(q)' /\ ip'[q] = i
    <3>1. /\ lockpid[i] = q <=> HoldsInode(q) /\ ip[q] = i
          /\ i \in Locks /\ i # Dir
      BY InodeCacheAssumption DEF LockInv, LocksOwned
    <3>2. CASE k = i
      BY <1>1, <1>2, <3>1, <3>2, OthersHold, InodeCacheAssumption
    <3>3. CASE k # i
      <4>1. lockpid'[i] = lockpid[i]
        BY <1>1, <1>2, <3>1, <3>3
      <4> QED
        BY <3>1, <3>3, <4>1, OthersHold
    <3> QED
      BY <3>2, <3>3
  <2> QED
    BY <2>1, <2>2, <2>3 DEF LocksOwned
<1>5. Sleeping'
  <2> SUFFICES ASSUME NEW q \in Procs, asleep'[q] # NoLock
               PROVE  /\ locked'[asleep'[q]] /\ asleep'[q] = asleep[q]
                      /\ pc'[q] = pc[q] /\ ip'[q] = ip[q] /\ asleep[q] # NoLock
    BY DEF LockInv, Sleeping
  <2>1. asleep'[q] = asleep[q] /\ asleep[q] # NoLock /\ asleep[q] # k /\ q # p
    BY <1>1
  <2>2. locked[asleep[q]] /\ asleep[q] \in Locks
    BY <2>1 DEF LockInv, Sleeping, SleepLockTypes
  <2> QED
    BY <1>1, <1>2, <2>1, <2>2 DEF OthersStay
<1> QED
  BY <1>3, <1>4, <1>5 DEF LockInv

-----------------------------------------------------------------------------
(* The steps, as far as the locks are concerned *)

LEMMA GoesTo ==
    ASSUME CacheTypes, NEW p \in Procs, NEW s,
           pc' = [pc EXCEPT ![p] = s], UNCHANGED <<job, ip>>
    PROVE  OthersStay(p) /\ pc'[p] = s /\ job'[p] = job[p] /\ ip'[p] = ip[p]
BY DEF CacheTypes, OthersStay

LEMMA CallLocks ==
    ASSUME CountInv, LockInv, NEW p \in Procs,
           NEW j \in {"use", "close", "open", "create", "unlink"}, Call(p, j)
    PROVE  LockInv'
<1>1. /\ pc[p] = "user" /\ asleep[p] = NoLock /\ UNCHANGED <<ip, sleeplocks>>
      /\ job' = [job EXCEPT ![p] = j]
      /\ \E s \in {"ilock", "iput", "dir"} :
            pc' = [pc EXCEPT ![p] = s] /\ (s = "ilock" => j = "use")
  BY DEF Call, At, Goto
<1>2. OthersStay(p) /\ ip'[p] = ip[p] /\ job'[p] = j
  BY <1>1 DEF CountInv, CacheTypes, OthersStay
<1>3. pc'[p] \in {"ilock", "iput", "dir"} /\ (pc'[p] = "ilock" => j = "use")
  BY <1>1 DEF CountInv, CacheTypes
<1>4. /\ ~HoldsDir(p) /\ ~HoldsInode(p) /\ ~HoldsDir(p)' /\ ~HoldsInode(p)'
      /\ JobFits(p)'
  BY <1>1, <1>2, <1>3 DEF HoldsDir, HoldsInode, JobFits, OfDirectory
<1> QED
  BY <1>1, <1>2, <1>4, LocksKept

LEMMA IdupLocks ==
    ASSUME CountInv, LockInv, NEW p \in Procs, NEW q \in Procs, Idup(p, q)
    PROVE  LockInv'
<1>1. /\ pc[q] = "user" /\ asleep[q] = NoLock /\ UNCHANGED <<pc, job, sleeplocks>>
      /\ ip' = [ip EXCEPT ![q] = ip[p]]
  BY DEF Idup, At
<1>2. OthersStay(q)
  BY <1>1 DEF CountInv, CacheTypes, OthersStay
<1>3. /\ ~HoldsDir(q) /\ ~HoldsInode(q) /\ ~HoldsDir(q)' /\ ~HoldsInode(q)'
      /\ JobFits(q)'
  BY <1>1 DEF HoldsDir, HoldsInode, JobFits
<1> QED
  BY <1>1, <1>2, <1>3, LocksKept

(* iget, under the lock of the directory *)
LEMMA IgetLocks ==
    ASSUME CountInv, LockInv, NEW p \in Procs, NEW n,
           asleep[p] = NoLock, UNCHANGED <<job, sleeplocks>>,
           \/ pc[p] = "iget" /\ Iget(p, n, "ilock")
           \/ /\ pc[p] = "lookup"
              /\ Iget(p, n, IF job[p] = "open" THEN "undir" ELSE "ilock")
    PROVE  LockInv'
<1>1. PICK t : Iget(p, n, t) /\ t = IF pc[p] = "lookup" /\ job[p] = "open"
                                    THEN "undir" ELSE "ilock"
  OBVIOUS
<1>2. /\ pc[p] = "iget" => job[p] = "create"
      /\ pc[p] = "lookup" => job[p] \in {"open", "unlink"}
      /\ pc[p] \in {"iget", "lookup"}
  BY DEF CountInv, Pointers
<1>3. /\ \E s \in {t, "full"} : pc' = [pc EXCEPT ![p] = s]
      /\ ip' = ip \/ \E i \in Inodes : ip' = [ip EXCEPT ![p] = i]
  BY <1>1 DEF Iget, IgetFinds, IgetRecycles, Recycles, IgetFails, Goto, Cached
<1>4. OthersStay(p) /\ pc'[p] \in {t, "full"} /\ job'[p] = job[p]
  BY <1>3 DEF CountInv, CacheTypes, OthersStay
<1>5. HoldsDir(p) /\ ~HoldsInode(p)
  BY <1>2 DEF HoldsDir, HoldsInode
<1>6. HoldsDir(p)' /\ ~HoldsInode(p)' /\ JobFits(p)'
  BY <1>1, <1>2, <1>4 DEF HoldsDir, HoldsInode, JobFits, OfDirectory
<1> QED
  BY <1>4, <1>5, <1>6, LocksKept

LEMMA DirectoryLocks ==
    ASSUME CountInv, LockInv, NEW p \in Procs,
           Dirlookup(p) \/ Dirlink(p) \/ Dirunlink(p)
    PROVE  LockInv'
<1>1. asleep[p] = NoLock /\ UNCHANGED <<job, sleeplocks>>
  BY DEF Dirlookup, Dirlink, Dirunlink, At
<1>2. CASE \E n \in names : Dirlookup(p) /\
                Iget(p, n, IF job[p] = "open" THEN "undir" ELSE "ilock")
  BY <1>1, <1>2, IgetLocks DEF Dirlookup, At
<1>3. CASE pc[p] = "lookup" /\ Goto(p, "undir") /\ UNCHANGED ip
  <2>1. job[p] \in {"open", "unlink"} /\ ip[p] = NoInode
    BY <1>3 DEF CountInv, Pointers
  <2>2. /\ OthersStay(p) /\ pc'[p] = "undir" /\ job'[p] = job[p]
        /\ ip'[p] = ip[p]
    BY <1>1, <1>3, GoesTo DEF Goto, CountInv
  <2>3. /\ HoldsDir(p) /\ ~HoldsInode(p) /\ HoldsDir(p)' /\ ~HoldsInode(p)'
        /\ JobFits(p)'
    BY <1>3, <2>1, <2>2 DEF HoldsDir, HoldsInode, JobFits
  <2> QED
    BY <1>1, <2>2, <2>3, LocksKept
<1>4. CASE Dirlink(p) \/ Dirunlink(p)
  <2>1. pc[p] \in {"dirlink", "dirunlink"} /\ Goto(p, "undir") /\ UNCHANGED ip
    BY <1>4 DEF Dirlink, Dirunlink, At
  <2>2. /\ OthersStay(p) /\ pc'[p] = "undir" /\ job'[p] = job[p]
        /\ ip'[p] = ip[p]
    BY <1>1, <2>1, GoesTo DEF Goto, CountInv
  <2>3. ip[p] # NoInode /\ job[p] \in {"create", "unlink"}
    BY <2>1, InodeCacheAssumption
       DEF CountInv, Pointers, WithInode, LockInv, JobsFit, JobFits
  <2>4. /\ HoldsDir(p) /\ HoldsInode(p) /\ HoldsDir(p)' /\ HoldsInode(p)'
        /\ JobFits(p)'
    BY <2>1, <2>2, <2>3 DEF HoldsDir, HoldsInode, JobFits, OfDirectory
  <2> QED
    BY <1>1, <2>2, <2>4, LocksKept
<1> QED
  BY <1>2, <1>3, <1>4 DEF Dirlookup, At

LEMMA IallocLocks ==
    ASSUME CountInv, LockInv, NEW p \in Procs, Ialloc(p)
    PROVE  LockInv'
<1>1. CASE IallocIget(p)
  BY <1>1, IgetLocks DEF IallocIget, At
<1>2. CASE IallocNext(p) \/ IallocClaim(p) \/ IallocFails(p)
  <2>1. /\ pc[p] = "ialloc" /\ asleep[p] = NoLock
        /\ UNCHANGED <<job, ip, sleeplocks>>
        /\ pc' = pc \/ \E s \in {"iget", "full"} : pc' = [pc EXCEPT ![p] = s]
    BY <1>2 DEF IallocNext, IallocClaim, IallocFails, At, Goto
  <2>2. /\ OthersStay(p) /\ pc'[p] \in {"ialloc", "iget", "full"}
        /\ job'[p] = job[p] /\ ip'[p] = ip[p]
    BY <2>1 DEF CountInv, CacheTypes, OthersStay
  <2>3. /\ HoldsDir(p) /\ ~HoldsInode(p) /\ HoldsDir(p)' /\ ~HoldsInode(p)'
        /\ JobFits(p)'
    BY <2>1, <2>2 DEF HoldsDir, HoldsInode, JobFits
  <2> QED
    BY <2>1, <2>2, <2>3, LocksKept
<1> QED
  BY <1>1, <1>2 DEF Ialloc

(* What a process does between ilock and iunlock, and in iput. *)
LEMMA InsideLocks ==
    ASSUME CountInv, LockInv, NoneFreedInUse, NEW p \in Procs,
           \/ IlockLoad(p) \/ DropLink(p) \/ IputTest(p) \/ IputFree(p)
           \/ IputInvalidate(p) \/ IputDeref(p)
    PROVE  LockInv'
<1>1. asleep[p] = NoLock /\ UNCHANGED sleeplocks
  BY DEF IlockLoad, DropLink, IputTest, IputFree, IputInvalidate, IputDeref, At
<1>2. CASE IlockLoad(p)
  <2>1. pc[p] = "load" /\ UNCHANGED <<job, ip>>
    BY <1>2 DEF IlockLoad, At
  <2>2. ip[p] \in Inodes /\ job[p] \in {"use", "create", "unlink"}
    BY <2>1 DEF CountInv, Pointers, WithInode
  <2>3. Goto(p, Locked(p))
    <3>1. dtype[inum[ip[p]]] # Free
      BY <2>1, <2>2, HolderReferences, InodeCacheAssumption DEF NoneFreedInUse
    <3> QED
      BY <1>2, <3>1 DEF IlockLoad
  <2>4. /\ OthersStay(p) /\ pc'[p] = Locked(p) /\ job'[p] = job[p]
        /\ ip'[p] = ip[p]
    BY <2>1, <2>3, GoesTo DEF Goto, CountInv
  <2>5. \/ job[p] = "use" /\ pc'[p] = "iunlock"
        \/ job[p] = "create" /\ pc'[p] = "dirlink"
        \/ job[p] = "unlink" /\ pc'[p] = "dirunlink"
    BY <2>2, <2>4 DEF Locked
  <2>6. /\ HoldsDir(p)' <=> HoldsDir(p)
        /\ HoldsInode(p) /\ HoldsInode(p)' /\ JobFits(p)'
    BY <2>1, <2>4, <2>5 DEF HoldsDir, HoldsInode, JobFits, OfDirectory
  <2> QED
    BY <1>1, <2>4, <2>6, LocksKept
<1>3. CASE DropLink(p) \/ IputTest(p) \/ IputFree(p) \/ IputInvalidate(p)
  <2>1. /\ pc[p] \in {"drop", "test", "free", "invalidate"} /\ UNCHANGED <<job, ip>>
        /\ \E s \in {"iunlock", "free", "invalidate", "putunlock"} :
              pc' = [pc EXCEPT ![p] = s]
    BY <1>3 DEF DropLink, IputTest, IputFree, IputInvalidate, At, Goto
  <2>2. /\ OthersStay(p) /\ job'[p] = job[p] /\ ip'[p] = ip[p]
        /\ pc'[p] \in {"iunlock", "free", "invalidate", "putunlock"}
    BY <2>1, GoesTo DEF CountInv
  <2>3. /\ ~HoldsDir(p) /\ HoldsInode(p) /\ ~HoldsDir(p)' /\ HoldsInode(p)'
        /\ JobFits(p)'
    BY <2>1, <2>2 DEF HoldsDir, HoldsInode, JobFits
  <2> QED
    BY <1>1, <2>2, <2>3, LocksKept
<1>4. CASE IputDeref(p)
  <2>1. /\ pc[p] = "deref" /\ pc' = [pc EXCEPT ![p] = "user"]
        /\ job' = [job EXCEPT ![p] = "none"] /\ ip' = [ip EXCEPT ![p] = NoInode]
    BY <1>4 DEF IputDeref, At, Return, Goto
  <2>2. OthersStay(p) /\ pc'[p] = "user"
    BY <2>1 DEF CountInv, CacheTypes, OthersStay
  <2>3. /\ ~HoldsDir(p) /\ ~HoldsInode(p) /\ ~HoldsDir(p)' /\ ~HoldsInode(p)'
        /\ JobFits(p)'
    BY <2>1, <2>2 DEF HoldsDir, HoldsInode, JobFits
  <2> QED
    BY <1>1, <2>2, <2>3, LocksKept
<1> QED
  BY <1>2, <1>3, <1>4

(* The pointers of iget's callers are counted: ilock finds ref[i] >= 1.    *)
LEMMA PointerCounted ==
    ASSUME CountInv, NEW p \in Procs, ip[p] \in Inodes
    PROVE  ref[ip[p]] > 0
<1>1. p \in Holders(ip[p])
  BY DEF Holders
<1> QED
  BY <1>1, HoldersFinite, FS_EmptySet DEF CountInv, RefsCounted

(* acquiresleep, by its three callers *)
LEMMA AcquireLocks ==
    ASSUME CountInv, LockInv, NEW p \in Procs,
           LockDir(p) \/ Ilock(p) \/ LockToPut(p)
    PROVE  LockInv'
<1>1. CASE LockDir(p)
  <2>1. PICK t \in {"ialloc", "lookup"} : Acquiresleep(p, Dir, "dir", t)
    BY <1>1 DEF LockDir
  <2>2. pc[p] = "dir" /\ UNCHANGED <<job, ip>> /\ Dir \in Locks
    BY <2>1, InodeCacheAssumption DEF Acquiresleep, At
  <2>3. CASE Takes(p, Dir) /\ Goto(p, t)
    <3>1. /\ OthersStay(p) /\ pc'[p] = t /\ job'[p] = job[p] /\ ip'[p] = ip[p]
      BY <2>2, <2>3, GoesTo DEF Goto, CountInv
    <3>2. /\ HoldsDir(p)' /\ ~HoldsInode(p) /\ ~HoldsInode(p)' /\ JobFits(p)'
      BY <2>2, <3>1 DEF HoldsDir, HoldsInode, JobFits
    <3> QED
      BY <2>2, <2>3, <3>1, <3>2, LockTaken
  <2>4. CASE SleepsOn(p, Dir) /\ UNCHANGED pc
    <3>1. UNCHANGED <<pc, job, ip>>
      BY <2>2, <2>4
    <3> QED
      BY <2>2, <2>4, <3>1, LockAwaited
  <2> QED
    BY <2>1, <2>3, <2>4 DEF Acquiresleep
<1>2. CASE Ilock(p) \/ LockToPut(p)
  <2>1. ip[p] \in Inodes /\ ref[ip[p]] > 0
    BY <1>2, PointerCounted DEF Ilock, LockToPut
  <2>2. ~(ref[ip[p]] < 1)
    BY <2>1 DEF CountInv, CacheTypes
  <2>3. \/ Acquiresleep(p, ip[p], "ilock", "load")
        \/ Acquiresleep(p, ip[p], "iput", "test")
    BY <1>2, <2>2 DEF Ilock, LockToPut
  <2>4. /\ ip[p] \in Locks /\ ip[p] # Dir /\ UNCHANGED <<job, ip>>
        /\ pc[p] \in {"ilock", "iput"}
    BY <2>1, <2>3, InodeCacheAssumption DEF Acquiresleep, At
  <2>5. CASE Takes(p, ip[p]) /\ Goto(p, IF pc[p] = "ilock" THEN "load" ELSE "test")
    <3>1. /\ OthersStay(p) /\ job'[p] = job[p] /\ ip'[p] = ip[p]
          /\ pc'[p] = IF pc[p] = "ilock" THEN "load" ELSE "test"
      BY <2>4, <2>5, GoesTo DEF Goto, CountInv
    <3>2. /\ HoldsDir(p)' <=> HoldsDir(p)
          /\ ~HoldsInode(p) /\ HoldsInode(p)' /\ JobFits(p)'
      BY <2>4, <3>1 DEF HoldsDir, HoldsInode, JobFits
    <3> QED
      BY <2>4, <2>5, <3>1, <3>2, LockTaken
  <2>6. CASE SleepsOn(p, ip[p]) /\ UNCHANGED pc
    <3>1. UNCHANGED <<pc, job, ip>>
      BY <2>4, <2>6
    <3> QED
      BY <2>1, <2>4, <2>6, <3>1, LockAwaited
  <2> QED
    BY <2>3, <2>5, <2>6 DEF Acquiresleep, At
<1> QED
  BY <1>1, <1>2

(* iunlock finds its caller holding the lock: it releases it and returns.  *)
LEMMA IunlockReleases ==
    ASSUME CountInv, LockInv, NEW p \in Procs, NEW k \in Locks, NEW s, NEW t,
           Iunlock(p, k, s, t), lockpid[k] = p, k # Dir => k = ip[p]
    PROVE  Releases(k) /\ Return(p, t)
<1>1. locked[k]
  BY InodeCacheAssumption DEF LockInv, LocksOwned
<1>2. k \in Inodes => ref[k] >= 1
  <2>1. k \in Inodes => k = ip[p]
    BY InodeCacheAssumption
  <2> QED
    BY <2>1, PointerCounted DEF CountInv, CacheTypes
<1> QED
  BY <1>1, <1>2 DEF Iunlock, HoldingSleep

LEMMA UnlockDirReleases ==
    ASSUME CountInv, LockInv, NEW p \in Procs, UnlockDir(p)
    PROVE  /\ pc[p] = "undir" /\ Releases(Dir) /\ lockpid[Dir] = p
           /\ Return(p, CASE job[p] = "create" -> "iunlock"
                          [] job[p] = "unlink" /\ ip[p] # NoInode -> "drop"
                          [] OTHER -> "user")
<1>1. pc[p] = "undir" /\ Dir \in Locks
  BY InodeCacheAssumption DEF UnlockDir, Iunlock, At
<1>2. lockpid[Dir] = p
  BY <1>1 DEF LockInv, LocksOwned, HoldsDir
<1> QED
  BY <1>1, <1>2, IunlockReleases DEF UnlockDir

LEMMA UnlockInodeReleases ==
    ASSUME CountInv, LockInv, NEW p \in Procs, UnlockInode(p)
    PROVE  /\ pc[p] = "iunlock" /\ Releases(ip[p]) /\ lockpid[ip[p]] = p
           /\ Return(p, IF job[p] = "unlink" THEN "iput" ELSE "user")
<1>1. pc[p] = "iunlock" /\ ip[p] \in Inodes /\ ip[p] \in Locks
  BY InodeCacheAssumption DEF UnlockInode, Iunlock, At
<1>2. lockpid[ip[p]] = p
  BY <1>1 DEF LockInv, LocksOwned, HoldsInode
<1> QED
  BY <1>1, <1>2, IunlockReleases DEF UnlockInode

LEMMA ReleaseLocks ==
    ASSUME CountInv, LockInv, NEW p \in Procs,
           UnlockDir(p) \/ UnlockInode(p) \/ IputUnlock(p)
    PROVE  LockInv'
<1>1. CASE UnlockDir(p)
  <2>1. PICK t : /\ t = CASE job[p] = "create" -> "iunlock"
                          [] job[p] = "unlink" /\ ip[p] # NoInode -> "drop"
                          [] OTHER -> "user"
                 /\ pc[p] = "undir" /\ Releases(Dir) /\ lockpid[Dir] = p
                 /\ Return(p, t)
    BY <1>1, UnlockDirReleases
  <2>2. job[p] = "create" => ip[p] # NoInode
    BY <2>1, InodeCacheAssumption DEF CountInv, Pointers
  <2>3. /\ asleep[p] = NoLock /\ UNCHANGED ip /\ Dir \in Locks
        /\ pc' = [pc EXCEPT ![p] = t]
        /\ job' = IF t = "user" THEN [job EXCEPT ![p] = "none"] ELSE job
    BY <1>1, <2>1, InodeCacheAssumption DEF UnlockDir, Iunlock, At, Return, Goto
  <2>4. /\ OthersStay(p) /\ pc'[p] = t /\ ip'[p] = ip[p]
        /\ t # "user" => job'[p] = job[p]
    BY <2>3 DEF CountInv, CacheTypes, OthersStay
  <2>5. \/ t = "iunlock" /\ job[p] = "create" /\ ip[p] # NoInode
        \/ t = "drop" /\ job[p] = "unlink" /\ ip[p] # NoInode
        \/ t = "user" /\ ~(job[p] \in {"create", "unlink"} /\ ip[p] # NoInode)
    BY <2>1, <2>2
  <2>6. /\ ~HoldsDir(p)' /\ (HoldsInode(p)' <=> HoldsInode(p)) /\ JobFits(p)'
    BY <2>1, <2>4, <2>5 DEF HoldsDir, HoldsInode, JobFits, OfDirectory
  <2> QED
    BY <2>1, <2>3, <2>4, <2>6, LockReleased
<1>2. CASE UnlockInode(p) \/ IputUnlock(p)
  <2>1. /\ pc[p] \in {"iunlock", "putunlock"} /\ ip[p] \in Inodes
        /\ asleep[p] = NoLock /\ UNCHANGED ip
    BY <1>2 DEF UnlockInode, Iunlock, IputUnlock, At, CountInv, Pointers, WithInode
  <2>2. /\ lockpid[ip[p]] = p /\ ip[p] \in Locks /\ ip[p] # Dir
    BY <2>1, InodeCacheAssumption, ZenonT(60) DEF LockInv, LocksOwned, HoldsInode
  <2>3. /\ Releases(ip[p])
        /\ \E s \in {"iput", "user", "deref"} : pc' = [pc EXCEPT ![p] = s]
        /\ job' = job \/ job' = [job EXCEPT ![p] = "none"]
    BY <1>2, UnlockInodeReleases DEF IputUnlock, Return, Goto
  <2>4. /\ OthersStay(p) /\ ip'[p] = ip[p] /\ pc'[p] \in {"iput", "user", "deref"}
    BY <2>1, <2>3 DEF CountInv, CacheTypes, OthersStay
  <2>5. ~HoldsDir(p) /\ ~HoldsDir(p)' /\ ~HoldsInode(p)' /\ JobFits(p)'
    BY <2>1, <2>4 DEF HoldsDir, HoldsInode, JobFits
  <2> QED
    BY <2>1, <2>2, <2>3, <2>4, <2>5, LockReleased
<1> QED
  BY <1>1, <1>2

LEMMA LockStep ==
    ASSUME CountInv, LockInv, NoneFreedInUse, NEW p \in Procs, Step(p)
    PROVE  LockInv'
BY CallLocks, IdupLocks, DirectoryLocks, IallocLocks, InsideLocks, AcquireLocks,
   ReleaseLocks DEF Step, Directory, Iput

-----------------------------------------------------------------------------
(* Who can be where, given the locks *)

LEMMA OneDirHolder ==
    ASSUME LockInv, NEW p \in Procs, NEW q \in Procs, HoldsDir(p), HoldsDir(q)
    PROVE  p = q
BY DEF LockInv, LocksOwned

(* An inode has one entry, so two pointers to it share its lock. *)
LEMMA SameEntry ==
    ASSUME CountInv, NEW p \in Procs, NEW q \in Procs, NEW n,
           PointsTo(p, n), PointsTo(q, n)
    PROVE  ip[p] = ip[q] /\ ip[p] \in Inodes /\ n \in Inums /\ inum[ip[p]] = n
<1>1. ip[p] \in Inodes /\ ip[q] \in Inodes /\ inum[ip[p]] = n /\ inum[ip[q]] = n
  BY DEF PointsTo, CountInv, CacheTypes
<1> QED
  BY <1>1, PointerCounted, HolderReferences DEF CountInv, OneEntryPerInode

LEMMA OneInodeHolder ==
    ASSUME LockInv, NEW p \in Procs, NEW q \in Procs, ip[p] \in Inodes,
           HoldsInode(p), HoldsInode(q), ip[p] = ip[q]
    PROVE  p = q
BY DEF LockInv, LocksOwned

LEMMA LastHolder ==
    ASSUME CountInv, NEW p \in Procs, NEW q \in Procs,
           ip[p] \in Inodes, ref[ip[p]] = 1, ip[q] = ip[p]
    PROVE  p = q
<1>1. Cardinality(Holders(ip[p])) = 1 /\ IsFiniteSet(Holders(ip[p]))
  BY HoldersFinite DEF CountInv, RefsCounted
<1>2. PICK h : Holders(ip[p]) = {h}
  BY <1>1, FS_Singleton
<1> QED
  BY <1>2 DEF Holders

(* Whoever has loaded the inode and holds its lock sees the disk's copy.   *)
LEMMA CopyIsDisk ==
    ASSUME IInv, NEW p \in Procs, HoldsInode(p), pc[p] # "invalidate",
           ip[p] \in Inodes, valid[ip[p]]
    PROVE  /\ type[ip[p]] = File /\ dtype[inum[ip[p]]] = File
           /\ nlink[ip[p]] = dnlink[inum[ip[p]]]
<1>1. ref[ip[p]] > 0
  BY PointerCounted DEF IInv
<1>2. \A q \in Holders(ip[p]) : pc[q] # "invalidate"
  <2> SUFFICES ASSUME NEW q \in Procs, ip[q] = ip[p], pc[q] = "invalidate"
               PROVE  FALSE
    BY DEF Holders
  <2>1. HoldsInode(q)
    BY DEF HoldsInode
  <2> QED
    BY <2>1, OneInodeHolder DEF IInv
<1> QED
  BY <1>1, <1>2 DEF IInv, DiskInv, WriteThrough

(* The places of create and unlink, and the locks they have there. *)
LEMMA ClaimsHold ==
    ASSUME NEW p, NEW n, Claims(p, n)
    PROVE  HoldsDir(p) /\ pc[p] \notin Leaving
BY DEF Claims, HoldsDir, OfDirectory, Leaving

LEMMA UnlinksHold ==
    ASSUME NEW p, NEW n, Unlinks(p, n)
    PROVE  HoldsInode(p) /\ pc[p] \notin Leaving /\ PointsTo(p, n)
BY DEF Unlinks, HoldsInode, OfDirectory, Leaving, PointsTo

LEMMA FindsHold ==
    ASSUME NEW p, NEW n, Finds(p, n)
    PROVE  HoldsDir(p)
BY DEF Finds, HoldsDir, OfDirectory

(* A process in iput's "free" is the only holder of an inode without name. *)
LEMMA FreesAlone ==
    ASSUME IInv, NEW p \in Procs, pc[p] = "free"
    PROVE  /\ ip[p] \in Inodes /\ inum[ip[p]] \in Inums
           /\ nlink[ip[p]] = 0 /\ dnlink[inum[ip[p]]] = 0
           /\ inum[ip[p]] \notin names
           /\ \A q \in Procs : ip[q] = ip[p] => q = p
           /\ \A q \in Procs : ~Claims(q, inum[ip[p]])
<1>1. ip[p] \in Inodes
  BY DEF IInv, CountInv, Pointers, WithInode
<1>2. valid[ip[p]] /\ nlink[ip[p]] = 0 /\ ref[ip[p]] = 1
  BY DEF IInv, DiskInv, Loaded, HasCopy
<1>3. HoldsInode(p)
  BY DEF HoldsInode
<1>4. dnlink[inum[ip[p]]] = 0
  BY <1>1, <1>2, <1>3, CopyIsDisk
<1>5. inum[ip[p]] \in Inums
  BY <1>1, HolderReferences DEF IInv
<1>6. inum[ip[p]] \notin names
  BY <1>4 DEF IInv, DiskInv, NamedLinked
<1>7. \A q \in Procs : ip[q] = ip[p] => q = p
  BY <1>1, <1>2, LastHolder DEF IInv
<1>8. ASSUME NEW q \in Procs, Claims(q, inum[ip[p]]) PROVE FALSE
  <2>1. PointsTo(p, inum[ip[p]]) /\ pc[p] \notin Leaving
    BY <1>1, InodeCacheAssumption DEF PointsTo, Leaving
  <2>2. q = p
    BY <1>5, <1>8, <2>1 DEF IInv, DiskInv, ClaimedAlone
  <2> QED
    BY <1>8, <2>2 DEF Claims
<1> QED
  BY <1>1, <1>2, <1>4, <1>5, <1>6, <1>7, <1>8

-----------------------------------------------------------------------------
(* What a step of p leaves alone of what the others point to. *)
OthersKeep(p) ==
    /\ OthersStay(p)
    /\ \A q \in Procs \ {p} :
          /\ next'[q] = next[q]
          /\ ip[q] \in Inodes => inum'[ip[q]] = inum[ip[q]]

LEMMA OthersPoint ==
    ASSUME CountInv, NEW p \in Procs, OthersKeep(p), NEW q \in Procs \ {p}, NEW n
    PROVE  /\ PointsTo(q, n)' <=> PointsTo(q, n)
           /\ Claims(q, n)' <=> Claims(q, n)
           /\ Unlinks(q, n)' <=> Unlinks(q, n)
           /\ Finds(q, n)' <=> Finds(q, n)
<1>1. /\ pc'[q] = pc[q] /\ job'[q] = job[q] /\ ip'[q] = ip[q] /\ next'[q] = next[q]
      /\ ip[q] \in Inodes \cup {NoInode}
      /\ ip[q] \in Inodes => inum'[ip[q]] = inum[ip[q]]
  BY DEF OthersKeep, OthersStay, CountInv, CacheTypes
<1>2. PointsTo(q, n)' <=> PointsTo(q, n)
  BY <1>1 DEF PointsTo
<1>3. Claims(q, n)' <=> Claims(q, n)
  BY <1>1, <1>2 DEF Claims
<1>4. Unlinks(q, n)' <=> Unlinks(q, n)
  BY <1>1, <1>2 DEF Unlinks
<1>5. Finds(q, n)' <=> Finds(q, n)
  BY <1>1, <1>2 DEF Finds
<1> QED
  BY <1>2, <1>3, <1>4, <1>5

(* A step that changes neither disk nor cache: p goes where less is asked. *)
LEMMA DiskKept ==
    ASSUME IInv, NEW p \in Procs,
           UNCHANGED <<disk, refs, copy, ip>>, OthersKeep(p),
           pc[p] # "invalidate",
           pc[p] \in Leaving => pc'[p] \in Leaving,
           \A n \in Inums : Claims(p, n)' => Claims(p, n),
           \A n \in Inums : Unlinks(p, n)' => Unlinks(p, n),
           \A n \in Inums : Finds(p, n)' => Finds(p, n),
           HasCopy(p)', pc'[p] # "panic"
    PROVE  DiskInv'
<1>1. UNCHANGED <<dtype, dnlink, names, ref, inum, valid, type, nlink, ip>>
  BY DEF disk, refs, copy
<1>2. CountInv /\ DiskInv
  BY DEF IInv
<1>3. \A q \in Procs, n \in Inums : /\ Claims(q, n)' => Claims(q, n)
                                    /\ Unlinks(q, n)' => Unlinks(q, n)
                                    /\ Finds(q, n)' => Finds(q, n)
                                    /\ PointsTo(q, n)' <=> PointsTo(q, n)
  BY <1>1, <1>2, OthersPoint DEF PointsTo
<1>4. \A q \in Procs \ {p} : pc'[q] = pc[q]
  BY DEF OthersKeep, OthersStay
<1>5. DiskTypes' /\ NamedLinked'
  BY <1>1, <1>2 DEF DiskInv, DiskTypes, NamedLinked
<1>6. ClaimedAlone'
  <2>1. \A q \in Procs : pc[q] \in Leaving => pc'[q] \in Leaving
    BY <1>4
  <2> QED
    BY <1>1, <1>2, <1>3, <2>1 DEF DiskInv, ClaimedAlone
<1>7. UnlinkedOnce' /\ NameKept'
  BY <1>1, <1>2, <1>3 DEF DiskInv, UnlinkedOnce, NameKept
<1>8. Loaded'
  <2>1. \A q \in Procs \ {p} : HasCopy(q)' <=> HasCopy(q)
    BY <1>1, <1>4, OthersHold DEF OthersKeep, HasCopy
  <2> QED
    BY <1>2, <2>1 DEF DiskInv, Loaded
<1>9. WriteThrough'
  <2>1. \A i \in Inodes : Holders(i)' = Holders(i)
    BY <1>1 DEF Holders
  <2>2. \A q \in Procs : pc[q] = "invalidate" => pc'[q] = "invalidate"
    BY <1>4
  <2> QED
    BY <1>1, <1>2, <2>1, <2>2 DEF DiskInv, WriteThrough, Holders
<1>10. NoneFreedInUse'
  <2>1. \A q \in Procs : pc[q] \in {"invalidate", "putunlock", "deref"}
                           => pc'[q] \in {"invalidate", "putunlock", "deref"}
    BY <1>4 DEF Leaving
  <2> QED
    BY <1>1, <1>2, <2>1 DEF DiskInv, NoneFreedInUse
<1>11. NoPanic'
  BY <1>2, <1>4 DEF DiskInv, NoPanic
<1> QED
  BY <1>5, <1>6, <1>7, <1>8, <1>9, <1>10, <1>11 DEF DiskInv

(* The steps that only move their process *)

LEMMA Moved ==
    ASSUME CacheTypes, NEW p \in Procs, NEW s, NEW j,
           pc' = [pc EXCEPT ![p] = s], job' = [job EXCEPT ![p] = j],
           UNCHANGED <<ip, next, inum>>
    PROVE  /\ OthersKeep(p) /\ pc'[p] = s /\ job'[p] = j
           /\ ip'[p] = ip[p] /\ next'[p] = next[p]
           /\ \A n : PointsTo(p, n)' <=> PointsTo(p, n)
BY DEF CacheTypes, OthersKeep, OthersStay, PointsTo

LEMMA JobKept ==
    ASSUME CacheTypes, NEW p \in Procs, UNCHANGED job
    PROVE  job' = [job EXCEPT ![p] = job[p]]
BY DEF CacheTypes

(* A process that nothing is asked of in its new place. *)
Plain == {"user", "dir", "lookup", "ialloc", "iput", "test", "putunlock", "deref", "full"}

LEMMA PlainStep ==
    ASSUME IInv, NEW p \in Procs, UNCHANGED <<disk, refs, copy, ip>>,
           OthersKeep(p), pc'[p] \in Plain, pc[p] # "invalidate",
           pc[p] \in Leaving => pc'[p] \in Leaving
    PROVE  DiskInv'
<1>1. /\ \A n \in Inums : ~Claims(p, n)' /\ ~Unlinks(p, n)' /\ ~Finds(p, n)'
      /\ HasCopy(p)' /\ pc'[p] # "panic"
  BY DEF Claims, Unlinks, Finds, HasCopy, Plain
<1> QED
  BY <1>1, DiskKept

(* A process that falls asleep where it stands. *)
LEMMA StandsStill ==
    ASSUME IInv, UNCHANGED <<disk, refs, copy, pc, job, ip, next>>
    PROVE  DiskInv'
<1>1. UNCHANGED <<dtype, dnlink, names, ref, inum, valid, type, nlink>>
  BY DEF disk, refs, copy
<1>2. DiskTypes' /\ NamedLinked' /\ NoPanic'
  BY <1>1 DEF IInv, DiskInv, DiskTypes, NamedLinked, NoPanic
<1>3. ClaimedAlone'
  BY <1>1 DEF IInv, DiskInv, ClaimedAlone, Claims, PointsTo
<1>4. UnlinkedOnce' /\ NameKept'
  BY <1>1 DEF IInv, DiskInv, UnlinkedOnce, NameKept, Unlinks, Finds, PointsTo
<1>5. Loaded'
  BY <1>1 DEF IInv, DiskInv, Loaded, HasCopy, HoldsInode
<1>6. WriteThrough' /\ NoneFreedInUse'
  BY <1>1 DEF IInv, DiskInv, WriteThrough, NoneFreedInUse, Holders
<1> QED
  BY <1>2, <1>3, <1>4, <1>5, <1>6 DEF DiskInv

LEMMA CallDisk ==
    ASSUME IInv, NEW p \in Procs,
           NEW j \in {"use", "close", "open", "create", "unlink"}, Call(p, j)
    PROVE  DiskInv'
<1>1. /\ pc[p] = "user" /\ UNCHANGED <<disk, refs, copy, ip>>
      /\ UNCHANGED <<ip, next, inum>>
  BY DEF Call, At, refs
<1>2. PICK s : /\ s \in {"ilock", "iput", "dir"}
               /\ pc' = [pc EXCEPT ![p] = s] /\ (s = "ilock" => j = "use")
  BY DEF Call, Goto
<1>3. job' = [job EXCEPT ![p] = j]
  BY DEF Call
<1>4. OthersKeep(p) /\ pc'[p] = s /\ job'[p] = j
  BY <1>1, <1>2, <1>3, Moved DEF IInv, CountInv
<1>5. CASE s = "ilock"
  <2>1. /\ \A n \in Inums : ~Claims(p, n)' /\ ~Unlinks(p, n)' /\ ~Finds(p, n)'
        /\ HasCopy(p)' /\ pc'[p] # "panic"
    BY <1>2, <1>4, <1>5 DEF Claims, Unlinks, Finds, HasCopy
  <2>2. pc[p] \notin Leaving
    BY <1>1 DEF Leaving
  <2> QED
    BY <1>1, <1>4, <2>1, <2>2, DiskKept
<1>6. CASE s \in {"iput", "dir"}
  BY <1>1, <1>4, <1>6, PlainStep DEF Plain, Leaving
<1> QED
  BY <1>2, <1>5, <1>6

LEMMA AcquireDisk ==
    ASSUME IInv, NEW p \in Procs, LockDir(p) \/ Ilock(p) \/ LockToPut(p)
    PROVE  DiskInv'
<1>1. CASE LockDir(p) \/ LockToPut(p)
  <2>1. PICK t \in {"ialloc", "lookup", "test"} :
          \/ Acquiresleep(p, Dir, "dir", t)
          \/ Acquiresleep(p, ip[p], "iput", t)
    BY <1>1 DEF LockDir, LockToPut
  <2>2. /\ pc[p] \in {"dir", "iput"} /\ UNCHANGED <<disk, refs, copy, ip>>
        /\ UNCHANGED <<job, next, inum>>
        /\ pc' = [pc EXCEPT ![p] = t] \/ UNCHANGED pc
    BY <2>1 DEF Acquiresleep, At, Goto, refs
  <2>3. CASE pc' = [pc EXCEPT ![p] = t]
    <3>1. OthersKeep(p) /\ pc'[p] = t
      BY <2>2, <2>3, Moved, JobKept DEF IInv, CountInv
    <3> QED
      BY <2>1, <2>2, <3>1, PlainStep DEF Plain, Leaving
  <2> QED
    BY <2>2, <2>3, StandsStill
<1>2. CASE Ilock(p)
  <2>1. ip[p] \in Inodes /\ ref[ip[p]] > 0
    BY <1>2, PointerCounted DEF Ilock, IInv
  <2>2. ~(ref[ip[p]] < 1)
    BY <2>1 DEF IInv, CountInv, CacheTypes
  <2>3. Acquiresleep(p, ip[p], "ilock", "load")
    BY <1>2, <2>2 DEF Ilock
  <2>4. /\ pc[p] = "ilock" /\ UNCHANGED <<disk, refs, copy, ip>>
        /\ UNCHANGED <<job, next, inum>>
        /\ pc' = [pc EXCEPT ![p] = "load"] \/ UNCHANGED pc
    BY <2>3 DEF Acquiresleep, At, Goto, refs
  <2>5. CASE pc' = [pc EXCEPT ![p] = "load"]
    <3>1. /\ OthersKeep(p) /\ pc'[p] = "load" /\ job'[p] = job[p]
          /\ \A n : PointsTo(p, n)' <=> PointsTo(p, n)
      BY <2>4, <2>5, Moved, JobKept DEF IInv, CountInv
    <3>2. /\ \A n \in Inums : /\ Claims(p, n)' => Claims(p, n)
                              /\ ~Unlinks(p, n)'
                              /\ Finds(p, n)' => Finds(p, n)
          /\ HasCopy(p)' /\ pc'[p] # "panic"
      BY <2>4, <3>1 DEF Claims, Unlinks, Finds, HasCopy
    <3> QED
      BY <2>4, <3>1, <3>2, DiskKept DEF Leaving
  <2> QED
    BY <2>4, <2>5, StandsStill
<1> QED
  BY <1>1, <1>2

LEMMA ReleaseDisk ==
    ASSUME IInv, NEW p \in Procs,
           UnlockDir(p) \/ UnlockInode(p) \/ IputUnlock(p)
    PROVE  DiskInv'
<1>0. CountInv /\ LockInv /\ CacheTypes
  BY DEF IInv, CountInv
<1>1. /\ UNCHANGED <<disk, refs, copy, ip>> /\ UNCHANGED <<ip, next, inum>>
  BY DEF UnlockDir, UnlockInode, Iunlock, IputUnlock, refs
<1>2. CASE UnlockDir(p)
  <2>1. PICK t : /\ t = CASE job[p] = "create" -> "iunlock"
                          [] job[p] = "unlink" /\ ip[p] # NoInode -> "drop"
                          [] OTHER -> "user"
                 /\ pc[p] = "undir" /\ Return(p, t)
    BY <1>0, <1>2, UnlockDirReleases
  <2>2. PICK j : job' = [job EXCEPT ![p] = j] /\ (t # "user" => j = job[p])
    <3>1. CASE t = "user"
      BY <2>1, <3>1 DEF Return
    <3>2. CASE t # "user"
      <4>1. job' = job
        BY <2>1, <3>2 DEF Return
      <4> QED
        BY <1>0, <4>1, JobKept
    <3> QED
      BY <3>1, <3>2
  <2>3. /\ OthersKeep(p) /\ pc'[p] = t /\ job'[p] = j
        /\ \A n : PointsTo(p, n)' <=> PointsTo(p, n)
    <3>1. pc' = [pc EXCEPT ![p] = t]
      BY <2>1 DEF Return, Goto
    <3> QED
      BY <1>0, <1>1, <2>2, <3>1, Moved
  <2>4. CASE t = "user"
    BY <1>1, <2>1, <2>3, <2>4, PlainStep DEF Plain, Leaving
  <2>5. CASE t # "user"
    <3>1. \/ t = "iunlock" /\ job[p] = "create" /\ ip[p] \in Inodes
          \/ t = "drop" /\ job[p] = "unlink" /\ ip[p] \in Inodes
      BY <1>0, <2>1, <2>5 DEF CountInv, CacheTypes, Pointers
    <3>2. HoldsInode(p)
      BY <2>1, <3>1, InodeCacheAssumption DEF HoldsInode, OfDirectory
    <3>3. valid[ip[p]]
      BY <2>1, <3>2 DEF IInv, DiskInv, Loaded, HasCopy
    <3>4. /\ \A n \in Inums : /\ ~Claims(p, n)' /\ ~Finds(p, n)'
                              /\ Unlinks(p, n)' => Unlinks(p, n)
          /\ pc'[p] # "panic" /\ pc[p] \notin Leaving /\ pc[p] # "invalidate"
      BY <2>1, <2>2, <2>3, <3>1 DEF Claims, Unlinks, Finds, Leaving
    <3>5. HasCopy(p)'
      BY <1>1, <2>3, <3>1, <3>3 DEF HasCopy, copy
    <3> QED
      BY <1>1, <2>3, <3>4, <3>5, DiskKept
  <2> QED
    BY <2>4, <2>5
<1>3. CASE UnlockInode(p) \/ IputUnlock(p)
  <2>1. PICK t \in {"iput", "user", "deref"} : \E j :
          /\ pc' = [pc EXCEPT ![p] = t] /\ job' = [job EXCEPT ![p] = j]
          /\ \/ pc[p] = "iunlock"
             \/ pc[p] = "putunlock" /\ t = "deref"
    BY <1>0, <1>3, UnlockInodeReleases, JobKept
       DEF IputUnlock, At, Return, Goto
  <2>2. OthersKeep(p) /\ pc'[p] = t
    BY <1>0, <1>1, <2>1, Moved
  <2> QED
    BY <1>1, <2>1, <2>2, PlainStep DEF Plain, Leaving
<1> QED
  BY <1>2, <1>3

(* iput's test, under icache.lock and with the sleep lock in hand. *)
LEMMA TestDisk ==
    ASSUME IInv, NEW p \in Procs, IputTest(p)
    PROVE  DiskInv'
<1>0. CacheTypes
  BY DEF IInv, CountInv
<1>1. /\ pc[p] = "test" /\ UNCHANGED <<disk, refs, copy, ip>>
      /\ UNCHANGED <<ip, next, inum, job>>
      /\ pc' = [pc EXCEPT ![p] = IF LastNameless(p) THEN "free" ELSE "putunlock"]
  BY DEF IputTest, At, Goto, refs
<1>2. /\ OthersKeep(p)
      /\ pc'[p] = IF LastNameless(p) THEN "free" ELSE "putunlock"
  <2>1. job' = [job EXCEPT ![p] = job[p]]
    BY <1>0, <1>1, JobKept
  <2>2. PICK s : s = IF LastNameless(p) THEN "free" ELSE "putunlock"
    OBVIOUS
  <2>3. pc' = [pc EXCEPT ![p] = s] /\ UNCHANGED <<ip, next, inum>>
    BY <1>1, <2>2
  <2> QED
    BY <1>0, <2>1, <2>2, <2>3, Moved, ZenonT(60)
<1>3. CASE LastNameless(p)
  <2>1. HasCopy(p)'
    BY <1>1, <1>2, <1>3 DEF HasCopy, LastNameless, copy, refs
  <2>2. /\ \A n \in Inums : ~Claims(p, n)' /\ ~Unlinks(p, n)' /\ ~Finds(p, n)'
        /\ pc'[p] # "panic"
    BY <1>2, <1>3 DEF Claims, Unlinks, Finds
  <2> QED
    BY <1>1, <1>2, <2>1, <2>2, DiskKept DEF Leaving
<1>4. CASE ~LastNameless(p)
  BY <1>1, <1>2, <1>4, PlainStep DEF Plain, Leaving
<1> QED
  BY <1>3, <1>4

(* ialloc tests a dinode and goes on, or stops. *)
LEMMA ScanDisk ==
    ASSUME IInv, NEW p \in Procs, IallocNext(p) \/ IallocFails(p)
    PROVE  DiskInv'
<1>1. /\ pc[p] = "ialloc" /\ UNCHANGED <<disk, refs, copy, ip>>
      /\ UNCHANGED <<job, inum, ip>>
      /\ pc' = pc \/ pc' = [pc EXCEPT ![p] = "full"]
      /\ next' = next \/ next' = [next EXCEPT ![p] = next[p] + 1]
  BY DEF IallocNext, IallocFails, At, Goto, refs
<1>2. OthersKeep(p) /\ pc'[p] \in {"ialloc", "full"}
  BY <1>1 DEF IInv, CountInv, CacheTypes, OthersKeep, OthersStay
<1> QED
  BY <1>1, <1>2, PlainStep DEF Plain, Leaving

(* A dinode that ialloc claims has no name and no user: whoever still has  *)
(* a pointer to it is on the way out of iput.                              *)
LEMMA ClaimDisk ==
    ASSUME IInv, NEW p \in Procs, IallocClaim(p)
    PROVE  DiskInv'
<1> DEFINE m == next[p]
<1>1. /\ pc[p] = "ialloc" /\ m \in Inums /\ dtype[m] = Free
      /\ dtype' = [dtype EXCEPT ![m] = File] /\ dnlink' = [dnlink EXCEPT ![m] = 0]
      /\ pc' = [pc EXCEPT ![p] = "iget"]
      /\ UNCHANGED <<names, ref, inum, valid, type, nlink, job, ip, next>>
  BY DEF IallocClaim, At, Goto, refs, copy
<1>2. CountInv /\ DiskInv /\ LockInv /\ CacheTypes /\ DiskTypes
  BY DEF IInv, CountInv, DiskInv
<1>3. /\ OthersKeep(p) /\ pc'[p] = "iget" /\ next'[p] = m
      /\ \A n : PointsTo(p, n)' <=> PointsTo(p, n)
  BY <1>1, <1>2, Moved, JobKept
<1>4. m \notin names
  BY <1>1, <1>2 DEF DiskInv, NoneFreedInUse
<1>5. \A q \in Procs : PointsTo(q, m) => pc[q] \in Leaving /\ q # p
  BY <1>1, <1>2 DEF DiskInv, NoneFreedInUse, PointsTo, Leaving
<1> HIDE DEF m
<1>6. \A n \in Inums \ {m} : dtype'[n] = dtype[n] /\ dnlink'[n] = dnlink[n]
  BY <1>1, <1>2 DEF DiskTypes
<1>7. dtype'[m] = File /\ dnlink'[m] = 0
  BY <1>1, <1>2 DEF DiskTypes
<1>8. \A q \in Procs \ {p} : \A n :
        /\ PointsTo(q, n)' <=> PointsTo(q, n)
        /\ Claims(q, n)' <=> Claims(q, n)
        /\ Unlinks(q, n)' <=> Unlinks(q, n)
        /\ Finds(q, n)' <=> Finds(q, n)
  BY <1>2, <1>3, OthersPoint
<1>9. \A n : /\ Claims(p, n)' => n = m
             /\ ~Unlinks(p, n)' /\ ~Finds(p, n)'
  BY <1>3 DEF Claims, Unlinks, Finds
<1>10. \A q \in Procs \ {p} : pc'[q] = pc[q]
  BY <1>3 DEF OthersKeep, OthersStay
<1>11. DiskTypes' /\ NamedLinked' /\ NoPanic'
  <2>1. DiskTypes'
    BY <1>1, <1>2 DEF DiskTypes
  <2>2. NamedLinked'
    BY <1>1, <1>2, <1>4, <1>6 DEF DiskInv, NamedLinked, CacheTypes
  <2>3. NoPanic'
    BY <1>2, <1>3, <1>10 DEF DiskInv, NoPanic
  <2> QED
    BY <2>1, <2>2, <2>3
<1>12. ClaimedAlone'
  <2> SUFFICES ASSUME NEW q \in Procs, NEW n \in Inums, Claims(q, n)'
               PROVE  /\ dtype'[n] = File /\ dnlink'[n] = 0 /\ n \notin names
                      /\ \A r \in Procs \ {q} :
                            PointsTo(r, n)' => pc'[r] \in Leaving
    BY <1>1 DEF ClaimedAlone
  <2>1. q = p
    <3> SUFFICES ASSUME q # p PROVE FALSE
      OBVIOUS
    <3>1. HoldsDir(q)
      BY <1>8, ClaimsHold
    <3>2. HoldsDir(p)
      BY <1>1 DEF HoldsDir
    <3> QED
      BY <1>2, <3>1, <3>2, OneDirHolder
  <2>2. n = m
    BY <1>9, <2>1
  <2> QED
    BY <1>4, <1>5, <1>7, <1>8, <1>10, <2>1, <2>2
<1>13. UnlinkedOnce' /\ NameKept'
  <2>1. ASSUME NEW q \in Procs, NEW n \in Inums, Unlinks(q, n)'
        PROVE  n \notin names /\ dnlink'[n] = 1
    <3>1. q # p /\ Unlinks(q, n)
      BY <1>8, <1>9, <2>1
    <3>2. n # m
      BY <1>5, <3>1, UnlinksHold
    <3> QED
      BY <1>2, <1>6, <3>1, <3>2 DEF DiskInv, UnlinkedOnce
  <2>2. NameKept'
    BY <1>1, <1>2, <1>8, <1>9 DEF DiskInv, NameKept
  <2> QED
    BY <1>1, <2>1, <2>2 DEF UnlinkedOnce
<1>14. Loaded'
  <2>1. \A q \in Procs \ {p} : HasCopy(q)' <=> HasCopy(q)
    BY <1>1, <1>3, <1>10, OthersHold DEF OthersKeep, HasCopy
  <2>2. HasCopy(p)'
    BY <1>3 DEF HasCopy
  <2> QED
    BY <1>2, <2>1, <2>2 DEF DiskInv, Loaded
<1>15. WriteThrough'
  <2> SUFFICES ASSUME NEW i \in Inodes, ref[i] > 0, valid[i],
                      \A q \in Holders(i)' : pc'[q] # "invalidate"
               PROVE  /\ type[i] = File /\ dtype'[inum[i]] = File
                      /\ nlink[i] = dnlink'[inum[i]]
    BY <1>1 DEF WriteThrough
  <2>1. \A q \in Holders(i) : pc[q] # "invalidate"
    BY <1>1, <1>3, <1>10 DEF Holders
  <2>2. /\ type[i] = File /\ dtype[inum[i]] = File /\ nlink[i] = dnlink[inum[i]]
        /\ inum[i] \in Inums
    BY <1>2, <2>1 DEF DiskInv, WriteThrough, CountInv, Referenced
  <2>3. inum[i] # m
    BY <1>1, <2>2, InodeCacheAssumption DEF m
  <2> QED
    BY <1>6, <2>2, <2>3
<1>16. NoneFreedInUse'
  <2> SUFFICES ASSUME NEW n \in Inums, dtype'[n] = Free
               PROVE  /\ n \notin names
                      /\ \A q \in Procs : ip[q] # NoInode /\ inum[ip[q]] = n
                            => pc'[q] \in {"invalidate", "putunlock", "deref"}
    BY <1>1 DEF NoneFreedInUse
  <2>1. n # m /\ dtype[n] = Free
    BY <1>6, <1>7, InodeCacheAssumption
  <2> QED
    BY <1>1, <1>2, <1>10, <2>1 DEF DiskInv, NoneFreedInUse
<1> QED
  BY <1>11, <1>12, <1>13, <1>14, <1>15, <1>16 DEF DiskInv

(* The inode that iget is called for, and why. *)
Wants(p, n, t) ==
    \/ pc[p] = "lookup" /\ n \in names /\ job[p] = "open" /\ t = "undir"
    \/ pc[p] = "lookup" /\ n \in names /\ job[p] = "unlink" /\ t = "ilock"
    \/ pc[p] = "iget" /\ next[p] = n /\ job[p] = "create" /\ t = "ilock"

LEMMA WantedExists ==
    ASSUME IInv, NEW p \in Procs, NEW n \in Inums, NEW t, Wants(p, n, t)
    PROVE  /\ dtype[n] = File /\ HoldsDir(p) /\ ip[p] = NoInode
           /\ pc[p] \notin Leaving
           /\ \A q \in Procs : pc[q] = "free" /\ ip[q] \in Inodes => inum[ip[q]] # n
<1>1. pc[p] = "iget" /\ next[p] = n => Claims(p, n)
  BY DEF Claims
<1>2. dtype[n] = File
  BY <1>1 DEF Wants, IInv, DiskInv, NamedLinked, ClaimedAlone
<1>3. HoldsDir(p) /\ ip[p] = NoInode /\ pc[p] \notin Leaving
  BY DEF Wants, HoldsDir, IInv, CountInv, Pointers, Leaving
<1>4. n \in names \/ Claims(p, n)
  BY <1>1 DEF Wants
<1>5. \A q \in Procs : pc[q] = "free" => inum[ip[q]] # n
  BY <1>4, FreesAlone
<1> QED
  BY <1>2, <1>3, <1>5

(* The new pointer is one of a name's or of the claimer's; everything else *)
(* is as before, but for one counter, or one entry that nobody points to.  *)
LEMMA NewPointer ==
    ASSUME IInv, NEW p \in Procs, NEW n \in Inums, NEW t, Wants(p, n, t),
           NEW i \in Inodes, ip' = [ip EXCEPT ![p] = i], inum'[i] = n,
           OthersKeep(p), pc'[p] = t, job'[p] = job[p], UNCHANGED disk,
           DiskTypes', WriteThrough',
           \A q \in Procs \ {p} : HasCopy(q)' <=> HasCopy(q)
    PROVE  DiskInv'
<1>1. UNCHANGED <<dtype, dnlink, names>>
  BY DEF disk
<1>2. CountInv /\ DiskInv /\ LockInv /\ CacheTypes
  BY DEF IInv, CountInv
<1>3. \A q \in Procs \ {p} : \A m :
        /\ PointsTo(q, m)' <=> PointsTo(q, m)
        /\ Claims(q, m)' <=> Claims(q, m)
        /\ Unlinks(q, m)' <=> Unlinks(q, m)
        /\ Finds(q, m)' <=> Finds(q, m)
  BY <1>2, OthersPoint
<1>4. \A q \in Procs \ {p} : pc'[q] = pc[q]
  BY DEF OthersKeep, OthersStay
<1>5. /\ dtype[n] = File /\ HoldsDir(p) /\ t \in {"undir", "ilock"}
      /\ t = "undir" => job[p] = "open"
      /\ t = "ilock" => \/ job[p] = "unlink" /\ n \in names
                        \/ job[p] = "create" /\ Claims(p, n)
  BY WantedExists DEF Wants, Claims
<1>6. ip'[p] = i /\ \A m : PointsTo(p, m)' => m = n
  BY <1>2, InodeCacheAssumption DEF PointsTo, CacheTypes
<1>7. NamedLinked' /\ NoPanic'
  BY <1>1, <1>2, <1>4, <1>5 DEF DiskInv, NamedLinked, NoPanic
<1>8. ClaimedAlone'
  <2> SUFFICES ASSUME NEW q \in Procs, NEW m \in Inums, Claims(q, m)'
               PROVE  /\ dtype[m] = File /\ dnlink[m] = 0 /\ m \notin names
                      /\ \A r \in Procs \ {q} :
                            PointsTo(r, m)' => pc'[r] \in Leaving
    BY <1>1 DEF ClaimedAlone
  <2>1. q = p
    <3> SUFFICES ASSUME q # p PROVE FALSE
      OBVIOUS
    <3>1. HoldsDir(q)
      BY <1>3, ClaimsHold
    <3> QED
      BY <1>2, <1>5, <3>1, OneDirHolder
  <2>2. job[p] = "create" /\ m = n
    BY <1>5, <1>6, <2>1 DEF Claims
  <2>3. Claims(p, n)
    BY <1>5, <2>1, <2>2 DEF Claims
  <2> QED
    BY <1>2, <1>3, <1>4, <2>1, <2>2, <2>3 DEF DiskInv, ClaimedAlone
<1>9. UnlinkedOnce'
  <2>1. \A m : ~Unlinks(p, m)'
    BY <1>5 DEF Unlinks
  <2> QED
    BY <1>1, <1>2, <1>3, <2>1 DEF DiskInv, UnlinkedOnce
<1>10. NameKept'
  <2>1. \A m : Finds(p, m)' => m \in names
    BY <1>5, <1>6 DEF Finds
  <2> QED
    BY <1>1, <1>2, <1>3, <2>1 DEF DiskInv, NameKept
<1>11. Loaded'
  <2>1. HasCopy(p)'
    BY <1>5 DEF HasCopy, HoldsInode, OfDirectory
  <2> QED
    BY <1>2, <2>1 DEF DiskInv, Loaded
<1>12. NoneFreedInUse'
  <2> SUFFICES ASSUME NEW m \in Inums, dtype[m] = Free
               PROVE  /\ m \notin names
                      /\ \A q \in Procs : PointsTo(q, m)' =>
                            pc'[q] \in {"invalidate", "putunlock", "deref"}
    BY <1>1 DEF NoneFreedInUse, PointsTo
  <2>1. \A q \in Procs : PointsTo(q, m)' => q # p
    BY <1>5, <1>6, InodeCacheAssumption
  <2> QED
    BY <1>2, <1>3, <1>4, <2>1 DEF DiskInv, NoneFreedInUse, PointsTo
<1> QED
  BY <1>7, <1>8, <1>9, <1>10, <1>11, <1>12 DEF DiskInv

LEMMA IgetDisk ==
    ASSUME IInv, NEW p \in Procs, NEW n \in Inums, NEW t, Wants(p, n, t),
           Iget(p, n, t), UNCHANGED <<disk, job>>,
           \A q \in Procs \ {p} : next'[q] = next[q]
    PROVE  DiskInv'
<1>1. CountInv /\ DiskInv /\ LockInv /\ CacheTypes /\ DiskTypes
  BY DEF IInv, CountInv, DiskInv
<1>2. /\ dtype[n] = File /\ HoldsDir(p) /\ ip[p] = NoInode /\ pc[p] \notin Leaving
      /\ \A q \in Procs : pc[q] = "free" /\ ip[q] \in Inodes => inum[ip[q]] # n
  BY WantedExists
<1>3. UNCHANGED <<dtype, dnlink, names>>
  BY DEF disk
<1>4. CASE IgetFinds(p, n, t)
  <2>1. PICK i \in Cached(n) : /\ ref' = [ref EXCEPT ![i] = @ + 1]
                               /\ ip' = [ip EXCEPT ![p] = i]
                               /\ pc' = [pc EXCEPT ![p] = t]
                               /\ UNCHANGED <<inum, valid, type, nlink>>
    BY <1>4 DEF IgetFinds, Goto, copy
  <2>2. i \in Inodes /\ ref[i] > 0 /\ inum[i] = n
    BY DEF Cached
  <2>3. /\ OthersKeep(p) /\ pc'[p] = t /\ job'[p] = job[p]
        /\ \A q \in Procs \ {p} : pc'[q] = pc[q] /\ ip'[q] = ip[q]
    BY <1>1, <2>1 DEF CacheTypes, OthersKeep, OthersStay
  <2>4. \A j \in Inodes : (ref'[j] > 0 => ref[j] > 0) /\ (j # i => ref'[j] = ref[j])
    BY <1>1, <2>1, <2>2 DEF CacheTypes
  <2>5. ASSUME NEW q \in Procs \ {p} PROVE HasCopy(q)' <=> HasCopy(q)
    <3>1. pc[q] = "free" => ip[q] \in Inodes /\ ip[q] # i
      BY <1>1, <1>2, <2>2 DEF CountInv, Pointers, WithInode
    <3>2. pc[q] = "free" => ref'[ip[q]] = ref[ip[q]]
      BY <2>4, <3>1
    <3>3. HoldsInode(q)' <=> HoldsInode(q)
      BY <2>3, OthersHold DEF OthersKeep
    <3> QED
      BY <2>1, <2>3, <3>2, <3>3 DEF HasCopy
  <2>6. WriteThrough'
    <3> SUFFICES ASSUME NEW j \in Inodes, ref'[j] > 0, valid[j],
                        \A q \in Holders(j)' : pc'[q] # "invalidate"
                 PROVE  /\ type[j] = File /\ dtype[inum[j]] = File
                        /\ nlink[j] = dnlink[inum[j]]
      BY <1>3, <2>1 DEF WriteThrough
    <3>1. \A q \in Procs : ip[q] = j => q # p
      BY <1>2, InodeCacheAssumption
    <3>2. \A q \in Holders(j) : pc[q] # "invalidate"
      BY <2>3, <3>1 DEF Holders
    <3> QED
      BY <1>1, <2>4, <3>2 DEF DiskInv, WriteThrough
  <2>7. DiskTypes'
    BY <1>1, <1>3, <2>1 DEF DiskTypes
  <2>8. inum'[i] = n
    BY <2>1, <2>2
  <2> QED
    BY <2>1, <2>2, <2>3, <2>5, <2>6, <2>7, <2>8, NewPointer
<1>5. CASE IgetRecycles(p, n, t)
  <2>1. PICK i \in Inodes : /\ Recycles(p, i, n, t)
                            /\ valid' = [valid EXCEPT ![i] = FALSE]
    BY <1>5 DEF IgetRecycles
  <2>2. /\ ref[i] = 0 /\ UNCHANGED <<type, nlink>>
        /\ ref' = [ref EXCEPT ![i] = 1] /\ inum' = [inum EXCEPT ![i] = n]
        /\ ip' = [ip EXCEPT ![p] = i] /\ pc' = [pc EXCEPT ![p] = t]
    BY <1>5, <2>1 DEF IgetRecycles, Recycles, Unused, Goto
  <2>3. \A q \in Procs : ip[q] # i
    BY <1>1, <2>2, PointerCounted
  <2>4. /\ inum'[i] = n /\ valid'[i] = FALSE
        /\ \A j \in Inodes \ {i} : /\ ref'[j] = ref[j] /\ inum'[j] = inum[j]
                                   /\ valid'[j] = valid[j]
    BY <1>1, <2>1, <2>2 DEF CacheTypes, DiskTypes
  <2>5. /\ OthersStay(p) /\ pc'[p] = t /\ job'[p] = job[p]
        /\ \A q \in Procs \ {p} : pc'[q] = pc[q] /\ ip'[q] = ip[q]
    BY <1>1, <2>2 DEF CacheTypes, OthersStay
  <2>6. OthersKeep(p)
    BY <2>3, <2>4, <2>5 DEF OthersKeep
  <2>7. ASSUME NEW q \in Procs \ {p} PROVE HasCopy(q)' <=> HasCopy(q)
    <3>1. /\ pc[q] \in {"dirlink", "dirunlink", "drop", "iunlock", "free"}
               => ip[q] \in Inodes
          /\ pc[q] = "undir" /\ HoldsInode(q) => ip[q] \in Inodes
      BY <1>1 DEF CountInv, CacheTypes, Pointers, WithInode, HoldsInode
    <3>2. ip[q] \in Inodes => ref'[ip[q]] = ref[ip[q]] /\ valid'[ip[q]] = valid[ip[q]]
      BY <2>3, <2>4
    <3>3. HoldsInode(q)' <=> HoldsInode(q)
      BY <2>5, OthersHold
    <3> QED
      BY <2>2, <2>5, <3>1, <3>2, <3>3 DEF HasCopy
  <2>8. WriteThrough'
    <3> SUFFICES ASSUME NEW j \in Inodes, ref'[j] > 0, valid'[j],
                        \A q \in Holders(j)' : pc'[q] # "invalidate"
                 PROVE  /\ type[j] = File /\ dtype[inum'[j]] = File
                        /\ nlink[j] = dnlink[inum'[j]]
      BY <1>3, <2>2 DEF WriteThrough
    <3>1. j # i
      BY <2>4
    <3>2. \A q \in Procs : ip[q] = j => q # p
      BY <1>2, InodeCacheAssumption
    <3>3. \A q \in Holders(j) : pc[q] # "invalidate"
      BY <2>5, <3>2 DEF Holders
    <3> QED
      BY <1>1, <2>4, <3>1, <3>3 DEF DiskInv, WriteThrough
  <2>9. DiskTypes'
    BY <1>1, <1>3, <2>1, <2>2 DEF DiskTypes
  <2> QED
    BY <2>2, <2>4, <2>5, <2>6, <2>7, <2>8, <2>9, NewPointer
<1>6. CASE IgetFails(p, n)
  <2>1. /\ pc' = [pc EXCEPT ![p] = "full"]
        /\ UNCHANGED <<disk, refs, copy, ip>> /\ UNCHANGED <<inum, ip, job>>
    BY <1>6 DEF IgetFails, Goto, refs
  <2>2. OthersKeep(p) /\ pc'[p] = "full"
    BY <1>1, <2>1 DEF CacheTypes, OthersKeep, OthersStay
  <2> QED
    BY <1>2, <2>1, <2>2, PlainStep DEF Plain, Leaving
<1> QED
  BY <1>4, <1>5, <1>6 DEF Iget

LEMMA LookupDisk ==
    ASSUME IInv, NEW p \in Procs, Dirlookup(p)
    PROVE  DiskInv'
<1>1. /\ pc[p] = "lookup" /\ UNCHANGED <<disk, job, next>>
      /\ job[p] \in {"open", "unlink"} /\ ip[p] = NoInode
  BY DEF Dirlookup, At, IInv, CountInv, Pointers
<1>2. ASSUME NEW n \in names,
             Iget(p, n, IF job[p] = "open" THEN "undir" ELSE "ilock")
      PROVE  DiskInv'
  <2>1. PICK t : t = IF job[p] = "open" THEN "undir" ELSE "ilock"
    OBVIOUS
  <2>2. Wants(p, n, t) /\ Iget(p, n, t) /\ n \in Inums
    BY <1>1, <1>2, <2>1 DEF Wants, IInv, CountInv, CacheTypes
  <2> QED
    BY <1>1, <2>2, IgetDisk
<1>3. CASE Goto(p, "undir") /\ UNCHANGED <<refs, copy, ip>>
  <2>1. /\ UNCHANGED <<disk, refs, copy, ip>> /\ UNCHANGED <<ip, next, inum>>
        /\ pc' = [pc EXCEPT ![p] = "undir"]
    BY <1>1, <1>3 DEF Goto, refs
  <2>2. /\ OthersKeep(p) /\ pc'[p] = "undir" /\ ip'[p] = NoInode
    BY <1>1, <2>1, Moved, JobKept DEF IInv, CountInv
  <2>3. /\ \A n \in Inums : ~Claims(p, n)' /\ ~Unlinks(p, n)' /\ ~Finds(p, n)'
        /\ HasCopy(p)' /\ pc'[p] # "panic"
    BY <2>2 DEF Claims, Unlinks, Finds, HasCopy, PointsTo, HoldsInode
  <2> QED
    BY <1>1, <2>1, <2>2, <2>3, DiskKept DEF Leaving
<1> QED
  BY <1>2, <1>3 DEF Dirlookup

LEMMA IallocDisk ==
    ASSUME IInv, NEW p \in Procs, Ialloc(p)
    PROVE  DiskInv'
<1>1. CASE IallocIget(p)
  <2>1. /\ pc[p] = "iget" /\ Iget(p, next[p], "ilock") /\ UNCHANGED <<disk, job>>
        /\ next' = [next EXCEPT ![p] = 1]
    BY <1>1 DEF IallocIget, At
  <2>2. /\ job[p] = "create" /\ next[p] \in Inums
        /\ \A q \in Procs \ {p} : next'[q] = next[q]
    BY <2>1 DEF IInv, CountInv, Pointers, CacheTypes
  <2>3. Wants(p, next[p], "ilock")
    BY <2>1, <2>2 DEF Wants
  <2> QED
    BY <2>1, <2>2, <2>3, IgetDisk
<1> QED
  BY <1>1, ScanDisk, ClaimDisk DEF Ialloc

(* Whoever shares an inode is in user code with it: nobody frees it then.  *)
LEMMA IdupDisk ==
    ASSUME IInv, NEW p \in Procs, NEW q \in Procs, Idup(p, q)
    PROVE  DiskInv'
<1>1. CountInv /\ DiskInv /\ LockInv /\ CacheTypes /\ DiskTypes
  BY DEF IInv, CountInv, DiskInv
<1>2. PICK i \in Inodes : i = ip[p]
  BY <1>1 DEF Idup, CacheTypes
<1>3. /\ pc[p] = "user" /\ pc[q] = "user" /\ ip[q] = NoInode /\ p # q
      /\ ref' = [ref EXCEPT ![i] = ref[i] + 1] /\ ip' = [ip EXCEPT ![q] = i]
      /\ UNCHANGED <<dtype, dnlink, names, inum, valid, type, nlink, pc, job, next>>
  BY <1>2, InodeCacheAssumption DEF Idup, At, disk, copy
<1>4. /\ OthersKeep(q) /\ ip'[q] = i /\ \A r \in Procs \ {q} : ip'[r] = ip[r]
      /\ \A j \in Inodes \ {i} : ref'[j] = ref[j]
  BY <1>1, <1>3 DEF CacheTypes, OthersKeep, OthersStay
<1>5. \A r \in Procs \ {q} : \A m :
        /\ PointsTo(r, m)' <=> PointsTo(r, m)
        /\ Claims(r, m)' <=> Claims(r, m)
        /\ Unlinks(r, m)' <=> Unlinks(r, m)
        /\ Finds(r, m)' <=> Finds(r, m)
  BY <1>1, <1>4, OthersPoint
<1>6. \A m : /\ ~Claims(q, m)' /\ ~Unlinks(q, m)' /\ ~Finds(q, m)'
             /\ PointsTo(q, m)' => PointsTo(p, m)
  BY <1>2, <1>3, <1>4, InodeCacheAssumption DEF Claims, Unlinks, Finds, PointsTo
<1>7. DiskTypes' /\ NamedLinked' /\ NoPanic'
  BY <1>1, <1>3 DEF DiskTypes, DiskInv, NamedLinked, NoPanic
<1>8. ClaimedAlone'
  <2> SUFFICES ASSUME NEW r \in Procs, NEW m \in Inums, Claims(r, m)'
               PROVE  /\ dtype[m] = File /\ dnlink[m] = 0 /\ m \notin names
                      /\ \A s \in Procs \ {r} : PointsTo(s, m)' => pc[s] \in Leaving
    BY <1>3 DEF ClaimedAlone
  <2>1. r # q /\ Claims(r, m) /\ r # p
    BY <1>3, <1>5, <1>6 DEF Claims
  <2>2. ~PointsTo(p, m)
    BY <1>1, <1>3, <2>1 DEF DiskInv, ClaimedAlone, Leaving
  <2> QED
    BY <1>1, <1>5, <1>6, <2>1, <2>2 DEF DiskInv, ClaimedAlone
<1>9. UnlinkedOnce' /\ NameKept'
  BY <1>1, <1>3, <1>5, <1>6 DEF DiskInv, UnlinkedOnce, NameKept
<1>10. Loaded'
  <2>1. ASSUME NEW r \in Procs \ {q} PROVE HasCopy(r)'
    <3>1. pc[r] = "free" => ip[r] # i
      BY <1>2, <1>3, FreesAlone
    <3>2. pc[r] = "free" => ip[r] \in Inodes /\ ref'[ip[r]] = ref[ip[r]]
      BY <1>1, <1>4, <3>1 DEF CountInv, Pointers, WithInode
    <3>3. HoldsInode(r)' <=> HoldsInode(r)
      BY <1>4, OthersHold DEF OthersKeep
    <3> QED
      BY <1>1, <1>3, <1>4, <3>2, <3>3 DEF DiskInv, Loaded, HasCopy
  <2>2. HasCopy(q)'
    BY <1>3 DEF HasCopy
  <2> QED
    BY <2>1, <2>2 DEF Loaded
<1>11. WriteThrough'
  <2> SUFFICES ASSUME NEW j \in Inodes, ref'[j] > 0, valid[j],
                      \A r \in Holders(j)' : pc[r] # "invalidate"
               PROVE  /\ type[j] = File /\ dtype[inum[j]] = File
                      /\ nlink[j] = dnlink[inum[j]]
    BY <1>3 DEF WriteThrough
  <2>1. ref[j] > 0
    BY <1>1, <1>2, <1>4, PointerCounted
  <2>2. \A r \in Holders(j) : pc[r] # "invalidate"
    BY <1>3, <1>4 DEF Holders
  <2> QED
    BY <1>1, <2>1, <2>2 DEF DiskInv, WriteThrough
<1>12. NoneFreedInUse'
  <2> SUFFICES ASSUME NEW m \in Inums, dtype[m] = Free
               PROVE  /\ m \notin names
                      /\ \A r \in Procs : PointsTo(r, m)' =>
                            pc[r] \in {"invalidate", "putunlock", "deref"}
    BY <1>3 DEF NoneFreedInUse, PointsTo
  <2>1. ~PointsTo(p, m)
    BY <1>1, <1>3 DEF DiskInv, NoneFreedInUse, PointsTo
  <2> QED
    BY <1>1, <1>5, <1>6, <2>1 DEF DiskInv, NoneFreedInUse, PointsTo
<1> QED
  BY <1>7, <1>8, <1>9, <1>10, <1>11, <1>12 DEF DiskInv

-----------------------------------------------------------------------------
(* What a process does with the lock of its inode in hand *)

(* The others have no copy of the inode in hand. *)
LEMMA OthersCopies ==
    ASSUME IInv, NEW p \in Procs, HoldsInode(p), ip[p] \in Inodes,
           OthersStay(p), UNCHANGED ref,
           \A j \in Inodes \ {ip[p]} : valid'[j] = valid[j] /\ nlink'[j] = nlink[j],
           NEW q \in Procs \ {p}
    PROVE  HasCopy(q)'
<1>1. HasCopy(q) /\ CountInv /\ LockInv
  BY DEF IInv, DiskInv, Loaded
<1>2. /\ pc'[q] = pc[q] /\ job'[q] = job[q] /\ ip'[q] = ip[q]
      /\ HoldsInode(q)' <=> HoldsInode(q)
  BY OthersHold DEF OthersStay
<1>3. ASSUME \/ pc[q] \in {"dirlink", "dirunlink", "drop", "iunlock", "free"}
             \/ pc[q] = "undir" /\ HoldsInode(q)
      PROVE  valid'[ip[q]] = valid[ip[q]] /\ nlink'[ip[q]] = nlink[ip[q]]
  <2>1. HoldsInode(q) /\ ip[q] \in Inodes
    BY <1>1, <1>3 DEF HoldsInode, CountInv, CacheTypes, Pointers, WithInode
  <2>2. ip[q] # ip[p]
    BY <1>1, <2>1, OneInodeHolder
  <2> QED
    BY <2>1, <2>2
<1> QED
  BY <1>1, <1>2, <1>3 DEF HasCopy

(* No other entry in use caches the inode. *)
LEMMA OtherEntries ==
    ASSUME CountInv, NEW p \in Procs, ip[p] \in Inodes,
           NEW j \in Inodes, j # ip[p], ref[j] > 0
    PROVE  inum[j] # inum[ip[p]]
BY PointerCounted DEF CountInv, OneEntryPerInode

(* ilock reads the dinode, which is no free one. *)
LEMMA LoadDisk ==
    ASSUME IInv, NEW p \in Procs, IlockLoad(p)
    PROVE  DiskInv'
<1>1. CountInv /\ DiskInv /\ LockInv /\ CacheTypes /\ DiskTypes
  BY DEF IInv, CountInv, DiskInv
<1>2. PICK i : i = ip[p] /\ i \in Inodes
  BY <1>1 DEF IlockLoad, At, CountInv, Pointers, WithInode
<1>3. PICK n : n = inum[i] /\ n \in Inums
  BY <1>1, <1>2, HolderReferences
<1>4. /\ pc[p] = "load" /\ job[p] \in {"use", "create", "unlink"}
      /\ UNCHANGED <<dtype, dnlink, names, ref, inum, job, ip, next>>
  BY <1>1 DEF IlockLoad, At, disk, refs, CountInv, Pointers
<1>5. dtype[n] = File
  BY <1>1, <1>2, <1>3, <1>4, InodeCacheAssumption
     DEF DiskInv, NoneFreedInUse, DiskTypes
<1>6. /\ pc' = [pc EXCEPT ![p] = Locked(p)]
      /\ IF valid[i] THEN UNCHANGED <<valid, type, nlink>>
         ELSE /\ valid' = [valid EXCEPT ![i] = TRUE]
              /\ type' = [type EXCEPT ![i] = dtype[n]]
              /\ nlink' = [nlink EXCEPT ![i] = dnlink[n]]
  BY <1>2, <1>3, <1>5, InodeCacheAssumption DEF IlockLoad, Goto, copy
<1>7. /\ OthersKeep(p) /\ pc'[p] = Locked(p) /\ job'[p] = job[p] /\ ip'[p] = i
      /\ \A m : PointsTo(p, m)' <=> PointsTo(p, m)
  <2>1. job' = [job EXCEPT ![p] = job[p]]
    BY <1>1, <1>4, JobKept
  <2>2. UNCHANGED <<ip, next, inum>>
    BY <1>4
  <2>3. PICK s, j : s = Locked(p) /\ j = job[p]
    OBVIOUS
  <2>4. pc' = [pc EXCEPT ![p] = s] /\ job' = [job EXCEPT ![p] = j]
    BY <1>6, <2>1, <2>3
  <2>5. /\ OthersKeep(p) /\ pc'[p] = s /\ job'[p] = j /\ ip'[p] = ip[p]
        /\ \A m : PointsTo(p, m)' <=> PointsTo(p, m)
    BY <1>1, <2>2, <2>4, Moved
  <2> QED
    BY <1>2, <2>3, <2>5
<1>8. \/ job[p] = "use" /\ pc'[p] = "iunlock"
      \/ job[p] = "create" /\ pc'[p] = "dirlink"
      \/ job[p] = "unlink" /\ pc'[p] = "dirunlink"
  BY <1>4, <1>7 DEF Locked
<1>9. /\ \A m : /\ Claims(p, m)' => Claims(p, m)
                /\ ~Unlinks(p, m)'
                /\ Finds(p, m)' => Finds(p, m)
      /\ pc'[p] # "panic" /\ HoldsInode(p)
  BY <1>4, <1>7, <1>8 DEF Claims, Unlinks, Finds, HoldsInode
<1>10. \A q \in Procs \ {p} : \A m :
        /\ PointsTo(q, m)' <=> PointsTo(q, m)
        /\ Claims(q, m)' <=> Claims(q, m)
        /\ Unlinks(q, m)' <=> Unlinks(q, m)
        /\ Finds(q, m)' <=> Finds(q, m)
  BY <1>1, <1>7, OthersPoint
<1>11. \A q \in Procs \ {p} : pc'[q] = pc[q] /\ ip'[q] = ip[q]
  BY <1>7 DEF OthersKeep, OthersStay
<1>12. /\ valid'[i] = TRUE /\ DiskTypes'
       /\ \A j \in Inodes \ {i} : /\ valid'[j] = valid[j] /\ type'[j] = type[j]
                                  /\ nlink'[j] = nlink[j]
       /\ \/ valid[i] /\ type'[i] = type[i] /\ nlink'[i] = nlink[i]
          \/ type'[i] = dtype[n] /\ nlink'[i] = dnlink[n]
  <2>1. CASE valid[i]
    BY <1>1, <1>2, <1>4, <1>6, <2>1 DEF DiskTypes
  <2>2. CASE ~valid[i]
    <3>1. /\ valid' = [valid EXCEPT ![i] = TRUE]
          /\ type' = [type EXCEPT ![i] = dtype[n]]
          /\ nlink' = [nlink EXCEPT ![i] = dnlink[n]]
      BY <1>6, <2>2
    <3>2. DiskTypes'
      BY <1>1, <1>2, <1>3, <1>4, <3>1 DEF DiskTypes
    <3>3. valid'[i] = TRUE /\ type'[i] = dtype[n] /\ nlink'[i] = dnlink[n]
      BY <1>1, <1>2, <3>1 DEF DiskTypes
    <3>4. \A j \in Inodes \ {i} : /\ valid'[j] = valid[j] /\ type'[j] = type[j]
                                  /\ nlink'[j] = nlink[j]
      BY <1>1, <3>1 DEF DiskTypes
    <3> QED
      BY <3>2, <3>3, <3>4
  <2> QED
    BY <2>1, <2>2
<1>13. NamedLinked' /\ NoPanic'
  BY <1>1, <1>4, <1>9, <1>11 DEF DiskInv, NamedLinked, NoPanic
<1>14. ClaimedAlone'
  <2> SUFFICES ASSUME NEW q \in Procs, NEW m \in Inums, Claims(q, m)'
               PROVE  /\ dtype[m] = File /\ dnlink[m] = 0 /\ m \notin names
                      /\ \A r \in Procs \ {q} :
                            PointsTo(r, m)' => pc'[r] \in Leaving
    BY <1>4 DEF ClaimedAlone
  <2>1. Claims(q, m) /\ \A r \in Procs : PointsTo(r, m)' <=> PointsTo(r, m)
    BY <1>7, <1>9, <1>10
  <2>2. \A r \in Procs \ {q} : PointsTo(r, m) => pc[r] \in Leaving
    BY <1>1, <2>1 DEF DiskInv, ClaimedAlone
  <2>3. \A r \in Procs : pc[r] \in Leaving => pc'[r] \in Leaving
    BY <1>4, <1>11 DEF Leaving
  <2> QED
    BY <1>1, <2>1, <2>2, <2>3 DEF DiskInv, ClaimedAlone
<1>15. UnlinkedOnce' /\ NameKept'
  BY <1>1, <1>4, <1>9, <1>10 DEF DiskInv, UnlinkedOnce, NameKept
<1>16. Loaded'
  <2>1. \A q \in Procs \ {p} : HasCopy(q)'
    BY <1>2, <1>4, <1>7, <1>9, <1>12, OthersCopies DEF OthersKeep
  <2>2. HasCopy(p)'
    BY <1>7, <1>8, <1>12 DEF HasCopy
  <2> QED
    BY <2>1, <2>2 DEF Loaded
<1>17. WriteThrough'
  <2> SUFFICES ASSUME NEW j \in Inodes, ref[j] > 0, valid'[j],
                      \A q \in Holders(j)' : pc'[q] # "invalidate"
               PROVE  /\ type'[j] = File /\ dtype[inum[j]] = File
                      /\ nlink'[j] = dnlink[inum[j]]
    BY <1>4 DEF WriteThrough
  <2>1. \A q \in Holders(j) : pc[q] # "invalidate"
    BY <1>4, <1>11 DEF Holders
  <2>2. CASE j # i
    BY <1>1, <1>12, <2>1, <2>2 DEF DiskInv, WriteThrough
  <2>3. CASE j = i
    BY <1>1, <1>3, <1>5, <1>12, <2>1, <2>3 DEF DiskInv, WriteThrough
  <2> QED
    BY <2>2, <2>3
<1>18. NoneFreedInUse'
  <2>1. \A q \in Procs : pc[q] \in {"invalidate", "putunlock", "deref"}
                           => pc'[q] \in {"invalidate", "putunlock", "deref"}
    BY <1>4, <1>11
  <2> QED
    BY <1>1, <1>4, <2>1 DEF DiskInv, NoneFreedInUse
<1> QED
  BY <1>12, <1>13, <1>14, <1>15, <1>16, <1>17, <1>18 DEF DiskInv

(* iupdate under the lock: the dinode n of p's entry becomes <<t, c>>, and *)
(* n has a name afterwards only if it is a file with one link.             *)
LEMMA UpdateDisk ==
    ASSUME IInv, NEW p \in Procs, HoldsInode(p), pc[p] \notin Leaving,
           NEW i \in Inodes, i = ip[p], NEW n \in Inums, n = inum[i], valid[i],
           NEW t \in {Free, File}, NEW c \in Nat, NEW s,
           type' = [type EXCEPT ![i] = t], nlink' = [nlink EXCEPT ![i] = c],
           Iupdate(i), pc' = [pc EXCEPT ![p] = s],
           UNCHANGED <<valid, ref, inum, job, ip, next>>,
           names \subseteq names', names' \subseteq names \cup {n},
           n \in names' => t = File /\ c = 1,
           \A m \in Inums : ~Claims(p, m)' /\ ~Unlinks(p, m)' /\ ~Finds(p, m)',
           HasCopy(p)', s # "panic",
           t = Free => s = "invalidate" /\ \A q \in Procs : ip[q] = i => q = p
    PROVE  DiskInv'
<1>1. CountInv /\ DiskInv /\ LockInv /\ CacheTypes /\ DiskTypes
  BY DEF IInv, CountInv, DiskInv
<1>2. /\ OthersKeep(p) /\ pc'[p] = s /\ job'[p] = job[p] /\ ip'[p] = i
      /\ \A m : PointsTo(p, m)' <=> PointsTo(p, m)
  <2>1. \A q \in Procs \ {p} : pc'[q] = pc[q]
    BY <1>1 DEF CacheTypes
  <2>2. pc'[p] = s
    BY <1>1 DEF CacheTypes
  <2> QED
    BY <2>1, <2>2 DEF OthersKeep, OthersStay, PointsTo
<1>3. PointsTo(p, n)
  BY InodeCacheAssumption DEF PointsTo
<1>4. /\ type'[i] = t /\ nlink'[i] = c
      /\ \A j \in Inodes \ {i} : type'[j] = type[j] /\ nlink'[j] = nlink[j]
  BY <1>1 DEF DiskTypes
<1>5. dtype' = [dtype EXCEPT ![n] = t] /\ dnlink' = [dnlink EXCEPT ![n] = c]
  BY <1>4 DEF Iupdate
<1>6. /\ dtype'[n] = t /\ dnlink'[n] = c
      /\ \A m \in Inums \ {n} : dtype'[m] = dtype[m] /\ dnlink'[m] = dnlink[m]
  BY <1>1, <1>5 DEF DiskTypes
<1>7. \A q \in Procs \ {p} : \A m :
        /\ PointsTo(q, m)' <=> PointsTo(q, m)
        /\ Claims(q, m)' <=> Claims(q, m)
        /\ Unlinks(q, m)' <=> Unlinks(q, m)
        /\ Finds(q, m)' <=> Finds(q, m)
  BY <1>1, <1>2, OthersPoint
<1>8. \A q \in Procs \ {p} : pc'[q] = pc[q] /\ ip'[q] = ip[q]
  BY <1>2 DEF OthersKeep, OthersStay
<1>9. DiskTypes' /\ NamedLinked' /\ NoPanic'
  <2>1. DiskTypes'
    BY <1>1, <1>5 DEF DiskTypes
  <2>2. NamedLinked'
    BY <1>1, <1>6 DEF DiskInv, NamedLinked, CacheTypes
  <2>3. NoPanic'
    BY <1>1, <1>2, <1>8 DEF DiskInv, NoPanic
  <2> QED
    BY <2>1, <2>2, <2>3
<1>10. ClaimedAlone'
  <2> SUFFICES ASSUME NEW q \in Procs, NEW m \in Inums, Claims(q, m)'
               PROVE  /\ dtype'[m] = File /\ dnlink'[m] = 0 /\ m \notin names'
                      /\ \A r \in Procs \ {q} :
                            PointsTo(r, m)' => pc'[r] \in Leaving
    BY DEF ClaimedAlone
  <2>1. q # p /\ Claims(q, m)
    BY <1>7
  <2>2. ~PointsTo(p, m)
    BY <1>1, <2>1 DEF DiskInv, ClaimedAlone
  <2>3. m # n
    BY <1>3, <2>2
  <2> QED
    BY <1>1, <1>2, <1>6, <1>7, <1>8, <2>1, <2>2, <2>3 DEF DiskInv, ClaimedAlone
<1>11. UnlinkedOnce'
  <2> SUFFICES ASSUME NEW q \in Procs, NEW m \in Inums, Unlinks(q, m)'
               PROVE  m \notin names' /\ dnlink'[m] = 1
    BY DEF UnlinkedOnce
  <2>1. q # p /\ Unlinks(q, m)
    BY <1>7
  <2>2. m # n
    <3> SUFFICES ASSUME m = n PROVE FALSE
      OBVIOUS
    <3>1. HoldsInode(q) /\ PointsTo(q, n)
      BY <2>1, UnlinksHold
    <3>2. ip[p] = ip[q]
      BY <1>1, <1>3, <3>1, SameEntry
    <3> QED
      BY <1>1, <2>1, <3>1, <3>2, OneInodeHolder
  <2> QED
    BY <1>1, <1>6, <2>1, <2>2 DEF DiskInv, UnlinkedOnce
<1>12. NameKept'
  BY <1>1, <1>7 DEF DiskInv, NameKept
<1>13. Loaded'
  <2>1. \A q \in Procs \ {p} : HasCopy(q)'
    BY <1>2, <1>4, OthersCopies DEF OthersKeep
  <2> QED
    BY <2>1 DEF Loaded
<1>14. WriteThrough'
  <2> SUFFICES ASSUME NEW j \in Inodes, ref[j] > 0, valid[j],
                      \A q \in Holders(j)' : pc'[q] # "invalidate"
               PROVE  /\ type'[j] = File /\ dtype'[inum[j]] = File
                      /\ nlink'[j] = dnlink'[inum[j]]
    BY DEF WriteThrough
  <2>1. CASE j = i
    <3>1. p \in Holders(j)'
      BY <1>2, <2>1 DEF Holders
    <3>2. t = File
      BY <1>2, <3>1
    <3> QED
      BY <1>4, <1>6, <2>1, <3>2
  <2>2. CASE j # i
    <3>1. inum[j] # n /\ inum[j] \in Inums
      BY <1>1, <2>2, OtherEntries DEF CountInv, Referenced
    <3>2. \A q \in Holders(j) : pc[q] # "invalidate"
      BY <1>8, <2>2 DEF Holders
    <3> QED
      BY <1>1, <1>4, <1>6, <2>2, <3>1, <3>2 DEF DiskInv, WriteThrough
  <2> QED
    BY <2>1, <2>2
<1>15. NoneFreedInUse'
  <2> SUFFICES ASSUME NEW m \in Inums, dtype'[m] = Free
               PROVE  /\ m \notin names'
                      /\ \A q \in Procs : PointsTo(q, m)' =>
                            pc'[q] \in {"invalidate", "putunlock", "deref"}
    BY DEF NoneFreedInUse, PointsTo
  <2>1. CASE m = n
    <3>1. t = Free /\ n \notin names'
      BY <1>6, <2>1, InodeCacheAssumption
    <3>2. ASSUME NEW q \in Procs, PointsTo(q, n)' PROVE q = p
      <4>1. PointsTo(q, n)
        BY <1>2, <1>7, <3>2
      <4> QED
        BY <1>1, <1>3, <3>1, <4>1, SameEntry
    <3> QED
      BY <1>2, <2>1, <3>1, <3>2
  <2>2. CASE m # n
    <3>1. dtype[m] = Free /\ m \notin names'
      BY <1>1, <1>6, <2>2 DEF DiskInv, NoneFreedInUse
    <3>2. ~PointsTo(p, m)
      BY <1>3, <2>2 DEF PointsTo
    <3> QED
      BY <1>1, <1>2, <1>7, <1>8, <3>1, <3>2
         DEF DiskInv, NoneFreedInUse, PointsTo, Leaving
  <2> QED
    BY <2>1, <2>2
<1> QED
  BY <1>9, <1>10, <1>11, <1>12, <1>13, <1>14, <1>15 DEF DiskInv

(* Its three callers: create gives the inode its name and its link, unlink *)
(* counts the removed name off, iput frees what has neither.               *)
LEMMA UpdatesDisk ==
    ASSUME IInv, NEW p \in Procs, Dirlink(p) \/ DropLink(p) \/ IputFree(p)
    PROVE  DiskInv'
<1>1. CountInv /\ DiskInv /\ LockInv /\ CacheTypes /\ DiskTypes
  BY DEF IInv, CountInv, DiskInv
<1>2. /\ pc[p] \in {"dirlink", "drop", "free"}
      /\ UNCHANGED <<valid, ref, inum, job, ip, next>>
  BY DEF Dirlink, DropLink, IputFree, At, refs
<1>3. PICK i \in Inodes : i = ip[p]
  BY <1>1, <1>2 DEF CountInv, Pointers, WithInode
<1>4. PICK n \in Inums : n = inum[i]
  BY <1>1, <1>3, HolderReferences
<1>5. HoldsInode(p) /\ pc[p] \notin Leaving /\ pc[p] # "invalidate"
  BY <1>2 DEF HoldsInode, Leaving
<1>6. valid[i]
  BY <1>1, <1>2, <1>3 DEF DiskInv, Loaded, HasCopy
<1>7. type[i] = File /\ dtype[n] = File /\ nlink[i] = dnlink[n]
  BY <1>3, <1>4, <1>5, <1>6, CopyIsDisk
<1>8. type = [type EXCEPT ![i] = File]
  BY <1>1, <1>7 DEF DiskTypes
<1>9. PointsTo(p, n)
  BY <1>3, <1>4, InodeCacheAssumption DEF PointsTo
<1>10. CASE Dirlink(p)
  <2>1. /\ pc[p] = "dirlink" /\ nlink' = [nlink EXCEPT ![i] = 1] /\ Iupdate(i)
        /\ type' = [type EXCEPT ![i] = File] /\ names' = names \cup {n}
        /\ pc' = [pc EXCEPT ![p] = "undir"]
    BY <1>3, <1>4, <1>8, <1>10 DEF Dirlink, At, Goto
  <2>2. pc'[p] = "undir" /\ job'[p] = "create" /\ ip'[p] = i /\ valid'[i]
    BY <1>1, <1>2, <1>3, <1>6, <2>1 DEF CacheTypes, LockInv, JobsFit, JobFits
  <2>3. /\ \A m \in Inums : ~Claims(p, m)' /\ ~Unlinks(p, m)' /\ ~Finds(p, m)'
        /\ HasCopy(p)'
    BY <2>2 DEF Claims, Unlinks, Finds, HasCopy
  <2>4. names \subseteq names' /\ names' \subseteq names \cup {n} /\ Free # File
    BY <2>1, InodeCacheAssumption
  <2> QED
    BY <1>2, <1>3, <1>4, <1>5, <1>6, <2>1, <2>3, <2>4, UpdateDisk
<1>11. CASE DropLink(p)
  <2>1. /\ pc[p] = "drop" /\ nlink' = [nlink EXCEPT ![i] = nlink[i] - 1]
        /\ Iupdate(i) /\ type' = [type EXCEPT ![i] = File] /\ names' = names
        /\ pc' = [pc EXCEPT ![p] = "iunlock"]
    BY <1>3, <1>8, <1>11 DEF DropLink, At, Goto
  <2>2. Unlinks(p, n)
    BY <1>1, <1>9, <2>1 DEF Unlinks, LockInv, JobsFit, JobFits
  <2>3. n \notin names /\ nlink[i] - 1 = 0
    BY <1>1, <1>7, <2>2 DEF DiskInv, UnlinkedOnce
  <2>4. pc'[p] = "iunlock" /\ ip'[p] = i /\ valid'[i]
    BY <1>1, <1>2, <1>3, <1>6, <2>1 DEF CacheTypes
  <2>5. /\ \A m \in Inums : ~Claims(p, m)' /\ ~Unlinks(p, m)' /\ ~Finds(p, m)'
        /\ HasCopy(p)'
    BY <2>4 DEF Claims, Unlinks, Finds, HasCopy
  <2>6. nlink' = [nlink EXCEPT ![i] = 0] /\ Free # File
    BY <2>1, <2>3, InodeCacheAssumption
  <2> QED
    BY <1>2, <1>3, <1>4, <1>5, <1>6, <2>1, <2>3, <2>5, <2>6, UpdateDisk
<1>12. CASE IputFree(p)
  <2>1. /\ pc[p] = "free" /\ nlink' = nlink
        /\ Iupdate(i) /\ type' = [type EXCEPT ![i] = Free] /\ names' = names
        /\ pc' = [pc EXCEPT ![p] = "invalidate"]
    BY <1>3, <1>12 DEF IputFree, At, Goto
  <2>2. nlink[i] = 0 /\ n \notin names /\ \A q \in Procs : ip[q] = i => q = p
    BY <1>3, <1>4, <2>1, FreesAlone
  <2>3. nlink' = [nlink EXCEPT ![i] = 0]
    BY <1>1, <2>1, <2>2 DEF DiskTypes
  <2>4. pc'[p] = "invalidate"
    BY <1>1, <2>1 DEF CacheTypes
  <2>5. /\ \A m \in Inums : ~Claims(p, m)' /\ ~Unlinks(p, m)' /\ ~Finds(p, m)'
        /\ HasCopy(p)'
    BY <2>4 DEF Claims, Unlinks, Finds, HasCopy
  <2>6. /\ names \subseteq names' /\ names' \subseteq names \cup {n}
        /\ n \notin names'
    BY <2>1, <2>2
  <2>7. PICK t \in {Free, File} : t = Free
    OBVIOUS
  <2>8. PICK s : s = "invalidate"
    OBVIOUS
  <2>9. type' = [type EXCEPT ![i] = t] /\ pc' = [pc EXCEPT ![p] = s]
    BY <2>1, <2>7, <2>8
  <2>10. t = Free => s = "invalidate" /\ \A q \in Procs : ip[q] = i => q = p
    BY <2>2, <2>7, <2>8
  <2> QED
    BY <1>2, <1>3, <1>4, <1>5, <1>6, <2>1, <2>3, <2>5, <2>6, <2>7, <2>9, <2>10, <2>8,
       UpdateDisk, ZenonT(60)
<1> QED
  BY <1>10, <1>11, <1>12

(* unlink takes the name away; the link is counted off later. *)
LEMMA UnlinkDisk ==
    ASSUME IInv, NEW p \in Procs, Dirunlink(p)
    PROVE  DiskInv'
<1>1. CountInv /\ DiskInv /\ LockInv /\ CacheTypes /\ DiskTypes
  BY DEF IInv, CountInv, DiskInv
<1>2. PICK i \in Inodes : i = ip[p]
  BY <1>1 DEF Dirunlink, At, CountInv, Pointers, WithInode
<1>3. PICK n \in Inums : n = inum[i]
  BY <1>1, <1>2, HolderReferences
<1>4. /\ pc[p] = "dirunlink" /\ job[p] = "unlink"
      /\ names' = names \ {n} /\ pc' = [pc EXCEPT ![p] = "undir"]
      /\ UNCHANGED <<dtype, dnlink, ref, inum, valid, type, nlink, job, ip, next>>
  BY <1>1, <1>2, <1>3
     DEF Dirunlink, At, Goto, refs, copy, LockInv, JobsFit, JobFits
<1>5. /\ OthersKeep(p) /\ pc'[p] = "undir" /\ job'[p] = "unlink" /\ ip'[p] = i
      /\ \A m : PointsTo(p, m)' <=> PointsTo(p, m)
  BY <1>1, <1>2, <1>4, Moved, JobKept
<1>6. PointsTo(p, n) /\ Finds(p, n) /\ HoldsDir(p) /\ valid[i]
  BY <1>1, <1>2, <1>3, <1>4, InodeCacheAssumption
     DEF PointsTo, Finds, HoldsDir, DiskInv, Loaded, HasCopy
<1>7. n \in names /\ dnlink[n] = 1
  BY <1>1, <1>6 DEF DiskInv, NameKept, NamedLinked
<1>8. \A q \in Procs \ {p} : \A m :
        /\ PointsTo(q, m)' <=> PointsTo(q, m)
        /\ Claims(q, m)' <=> Claims(q, m)
        /\ Unlinks(q, m)' <=> Unlinks(q, m)
        /\ Finds(q, m)' <=> Finds(q, m)
  BY <1>1, <1>5, OthersPoint
<1>9. \A q \in Procs \ {p} : pc'[q] = pc[q]
  BY <1>5 DEF OthersKeep, OthersStay
<1>10. \A m : ~Claims(p, m)' /\ ~Finds(p, m)'
  BY <1>5 DEF Claims, Finds
<1>11. \A m : Unlinks(p, m)' => m = n
  BY <1>2, <1>3, <1>5 DEF Unlinks, PointsTo
<1>12. DiskTypes' /\ NamedLinked' /\ NoPanic'
  BY <1>1, <1>4, <1>5, <1>9 DEF DiskTypes, DiskInv, NamedLinked, NoPanic
<1>13. ClaimedAlone'
  <2> SUFFICES ASSUME NEW q \in Procs, NEW m \in Inums, Claims(q, m)' PROVE FALSE
    BY DEF ClaimedAlone
  <2>1. q # p /\ HoldsDir(q)
    BY <1>8, <1>10, ClaimsHold
  <2> QED
    BY <1>1, <1>6, <2>1, OneDirHolder
<1>14. UnlinkedOnce'
  BY <1>1, <1>4, <1>7, <1>8, <1>11 DEF DiskInv, UnlinkedOnce
<1>15. NameKept'
  <2> SUFFICES ASSUME NEW q \in Procs, NEW m \in Inums, Finds(q, m)' PROVE FALSE
    BY DEF NameKept
  <2>1. q # p /\ HoldsDir(q)
    BY <1>8, <1>10, FindsHold
  <2> QED
    BY <1>1, <1>6, <2>1, OneDirHolder
<1>16. Loaded'
  <2>1. \A q \in Procs \ {p} : HasCopy(q)' <=> HasCopy(q)
    BY <1>4, <1>5, <1>9, OthersHold DEF OthersKeep, HasCopy
  <2>2. HasCopy(p)'
    BY <1>4, <1>5, <1>6 DEF HasCopy
  <2> QED
    BY <1>1, <2>1, <2>2 DEF DiskInv, Loaded
<1>17. WriteThrough'
  <2>1. \A j \in Inodes : Holders(j)' = Holders(j)
    BY <1>4 DEF Holders
  <2>2. \A q \in Procs : pc[q] = "invalidate" => pc'[q] = "invalidate"
    BY <1>4, <1>9
  <2> QED
    BY <1>1, <1>4, <2>1, <2>2 DEF DiskInv, WriteThrough, Holders
<1>18. NoneFreedInUse'
  <2>1. \A q \in Procs : pc[q] \in {"invalidate", "putunlock", "deref"}
                           => pc'[q] \in {"invalidate", "putunlock", "deref"}
    BY <1>4, <1>9
  <2> QED
    BY <1>1, <1>4, <2>1 DEF DiskInv, NoneFreedInUse
<1> QED
  BY <1>12, <1>13, <1>14, <1>15, <1>16, <1>17, <1>18 DEF DiskInv

(* iput marks the copy of the freed inode as none. *)
LEMMA InvalidateDisk ==
    ASSUME IInv, NEW p \in Procs, IputInvalidate(p)
    PROVE  DiskInv'
<1>1. CountInv /\ DiskInv /\ LockInv /\ CacheTypes /\ DiskTypes
  BY DEF IInv, CountInv, DiskInv
<1>2. PICK i \in Inodes : i = ip[p]
  BY <1>1 DEF IputInvalidate, At, CountInv, Pointers, WithInode
<1>3. /\ pc[p] = "invalidate" /\ valid' = [valid EXCEPT ![i] = FALSE]
      /\ pc' = [pc EXCEPT ![p] = "putunlock"]
      /\ UNCHANGED <<dtype, dnlink, names, ref, inum, type, nlink, job, ip, next>>
  BY <1>2 DEF IputInvalidate, At, Goto, disk, refs
<1>4. /\ OthersKeep(p) /\ pc'[p] = "putunlock" /\ ip'[p] = i
      /\ \A m : PointsTo(p, m)' <=> PointsTo(p, m)
  BY <1>1, <1>2, <1>3, Moved, JobKept
<1>5. /\ ~valid'[i] /\ DiskTypes'
      /\ \A j \in Inodes \ {i} : valid'[j] = valid[j] /\ nlink'[j] = nlink[j]
  BY <1>1, <1>3 DEF DiskTypes
<1>6. \A q \in Procs \ {p} : \A m :
        /\ PointsTo(q, m)' <=> PointsTo(q, m)
        /\ Claims(q, m)' <=> Claims(q, m)
        /\ Unlinks(q, m)' <=> Unlinks(q, m)
        /\ Finds(q, m)' <=> Finds(q, m)
  BY <1>1, <1>4, OthersPoint
<1>7. \A q \in Procs \ {p} : pc'[q] = pc[q]
  BY <1>4 DEF OthersKeep, OthersStay
<1>8. \A m : ~Claims(p, m)' /\ ~Unlinks(p, m)' /\ ~Finds(p, m)'
  BY <1>4 DEF Claims, Unlinks, Finds
<1>9. /\ \A q \in Procs : pc[q] \in Leaving => pc'[q] \in Leaving
      /\ HoldsInode(p)
  BY <1>3, <1>4, <1>7 DEF Leaving, HoldsInode
<1>10. NamedLinked' /\ NoPanic'
  BY <1>1, <1>3, <1>4, <1>7 DEF DiskInv, NamedLinked, NoPanic
<1>11. ClaimedAlone'
  BY <1>1, <1>3, <1>4, <1>6, <1>8, <1>9 DEF DiskInv, ClaimedAlone
<1>12. UnlinkedOnce' /\ NameKept'
  BY <1>1, <1>3, <1>6, <1>8 DEF DiskInv, UnlinkedOnce, NameKept
<1>13. Loaded'
  <2>1. \A q \in Procs \ {p} : HasCopy(q)'
    BY <1>2, <1>3, <1>4, <1>5, <1>9, OthersCopies DEF OthersKeep
  <2>2. HasCopy(p)'
    BY <1>4 DEF HasCopy
  <2> QED
    BY <2>1, <2>2 DEF Loaded
<1>14. WriteThrough'
  <2> SUFFICES ASSUME NEW j \in Inodes, ref[j] > 0, valid'[j],
                      \A q \in Holders(j)' : pc'[q] # "invalidate"
               PROVE  /\ type[j] = File /\ dtype[inum[j]] = File
                      /\ nlink[j] = dnlink[inum[j]]
    BY <1>3 DEF WriteThrough
  <2>1. j # i /\ valid[j]
    BY <1>5
  <2>2. \A q \in Holders(j) : pc[q] # "invalidate"
    BY <1>2, <1>3, <1>7, <2>1 DEF Holders
  <2> QED
    BY <1>1, <2>1, <2>2 DEF DiskInv, WriteThrough
<1>15. NoneFreedInUse'
  BY <1>1, <1>3, <1>9 DEF DiskInv, NoneFreedInUse, Leaving
<1> QED
  BY <1>5, <1>10, <1>11, <1>12, <1>13, <1>14, <1>15 DEF DiskInv

(* iput gives its pointer up. *)
LEMMA DerefDisk ==
    ASSUME IInv, NEW p \in Procs, IputDeref(p)
    PROVE  DiskInv'
<1>1. CountInv /\ DiskInv /\ LockInv /\ CacheTypes /\ DiskTypes
  BY DEF IInv, CountInv, DiskInv
<1>2. PICK i \in Inodes : i = ip[p]
  BY <1>1 DEF IputDeref, At, CountInv, Pointers, WithInode
<1>3. /\ pc[p] = "deref" /\ pc' = [pc EXCEPT ![p] = "user"]
      /\ job' = [job EXCEPT ![p] = "none"] /\ ip' = [ip EXCEPT ![p] = NoInode]
      /\ ref' = [ref EXCEPT ![i] = ref[i] - 1]
      /\ UNCHANGED <<dtype, dnlink, names, inum, valid, type, nlink, next>>
  BY <1>2 DEF IputDeref, At, Return, Goto, disk, copy
<1>4. /\ OthersKeep(p) /\ pc'[p] = "user" /\ ip'[p] = NoInode
      /\ \A q \in Procs \ {p} : pc'[q] = pc[q] /\ ip'[q] = ip[q]
  BY <1>1, <1>3 DEF CacheTypes, OthersKeep, OthersStay
<1>5. \A q \in Procs \ {p} : \A m :
        /\ PointsTo(q, m)' <=> PointsTo(q, m)
        /\ Claims(q, m)' <=> Claims(q, m)
        /\ Unlinks(q, m)' <=> Unlinks(q, m)
        /\ Finds(q, m)' <=> Finds(q, m)
  BY <1>1, <1>4, OthersPoint
<1>6. \A m : /\ ~Claims(p, m)' /\ ~Unlinks(p, m)' /\ ~Finds(p, m)'
             /\ ~PointsTo(p, m)'
  BY <1>4 DEF Claims, Unlinks, Finds, PointsTo
<1>7. DiskTypes' /\ NamedLinked' /\ NoPanic'
  BY <1>1, <1>3, <1>4 DEF DiskTypes, DiskInv, NamedLinked, NoPanic
<1>8. ClaimedAlone'
  BY <1>1, <1>3, <1>4, <1>5, <1>6 DEF DiskInv, ClaimedAlone
<1>9. UnlinkedOnce' /\ NameKept'
  BY <1>1, <1>3, <1>5, <1>6 DEF DiskInv, UnlinkedOnce, NameKept
<1>10. Loaded'
  <2>1. ASSUME NEW q \in Procs \ {p} PROVE HasCopy(q)'
    <3>1. pc[q] = "free" => ip[q] \in Inodes /\ ip[q] # i
      BY <1>2, FreesAlone
    <3>2. pc[q] = "free" => ref'[ip[q]] = ref[ip[q]]
      BY <1>1, <1>3, <3>1 DEF CacheTypes
    <3>3. HoldsInode(q)' <=> HoldsInode(q)
      BY <1>4, OthersHold DEF OthersKeep
    <3> QED
      BY <1>1, <1>3, <1>4, <3>2, <3>3 DEF DiskInv, Loaded, HasCopy
  <2>2. HasCopy(p)'
    BY <1>4 DEF HasCopy
  <2> QED
    BY <2>1, <2>2 DEF Loaded
<1>11. WriteThrough'
  <2> SUFFICES ASSUME NEW j \in Inodes, ref'[j] > 0, valid[j],
                      \A q \in Holders(j)' : pc'[q] # "invalidate"
               PROVE  /\ type[j] = File /\ dtype[inum[j]] = File
                      /\ nlink[j] = dnlink[inum[j]]
    BY <1>3 DEF WriteThrough
  <2>1. ref[j] > 0
    BY <1>1, <1>2, <1>3, PointerCounted DEF CacheTypes
  <2>2. \A q \in Holders(j) : pc[q] # "invalidate"
    BY <1>3, <1>4 DEF Holders
  <2> QED
    BY <1>1, <2>1, <2>2 DEF DiskInv, WriteThrough
<1>12. NoneFreedInUse'
  <2> SUFFICES ASSUME NEW m \in Inums, dtype[m] = Free
               PROVE  /\ m \notin names
                      /\ \A q \in Procs : PointsTo(q, m)' =>
                            pc'[q] \in {"invalidate", "putunlock", "deref"}
    BY <1>3 DEF NoneFreedInUse, PointsTo
  <2> QED
    BY <1>1, <1>4, <1>5, <1>6 DEF DiskInv, NoneFreedInUse, PointsTo
<1> QED
  BY <1>7, <1>8, <1>9, <1>10, <1>11, <1>12 DEF DiskInv

-----------------------------------------------------------------------------
(* The invariant *)

LEMMA SafetyInit == Init => IInv
<1> SUFFICES ASSUME Init PROVE IInv
  OBVIOUS
<1>1. LockInv
  BY InodeCacheAssumption
     DEF Init, InitSleepLocks, LockInv, SleepLockTypes, JobsFit, JobFits, LocksOwned,
         HoldsDir, HoldsInode, Sleeping
<1>2. NamedLinked /\ DiskTypes /\ WriteThrough /\ NoPanic
  BY DEF Init, NamedLinked, DiskTypes, WriteThrough, NoPanic
<1>3. ClaimedAlone /\ UnlinkedOnce /\ NameKept /\ Loaded
  BY DEF Init, ClaimedAlone, UnlinkedOnce, NameKept, Loaded, Claims, Unlinks, Finds,
         HasCopy
<1>4. NoneFreedInUse
  BY InodeCacheAssumption DEF Init, NoneFreedInUse
<1> QED
  BY <1>1, <1>2, <1>3, <1>4, CountInit DEF IInv, DiskInv

LEMMA SafetyNext == IInv /\ [Next]_vars => IInv'
<1> SUFFICES ASSUME IInv, [Next]_vars PROVE IInv'
  OBVIOUS
<1>1. CountInv'
  BY CountNext DEF IInv
<1>2. ASSUME NEW p \in Procs, Step(p)
      PROVE  LockInv' /\ DiskInv'
  <2>1. LockInv'
    BY <1>2, LockStep DEF IInv, DiskInv
  <2>2. DiskInv'
    BY <1>2, CallDisk, IdupDisk, AcquireDisk, ReleaseDisk, LookupDisk, UpdatesDisk,
       UnlinkDisk, IallocDisk, LoadDisk, TestDisk, InvalidateDisk, DerefDisk
       DEF Step, Directory, Iput
  <2> QED
    BY <2>1, <2>2
<1>3. CASE UNCHANGED vars
  <2>1. UNCHANGED <<disk, refs, copy, pc, job, ip, next>>
        /\ UNCHANGED <<locked, lockpid, asleep, pc, job, ip>>
    BY <1>3 DEF vars, sleeplocks
  <2>2. LockInv'
    BY <2>1 DEF IInv, LockInv, SleepLockTypes, JobsFit, JobFits, LocksOwned, Sleeping,
                HoldsDir, HoldsInode
  <2> QED
    BY <1>1, <2>1, <2>2, StandsStill DEF IInv
<1> QED
  BY <1>1, <1>2, <1>3 DEF Next, IInv

(* The whole invariant of the cache in every reachable state: counts,      *)
(* locks, and what copies and dinodes hold between two sections.           *)
THEOREM SafetyInvariant == Spec => []IInv
<1> QED
  BY SafetyInit, SafetyNext, PTL DEF Spec

(* Every variable has its type: in particular no counter of references or  *)
(* links is ever decremented below zero by iput or unlink.                 *)
THEOREM CacheTyped == Spec => []TypeOK
<1>1. IInv => TypeOK
  BY DEF IInv, CountInv, CacheTypes, LockInv, DiskInv, DiskTypes, TypeOK
<1> QED
  BY <1>1, SafetyInvariant, PTL

(* A valid copy is the inode on disk, outside the window in iput between   *)
(* the freeing of the dinode and the clearing of ip->valid.                *)
THEOREM CacheWritesThrough == Spec => []WriteThrough
<1>1. IInv => WriteThrough
  BY DEF IInv, DiskInv
<1> QED
  BY <1>1, SafetyInvariant, PTL

(* iput frees no inode that a name or another pointer leads to, and ialloc *)
(* claims none.                                                            *)
THEOREM UsedInodesStay == Spec => []NoneFreedInUse
<1>1. IInv => NoneFreedInUse
  BY DEF IInv, DiskInv
<1> QED
  BY <1>1, SafetyInvariant, PTL

(* The panics of ilock ("ilock", "ilock: no type") and iunlock are never   *)
(* reached, however many processes race in iget, ilock and iput.           *)
THEOREM CacheNeverPanics == Spec => []NoPanic
<1>1. IInv => NoPanic
  BY DEF IInv, DiskInv
<1> QED
  BY <1>1, SafetyInvariant, PTL

(* Whoever sleeps in acquiresleep waits for a lock that is taken; its      *)
(* holder runs, or sleeps itself on an inode whose holder runs: nobody     *)
(* waits for the directory with an inode in hand.                          *)
THEOREM NoSleepersLost == Spec => []SleepersAreWoken
<1>1. IInv => SleepersAreWoken
  <2> SUFFICES ASSUME IInv, NEW p \in Procs, asleep[p] # NoLock
               PROVE  /\ locked[asleep[p]]
                      /\ Waits(p) \in Procs
                      /\ asleep[Waits(p)] # NoLock =>
                            /\ Waits(Waits(p)) \in Procs
                            /\ asleep[Waits(Waits(p))] = NoLock
    BY DEF SleepersAreWoken
  <2>1. ASSUME NEW q \in Procs, asleep[q] # NoLock
        PROVE  locked[asleep[q]] /\ Waits(q) \in Procs /\ asleep[q] \in Locks
    BY <2>1 DEF IInv, LockInv, Sleeping, LocksOwned, SleepLockTypes, Waits
  <2>2. ASSUME NEW q \in Procs, asleep[q] # NoLock, asleep[q] \in Inodes
        PROVE  asleep[Waits(q)] = NoLock
    <3>1. Waits(q) \in Procs /\ HoldsInode(Waits(q))
      BY <2>1, <2>2 DEF IInv, LockInv, LocksOwned, Waits
    <3> QED
      BY <3>1 DEF IInv, LockInv, Sleeping, HoldsInode
  <2>3. CASE asleep[Waits(p)] # NoLock
    <3>1. asleep[p] = Dir /\ Waits(p) \in Procs
      BY <2>1, <2>2, <2>3, InodeCacheAssumption
    <3>2. HoldsDir(Waits(p))
      BY <3>1 DEF IInv, LockInv, LocksOwned, Waits
    <3>3. asleep[Waits(p)] \in Inodes
      BY <2>3, <3>1, <3>2 DEF IInv, LockInv, Sleeping, HoldsDir
    <3> QED
      BY <2>1, <2>2, <2>3, <3>1, <3>3
  <2> QED
    BY <2>1, <2>3
<1> QED
  BY <1>1, SafetyInvariant, PTL
====

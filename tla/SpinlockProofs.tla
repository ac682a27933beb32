---------------------------- MODULE SpinlockProofs ----------------------------
(***************************************************************************)
(* Proofs about Spinlock.tla, for any number of CPUs and locks: SpinInv is *)
(* inductive, and the invariants the runs check follow from it.            *)
(***************************************************************************)
EXTENDS Spinlock, FiniteSetTheorems, TLAPS

(* The locks of a level are finitely many, so they can be counted. *)
LEMMA HeldFinite ==
    ASSUME TypeOK, NEW c \in Cpus, NEW l \in Levels
    PROVE  IsFiniteSet(held[c][l]) /\ Cardinality(held[c][l]) \in Nat
<1>1. IsFiniteSet(held[c][l])
  BY SpinlockAssumption, FS_Subset DEF TypeOK
<1> QED
  BY <1>1, FS_CardinalityType

(* Pushed is a number of pushclis. *)
LEMMA PushedNat == ASSUME NEW s PROVE Pushed(s) \in Nat
  BY DEF Pushed

(* When ncli moves by as much as the count of the one level that took a    *)
(* step, it still counts the locks and the pushclis of its CPU.            *)
LEMMA CountsKept ==
    ASSUME SpinInv, NEW c \in Cpus, NEW l \in Levels,
           \A d \in Cpus \ {c} : ncli'[d] = ncli[d],
           Depth(c, l)' \in Nat,
           ncli'[c] = ncli[c] + (Depth(c, l)' - Depth(c, l)),
           \A d \in Cpus, m \in Levels :
               (d # c \/ m # l) => Depth(d, m)' = Depth(d, m)
    PROVE  NcliCounts'
<1>1. \A d \in Cpus, m \in Levels : Depth(d, m) \in Nat
  BY HeldFinite, PushedNat DEF SpinInv, Depth
<1>2. ASSUME NEW d \in Cpus
      PROVE  ncli'[d] = Depth(d, "proc")' + Depth(d, "irq")'
  <2>1. ncli[d] = Depth(d, "proc") + Depth(d, "irq")
    BY DEF SpinInv, NcliCounts
  <2>2. CASE d = c /\ l = "proc"
    BY <1>1, <2>1, <2>2 DEF Levels
  <2>3. CASE d = c /\ l = "irq"
    BY <1>1, <2>1, <2>3 DEF Levels
  <2>4. CASE d # c
    BY <2>1, <2>4 DEF Levels
  <2> QED
    BY <2>2, <2>3, <2>4 DEF Levels
<1> QED
  BY <1>2 DEF NcliCounts

(* The count of a level that moves on in the code with the same locks      *)
(* changes by what its place in the code says, and so must ncli.           *)
LEMMA CountsAfterGoto ==
    ASSUME SpinInv, NEW c \in Cpus, NEW l \in Levels, NEW s,
           held' = held, Goto(c, l, s),
           \A d \in Cpus \ {c} : ncli'[d] = ncli[d],
           ncli'[c] = ncli[c] + (Pushed(s) - Pushed(pc[c][l]))
    PROVE  NcliCounts'
<1>1. pc'[c][l] = s /\ \A d \in Cpus, m \in Levels :
                          (d # c \/ m # l) => pc'[d][m] = pc[d][m]
  BY DEF SpinInv, TypeOK, Goto
<1>2. Depth(c, l)' = Cardinality(held[c][l]) + Pushed(s)
  BY <1>1 DEF Depth
<1>3. \A d \in Cpus, m \in Levels :
         (d # c \/ m # l) => Depth(d, m)' = Depth(d, m)
  BY <1>1 DEF Depth
<1>4. Cardinality(held[c][l]) \in Nat /\ Pushed(s) \in Nat /\ Pushed(pc[c][l]) \in Nat
  BY HeldFinite, PushedNat DEF SpinInv
<1>5. ncli'[c] = ncli[c] + (Depth(c, l)' - Depth(c, l))
  BY <1>2, <1>4 DEF Depth
<1> QED
  BY <1>2, <1>3, <1>4, <1>5, CountsKept

(* Before a running level has called pushcli and while it holds no lock,   *)
(* the CPU's count is zero; otherwise it is positive.                      *)
LEMMA RunningCount ==
    ASSUME SpinInv, NEW c \in Cpus, NEW l \in Levels, level[c] = l
    PROVE  ncli[c] = Cardinality(held[c][l]) + Pushed(pc[c][l])
<1>1. PICK m \in Levels : m # l
  BY DEF Levels
<1>2. held[c][m] = {} /\ pc[c][m] \in {"idle", "cli"}
  BY <1>1 DEF SpinInv, Suspended, Levels
<1>3. Depth(c, m) = 0
  BY <1>2, FS_EmptySet DEF Depth, Pushed
<1>4. Depth(c, l) \in Nat
  BY HeldFinite, PushedNat DEF SpinInv, Depth
<1>5. ncli[c] = Depth(c, l) + Depth(c, m)
  BY <1>1, <1>4, <1>3 DEF SpinInv, NcliCounts, Levels
<1> QED
  BY <1>3, <1>4, <1>5 DEF Depth

(* A running level that is in no pushcli and holds no lock has count 0. *)
LEMMA Unmasked ==
    ASSUME SpinInv, NEW c \in Cpus, NEW l \in Levels, level[c] = l,
           Pushed(pc[c][l]) = 0, held[c][l] = {}
    PROVE  ncli[c] = 0
  BY RunningCount, FS_EmptySet

(* A lock that is held counts. *)
LEMMA HeldCounts ==
    ASSUME TypeOK, NEW c \in Cpus, NEW l \in Levels, NEW k \in held[c][l]
    PROVE  Cardinality(held[c][l]) > 0
  BY HeldFinite, FS_EmptySet

(* A step of level l on CPU c that neither starts nor ends at the places    *)
(* where the ownership of a lock changes keeps who owns what.              *)
LEMMA OwnershipKept ==
    ASSUME SpinInv, NEW c \in Cpus, NEW l \in Levels, NEW s,
           UNCHANGED <<locked, owner, held>>, Goto(c, l, s),
           {s, pc[c][l]} \cap {"setcpu", "unlock"} = {},
           \A d \in Cpus, m \in Levels :
               (d # c \/ m # l) => arg'[d][m] = arg[d][m]
    PROVE  OwnerRecorded' /\ MutualExclusion'
<1>1. \A d \in Cpus, m \in Levels :
         pc'[d][m] = IF d = c /\ m = l THEN s ELSE pc[d][m]
  BY DEF SpinInv, TypeOK, Goto
<1>2. \A d \in Cpus, m \in Levels :
         Owned(d, m)' = Owned(d, m) /\ Owns(d, m)' = Owns(d, m)
  BY <1>1 DEF Owned, Owns
<1>3. OwnerRecorded'
  BY <1>2 DEF SpinInv, OwnerRecorded
<1>4. MutualExclusion'
  BY <1>2 DEF SpinInv, MutualExclusion
<1> QED
  BY <1>3, <1>4

(* A step of CPU c that keeps its flag masked, as the counts ask, keeps    *)
(* Masked, for the flags of the other CPUs are their own.                  *)
LEMMA MaskedKept ==
    ASSUME SpinInv, NEW c \in Cpus, UNCHANGED <<level, outer>>,
           \A d \in Cpus \ {c} : /\ ncli'[d] = ncli[d]
                                /\ flag'[d] = flag[d]
                                /\ intena'[d] = intena[d],
           IF ncli'[c] = 0 THEN flag'[c] = Base(c)
                           ELSE ~flag'[c] /\ intena'[c] = Base(c)
    PROVE  Masked'
<1>1. \A d \in Cpus : Base(d)' = Base(d)
  BY DEF Base
<1> QED
  BY <1>1 DEF SpinInv, Masked

(* A step of the running level l of CPU c to a place s inside the lock      *)
(* code leaves the suspended levels, and the flags they copied, alone.     *)
LEMMA Onward ==
    ASSUME SpinInv, NEW c \in Cpus, NEW l \in Levels, NEW s \in Codes,
           level[c] = l, Goto(c, l, s), s \notin {"cli", "panic"},
           UNCHANGED <<level, outer>>,
           \A d \in Cpus, m \in Levels :
               (d # c \/ m # l) => /\ eflags'[d][m] = eflags[d][m]
                                  /\ held'[d][m] = held[d][m]
    PROVE  Suspended' /\ CopyFresh' /\ NoPanic'
<1>1. \A d \in Cpus, m \in Levels :
         pc'[d][m] = IF d = c /\ m = l THEN s ELSE pc[d][m]
  BY DEF SpinInv, TypeOK, Goto
<1>2. Suspended'
  BY <1>1 DEF SpinInv, Suspended, Levels
<1>3. CopyFresh'
  BY <1>1 DEF SpinInv, CopyFresh
<1>4. NoPanic'
  BY <1>1 DEF SpinInv, NoPanic
<1> QED
  BY <1>2, <1>3, <1>4

-----------------------------------------------------------------------------

(* At the start no lock is taken and no pushcli is under way. *)
LEMMA InitInv == Init => SpinInv
<1> SUFFICES ASSUME Init PROVE SpinInv
  OBVIOUS
<1>1. TypeOK
  BY SpinlockAssumption DEF Init, TypeOK, Levels, Codes
<1>2. NcliCounts
  BY FS_EmptySet DEF Init, NcliCounts, Depth, Pushed, Levels
<1>3. Suspended /\ Arguments /\ NoPanic /\ CopyFresh
  BY DEF Init, Suspended, Arguments, NoPanic, CopyFresh, Levels
<1>4. Masked
  BY DEF Init, Masked, Base
<1>5. OwnerRecorded
  BY SpinlockAssumption DEF Init, OwnerRecorded, Owned
<1>6. MutualExclusion
  BY DEF Init, MutualExclusion, Owns
<1> QED
  BY <1>1, <1>2, <1>3, <1>4, <1>5, <1>6 DEF SpinInv

(* AcquireRead *)
LEMMA AcquireReadStep ==
    ASSUME SpinInv, NEW c \in Cpus, NEW l \in Levels, NEW k \in Locks,
           AcquireRead(c, l, k)
    PROVE  SpinInv'
<1>1. /\ level[c] = l /\ pc[c][l] = "idle" /\ Goto(c, l, "cli")
      /\ k \notin held[c][l]
      /\ arg' = [arg EXCEPT ![c][l] = k]
      /\ eflags' = [eflags EXCEPT ![c][l] = flag[c]]
      /\ UNCHANGED <<locked, owner, ncli, intena, flag, level, held, outer>>
  BY SpinlockAssumption DEF AcquireRead, At, SpinInv, TypeOK
<1>2. TypeOK'
  BY <1>1 DEF SpinInv, TypeOK, Codes, Goto
<1>3. NcliCounts'
  <2>1. Pushed("cli") = 0 /\ Pushed("idle") = 0
    BY DEF Pushed
  <2> QED
    BY <1>1, <2>1, CountsAfterGoto DEF SpinInv, TypeOK
<1>4. Suspended'
  BY <1>1 DEF SpinInv, TypeOK, Suspended, Levels, Goto
<1>5. Arguments'
  BY <1>1 DEF SpinInv, TypeOK, Arguments, Goto
<1>6. Masked'
  BY <1>1 DEF SpinInv, Masked, Base
<1>7. CopyFresh'
  <2>1. held[c][l] = {} => ncli[c] = 0
    BY <1>1, Unmasked DEF Pushed
  <2>2. held[c][l] = {} => eflags'[c][l] = (l = "proc" /\ outer[c])
    BY <1>1, <2>1 DEF SpinInv, TypeOK, Masked, Base, Levels
  <2>3. \A d \in Cpus, m \in Levels :
           (d # c \/ m # l) => eflags'[d][m] = eflags[d][m]
    BY <1>1 DEF SpinInv, TypeOK
  <2>4. \A d \in Cpus, m \in Levels :
           pc'[d][m] = IF d = c /\ m = l THEN "cli" ELSE pc[d][m]
    BY <1>1 DEF SpinInv, TypeOK, Goto
  <2> QED
    BY <1>1, <2>2, <2>3, <2>4 DEF SpinInv, CopyFresh
<1>8. OwnerRecorded' /\ MutualExclusion'
  <2>1. \A d \in Cpus, m \in Levels :
           (d # c \/ m # l) => arg'[d][m] = arg[d][m]
    BY <1>1 DEF SpinInv, TypeOK
  <2> QED
    BY <1>1, <2>1, OwnershipKept
<1>9. NoPanic'
  BY <1>1 DEF SpinInv, TypeOK, NoPanic, Goto
<1> QED
  BY <1>2, <1>3, <1>4, <1>5, <1>6, <1>7, <1>8, <1>9 DEF SpinInv

(* AcquireCli: a pushcli of a CPU without locks saves the copied flag.     *)
LEMMA AcquireCliStep ==
    ASSUME SpinInv, NEW c \in Cpus, NEW l \in Levels, AcquireCli(c, l)
    PROVE  SpinInv'
<1>1. /\ level[c] = l /\ pc[c][l] = "cli" /\ Goto(c, l, "a_locked")
      /\ eflags' = [eflags EXCEPT ![c][l] = FALSE]
      /\ flag' = [flag EXCEPT ![c] = FALSE]
      /\ ncli' = [ncli EXCEPT ![c] = @ + 1]
      /\ intena' = IF ncli[c] = 0 THEN [intena EXCEPT ![c] = eflags[c][l]] ELSE intena
      /\ UNCHANGED <<locked, owner, level, arg, held, outer>>
  BY DEF AcquireCli, At, Pushcli
<1>2. TypeOK'
  BY <1>1 DEF SpinInv, TypeOK, Codes, Goto
<1>3. NcliCounts'
  <2>1. Pushed("cli") = 0 /\ Pushed("a_locked") = 1
    BY DEF Pushed
  <2> QED
    BY <1>1, <2>1, CountsAfterGoto DEF SpinInv, TypeOK
<1>4. Suspended' /\ CopyFresh' /\ NoPanic'
  <2>1. \A d \in Cpus, m \in Levels :
           (d # c \/ m # l) => eflags'[d][m] = eflags[d][m]
    BY <1>1 DEF SpinInv, TypeOK
  <2>2. \A d \in Cpus, m \in Levels :
           (d # c \/ m # l) => /\ eflags'[d][m] = eflags[d][m]
                              /\ held'[d][m] = held[d][m]
    BY <1>1, <2>1
  <2>3. "a_locked" \in Codes /\ "a_locked" \notin {"cli", "panic"}
    BY DEF Codes
  <2>4. level[c] = l /\ Goto(c, l, "a_locked") /\ UNCHANGED <<level, outer>>
    BY <1>1
  <2> QED
    BY <2>2, <2>3, <2>4, Onward
<1>5. Arguments'
  BY <1>1 DEF SpinInv, TypeOK, Arguments, Goto
<1>6. Masked'
  <2>1. ncli[c] = 0 => held[c][l] = {}
    BY <1>1, RunningCount, HeldCounts, PushedNat, HeldFinite DEF SpinInv
  <2>2. ncli[c] = 0 => eflags[c][l] = Base(c)
    BY <1>1, <2>1 DEF SpinInv, CopyFresh, Base
  <2>3. ncli'[c] # 0 /\ ~flag'[c] /\ intena'[c] = Base(c)
    BY <1>1, <2>2 DEF SpinInv, TypeOK, Masked
  <2>4. \A d \in Cpus \ {c} : /\ ncli'[d] = ncli[d]
                              /\ flag'[d] = flag[d]
                              /\ intena'[d] = intena[d]
    BY <1>1 DEF SpinInv, TypeOK
  <2> QED
    BY <1>1, <2>3, <2>4, MaskedKept
<1>7. OwnerRecorded' /\ MutualExclusion'
  BY <1>1, OwnershipKept
<1> QED
  BY <1>2, <1>3, <1>4, <1>5, <1>6, <1>7 DEF SpinInv

(* AcquireXchg: the lock was free, so the level becomes its only owner.    *)
LEMMA AcquireXchgStep ==
    ASSUME SpinInv, NEW c \in Cpus, NEW l \in Levels, AcquireXchg(c, l)
    PROVE  SpinInv'
<1>0. PICK k \in Locks : k = arg[c][l]
  BY DEF AcquireXchg, At, SpinInv, Arguments
<1>1. /\ level[c] = l /\ pc[c][l] = "xchg" /\ Goto(c, l, "setcpu")
      /\ k = arg[c][l]
      /\ ~locked[k]
      /\ locked' = [locked EXCEPT ![k] = TRUE]
      /\ UNCHANGED <<owner, ncli, intena, flag, level, arg, eflags, held, outer>>
  BY <1>0 DEF AcquireXchg, At
<1>2. k \in Locks /\ k \notin held[c][l]
  BY <1>1 DEF SpinInv, Arguments
<1>3. TypeOK'
  BY <1>1, <1>2 DEF SpinInv, TypeOK, Codes, Goto
<1>4. NcliCounts'
  <2>1. Pushed("xchg") = 1 /\ Pushed("setcpu") = 1
    BY DEF Pushed
  <2> QED
    BY <1>1, <2>1, CountsAfterGoto DEF SpinInv, TypeOK
<1>5. Suspended' /\ CopyFresh' /\ NoPanic'
  BY <1>1, Onward DEF Codes
<1>6. Arguments'
  BY <1>1 DEF SpinInv, TypeOK, Arguments, Goto
<1>7. Masked'
  BY <1>1 DEF SpinInv, Masked, Base
<1>8. \A d \in Cpus, m \in Levels :
         pc'[d][m] = IF d = c /\ m = l THEN "setcpu" ELSE pc[d][m]
  BY <1>1 DEF SpinInv, TypeOK, Goto
<1>9. OwnerRecorded'
  <2>1. \A d \in Cpus, m \in Levels : Owned(d, m)' = Owned(d, m)
    BY <1>1, <1>8 DEF Owned
  <2> QED
    BY <1>1, <2>1 DEF SpinInv, OwnerRecorded
<1>10. MutualExclusion'
  <2>1. \A d \in Cpus, m \in Levels :
           Owns(d, m)' = IF d = c /\ m = l THEN Owns(c, l) \cup {k} ELSE Owns(d, m)
    BY <1>1, <1>8 DEF Owns
  <2>2. \A d \in Cpus, m \in Levels : k \notin Owns(d, m)
    BY <1>1, <1>2 DEF SpinInv, MutualExclusion
  <2>3. \A d, e \in Cpus : \A m, n \in Levels :
           Owns(d, m)' \cap Owns(e, n)' # {} => d = e /\ m = n
    BY <2>1, <2>2 DEF SpinInv, MutualExclusion
  <2>4. \A j \in Locks :
           locked'[j] <=> \E d \in Cpus, m \in Levels : j \in Owns(d, m)'
    <3> TAKE j \in Locks
    <3>1. CASE j = k
      BY <1>1, <1>2, <2>1, <3>1 DEF SpinInv, TypeOK
    <3>2. CASE j # k
      <4>1. \A d \in Cpus, m \in Levels : j \in Owns(d, m)' <=> j \in Owns(d, m)
        BY <2>1, <3>2
      <4>2. locked'[j] = locked[j]
        BY <1>1, <3>2 DEF SpinInv, TypeOK
      <4> QED
        BY <4>1, <4>2 DEF SpinInv, MutualExclusion
    <3> QED
      BY <3>1, <3>2
  <2> QED
    BY <2>3, <2>4 DEF MutualExclusion
<1> QED
  BY <1>3, <1>4, <1>5, <1>6, <1>7, <1>9, <1>10 DEF SpinInv

(* AcquireOwn: lk->cpu is written, and the pushcli of acquire becomes the  *)
(* one that counts for the lock.                                           *)
LEMMA AcquireOwnStep ==
    ASSUME SpinInv, NEW c \in Cpus, NEW l \in Levels, AcquireOwn(c, l)
    PROVE  SpinInv'
<1>0. PICK k \in Locks : k = arg[c][l]
  BY DEF AcquireOwn, At, SpinInv, Arguments
<1>1. /\ k = arg[c][l]
      /\ level[c] = l /\ pc[c][l] = "setcpu" /\ Goto(c, l, "idle")
      /\ arg' = [arg EXCEPT ![c][l] = NoLock]
      /\ owner' = [owner EXCEPT ![k] = c]
      /\ held' = [held EXCEPT ![c][l] = @ \cup {k}]
      /\ UNCHANGED <<locked, ncli, intena, flag, level, eflags, outer>>
  BY <1>0 DEF AcquireOwn, At, Return
<1>2. k \in Locks /\ k \notin held[c][l]
  BY <1>1 DEF SpinInv, Arguments
<1>3. TypeOK'
  BY <1>1, <1>2 DEF SpinInv, TypeOK, Codes, Goto
<1>4. \A d \in Cpus, m \in Levels :
         /\ pc'[d][m] = IF d = c /\ m = l THEN "idle" ELSE pc[d][m]
         /\ held'[d][m] = IF d = c /\ m = l THEN held[c][l] \cup {k} ELSE held[d][m]
         /\ (d # c \/ m # l) => arg'[d][m] = arg[d][m]
  BY <1>1 DEF SpinInv, TypeOK, Goto
<1>5. NcliCounts'
  <2>1. Cardinality(held[c][l] \cup {k}) = Cardinality(held[c][l]) + 1
    BY <1>2, HeldFinite, FS_AddElement DEF SpinInv
  <2>2. /\ Depth(c, l) = Cardinality(held[c][l]) + 1
        /\ Depth(c, l)' = Cardinality(held[c][l] \cup {k}) + 0
    <3>1. pc'[c][l] = "idle" /\ held'[c][l] = held[c][l] \cup {k}
      BY <1>4
    <3> QED
      BY <1>1, <3>1 DEF Depth, Pushed
  <2>3. \A d \in Cpus, m \in Levels :
           (d # c \/ m # l) => Depth(d, m)' = Depth(d, m)
    BY <1>4 DEF Depth
  <2>4. Depth(c, l)' \in Nat /\ ncli'[c] = ncli[c] + (Depth(c, l)' - Depth(c, l))
    BY <1>1, <2>1, <2>2, HeldFinite DEF SpinInv, TypeOK
  <2> QED
    BY <1>1, <2>3, <2>4, CountsKept
<1>6. Suspended' /\ CopyFresh' /\ NoPanic'
  BY <1>1, <1>4, Onward DEF Codes
<1>7. Arguments'
  BY <1>1, <1>2, <1>4 DEF SpinInv, TypeOK, Arguments
<1>8. Masked'
  BY <1>1 DEF SpinInv, Masked, Base
<1>9. \A d \in Cpus, m \in Levels : Owns(d, m)' = Owns(d, m)
  BY <1>1, <1>4 DEF Owns
<1>10. MutualExclusion'
  BY <1>1, <1>9 DEF SpinInv, MutualExclusion
<1>11. OwnerRecorded'
  <2>1. /\ Owned(c, l)' = Owned(c, l) \cup {k}
        /\ \A d \in Cpus, m \in Levels :
              (d # c \/ m # l) => Owned(d, m)' = Owned(d, m)
    <3>1. Owned(c, l) = held[c][l] /\ Owned(c, l)' = held'[c][l]
      BY <1>1, <1>4 DEF Owned
    <3>2. ASSUME NEW d \in Cpus, NEW m \in Levels, d # c \/ m # l
          PROVE  Owned(d, m)' = Owned(d, m)
      BY <1>4, <3>2 DEF Owned
    <3> QED
      BY <1>4, <3>1, <3>2
  <2>2. k \in Owns(c, l)
    BY <1>1 DEF Owns
  <2>3. \A d \in Cpus, m \in Levels : k \in Owned(d, m) => d = c /\ m = l
    BY <2>2 DEF SpinInv, MutualExclusion, Owned, Owns
  <2>4. ASSUME NEW d \in Cpus, NEW j \in Locks
        PROVE  owner'[j] = d <=> \E m \in Levels : j \in Owned(d, m)'
    <3>1. CASE j = k
      <4>1. owner'[j] = c
        BY <1>1, <3>1 DEF SpinInv, TypeOK
      <4> QED
        BY <2>1, <2>3, <3>1, <4>1
    <3>2. CASE j # k
      <4>1. owner'[j] = owner[j]
        BY <1>1, <3>2 DEF SpinInv, TypeOK
      <4>2. \A m \in Levels : j \in Owned(d, m)' <=> j \in Owned(d, m)
        BY <2>1, <3>2
      <4> QED
        BY <4>1, <4>2 DEF SpinInv, OwnerRecorded
    <3> QED
      BY <3>1, <3>2
  <2> QED
    BY <2>4 DEF OwnerRecorded
<1> QED
  BY <1>3, <1>5, <1>6, <1>7, <1>8, <1>10, <1>11 DEF SpinInv

(* What holding finds: lk->cpu is the caller's CPU exactly when the caller *)
(* holds the lock, and then lk->locked is set.                             *)
LEMMA HoldingRight ==
    ASSUME SpinInv, NEW c \in Cpus, NEW l \in Levels, NEW k \in Locks,
           level[c] = l, pc[c][l] # "unlock"
    PROVE  /\ owner[k] = c <=> k \in held[c][l]
           /\ k \in held[c][l] => locked[k]
<1>1. \A m \in Levels : m # l => Owned(c, m) = {}
  BY DEF SpinInv, Suspended, Owned, Levels
<1>2. owner[k] = c <=> k \in held[c][l]
  BY <1>1 DEF SpinInv, OwnerRecorded, Owned
<1>3. k \in held[c][l] => locked[k]
  BY DEF SpinInv, MutualExclusion, Owns
<1> QED
  BY <1>2, <1>3

(* HoldingFree: only acquire finds its lock free, and it goes on to xchg.  *)
LEMMA HoldingFreeStep ==
    ASSUME SpinInv, NEW c \in Cpus, NEW l \in Levels,
           NEW op \in {"acquire", "release"}, HoldingFree(c, l, op)
    PROVE  SpinInv'
<1>1. /\ level[c] = l /\ pc[c][l] = LockedPc(op) /\ ~locked[arg[c][l]]
      /\ Goto(c, l, After(op, FALSE))
      /\ flag' = [flag EXCEPT ![c] = @ /\ ncli[c] = 0]
      /\ intena' = IF ncli[c] = 0 THEN [intena EXCEPT ![c] = flag[c]] ELSE intena
      /\ UNCHANGED <<locked, owner, ncli, level, arg, eflags, held, outer>>
  BY DEF HoldingFree, At
<1>2. op = "acquire"
  BY <1>1, HoldingRight DEF SpinInv, Arguments, LockedPc
<1>3. pc[c][l] = "a_locked" /\ Goto(c, l, "xchg")
  BY <1>1, <1>2 DEF LockedPc, After
<1>4. ncli[c] \in Nat /\ ncli[c] # 0
  BY <1>1, <1>3, RunningCount, HeldFinite DEF Pushed, SpinInv
<1>5. flag' = flag /\ intena' = intena
  <2>1. (flag[c] /\ ncli[c] = 0) = FALSE /\ flag[c] = FALSE
    BY <1>4 DEF SpinInv, TypeOK, Masked
  <2>2. flag' = [flag EXCEPT ![c] = FALSE]
    BY <1>1, <2>1
  <2> QED
    BY <1>1, <1>4, <2>1, <2>2 DEF SpinInv, TypeOK
<1>6. /\ level[c] = l
      /\ UNCHANGED <<locked, owner, ncli, level, arg, eflags, held, outer>>
  BY <1>1
<1>7. TypeOK'
  BY <1>3, <1>5, <1>6 DEF SpinInv, TypeOK, Codes, Goto
<1>8. NcliCounts'
  <2>1. Pushed("a_locked") = 1 /\ Pushed("xchg") = 1
    BY DEF Pushed
  <2> QED
    BY <1>3, <1>6, <2>1, CountsAfterGoto DEF SpinInv, TypeOK
<1>9. Suspended' /\ CopyFresh' /\ NoPanic'
  BY <1>3, <1>6, Onward DEF Codes
<1>10. Arguments'
  BY <1>3, <1>6 DEF SpinInv, TypeOK, Arguments, Goto
<1>11. Masked'
  BY <1>5, <1>6 DEF SpinInv, Masked, Base
<1>12. OwnerRecorded' /\ MutualExclusion'
  BY <1>3, <1>6, OwnershipKept
<1> QED
  BY <1>7, <1>8, <1>9, <1>10, <1>11, <1>12 DEF SpinInv

(* HoldingLocked: one more pushcli, by a CPU whose flag is off already.    *)
LEMMA HoldingLockedStep ==
    ASSUME SpinInv, NEW c \in Cpus, NEW l \in Levels,
           NEW op \in {"acquire", "release"}, HoldingLocked(c, l, op)
    PROVE  SpinInv'
<1>1. /\ level[c] = l /\ pc[c][l] = LockedPc(op) /\ Goto(c, l, CpuPc(op))
      /\ flag' = [flag EXCEPT ![c] = FALSE]
      /\ ncli' = [ncli EXCEPT ![c] = @ + 1]
      /\ intena' = IF ncli[c] = 0 THEN [intena EXCEPT ![c] = flag[c]] ELSE intena
      /\ UNCHANGED <<locked, owner, level, arg, eflags, held, outer>>
  BY DEF HoldingLocked, At, Pushcli
<1>2. ncli[c] \in Nat /\ ncli[c] # 0
  <2>1. op = "acquire" => Pushed(pc[c][l]) = 1
    BY <1>1 DEF LockedPc, Pushed
  <2>2. op = "release" => Cardinality(held[c][l]) > 0
    BY <1>1, HeldCounts DEF SpinInv, Arguments, LockedPc
  <2> QED
    BY <1>1, <2>1, <2>2, RunningCount, HeldFinite, PushedNat DEF SpinInv
<1>3. PICK s \in {"a_cpu", "r_cpu"} :
         /\ s = "a_cpu" => pc[c][l] = "a_locked"
         /\ s = "r_cpu" => pc[c][l] = "r_locked"
         /\ Goto(c, l, s)
  BY <1>1 DEF LockedPc, CpuPc
<1>4. intena' = intena
  BY <1>1, <1>2
<1>5. TypeOK'
  BY <1>1, <1>2, <1>3, <1>4 DEF SpinInv, TypeOK, Codes, Goto
<1>6. NcliCounts'
  <2>1. Pushed(s) - Pushed(pc[c][l]) = 1
    BY <1>3 DEF Pushed
  <2> QED
    BY <1>1, <1>3, <2>1, CountsAfterGoto DEF SpinInv, TypeOK
<1>7. Suspended' /\ CopyFresh' /\ NoPanic'
  <2>1. s \in Codes /\ s \notin {"cli", "panic"}
    BY DEF Codes
  <2>2. level[c] = l /\ UNCHANGED <<level, outer, eflags, held>>
    BY <1>1
  <2> QED
    BY <1>3, <2>1, <2>2, Onward
<1>8. Arguments'
  <2>1. \A d \in Cpus, m \in Levels :
           pc'[d][m] = IF d = c /\ m = l THEN s ELSE pc[d][m]
    BY <1>3 DEF SpinInv, TypeOK, Goto
  <2> QED
    BY <1>1, <1>3, <2>1 DEF SpinInv, Arguments
<1>9. Masked'
  <2>1. ncli'[c] # 0 /\ flag'[c] = FALSE /\ intena'[c] = Base(c)
    BY <1>1, <1>2, <1>4 DEF SpinInv, TypeOK, Masked
  <2>2. \A d \in Cpus \ {c} : /\ ncli'[d] = ncli[d]
                              /\ flag'[d] = flag[d]
                              /\ intena'[d] = intena[d]
    BY <1>1, <1>4 DEF SpinInv, TypeOK
  <2> QED
    BY <1>1, <2>1, <2>2, MaskedKept
<1>10. OwnerRecorded' /\ MutualExclusion'
  <2>1. UNCHANGED <<locked, owner, held, arg>>
    BY <1>1
  <2>2. {s, pc[c][l]} \cap {"setcpu", "unlock"} = {}
    BY <1>3
  <2> QED
    BY <1>3, <2>1, <2>2, OwnershipKept
<1> QED
  BY <1>5, <1>6, <1>7, <1>8, <1>9, <1>10 DEF SpinInv

(* HoldingCpu: lk->cpu tells acquire and release what they expect, and the *)
(* popcli leaves another pushcli in force.                                 *)
LEMMA HoldingCpuStep ==
    ASSUME SpinInv, NEW c \in Cpus, NEW l \in Levels,
           NEW op \in {"acquire", "release"}, HoldingCpu(c, l, op)
    PROVE  SpinInv'
<1>1. /\ level[c] = l /\ pc[c][l] = CpuPc(op)
      /\ Goto(c, l, IF PopcliPanics(c) THEN "panic"
                    ELSE After(op, owner[arg[c][l]] = c))
      /\ ncli' = [ncli EXCEPT ![c] = @ - 1]
      /\ flag' = [flag EXCEPT ![c] = @ \/ (ncli[c] = 1 /\ intena[c])]
      /\ UNCHANGED <<locked, owner, intena, level, arg, eflags, held, outer>>
  BY DEF HoldingCpu, At, Popcli
<1>2. ncli[c] \in Nat /\ ncli[c] >= 2
  <2>1. op = "acquire" => Pushed(pc[c][l]) = 2
    BY <1>1 DEF CpuPc, Pushed
  <2>2. op = "release" => Cardinality(held[c][l]) > 0 /\ Pushed(pc[c][l]) = 1
    BY <1>1, HeldCounts DEF SpinInv, Arguments, CpuPc, Pushed
  <2>3. ncli[c] = Cardinality(held[c][l]) + Pushed(pc[c][l])
    BY <1>1, RunningCount
  <2>4. Cardinality(held[c][l]) \in Nat
    BY HeldFinite DEF SpinInv
  <2> QED
    BY <2>1, <2>2, <2>3, <2>4
<1>3. flag[c] = FALSE /\ intena[c] = Base(c)
  BY <1>2 DEF SpinInv, TypeOK, Masked
<1>4. flag' = flag
  <2>1. (flag[c] \/ (ncli[c] = 1 /\ intena[c])) = FALSE
    BY <1>2, <1>3
  <2>2. flag' = [flag EXCEPT ![c] = FALSE]
    BY <1>1, <2>1
  <2> QED
    BY <1>3, <2>2 DEF SpinInv, TypeOK
<1>5. owner[arg[c][l]] = c <=> op = "release"
  <2>1. op = "acquire" => arg[c][l] \in Locks \ held[c][l]
    BY <1>1 DEF SpinInv, Arguments, CpuPc
  <2>2. op = "release" => arg[c][l] \in held[c][l] /\ arg[c][l] \in Locks
    BY <1>1 DEF SpinInv, Arguments, CpuPc
  <2>3. pc[c][l] # "unlock"
    BY <1>1 DEF CpuPc
  <2> QED
    BY <1>1, <2>1, <2>2, <2>3, HoldingRight
<1>6. ~PopcliPanics(c)
  BY <1>2, <1>3 DEF PopcliPanics
<1>7. PICK s \in {"xchg", "clearcpu"} :
         /\ s = "xchg" => pc[c][l] = "a_cpu"
         /\ s = "clearcpu" => pc[c][l] = "r_cpu"
         /\ Goto(c, l, s)
  <2>1. op = "acquire" => pc[c][l] = "a_cpu" /\ Goto(c, l, "xchg")
    BY <1>1, <1>5, <1>6 DEF CpuPc, After
  <2>2. op = "release" => pc[c][l] = "r_cpu" /\ Goto(c, l, "clearcpu")
    BY <1>1, <1>5, <1>6 DEF CpuPc, After
  <2> QED
    BY <2>1, <2>2
<1>8. level[c] = l
      /\ UNCHANGED <<locked, owner, intena, level, arg, eflags, held, outer>>
  BY <1>1
<1>9. ncli' = [ncli EXCEPT ![c] = @ - 1]
  BY <1>1
<1>10. TypeOK'
  BY <1>2, <1>4, <1>7, <1>8, <1>9 DEF SpinInv, TypeOK, Codes, Goto
<1>11. NcliCounts'
  <2>1. Pushed(s) - Pushed(pc[c][l]) = -1
    BY <1>7 DEF Pushed
  <2>2. /\ \A d \in Cpus \ {c} : ncli'[d] = ncli[d]
        /\ ncli'[c] = ncli[c] + (Pushed(s) - Pushed(pc[c][l]))
    BY <1>2, <1>9, <2>1 DEF SpinInv, TypeOK
  <2> QED
    BY <1>7, <1>8, <2>2, CountsAfterGoto
<1>12. Suspended' /\ CopyFresh' /\ NoPanic'
  <2>1. s \in Codes /\ s \notin {"cli", "panic"}
    BY DEF Codes
  <2> QED
    BY <1>7, <1>8, <2>1, Onward
<1>13. Arguments'
  <2>1. \A d \in Cpus, m \in Levels :
           pc'[d][m] = IF d = c /\ m = l THEN s ELSE pc[d][m]
    BY <1>7 DEF SpinInv, TypeOK, Goto
  <2> QED
    BY <1>7, <1>8, <2>1 DEF SpinInv, Arguments
<1>14. Masked'
  <2>1. ncli'[c] # 0
    BY <1>2, <1>9 DEF SpinInv, TypeOK
  <2>2. \A d \in Cpus \ {c} : ncli'[d] = ncli[d]
    BY <1>9 DEF SpinInv, TypeOK
  <2> QED
    BY <1>3, <1>4, <1>8, <2>1, <2>2, MaskedKept
<1>15. OwnerRecorded' /\ MutualExclusion'
  <2>1. {s, pc[c][l]} \cap {"setcpu", "unlock"} = {}
    BY <1>7
  <2> QED
    BY <1>7, <1>8, <2>1, OwnershipKept
<1> QED
  BY <1>10, <1>11, <1>12, <1>13, <1>14, <1>15 DEF SpinInv

(* ReleaseCall *)
LEMMA ReleaseCallStep ==
    ASSUME SpinInv, NEW c \in Cpus, NEW l \in Levels, NEW k \in Locks,
           ReleaseCall(c, l, k)
    PROVE  SpinInv'
<1>1. /\ level[c] = l /\ pc[c][l] = "idle" /\ Goto(c, l, "r_locked")
      /\ k \in held[c][l]
      /\ arg' = [arg EXCEPT ![c][l] = k]
      /\ UNCHANGED <<locked, owner, ncli, intena, flag, level, eflags, held, outer>>
  BY DEF ReleaseCall, At
<1>2. TypeOK'
  BY <1>1 DEF SpinInv, TypeOK, Codes, Goto
<1>3. NcliCounts'
  <2>1. Pushed("r_locked") = 0 /\ Pushed("idle") = 0
    BY DEF Pushed
  <2> QED
    BY <1>1, <2>1, CountsAfterGoto DEF SpinInv, TypeOK
<1>4. Suspended' /\ CopyFresh' /\ NoPanic'
  BY <1>1, Onward DEF Codes
<1>5. Arguments'
  BY <1>1 DEF SpinInv, TypeOK, Arguments, Goto
<1>6. Masked'
  BY <1>1 DEF SpinInv, Masked, Base
<1>7. OwnerRecorded' /\ MutualExclusion'
  <2>1. \A d \in Cpus, m \in Levels :
           (d # c \/ m # l) => arg'[d][m] = arg[d][m]
    BY <1>1 DEF SpinInv, TypeOK
  <2> QED
    BY <1>1, <2>1, OwnershipKept
<1> QED
  BY <1>2, <1>3, <1>4, <1>5, <1>6, <1>7 DEF SpinInv

(* ReleaseDisown: lk->cpu is cleared before the lock is given up. *)
LEMMA ReleaseDisownStep ==
    ASSUME SpinInv, NEW c \in Cpus, NEW l \in Levels, ReleaseDisown(c, l)
    PROVE  SpinInv'
<1>0. PICK k \in Locks : k = arg[c][l]
  BY DEF ReleaseDisown, At, SpinInv, Arguments
<1>1. /\ k = arg[c][l]
      /\ level[c] = l /\ pc[c][l] = "clearcpu" /\ Goto(c, l, "unlock")
      /\ owner' = [owner EXCEPT ![k] = NoCpu]
      /\ UNCHANGED <<locked, ncli, intena, flag, level, arg, eflags, held, outer>>
  BY <1>0 DEF ReleaseDisown, At
<1>2. TypeOK'
  BY <1>1 DEF SpinInv, TypeOK, Codes, Goto
<1>3. NcliCounts'
  <2>1. Pushed("clearcpu") = 0 /\ Pushed("unlock") = 0
    BY DEF Pushed
  <2> QED
    BY <1>1, <2>1, CountsAfterGoto DEF SpinInv, TypeOK
<1>4. Suspended' /\ CopyFresh' /\ NoPanic'
  BY <1>1, Onward DEF Codes
<1>5. \A d \in Cpus, m \in Levels :
         pc'[d][m] = IF d = c /\ m = l THEN "unlock" ELSE pc[d][m]
  BY <1>1 DEF SpinInv, TypeOK, Goto
<1>6. Arguments'
  BY <1>1, <1>5 DEF SpinInv, Arguments
<1>7. Masked'
  BY <1>1 DEF SpinInv, Masked, Base
<1>8. MutualExclusion'
  <2>1. \A d \in Cpus, m \in Levels : Owns(d, m)' = Owns(d, m)
    BY <1>1, <1>5 DEF Owns
  <2> QED
    BY <1>1, <2>1 DEF SpinInv, MutualExclusion
<1>9. OwnerRecorded'
  <2>1. Owned(c, l) = held[c][l] /\ Owned(c, l)' = held[c][l] \ {k}
    BY <1>1, <1>5 DEF Owned
  <2>2. \A d \in Cpus, m \in Levels :
           (d # c \/ m # l) => Owned(d, m)' = Owned(d, m)
    <3>1. ASSUME NEW d \in Cpus, NEW m \in Levels, d # c \/ m # l
          PROVE  Owned(d, m)' = Owned(d, m)
      BY <1>1, <1>5, <3>1 DEF Owned
    <3> QED
      BY <3>1
  <2>3. k \in Owns(c, l)
    BY <1>1 DEF SpinInv, Arguments, Owns
  <2>4. \A d \in Cpus, m \in Levels : k \notin Owned(d, m)'
    <3>1. \A d \in Cpus, m \in Levels : k \in Owns(d, m) => d = c /\ m = l
      BY <2>3 DEF SpinInv, MutualExclusion
    <3>2. \A d \in Cpus, m \in Levels : Owned(d, m) \subseteq Owns(d, m)
      BY DEF Owned, Owns
    <3> QED
      BY <2>1, <2>2, <3>1, <3>2
  <2>5. ASSUME NEW d \in Cpus, NEW j \in Locks
        PROVE  owner'[j] = d <=> \E m \in Levels : j \in Owned(d, m)'
    <3>1. CASE j = k
      <4>1. owner'[j] = NoCpu
        BY <1>1, <3>1 DEF SpinInv, TypeOK
      <4> QED
        BY <2>4, <3>1, <4>1, SpinlockAssumption
    <3>2. CASE j # k
      <4>1. owner'[j] = owner[j]
        BY <1>1, <3>2 DEF SpinInv, TypeOK
      <4>2. \A m \in Levels : j \in Owned(d, m)' <=> j \in Owned(d, m)
        BY <2>1, <2>2, <3>2
      <4> QED
        BY <4>1, <4>2 DEF SpinInv, OwnerRecorded
    <3> QED
      BY <3>1, <3>2
  <2> QED
    BY <2>5 DEF OwnerRecorded
<1> QED
  BY <1>2, <1>3, <1>4, <1>6, <1>7, <1>8, <1>9 DEF SpinInv

(* ReleaseUnlock: the count of the lock becomes the pushcli that popcli is *)
(* about to undo.                                                          *)
LEMMA ReleaseUnlockStep ==
    ASSUME SpinInv, NEW c \in Cpus, NEW l \in Levels, ReleaseUnlock(c, l)
    PROVE  SpinInv'
<1>0. PICK k \in Locks : k = arg[c][l]
  BY DEF ReleaseUnlock, At, SpinInv, Arguments
<1>1. /\ k = arg[c][l]
      /\ level[c] = l /\ pc[c][l] = "unlock" /\ Goto(c, l, "popcli")
      /\ locked' = [locked EXCEPT ![k] = FALSE]
      /\ held' = [held EXCEPT ![c][l] = @ \ {k}]
      /\ UNCHANGED <<owner, ncli, intena, flag, level, arg, eflags, outer>>
  BY <1>0 DEF ReleaseUnlock, At
<1>2. k \in held[c][l]
  BY <1>1 DEF SpinInv, Arguments
<1>3. TypeOK'
  BY <1>1 DEF SpinInv, TypeOK, Codes, Goto
<1>4. \A d \in Cpus, m \in Levels :
         /\ pc'[d][m] = IF d = c /\ m = l THEN "popcli" ELSE pc[d][m]
         /\ held'[d][m] = IF d = c /\ m = l THEN held[c][l] \ {k} ELSE held[d][m]
  BY <1>1 DEF SpinInv, TypeOK, Goto
<1>5. NcliCounts'
  <2>1. /\ Cardinality(held[c][l] \ {k}) = Cardinality(held[c][l]) - 1
        /\ Cardinality(held[c][l]) > 0
    BY <1>2, HeldFinite, HeldCounts, FS_RemoveElement DEF SpinInv
  <2>2. /\ Depth(c, l) = Cardinality(held[c][l]) + 0
        /\ Depth(c, l)' = Cardinality(held[c][l] \ {k}) + 1
    BY <1>1, <1>4 DEF Depth, Pushed
  <2>3. \A d \in Cpus, m \in Levels :
           (d # c \/ m # l) => Depth(d, m)' = Depth(d, m)
    BY <1>4 DEF Depth
  <2>4. Depth(c, l)' \in Nat /\ ncli'[c] = ncli[c] + (Depth(c, l)' - Depth(c, l))
    BY <1>1, <2>1, <2>2, HeldFinite DEF SpinInv, TypeOK
  <2> QED
    BY <1>1, <2>3, <2>4, CountsKept
<1>6. Suspended' /\ CopyFresh' /\ NoPanic'
  BY <1>1, <1>4, Onward DEF Codes
<1>7. Arguments'
  BY <1>1, <1>4 DEF SpinInv, TypeOK, Arguments
<1>8. Masked'
  BY <1>1 DEF SpinInv, Masked, Base
<1>9. OwnerRecorded'
  <2>1. Owned(c, l)' = Owned(c, l)
    <3>1. pc'[c][l] = "popcli" /\ held'[c][l] = held[c][l] \ {k}
      BY <1>4
    <3> QED
      BY <1>1, <3>1 DEF Owned
  <2>2. ASSUME NEW d \in Cpus, NEW m \in Levels, d # c \/ m # l
        PROVE  Owned(d, m)' = Owned(d, m)
    <3>1. /\ pc'[d][m] = pc[d][m] /\ held'[d][m] = held[d][m]
          /\ arg'[d][m] = arg[d][m]
      BY <1>1, <1>4, <2>2
    <3> QED
      BY <3>1 DEF Owned
  <2> QED
    BY <1>1, <2>1, <2>2 DEF SpinInv, OwnerRecorded
<1>10. MutualExclusion'
  <2>1. Owns(c, l) = held[c][l] /\ Owns(c, l)' = held[c][l] \ {k}
    BY <1>1, <1>4 DEF Owns
  <2>2. \A d \in Cpus, m \in Levels :
           (d # c \/ m # l) => Owns(d, m)' = Owns(d, m)
    <3>1. ASSUME NEW d \in Cpus, NEW m \in Levels, d # c \/ m # l
          PROVE  Owns(d, m)' = Owns(d, m)
      BY <1>1, <1>4, <3>1 DEF Owns
    <3> QED
      BY <3>1
  <2>3. \A d \in Cpus, m \in Levels : k \notin Owns(d, m)'
    BY <1>2, <2>1, <2>2 DEF SpinInv, MutualExclusion
  <2>4. \A d, e \in Cpus : \A m, n \in Levels :
           Owns(d, m)' \cap Owns(e, n)' # {} => d = e /\ m = n
    <3>1. \A d \in Cpus, m \in Levels : Owns(d, m)' \subseteq Owns(d, m)
      BY <2>1, <2>2
    <3> QED
      BY <3>1 DEF SpinInv, MutualExclusion
  <2>5. ASSUME NEW j \in Locks
        PROVE  locked'[j] <=> \E d \in Cpus, m \in Levels : j \in Owns(d, m)'
    <3>1. CASE j = k
      BY <1>1, <2>3, <3>1 DEF SpinInv, TypeOK
    <3>2. CASE j # k
      <4>1. locked'[j] = locked[j]
        BY <1>1, <3>2 DEF SpinInv, TypeOK
      <4>2. \A d \in Cpus, m \in Levels : j \in Owns(d, m)' <=> j \in Owns(d, m)
        BY <2>1, <2>2, <3>2
      <4> QED
        BY <4>1, <4>2 DEF SpinInv, MutualExclusion
    <3> QED
      BY <3>1, <3>2
  <2> QED
    BY <2>4, <2>5 DEF MutualExclusion
<1> QED
  BY <1>3, <1>5, <1>6, <1>7, <1>8, <1>9, <1>10 DEF SpinInv

(* ReleasePopcli: the flag comes back exactly with the last popcli.        *)
LEMMA ReleasePopcliStep ==
    ASSUME SpinInv, NEW c \in Cpus, NEW l \in Levels, ReleasePopcli(c, l)
    PROVE  SpinInv'
<1>1. /\ level[c] = l /\ pc[c][l] = "popcli"
      /\ ncli' = [ncli EXCEPT ![c] = @ - 1]
      /\ flag' = [flag EXCEPT ![c] = @ \/ (ncli[c] = 1 /\ intena[c])]
      /\ UNCHANGED <<locked, owner, intena, level, eflags, held, outer>>
  BY DEF ReleasePopcli, At, Popcli
<1>2. ncli[c] \in Nat /\ ncli[c] >= 1
  <2>1. Pushed(pc[c][l]) = 1
    BY <1>1 DEF Pushed
  <2> QED
    BY <1>1, <2>1, RunningCount, HeldFinite DEF SpinInv
<1>3. flag[c] = FALSE /\ intena[c] = Base(c) /\ Base(c) \in BOOLEAN
  BY <1>2 DEF SpinInv, TypeOK, Masked, Base
<1>4. ~PopcliPanics(c)
  BY <1>2, <1>3 DEF PopcliPanics
<1>5. Goto(c, l, "idle") /\ arg' = [arg EXCEPT ![c][l] = NoLock]
  BY <1>4 DEF ReleasePopcli, Return
<1>6. TypeOK'
  BY <1>1, <1>2, <1>5 DEF SpinInv, TypeOK, Codes, Goto
<1>7. NcliCounts'
  <2>1. Pushed("idle") - Pushed(pc[c][l]) = -1
    BY <1>1 DEF Pushed
  <2>2. /\ \A d \in Cpus \ {c} : ncli'[d] = ncli[d]
        /\ ncli'[c] = ncli[c] + (Pushed("idle") - Pushed(pc[c][l]))
    BY <1>1, <1>2, <2>1 DEF SpinInv, TypeOK
  <2> QED
    BY <1>1, <1>5, <2>2, CountsAfterGoto
<1>8. Suspended' /\ CopyFresh' /\ NoPanic'
  BY <1>1, <1>5, Onward DEF Codes
<1>9. Arguments'
  BY <1>1, <1>5 DEF SpinInv, TypeOK, Arguments, Goto
<1>10. Masked'
  <2>1. CASE ncli[c] = 1
    <3>1. ncli'[c] = 0 /\ flag'[c] = Base(c)
      <4>1. (flag[c] \/ (ncli[c] = 1 /\ intena[c])) = Base(c)
        BY <1>3, <2>1
      <4> QED
        BY <1>1, <2>1, <4>1 DEF SpinInv, TypeOK
    <3> QED
      BY <1>1, <3>1, MaskedKept DEF SpinInv, TypeOK
  <2>2. CASE ncli[c] # 1
    <3>1. ncli'[c] # 0 /\ flag'[c] = FALSE
      <4>1. (flag[c] \/ (ncli[c] = 1 /\ intena[c])) = FALSE
        BY <1>3, <2>2
      <4> QED
        BY <1>1, <1>2, <2>2, <4>1 DEF SpinInv, TypeOK
    <3> QED
      BY <1>1, <1>3, <3>1, MaskedKept DEF SpinInv, TypeOK
  <2> QED
    BY <2>1, <2>2
<1>11. OwnerRecorded' /\ MutualExclusion'
  <2>1. \A d \in Cpus, m \in Levels :
           (d # c \/ m # l) => arg'[d][m] = arg[d][m]
    BY <1>5 DEF SpinInv, TypeOK
  <2> QED
    BY <1>1, <1>5, <2>1, OwnershipKept
<1> QED
  BY <1>6, <1>7, <1>8, <1>9, <1>10, <1>11 DEF SpinInv

(* Interrupt: the flag is on, so the process is in no pushcli and holds no *)
(* lock; the handler starts with a count of zero.                          *)
LEMMA InterruptStep ==
    ASSUME SpinInv, NEW c \in Cpus, Interrupt(c)
    PROVE  SpinInv'
<1>1. /\ level[c] = "proc" /\ flag[c]
      /\ level' = [level EXCEPT ![c] = "irq"]
      /\ flag' = [flag EXCEPT ![c] = FALSE]
      /\ UNCHANGED <<locked, owner, ncli, intena, pc, arg, eflags, held, outer>>
  BY DEF Interrupt
<1>2. ncli[c] = 0 /\ outer[c]
  BY <1>1 DEF SpinInv, Masked, Base
<1>3. TypeOK'
  BY <1>1 DEF SpinInv, TypeOK, Levels
<1>4. NcliCounts'
  BY <1>1 DEF SpinInv, NcliCounts, Depth
<1>5. held[c]["proc"] = {} /\ pc[c]["proc"] \in {"idle", "cli"}
  <2>1. /\ 0 = Cardinality(held[c]["proc"]) + Pushed(pc[c]["proc"])
        /\ Cardinality(held[c]["proc"]) \in Nat
        /\ Pushed(pc[c]["proc"]) \in Nat
    BY <1>1, <1>2, RunningCount, HeldFinite, PushedNat DEF SpinInv, Levels
  <2>2. held[c]["proc"] = {}
    BY <2>1, HeldCounts DEF SpinInv, Levels
  <2>3. Pushed(pc[c]["proc"]) = 0
    BY <2>1
  <2>4. pc[c]["proc"] \notin {"r_locked", "clearcpu", "unlock", "panic"}
    BY <2>2 DEF SpinInv, Arguments, NoPanic, Levels
  <2> QED
    BY <2>2, <2>3, <2>4 DEF SpinInv, TypeOK, Codes, Levels, Pushed
<1>6. Suspended'
  BY <1>1, <1>2, <1>5 DEF SpinInv, TypeOK, Suspended
<1>7. Arguments' /\ CopyFresh' /\ NoPanic'
  BY <1>1 DEF SpinInv, Arguments, CopyFresh, NoPanic
<1>8. Masked'
  <2>1. ASSUME NEW d \in Cpus
        PROVE  IF ncli'[d] = 0 THEN flag'[d] = Base(d)'
                               ELSE ~flag'[d] /\ intena'[d] = Base(d)'
    <3>1. CASE d = c
      <4>1. flag'[c] = FALSE /\ level'[c] = "irq" /\ ncli'[c] = 0
        BY <1>1, <1>2 DEF SpinInv, TypeOK
      <4> QED
        BY <3>1, <4>1 DEF Base
    <3>2. CASE d # c
      BY <1>1, <3>2 DEF SpinInv, TypeOK, Masked, Base
    <3> QED
      BY <3>1, <3>2
  <2> QED
    BY <2>1 DEF Masked
<1>9. OwnerRecorded' /\ MutualExclusion'
  <2>1. \A d \in Cpus, m \in Levels :
           Owned(d, m)' = Owned(d, m) /\ Owns(d, m)' = Owns(d, m)
    BY <1>1 DEF Owned, Owns
  <2> QED
    BY <1>1, <2>1 DEF SpinInv, OwnerRecorded, MutualExclusion
<1> QED
  BY <1>3, <1>4, <1>6, <1>7, <1>8, <1>9 DEF SpinInv

(* Iret: the process finds the flag as the interrupt found it. *)
LEMMA IretStep ==
    ASSUME SpinInv, NEW c \in Cpus, Iret(c)
    PROVE  SpinInv'
<1>1. /\ level[c] = "irq" /\ pc[c]["irq"] = "idle" /\ held[c]["irq"] = {}
      /\ level' = [level EXCEPT ![c] = "proc"]
      /\ flag' = [flag EXCEPT ![c] = TRUE]
      /\ UNCHANGED <<locked, owner, ncli, intena, pc, arg, eflags, held, outer>>
  BY DEF Iret, At
<1>2. ncli[c] = 0
  BY <1>1, Unmasked DEF Levels, Pushed
<1>3. outer[c]
  BY <1>1 DEF SpinInv, Suspended
<1>4. TypeOK'
  BY <1>1 DEF SpinInv, TypeOK, Levels
<1>5. NcliCounts'
  BY <1>1 DEF SpinInv, NcliCounts, Depth
<1>6. Suspended'
  BY <1>1 DEF SpinInv, TypeOK, Suspended
<1>7. Arguments' /\ CopyFresh' /\ NoPanic'
  BY <1>1 DEF SpinInv, Arguments, CopyFresh, NoPanic
<1>8. Masked'
  <2>1. ASSUME NEW d \in Cpus
        PROVE  IF ncli'[d] = 0 THEN flag'[d] = Base(d)'
                               ELSE ~flag'[d] /\ intena'[d] = Base(d)'
    <3>1. CASE d = c
      <4>1. /\ flag'[c] = TRUE /\ level'[c] = "proc" /\ ncli'[c] = 0
            /\ outer'[c] = TRUE
        BY <1>1, <1>2, <1>3 DEF SpinInv, TypeOK
      <4> QED
        BY <3>1, <4>1 DEF Base
    <3>2. CASE d # c
      BY <1>1, <3>2 DEF SpinInv, TypeOK, Masked, Base
    <3> QED
      BY <3>1, <3>2
  <2> QED
    BY <2>1 DEF Masked
<1>9. OwnerRecorded' /\ MutualExclusion'
  <2>1. \A d \in Cpus, m \in Levels :
           Owned(d, m)' = Owned(d, m) /\ Owns(d, m)' = Owns(d, m)
    BY <1>1 DEF Owned, Owns
  <2> QED
    BY <1>1, <2>1 DEF SpinInv, OwnerRecorded, MutualExclusion
<1> QED
  BY <1>4, <1>5, <1>6, <1>7, <1>8, <1>9 DEF SpinInv

-----------------------------------------------------------------------------

(* Every step preserves SpinInv. *)
LEMMA StepInv == SpinInv /\ [Next]_vars => SpinInv'
<1> SUFFICES ASSUME SpinInv, [Next]_vars PROVE SpinInv'
  OBVIOUS
<1>1. ASSUME NEW c \in Cpus, Interrupt(c) \/ Iret(c) PROVE SpinInv'
  BY <1>1, InterruptStep, IretStep
<1>2. ASSUME NEW c \in Cpus, NEW l \in Levels, Acquire(c, l) PROVE SpinInv'
  BY <1>2, AcquireReadStep, AcquireCliStep, AcquireXchgStep, AcquireOwnStep
  DEF Acquire
<1>3. ASSUME NEW c \in Cpus, NEW l \in Levels, Holding(c, l) PROVE SpinInv'
  BY <1>3, HoldingFreeStep, HoldingLockedStep, HoldingCpuStep DEF Holding
<1>4. ASSUME NEW c \in Cpus, NEW l \in Levels, Release(c, l) PROVE SpinInv'
  BY <1>4, ReleaseCallStep, ReleaseDisownStep, ReleaseUnlockStep,
     ReleasePopcliStep
  DEF Release
<1>5. CASE UNCHANGED vars
  <2>1. TypeOK' /\ Suspended' /\ Arguments' /\ CopyFresh' /\ NoPanic'
    BY <1>5 DEF vars, SpinInv, TypeOK, Suspended, Arguments, CopyFresh, NoPanic
  <2>2. NcliCounts' /\ Masked'
    BY <1>5 DEF vars, SpinInv, NcliCounts, Depth, Masked, Base
  <2>3. \A d \in Cpus, m \in Levels :
           Owned(d, m)' = Owned(d, m) /\ Owns(d, m)' = Owns(d, m)
    BY <1>5 DEF vars, Owned, Owns
  <2>4. OwnerRecorded' /\ MutualExclusion'
    BY <1>5, <2>3 DEF vars, SpinInv, OwnerRecorded, MutualExclusion
  <2> QED
    BY <2>1, <2>2, <2>4 DEF SpinInv
<1> QED
  BY <1>1, <1>2, <1>3, <1>4, <1>5 DEF Next

(* SpinInv holds in every reachable state of the lock code. *)
THEOREM SpinInvariant == Spec => []SpinInv
BY InitInv, StepInv, PTL DEF Spec

(* The variables keep their types; in particular ncli stays a natural      *)
(* number (popcli never counts below zero).                                *)
THEOREM SpinTypes == Spec => []TypeOK
<1>1. SpinInv => TypeOK
  BY DEF SpinInv
<1> QED
  BY <1>1, SpinInvariant, PTL

(* A lock has one owner at a time, and the panics of acquire, release and  *)
(* popcli are not reached, with any number of CPUs and locks.              *)
THEOREM SpinSafe == Spec => []LocksSound
<1>1. SpinInv => LocksSound
  BY DEF SpinInv, LocksSound
<1> QED
  BY <1>1, SpinInvariant, PTL

(* Interrupts are off on a CPU that owns a lock, so its handler never      *)
(* waits for the code it interrupted; and acquire and release leave the    *)
(* interrupt flag as they found it.                                        *)
THEOREM SpinInterrupts == Spec => []InterruptsSound
<1>1. SpinInv => HolderMasked
  <2> SUFFICES ASSUME SpinInv, NEW c \in Cpus, NEW l \in Levels,
                      Owns(c, l) # {}
               PROVE  ~flag[c]
    BY DEF HolderMasked
  <2>1. level[c] = l
    BY DEF SpinInv, TypeOK, Suspended, Owns, Levels
  <2>2. Cardinality(held[c][l]) > 0 \/ Pushed(pc[c][l]) = 1
    BY HeldCounts DEF SpinInv, Owns, Pushed
  <2>3. ncli[c] # 0
    BY <2>1, <2>2, RunningCount, HeldFinite, PushedNat DEF SpinInv
  <2> QED
    BY <2>3 DEF SpinInv, Masked
<1>2. SpinInv => InterruptsRestored
  <2> SUFFICES ASSUME SpinInv, NEW c \in Cpus
               PROVE  /\ level[c] = "irq" => ~flag[c]
                      /\ level[c] = "proc" /\ pc[c]["proc"] \in {"idle", "cli"}
                           /\ held[c]["proc"] = {} => flag[c] = outer[c]
    BY DEF InterruptsRestored
  <2>1. level[c] = "irq" => ~flag[c]
    BY DEF SpinInv, Masked, Base
  <2>2. ASSUME level[c] = "proc", pc[c]["proc"] \in {"idle", "cli"},
               held[c]["proc"] = {}
        PROVE  flag[c] = outer[c]
    <3>1. ncli[c] = 0
      BY <2>2, Unmasked DEF Levels, Pushed
    <3> QED
      BY <2>2, <3>1 DEF SpinInv, TypeOK, Masked, Base
  <2> QED
    BY <2>1, <2>2
<1>3. SpinInv => InterruptsSound
  BY <1>1, <1>2 DEF InterruptsSound
<1> QED
  BY <1>3, SpinInvariant, PTL
=============================================================================

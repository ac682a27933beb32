--------------------------- MODULE FileTableProofs ----------------------------
(***************************************************************************)
(* The invariant FileInv of the file table, and the properties that follow *)
(* from it, for any number of processes, files, descriptors, inodes and    *)
(* pages for pipes.                                                        *)
(*                                                                         *)
(* FileInv is RefsCounted and what it needs: what each process has in hand *)
(* at each place of its calls, that an entry without a type has one user,  *)
(* who owns the end of a pipe, and who holds which inode's lock.  The      *)
(* proof takes one of its conjuncts after the other (TypesKept, HandsKept, *)
(* ForksKept, RefsKept, EntriesKept, EndsKept, IoKept) through every step. *)
(***************************************************************************)
EXTENDS FileTable, FiniteSetTheorems, TLAPS

LEMMA Apart ==
    /\ None \notin Procs /\ None \notin Files /\ None \notin Inodes
    /\ None \notin PipePages /\ None \notin Entries
BY FileTableAssumption

LEMMA Limits == NFds \in Nat /\ MaxChunk \in Nat /\ MaxSize \in Nat
BY FileTableAssumption

-----------------------------------------------------------------------------
(* Counting pointers *)

LEMMA PlacesFinite == IsFiniteSet(Procs \X Places)
<1>1. IsFiniteSet(Places)
  BY Limits, FS_Interval DEF Places
<1> QED
  BY <1>1, FileTableAssumption, FS_Product

LEMMA PointersFinite ==
    ASSUME NEW f
    PROVE  IsFiniteSet(Pointers(f)) /\ Cardinality(Pointers(f)) \in Nat
<1>1. Pointers(f) \subseteq Procs \X Places
  BY DEF Pointers
<1> QED
  BY <1>1, PlacesFinite, FS_Subset, FS_CardinalityType

(* A set that gets, loses or exchanges an element. *)
LEMMA OneMore ==
    ASSUME NEW S, NEW T, NEW x, IsFiniteSet(S), x \notin S, T = S \cup {x}
    PROVE  Cardinality(T) = Cardinality(S) + 1
BY FS_AddElement

LEMMA OneLess ==
    ASSUME NEW S, NEW T, NEW x, IsFiniteSet(S), x \in S, T = S \ {x}
    PROVE  Cardinality(T) = Cardinality(S) - 1
BY FS_RemoveElement

LEMMA OneMoved ==
    ASSUME NEW S, NEW T, NEW x, NEW y, IsFiniteSet(S), x \in S, y \notin S,
           T = (S \ {x}) \cup {y}
    PROVE  Cardinality(T) = Cardinality(S)
<1>1. IsFiniteSet(S \ {x}) /\ Cardinality(S \ {x}) = Cardinality(S) - 1
  BY FS_RemoveElement
<1>2. Cardinality(T) = Cardinality(S \ {x}) + 1
  BY <1>1, FS_AddElement
<1> QED
  BY <1>1, <1>2, FS_CardinalityType

(* A file that some place leads to has a reference, and with two places it *)
(* has more than one.                                                      *)
LEMMA HeldCounted ==
    ASSUME FileInv, NEW p \in Procs, NEW k \in Places, NEW f \in Files, Held(p, k) = f
    PROVE  /\ file[f].ref > 0
           /\ file[f].ref = 1 =>
                \A q \in Procs, j \in Places : Held(q, j) = f => q = p /\ j = k
<1> DEFINE P == Pointers(f)
<1>1. IsFiniteSet(P) /\ Cardinality(P) \in Nat /\ file[f].ref = Cardinality(P)
  BY PointersFinite DEF FileInv, RefsCounted
<1>2. <<p, k>> \in P
  BY DEF Pointers
<1>3. Cardinality(P) # 0
  BY <1>1, <1>2, FS_EmptySet
<1>4. ASSUME file[f].ref = 1 PROVE \E x : P = {x}
  BY <1>1, <1>4, FS_Singleton
<1>5. ASSUME file[f].ref = 1, NEW q \in Procs, NEW j \in Places, Held(q, j) = f
      PROVE  q = p /\ j = k
  <2>1. <<q, j>> \in P
    BY <1>5 DEF Pointers
  <2>2. PICK x : P = {x}
    BY <1>4, <1>5
  <2>3. <<q, j>> = <<p, k>>
    BY <1>2, <2>1, <2>2
  <2> QED
    BY <2>3
<1> QED
  BY <1>1, <1>3, <1>5

LEMMA PlaceKinds ==
    /\ Fds \subseteq Places /\ NFds + 1 \in Places /\ NFds + 2 \in Places
    /\ \A k \in Places : k \in Fds \/ k = NFds + 1 \/ k = NFds + 2
    /\ \A k \in Fds : k \in 1..NFds
BY Limits DEF Fds, Places

(* What a descriptor and what a hand leads to. *)
LEMMA FdHeld ==
    ASSUME NEW p \in Procs, NEW k \in Fds
    PROVE  k \in Places /\ Held(p, k) = fd[p][k]
BY PlaceKinds, Limits DEF Held, Fds, Places

LEMMA ShortSequence ==
    ASSUME NEW S, NEW h \in Seq(S), Len(h) <= 2
    PROVE  /\ Len(h) \in 0..2
           /\ h = <<>> <=> Len(h) = 0
           /\ \A k \in 1..2 : k <= Len(h) => h[k] \in S
<1>1. Len(h) \in Nat
  OBVIOUS
<1>2. ASSUME NEW k \in 1..2, k <= Len(h) PROVE h[k] \in S
  BY <1>2
<1>3. h = <<>> <=> Len(h) = 0
  OBVIOUS
<1>4. Len(h) \in 0..2
  <2> DEFINE n == Len(h)
  <2>1. n \in Nat /\ n <= 2
    BY <1>1
  <2> HIDE DEF n
  <2>2. n \in 0..2
    BY <2>1
  <2> QED
    BY <2>2 DEF n
<1> QED
  BY <1>2, <1>3, <1>4

LEMMA HandHeld ==
    ASSUME FileInv, NEW p \in Procs
    PROVE  /\ Held(p, NFds + 1) = IF hand[p] = <<>> THEN None ELSE hand[p][1]
           /\ Held(p, NFds + 2) = IF Len(hand[p]) = 2 THEN hand[p][2] ELSE None
           /\ Len(hand[p]) \in 0..2
           /\ hand[p] = <<>> <=> Len(hand[p]) = 0
           /\ \A k \in 1..2 : k <= Len(hand[p]) => hand[p][k] \in Files
<1>1. hand[p] \in Seq(Files) /\ Len(hand[p]) <= 2
  BY DEF FileInv, TableTypes, HandsFit, HandFits
<1>2. /\ Len(hand[p]) \in 0..2
      /\ hand[p] = <<>> <=> Len(hand[p]) = 0
      /\ \A k \in 1..2 : k <= Len(hand[p]) => hand[p][k] \in Files
  BY <1>1, ShortSequence
<1>4. Held(p, NFds + 1) = IF 1 <= Len(hand[p]) THEN hand[p][1] ELSE None
  <2>1. ~(NFds + 1 <= NFds) /\ NFds + 1 - NFds = 1
    BY Limits
  <2> QED
    BY <2>1, Limits DEF Held
<1>5. Held(p, NFds + 2) = IF 2 <= Len(hand[p]) THEN hand[p][2] ELSE None
  <2>1. ~(NFds + 2 <= NFds) /\ NFds + 2 - NFds = 2
    BY Limits
  <2> QED
    BY <2>1, Limits DEF Held
<1> QED
  BY <1>2, <1>4, <1>5

(* What somebody has counts, and is somebody's alone if it counts once. *)
LEMMA FdCounted ==
    ASSUME FileInv, NEW p \in Procs, NEW k \in Fds, fd[p][k] # None
    PROVE  fd[p][k] \in Files /\ file[fd[p][k]].ref > 0 /\ file[fd[p][k]].type # "none"
<1>1. fd[p][k] \in Files
  BY DEF FileInv, TableTypes
<1>2. file[fd[p][k]].type # "none"
  BY DEF FileInv, EntriesFit
<1> QED
  BY <1>1, <1>2, FdHeld, HeldCounted

LEMMA HandCounted ==
    ASSUME FileInv, NEW p \in Procs, NEW k \in 1..2, k <= Len(hand[p])
    PROVE  /\ hand[p][k] \in Files
           /\ file[hand[p][k]].ref > 0
           /\ file[hand[p][k]].ref = 1 =>
                /\ \A q \in Procs, j \in Fds : fd[q][j] # hand[p][k]
                /\ \A q \in Procs, j \in 1..2 :
                      j <= Len(hand[q]) /\ hand[q][j] = hand[p][k] => q = p /\ j = k
<1>1. hand[p][k] \in Files /\ NFds + k \in Places /\ Held(p, NFds + k) = hand[p][k]
  BY HandHeld, PlaceKinds
<1>2. /\ file[hand[p][k]].ref > 0
      /\ file[hand[p][k]].ref = 1 =>
           \A q \in Procs, j \in Places : Held(q, j) = hand[p][k] => q = p /\ j = NFds + k
  BY <1>1, HeldCounted
<1>3. ASSUME file[hand[p][k]].ref = 1, NEW q \in Procs, NEW j \in Fds
      PROVE  fd[q][j] # hand[p][k]
  BY <1>2, <1>3, FdHeld, PlaceKinds, Limits DEF Fds
<1>4. ASSUME file[hand[p][k]].ref = 1, NEW q \in Procs, NEW j \in 1..2,
             j <= Len(hand[q]), hand[q][j] = hand[p][k]
      PROVE  q = p /\ j = k
  <2>1. NFds + j \in Places /\ Held(q, NFds + j) = hand[p][k]
    BY <1>4, HandHeld, PlaceKinds
  <2>2. q = p /\ NFds + j = NFds + k
    BY <1>2, <1>4, <2>1
  <2> QED
    BY <2>2, Limits
<1> QED
  BY <1>1, <1>2, <1>3, <1>4

(* Whoever refers to an inode counts, too. *)
LEMMA InodeSetsFinite ==
    ASSUME NEW i
    PROVE  /\ IsFiniteSet(OpenOn(i)) /\ Cardinality(OpenOn(i)) \in Nat
           /\ IsFiniteSet(PutBy(i)) /\ Cardinality(PutBy(i)) \in Nat
           /\ IsFiniteSet(OpenedBy(i)) /\ Cardinality(OpenedBy(i)) \in Nat
<1>1. OpenOn(i) \subseteq Files /\ PutBy(i) \subseteq Procs /\ OpenedBy(i) \subseteq Procs
  BY DEF OpenOn, PutBy, OpenedBy
<1> QED
  BY <1>1, FileTableAssumption, FS_Subset, FS_CardinalityType

LEMMA InodeCounted ==
    ASSUME FileInv, NEW i \in Inodes,
           OpenOn(i) # {} \/ PutBy(i) # {} \/ OpenedBy(i) # {}
    PROVE  iref[i] > 0
<1>1. iref[i] = Cardinality(OpenOn(i)) + Cardinality(PutBy(i)) + Cardinality(OpenedBy(i))
  BY DEF FileInv, RefsCounted
<1>2. \/ Cardinality(OpenOn(i)) # 0
      \/ Cardinality(PutBy(i)) # 0
      \/ Cardinality(OpenedBy(i)) # 0
  BY InodeSetsFinite, FS_EmptySet
<1> QED
  BY <1>1, <1>2, InodeSetsFinite

(* What the operators on sequences do to a hand. *)
LEMMA ShortAppend ==
    ASSUME NEW S, NEW h \in Seq(S), Len(h) < 2, NEW x \in S
    PROVE  /\ Append(h, x) \in Seq(S)
           /\ Len(Append(h, x)) = Len(h) + 1
           /\ Append(h, x)[Len(h) + 1] = x
           /\ Len(h) = 1 => Append(h, x)[1] = h[1]
OBVIOUS

LEMMA ShortTail ==
    ASSUME NEW S, NEW h \in Seq(S), Len(h) <= 2, h # <<>>
    PROVE  /\ Tail(h) \in Seq(S)
           /\ Len(Tail(h)) = Len(h) - 1
           /\ Head(h) = h[1] /\ h[1] \in S
           /\ Len(h) = 2 => Tail(h)[1] = h[2]
OBVIOUS

LEMMA ShortOnes ==
    ASSUME NEW S
    PROVE  /\ <<>> \in Seq(S) /\ Len(<<>>) = 0
           /\ \A x \in S : <<x>> \in Seq(S) /\ Len(<<x>>) = 1 /\ <<x>>[1] = x
OBVIOUS

LEMMA HandTail ==
    ASSUME FileInv, NEW p \in Procs, hand[p] # <<>>
    PROVE  /\ Head(hand[p]) = hand[p][1] /\ hand[p][1] \in Files
           /\ file[hand[p][1]].ref > 0
           /\ Tail(hand[p]) \in Seq(Files)
           /\ Len(Tail(hand[p])) = Len(hand[p]) - 1
           /\ Len(hand[p]) = 2 => Tail(hand[p])[1] = hand[p][2]
<1>1. hand[p] \in Seq(Files) /\ Len(hand[p]) <= 2
  BY DEF FileInv, TableTypes, HandsFit, HandFits
<1>2. Len(hand[p]) >= 1
  BY HandHeld
<1> QED
  BY <1>1, <1>2, ShortTail, HandCounted

-----------------------------------------------------------------------------
(* Types *)

LEMMA OpeningTypes ==
    ASSUME FileInv, NEW p \in Procs,
           (\E i \in Inodes : Open(p, i)) \/ Opening(p)
    PROVE  TableTypes'
<1> USE DEF Goto, table, inode, local
<1>1. TableTypes
  BY DEF FileInv
<1>2. ASSUME NEW i \in Inodes, Open(p, i) PROVE TableTypes'
  BY <1>1, <1>2 DEF Open, TableTypes
<1>3. ASSUME pc[p] \in {"open", "open_fd"}, NEW s \in {"user", "close"}, GiveUp(p, s)
      PROVE  /\ iref' \in [Inodes -> Nat]
             /\ ip' \in [Procs -> Inodes \cup {None}]
             /\ pc' = [pc EXCEPT ![p] = s]
  <2>1. ip[p] \in Inodes
    BY <1>1, <1>3 DEF FileInv, HandsFit, HandFits, TableTypes
  <2>2. ip[p] \in Inodes /\ p \in OpenedBy(ip[p])
    BY <2>1 DEF OpenedBy
  <2>3. iref[ip[p]] > 0
    BY <2>2, InodeCounted
  <2> QED
    BY <1>1, <1>3, <2>1, <2>3 DEF GiveUp, TableTypes
<1>4. ASSUME NEW f \in Files, hand' = [hand EXCEPT ![p] = Append(@, f)]
      PROVE  hand' \in [Procs -> Seq(Files)]
  BY <1>1, <1>4 DEF TableTypes
<1>5. ASSUME OpenAlloc(p) PROVE TableTypes'
  <2>1. CASE Filealloc(p) /\ Goto(p, "open_fd") /\ UNCHANGED <<iref, ip>>
    <3>1. PICK f \in Files : /\ file' = [file EXCEPT ![f].ref = 1]
                             /\ hand' = [hand EXCEPT ![p] = Append(@, f)]
      BY <2>1 DEF Filealloc
    <3>2. file' \in [Files -> Entries]
      <4>1. file \in [Files -> Entries]
        BY <1>1 DEF TableTypes
      <4> QED
        BY <3>1, <4>1 DEF Entries
    <3>3. hand' \in [Procs -> Seq(Files)]
      BY <1>4, <3>1
    <3> QED
      BY <1>1, <1>5, <2>1, <3>2, <3>3 DEF OpenAlloc, TableTypes
  <2>2. CASE FreeFiles = {} /\ GiveUp(p, "user") /\ UNCHANGED <<file, hand>>
    BY <1>1, <1>3, <1>5, <2>2 DEF OpenAlloc, TableTypes
  <2> QED
    BY <1>5, <2>1, <2>2 DEF OpenAlloc
<1>6. ASSUME NEW mode \in Modes, OpenFd(p, mode) PROVE TableTypes'
  <2>1. pc[p] = "open_fd" /\ hand[p][1] \in Files /\ ip[p] \in Inodes
    BY <1>6, HandCounted DEF OpenFd, FileInv, TableTypes, HandsFit, HandFits
  <2>2. CASE ip' = [ip EXCEPT ![p] = None] /\ Goto(p, "user")
    <3> DEFINE f == hand[p][1]
               e == [ref |-> file[f].ref, type |-> "inode", readable |-> mode[1],
                     writable |-> mode[2], obj |-> ip[p], off |-> 0]
    <3>1. ip[p] # None /\ ~GiveUp(p, "close")
      BY <1>1, <2>1, <2>2, Apart DEF GiveUp, TableTypes
    <3>2. PICK k \in Fds : /\ fd' = [fd EXCEPT ![p][k] = f]
                           /\ file' = [file EXCEPT ![f] = e]
                           /\ moved' = [moved EXCEPT ![f] = 0]
                           /\ hand' = [hand EXCEPT ![p] = <<>>]
      BY <1>6, <3>1 DEF OpenFd
    <3>3. file' \in [Files -> Entries]
      <4>1. file \in [Files -> Entries] /\ file[f] \in Entries
        BY <1>1, <2>1 DEF TableTypes
      <4>2. mode[1] \in BOOLEAN /\ mode[2] \in BOOLEAN
        BY FileTableAssumption
      <4>3. e \in Entries
        BY <2>1, <4>1, <4>2 DEF Entries
      <4> QED
        BY <3>2, <4>1, <4>3
    <3>4. hand' \in [Procs -> Seq(Files)]
      BY <1>1, <3>2 DEF TableTypes
    <3>5. fd' \in [Procs -> [Fds -> Files \cup {None}]]
      BY <1>1, <2>1, <3>2 DEF TableTypes
    <3>6. UNCHANGED <<pipe, kept, iref, ilock, size, ff, child, io>>
      BY <1>6, <3>1 DEF OpenFd
    <3>7. moved' \in [Files -> Nat]
      BY <1>1, <3>2 DEF TableTypes
    <3> QED
      BY <1>1, <2>2, <3>3, <3>4, <3>5, <3>6, <3>7 DEF TableTypes
  <2>3. CASE GiveUp(p, "close") /\ UNCHANGED <<file, fd, hand, moved>>
    BY <1>1, <1>3, <1>6, <2>1, <2>3 DEF OpenFd, TableTypes
  <2> QED
    BY <1>6, <2>2, <2>3 DEF OpenFd
<1> QED
  BY <1>2, <1>5, <1>6 DEF Opening

LEMMA FileTypes ==
    ASSUME FileInv, NEW f \in Files, NEW r \in Nat
    PROVE  /\ file' = [file EXCEPT ![f].ref = r] => file' \in [Files -> Entries]
           /\ file' = [file EXCEPT ![f].ref = r, ![f].type = "none"]
                => file' \in [Files -> Entries]
           /\ file' = [file EXCEPT ![f].off = @ + r] => file' \in [Files -> Entries]
           /\ file' = [file EXCEPT ![f].ref = @ + 1] => file' \in [Files -> Entries]
           /\ file[f].ref > 0 /\ file' = [file EXCEPT ![f].ref = @ - 1]
                => file' \in [Files -> Entries]
<1>1. file \in [Files -> Entries]
  BY DEF FileInv, TableTypes
<1> QED
  BY <1>1 DEF Entries

LEMMA FileFields ==
    ASSUME FileInv, NEW f \in Files
    PROVE  /\ file[f] \in Entries
           /\ file[f].ref \in Nat /\ file[f].off \in Nat
           /\ file[f].type \in {"none", "inode", "pipe"}
           /\ file[f].writable \in BOOLEAN
BY DEF FileInv, TableTypes, Entries

LEMMA CallTypes ==
    ASSUME FileInv, NEW p \in Procs, Call(p)
    PROVE  TableTypes'
<1> USE DEF Goto, table, inode, local
<1>1. TableTypes
  BY DEF FileInv
<1>2. ASSUME NEW i \in Inodes, Open(p, i) PROVE TableTypes'
  BY <1>2, OpeningTypes
<1>3. CASE PipeCall(p) \/ Exit(p)
  BY <1>1, <1>3 DEF PipeCall, Exit, TableTypes
<1>4. CASE Dup(p)
  <2>1. PICK j \in Fds, k \in Fds :
           /\ fd[p][j] # None
           /\ fd' = [fd EXCEPT ![p][k] = fd[p][j]]
           /\ file' = [file EXCEPT ![fd[p][j]].ref = @ + 1]
           /\ Goto(p, IF file[fd[p][j]].ref < 1 THEN "panic" ELSE "user")
    BY <1>4 DEF Dup, Filedup
  <2>2. fd[p][j] \in Files /\ file[fd[p][j]].ref \in Nat /\ ~(file[fd[p][j]].ref < 1)
    BY <2>1, FdCounted, FileFields
  <2>3. file' \in [Files -> Entries]
    BY <2>1, <2>2, FileTypes
  <2>4. fd' \in [Procs -> [Fds -> Files \cup {None}]]
    BY <1>1, <2>1, <2>2 DEF TableTypes
  <2>5. pc' = [pc EXCEPT ![p] = "user"]
    BY <2>1, <2>2
  <2> QED
    BY <1>1, <1>4, <2>3, <2>4, <2>5 DEF Dup, TableTypes
<1>5. ASSUME NEW q \in Procs, Fork(p, q) PROVE TableTypes'
  BY <1>1, <1>5 DEF Fork, TableTypes
<1>6. ASSUME NEW k \in Fds, CloseFd(p, k) PROVE TableTypes'
  <2>1. fd[p][k] \in Files
    BY <1>6, FdCounted DEF CloseFd
  <2>2. hand' \in [Procs -> Seq(Files)]
    BY <1>1, <1>6, <2>1, ShortOnes DEF CloseFd, TableTypes
  <2>3. fd' \in [Procs -> [Fds -> Files \cup {None}]]
    BY <1>1, <1>6 DEF CloseFd, TableTypes
  <2> QED
    BY <1>1, <1>6, <2>2, <2>3 DEF CloseFd, TableTypes
<1>7. ASSUME NEW k \in Fds, NEW n \in Sizes, Read(p, k, n) \/ Write(p, k, n)
      PROVE  TableTypes'
  <2>1. fd[p][k] \in Files /\ file[fd[p][k]].type = "inode" /\ n \in Nat
    BY <1>7, FdCounted, FileFields, FileTableAssumption DEF Read, Write
  <2>2. io' \in [Procs -> [f : Files \cup {None}, op : {"none", "read", "write"},
                           n : Nat, r : Int]]
    <3>1. io \in [Procs -> [f : Files \cup {None}, op : {"none", "read", "write"},
                             n : Nat, r : Int]]
      BY <1>1 DEF TableTypes
    <3>2. \E s \in {"read", "write"} :
             io' = [io EXCEPT ![p] = [f |-> fd[p][k], op |-> s, n |-> n, r |-> 0]]
      BY <1>7 DEF Read, Write
    <3> QED
      BY <2>1, <3>1, <3>2
  <2>3. pc' = [pc EXCEPT ![p] = "ilock"]
    BY <1>7, <2>1 DEF Read, Write
  <2> QED
    BY <1>1, <1>7, <2>2, <2>3 DEF Read, Write, TableTypes
<1> QED
  BY <1>2, <1>3, <1>4, <1>5, <1>6, <1>7 DEF Call

LEMMA PipeTypes ==
    ASSUME FileInv, NEW p \in Procs, Pipealloc(p)
    PROVE  TableTypes'
<1> USE DEF Goto, table, inode, local
<1>1. TableTypes
  BY DEF FileInv
<1>2. ASSUME NEW f \in Files, hand' = [hand EXCEPT ![p] = Append(@, f)]
      PROVE  hand' \in [Procs -> Seq(Files)]
  BY <1>1, <1>2 DEF TableTypes
<1>3. CASE PipeFile(p)
  <2>1. CASE Filealloc(p) /\ UNCHANGED pc
    <3>1. PICK f \in Files : /\ file' = [file EXCEPT ![f].ref = 1]
                             /\ hand' = [hand EXCEPT ![p] = Append(@, f)]
      BY <2>1 DEF Filealloc
    <3>2. file' \in [Files -> Entries] /\ hand' \in [Procs -> Seq(Files)]
      BY <1>2, <3>1, FileTypes
    <3> QED
      BY <1>1, <1>3, <2>1, <3>2 DEF PipeFile, TableTypes
  <2>2. CASE UNCHANGED <<file, hand>>
           /\ Goto(p, IF hand[p] = <<>> THEN "user" ELSE "close")
    BY <1>1, <1>3, <2>2 DEF PipeFile, TableTypes
  <2> QED
    BY <1>3, <2>1, <2>2 DEF PipeFile
<1>4. CASE PipeKalloc(p)
  <2>1. CASE Goto(p, "close") /\ UNCHANGED table
    BY <1>1, <1>4, <2>1 DEF PipeKalloc, TableTypes
  <2>2. ASSUME NEW g \in PipePages,
               kept' = kept \cup {g},
               pipe' = [pipe EXCEPT ![g] = {"read", "write"}],
               file' = [file EXCEPT ![hand[p][1]] = End(hand[p][1], g, TRUE),
                                    ![hand[p][2]] = End(hand[p][2], g, FALSE)],
               Goto(p, "pipe_fd")
        PROVE  TableTypes'
    <3>1. hand[p][1] \in Files /\ hand[p][2] \in Files
      BY <1>4, HandHeld DEF PipeKalloc
    <3>2. \A f \in Files, rd \in BOOLEAN : End(f, g, rd) \in Entries
      BY FileFields DEF End, Entries
    <3>3. file \in [Files -> Entries]
      BY <1>1 DEF TableTypes
    <3>4. file' \in [Files -> Entries]
      BY <2>2, <3>1, <3>2, <3>3
    <3> QED
      BY <1>1, <1>4, <2>2, <3>4 DEF PipeKalloc, TableTypes
  <2> QED
    BY <1>4, <2>1, <2>2 DEF PipeKalloc
<1>5. CASE PipeFds(p)
  <2>1. CASE Goto(p, "close") /\ UNCHANGED <<fd, hand>>
    BY <1>1, <1>5, <2>1 DEF PipeFds, TableTypes
  <2>2. ASSUME NEW k0 \in Fds, NEW k1 \in Fds,
               fd' = [fd EXCEPT ![p][k0] = hand[p][1], ![p][k1] = hand[p][2]],
               hand' = [hand EXCEPT ![p] = <<>>],
               Goto(p, "user")
        PROVE  TableTypes'
    <3>1. hand[p][1] \in Files /\ hand[p][2] \in Files
      <4>1. Len(hand[p]) = 2
        BY <1>5 DEF PipeFds, FileInv, HandsFit, HandFits
      <4> QED
        BY <4>1, HandHeld
    <3>2. fd' \in [Procs -> [Fds -> Files \cup {None}]]
      BY <1>1, <2>2, <3>1 DEF TableTypes
    <3>3. hand' \in [Procs -> Seq(Files)]
      BY <1>1, <2>2 DEF TableTypes
    <3> QED
      BY <1>1, <1>5, <2>2, <3>2, <3>3 DEF PipeFds, TableTypes
  <2> QED
    BY <1>5, <2>1, <2>2 DEF PipeFds
<1> QED
  BY <1>3, <1>4, <1>5 DEF Pipealloc

LEMMA ForkingTypes ==
    ASSUME FileInv, NEW p \in Procs, Forking(p)
    PROVE  TableTypes'
<1> USE DEF Goto, table, inode, local
<1>1. TableTypes
  BY DEF FileInv
<1>2. child[p] \in Procs
  BY DEF Forking, ForkDup, ForkDone, FileInv, ForksFit
<1>3. CASE ForkDup(p)
  <2>1. PICK k \in Fds :
           /\ FirstOf(k, ToCopy(p))
           /\ fd' = [fd EXCEPT ![child[p]][k] = fd[p][k]]
           /\ file' = [file EXCEPT ![fd[p][k]].ref = @ + 1]
           /\ Goto(p, IF file[fd[p][k]].ref < 1 THEN "panic" ELSE "fork")
    BY <1>3 DEF ForkDup, Filedup
  <2>2. fd[p][k] # None
    BY <2>1 DEF FirstOf, ToCopy
  <2>3. fd[p][k] \in Files /\ file[fd[p][k]].ref \in Nat /\ ~(file[fd[p][k]].ref < 1)
    BY <2>2, FdCounted, FileFields
  <2>4. file' \in [Files -> Entries]
    BY <2>1, <2>3, FileTypes
  <2>5. fd' \in [Procs -> [Fds -> Files \cup {None}]]
    BY <1>1, <1>2, <2>1, <2>3 DEF TableTypes
  <2>6. pc' = [pc EXCEPT ![p] = "fork"]
    BY <2>1, <2>3
  <2> QED
    BY <1>1, <1>3, <2>4, <2>5, <2>6 DEF ForkDup, TableTypes
<1>4. CASE ForkDone(p)
  <2>1. pc' = [pc EXCEPT ![p] = "user", ![child[p]] = "user"]
    BY <1>4 DEF ForkDone
  <2>2. child' \in [Procs -> Procs \cup {None}]
    BY <1>1, <1>4 DEF ForkDone, TableTypes
  <2> QED
    BY <1>1, <1>2, <1>4, <2>1, <2>2 DEF ForkDone, TableTypes
<1> QED
  BY <1>3, <1>4 DEF Forking

LEMMA FilecloseTypes ==
    ASSUME FileInv, NEW p \in Procs, Fileclose(p)
    PROVE  TableTypes'
<1> USE DEF Goto, table, inode, local
<1>1. TableTypes
  BY DEF FileInv
<1>2. ASSUME hand[p] # <<>>, hand' = [hand EXCEPT ![p] = Tail(@)]
      PROVE  hand' \in [Procs -> Seq(Files)]
  BY <1>1, <1>2, HandTail DEF TableTypes
<1>3. ASSUME FilecloseShared(p) PROVE TableTypes'
  <2> DEFINE f == hand[p][1]
  <2>1. hand[p] # <<>> /\ f \in Files /\ file[f].ref > 0 /\ Head(hand[p]) = f
    BY <1>3, HandTail DEF FilecloseShared, Closing
  <2>2. file' \in [Files -> Entries]
    BY <1>3, <2>1, FileTypes DEF FilecloseShared
  <2>3. UNCHANGED pc
    <3>1. ~(file[f].ref < 1)
      BY <2>1, FileFields
    <3> QED
      BY <1>3, <2>1, <3>1 DEF FilecloseShared
  <2> QED
    BY <1>1, <1>2, <1>3, <2>1, <2>2, <2>3 DEF FilecloseShared, TableTypes
<1>4. ASSUME FilecloseLast(p) PROVE TableTypes'
  <2> DEFINE f == hand[p][1]
  <2>1. hand[p] # <<>> /\ f \in Files /\ Head(hand[p]) = f
    BY <1>4, HandTail DEF FilecloseLast, Closing
  <2>2. file' \in [Files -> Entries]
    BY <1>4, <2>1, FileTypes DEF FilecloseLast
  <2>3. ff' \in [Procs -> Entries \cup {None}]
    BY <1>1, <1>4, <2>1 DEF FilecloseLast, TableTypes
  <2>4. UNCHANGED <<pipe, kept, fd, inode, pc, ip, child, io, moved>>
    BY <1>4 DEF FilecloseLast
  <2>5. hand' \in [Procs -> Seq(Files)]
    BY <1>2, <1>4, <2>1 DEF FilecloseLast
  <2> QED
    BY <1>1, <2>2, <2>3, <2>4, <2>5 DEF TableTypes
<1>5. ASSUME ff[p] # None, ff' = [ff EXCEPT ![p] = None]
      PROVE  ff' \in [Procs -> Entries \cup {None}] /\ ff[p] \in Entries /\ EntryFits(ff[p])
  BY <1>1, <1>5 DEF TableTypes, FileInv, EntriesFit
<1>6. ASSUME FileclosePipe(p) PROVE TableTypes'
  <2> DEFINE g == ff[p].obj
  <2>1. g \in PipePages
    BY <1>5, <1>6 DEF FileclosePipe, EntryFits
  <2>2. pipe' \in [PipePages -> SUBSET {"read", "write"}] /\ kept' \subseteq PipePages
    BY <1>1, <1>6, <2>1 DEF FileclosePipe, TableTypes
  <2> QED
    BY <1>1, <1>5, <1>6, <2>2 DEF FileclosePipe, TableTypes
<1>7. ASSUME FilecloseInode(p) PROVE TableTypes'
  <2> DEFINE i == ff[p].obj
  <2>1. i \in Inodes
    BY <1>5, <1>7 DEF FilecloseInode, EntryFits
  <2>2. iref[i] > 0
    <3>1. p \in PutBy(i)
      BY <1>7 DEF FilecloseInode, PutBy
    <3> QED
      BY <2>1, <3>1, InodeCounted
  <2>3. iref' \in [Inodes -> Nat]
    BY <1>1, <1>7, <2>1, <2>2 DEF FilecloseInode, TableTypes
  <2> QED
    BY <1>1, <1>5, <1>7, <2>3 DEF FilecloseInode, TableTypes
<1>8. ASSUME FilecloseNone(p) PROVE TableTypes'
  BY <1>1, <1>5, <1>8 DEF FilecloseNone, TableTypes
<1>9. ASSUME ExitFd(p) PROVE TableTypes'
  <2>1. PICK k \in Fds : /\ fd[p][k] # None
                         /\ hand' = [hand EXCEPT ![p] = <<fd[p][k]>>]
                         /\ fd' = [fd EXCEPT ![p][k] = None]
    BY <1>9 DEF ExitFd, FirstOf, ToClose
  <2>2. hand' \in [Procs -> Seq(Files)]
    BY <1>1, <2>1, FdCounted, ShortOnes DEF TableTypes
  <2>3. fd' \in [Procs -> [Fds -> Files \cup {None}]]
    BY <1>1, <2>1 DEF TableTypes
  <2> QED
    BY <1>1, <1>9, <2>2, <2>3 DEF ExitFd, TableTypes
<1>10. ASSUME CloseDone(p) PROVE TableTypes'
  BY <1>1, <1>10 DEF CloseDone, TableTypes
<1> QED
  BY <1>3, <1>4, <1>6, <1>7, <1>8, <1>9, <1>10 DEF Fileclose

(* What a process that has the lock reads and writes. *)
LEMMA IoFile ==
    ASSUME FileInv, NEW p \in Procs, pc[p] \in Holding \cup {"ilock"}
    PROVE  /\ io[p].f \in Files /\ Ip(p) \in Inodes
           /\ file[io[p].f].type = "inode"
           /\ file[io[p].f].ref > 0
           /\ file[io[p].f].off \in Nat /\ size[Ip(p)] \in 0..MaxSize
           /\ file[io[p].f].off <= size[Ip(p)]
           /\ io[p].n \in Nat /\ io[p].r \in Int
           /\ io[p].op \in {"read", "write"}
<1>1. PICK k \in Fds : fd[p][k] # None /\ fd[p][k] = io[p].f
  BY DEF FileInv, IoFits
<1>2. file[io[p].f].type = "inode" /\ io[p].op # "none"
  BY DEF FileInv, IoFits
<1>3. io[p].f \in Files /\ file[io[p].f].ref > 0
  BY <1>1, FdCounted
<1>4. Ip(p) \in Inodes
  BY <1>2, <1>3 DEF FileInv, EntriesFit, EntryFits, Ip
<1>5. file[io[p].f].off \in Nat
  BY <1>3, FileFields
<1>6. file[io[p].f].off <= size[Ip(p)]
  BY <1>2, <1>3 DEF FileInv, OffsetsFit, Ip
<1>7. /\ io \in [Procs -> [f : Files \cup {None}, op : {"none", "read", "write"},
                           n : Nat, r : Int]]
      /\ size \in [Inodes -> 0..MaxSize]
  BY DEF FileInv, TableTypes
<1> QED
  BY <1>2, <1>3, <1>4, <1>5, <1>6, <1>7

LEMMA ReadWriteTypes ==
    ASSUME FileInv, NEW p \in Procs, ReadWrite(p)
    PROVE  TableTypes'
<1> USE DEF Goto, table, inode, local
<1>1. TableTypes
  BY DEF FileInv
<1> DEFINE f == io[p].f
           i == Ip(p)
           Ios == [f : Files \cup {None}, op : {"none", "read", "write"},
                   n : Nat, r : Int]
<1>2. pc[p] \in Holding \cup {"ilock"}
  BY DEF ReadWrite, Ilock, Readi, Writei, Advance, Iunlock, Holding
<1>3. /\ f \in Files /\ i \in Inodes
      /\ file[f].off \in Nat /\ size[i] \in Nat /\ file[f].off <= size[i]
      /\ io[p].n \in Nat /\ io[p].r \in Int
  BY <1>2, IoFile, Limits
<1>4. io \in [Procs -> Ios] /\ size \in [Inodes -> 0..MaxSize] /\ moved \in [Files -> Nat]
  BY <1>1 DEF TableTypes
<1>5. CASE Ilock(p)
  BY <1>1, <1>3, <1>5 DEF Ilock, TableTypes
<1>6. CASE Readi(p)
  <2> DEFINE r == Smaller(io[p].n, size[i] - file[f].off)
  <2>1. r \in Nat
    BY <1>3 DEF Smaller
  <2>2. io' = [io EXCEPT ![p].r = r] /\ moved' = [moved EXCEPT ![f] = @ + r]
    BY <1>6 DEF Readi
  <2> HIDE DEF r
  <2>3. io' \in [Procs -> Ios]
    BY <1>4, <2>1, <2>2
  <2>4. moved' \in [Files -> Nat]
    BY <1>3, <1>4, <2>1, <2>2
  <2> QED
    BY <1>1, <1>6, <2>3, <2>4 DEF Readi, TableTypes
<1>7. CASE Writei(p)
  <2> DEFINE n1 == Smaller(io[p].n, MaxChunk)
             fits == Fits(file[f].off, n1)
  <2>1. n1 \in Nat /\ (fits => file[f].off + n1 \in 0..MaxSize)
    BY <1>3, Limits DEF Smaller, Fits
  <2>2. /\ io' = [io EXCEPT ![p].r = IF fits THEN n1 ELSE -1]
        /\ moved' = IF fits THEN [moved EXCEPT ![f] = @ + n1] ELSE moved
        /\ size' = IF fits /\ file[f].off + n1 > size[i]
                   THEN [size EXCEPT ![i] = file[f].off + n1] ELSE size
    BY <1>7 DEF Writei
  <2> HIDE DEF n1, fits
  <2>3. io' \in [Procs -> Ios]
    <3>1. (IF fits THEN n1 ELSE -1) \in Int
      BY <2>1
    <3> QED
      BY <1>4, <2>2, <3>1
  <2>4. moved' \in [Files -> Nat]
    BY <1>3, <1>4, <2>1, <2>2
  <2>5. size' \in [Inodes -> 0..MaxSize]
    BY <1>3, <1>4, <2>1, <2>2
  <2> QED
    BY <1>1, <1>7, <2>3, <2>4, <2>5 DEF Writei, TableTypes
<1>8. CASE Advance(p)
  <2>1. file' \in [Files -> Entries]
    <3>1. CASE io[p].r > 0
      <4>1. io[p].r \in Nat /\ file' = [file EXCEPT ![f].off = @ + io[p].r]
        BY <1>3, <1>8, <3>1 DEF Advance
      <4> QED
        BY <1>3, <4>1, FileTypes
    <3>2. CASE ~(io[p].r > 0)
      BY <1>1, <1>8, <3>2 DEF Advance, TableTypes
    <3> QED
      BY <3>1, <3>2
  <2> QED
    BY <1>1, <1>8, <2>1 DEF Advance, TableTypes
<1>9. CASE Iunlock(p)
  <2>1. ilock' \in [Inodes -> Procs \cup {None}]
    BY <1>1, <1>3, <1>9 DEF Iunlock, TableTypes
  <2>2. CASE io' = [io EXCEPT ![p].n = @ - io[p].r] /\ io[p].n > io[p].r /\ Goto(p, "ilock")
    <3>1. io' \in [Procs -> Ios]
      BY <1>3, <1>4, <2>2
    <3> QED
      BY <1>1, <1>9, <2>1, <2>2, <3>1 DEF Iunlock, TableTypes
  <2>3. CASE io' = [io EXCEPT ![p] = NoIo] /\ Goto(p, "user")
    <3>1. io' \in [Procs -> Ios]
      BY <1>4, <2>3 DEF NoIo
    <3> QED
      BY <1>1, <1>9, <2>1, <2>3, <3>1 DEF Iunlock, TableTypes
  <2> QED
    BY <1>9, <2>2, <2>3 DEF Iunlock
<1> QED
  BY <1>5, <1>6, <1>7, <1>8, <1>9 DEF ReadWrite

LEMMA TypesKept ==
    ASSUME FileInv, NEW p \in Procs, Call(p) \/ Running(p)
    PROVE  TableTypes'
BY CallTypes, OpeningTypes, PipeTypes, ForkingTypes, FilecloseTypes, ReadWriteTypes
   DEF Running

-----------------------------------------------------------------------------
(* What a process has in hand *)

(* A step changes what p has, and fork the place of its child. *)
Idle == {"unused", "embryo", "user"}

OthersStay(p) ==
    \A q \in Procs \ {p} :
        /\ hand'[q] = hand[q] /\ ff'[q] = ff[q] /\ ip'[q] = ip[q] /\ io'[q] = io[q]
        /\ pc'[q] = pc[q] \/ (pc[q] \in Idle /\ pc'[q] \in Idle)

LEMMA OthersLeft ==
    ASSUME FileInv, NEW p \in Procs, Call(p) \/ Running(p)
    PROVE  OthersStay(p)
<1> USE DEF Goto, table, inode, local
<1>1. CASE Call(p)
  <2>1. ASSUME NEW i \in Inodes, Open(p, i) PROVE OthersStay(p)
    BY <2>1 DEF Open, OthersStay, FileInv, TableTypes
  <2>2. CASE PipeCall(p) \/ Exit(p)
    BY <2>2 DEF PipeCall, Exit, OthersStay, FileInv, TableTypes
  <2>3. CASE Dup(p)
    BY <2>3 DEF Dup, OthersStay, FileInv, TableTypes
  <2>4. ASSUME NEW q \in Procs, Fork(p, q) PROVE OthersStay(p)
    BY <2>4 DEF Fork, OthersStay, FileInv, TableTypes, Idle
  <2>5. ASSUME NEW k \in Fds, CloseFd(p, k) PROVE OthersStay(p)
    BY <2>5 DEF CloseFd, OthersStay, FileInv, TableTypes
  <2>6. ASSUME NEW k \in Fds, NEW n \in Sizes, Read(p, k, n) \/ Write(p, k, n)
        PROVE  OthersStay(p)
    BY <2>6 DEF Read, Write, OthersStay, FileInv, TableTypes
  <2> QED
    BY <1>1, <2>1, <2>2, <2>3, <2>4, <2>5, <2>6 DEF Call
<1>2. CASE Opening(p)
  <2>1. CASE OpenAlloc(p)
    BY <2>1 DEF OpenAlloc, Filealloc, GiveUp, OthersStay, FileInv, TableTypes
  <2>2. ASSUME NEW mode \in Modes, OpenFd(p, mode) PROVE OthersStay(p)
    BY <2>2 DEF OpenFd, GiveUp, OthersStay, FileInv, TableTypes
  <2> QED
    BY <1>2, <2>1, <2>2 DEF Opening
<1>3. CASE Pipealloc(p)
  BY <1>3 DEF Pipealloc, PipeFile, PipeKalloc, PipeFds, Filealloc, OthersStay,
              FileInv, TableTypes
<1>4. CASE Forking(p)
  <2>1. child[p] \in Procs /\ pc[child[p]] = "embryo"
    BY <1>4 DEF Forking, ForkDup, ForkDone, FileInv, ForksFit
  <2>2. CASE ForkDup(p)
    BY <2>2 DEF ForkDup, OthersStay, FileInv, TableTypes
  <2>3. CASE ForkDone(p)
    BY <2>1, <2>3 DEF ForkDone, OthersStay, FileInv, TableTypes, Idle
  <2> QED
    BY <1>4, <2>2, <2>3 DEF Forking
<1>5. CASE Fileclose(p)
  <2>1. CASE FilecloseShared(p) \/ FilecloseLast(p)
    BY <2>1 DEF FilecloseShared, FilecloseLast, OthersStay, FileInv, TableTypes
  <2>2. CASE FileclosePipe(p) \/ FilecloseInode(p) \/ FilecloseNone(p)
    BY <2>2 DEF FileclosePipe, FilecloseInode, FilecloseNone, OthersStay, FileInv, TableTypes
  <2>3. CASE ExitFd(p) \/ CloseDone(p)
    BY <2>3 DEF ExitFd, CloseDone, OthersStay, FileInv, TableTypes
  <2> QED
    BY <1>5, <2>1, <2>2, <2>3 DEF Fileclose
<1>6. CASE ReadWrite(p)
  BY <1>6 DEF ReadWrite, Ilock, Readi, Writei, Advance, Iunlock, OthersStay,
              FileInv, TableTypes
<1> QED
  BY <1>1, <1>2, <1>3, <1>4, <1>5, <1>6 DEF Running

LEMMA OthersHandsFit ==
    ASSUME FileInv, NEW p \in Procs, OthersStay(p), HandFits(p)'
    PROVE  HandsFit'
<1>1. ASSUME NEW q \in Procs \ {p} PROVE HandFits(q)'
  <2>1. HandFits(q)
    BY DEF FileInv, HandsFit
  <2> QED
    BY <2>1 DEF HandFits, OthersStay, Idle
<1> QED
  BY <1>1 DEF HandsFit

LEMMA HandEmptied ==
    ASSUME FileInv, NEW p \in Procs, hand'[p] = <<>>, ip'[p] = None, ff'[p] = None,
           pc'[p] \notin {"open", "open_fd", "pipe_fd"}
    PROVE  HandFits(p)'
BY DEF HandFits

LEMMA HandGiven ==
    ASSUME FileInv, NEW p \in Procs, NEW f \in Files,
           hand'[p] = Append(hand[p], f), ip'[p] = ip[p], ff'[p] = ff[p],
           file[f].ref = 0, Len(hand[p]) < 2,
           \/ pc[p] = "open" /\ pc'[p] = "open_fd"
           \/ pc[p] = "pipe" /\ pc'[p] = "pipe"
    PROVE  /\ HandFits(p)'
           /\ Len(hand'[p]) = Len(hand[p]) + 1
           /\ hand'[p][Len(hand[p]) + 1] = f
           /\ Len(hand[p]) = 1 => hand'[p][1] = hand[p][1] /\ hand[p][1] # f
<1>1. hand[p] \in Seq(Files)
  BY DEF FileInv, TableTypes
<1>2. /\ Len(hand'[p]) = Len(hand[p]) + 1
      /\ hand'[p][Len(hand[p]) + 1] = f
      /\ Len(hand[p]) = 1 => hand'[p][1] = hand[p][1]
  BY <1>1, ShortAppend
<1>3. Len(hand[p]) = 1 => hand[p][1] # f
  BY HandCounted
<1>4. Len(hand[p]) \in 0..2 /\ (pc[p] = "open" => Len(hand[p]) = 0)
  BY HandHeld DEF FileInv, HandsFit, HandFits
<1>5. HandFits(p)
  BY DEF FileInv, HandsFit
<1> QED
  BY <1>2, <1>3, <1>4, <1>5 DEF HandFits

LEMMA HandTaken ==
    ASSUME FileInv, NEW p \in Procs, hand[p] # <<>>, hand'[p] = Tail(hand[p]),
           ip'[p] = ip[p], pc'[p] = pc[p], pc[p] \in {"close", "exit"}
    PROVE  HandFits(p)'
<1>1. Len(hand'[p]) = Len(hand[p]) - 1 /\ Len(hand[p]) \in 0..2
  BY HandTail, HandHeld
<1>2. Len(hand'[p]) <= 2 /\ Len(hand'[p]) # 2
  <2> DEFINE m == Len(hand'[p])
             n == Len(hand[p])
  <2>1. m = n - 1 /\ n \in 0..2
    BY <1>1
  <2> HIDE DEF m, n
  <2>2. m <= 2 /\ m # 2
    BY <2>1
  <2> QED
    BY <2>2 DEF m
<1>3. HandFits(p)
  BY DEF FileInv, HandsFit
<1> QED
  BY <1>2, <1>3 DEF HandFits

LEMMA HandsKept ==
    ASSUME FileInv, NEW p \in Procs, Call(p) \/ Running(p)
    PROVE  HandsFit'
<1> USE DEF Goto, table, inode, local
<1>1. HandFits(p) /\ TableTypes
  BY DEF FileInv, HandsFit
<1>2. SUFFICES HandFits(p)'
  BY OthersLeft, OthersHandsFit
<1>3. CASE Call(p)
  <2>1. pc[p] = "user" /\ hand[p] = <<>> /\ ip[p] = None /\ ff[p] = None
    BY <1>1, <1>3 DEF Call, Open, PipeCall, Dup, Fork, CloseFd, Exit, Read, Write, HandFits
  <2>2. ASSUME NEW i \in Inodes, Open(p, i) PROVE HandFits(p)'
    <3>1. ip'[p] = i /\ i # None /\ pc'[p] = "open" /\ hand'[p] = hand[p] /\ ff'[p] = ff[p]
      BY <1>1, <2>2, Apart DEF Open, TableTypes
    <3> QED
      BY <1>1, <2>1, <3>1 DEF HandFits
  <2>3. CASE PipeCall(p) \/ Exit(p)
    BY <1>1, <2>1, <2>3 DEF PipeCall, Exit, HandFits, TableTypes
  <2>4. CASE Dup(p)
    <3>1. pc'[p] \in {"panic", "user"}
      BY <1>1, <2>4 DEF Dup, TableTypes
    <3> QED
      BY <1>1, <2>1, <2>4, <3>1 DEF Dup, HandFits
  <2>5. ASSUME NEW q \in Procs, Fork(p, q) PROVE HandFits(p)'
    BY <1>1, <2>1, <2>5 DEF Fork, HandFits, TableTypes
  <2>6. ASSUME NEW k \in Fds, CloseFd(p, k) PROVE HandFits(p)'
    <3>1. /\ hand'[p] = <<fd[p][k]>> /\ pc'[p] = "close"
          /\ ip'[p] = None /\ ff'[p] = None
      BY <1>1, <2>1, <2>6 DEF CloseFd, TableTypes
    <3>2. Len(hand'[p]) = 1
      BY <3>1
    <3> QED
      BY <1>1, <2>1, <3>1, <3>2 DEF HandFits
  <2>7. ASSUME NEW k \in Fds, NEW n \in Sizes, Read(p, k, n) \/ Write(p, k, n)
        PROVE  HandFits(p)'
    <3>1. pc'[p] \in {"ilock", "panic"}
      BY <1>1, <2>7 DEF Read, Write, TableTypes
    <3> QED
      BY <1>1, <2>1, <2>7, <3>1 DEF Read, Write, HandFits
  <2> QED
    BY <1>3, <2>2, <2>3, <2>4, <2>5, <2>6, <2>7, ZenonT(60) DEF Call
<1>4. CASE Opening(p)
  <2>1. ASSUME hand[p] = <<>> \/ pc'[p] = "close", ff[p] = None, UNCHANGED <<hand, ff>>,
               pc'[p] \in {"user", "close"}, ip'[p] = None
        PROVE  HandFits(p)'
    BY <1>1, <2>1 DEF HandFits
  <2>2. CASE OpenAlloc(p)
    <3>1. CASE Filealloc(p) /\ Goto(p, "open_fd") /\ UNCHANGED <<iref, ip>>
      <4>1. PICK f \in Files : file[f].ref = 0 /\ hand' = [hand EXCEPT ![p] = Append(@, f)]
        BY <3>1 DEF Filealloc, FreeFiles
      <4>2. hand[p] = <<>> /\ pc[p] = "open" /\ pc'[p] = "open_fd"
        BY <1>1, <2>2, <3>1 DEF OpenAlloc, HandFits, TableTypes
      <4>3. hand'[p] = Append(hand[p], f) /\ ip'[p] = ip[p] /\ ff'[p] = ff[p]
        BY <1>1, <2>2, <3>1, <4>1 DEF OpenAlloc, TableTypes
      <4>4. Len(hand[p]) < 2
        BY <4>2
      <4> QED
        BY <4>1, <4>2, <4>3, <4>4, HandGiven
    <3>2. CASE FreeFiles = {} /\ GiveUp(p, "user") /\ UNCHANGED <<file, hand>>
      BY <1>1, <2>1, <2>2, <3>2 DEF OpenAlloc, GiveUp, TableTypes, HandFits
    <3> QED
      BY <2>2, <3>1, <3>2 DEF OpenAlloc
  <2>3. ASSUME NEW mode \in Modes, OpenFd(p, mode) PROVE HandFits(p)'
    <3>1. pc[p] = "open_fd" /\ ff'[p] = None
      BY <1>1, <2>3 DEF OpenFd, HandFits
    <3>2. CASE hand' = [hand EXCEPT ![p] = <<>>] /\ ip' = [ip EXCEPT ![p] = None]
               /\ Goto(p, "user")
      BY <1>1, <3>1, <3>2, HandEmptied DEF TableTypes
    <3>3. CASE GiveUp(p, "close") /\ UNCHANGED <<file, fd, hand, moved>>
      BY <1>1, <2>1, <2>3, <3>1, <3>3 DEF OpenFd, GiveUp, TableTypes, HandFits
    <3> QED
      BY <2>3, <3>2, <3>3 DEF OpenFd
  <2> QED
    BY <1>4, <2>2, <2>3 DEF Opening
<1>5. CASE Pipealloc(p)
  <2>1. pc[p] \in {"pipe", "pipe_fd"} /\ ip[p] = None /\ ff[p] = None
        /\ UNCHANGED <<ip, ff>>
    BY <1>1, <1>5 DEF Pipealloc, PipeFile, PipeKalloc, PipeFds, HandFits
  <2>2. CASE PipeFile(p)
    <3>1. CASE Filealloc(p) /\ UNCHANGED pc
      <4>1. PICK f \in Files : file[f].ref = 0 /\ hand' = [hand EXCEPT ![p] = Append(@, f)]
        BY <3>1 DEF Filealloc, FreeFiles
      <4>2. pc[p] = "pipe" /\ pc'[p] = "pipe" /\ Len(hand[p]) < 2
        BY <2>2, <3>1 DEF PipeFile
      <4> QED
        BY <1>1, <2>1, <4>1, <4>2, HandGiven DEF TableTypes
    <3>2. CASE UNCHANGED <<file, hand>>
             /\ Goto(p, IF hand[p] = <<>> THEN "user" ELSE "close")
      BY <1>1, <2>1, <2>2, <3>2 DEF PipeFile, HandFits, TableTypes
    <3> QED
      BY <2>2, <3>1, <3>2 DEF PipeFile
  <2>3. CASE PipeKalloc(p)
    <3>1. pc'[p] \in {"pipe_fd", "close"} /\ UNCHANGED hand /\ Len(hand[p]) = 2
      BY <1>1, <2>3 DEF PipeKalloc, TableTypes
    <3> QED
      BY <1>1, <2>1, <3>1 DEF HandFits
  <2>4. CASE PipeFds(p)
    <3>1. CASE hand' = [hand EXCEPT ![p] = <<>>] /\ Goto(p, "user")
      BY <1>1, <2>1, <3>1, HandEmptied DEF TableTypes
    <3>2. CASE Goto(p, "close") /\ UNCHANGED <<fd, hand>>
      BY <1>1, <2>1, <3>2 DEF HandFits, TableTypes
    <3> QED
      BY <2>4, <3>1, <3>2 DEF PipeFds
  <2> QED
    BY <1>5, <2>2, <2>3, <2>4 DEF Pipealloc
<1>6. CASE Forking(p)
  <2>1. pc[p] = "fork" /\ hand[p] = <<>> /\ ip[p] = None /\ ff[p] = None
        /\ UNCHANGED <<hand, ip, ff>>
    BY <1>1, <1>6 DEF Forking, ForkDup, ForkDone, HandFits
  <2>2. pc'[p] \in {"panic", "fork", "user"}
    <3>1. CASE ForkDup(p)
      BY <1>1, <3>1 DEF ForkDup, TableTypes
    <3>2. CASE ForkDone(p)
      BY <1>1, <3>2 DEF ForkDone, TableTypes
    <3> QED
      BY <1>6, <3>1, <3>2 DEF Forking
  <2> QED
    BY <2>1, <2>2, HandEmptied
<1>7. CASE Fileclose(p)
  <2>1. pc[p] \in {"close", "exit"} /\ ip[p] = None /\ UNCHANGED ip
    BY <1>1, <1>7 DEF Fileclose, FilecloseShared, FilecloseLast, Closing, FileclosePipe,
       FilecloseInode, FilecloseNone, ExitFd, CloseDone, HandFits
  <2>2. CASE FilecloseShared(p)
    <3>1. hand[p] # <<>> /\ hand'[p] = Tail(hand[p])
      BY <1>1, <2>2 DEF FilecloseShared, Closing, TableTypes
    <3>2. pc'[p] = pc[p]
      <4>1. file[hand[p][1]].ref \in Nat /\ file[hand[p][1]].ref > 0
        BY <3>1, HandTail, FileFields
      <4>2. ~(file[Head(hand[p])].ref < 1)
        BY <3>1, <4>1, HandTail
      <4> QED
        BY <2>2, <4>2 DEF FilecloseShared
    <3> QED
      BY <2>1, <3>1, <3>2, HandTaken
  <2>3. CASE FilecloseLast(p)
    BY <1>1, <2>1, <2>3, HandTaken DEF FilecloseLast, Closing, TableTypes
  <2>4. CASE FileclosePipe(p) \/ FilecloseInode(p) \/ FilecloseNone(p)
    BY <1>1, <2>1, <2>4 DEF FileclosePipe, FilecloseInode, FilecloseNone, HandFits, TableTypes
  <2>5. CASE ExitFd(p)
    <3>1. PICK k : hand' = [hand EXCEPT ![p] = <<fd[p][k]>>]
      BY <2>5 DEF ExitFd
    <3>2. hand'[p] = <<fd[p][k]>> /\ UNCHANGED <<pc, ff>>
      BY <1>1, <2>5, <3>1 DEF ExitFd, TableTypes
    <3>3. Len(hand'[p]) = 1
      BY <3>2
    <3> QED
      BY <1>1, <2>1, <3>2, <3>3 DEF HandFits
  <2>6. CASE CloseDone(p)
    BY <1>1, <2>1, <2>6 DEF CloseDone, HandFits, TableTypes
  <2> QED
    BY <1>7, <2>2, <2>3, <2>4, <2>5, <2>6 DEF Fileclose
<1>8. CASE ReadWrite(p)
  <2>1. pc[p] \in {"ilock", "rw", "off", "iunlock"} /\ UNCHANGED <<hand, ip, ff>>
    BY <1>8 DEF ReadWrite, Ilock, Readi, Writei, Advance, Iunlock
  <2>2. pc'[p] \in {"ilock", "rw", "off", "iunlock", "user"}
    BY <1>1, <1>8 DEF ReadWrite, Ilock, Readi, Writei, Advance, Iunlock, TableTypes
  <2> QED
    BY <1>1, <2>1, <2>2 DEF HandFits
<1> QED
  BY <1>3, <1>4, <1>5, <1>6, <1>7, <1>8 DEF Running

(* An embryo has one parent. *)
LEMMA ForksKept ==
    ASSUME FileInv, NEW p \in Procs, Call(p) \/ Running(p)
    PROVE  ForksFit'
<1> USE DEF Goto, table, inode, local
<1>1. TableTypes /\ ForksFit
  BY DEF FileInv
<1>2. ASSUME NEW q \in Procs, Fork(p, q) PROVE ForksFit'
  BY <1>1, <1>2, SMTT(30) DEF Fork, ForksFit, TableTypes
<1>3. ASSUME UNCHANGED child, pc[p] # "embryo",
             pc'[p] # "fork" \/ pc'[p] = pc[p],
             \A q \in Procs \ {p} : pc'[q] = pc[q]
      PROVE  ForksFit'
  BY <1>1, <1>3 DEF ForksFit
<1>4. CASE ForkDone(p)
  BY <1>1, <1>4 DEF ForkDone, ForksFit, TableTypes
<1>5. ASSUME NEW s, UNCHANGED child, pc[p] # "embryo", s # "fork" \/ s = pc[p],
             pc' = [pc EXCEPT ![p] = s]
      PROVE  ForksFit'
  BY <1>1, <1>3, <1>5 DEF TableTypes
<1>6. ASSUME UNCHANGED <<pc, child>> PROVE ForksFit'
  BY <1>1, <1>6 DEF ForksFit
<1>7. CASE Call(p) /\ \A q \in Procs : ~Fork(p, q)
  <2>1. pc[p] = "user"
    BY <1>7, ZenonT(60) DEF Call, Open, PipeCall, Dup, CloseFd, Exit, Read, Write
  <2>2. UNCHANGED child
    BY <1>7, ZenonT(60) DEF Call, Open, PipeCall, Dup, CloseFd, Exit, Read, Write
  <2>3. PICK s : s # "fork" /\ pc' = [pc EXCEPT ![p] = s]
    BY <1>7, ZenonT(60) DEF Call, Open, PipeCall, Dup, CloseFd, Exit, Read, Write
  <2> QED
    BY <1>5, <2>1, <2>2, <2>3
<1>8. CASE Opening(p) \/ Pipealloc(p)
  <2>1. pc[p] \in {"open", "open_fd", "pipe", "pipe_fd"} /\ UNCHANGED child
    BY <1>8 DEF Opening, OpenAlloc, OpenFd, Pipealloc, PipeFile, PipeKalloc, PipeFds
  <2>2. UNCHANGED pc \/ \E s : s # "fork" /\ pc' = [pc EXCEPT ![p] = s]
    BY <1>8 DEF Opening, OpenAlloc, OpenFd, GiveUp, Pipealloc, PipeFile, PipeKalloc, PipeFds
  <2> QED
    BY <1>5, <1>6, <2>1, <2>2
<1>9. CASE ForkDup(p)
  <2>1. PICK s : pc' = [pc EXCEPT ![p] = s] /\ s \in {"panic", "fork"}
    BY <1>9 DEF ForkDup
  <2> QED
    BY <1>5, <1>9, <2>1 DEF ForkDup
<1>10. CASE Fileclose(p)
  <2>1. pc[p] \in {"close", "exit"} /\ UNCHANGED child
    BY <1>10 DEF Fileclose, FilecloseShared, FilecloseLast, Closing, FileclosePipe,
       FilecloseInode, FilecloseNone, ExitFd, CloseDone, FileInv, HandsFit, HandFits
  <2>2. UNCHANGED pc \/ \E s : s # "fork" /\ pc' = [pc EXCEPT ![p] = s]
    BY <1>10 DEF Fileclose, FilecloseShared, FilecloseLast, FileclosePipe,
       FilecloseInode, FilecloseNone, ExitFd, CloseDone
  <2> QED
    BY <1>5, <1>6, <2>1, <2>2
<1>11. CASE ReadWrite(p)
  <2>1. pc[p] \in {"ilock", "rw", "off", "iunlock"} /\ UNCHANGED child
    BY <1>11 DEF ReadWrite, Ilock, Readi, Writei, Advance, Iunlock
  <2>2. \E s : s # "fork" /\ pc' = [pc EXCEPT ![p] = s]
    BY <1>11 DEF ReadWrite, Ilock, Readi, Writei, Advance, Iunlock
  <2> QED
    BY <1>5, <2>1, <2>2
<1> QED
  BY <1>2, <1>4, <1>7, <1>8, <1>9, <1>10, <1>11 DEF Running, Forking, Call

-----------------------------------------------------------------------------
(* Counting references *)

(* A place that changes, and the counts of the files it leads to. *)
LEMMA PlaceFilled ==
    ASSUME NEW p \in Procs, NEW k \in Places, NEW f \in Files,
           Held(p, k) # f, Held(p, k)' = f, Held(p, k) = None,
           \A q \in Procs, j \in Places : q # p \/ j # k => Held(q, j)' = Held(q, j)
    PROVE  /\ Cardinality(Pointers(f)') = Cardinality(Pointers(f)) + 1
           /\ \A g \in Files \ {f} : Pointers(g)' = Pointers(g)
<1>1. <<p, k>> \notin Pointers(f)
  BY DEF Pointers
<1>2. Pointers(f)' = Pointers(f) \cup {<<p, k>>}
  BY DEF Pointers
<1>3. \A g \in Files \ {f} : Pointers(g)' = Pointers(g)
  BY Apart DEF Pointers
<1> QED
  BY <1>1, <1>2, <1>3, PointersFinite, OneMore

LEMMA PlaceEmptied ==
    ASSUME NEW p \in Procs, NEW k \in Places, NEW f \in Files,
           Held(p, k) = f, Held(p, k)' = None,
           \A q \in Procs, j \in Places : q # p \/ j # k => Held(q, j)' = Held(q, j)
    PROVE  /\ Cardinality(Pointers(f)') = Cardinality(Pointers(f)) - 1
           /\ \A g \in Files \ {f} : Pointers(g)' = Pointers(g)
<1>1. <<p, k>> \in Pointers(f)
  BY DEF Pointers
<1>2. Pointers(f)' = Pointers(f) \ {<<p, k>>}
  BY Apart DEF Pointers
<1>3. \A g \in Files \ {f} : Pointers(g)' = Pointers(g)
  BY Apart DEF Pointers
<1> QED
  BY <1>1, <1>2, <1>3, PointersFinite, OneLess

(* A pointer that goes from place k to place l, which another one may      *)
(* leave.                                                                  *)
LEMMA PointerMoved ==
    ASSUME NEW p \in Procs, NEW k \in Places, NEW l \in Places, NEW f \in Files,
           Held(p, k) = f, Held(p, l) # f, Held(p, k)' # f, Held(p, l)' = f,
           \A q \in Procs, j \in Places :
               q # p \/ (j # k /\ j # l) => (Held(q, j)' = f <=> Held(q, j) = f)
    PROVE  Cardinality(Pointers(f)') = Cardinality(Pointers(f))
<1>1. <<p, k>> \in Pointers(f) /\ <<p, l>> \notin Pointers(f)
  BY DEF Pointers
<1>2. Pointers(f)' = (Pointers(f) \ {<<p, k>>}) \cup {<<p, l>>}
  BY DEF Pointers
<1> QED
  BY <1>1, <1>2, PointersFinite, OneMoved

LEMMA PointersStay ==
    ASSUME UNCHANGED <<fd, hand>>, NEW f
    PROVE  Pointers(f)' = Pointers(f)
BY DEF Pointers, Held

(* Where a step leaves descriptors and hands alone. *)
LEMMA HeldStays ==
    ASSUME NEW q \in Procs, NEW j \in Places,
           (j \in Fds /\ fd'[q][j] = fd[q][j]) \/ (j \notin Fds /\ hand'[q] = hand[q])
    PROVE  Held(q, j)' = Held(q, j)
<1>1. j \in Fds <=> j <= NFds
  BY Limits DEF Fds, Places
<1> QED
  BY <1>1 DEF Held

LEMMA HeldNext ==
    ASSUME NEW p
    PROVE  /\ Held(p, NFds + 1)' = IF 1 <= Len(hand'[p]) THEN hand'[p][1] ELSE None
           /\ Held(p, NFds + 2)' = IF 2 <= Len(hand'[p]) THEN hand'[p][2] ELSE None
           /\ \A k \in Fds : Held(p, k)' = fd'[p][k]
<1>1. /\ ~(NFds + 1 <= NFds) /\ NFds + 1 - NFds = 1
      /\ ~(NFds + 2 <= NFds) /\ NFds + 2 - NFds = 2
      /\ \A k \in Fds : k <= NFds
  BY Limits DEF Fds
<1>2. Held(p, NFds + 1)' = IF 1 <= Len(hand'[p]) THEN hand'[p][1] ELSE None
  BY <1>1, Limits DEF Held
<1>3. Held(p, NFds + 2)' = IF 2 <= Len(hand'[p]) THEN hand'[p][2] ELSE None
  BY <1>1, Limits DEF Held
<1>4. \A k \in Fds : Held(p, k)' = fd'[p][k]
  BY <1>1 DEF Held
<1> QED
  BY <1>2, <1>3, <1>4

(* filealloc gives out a file that nobody has. *)
LEMMA FileallocCounts ==
    ASSUME FileInv, NEW p \in Procs, NEW f \in Files, file[f].ref = 0, Len(hand[p]) < 2,
           file' = [file EXCEPT ![f].ref = 1],
           hand' = [hand EXCEPT ![p] = Append(@, f)], UNCHANGED fd
    PROVE  \A g \in Files : file'[g].ref = Cardinality(Pointers(g)')
<1>1. hand[p] \in Seq(Files) /\ hand \in [Procs -> Seq(Files)] /\ file \in [Files -> Entries]
  BY DEF FileInv, TableTypes
<1>2. PICK n \in {1, 2} : n = Len(hand[p]) + 1
  BY HandHeld
<1>3. /\ hand'[p] = Append(hand[p], f)
      /\ Len(hand'[p]) = n /\ hand'[p][n] = f
      /\ n = 2 => hand'[p][1] = hand[p][1]
  BY <1>1, <1>2, ShortAppend
<1>4. PICK k \in Places : k = NFds + n
  BY PlaceKinds
<1>5. k \notin Fds
  BY <1>4, Limits DEF Fds
<1>6. Held(p, k) = None
  BY <1>2, <1>4, HandHeld
<1>7. Held(p, k)' = f
  BY <1>3, <1>4, HeldNext
<1>8. ASSUME NEW q \in Procs, NEW j \in Places, q # p \/ j # k
      PROVE  Held(q, j)' = Held(q, j)
  <2>1. CASE j \in Fds \/ q # p
    BY <1>1, <2>1, HeldStays
  <2>2. CASE q = p /\ j \notin Fds
    <3>1. (n = 1 /\ j = NFds + 2) \/ (n = 2 /\ j = NFds + 1)
      BY <1>4, <1>8, <2>2, PlaceKinds
    <3> QED
      BY <1>2, <1>3, <2>2, <3>1, HandHeld, HeldNext
  <2> QED
    BY <2>1, <2>2
<1>9. /\ Cardinality(Pointers(f)') = Cardinality(Pointers(f)) + 1
      /\ \A g \in Files \ {f} : Pointers(g)' = Pointers(g)
  BY <1>6, <1>7, <1>8, PlaceFilled, Apart
<1>10. \A g \in Files : file[g].ref = Cardinality(Pointers(g))
  BY DEF FileInv, RefsCounted
<1>11. file'[f].ref = 1 /\ \A g \in Files \ {f} : file'[g].ref = file[g].ref
  BY <1>1 DEF Entries
<1> QED
  BY <1>10, <1>11, <1>9

(* filedup counts the descriptor that dup or fork fills. *)
LEMMA FiledupCounts ==
    ASSUME FileInv, NEW p \in Procs, NEW k \in Fds, NEW f \in Files,
           fd[p][k] = None, fd' = [fd EXCEPT ![p][k] = f],
           file' = [file EXCEPT ![f].ref = @ + 1], UNCHANGED hand
    PROVE  \A g \in Files : file'[g].ref = Cardinality(Pointers(g)')
<1>1. fd \in [Procs -> [Fds -> Files \cup {None}]] /\ file \in [Files -> Entries]
  BY DEF FileInv, TableTypes
<1>2. k \in Places /\ Held(p, k) = None /\ Held(p, k)' = f
  BY <1>1, FdHeld, HeldNext
<1>3. ASSUME NEW q \in Procs, NEW j \in Places, q # p \/ j # k
      PROVE  Held(q, j)' = Held(q, j)
  BY <1>1, <1>3, HeldStays
<1>4. /\ Cardinality(Pointers(f)') = Cardinality(Pointers(f)) + 1
      /\ \A g \in Files \ {f} : Pointers(g)' = Pointers(g)
  BY <1>2, <1>3, PlaceFilled, Apart
<1>5. \A g \in Files : file[g].ref = Cardinality(Pointers(g))
  BY DEF FileInv, RefsCounted
<1>6. file'[f].ref = file[f].ref + 1 /\ \A g \in Files \ {f} : file'[g].ref = file[g].ref
  BY <1>1 DEF Entries
<1> QED
  BY <1>4, <1>5, <1>6

(* A pointer goes from a descriptor into the hand, *)
LEMMA CloseFdCounts ==
    ASSUME FileInv, NEW p \in Procs, NEW k \in Fds, fd[p][k] # None, hand[p] = <<>>,
           hand' = [hand EXCEPT ![p] = <<fd[p][k]>>],
           fd' = [fd EXCEPT ![p][k] = None], UNCHANGED file
    PROVE  \A g \in Files : file'[g].ref = Cardinality(Pointers(g)')
<1>1. /\ fd \in [Procs -> [Fds -> Files \cup {None}]]
      /\ hand \in [Procs -> Seq(Files)]
  BY DEF FileInv, TableTypes
<1>2. PICK f \in Files : f = fd[p][k]
  BY FdCounted
<1>3. PICK l \in Places : l = NFds + 1
  BY PlaceKinds
<1>4. l \notin Fds /\ k \in Places
  BY <1>3, Limits, PlaceKinds DEF Fds
<1>5. Held(p, k) = f /\ Held(p, l) = None
  BY <1>2, <1>3, FdHeld, HandHeld
<1>6. fd'[p][k] = None /\ hand'[p] = <<f>> /\ Len(hand'[p]) = 1 /\ hand'[p][1] = f
  BY <1>1, <1>2
<1>7. Held(p, k)' = None /\ Held(p, l)' = f
  BY <1>3, <1>6, HeldNext
<1>8. ASSUME NEW q \in Procs, NEW j \in Places, q # p \/ (j # k /\ j # l)
      PROVE  Held(q, j)' = Held(q, j)
  <2>1. CASE j \in Fds \/ q # p
    BY <1>1, <1>8, <2>1, HeldStays
  <2>2. CASE q = p /\ j \notin Fds
    <3>1. j = NFds + 2
      BY <1>3, <1>8, <2>2, PlaceKinds
    <3>2. Held(q, j) = None /\ Held(q, j)' = None
      BY <1>6, <2>2, <3>1, HandHeld, HeldNext
    <3> QED
      BY <3>2
  <2> QED
    BY <2>1, <2>2
<1>9. Cardinality(Pointers(f)') = Cardinality(Pointers(f))
  BY <1>4, <1>5, <1>7, <1>8, PointerMoved, Apart
<1>10. ASSUME NEW g \in Files, g # f PROVE Pointers(g)' = Pointers(g)
  <2>1. \A q \in Procs, j \in Places : Held(q, j)' = g <=> Held(q, j) = g
    BY <1>5, <1>7, <1>8, <1>10, Apart
  <2> QED
    BY <2>1 DEF Pointers
<1> QED
  BY <1>9, <1>10 DEF FileInv, RefsCounted

(* from the hand into a descriptor, *)
LEMMA OpenFdCounts ==
    ASSUME FileInv, NEW p \in Procs, NEW k \in Fds, fd[p][k] = None, Len(hand[p]) = 1,
           fd' = [fd EXCEPT ![p][k] = hand[p][1]],
           hand' = [hand EXCEPT ![p] = <<>>],
           \A g \in Files : file'[g].ref = file[g].ref
    PROVE  \A g \in Files : file'[g].ref = Cardinality(Pointers(g)')
<1>1. /\ fd \in [Procs -> [Fds -> Files \cup {None}]]
      /\ hand \in [Procs -> Seq(Files)]
  BY DEF FileInv, TableTypes
<1>2. PICK f \in Files : f = hand[p][1]
  BY HandHeld
<1>3. PICK l \in Places : l = NFds + 1
  BY PlaceKinds
<1>4. l \notin Fds /\ k \in Places
  BY <1>3, Limits, PlaceKinds DEF Fds
<1>5. Held(p, k) = None /\ Held(p, l) = f
  BY <1>2, <1>3, FdHeld, HandHeld
<1>6. fd'[p][k] = f /\ hand'[p] = <<>> /\ Len(hand'[p]) = 0
  BY <1>1, <1>2
<1>7. Held(p, k)' = f /\ Held(p, l)' = None
  BY <1>3, <1>6, HeldNext
<1>8. ASSUME NEW q \in Procs, NEW j \in Places, q # p \/ (j # l /\ j # k)
      PROVE  Held(q, j)' = Held(q, j)
  <2>1. CASE j \in Fds \/ q # p
    BY <1>1, <1>8, <2>1, HeldStays
  <2>2. CASE q = p /\ j \notin Fds
    <3>1. j = NFds + 2
      BY <1>3, <1>8, <2>2, PlaceKinds
    <3>2. Held(q, j) = None /\ Held(q, j)' = None
      BY <1>6, <2>2, <3>1, HandHeld, HeldNext
    <3> QED
      BY <3>2
  <2> QED
    BY <2>1, <2>2
<1>9. Cardinality(Pointers(f)') = Cardinality(Pointers(f))
  BY <1>4, <1>5, <1>7, <1>8, PointerMoved, Apart
<1>10. ASSUME NEW g \in Files, g # f PROVE Pointers(g)' = Pointers(g)
  <2>1. \A q \in Procs, j \in Places : Held(q, j)' = g <=> Held(q, j) = g
    BY <1>5, <1>7, <1>8, <1>10, Apart
  <2> QED
    BY <2>1 DEF Pointers
<1> QED
  BY <1>9, <1>10 DEF FileInv, RefsCounted

(* two of them at once,                                                    *)
LEMMA PipeFdsCounts ==
    ASSUME FileInv, NEW p \in Procs, NEW k0 \in Fds, NEW k1 \in Fds, k0 # k1,
           fd[p][k0] = None, fd[p][k1] = None, Len(hand[p]) = 2,
           fd' = [fd EXCEPT ![p][k0] = hand[p][1], ![p][k1] = hand[p][2]],
           hand' = [hand EXCEPT ![p] = <<>>], UNCHANGED file
    PROVE  \A g \in Files : file'[g].ref = Cardinality(Pointers(g)')
<1>1. /\ fd \in [Procs -> [Fds -> Files \cup {None}]]
      /\ hand \in [Procs -> Seq(Files)]
  BY DEF FileInv, TableTypes
<1>2. PICK f0 \in Files, f1 \in Files : f0 = hand[p][1] /\ f1 = hand[p][2] /\ f0 # f1
  BY HandHeld DEF FileInv, HandsFit, HandFits
<1>3. PICK l0 \in Places, l1 \in Places : l0 = NFds + 1 /\ l1 = NFds + 2
  BY PlaceKinds
<1>4. l0 \notin Fds /\ l1 \notin Fds /\ k0 \in Places /\ k1 \in Places /\ l0 # l1
  BY <1>3, Limits, PlaceKinds DEF Fds
<1>5. /\ Held(p, k0) = None /\ Held(p, k1) = None
      /\ Held(p, l0) = f0 /\ Held(p, l1) = f1
  BY <1>2, <1>3, FdHeld, HandHeld
<1>6. /\ fd'[p][k0] = f0 /\ fd'[p][k1] = f1
      /\ hand'[p] = <<>> /\ Len(hand'[p]) = 0
  BY <1>1, <1>2
<1>7. /\ Held(p, k0)' = f0 /\ Held(p, k1)' = f1
      /\ Held(p, l0)' = None /\ Held(p, l1)' = None
  <2>1. Held(p, k0)' = f0 /\ Held(p, k1)' = f1
    BY <1>6, HeldNext
  <2>2. Held(p, l0)' = None
    BY <1>3, <1>6, HeldNext
  <2>3. Held(p, l1)' = None
    BY <1>3, <1>6, HeldNext
  <2> QED
    BY <2>1, <2>2, <2>3
<1>8. ASSUME NEW q \in Procs, NEW j \in Places, q # p \/ j \notin {k0, k1, l0, l1}
      PROVE  Held(q, j)' = Held(q, j)
  <2>1. CASE j \in Fds \/ q # p
    BY <1>1, <1>8, <2>1, HeldStays
  <2>2. CASE q = p /\ j \notin Fds
    BY <1>3, <1>8, <2>2, PlaceKinds
  <2> QED
    BY <2>1, <2>2
<1>9. Cardinality(Pointers(f0)') = Cardinality(Pointers(f0))
  <2>1. \A q \in Procs, j \in Places :
           q # p \/ (j # l0 /\ j # k0) => (Held(q, j)' = f0 <=> Held(q, j) = f0)
    BY <1>2, <1>5, <1>7, <1>8, Apart
  <2> QED
    BY <1>4, <1>5, <1>7, <2>1, PointerMoved, Apart
<1>10. Cardinality(Pointers(f1)') = Cardinality(Pointers(f1))
  <2>1. \A q \in Procs, j \in Places :
           q # p \/ (j # l1 /\ j # k1) => (Held(q, j)' = f1 <=> Held(q, j) = f1)
    BY <1>2, <1>5, <1>7, <1>8, Apart
  <2> QED
    BY <1>4, <1>5, <1>7, <2>1, PointerMoved, Apart
<1>11. ASSUME NEW g \in Files, g # f0, g # f1 PROVE Pointers(g)' = Pointers(g)
  <2>1. \A q \in Procs, j \in Places : Held(q, j)' = g <=> Held(q, j) = g
    BY <1>5, <1>7, <1>8, <1>11, Apart
  <2> QED
    BY <2>1 DEF Pointers
<1> QED
  BY <1>9, <1>10, <1>11 DEF FileInv, RefsCounted

(* and fileclose takes the first out of the hand. *)
LEMMA FilecloseCounts ==
    ASSUME FileInv, NEW p \in Procs, hand[p] # <<>>,
           hand' = [hand EXCEPT ![p] = Tail(@)], UNCHANGED fd,
           file'[hand[p][1]].ref = file[hand[p][1]].ref - 1,
           \A g \in Files \ {hand[p][1]} : file'[g].ref = file[g].ref
    PROVE  \A g \in Files : file'[g].ref = Cardinality(Pointers(g)')
<1>1. hand \in [Procs -> Seq(Files)] /\ hand[p] \in Seq(Files)
  BY DEF FileInv, TableTypes
<1>2. PICK f \in Files : f = hand[p][1]
  BY HandTail
<1>3. PICK l0 \in Places, l1 \in Places : l0 = NFds + 1 /\ l1 = NFds + 2
  BY PlaceKinds
<1>4. l0 \notin Fds /\ l1 \notin Fds /\ l0 # l1
  BY <1>3, Limits DEF Fds
<1>5. ASSUME NEW q \in Procs, NEW j \in Places, q # p \/ j \notin {l0, l1}
      PROVE  Held(q, j)' = Held(q, j)
  BY <1>1, <1>3, <1>5, PlaceKinds, HeldStays
<1>6. Held(p, l0) = f
  BY <1>2, <1>3, HandHeld
<1>7. Len(hand[p]) \in {1, 2}
  BY HandHeld
<1>8. Len(hand'[p]) = Len(hand[p]) - 1 /\ (Len(hand[p]) = 2 => hand'[p][1] = hand[p][2])
  BY <1>1, HandTail
<1>9. \A g \in Files : file[g].ref = Cardinality(Pointers(g))
  BY DEF FileInv, RefsCounted
<1>10. CASE Len(hand[p]) = 1
  <2>1. Held(p, l0)' = None /\ Held(p, l1)' = None /\ Held(p, l1) = None
    BY <1>3, <1>8, <1>10, HandHeld, HeldNext
  <2>2. \A q \in Procs, j \in Places : q # p \/ j # l0 => Held(q, j)' = Held(q, j)
    BY <1>5, <2>1
  <2>3. /\ Cardinality(Pointers(f)') = Cardinality(Pointers(f)) - 1
        /\ \A g \in Files \ {f} : Pointers(g)' = Pointers(g)
    BY <1>6, <2>1, <2>2, PlaceEmptied
  <2> QED
    BY <1>2, <1>9, <2>3
<1>11. CASE Len(hand[p]) = 2
  <2>1. PICK h \in Files : h = hand[p][2] /\ h # f
    BY <1>2, <1>11, HandHeld DEF FileInv, HandsFit, HandFits
  <2>2. Held(p, l1) = h /\ Held(p, l0)' = h /\ Held(p, l1)' = None
    BY <1>3, <1>8, <1>11, <2>1, HandHeld, HeldNext
  <2>3. Cardinality(Pointers(h)') = Cardinality(Pointers(h))
    <3>1. \A q \in Procs, j \in Places :
             q # p \/ (j # l1 /\ j # l0) => (Held(q, j)' = h <=> Held(q, j) = h)
      BY <1>5
    <3> QED
      BY <1>6, <2>1, <2>2, <3>1, PointerMoved, Apart
  <2>4. Cardinality(Pointers(f)') = Cardinality(Pointers(f)) - 1
    <3>1. <<p, l0>> \in Pointers(f)
      BY <1>6 DEF Pointers
    <3>2. \A q \in Procs, j \in Places :
             Held(q, j)' = f <=> Held(q, j) = f /\ (q # p \/ j # l0)
      BY <1>5, <1>6, <2>1, <2>2, Apart
    <3>3. Pointers(f)' = Pointers(f) \ {<<p, l0>>}
      BY <3>2 DEF Pointers
    <3> QED
      BY <3>1, <3>3, PointersFinite, OneLess
  <2>5. ASSUME NEW g \in Files, g # f, g # h PROVE Pointers(g)' = Pointers(g)
    <3>1. \A q \in Procs, j \in Places : Held(q, j)' = g <=> Held(q, j) = g
      BY <1>5, <1>6, <2>2, <2>5, Apart
    <3> QED
      BY <3>1 DEF Pointers
  <2> QED
    BY <1>2, <1>9, <2>1, <2>3, <2>4, <2>5
<1> QED
  BY <1>7, <1>10, <1>11

FilesCounted == \A f \in Files : file[f].ref = Cardinality(Pointers(f))

InodesCounted ==
    \A i \in Inodes :
        iref[i] = Cardinality(OpenOn(i)) + Cardinality(PutBy(i)) + Cardinality(OpenedBy(i))

(* The entries of the table a step leaves open on the inodes they are on.  *)
Opens(f) == file[f].ref > 0 /\ file[f].type = "inode"

LEMMA CountsStay ==
    ASSUME FileInv, UNCHANGED <<fd, hand>>, \A f \in Files : file'[f].ref = file[f].ref
    PROVE  FilesCounted'
BY PointersStay DEF FileInv, RefsCounted, FilesCounted

LEMMA InodesStay ==
    ASSUME FileInv, UNCHANGED <<iref, ip>>, \A i \in Inodes : PutBy(i)' = PutBy(i),
           \A f \in Files : /\ Opens(f)' <=> Opens(f)
                            /\ Opens(f) => file'[f].obj = file[f].obj
    PROVE  InodesCounted'
<1>1. \A i \in Inodes : OpenOn(i)' = OpenOn(i) /\ OpenedBy(i)' = OpenedBy(i)
  BY DEF OpenOn, OpenedBy, Opens
<1> QED
  BY <1>1 DEF FileInv, RefsCounted, InodesCounted

LEMMA InodesSame ==
    ASSUME FileInv, UNCHANGED <<iref, ip, ff, file>>
    PROVE  InodesCounted'
<1>1. \A i \in Inodes : OpenOn(i)' = OpenOn(i) /\ OpenedBy(i)' = OpenedBy(i) /\ PutBy(i)' = PutBy(i)
  BY DEF OpenOn, OpenedBy, PutBy
<1> QED
  BY <1>1 DEF FileInv, RefsCounted, InodesCounted

(* What filealloc, filedup and fileclose of a shared file do to an entry.  *)
LEMMA RefOnly ==
    ASSUME FileInv, NEW f \in Files, NEW r \in Nat, file' = [file EXCEPT ![f].ref = r]
    PROVE  /\ file'[f].ref = r
           /\ \A g \in Files \ {f} : file'[g] = file[g]
           /\ \A g \in Files : /\ file'[g].type = file[g].type
                               /\ file'[g].obj = file[g].obj
                               /\ file'[g].off = file[g].off
                               /\ file'[g].writable = file[g].writable
<1>1. file \in [Files -> Entries]
  BY DEF FileInv, TableTypes
<1> QED
  BY <1>1 DEF Entries

LEMMA FileallocStep ==
    ASSUME FileInv, NEW p \in Procs, Filealloc(p)
    PROVE  \E f \in Files :
              /\ file[f].ref = 0 /\ file[f].type = "none" /\ file'[f].ref = 1
              /\ file' = [file EXCEPT ![f].ref = 1]
              /\ hand' = [hand EXCEPT ![p] = Append(@, f)]
              /\ \A g \in Files \ {f} : file'[g] = file[g]
              /\ \A g \in Files : /\ file'[g].type = file[g].type
                                  /\ file'[g].obj = file[g].obj
                                  /\ file'[g].off = file[g].off
                                  /\ file'[g].writable = file[g].writable
                                  /\ Opens(g)' <=> Opens(g)
<1>1. PICK f \in Files : /\ file[f].ref = 0 /\ file' = [file EXCEPT ![f].ref = 1]
                         /\ hand' = [hand EXCEPT ![p] = Append(@, f)]
  BY DEF Filealloc, FreeFiles
<1>2. file[f].type = "none"
  BY <1>1 DEF FileInv, EntriesFit
<1>3. /\ file'[f].ref = 1
      /\ \A g \in Files \ {f} : file'[g] = file[g]
      /\ \A g \in Files : /\ file'[g].type = file[g].type
                          /\ file'[g].obj = file[g].obj
                          /\ file'[g].off = file[g].off
                          /\ file'[g].writable = file[g].writable
  <2>1. PICK r \in Nat : r = 1
    OBVIOUS
  <2> QED
    BY <1>1, <2>1, RefOnly
<1>4. \A g \in Files : Opens(g)' <=> Opens(g)
  BY <1>2, <1>3 DEF Opens
<1> QED
  BY <1>1, <1>2, <1>3, <1>4

LEMMA FiledupStep ==
    ASSUME FileInv, NEW f \in Files, file[f].ref > 0, Filedup(f)
    PROVE  /\ file'[f].ref > 0
           /\ \A g \in Files \ {f} : file'[g] = file[g]
           /\ \A g \in Files : /\ file'[g].type = file[g].type
                               /\ file'[g].obj = file[g].obj
                               /\ file'[g].off = file[g].off
                               /\ file'[g].writable = file[g].writable
                               /\ Opens(g)' <=> Opens(g)
<1>1. PICK r \in Nat : r = file[f].ref + 1
  BY FileFields
<1>2. /\ file'[f].ref = r
      /\ \A g \in Files \ {f} : file'[g] = file[g]
      /\ \A g \in Files : /\ file'[g].type = file[g].type
                          /\ file'[g].obj = file[g].obj
                          /\ file'[g].off = file[g].off
                          /\ file'[g].writable = file[g].writable
  BY <1>1, RefOnly DEF Filedup
<1>3. r > 0
  BY <1>1, FileFields
<1> QED
  BY <1>2, <1>3 DEF Opens

LEMMA SharedStep ==
    ASSUME FileInv, NEW p \in Procs, FilecloseShared(p)
    PROVE  /\ hand[p] # <<>> /\ hand[p][1] \in Files
           /\ file[hand[p][1]].ref > 1
           /\ file'[hand[p][1]].ref = file[hand[p][1]].ref - 1
           /\ hand' = [hand EXCEPT ![p] = Tail(@)]
           /\ UNCHANGED <<pipe, kept, fd, inode, pc, ff, ip, child, io, moved>>
           /\ \A g \in Files \ {hand[p][1]} : file'[g] = file[g]
           /\ \A g \in Files : /\ file'[g].type = file[g].type
                               /\ file'[g].obj = file[g].obj
                               /\ file'[g].off = file[g].off
                               /\ file'[g].writable = file[g].writable
                               /\ Opens(g)' <=> Opens(g)
<1> DEFINE f == hand[p][1]
<1>1. hand[p] # <<>> /\ Head(hand[p]) = f /\ f \in Files /\ file[f].ref > 0
  BY HandTail DEF FilecloseShared, Closing
<1>2. file[f].ref # 1 /\ file[f].ref \in Nat
  BY <1>1, FileFields DEF FilecloseShared
<1>3. PICK r \in Nat : r = file[f].ref - 1 /\ r > 0
  BY <1>1, <1>2
<1>4. file' = [file EXCEPT ![f].ref = r]
  BY <1>1, <1>3 DEF FilecloseShared
<1>5. /\ file'[f].ref = r
      /\ \A g \in Files \ {f} : file'[g] = file[g]
      /\ \A g \in Files : /\ file'[g].type = file[g].type
                          /\ file'[g].obj = file[g].obj
                          /\ file'[g].off = file[g].off
                          /\ file'[g].writable = file[g].writable
  BY <1>1, <1>4, RefOnly
<1>6. UNCHANGED pc
  <2>1. ~(file[f].ref < 1)
    BY <1>1, <1>2
  <2> QED
    BY <1>1, <2>1 DEF FilecloseShared
<1>7. \A g \in Files : Opens(g)' <=> Opens(g)
  BY <1>1, <1>3, <1>5 DEF Opens
<1>8. file[f].ref > 1
  BY <1>1, <1>2
<1> QED
  BY <1>1, <1>3, <1>5, <1>6, <1>7, <1>8 DEF FilecloseShared

(* The last fileclose of a file leaves an entry without a type; nobody     *)
(* else has the file.                                                      *)
LEMMA LastStep ==
    ASSUME FileInv, NEW p \in Procs, FilecloseLast(p)
    PROVE  /\ hand[p] # <<>> /\ hand[p][1] \in Files
           /\ file[hand[p][1]].ref = 1
           /\ file'[hand[p][1]].ref = 0 /\ file'[hand[p][1]].type = "none"
           /\ file'[hand[p][1]].off = file[hand[p][1]].off
           /\ hand' = [hand EXCEPT ![p] = Tail(@)]
           /\ ff[p] = None /\ ff' = [ff EXCEPT ![p] = file[hand[p][1]]]
           /\ file[hand[p][1]] \in Entries /\ file[hand[p][1]] # None
           /\ UNCHANGED <<pipe, kept, fd, inode, pc, ip, child, io, moved>>
           /\ \A g \in Files \ {hand[p][1]} : file'[g] = file[g]
           /\ \A q \in Procs, j \in Fds : fd[q][j] # hand[p][1]
           /\ \A q \in Procs, j \in 1..2 :
                 j <= Len(hand[q]) /\ hand[q][j] = hand[p][1] => q = p /\ j = 1
<1> DEFINE f == hand[p][1]
<1>1. hand[p] # <<>> /\ Head(hand[p]) = f /\ f \in Files /\ ff[p] = None
  BY HandTail DEF FilecloseLast, Closing
<1>2. file[f].ref = 1
  BY <1>1 DEF FilecloseLast
<1>3. file \in [Files -> Entries]
  BY DEF FileInv, TableTypes
<1>4. file' = [file EXCEPT ![f].ref = 0, ![f].type = "none"]
  BY <1>1 DEF FilecloseLast
<1>5. /\ file'[f].ref = 0 /\ file'[f].type = "none" /\ file'[f].off = file[f].off
      /\ \A g \in Files \ {f} : file'[g] = file[g]
  BY <1>1, <1>3, <1>4 DEF Entries
<1>6. 1 <= Len(hand[p])
  BY <1>1, HandHeld
<1>7. /\ \A q \in Procs, j \in Fds : fd[q][j] # f
      /\ \A q \in Procs, j \in 1..2 :
            j <= Len(hand[q]) /\ hand[q][j] = f => q = p /\ j = 1
  BY <1>2, <1>6, HandCounted
<1>8. file[f] \in Entries /\ file[f] # None
  BY <1>1, <1>3, Apart
<1>9. /\ hand' = [hand EXCEPT ![p] = Tail(@)]
      /\ ff' = [ff EXCEPT ![p] = file[f]]
      /\ UNCHANGED <<pipe, kept, fd, inode, pc, ip, child, io, moved>>
  BY <1>1 DEF FilecloseLast
<1> QED
  BY <1>1, <1>2, <1>5, <1>7, <1>8, <1>9

LEMMA OpensStay ==
    ASSUME \A f \in Files : /\ Opens(f)' <=> Opens(f)
                            /\ Opens(f) => file'[f].obj = file[f].obj
    PROVE  \A i \in Inodes : OpenOn(i)' = OpenOn(i)
BY DEF OpenOn, Opens

(* The call of iput with which sys_open gives up. *)
LEMMA GiveUpCounts ==
    ASSUME FileInv, NEW p \in Procs, pc[p] \in {"open", "open_fd"}, NEW s, GiveUp(p, s),
           UNCHANGED <<file, ff>>
    PROVE  InodesCounted'
<1>1. /\ iref \in [Inodes -> Nat] /\ ip \in [Procs -> Inodes \cup {None}]
      /\ ip[p] # None
  BY DEF FileInv, TableTypes, HandsFit, HandFits
<1>2. PICK i \in Inodes : i = ip[p]
  BY <1>1
<1>3. p \in OpenedBy(i) /\ OpenedBy(i)' = OpenedBy(i) \ {p}
  BY <1>1, <1>2, Apart DEF GiveUp, OpenedBy
<1>4. \A j \in Inodes \ {i} : OpenedBy(j)' = OpenedBy(j)
  BY <1>1, <1>2, Apart DEF GiveUp, OpenedBy
<1>5. Cardinality(OpenedBy(i)') = Cardinality(OpenedBy(i)) - 1
  BY <1>3, InodeSetsFinite, OneLess
<1>6. \A j \in Inodes : OpenOn(j)' = OpenOn(j) /\ PutBy(j)' = PutBy(j)
  BY DEF OpenOn, PutBy
<1>7. iref'[i] = iref[i] - 1 /\ \A j \in Inodes \ {i} : iref'[j] = iref[j]
  BY <1>1, <1>2 DEF GiveUp
<1>8. InodesCounted
  BY DEF FileInv, RefsCounted, InodesCounted
<1>9. iref'[i] = Cardinality(OpenOn(i)') + Cardinality(PutBy(i)') + Cardinality(OpenedBy(i)')
  BY <1>5, <1>6, <1>7, <1>8, InodeSetsFinite DEF InodesCounted
<1> QED
  BY <1>4, <1>6, <1>7, <1>8, <1>9 DEF InodesCounted

LEMMA OpenCounts ==
    ASSUME FileInv, NEW p \in Procs, NEW i \in Inodes, Open(p, i)
    PROVE  InodesCounted'
<1>1. /\ iref \in [Inodes -> Nat] /\ ip \in [Procs -> Inodes \cup {None}]
      /\ ip[p] = None
  BY DEF Open, FileInv, TableTypes, HandsFit, HandFits
<1>2. p \notin OpenedBy(i) /\ OpenedBy(i)' = OpenedBy(i) \cup {p}
  BY <1>1, Apart DEF Open, OpenedBy
<1>3. \A j \in Inodes \ {i} : OpenedBy(j)' = OpenedBy(j)
  BY <1>1, Apart DEF Open, OpenedBy
<1>4. Cardinality(OpenedBy(i)') = Cardinality(OpenedBy(i)) + 1
  BY <1>2, InodeSetsFinite, OneMore
<1>5. \A j \in Inodes : OpenOn(j)' = OpenOn(j) /\ PutBy(j)' = PutBy(j)
  BY DEF Open, table, OpenOn, PutBy
<1>6. iref'[i] = iref[i] + 1 /\ \A j \in Inodes \ {i} : iref'[j] = iref[j]
  BY <1>1 DEF Open
<1>7. InodesCounted
  BY DEF FileInv, RefsCounted, InodesCounted
<1>8. iref'[i] = Cardinality(OpenOn(i)') + Cardinality(PutBy(i)') + Cardinality(OpenedBy(i)')
  BY <1>4, <1>5, <1>6, <1>7, InodeSetsFinite DEF InodesCounted
<1> QED
  BY <1>3, <1>5, <1>6, <1>7, <1>8 DEF InodesCounted

LEMMA Gone ==
    ASSUME FileInv, NEW p \in Procs, NEW s, Goto(p, s)
    PROVE  pc'[p] = s
BY DEF Goto, FileInv, TableTypes

(* sys_open passes its reference on to the entry it has filled in. *)
LEMMA OpenFdStep ==
    ASSUME FileInv, NEW p \in Procs, NEW mode \in Modes, OpenFd(p, mode), pc'[p] = "user"
    PROVE  \E f \in Files, k \in Fds, i \in Inodes :
              /\ f = hand[p][1] /\ Len(hand[p]) = 1 /\ i = ip[p] /\ fd[p][k] = None
              /\ Fresh(f)
              /\ fd' = [fd EXCEPT ![p][k] = f]
              /\ moved' = [moved EXCEPT ![f] = 0]
              /\ hand' = [hand EXCEPT ![p] = <<>>]
              /\ ip' = [ip EXCEPT ![p] = None]
              /\ pc' = [pc EXCEPT ![p] = "user"]
              /\ UNCHANGED <<pipe, kept, iref, ilock, size, ff, child, io>>
              /\ \A g \in Files \ {f} : file'[g] = file[g]
              /\ file'[f].ref = 1 /\ file'[f].type = "inode"
              /\ file'[f].obj = i /\ file'[f].off = 0
              /\ \A q \in Procs, j \in Fds : fd[q][j] # f
              /\ \A q \in Procs, j \in 1..2 :
                    j <= Len(hand[q]) /\ hand[q][j] = f => q = p /\ j = 1
<1>1. pc[p] = "open_fd" /\ Len(hand[p]) = 1 /\ ip[p] # None
  BY DEF OpenFd, FileInv, HandsFit, HandFits
<1>2. PICK f \in Files : f = hand[p][1]
  BY <1>1, HandHeld
<1>3. PICK i \in Inodes : i = ip[p]
  BY <1>1 DEF FileInv, TableTypes
<1>4. Fresh(f)
  BY <1>1, <1>2 DEF FileInv, EntriesFit
<1>5. PICK k \in Fds :
         /\ FirstOf(k, FreeFds(p)) /\ fd' = [fd EXCEPT ![p][k] = f]
         /\ file' = [file EXCEPT ![f] =
               [ref |-> @.ref, type |-> "inode", readable |-> mode[1],
                writable |-> mode[2], obj |-> i, off |-> 0]]
         /\ moved' = [moved EXCEPT ![f] = 0]
         /\ hand' = [hand EXCEPT ![p] = <<>>]
         /\ ip' = [ip EXCEPT ![p] = None]
         /\ pc' = [pc EXCEPT ![p] = "user"]
         /\ UNCHANGED iref
  <2>1. ~GiveUp(p, "close")
    <3>1. PICK s : s = "close"
      OBVIOUS
    <3> QED
      BY <3>1, Gone DEF GiveUp
  <2> QED
    BY <1>2, <1>3, <2>1 DEF OpenFd, Goto
<1>6. fd[p][k] = None
  BY <1>5 DEF FirstOf, FreeFds
<1>7. file \in [Files -> Entries] /\ file[f].ref = 1
  BY <1>4 DEF FileInv, TableTypes, Fresh
<1>8. /\ \A g \in Files \ {f} : file'[g] = file[g]
      /\ file'[f].ref = 1 /\ file'[f].type = "inode"
      /\ file'[f].obj = i /\ file'[f].off = 0
  BY <1>5, <1>7
<1>9. /\ \A q \in Procs, j \in Fds : fd[q][j] # f
      /\ \A q \in Procs, j \in 1..2 :
            j <= Len(hand[q]) /\ hand[q][j] = f => q = p /\ j = 1
  BY <1>1, <1>2, <1>7, HandCounted
<1>10. UNCHANGED <<pipe, kept, iref, ilock, size, ff, child, io>>
  <2>1. UNCHANGED <<pipe, kept, ilock, size, ff, child, io>>
    BY DEF OpenFd
  <2> QED
    BY <1>5, <2>1
<1> QED
  BY <1>1, <1>2, <1>3, <1>4, <1>5, <1>6, <1>8, <1>9, <1>10

LEMMA OpenFdPasses ==
    ASSUME FileInv, NEW p \in Procs, NEW mode \in Modes, OpenFd(p, mode), pc'[p] = "user"
    PROVE  InodesCounted'
<1>1. PICK f \in Files, i \in Inodes :
              /\ i = ip[p] /\ Fresh(f)
              /\ ip' = [ip EXCEPT ![p] = None]
              /\ UNCHANGED <<iref, ff>>
              /\ \A g \in Files \ {f} : file'[g] = file[g]
              /\ file'[f].ref = 1 /\ file'[f].type = "inode" /\ file'[f].obj = i
  BY OpenFdStep
<1>2. ip \in [Procs -> Inodes \cup {None}]
  BY DEF FileInv, TableTypes
<1>3. f \notin OpenOn(i) /\ OpenOn(i)' = OpenOn(i) \cup {f}
  BY <1>1 DEF OpenOn, Fresh
<1>4. p \in OpenedBy(i) /\ OpenedBy(i)' = OpenedBy(i) \ {p}
  BY <1>1, <1>2, Apart DEF OpenedBy
<1>5. \A j \in Inodes \ {i} : OpenOn(j)' = OpenOn(j) /\ OpenedBy(j)' = OpenedBy(j)
  BY <1>1, <1>2, Apart DEF OpenOn, OpenedBy, Fresh
<1>6. \A j \in Inodes : PutBy(j)' = PutBy(j)
  BY <1>1 DEF PutBy
<1>7. Cardinality(OpenOn(i)') = Cardinality(OpenOn(i)) + 1
  BY <1>3, InodeSetsFinite, OneMore
<1>8. Cardinality(OpenedBy(i)') = Cardinality(OpenedBy(i)) - 1
  BY <1>4, InodeSetsFinite, OneLess
<1>9. InodesCounted
  BY DEF FileInv, RefsCounted, InodesCounted
<1>10. iref'[i] = Cardinality(OpenOn(i)') + Cardinality(PutBy(i)') + Cardinality(OpenedBy(i)')
  BY <1>1, <1>6, <1>7, <1>8, <1>9, InodeSetsFinite DEF InodesCounted
<1> QED
  BY <1>1, <1>5, <1>6, <1>9, <1>10 DEF InodesCounted

(* The last fileclose takes the reference over, *)
LEMMA LastPasses ==
    ASSUME FileInv, NEW p \in Procs, FilecloseLast(p)
    PROVE  InodesCounted'
<1>1. PICK f \in Files :
           /\ file[f].ref = 1 /\ file'[f].ref = 0
           /\ ff[p] = None /\ ff' = [ff EXCEPT ![p] = file[f]]
           /\ file[f] # None
           /\ UNCHANGED <<iref, ip>>
           /\ \A g \in Files \ {f} : file'[g] = file[g]
  BY LastStep DEF inode
<1>2. ff \in [Procs -> Entries \cup {None}]
  BY DEF FileInv, TableTypes
<1>3. \A j \in Inodes : OpenedBy(j)' = OpenedBy(j)
  BY <1>1 DEF OpenedBy
<1>4. InodesCounted
  BY DEF FileInv, RefsCounted, InodesCounted
<1>5. CASE file[f].type = "inode"
  <2>1. PICK i \in Inodes : i = file[f].obj
    BY <1>5 DEF FileInv, EntriesFit, EntryFits
  <2>2. f \in OpenOn(i) /\ OpenOn(i)' = OpenOn(i) \ {f}
    BY <1>1, <1>5, <2>1 DEF OpenOn
  <2>3. p \notin PutBy(i) /\ PutBy(i)' = PutBy(i) \cup {p}
    BY <1>1, <1>2, <1>5, <2>1 DEF PutBy
  <2>4. \A j \in Inodes \ {i} : OpenOn(j)' = OpenOn(j) /\ PutBy(j)' = PutBy(j)
    BY <1>1, <1>2, <1>5, <2>1 DEF OpenOn, PutBy
  <2>5. Cardinality(OpenOn(i)') = Cardinality(OpenOn(i)) - 1
    BY <2>2, InodeSetsFinite, OneLess
  <2>6. Cardinality(PutBy(i)') = Cardinality(PutBy(i)) + 1
    BY <2>3, InodeSetsFinite, OneMore
  <2>7. iref'[i] = Cardinality(OpenOn(i)') + Cardinality(PutBy(i)') + Cardinality(OpenedBy(i)')
    BY <1>1, <1>3, <1>4, <2>5, <2>6, InodeSetsFinite DEF InodesCounted
  <2> QED
    BY <1>1, <1>3, <1>4, <2>4, <2>7 DEF InodesCounted
<1>6. CASE file[f].type # "inode"
  <2>1. \A j \in Inodes : OpenOn(j)' = OpenOn(j) /\ PutBy(j)' = PutBy(j)
    BY <1>1, <1>2, <1>6 DEF OpenOn, PutBy
  <2> QED
    BY <1>1, <1>3, <1>4, <2>1 DEF InodesCounted
<1> QED
  BY <1>5, <1>6

(* and gives it to iput. *)
LEMMA FilecloseInodeCounts ==
    ASSUME FileInv, NEW p \in Procs, FilecloseInode(p)
    PROVE  InodesCounted'
<1>1. /\ iref \in [Inodes -> Nat] /\ ff \in [Procs -> Entries \cup {None}]
      /\ ff[p] # None /\ ff[p].type = "inode" /\ ff' = [ff EXCEPT ![p] = None]
      /\ UNCHANGED <<file, ip>>
  BY DEF FilecloseInode, FileInv, TableTypes, table
<1>2. PICK i \in Inodes : i = ff[p].obj
  BY <1>1 DEF FileInv, EntriesFit, EntryFits
<1>3. p \in PutBy(i) /\ PutBy(i)' = PutBy(i) \ {p}
  BY <1>1, <1>2 DEF PutBy
<1>4. \A j \in Inodes \ {i} : PutBy(j)' = PutBy(j)
  BY <1>1, <1>2 DEF PutBy
<1>5. Cardinality(PutBy(i)') = Cardinality(PutBy(i)) - 1
  BY <1>3, InodeSetsFinite, OneLess
<1>6. \A j \in Inodes : OpenOn(j)' = OpenOn(j) /\ OpenedBy(j)' = OpenedBy(j)
  BY <1>1 DEF OpenOn, OpenedBy
<1>7. iref'[i] = iref[i] - 1 /\ \A j \in Inodes \ {i} : iref'[j] = iref[j]
  BY <1>1, <1>2 DEF FilecloseInode
<1>8. InodesCounted
  BY DEF FileInv, RefsCounted, InodesCounted
<1>9. iref'[i] = Cardinality(OpenOn(i)') + Cardinality(PutBy(i)') + Cardinality(OpenedBy(i)')
  BY <1>5, <1>6, <1>7, <1>8, InodeSetsFinite DEF InodesCounted
<1> QED
  BY <1>4, <1>6, <1>7, <1>8, <1>9 DEF InodesCounted

(* fileclose of anything else. *)
LEMMA NoInodePut ==
    ASSUME FileInv, NEW p \in Procs, ff[p] # None, ff[p].type # "inode",
           ff' = [ff EXCEPT ![p] = None], UNCHANGED <<file, iref, ip>>
    PROVE  InodesCounted'
<1>1. ff \in [Procs -> Entries \cup {None}]
  BY DEF FileInv, TableTypes
<1>2. \A i \in Inodes : PutBy(i)' = PutBy(i)
  BY <1>1 DEF PutBy
<1> QED
  BY <1>2, InodesStay DEF Opens

LEMMA EndFields ==
    ASSUME NEW f, NEW g, NEW rd \in BOOLEAN
    PROVE  /\ End(f, g, rd).ref = file[f].ref /\ End(f, g, rd).type = "pipe"
           /\ End(f, g, rd).obj = g /\ End(f, g, rd).off = file[f].off
           /\ End(f, g, rd).writable <=> ~rd
<1>1. End(f, g, rd).ref = file[f].ref /\ End(f, g, rd).type = "pipe"
  BY DEF End
<1>2. End(f, g, rd).obj = g /\ End(f, g, rd).off = file[f].off
  BY DEF End
<1>3. End(f, g, rd).writable <=> ~rd
  BY DEF End
<1> QED
  BY <1>1, <1>2, <1>3

(* pipealloc gives its two files, which nobody else has, a new pipe.       *)
PipeMade(p, f0, f1, g) ==
    /\ f0 = hand[p][1] /\ f1 = hand[p][2] /\ f0 # f1 /\ Len(hand[p]) = 2
    /\ Fresh(f0) /\ Fresh(f1)
    /\ g \notin kept /\ kept' = kept \cup {g}
    /\ pipe' = [pipe EXCEPT ![g] = {"read", "write"}]
    /\ pc' = [pc EXCEPT ![p] = "pipe_fd"]
    /\ UNCHANGED <<fd, inode, local, moved>>
    /\ \A h \in Files \ {f0, f1} : file'[h] = file[h]
    /\ file'[f0].ref = 1 /\ file'[f0].type = "pipe"
    /\ file'[f0].obj = g /\ file'[f0].off = file[f0].off
    /\ ~file'[f0].writable
    /\ file'[f1].ref = 1 /\ file'[f1].type = "pipe"
    /\ file'[f1].obj = g /\ file'[f1].off = file[f1].off
    /\ file'[f1].writable
    /\ \A q \in Procs, j \in Fds : fd[q][j] \notin {f0, f1}
    /\ \A q \in Procs, j \in 1..2 :
          j <= Len(hand[q]) /\ hand[q][j] \in {f0, f1} => q = p

LEMMA PipeStep ==
    ASSUME FileInv, NEW p \in Procs, PipeKalloc(p), pc'[p] = "pipe_fd"
    PROVE  \E f0 \in Files, f1 \in Files, g \in PipePages : PipeMade(p, f0, f1, g)
<1>1. pc[p] = "pipe" /\ Len(hand[p]) = 2
  BY DEF PipeKalloc
<1>2. PICK f0 \in Files, f1 \in Files : f0 = hand[p][1] /\ f1 = hand[p][2] /\ f0 # f1
  BY <1>1, HandHeld DEF FileInv, HandsFit, HandFits
<1>3. Fresh(f0) /\ Fresh(f1)
  BY <1>1, <1>2 DEF FileInv, EntriesFit
<1>4. PICK g \in PipePages :
         /\ g \notin kept
         /\ kept' = kept \cup {g}
         /\ pipe' = [pipe EXCEPT ![g] = {"read", "write"}]
         /\ file' = [file EXCEPT ![f0] = End(f0, g, TRUE), ![f1] = End(f1, g, FALSE)]
         /\ pc' = [pc EXCEPT ![p] = "pipe_fd"]
  <2>1. ~Goto(p, "close")
    <3>1. PICK s : s = "close"
      OBVIOUS
    <3> QED
      BY <3>1, Gone
  <2> QED
    BY <1>2, <2>1 DEF PipeKalloc, Goto
<1>5. file \in [Files -> Entries] /\ file[f0].ref = 1 /\ file[f1].ref = 1
  BY <1>3 DEF FileInv, TableTypes, Fresh
<1>6. /\ \A h \in Files \ {f0, f1} : file'[h] = file[h]
      /\ file'[f0] = End(f0, g, TRUE) /\ file'[f1] = End(f1, g, FALSE)
  BY <1>2, <1>4, <1>5
<1>7. /\ file'[f0].ref = 1 /\ file'[f0].type = "pipe"
      /\ file'[f0].obj = g /\ file'[f0].off = file[f0].off
      /\ ~file'[f0].writable
      /\ file'[f1].ref = 1 /\ file'[f1].type = "pipe"
      /\ file'[f1].obj = g /\ file'[f1].off = file[f1].off
      /\ file'[f1].writable
  <2>1. /\ file'[f0].ref = 1 /\ file'[f0].type = "pipe"
        /\ file'[f0].obj = g /\ file'[f0].off = file[f0].off
        /\ ~file'[f0].writable
    <3>1. PICK rd \in BOOLEAN : rd = TRUE
      OBVIOUS
    <3>2. file'[f0] = End(f0, g, rd)
      BY <1>6, <3>1
    <3>3. /\ file'[f0].ref = 1 /\ file'[f0].type = "pipe"
          /\ file'[f0].obj = g /\ file'[f0].off = file[f0].off
      BY <1>5, <3>2, EndFields
    <3>4. file'[f0].writable <=> ~rd
      BY <3>2, EndFields
    <3> QED
      BY <3>1, <3>3, <3>4
  <2>2. /\ file'[f1].ref = 1 /\ file'[f1].type = "pipe"
        /\ file'[f1].obj = g /\ file'[f1].off = file[f1].off
        /\ file'[f1].writable
    <3>1. PICK rd \in BOOLEAN : rd = FALSE
      OBVIOUS
    <3>2. file'[f1] = End(f1, g, rd)
      BY <1>6, <3>1
    <3>3. /\ file'[f1].ref = 1 /\ file'[f1].type = "pipe"
          /\ file'[f1].obj = g /\ file'[f1].off = file[f1].off
      BY <1>5, <3>2, EndFields
    <3>4. file'[f1].writable <=> ~rd
      BY <3>2, EndFields
    <3> QED
      BY <3>1, <3>3, <3>4
  <2> QED
    BY <2>1, <2>2
<1>8. \A q \in Procs, j \in Fds : fd[q][j] \notin {f0, f1}
  BY <1>1, <1>2, <1>5, HandCounted
<1>9. \A q \in Procs, j \in 1..2 : j <= Len(hand[q]) /\ hand[q][j] \in {f0, f1} => q = p
  <2>1. 1 <= Len(hand[p]) /\ 2 <= Len(hand[p])
    BY <1>1
  <2>2. \A q \in Procs, j \in 1..2 : j <= Len(hand[q]) /\ hand[q][j] = f0 => q = p
    BY <1>2, <1>5, <2>1, HandCounted
  <2>3. \A q \in Procs, j \in 1..2 : j <= Len(hand[q]) /\ hand[q][j] = f1 => q = p
    BY <1>2, <1>5, <2>1, HandCounted
  <2> QED
    BY <2>2, <2>3
<1>10. UNCHANGED <<fd, inode, local, moved>>
  BY Zenon DEF PipeKalloc
<1>11. PipeMade(p, f0, f1, g)
  BY <1>1, <1>2, <1>3, <1>4, <1>6, <1>7, <1>8, <1>9, <1>10 DEF PipeMade
<1> QED
  BY <1>11

(* Where the offset is moved, nothing else of the entry is. *)
LEMMA AdvanceStep ==
    ASSUME FileInv, NEW p \in Procs, Advance(p)
    PROVE  \E f \in Files :
              /\ f = io[p].f /\ file[f].type = "inode"
              /\ \A g \in Files \ {f} : file'[g] = file[g]
              /\ file'[f].off = file[f].off + Done(p)
              /\ \A g \in Files : /\ file'[g].type = file[g].type
                                  /\ file'[g].obj = file[g].obj
                                  /\ file'[g].ref = file[g].ref
                                  /\ file'[g].writable = file[g].writable
                                  /\ Opens(g)' <=> Opens(g)
<1>1. pc[p] \in Holding \cup {"ilock"}
  BY DEF Advance, Holding
<1>2. PICK f \in Files : f = io[p].f
  BY <1>1, IoFile
<1>3. file \in [Files -> Entries] /\ file[f].off \in Nat /\ file[f].type = "inode"
  BY <1>1, <1>2, IoFile DEF FileInv, TableTypes
<1>4. CASE io[p].r > 0
  <2>1. file' = [file EXCEPT ![f].off = @ + io[p].r]
    BY <1>2, <1>4 DEF Advance
  <2> QED
    BY <1>2, <1>3, <1>4, <2>1 DEF Done, Opens, Entries
<1>5. CASE ~(io[p].r > 0)
  <2>1. file' = file
    BY <1>5 DEF Advance
  <2> QED
    BY <1>2, <1>3, <1>5, <2>1 DEF Done, Opens
<1> QED
  BY <1>4, <1>5

LEMMA PipeFdsStep ==
    ASSUME FileInv, NEW p \in Procs, PipeFds(p), pc'[p] = "user"
    PROVE  \E k0, k1 \in Fds :
              /\ k0 # k1 /\ fd[p][k0] = None /\ fd[p][k1] = None /\ Len(hand[p]) = 2
              /\ fd' = [fd EXCEPT ![p][k0] = hand[p][1], ![p][k1] = hand[p][2]]
              /\ hand' = [hand EXCEPT ![p] = <<>>]
              /\ pc' = [pc EXCEPT ![p] = "user"]
              /\ UNCHANGED <<table, inode, ff, ip, child, io, moved>>
<1>1. PICK k0 \in Fds, k1 \in Fds :
         /\ FirstOf(k0, FreeFds(p)) /\ FirstOf(k1, FreeFds(p) \ {k0})
         /\ fd' = [fd EXCEPT ![p][k0] = hand[p][1], ![p][k1] = hand[p][2]]
         /\ hand' = [hand EXCEPT ![p] = <<>>]
         /\ pc' = [pc EXCEPT ![p] = "user"]
  <2>1. ~Goto(p, "close")
    <3>1. PICK s : s = "close"
      OBVIOUS
    <3> QED
      BY <3>1, Gone
  <2> QED
    BY <2>1 DEF PipeFds, Goto
<1>2. k0 # k1 /\ fd[p][k0] = None /\ fd[p][k1] = None
  BY <1>1 DEF FirstOf, FreeFds
<1>3. Len(hand[p]) = 2 /\ UNCHANGED <<table, inode, ff, ip, child, io, moved>>
  BY DEF PipeFds, FileInv, HandsFit, HandFits
<1> QED
  BY <1>1, <1>2, <1>3

(* dup and fork fill a descriptor that leads nowhere. *)
LEMMA DupStep ==
    ASSUME FileInv, NEW p \in Procs, Dup(p)
    PROVE  \E j, k \in Fds, f \in Files :
              /\ f = fd[p][j] /\ fd[p][k] = None /\ file[f].ref > 0
              /\ fd' = [fd EXCEPT ![p][k] = f] /\ Filedup(f)
              /\ pc' = [pc EXCEPT ![p] = "user"]
              /\ UNCHANGED <<pipe, kept, inode, local, moved>>
<1>1. PICK j \in Fds, k \in Fds :
         /\ fd[p][j] # None /\ FirstOf(k, FreeFds(p))
         /\ fd' = [fd EXCEPT ![p][k] = fd[p][j]] /\ Filedup(fd[p][j])
         /\ pc' = [pc EXCEPT ![p] = IF file[fd[p][j]].ref < 1 THEN "panic" ELSE "user"]
  BY DEF Dup, Goto
<1>2. PICK f \in Files : f = fd[p][j] /\ file[f].ref > 0
  BY <1>1, FdCounted
<1>3. ~(file[f].ref < 1)
  BY <1>2, FileFields
<1>4. fd[p][k] = None
  BY <1>1 DEF FirstOf, FreeFds
<1> QED
  BY <1>1, <1>2, <1>3, <1>4 DEF Dup

LEMMA ForkDupStep ==
    ASSUME FileInv, NEW p \in Procs, ForkDup(p)
    PROVE  \E q \in Procs, k \in Fds, f \in Files :
              /\ q = child[p] /\ f = fd[p][k] /\ fd[q][k] = None /\ file[f].ref > 0
              /\ fd' = [fd EXCEPT ![q][k] = f] /\ Filedup(f)
              /\ pc[p] = "fork" /\ pc[q] = "embryo"
              /\ UNCHANGED <<pipe, kept, inode, local, moved, pc>>
<1>1. pc[p] = "fork" /\ child[p] \in Procs /\ pc[child[p]] = "embryo"
  BY DEF ForkDup, FileInv, ForksFit
<1>2. PICK k \in Fds :
         /\ FirstOf(k, ToCopy(p)) /\ Filedup(fd[p][k])
         /\ fd' = [fd EXCEPT ![child[p]][k] = fd[p][k]]
         /\ pc' = [pc EXCEPT ![p] = IF file[fd[p][k]].ref < 1 THEN "panic" ELSE "fork"]
  BY DEF ForkDup, Goto
<1>3. fd[p][k] # None /\ fd[child[p]][k] = None
  BY <1>2 DEF FirstOf, ToCopy
<1>4. PICK f \in Files : f = fd[p][k] /\ file[f].ref > 0
  BY <1>3, FdCounted
<1>5. UNCHANGED pc
  <2>1. ~(file[f].ref < 1)
    BY <1>4, FileFields
  <2> QED
    BY <1>1, <1>2, <1>4, <2>1 DEF FileInv, TableTypes
<1> QED
  BY <1>1, <1>2, <1>3, <1>4, <1>5 DEF ForkDup

LEMMA RefsKept ==
    ASSUME FileInv, NEW p \in Procs, Call(p) \/ Running(p)
    PROVE  RefsCounted'
<1> USE DEF Goto, table, inode, local
<1>1. SUFFICES FilesCounted' /\ InodesCounted'
  BY DEF RefsCounted, FilesCounted, InodesCounted
<1>2. ASSUME UNCHANGED <<fd, hand, file, iref, ip, ff>>
      PROVE  FilesCounted' /\ InodesCounted'
  BY <1>2, CountsStay, InodesSame
<1>3. CASE Call(p)
  <2>1. ASSUME NEW i \in Inodes, Open(p, i) PROVE FilesCounted' /\ InodesCounted'
    <3>1. UNCHANGED <<fd, hand, file>>
      BY <2>1 DEF Open
    <3> QED
      BY <2>1, <3>1, CountsStay, OpenCounts
  <2>2. CASE Dup(p)
    <3>1. PICK k \in Fds, f \in Files :
              /\ fd[p][k] = None /\ file[f].ref > 0
              /\ fd' = [fd EXCEPT ![p][k] = f] /\ Filedup(f)
              /\ UNCHANGED <<hand, ff, ip, iref>>
      BY <2>2, DupStep
    <3>2. FilesCounted'
      BY <3>1, FiledupCounts DEF Filedup, FilesCounted
    <3>3. InodesCounted'
      BY <3>1, FiledupStep, InodesStay DEF PutBy
    <3> QED
      BY <3>2, <3>3
  <2>3. ASSUME NEW k \in Fds, CloseFd(p, k) PROVE FilesCounted' /\ InodesCounted'
    <3>1. hand[p] = <<>>
      BY <2>3 DEF CloseFd, FileInv, HandsFit, HandFits
    <3>2. FilesCounted'
      BY <2>3, <3>1, CloseFdCounts DEF CloseFd, FilesCounted
    <3>3. InodesCounted'
      BY <2>3, InodesSame DEF CloseFd
    <3> QED
      BY <3>2, <3>3
  <2>4. CASE PipeCall(p) \/ Exit(p) \/ (\E q \in Procs : Fork(p, q))
             \/ \E k \in Fds, n \in Sizes : Read(p, k, n) \/ Write(p, k, n)
    <3>1. UNCHANGED <<fd, hand, file, iref, ip, ff>>
      BY <2>4 DEF PipeCall, Exit, Fork, Read, Write
    <3> QED
      BY <1>2, <3>1
  <2> QED
    BY <1>3, <2>1, <2>2, <2>3, <2>4 DEF Call
<1>4. ASSUME Filealloc(p), UNCHANGED <<fd, iref, ip, ff>>, Len(hand[p]) < 2
      PROVE  FilesCounted' /\ InodesCounted'
  <2>1. FilesCounted'
    BY <1>4, FileallocStep, FileallocCounts DEF FilesCounted
  <2>2. InodesCounted'
    BY <1>4, FileallocStep, InodesStay DEF PutBy
  <2> QED
    BY <2>1, <2>2
<1>5. CASE OpenAlloc(p)
  <2>1. CASE Filealloc(p) /\ UNCHANGED <<iref, ip>>
    <3>1. Len(hand[p]) < 2
      BY <1>5 DEF OpenAlloc, FileInv, HandsFit, HandFits
    <3> QED
      BY <1>4, <1>5, <2>1, <3>1 DEF OpenAlloc
  <2>2. CASE GiveUp(p, "user") /\ UNCHANGED <<file, hand>>
    <3>1. UNCHANGED <<fd, ff>> /\ pc[p] = "open"
      BY <1>5 DEF OpenAlloc
    <3> QED
      BY <2>2, <3>1, CountsStay, GiveUpCounts
  <2> QED
    BY <1>5, <2>1, <2>2 DEF OpenAlloc
<1>6. ASSUME NEW mode \in Modes, OpenFd(p, mode) PROVE FilesCounted' /\ InodesCounted'
  <2>1. CASE pc'[p] = "user"
    <3>1. InodesCounted'
      BY <1>6, <2>1, OpenFdPasses
    <3>2. PICK f \in Files, k \in Fds :
              /\ f = hand[p][1] /\ Len(hand[p]) = 1 /\ fd[p][k] = None
              /\ Fresh(f)
              /\ fd' = [fd EXCEPT ![p][k] = f]
              /\ hand' = [hand EXCEPT ![p] = <<>>]
              /\ \A g \in Files \ {f} : file'[g] = file[g]
              /\ file'[f].ref = 1
      BY <1>6, <2>1, OpenFdStep
    <3>3. \A g \in Files : file'[g].ref = file[g].ref
      BY <3>2 DEF Fresh
    <3>4. FilesCounted'
      BY <3>2, <3>3, OpenFdCounts DEF FilesCounted
    <3> QED
      BY <3>1, <3>4
  <2>2. CASE GiveUp(p, "close") /\ UNCHANGED <<file, fd, hand>>
    <3>1. UNCHANGED ff /\ pc[p] = "open_fd"
      BY <1>6 DEF OpenFd
    <3> QED
      BY <2>2, <3>1, CountsStay, GiveUpCounts
  <2>3. pc'[p] = "user" \/ (GiveUp(p, "close") /\ UNCHANGED <<file, fd, hand>>)
    <3>1. PICK s : s = "user"
      OBVIOUS
    <3>2. Goto(p, s) => pc'[p] = s
      BY Gone
    <3> QED
      BY <1>6, <3>1, <3>2 DEF OpenFd
  <2> QED
    BY <2>1, <2>2, <2>3
<1>7. CASE Pipealloc(p)
  <2>1. CASE PipeFile(p)
    <3>1. CASE Filealloc(p)
      BY <1>4, <2>1, <3>1 DEF PipeFile
    <3>2. CASE UNCHANGED <<file, hand>>
      BY <1>2, <2>1, <3>2 DEF PipeFile
    <3> QED
      BY <2>1, <3>1, <3>2 DEF PipeFile
  <2>2. CASE PipeKalloc(p)
    <3>1. UNCHANGED <<fd, hand, iref, ip, ff>>
      BY <2>2 DEF PipeKalloc
    <3>2. CASE UNCHANGED table
      BY <1>2, <3>1, <3>2
    <3>3. CASE pc'[p] = "pipe_fd"
      <4>1. PICK f0 \in Files, f1 \in Files :
              /\ Fresh(f0) /\ Fresh(f1)
              /\ \A h \in Files \ {f0, f1} : file'[h] = file[h]
              /\ file'[f0].ref = 1 /\ file'[f0].type = "pipe"
              /\ file'[f1].ref = 1 /\ file'[f1].type = "pipe"
        BY <2>2, <3>3, PipeStep DEF PipeMade
      <4>2. \A h \in Files : file'[h].ref = file[h].ref
        BY <4>1 DEF Fresh
      <4>3. \A h \in Files : (Opens(h)' <=> Opens(h)) /\ (Opens(h) => file'[h] = file[h])
        BY <4>1 DEF Fresh, Opens
      <4>4. InodesCounted'
        BY <3>1, <4>3, InodesStay DEF PutBy
      <4> QED
        BY <3>1, <4>2, <4>4, CountsStay
    <3>4. PICK s : s = "pipe_fd"
      OBVIOUS
    <3>5. Goto(p, s) => pc'[p] = s
      BY Gone
    <3> QED
      BY <2>2, <3>2, <3>3, <3>4, <3>5 DEF PipeKalloc
  <2>3. CASE PipeFds(p)
    <3>1. InodesCounted'
      BY <2>3, InodesSame DEF PipeFds
    <3>2. CASE UNCHANGED <<fd, hand>>
      BY <2>3, <3>1, <3>2, CountsStay DEF PipeFds
    <3>3. CASE pc'[p] = "user"
      <4>1. PICK k0 \in Fds, k1 \in Fds :
                /\ k0 # k1 /\ fd[p][k0] = None /\ fd[p][k1] = None /\ Len(hand[p]) = 2
                /\ fd' = [fd EXCEPT ![p][k0] = hand[p][1], ![p][k1] = hand[p][2]]
                /\ hand' = [hand EXCEPT ![p] = <<>>]
                /\ pc' = [pc EXCEPT ![p] = "user"]
                /\ UNCHANGED <<table, inode, ff, ip, child, io, moved>>
        BY <2>3, <3>3, PipeFdsStep
      <4>2. UNCHANGED file
        BY <2>3 DEF PipeFds
      <4>3. \A h \in Files : file'[h].ref = Cardinality(Pointers(h)')
        BY <4>1, <4>2, PipeFdsCounts
      <4> QED
        BY <3>1, <4>3 DEF FilesCounted
    <3>4. PICK s : s = "user"
      OBVIOUS
    <3>5. Goto(p, s) => pc'[p] = s
      BY Gone
    <3> QED
      BY <2>3, <3>2, <3>3, <3>4, <3>5 DEF PipeFds
  <2> QED
    BY <1>7, <2>1, <2>2, <2>3 DEF Pipealloc
<1>8. CASE Forking(p)
  <2>1. CASE ForkDup(p)
    <3>1. PICK q \in Procs, k \in Fds, f \in Files :
              /\ fd[q][k] = None /\ file[f].ref > 0
              /\ fd' = [fd EXCEPT ![q][k] = f] /\ Filedup(f)
              /\ UNCHANGED <<hand, ff, ip, iref>>
      BY <2>1, ForkDupStep
    <3>2. FilesCounted'
      BY <3>1, FiledupCounts DEF Filedup, FilesCounted
    <3>3. InodesCounted'
      BY <3>1, FiledupStep, InodesStay DEF PutBy
    <3> QED
      BY <3>2, <3>3
  <2>2. CASE ForkDone(p)
    BY <1>2, <2>2 DEF ForkDone
  <2> QED
    BY <1>8, <2>1, <2>2 DEF Forking
<1>9. CASE Fileclose(p)
  <2>1. CASE FilecloseShared(p)
    <3>1. FilesCounted'
      BY <2>1, SharedStep, FilecloseCounts DEF FilesCounted
    <3>2. InodesCounted'
      BY <2>1, SharedStep, InodesStay DEF PutBy
    <3> QED
      BY <3>1, <3>2
  <2>2. CASE FilecloseLast(p)
    <3>1. FilesCounted'
      BY <2>2, LastStep, FilecloseCounts DEF FilesCounted
    <3> QED
      BY <2>2, <3>1, LastPasses
  <2>3. CASE FilecloseInode(p)
    <3>1. FilesCounted'
      BY <2>3, CountsStay DEF FilecloseInode
    <3> QED
      BY <2>3, <3>1, FilecloseInodeCounts
  <2>4. CASE FileclosePipe(p) \/ FilecloseNone(p)
    <3>1. /\ ff[p] # None /\ ff[p].type # "inode" /\ ff' = [ff EXCEPT ![p] = None]
          /\ UNCHANGED <<fd, hand, file, iref, ip>>
      BY <2>4 DEF FileclosePipe, FilecloseNone
    <3> QED
      BY <3>1, CountsStay, NoInodePut
  <2>5. CASE ExitFd(p)
    <3>1. PICK k \in Fds : /\ FirstOf(k, ToClose(p)) /\ hand[p] = <<>>
                           /\ hand' = [hand EXCEPT ![p] = <<fd[p][k]>>]
                           /\ fd' = [fd EXCEPT ![p][k] = None]
                           /\ UNCHANGED <<file, iref, ip, ff>>
      BY <2>5 DEF ExitFd
    <3>2. fd[p][k] # None
      BY <3>1 DEF FirstOf, ToClose
    <3>3. FilesCounted'
      BY <3>1, <3>2, CloseFdCounts DEF FilesCounted
    <3> QED
      BY <3>1, <3>3, InodesSame
  <2>6. CASE CloseDone(p)
    BY <1>2, <2>6 DEF CloseDone
  <2> QED
    BY <1>9, <2>1, <2>2, <2>3, <2>4, <2>5, <2>6 DEF Fileclose
<1>10. CASE ReadWrite(p)
  <2>1. UNCHANGED <<fd, hand, iref, ip, ff>>
    BY <1>10 DEF ReadWrite, Ilock, Readi, Writei, Advance, Iunlock
  <2>2. CASE Advance(p)
    <3>1. FilesCounted'
      BY <2>1, <2>2, AdvanceStep, CountsStay
    <3>2. InodesCounted'
      BY <2>1, <2>2, AdvanceStep, InodesStay DEF PutBy
    <3> QED
      BY <3>1, <3>2
  <2>3. CASE ~Advance(p)
    <3>1. UNCHANGED file
      BY <1>10, <2>3 DEF ReadWrite, Ilock, Readi, Writei, Iunlock
    <3> QED
      BY <1>2, <2>1, <3>1
  <2> QED
    BY <2>2, <2>3
<1> QED
  BY <1>3, <1>5, <1>6, <1>7, <1>8, <1>9, <1>10 DEF Running, Opening

-----------------------------------------------------------------------------
(* What most steps leave alone: the kind of every entry that is in use, and *)
(* the entries only one process knows; off moves in Advance alone.          *)
SameKind(g) ==
    /\ file'[g].type = file[g].type
    /\ file'[g].obj = file[g].obj
    /\ file'[g].writable = file[g].writable

Calm ==
    \A g \in Files :
        /\ SameKind(g)
        /\ file[g].type # "none" => file'[g].ref > 0
        /\ Fresh(g) => file'[g].ref = 1

Still == \A g \in Files : file'[g].off = file[g].off

Kept(p) ==
    /\ Calm
    /\ ReadWrite(p) \/ Still
    /\ \A q \in Procs : ff'[q] \in {ff[q], None}

Made(p) == \E mode \in Modes : OpenFd(p, mode) /\ pc'[p] = "user"

Piped(p) == PipeKalloc(p) /\ pc'[p] = "pipe_fd"

LEMMA UsedCounted ==
    ASSUME FileInv, NEW f \in Files, file[f].type # "none"
    PROVE  file[f].ref > 0
<1>1. file[f].ref \in Nat /\ file[f].ref # 0
  BY FileFields DEF FileInv, EntriesFit
<1> QED
  BY <1>1

LEMMA FilesLeft ==
    ASSUME FileInv, NEW p, UNCHANGED <<file, ff>>
    PROVE  Kept(p)
BY UsedCounted DEF Kept, Calm, Still, SameKind, Fresh

LEMMA FileallocCalm ==
    ASSUME FileInv, NEW p \in Procs, Filealloc(p), UNCHANGED ff
    PROVE  Kept(p)
<1>1. PICK f \in Files :
              /\ file[f].ref = 0 /\ file[f].type = "none" /\ file'[f].ref = 1
              /\ \A g \in Files \ {f} : file'[g] = file[g]
              /\ \A g \in Files : /\ file'[g].type = file[g].type
                                  /\ file'[g].obj = file[g].obj
                                  /\ file'[g].off = file[g].off
                                  /\ file'[g].writable = file[g].writable
  BY FileallocStep
<1> QED
  BY <1>1, UsedCounted DEF Kept, Calm, Still, SameKind, Fresh

LEMMA FiledupCalm ==
    ASSUME FileInv, NEW p, NEW f \in Files, file[f].ref > 0, file[f].type # "none",
           Filedup(f), UNCHANGED ff
    PROVE  Kept(p)
<1>1. /\ file'[f].ref > 0
      /\ \A g \in Files \ {f} : file'[g] = file[g]
      /\ \A g \in Files : /\ file'[g].type = file[g].type
                          /\ file'[g].obj = file[g].obj
                          /\ file'[g].off = file[g].off
                          /\ file'[g].writable = file[g].writable
  BY FiledupStep
<1> QED
  BY <1>1, UsedCounted DEF Kept, Calm, Still, SameKind, Fresh

LEMMA CallCalm ==
    ASSUME FileInv, NEW p \in Procs, Call(p)
    PROVE  Kept(p)
<1> USE DEF table, inode, local
<1>1. CASE Dup(p)
  <2>1. PICK j \in Fds, f \in Files :
              f = fd[p][j] /\ file[f].ref > 0 /\ Filedup(f) /\ UNCHANGED ff
    BY <1>1, DupStep
  <2>2. fd[p][j] # None /\ file[f].type # "none"
    BY <2>1, FdCounted, Apart
  <2> QED
    BY <2>1, <2>2, FiledupCalm
<1>2. CASE ~Dup(p)
  <2>1. UNCHANGED <<file, ff>>
    BY <1>2 DEF Call, Open, PipeCall, Fork, CloseFd, Exit, Read, Write
  <2> QED
    BY <2>1, FilesLeft
<1> QED
  BY <1>1, <1>2

LEMMA OpeningCalm ==
    ASSUME FileInv, NEW p \in Procs, Opening(p)
    PROVE  Kept(p) \/ Made(p)
<1> USE DEF table, inode, local
<1>1. CASE OpenAlloc(p)
  <2>1. CASE Filealloc(p)
    BY <1>1, <2>1, FileallocCalm DEF OpenAlloc
  <2>2. CASE UNCHANGED file
    BY <1>1, <2>2, FilesLeft DEF OpenAlloc
  <2> QED
    BY <1>1, <2>1, <2>2 DEF OpenAlloc
<1>2. ASSUME NEW mode \in Modes, OpenFd(p, mode) PROVE Kept(p) \/ Made(p)
  <2>1. CASE UNCHANGED file
    BY <1>2, <2>1, FilesLeft DEF OpenFd
  <2>2. CASE pc'[p] = "user"
    BY <1>2, <2>2 DEF Made
  <2>3. PICK s : s = "user"
    OBVIOUS
  <2>4. Goto(p, s) => pc'[p] = s
    BY Gone
  <2> QED
    BY <1>2, <2>1, <2>2, <2>3, <2>4 DEF OpenFd
<1> QED
  BY <1>1, <1>2 DEF Opening

LEMMA PipeallocCalm ==
    ASSUME FileInv, NEW p \in Procs, Pipealloc(p)
    PROVE  Kept(p) \/ Piped(p)
<1> USE DEF table, inode, local
<1>1. CASE PipeFile(p)
  <2>1. CASE Filealloc(p)
    BY <1>1, <2>1, FileallocCalm DEF PipeFile
  <2>2. CASE UNCHANGED file
    BY <1>1, <2>2, FilesLeft DEF PipeFile
  <2> QED
    BY <1>1, <2>1, <2>2 DEF PipeFile
<1>2. CASE PipeKalloc(p)
  <2>1. CASE UNCHANGED table
    BY <1>2, <2>1, FilesLeft DEF PipeKalloc
  <2>2. CASE pc'[p] = "pipe_fd"
    BY <1>2, <2>2 DEF Piped
  <2>3. PICK s : s = "pipe_fd"
    OBVIOUS
  <2>4. Goto(p, s) => pc'[p] = s
    BY Gone
  <2> QED
    BY <1>2, <2>1, <2>2, <2>3, <2>4 DEF PipeKalloc
<1>3. CASE PipeFds(p)
  BY <1>3, FilesLeft DEF PipeFds
<1> QED
  BY <1>1, <1>2, <1>3 DEF Pipealloc

LEMMA ForkingCalm ==
    ASSUME FileInv, NEW p \in Procs, Forking(p)
    PROVE  Kept(p)
<1> USE DEF table, inode, local
<1>1. CASE ForkDup(p)
  <2>1. PICK k \in Fds, f \in Files :
              f = fd[p][k] /\ file[f].ref > 0 /\ Filedup(f) /\ UNCHANGED ff
    BY <1>1, ForkDupStep
  <2>2. fd[p][k] # None /\ file[f].type # "none"
    BY <2>1, FdCounted, Apart
  <2> QED
    BY <2>1, <2>2, FiledupCalm
<1>2. CASE ForkDone(p)
  BY <1>2, FilesLeft DEF ForkDone
<1> QED
  BY <1>1, <1>2 DEF Forking

LEMMA FilecloseCalm ==
    ASSUME FileInv, NEW p \in Procs, Fileclose(p)
    PROVE  Kept(p) \/ FilecloseLast(p)
<1> USE DEF table, inode, local
<1>1. CASE FilecloseShared(p)
  <2>1. PICK f \in Files :
              /\ f = hand[p][1] /\ file[f].ref > 1 /\ file'[f].ref = file[f].ref - 1
              /\ UNCHANGED ff
              /\ \A g \in Files \ {f} : file'[g] = file[g]
              /\ \A g \in Files : /\ file'[g].type = file[g].type
                                  /\ file'[g].obj = file[g].obj
                                  /\ file'[g].off = file[g].off
                                  /\ file'[g].writable = file[g].writable
    BY <1>1, SharedStep
  <2>2. file[f].ref \in Nat /\ file'[f].ref > 0
    BY <2>1, FileFields
  <2> QED
    BY <2>1, <2>2, UsedCounted DEF Kept, Calm, Still, SameKind, Fresh
<1>2. CASE FileclosePipe(p) \/ FilecloseInode(p) \/ FilecloseNone(p)
  <2>1. UNCHANGED file /\ ff' = [ff EXCEPT ![p] = None]
    BY <1>2 DEF FileclosePipe, FilecloseInode, FilecloseNone
  <2>2. \A q \in Procs : ff'[q] \in {ff[q], None}
    BY <2>1 DEF FileInv, TableTypes
  <2> QED
    BY <2>1, <2>2, UsedCounted DEF Kept, Calm, Still, SameKind, Fresh
<1>3. CASE ExitFd(p) \/ CloseDone(p)
  BY <1>3, FilesLeft DEF ExitFd, CloseDone
<1> QED
  BY <1>1, <1>2, <1>3 DEF Fileclose

LEMMA ReadWriteCalm ==
    ASSUME FileInv, NEW p \in Procs, ReadWrite(p)
    PROVE  Kept(p)
<1> USE DEF table, inode, local
<1>1. CASE Advance(p)
  <2>1. \A g \in Files : /\ file'[g].type = file[g].type
                         /\ file'[g].obj = file[g].obj
                         /\ file'[g].ref = file[g].ref
                         /\ file'[g].writable = file[g].writable
    BY <1>1, AdvanceStep
  <2>2. UNCHANGED ff
    BY <1>1 DEF Advance
  <2> QED
    BY <2>1, <2>2, UsedCounted DEF Kept, Calm, SameKind, Fresh, ReadWrite
<1>2. CASE ~Advance(p)
  BY <1>2, FilesLeft DEF ReadWrite, Ilock, Readi, Writei, Iunlock
<1> QED
  BY <1>1, <1>2

(* The steps that make, or give up, an entry are the other ones.           *)
LEMMA CalmOrNot ==
    ASSUME FileInv, NEW p \in Procs, Call(p) \/ Running(p)
    PROVE  Kept(p) \/ Made(p) \/ Piped(p) \/ FilecloseLast(p)
BY CallCalm, OpeningCalm, PipeallocCalm, ForkingCalm, FilecloseCalm, ReadWriteCalm
   DEF Running

-----------------------------------------------------------------------------
(* What a process has in hand in the calls that make files.                *)
HandReady(p) ==
    /\ pc[p] \in {"open_fd", "pipe"} =>
          \A k \in 1..2 : k <= Len(hand[p]) => Fresh(hand[p][k])
    /\ pc[p] = "pipe_fd" => \A k \in 1..2 : file[hand[p][k]].type = "pipe"

LEMMA OthersReady ==
    ASSUME FileInv, NEW p \in Procs, OthersStay(p), HandReady(p)',
           \A q \in Procs \ {p}, k \in 1..2 :
               k <= Len(hand[q]) =>
                  /\ file[hand[q][k]].type = "pipe" => file'[hand[q][k]].type = "pipe"
                  /\ Fresh(hand[q][k]) => file'[hand[q][k]].type = "none"
                                          /\ file'[hand[q][k]].ref = 1
    PROVE  \A q \in Procs : HandReady(q)'
<1> SUFFICES ASSUME NEW q \in Procs \ {p}
             PROVE  HandReady(q)'
  OBVIOUS
<1>1. hand'[q] = hand[q] /\ (pc'[q] = pc[q] \/ pc'[q] \in Idle)
  BY DEF OthersStay
<1>2. HandReady(q) /\ (pc[q] = "pipe_fd" => Len(hand[q]) = 2)
  BY DEF FileInv, EntriesFit, HandReady, HandsFit, HandFits
<1>3. CASE pc'[q] \in Idle
  BY <1>3 DEF HandReady, Idle
<1>4. CASE pc'[q] = pc[q]
  <2>1. CASE pc[q] \in {"open_fd", "pipe"}
    BY <1>1, <1>2, <1>4, <2>1 DEF HandReady, Fresh
  <2>2. CASE pc[q] = "pipe_fd"
    <3> DEFINE n == Len(hand[q])
    <3>1. n = 2
      BY <1>2, <2>2
    <3> HIDE DEF n
    <3>2. \A k \in 1..2 : k <= n
      BY <3>1
    <3>3. \A k \in 1..2 : k <= Len(hand[q])
      BY <3>2 DEF n
    <3> QED
      BY <1>1, <1>2, <1>4, <2>2, <3>3 DEF HandReady
  <2> QED
    BY <1>4, <2>1, <2>2 DEF HandReady
<1> QED
  BY <1>1, <1>3, <1>4

LEMMA EntriesFrom ==
    ASSUME \A f \in Files : EntryFits(file[f])' /\ (file'[f].ref = 0 => file'[f].type = "none"),
           \A p \in Procs : ff'[p] # None => EntryFits(ff[p])',
           \A p \in Procs, k \in Fds : fd'[p][k] # None => file'[fd'[p][k]].type # "none",
           \A p \in Procs : HandReady(p)'
    PROVE  EntriesFit'
BY DEF EntriesFit, HandReady

LEMMA CalmEntries ==
    ASSUME FileInv, NEW p \in Procs, Kept(p), OthersStay(p), HandReady(p)',
           \A q \in Procs, k \in Fds :
               fd'[q][k] # None => fd'[q][k] \in Files /\ file[fd'[q][k]].type # "none"
    PROVE  EntriesFit'
<1>1. \A f \in Files : EntryFits(file[f])' /\ (file'[f].ref = 0 => file'[f].type = "none")
  <2> SUFFICES ASSUME NEW f \in Files
               PROVE  EntryFits(file[f])' /\ (file'[f].ref = 0 => file'[f].type = "none")
    OBVIOUS
  <2>1. SameKind(f) /\ (file[f].type # "none" => file'[f].ref > 0)
    BY DEF Kept, Calm
  <2>2. EntryFits(file[f])
    BY DEF FileInv, EntriesFit
  <2> QED
    BY <2>1, <2>2 DEF SameKind, EntryFits
<1>2. \A q \in Procs : ff'[q] # None => EntryFits(ff[q])'
  BY DEF FileInv, EntriesFit, Kept, EntryFits
<1>3. \A q \in Procs, k \in Fds : fd'[q][k] # None => file'[fd'[q][k]].type # "none"
  BY DEF Kept, Calm, SameKind
<1>4. \A q \in Procs, k \in 1..2 : k <= Len(hand[q]) => hand[q][k] \in Files
  BY HandCounted
<1>5. \A q \in Procs : HandReady(q)'
  BY <1>4, OthersReady DEF Kept, Calm, SameKind, Fresh
<1> QED
  BY <1>1, <1>2, <1>3, <1>5, EntriesFrom

(* sys_open gives its file a type when nobody else has it,                 *)
LEMMA MadeEntries ==
    ASSUME FileInv, NEW p \in Procs, Made(p), OthersStay(p)
    PROVE  EntriesFit'
<1>1. PICK f \in Files, k \in Fds, i \in Inodes :
              /\ f = hand[p][1]
              /\ fd' = [fd EXCEPT ![p][k] = f]
              /\ hand' = [hand EXCEPT ![p] = <<>>]
              /\ pc' = [pc EXCEPT ![p] = "user"]
              /\ UNCHANGED ff
              /\ \A g \in Files \ {f} : file'[g] = file[g]
              /\ file'[f].ref = 1 /\ file'[f].type = "inode"
              /\ file'[f].obj = i
              /\ \A q \in Procs, j \in Fds : fd[q][j] # f
              /\ \A q \in Procs, j \in 1..2 :
                    j <= Len(hand[q]) /\ hand[q][j] = f => q = p /\ j = 1
  <2>1. PICK mode \in Modes : OpenFd(p, mode) /\ pc'[p] = "user"
    BY DEF Made
  <2> QED
    BY <2>1, OpenFdStep
<1>2. \A g \in Files : EntryFits(file[g])' /\ (file'[g].ref = 0 => file'[g].type = "none")
  <2> SUFFICES ASSUME NEW g \in Files
               PROVE  EntryFits(file[g])' /\ (file'[g].ref = 0 => file'[g].type = "none")
    OBVIOUS
  <2>1. EntryFits(file[g]) /\ (file[g].ref = 0 => file[g].type = "none")
    BY DEF FileInv, EntriesFit
  <2>2. CASE g = f
    BY <1>1, <2>2 DEF EntryFits
  <2> QED
    BY <1>1, <2>1, <2>2 DEF EntryFits
<1>3. \A q \in Procs : ff'[q] # None => EntryFits(ff[q])'
  BY <1>1 DEF FileInv, EntriesFit, EntryFits
<1>4. \A q \in Procs, j \in Fds : fd'[q][j] # None => file'[fd'[q][j]].type # "none"
  <2> SUFFICES ASSUME NEW q \in Procs, NEW j \in Fds, fd'[q][j] # None
               PROVE  file'[fd'[q][j]].type # "none"
    OBVIOUS
  <2>1. fd'[q][j] = f \/ fd'[q][j] = fd[q][j]
    BY <1>1 DEF FileInv, TableTypes
  <2>2. CASE fd'[q][j] = fd[q][j]
    BY <1>1, <2>2, FdCounted
  <2> QED
    BY <1>1, <2>1, <2>2
<1>5. HandReady(p)'
  BY <1>1 DEF HandReady, FileInv, TableTypes
<1>6. \A q \in Procs \ {p}, j \in 1..2 :
          j <= Len(hand[q]) => file'[hand[q][j]] = file[hand[q][j]]
  BY <1>1, HandCounted
<1>7. \A q \in Procs : HandReady(q)'
  BY <1>5, <1>6, OthersReady DEF Fresh
<1> QED
  BY <1>2, <1>3, <1>4, <1>7, EntriesFrom

(* pipealloc its two files,                                                *)
LEMMA PipedEntries ==
    ASSUME FileInv, NEW p \in Procs, Piped(p), OthersStay(p)
    PROVE  EntriesFit'
<1>1. PICK f0 \in Files, f1 \in Files, i \in PipePages : PipeMade(p, f0, f1, i)
  BY PipeStep DEF Piped
<1>2. \A g \in Files : EntryFits(file[g])' /\ (file'[g].ref = 0 => file'[g].type = "none")
  <2> SUFFICES ASSUME NEW g \in Files
               PROVE  EntryFits(file[g])' /\ (file'[g].ref = 0 => file'[g].type = "none")
    OBVIOUS
  <2>1. EntryFits(file[g]) /\ (file[g].ref = 0 => file[g].type = "none")
    BY DEF FileInv, EntriesFit
  <2>2. CASE g \in {f0, f1}
    BY <1>1, <2>2 DEF EntryFits, PipeMade
  <2> QED
    BY <1>1, <2>1, <2>2 DEF EntryFits, PipeMade
<1>3. \A q \in Procs : ff'[q] # None => EntryFits(ff[q])'
  BY <1>1 DEF FileInv, EntriesFit, EntryFits, PipeMade, local
<1>4. \A q \in Procs, j \in Fds : fd'[q][j] # None => file'[fd'[q][j]].type # "none"
  <2> SUFFICES ASSUME NEW q \in Procs, NEW j \in Fds, fd'[q][j] # None
               PROVE  file'[fd'[q][j]].type # "none"
    OBVIOUS
  <2>1. fd'[q][j] = fd[q][j]
    BY <1>1 DEF PipeMade
  <2> QED
    BY <1>1, <2>1, FdCounted DEF PipeMade
<1>5. HandReady(p)'
  <2>1. pc'[p] = "pipe_fd" /\ hand'[p] = hand[p]
    BY <1>1 DEF PipeMade, local, FileInv, TableTypes
  <2>2. \A k \in 1..2 : k = 1 \/ k = 2
    OBVIOUS
  <2>3. file'[hand[p][1]].type = "pipe" /\ file'[hand[p][2]].type = "pipe"
    BY <1>1 DEF PipeMade
  <2> QED
    BY <2>1, <2>2, <2>3 DEF HandReady
<1>6. \A q \in Procs \ {p}, j \in 1..2 :
          j <= Len(hand[q]) => file'[hand[q][j]] = file[hand[q][j]]
  BY <1>1, HandCounted DEF PipeMade
<1>7. \A q \in Procs : HandReady(q)'
  BY <1>5, <1>6, OthersReady DEF Fresh
<1> QED
  BY <1>2, <1>3, <1>4, <1>7, EntriesFrom

(* and fileclose takes the type off the file when nobody has it any more.  *)
LEMMA LastEntries ==
    ASSUME FileInv, NEW p \in Procs, FilecloseLast(p), OthersStay(p)
    PROVE  EntriesFit'
<1>1. PICK f \in Files :
              /\ f = hand[p][1]
              /\ file'[f].ref = 0 /\ file'[f].type = "none"
              /\ ff' = [ff EXCEPT ![p] = file[f]]
              /\ UNCHANGED <<fd, pc>>
              /\ \A g \in Files \ {f} : file'[g] = file[g]
              /\ \A q \in Procs, j \in Fds : fd[q][j] # f
              /\ \A q \in Procs, j \in 1..2 :
                    j <= Len(hand[q]) /\ hand[q][j] = f => q = p /\ j = 1
  BY LastStep
<1>2. \A g \in Files : EntryFits(file[g])' /\ (file'[g].ref = 0 => file'[g].type = "none")
  <2> SUFFICES ASSUME NEW g \in Files
               PROVE  EntryFits(file[g])' /\ (file'[g].ref = 0 => file'[g].type = "none")
    OBVIOUS
  <2>1. EntryFits(file[g]) /\ (file[g].ref = 0 => file[g].type = "none")
    BY DEF FileInv, EntriesFit
  <2>2. CASE g = f
    BY <1>1, <2>2 DEF EntryFits
  <2> QED
    BY <1>1, <2>1, <2>2 DEF EntryFits
<1>3. \A q \in Procs : ff'[q] # None => EntryFits(ff[q])'
  <2>1. \A q \in Procs : ff'[q] = ff[q] \/ ff'[q] = file[f]
    BY <1>1 DEF FileInv, TableTypes
  <2> QED
    BY <2>1 DEF FileInv, EntriesFit, EntryFits
<1>4. \A q \in Procs, j \in Fds : fd'[q][j] # None => file'[fd'[q][j]].type # "none"
  <2> SUFFICES ASSUME NEW q \in Procs, NEW j \in Fds, fd[q][j] # None
               PROVE  file'[fd[q][j]].type # "none"
    BY <1>1
  <2> QED
    BY <1>1, FdCounted
<1>5. pc[p] \in {"close", "exit"}
  BY DEF FilecloseLast, Closing
<1>6. HandReady(p)'
  BY <1>1, <1>5 DEF HandReady
<1>7. \A q \in Procs \ {p}, j \in 1..2 :
          j <= Len(hand[q]) => file'[hand[q][j]] = file[hand[q][j]]
  BY <1>1, HandCounted
<1>8. \A q \in Procs : HandReady(q)'
  BY <1>6, <1>7, OthersReady DEF Fresh
<1> QED
  BY <1>2, <1>3, <1>4, <1>8, EntriesFrom

(* In all other steps descriptors are only moved, copied or given up.      *)
FdsLead ==
    \A q \in Procs, k \in Fds :
        fd'[q][k] # None => fd'[q][k] \in Files /\ file[fd'[q][k]].type # "none"

LEMMA FdsLeadOn ==
    ASSUME FileInv, NEW p \in Procs, Call(p) \/ Running(p), ~Made(p)
    PROVE  FdsLead
<1> USE DEF table, inode, local
<1>1. \A q \in Procs, k \in Fds :
          fd[q][k] # None => fd[q][k] \in Files /\ file[fd[q][k]].type # "none"
  BY FdCounted
<1>2. ASSUME NEW q \in Procs, NEW k \in Fds, NEW f \in Files, file[f].type # "none",
             fd' = [fd EXCEPT ![q][k] = f]
      PROVE  FdsLead
  <2>1. fd \in [Procs -> [Fds -> Files \cup {None}]]
    BY DEF FileInv, TableTypes
  <2>2. \A q1 \in Procs, k1 \in Fds : fd'[q1][k1] = fd[q1][k1] \/ fd'[q1][k1] = f
    BY <1>2, <2>1
  <2> QED
    BY <1>1, <1>2, <2>2 DEF FdsLead
<1>3. ASSUME NEW k \in Fds, fd' = [fd EXCEPT ![p][k] = None]
      PROVE  FdsLead
  <2>1. fd \in [Procs -> [Fds -> Files \cup {None}]]
    BY DEF FileInv, TableTypes
  <2>2. \A q1 \in Procs, k1 \in Fds : fd'[q1][k1] = fd[q1][k1] \/ fd'[q1][k1] = None
    BY <1>3, <2>1
  <2> QED
    BY <1>1, <1>3, <2>2 DEF FdsLead
<1>4. ASSUME UNCHANGED fd PROVE FdsLead
  BY <1>1, <1>4, Zenon DEF FdsLead
<1>5. CASE Call(p)
  <2>1. CASE Dup(p)
    <3>1. PICK j \in Fds, k \in Fds, f \in Files :
              f = fd[p][j] /\ fd' = [fd EXCEPT ![p][k] = f]
      BY <2>1, DupStep
    <3> QED
      BY <1>1, <1>2, <3>1, Apart
  <2>2. ASSUME NEW k \in Fds, CloseFd(p, k) PROVE FdsLead
    BY <1>3, <2>2 DEF CloseFd
  <2>3. CASE UNCHANGED fd
    BY <1>4, <2>3
  <2> QED
    BY <1>5, <2>1, <2>2, <2>3 DEF Call, Open, PipeCall, Fork, Exit, Read, Write
<1>6. CASE Opening(p)
  <2>1. UNCHANGED fd
    <3>1. CASE OpenAlloc(p)
      BY <3>1 DEF OpenAlloc
    <3>2. ASSUME NEW mode \in Modes, OpenFd(p, mode) PROVE UNCHANGED fd
      <4>1. PICK s : s = "user"
        OBVIOUS
      <4>2. Goto(p, s) => pc'[p] = s
        BY Gone
      <4> QED
        BY <3>2, <4>1, <4>2 DEF OpenFd, Made
    <3> QED
      BY <1>6, <3>1, <3>2 DEF Opening
  <2> QED
    BY <1>4, <2>1
<1>7. CASE PipeFds(p)
  <2>1. CASE pc'[p] = "user"
    <3>1. PICK k0 \in Fds, k1 \in Fds :
              /\ k0 # k1 /\ Len(hand[p]) = 2
              /\ fd' = [fd EXCEPT ![p][k0] = hand[p][1], ![p][k1] = hand[p][2]]
      BY <1>7, <2>1, PipeFdsStep
    <3>2. pc[p] = "pipe_fd"
      BY <1>7 DEF PipeFds
    <3>3. \A k \in 1..2 : file[hand[p][k]].type = "pipe"
      BY <3>2 DEF FileInv, EntriesFit
    <3>4. PICK f0, f1 : f0 = hand[p][1] /\ f1 = hand[p][2]
      OBVIOUS
    <3>5. f0 \in Files /\ f1 \in Files
      <4>1. 1 <= Len(hand[p]) /\ 2 <= Len(hand[p])
        BY <3>1
      <4> QED
        BY <3>4, <4>1, HandHeld
    <3>6. file[f0].type # "none" /\ file[f1].type # "none"
      BY <3>3, <3>4
    <3>7. \A q \in Procs, k \in Fds : fd'[q][k] \in {fd[q][k], f0, f1}
      BY <3>1, <3>4 DEF FileInv, TableTypes
    <3> QED
      BY <1>1, <3>5, <3>6, <3>7 DEF FdsLead
  <2>2. CASE UNCHANGED fd
    BY <1>4, <2>2
  <2>3. PICK s : s = "user"
    OBVIOUS
  <2>4. Goto(p, s) => pc'[p] = s
    BY Gone
  <2> QED
    BY <1>7, <2>1, <2>2, <2>3, <2>4 DEF PipeFds
<1>8. CASE PipeFile(p) \/ PipeKalloc(p) \/ ForkDone(p) \/ ReadWrite(p)
  BY <1>4, <1>8 DEF PipeFile, PipeKalloc, ForkDone, ReadWrite, Ilock, Readi, Writei,
     Advance, Iunlock
<1>9. CASE ForkDup(p)
  <2>1. PICK q \in Procs, k \in Fds, f \in Files :
            f = fd[p][k] /\ fd' = [fd EXCEPT ![q][k] = f]
    BY <1>9, ForkDupStep
  <2> QED
    BY <1>1, <1>2, <2>1, Apart
<1>10. CASE Fileclose(p)
  <2>1. CASE ExitFd(p)
    <3>1. PICK k \in Fds : fd' = [fd EXCEPT ![p][k] = None]
      BY <2>1 DEF ExitFd
    <3> QED
      BY <1>3, <3>1
  <2>2. CASE ~ExitFd(p)
    BY <1>4, <1>10, <2>2 DEF Fileclose, FilecloseShared, FilecloseLast, FileclosePipe,
       FilecloseInode, FilecloseNone, CloseDone
  <2> QED
    BY <2>1, <2>2
<1> QED
  BY <1>5, <1>6, <1>7, <1>8, <1>9, <1>10 DEF Running, Pipealloc, Forking

(* A new file is fresh in the hand of who made it.                         *)
LEMMA GivenReady ==
    ASSUME FileInv, NEW p \in Procs, Filealloc(p), ip'[p] = ip[p], ff'[p] = ff[p],
           Len(hand[p]) < 2,
           \/ pc[p] = "open" /\ pc'[p] = "open_fd"
           \/ pc[p] = "pipe" /\ pc'[p] = "pipe"
    PROVE  HandReady(p)'
<1>1. PICK f \in Files :
              /\ file[f].ref = 0 /\ file[f].type = "none" /\ file'[f].ref = 1
              /\ file'[f].type = "none"
              /\ hand' = [hand EXCEPT ![p] = Append(@, f)]
              /\ \A g \in Files \ {f} : file'[g] = file[g]
  BY FileallocStep
<1>2. hand'[p] = Append(hand[p], f)
  BY <1>1 DEF FileInv, TableTypes
<1>3. /\ Len(hand'[p]) = Len(hand[p]) + 1
      /\ hand'[p][Len(hand[p]) + 1] = f
      /\ Len(hand[p]) = 1 => hand'[p][1] = hand[p][1] /\ hand[p][1] # f
  BY <1>1, <1>2, HandGiven
<1>4. pc[p] = "open" => hand[p] = <<>>
  BY DEF FileInv, HandsFit, HandFits
<1>5. Len(hand[p]) = 1 => Fresh(hand[p][1]) /\ hand[p][1] \in Files
  <2> SUFFICES ASSUME Len(hand[p]) = 1
               PROVE  Fresh(hand[p][1]) /\ hand[p][1] \in Files
    OBVIOUS
  <2>1. hand[p] # <<>>
    <3>1. hand[p] = <<>> => Len(hand[p]) = 0
      BY HandHeld
    <3> QED
      BY <3>1
  <2>2. pc[p] = "pipe"
    BY <1>4, <2>1
  <2>3. 1 <= Len(hand[p])
    OBVIOUS
  <2>4. 1 \in 1..2
    OBVIOUS
  <2> QED
    BY <2>2, <2>3, <2>4, HandHeld DEF FileInv, EntriesFit
<1>6. PICK n : n = Len(hand[p])
  OBVIOUS
<1>7. n \in {0, 1}
  <2>1. Len(hand[p]) \in 0..2 /\ Len(hand[p]) # 2
    BY HandHeld
  <2> QED
    BY <1>6, <2>1
<1>8. \A k \in 1..2 :
          k <= n + 1 => file'[hand'[p][k]].type = "none" /\ file'[hand'[p][k]].ref = 1
  <2>2. CASE n = 0
    <3>1. hand'[p][1] = f
      BY <1>3, <1>6, <2>2
    <3>2. \A k \in 1..2 : k <= n + 1 => k = 1
      BY <2>2
    <3> QED
      BY <1>1, <3>1, <3>2 DEF Fresh
  <2>3. CASE n = 1
    <3>1. hand'[p][2] = f /\ hand'[p][1] = hand[p][1] /\ hand[p][1] # f
      BY <1>3, <1>6, <2>3
    <3>2. Fresh(hand[p][1]) /\ hand[p][1] \in Files
      BY <1>5, <1>6, <2>3
    <3>3. \A k \in 1..2 : k = 1 \/ k = 2
      OBVIOUS
    <3> QED
      BY <1>1, <3>1, <3>2, <3>3 DEF Fresh
  <2> QED
    BY <1>7, <2>2, <2>3
<1>9. pc'[p] # "pipe_fd"
  OBVIOUS
<1> QED
  BY <1>3, <1>6, <1>8, <1>9 DEF HandReady, Fresh

LEMMA NothingReady ==
    ASSUME NEW p, \/ pc'[p] \notin {"open_fd", "pipe", "pipe_fd"}
                  \/ pc'[p] = "pipe" /\ hand'[p] = <<>>
    PROVE  HandReady(p)'
<1>1. \A k \in 1..2 : ~(k <= 0)
  OBVIOUS
<1>2. Len(<<>>) = 0
  OBVIOUS
<1> QED
  BY <1>1, <1>2 DEF HandReady

LEMMA ReadyOn ==
    ASSUME FileInv, NEW p \in Procs, Call(p) \/ Running(p), ~Piped(p)
    PROVE  HandReady(p)'
<1> USE DEF Goto, table, inode, local
<1>1. TableTypes /\ HandFits(p)
  BY DEF FileInv, HandsFit
<1>2. CASE Call(p)
  <2>1. CASE PipeCall(p)
    <3>1. hand'[p] = <<>> /\ pc'[p] = "pipe"
      BY <1>1, <2>1 DEF PipeCall, TableTypes, HandFits
    <3> QED
      BY <3>1, NothingReady
  <2>2. CASE ~PipeCall(p)
    <3>1. /\ pc'[p] # "open_fd"
          /\ pc'[p] # "pipe"
          /\ pc'[p] # "pipe_fd"
      <4>1. CASE Dup(p)
        BY <1>1, <4>1 DEF Dup, TableTypes
      <4>2. ASSUME NEW k \in Fds, NEW n \in Sizes, Read(p, k, n) \/ Write(p, k, n)
            PROVE  pc'[p] \in {"ilock", "panic"}
        BY <1>1, <4>2 DEF Read, Write, TableTypes
      <4>3. ASSUME NEW q \in Procs, Fork(p, q) PROVE pc'[p] = "fork"
        BY <1>1, <4>3 DEF Fork, TableTypes
      <4>4. CASE Exit(p) \/ (\E i \in Inodes : Open(p, i)) \/ \E k \in Fds : CloseFd(p, k)
        BY <1>1, <4>4 DEF Open, CloseFd, Exit, TableTypes
      <4> QED
        BY <1>2, <2>2, <4>1, <4>2, <4>3, <4>4 DEF Call
    <3>2. pc'[p] \notin {"open_fd", "pipe", "pipe_fd"}
      BY <3>1
    <3> QED
      BY <3>2, NothingReady
  <2> QED
    BY <2>1, <2>2
<1>3. CASE OpenAlloc(p)
  <2>1. CASE Filealloc(p) /\ Goto(p, "open_fd") /\ UNCHANGED <<iref, ip>>
    <3>1. pc[p] = "open" /\ pc'[p] = "open_fd" /\ hand[p] = <<>>
      BY <1>1, <1>3, <2>1 DEF OpenAlloc, TableTypes, HandFits
    <3>2. Len(hand[p]) < 2
      BY <3>1
    <3> QED
      BY <1>3, <2>1, <3>1, <3>2, GivenReady DEF OpenAlloc
  <2>2. CASE GiveUp(p, "user")
    <3>1. pc'[p] = "user"
      BY <1>1, <2>2 DEF GiveUp, TableTypes
    <3> QED
      BY <3>1, NothingReady
  <2> QED
    BY <1>3, <2>1, <2>2 DEF OpenAlloc
<1>4. ASSUME NEW mode \in Modes, OpenFd(p, mode) PROVE HandReady(p)'
  <2>1. pc'[p] \in {"user", "close"}
    BY <1>1, <1>4 DEF OpenFd, GiveUp, TableTypes
  <2> QED
    BY <2>1, NothingReady
<1>5. CASE PipeFile(p)
  <2>1. CASE Filealloc(p) /\ UNCHANGED pc
    BY <1>5, <2>1, GivenReady DEF PipeFile
  <2>2. CASE Goto(p, IF hand[p] = <<>> THEN "user" ELSE "close")
    <3>1. pc'[p] \in {"user", "close"}
      BY <1>1, <2>2 DEF TableTypes
    <3> QED
      BY <3>1, NothingReady
  <2> QED
    BY <1>5, <2>1, <2>2 DEF PipeFile
<1>6. CASE PipeKalloc(p)
  <2>1. pc'[p] = "pipe_fd" \/ pc'[p] = "close"
    BY <1>1, <1>6 DEF PipeKalloc, TableTypes
  <2> QED
    BY <1>6, <2>1, NothingReady DEF Piped
<1>7. CASE PipeFds(p)
  <2>1. pc'[p] \in {"user", "close"}
    BY <1>1, <1>7 DEF PipeFds, TableTypes
  <2> QED
    BY <2>1, NothingReady
<1>8. CASE Forking(p)
  <2>1. pc'[p] \in {"panic", "fork", "user"}
    BY <1>1, <1>8 DEF Forking, ForkDup, ForkDone, TableTypes
  <2> QED
    BY <2>1, NothingReady
<1>9. CASE Fileclose(p)
  <2>1. pc[p] \in {"close", "exit"}
    BY <1>1, <1>9 DEF Fileclose, FilecloseShared, FilecloseLast, Closing, FileclosePipe,
       FilecloseInode, FilecloseNone, ExitFd, CloseDone, HandFits
  <2>2. pc'[p] \in {"close", "exit", "panic", "user", "unused"}
    BY <1>1, <1>9, <2>1 DEF Fileclose, FilecloseShared, FilecloseLast, FileclosePipe,
       FilecloseInode, FilecloseNone, ExitFd, CloseDone, TableTypes
  <2> QED
    BY <2>2, NothingReady
<1>10. CASE ReadWrite(p)
  <2>1. pc'[p] \in {"ilock", "rw", "off", "iunlock", "user"}
    BY <1>1, <1>10 DEF ReadWrite, Ilock, Readi, Writei, Advance, Iunlock, TableTypes
  <2> QED
    BY <2>1, NothingReady
<1> QED
  BY <1>2, <1>3, <1>4, <1>5, <1>6, <1>7, <1>8, <1>9, <1>10
     DEF Running, Opening, Pipealloc

LEMMA EntriesKept ==
    ASSUME FileInv, NEW p \in Procs, Call(p) \/ Running(p)
    PROVE  EntriesFit'
<1>1. OthersStay(p)
  BY OthersLeft
<1>2. CASE Made(p) \/ Piped(p) \/ FilecloseLast(p)
  BY <1>1, <1>2, MadeEntries, PipedEntries, LastEntries
<1>3. CASE Kept(p) /\ ~Made(p) /\ ~Piped(p)
  BY <1>1, <1>3, CalmEntries, FdsLeadOn, ReadyOn DEF FdsLead
<1> QED
  BY <1>2, <1>3, CalmOrNot

-----------------------------------------------------------------------------
(* Who owns the ends of pipes: an entry, until fileclose has taken it out  *)
(* of the table.                                                           *)
Ends == {"read", "write"}

Owns(f, g, end) == file[f].ref > 0 /\ Leads(file[f], g, end)

Closes(p, g, end) == ff[p] # None /\ Leads(ff[p], g, end)

LEMMA OwnersAre ==
    ASSUME NEW g, NEW end
    PROVE  /\ Owners(g, end) =
                 {f \in Files : Owns(f, g, end)} \cup {p \in Procs : Closes(p, g, end)}
           /\ Owners(g, end)' =
                 {f \in Files : Owns(f, g, end)'} \cup {p \in Procs : Closes(p, g, end)'}
BY DEF Owners, Owns, Closes

LEMMA SameOwners ==
    ASSUME NEW g, NEW end,
           \A f \in Files : Owns(f, g, end)' <=> Owns(f, g, end),
           \A p \in Procs : Closes(p, g, end)' <=> Closes(p, g, end)
    PROVE  Owners(g, end)' = Owners(g, end)
BY OwnersAre

LEMMA OwnersStay ==
    ASSUME FileInv, UNCHANGED <<pipe, kept>>,
           \A g \in PipePages, end \in Ends :
               /\ \A f \in Files : Owns(f, g, end)' <=> Owns(f, g, end)
               /\ \A p \in Procs : Closes(p, g, end)' <=> Closes(p, g, end)
    PROVE  EndsFit'
<1>1. \A g \in PipePages, end \in Ends : Owners(g, end)' = Owners(g, end)
  BY SameOwners
<1> QED
  BY <1>1 DEF FileInv, EndsFit, Ends

LEMMA CalmOwns ==
    ASSUME FileInv, Calm, NEW f \in Files, NEW g, NEW end
    PROVE  Owns(f, g, end)' <=> Owns(f, g, end)
<1>1. SameKind(f) /\ (file[f].type # "none" => file[f].ref > 0 /\ file'[f].ref > 0)
  BY UsedCounted DEF Calm
<1> QED
  BY <1>1 DEF SameKind, Owns, Leads

LEMMA NotYetOwner ==
    ASSUME FileInv, NEW f \in Files, file[f].type = "none", NEW g, NEW end
    PROVE  ~Owns(f, g, end)
BY DEF Owns, Leads

LEMMA MadeEnds ==
    ASSUME FileInv, NEW p \in Procs, Made(p)
    PROVE  EndsFit'
<1>1. PICK f \in Files :
              /\ Fresh(f)
              /\ UNCHANGED <<pipe, kept, ff>>
              /\ \A h \in Files \ {f} : file'[h] = file[h]
              /\ file'[f].type = "inode"
  <2>1. PICK mode \in Modes : OpenFd(p, mode) /\ pc'[p] = "user"
    BY DEF Made
  <2> QED
    BY <2>1, OpenFdStep
<1>2. ASSUME NEW g \in PipePages, NEW end \in Ends
      PROVE  /\ \A h \in Files : Owns(h, g, end)' <=> Owns(h, g, end)
             /\ \A q \in Procs : Closes(q, g, end)' <=> Closes(q, g, end)
  BY <1>1 DEF Fresh, Owns, Leads, Closes
<1> QED
  BY <1>1, <1>2, OwnersStay

(* fileclose is the owner of what it has taken out of the table,           *)
LEMMA LastEnds ==
    ASSUME FileInv, NEW p \in Procs, FilecloseLast(p)
    PROVE  EndsFit'
<1>1. PICK f \in Files :
              /\ file[f].ref = 1 /\ file'[f].type = "none"
              /\ ff[p] = None /\ ff' = [ff EXCEPT ![p] = file[f]] /\ file[f] # None
              /\ UNCHANGED <<pipe, kept>>
              /\ \A h \in Files \ {f} : file'[h] = file[h]
  BY LastStep
<1>2. ff'[p] = file[f] /\ \A q \in Procs \ {p} : ff'[q] = ff[q]
  BY <1>1 DEF FileInv, TableTypes
<1>3. f \notin Procs /\ p \notin Files
  BY FileTableAssumption
<1> SUFFICES ASSUME NEW g \in PipePages
             PROVE  /\ \A end \in {"read", "write"} :
                         /\ end \in pipe[g] <=> Owners(g, end)' # {}
                         /\ \A x, y \in Owners(g, end)' : x = y
                    /\ g \in kept <=> pipe[g] # {}
  BY <1>1 DEF EndsFit
<1>4. g \in kept <=> pipe[g] # {}
  BY DEF FileInv, EndsFit
<1> SUFFICES ASSUME NEW end \in {"read", "write"}
             PROVE  /\ end \in pipe[g] <=> Owners(g, end)' # {}
                    /\ \A x, y \in Owners(g, end)' : x = y
  BY <1>4
<1>5. (end \in pipe[g] <=> Owners(g, end) # {}) /\ \A x, y \in Owners(g, end) : x = y
  BY DEF FileInv, EndsFit
<1>6. /\ Owns(f, g, end) <=> Leads(file[f], g, end)
      /\ ~Closes(p, g, end)
      /\ ~Owns(f, g, end)'
      /\ Closes(p, g, end)' <=> Leads(file[f], g, end)
      /\ \A h \in Files \ {f} : Owns(h, g, end)' <=> Owns(h, g, end)
      /\ \A q \in Procs \ {p} : Closes(q, g, end)' <=> Closes(q, g, end)
  <2>1. Owns(f, g, end) <=> Leads(file[f], g, end)
    BY <1>1 DEF Owns
  <2>2. ~Closes(p, g, end)
    BY <1>1 DEF Closes
  <2>3. ~Owns(f, g, end)'
    BY <1>1 DEF Owns, Leads
  <2>4. Closes(p, g, end)' <=> Leads(file[f], g, end)
    BY <1>1, <1>2 DEF Closes, Leads
  <2>5. \A h \in Files \ {f} : Owns(h, g, end)' <=> Owns(h, g, end)
    BY <1>1 DEF Owns, Leads
  <2>6. \A q \in Procs \ {p} : Closes(q, g, end)' <=> Closes(q, g, end)
    BY <1>2 DEF Closes, Leads
  <2> QED
    BY <2>1, <2>2, <2>3, <2>4, <2>5, <2>6
<1>7. CASE Leads(file[f], g, end)
  <2>1. f \in Owners(g, end)
    BY <1>6, <1>7, OwnersAre
  <2>2. Owners(g, end) = {f}
    BY <1>5, <2>1
  <2>3. Owners(g, end)' = {p}
    BY <1>3, <1>6, <1>7, <2>2, OwnersAre
  <2> QED
    BY <1>5, <2>2, <2>3
<1>8. CASE ~Leads(file[f], g, end)
  <2>1. /\ \A h \in Files : Owns(h, g, end)' <=> Owns(h, g, end)
        /\ \A q \in Procs : Closes(q, g, end)' <=> Closes(q, g, end)
    BY <1>6, <1>8
  <2>2. Owners(g, end)' = Owners(g, end)
    BY <2>1, SameOwners
  <2> QED
    BY <1>5, <2>2
<1> QED
  BY <1>7, <1>8

(* until it closes the end.                                                *)
LEMMA PipecloseEnds ==
    ASSUME FileInv, NEW p \in Procs, FileclosePipe(p)
    PROVE  EndsFit'
<1>1. PICK e \in Entries : e = ff[p]
  BY DEF FileclosePipe, FileInv, TableTypes
<1>2. e.type = "pipe" /\ e.obj \in PipePages /\ e # None
  BY <1>1 DEF FileclosePipe, FileInv, EntriesFit, EntryFits
<1>3. PICK i \in PipePages : i = e.obj
  BY <1>2
<1>4. PICK done \in {"read", "write"} : done = EndOf(e)
  BY DEF EndOf
<1>5. e.writable <=> done = "write"
  BY <1>4 DEF EndOf
<1>6. /\ pipe' = [pipe EXCEPT ![i] = @ \ {done}]
      /\ kept' = IF pipe[i] \subseteq {done} THEN kept \ {i} ELSE kept
      /\ ff' = [ff EXCEPT ![p] = None]
      /\ UNCHANGED file
  BY <1>1, <1>3, <1>4 DEF FileclosePipe
<1>7. p \notin Files
  BY FileTableAssumption
<1>8. \A g \in PipePages, end \in Ends :
         /\ Closes(p, g, end) <=> g = i /\ end = done
         /\ ~Closes(p, g, end)'
         /\ \A h \in Files : Owns(h, g, end)' <=> Owns(h, g, end)
         /\ \A q \in Procs \ {p} : Closes(q, g, end)' <=> Closes(q, g, end)
  <2> SUFFICES ASSUME NEW g \in PipePages, NEW end \in Ends
               PROVE  /\ Closes(p, g, end) <=> g = i /\ end = done
                      /\ ~Closes(p, g, end)'
                      /\ \A h \in Files : Owns(h, g, end)' <=> Owns(h, g, end)
                      /\ \A q \in Procs \ {p} : Closes(q, g, end)' <=> Closes(q, g, end)
    OBVIOUS
  <2>1. Closes(p, g, end) <=> g = i /\ end = done
    BY <1>1, <1>2, <1>3, <1>5 DEF Closes, Leads, Ends
  <2>2. ff'[p] = None /\ \A q \in Procs \ {p} : ff'[q] = ff[q]
    BY <1>6 DEF FileInv, TableTypes
  <2>3. ~Closes(p, g, end)'
    BY <2>2 DEF Closes
  <2>4. \A q \in Procs \ {p} : Closes(q, g, end)' <=> Closes(q, g, end)
    BY <2>2 DEF Closes, Leads
  <2>5. \A h \in Files : Owns(h, g, end)' <=> Owns(h, g, end)
    BY <1>6 DEF Owns, Leads
  <2> QED
    BY <2>1, <2>3, <2>4, <2>5
<1>9. /\ Owners(i, done) = {p} /\ Owners(i, done)' = {}
      /\ \A g \in PipePages, end \in Ends :
            g # i \/ end # done => Owners(g, end)' = Owners(g, end)
  <2>1. p \in Owners(i, done)
    BY <1>8, OwnersAre DEF Ends
  <2>2. \A x, y \in Owners(i, done) : x = y
    BY DEF FileInv, EndsFit
  <2>3. Owners(i, done) = {p}
    BY <2>1, <2>2
  <2>4. Owners(i, done)' = {}
    BY <1>7, <1>8, <2>3, OwnersAre DEF Ends
  <2>5. ASSUME NEW g \in PipePages, NEW end \in Ends, g # i \/ end # done
        PROVE  Owners(g, end)' = Owners(g, end)
    <3>1. ~Closes(p, g, end) /\ ~Closes(p, g, end)'
      BY <1>8, <2>5
    <3>2. /\ \A h \in Files : Owns(h, g, end)' <=> Owns(h, g, end)
          /\ \A q \in Procs : Closes(q, g, end)' <=> Closes(q, g, end)
      BY <1>8, <3>1
    <3> QED
      BY <3>2, OwnersAre
  <2> QED
    BY <2>3, <2>4, <2>5
<1>10. pipe'[i] = pipe[i] \ {done} /\ \A g \in PipePages \ {i} : pipe'[g] = pipe[g]
  BY <1>6 DEF FileInv, TableTypes
<1>11. done \in pipe[i] /\ i \in kept
  BY <1>9 DEF FileInv, EndsFit
<1> SUFFICES ASSUME NEW g \in PipePages
             PROVE  /\ \A end \in {"read", "write"} :
                         /\ end \in pipe'[g] <=> Owners(g, end)' # {}
                         /\ \A x, y \in Owners(g, end)' : x = y
                    /\ g \in kept' <=> pipe'[g] # {}
  BY DEF EndsFit
<1>12. /\ \A end \in {"read", "write"} : /\ end \in pipe[g] <=> Owners(g, end) # {}
                                         /\ \A x, y \in Owners(g, end) : x = y
       /\ g \in kept <=> pipe[g] # {}
  BY DEF FileInv, EndsFit
<1>13. ASSUME NEW end \in {"read", "write"}
       PROVE  /\ end \in pipe'[g] <=> Owners(g, end)' # {}
              /\ \A x, y \in Owners(g, end)' : x = y
  <2>1. CASE g = i /\ end = done
    BY <1>9, <1>10, <2>1
  <2>2. CASE g # i \/ end # done
    <3>1. Owners(g, end)' = Owners(g, end)
      BY <1>9, <2>2 DEF Ends
    <3>2. end \in pipe'[g] <=> end \in pipe[g]
      BY <1>10, <2>2
    <3> QED
      BY <1>12, <3>1, <3>2
  <2> QED
    BY <2>1, <2>2
<1>14. g \in kept' <=> pipe'[g] # {}
  <2>1. CASE g # i
    BY <1>6, <1>10, <1>12, <2>1
  <2>2. CASE g = i
    BY <1>6, <1>10, <1>11, <2>2
  <2> QED
    BY <2>1, <2>2
<1> QED
  BY <1>13, <1>14

(* pipealloc makes an owner of each end of a pipe that nobody had open,    *)
LEMMA PipedEnds ==
    ASSUME FileInv, NEW p \in Procs, Piped(p)
    PROVE  EndsFit'
<1> USE DEF local
<1>1. PICK f0 \in Files, f1 \in Files, i \in PipePages : PipeMade(p, f0, f1, i)
  BY PipeStep DEF Piped
<1>2. /\ f0 # f1 /\ Fresh(f0) /\ Fresh(f1)
      /\ i \notin kept /\ kept' = kept \cup {i}
      /\ pipe' = [pipe EXCEPT ![i] = {"read", "write"}]
      /\ UNCHANGED ff
      /\ \A h \in Files \ {f0, f1} : file'[h] = file[h]
      /\ file'[f0].ref = 1 /\ file'[f0].type = "pipe" /\ file'[f0].obj = i
      /\ ~file'[f0].writable
      /\ file'[f1].ref = 1 /\ file'[f1].type = "pipe" /\ file'[f1].obj = i
      /\ file'[f1].writable
  BY <1>1 DEF PipeMade
<1>3. \A g \in PipePages, end \in Ends :
         /\ Owns(f0, g, end)' <=> g = i /\ end = "read"
         /\ Owns(f1, g, end)' <=> g = i /\ end = "write"
         /\ ~Owns(f0, g, end) /\ ~Owns(f1, g, end)
         /\ \A h \in Files \ {f0, f1} : Owns(h, g, end)' <=> Owns(h, g, end)
         /\ \A q \in Procs : Closes(q, g, end)' <=> Closes(q, g, end)
  <2> SUFFICES ASSUME NEW g \in PipePages, NEW end \in Ends
               PROVE  /\ Owns(f0, g, end)' <=> g = i /\ end = "read"
                      /\ Owns(f1, g, end)' <=> g = i /\ end = "write"
                      /\ ~Owns(f0, g, end) /\ ~Owns(f1, g, end)
                      /\ \A h \in Files \ {f0, f1} : Owns(h, g, end)' <=> Owns(h, g, end)
                      /\ \A q \in Procs : Closes(q, g, end)' <=> Closes(q, g, end)
    OBVIOUS
  <2>1. Owns(f0, g, end)' <=> g = i /\ end = "read"
    BY <1>2 DEF Owns, Leads, Ends
  <2>2. Owns(f1, g, end)' <=> g = i /\ end = "write"
    BY <1>2 DEF Owns, Leads, Ends
  <2>3. ~Owns(f0, g, end) /\ ~Owns(f1, g, end)
    BY <1>2, NotYetOwner DEF Fresh
  <2>4. \A h \in Files \ {f0, f1} : Owns(h, g, end)' <=> Owns(h, g, end)
    BY <1>2 DEF Owns, Leads
  <2>5. \A q \in Procs : Closes(q, g, end)' <=> Closes(q, g, end)
    BY <1>2 DEF Closes, Leads
  <2> QED
    BY <2>1, <2>2, <2>3, <2>4, <2>5
<1>4. pipe'[i] = {"read", "write"} /\ \A g \in PipePages \ {i} : pipe'[g] = pipe[g]
  BY <1>2 DEF FileInv, TableTypes
<1>5. \A end \in Ends : Owners(i, end) = {}
  BY <1>2 DEF FileInv, EndsFit, Ends
<1>6. Owners(i, "read")' = {f0} /\ Owners(i, "write")' = {f1}
  <2>1. \A end \in Ends :
            /\ \A h \in Files : ~Owns(h, i, end)
            /\ \A q \in Procs : ~Closes(q, i, end)
    BY <1>5, OwnersAre
  <2>2. \A end \in Ends :
            /\ \A h \in Files : Owns(h, i, end)' <=> h = IF end = "read" THEN f0 ELSE f1
            /\ \A q \in Procs : ~Closes(q, i, end)'
    BY <1>2, <1>3, <2>1 DEF Ends
  <2> QED
    BY <2>2, OwnersAre DEF Ends
<1>7. \A g \in PipePages \ {i}, end \in Ends : Owners(g, end)' = Owners(g, end)
  <2> SUFFICES ASSUME NEW g \in PipePages \ {i}, NEW end \in Ends
               PROVE  Owners(g, end)' = Owners(g, end)
    OBVIOUS
  <2>1. \A h \in Files : Owns(h, g, end)' <=> Owns(h, g, end)
    BY <1>3
  <2>2. \A q \in Procs : Closes(q, g, end)' <=> Closes(q, g, end)
    BY <1>3
  <2> QED
    BY <2>1, <2>2, SameOwners
<1> SUFFICES ASSUME NEW g \in PipePages
             PROVE  /\ \A end \in {"read", "write"} :
                         /\ end \in pipe'[g] <=> Owners(g, end)' # {}
                         /\ \A x, y \in Owners(g, end)' : x = y
                    /\ g \in kept' <=> pipe'[g] # {}
  BY DEF EndsFit
<1>8. CASE g = i
  <2>1. \A end \in {"read", "write"} : end \in pipe'[g] /\ g \in kept'
    BY <1>2, <1>4, <1>8
  <2>2. \A end \in {"read", "write"} :
            Owners(g, end)' # {} /\ \A x, y \in Owners(g, end)' : x = y
    <3>1. Owners(g, "read")' = {f0} /\ Owners(g, "write")' = {f1}
      BY <1>6, <1>8
    <3> QED
      BY <3>1
  <2> QED
    BY <2>1, <2>2
<1>9. CASE g # i
  <2>1. /\ \A end \in {"read", "write"} : /\ end \in pipe[g] <=> Owners(g, end) # {}
                                          /\ \A x, y \in Owners(g, end) : x = y
        /\ g \in kept <=> pipe[g] # {}
    BY DEF FileInv, EndsFit
  <2>2. pipe'[g] = pipe[g] /\ (g \in kept' <=> g \in kept)
    BY <1>2, <1>4, <1>9
  <2>3. \A end \in {"read", "write"} : Owners(g, end)' = Owners(g, end)
    BY <1>7, <1>9 DEF Ends
  <2> QED
    BY <2>1, <2>2, <2>3
<1> QED
  BY <1>8, <1>9

(* and all other steps leave the owners what they are.                     *)
LEMMA EndsKept ==
    ASSUME FileInv, NEW p \in Procs, Call(p) \/ Running(p)
    PROVE  EndsFit'
<1> USE DEF table, inode, local
<1>1. CASE Made(p) \/ Piped(p) \/ FilecloseLast(p) \/ FileclosePipe(p)
  BY <1>1, MadeEnds, PipedEnds, LastEnds, PipecloseEnds
<1>2. CASE Calm /\ UNCHANGED <<pipe, kept>> /\ \A g \in PipePages, end \in Ends, q \in Procs :
                                                   Closes(q, g, end)' <=> Closes(q, g, end)
  BY <1>2, CalmOwns, OwnersStay
<1>3. ASSUME Calm, UNCHANGED <<pipe, kept, ff>> PROVE EndsFit'
  BY <1>2, <1>3 DEF Closes, Leads
<1>4. CASE Kept(p) /\ ~Made(p) /\ ~Piped(p) /\ ~FilecloseLast(p) /\ ~FileclosePipe(p)
  <2>1. Calm
    BY <1>4 DEF Kept
  <2>2. CASE FilecloseInode(p) \/ FilecloseNone(p)
    <3>1. /\ ff[p] # None /\ ff[p].type # "pipe" /\ ff' = [ff EXCEPT ![p] = None]
          /\ UNCHANGED <<pipe, kept>>
      BY <2>2 DEF FilecloseInode, FilecloseNone
    <3>2. ff'[p] = None /\ \A q \in Procs \ {p} : ff'[q] = ff[q]
      BY <3>1 DEF FileInv, TableTypes
    <3>3. \A g \in PipePages, end \in Ends, q \in Procs :
              Closes(q, g, end)' <=> Closes(q, g, end)
      BY <3>1, <3>2 DEF Closes, Leads
    <3> QED
      BY <1>2, <2>1, <3>1, <3>3
  <2>3. CASE PipeKalloc(p)
    <3>1. PICK s : s = "pipe_fd"
      OBVIOUS
    <3>2. Goto(p, s) => pc'[p] = s
      BY Gone
    <3>3. UNCHANGED <<pipe, kept, ff>>
      BY <1>4, <2>3, <3>1, <3>2 DEF PipeKalloc, Piped
    <3> QED
      BY <1>3, <2>1, <3>3
  <2>4. CASE ~PipeKalloc(p) /\ ~FilecloseInode(p) /\ ~FilecloseNone(p)
    <3>1. UNCHANGED <<pipe, kept, ff>>
      BY <1>4, <2>4 DEF Call, Open, PipeCall, Dup, Fork, CloseFd, Exit, Read, Write, Running,
         Opening, OpenAlloc, OpenFd, Pipealloc, PipeFile, PipeFds, Forking, ForkDup, ForkDone,
         Fileclose, FilecloseShared, ExitFd, CloseDone, ReadWrite, Ilock, Readi, Writei,
         Advance, Iunlock
    <3> QED
      BY <1>3, <2>1, <3>1
  <2> QED
    BY <2>2, <2>3, <2>4
<1> QED
  BY <1>1, <1>4, CalmOrNot

-----------------------------------------------------------------------------
(* Reading and writing: what a process on its way through fileread or      *)
(* filewrite relies on.                                                    *)
Busy == Holding \cup {"ilock"}

IoInv == (\A p \in Procs : IoFits(p)) /\ LocksOwned /\ OffsetsFit

SameFile(f) ==
    /\ file'[f].type = "inode" /\ file'[f].obj = file[f].obj
    /\ file'[f].off = file[f].off /\ moved'[f] = moved[f]

FileAway(f) ==
    /\ file'[f].off \in {file[f].off, 0}
    /\ file'[f].type = "inode" =>
          \/ file[f].type = "inode" /\ SameFile(f)
          \/ file'[f].off = 0 /\ moved'[f] = 0 /\ file'[f].obj \in Inodes
    /\ (\E q \in Procs, k \in Fds : fd[q][k] = f) /\ file[f].type = "inode" => SameFile(f)

Away ==
    /\ UNCHANGED <<ilock, size, io>>
    /\ \A q \in Procs : IF pc[q] \in Busy THEN pc'[q] = pc[q] /\ fd'[q] = fd[q]
                        ELSE pc'[q] \notin Busy
    /\ \A f \in Files : FileAway(f)

LEMMA BusyFile ==
    ASSUME FileInv, NEW p \in Procs, pc[p] \in Busy
    PROVE  /\ io[p].f \in Files /\ file[io[p].f].type = "inode"
           /\ \E k \in Fds : fd[p][k] = io[p].f /\ fd[p][k] # None
           /\ io[p].op # "none"
           /\ Ip(p) = file[io[p].f].obj /\ Ip(p) \in Inodes
BY IoFile DEF FileInv, IoFits, Busy, Ip

LEMMA AwayKeeps ==
    ASSUME FileInv, Away
    PROVE  IoInv'
<1>1. \A q \in Procs : pc'[q] \in Busy => pc[q] \in Busy /\ pc'[q] = pc[q]
  BY DEF Away
<1>2. ASSUME NEW q \in Procs, pc[q] \in Busy
      PROVE  io'[q] = io[q] /\ SameFile(io[q].f) /\ Ip(q)' = Ip(q) /\ fd'[q] = fd[q]
  <2>1. SameFile(io[q].f)
    BY <1>2, BusyFile DEF Away, FileAway
  <2> QED
    BY <1>2, <2>1 DEF Away, Ip, SameFile
<1>3. \A q \in Procs : IoFits(q)'
  <2> SUFFICES ASSUME NEW q \in Procs, pc'[q] \in Busy
               PROVE  IoFits(q)'
    BY DEF IoFits, Busy
  <2>1. pc[q] \in Busy
    BY <1>1
  <2>2. io'[q] = io[q] /\ fd'[q] = fd[q] /\ file'[io[q].f].type = "inode"
    BY <1>2, <2>1 DEF SameFile
  <2> QED
    BY <2>1, <2>2, BusyFile DEF IoFits
<1>4. LocksOwned'
  <2> SUFFICES ASSUME NEW q \in Procs, NEW i \in Inodes
               PROVE  ilock'[i] = q <=> pc'[q] \in Holding /\ Ip(q)' = i
    BY DEF LocksOwned
  <2>1. ilock'[i] = ilock[i] /\ (ilock[i] = q <=> pc[q] \in Holding /\ Ip(q) = i)
    BY DEF Away, FileInv, LocksOwned
  <2>2. CASE pc[q] \in Busy
    BY <1>2, <2>1, <2>2 DEF Away
  <2>3. CASE pc[q] \notin Busy
    BY <1>1, <2>1, <2>3 DEF Busy
  <2> QED
    BY <2>2, <2>3
<1>5. OffsetsFit'
  <2>1. ASSUME NEW f \in Files
        PROVE  /\ file'[f].off <= MaxSize
               /\ file'[f].type = "inode" =>
                     /\ file'[f].off <= size'[file'[f].obj]
                     /\ \/ moved'[f] = file'[f].off
                        \/ \E q \in Procs : pc'[q] = "off" /\ io'[q].f = f
    <3>1. /\ file[f].off <= MaxSize
          /\ file[f].type = "inode" =>
                /\ file[f].off <= size[file[f].obj]
                /\ \/ moved[f] = file[f].off
                   \/ \E q \in Procs : pc[q] = "off" /\ io[q].f = f
      BY DEF FileInv, OffsetsFit
    <3>2. FileAway(f) /\ UNCHANGED <<io, size>>
      BY DEF Away
    <3>3. \A i \in Inodes : 0 <= size[i]
      BY Limits DEF FileInv, TableTypes
    <3>4. file'[f].off <= MaxSize
      BY <3>1, <3>2, Limits DEF FileAway
    <3>5. ASSUME file[f].type = "inode", SameFile(f)
          PROVE  /\ file'[f].off <= size'[file'[f].obj]
                 /\ \/ moved'[f] = file'[f].off
                    \/ \E q \in Procs : pc'[q] = "off" /\ io'[q].f = f
      <4>1. \A q \in Procs : pc[q] = "off" => pc'[q] = "off"
        BY DEF Away, Busy, Holding
      <4> QED
        BY <3>1, <3>2, <3>5, <4>1 DEF SameFile
    <3> QED
      BY <3>2, <3>3, <3>4, <3>5 DEF FileAway
  <2>2. ASSUME NEW q \in Procs, pc'[q] = "off"
        PROVE  /\ moved'[io'[q].f] = file'[io'[q].f].off + Done(q)'
               /\ moved'[io'[q].f] <= size'[Ip(q)']
    <3>1. pc[q] = "off" /\ pc[q] \in Busy
      BY <1>1, <2>2 DEF Busy, Holding
    <3>2. /\ moved[io[q].f] = file[io[q].f].off + Done(q)
          /\ moved[io[q].f] <= size[Ip(q)]
      BY <3>1 DEF FileInv, OffsetsFit
    <3>3. UNCHANGED size
      BY DEF Away
    <3> QED
      BY <1>2, <3>1, <3>2, <3>3 DEF SameFile, Done
  <2> QED
    BY <2>1, <2>2 DEF OffsetsFit
<1> QED
  BY <1>3, <1>4, <1>5 DEF IoInv

Starts(p) == \E k \in Fds, n \in Sizes : Read(p, k, n) \/ Write(p, k, n)

(* Everybody else's steps keep away from what is being read or written.    *)
LEMMA KeptAway ==
    ASSUME FileInv, NEW p \in Procs, Kept(p), ~ReadWrite(p), UNCHANGED moved,
           NEW f \in Files
    PROVE  FileAway(f)
BY DEF Kept, Calm, Still, SameKind, SameFile, FileAway

LEMMA MadeAway ==
    ASSUME FileInv, NEW p \in Procs, Made(p), NEW g \in Files
    PROVE  FileAway(g)
<1>1. PICK f \in Files, i \in Inodes :
              /\ Fresh(f) /\ moved' = [moved EXCEPT ![f] = 0]
              /\ \A h \in Files \ {f} : file'[h] = file[h]
              /\ file'[f].type = "inode" /\ file'[f].obj = i /\ file'[f].off = 0
  <2>1. PICK mode \in Modes : OpenFd(p, mode) /\ pc'[p] = "user"
    BY DEF Made
  <2> QED
    BY <2>1, OpenFdStep
<1>2. moved'[f] = 0 /\ \A h \in Files \ {f} : moved'[h] = moved[h]
  BY <1>1 DEF FileInv, TableTypes
<1>3. CASE g = f
  BY <1>1, <1>2, <1>3 DEF FileAway, Fresh
<1>4. CASE g # f
  <2>1. file'[g] = file[g] /\ moved'[g] = moved[g]
    BY <1>1, <1>2, <1>4
  <2> QED
    BY <2>1 DEF FileAway, SameFile
<1> QED
  BY <1>3, <1>4

LEMMA PipedAway ==
    ASSUME FileInv, NEW p \in Procs, Piped(p), NEW g \in Files
    PROVE  FileAway(g)
<1>1. PICK f0 \in Files, f1 \in Files, i \in PipePages : PipeMade(p, f0, f1, i)
  BY PipeStep DEF Piped
<1>2. /\ UNCHANGED moved /\ Fresh(f0) /\ Fresh(f1)
      /\ \A h \in Files \ {f0, f1} : file'[h] = file[h]
      /\ file'[f0].type = "pipe" /\ file'[f0].off = file[f0].off
      /\ file'[f1].type = "pipe" /\ file'[f1].off = file[f1].off
  BY <1>1 DEF PipeMade
<1>3. CASE g \in {f0, f1}
  BY <1>2, <1>3 DEF FileAway, Fresh
<1>4. CASE g \notin {f0, f1}
  BY <1>2, <1>4 DEF FileAway, SameFile
<1> QED
  BY <1>3, <1>4

LEMMA LastAway ==
    ASSUME FileInv, NEW p \in Procs, FilecloseLast(p), NEW g \in Files
    PROVE  FileAway(g)
<1>1. PICK f \in Files :
              /\ file'[f].type = "none" /\ file'[f].off = file[f].off
              /\ UNCHANGED moved
              /\ \A h \in Files \ {f} : file'[h] = file[h]
              /\ \A q \in Procs, j \in Fds : fd[q][j] # f
  BY LastStep
<1>2. CASE g = f
  BY <1>1, <1>2 DEF FileAway
<1>3. CASE g # f
  BY <1>1, <1>3 DEF FileAway, SameFile
<1> QED
  BY <1>2, <1>3

LEMMA FilesAway ==
    ASSUME FileInv, NEW p \in Procs, Call(p) \/ Running(p), ~ReadWrite(p), NEW f \in Files
    PROVE  FileAway(f)
<1> USE DEF table, inode, local
<1>1. CASE Made(p) \/ Piped(p) \/ FilecloseLast(p)
  BY <1>1, MadeAway, PipedAway, LastAway
<1>2. CASE Kept(p) /\ ~Made(p)
  <2>1. ASSUME NEW mode \in Modes, OpenFd(p, mode) PROVE UNCHANGED moved
    <3>1. PICK s : s = "user"
      OBVIOUS
    <3>2. Goto(p, s) => pc'[p] = s
      BY Gone
    <3> QED
      BY <1>2, <2>1, <3>1, <3>2 DEF OpenFd, Made
  <2>2. UNCHANGED moved
    BY <2>1 DEF Call, Open, PipeCall, Dup, Fork, CloseFd, Exit, Read, Write, Running,
       Opening, OpenAlloc, Pipealloc, PipeFile, PipeKalloc, PipeFds, Forking, ForkDup,
       ForkDone, Fileclose, FilecloseShared, FilecloseLast, FileclosePipe, FilecloseInode,
       FilecloseNone, ExitFd, CloseDone
  <2> QED
    BY <1>2, <2>2, KeptAway
<1> QED
  BY <1>1, <1>2, CalmOrNot

LEMMA AwayStep ==
    ASSUME FileInv, NEW p \in Procs, Call(p) \/ Running(p), ~ReadWrite(p), ~Starts(p)
    PROVE  Away
<1> USE DEF Goto, table, inode, local
<1>1. TableTypes /\ HandFits(p)
  BY Zenon DEF FileInv, HandsFit
<1>2. UNCHANGED <<ilock, size, io>>
  BY DEF Starts, Call, Open, PipeCall, Dup, Fork, CloseFd, Exit, Running,
     Opening, OpenAlloc, OpenFd, GiveUp, Pipealloc, PipeFile, PipeKalloc, PipeFds, Forking,
     ForkDup, ForkDone, Fileclose, FilecloseShared, FilecloseLast, FileclosePipe,
     FilecloseInode, FilecloseNone, ExitFd, CloseDone
<1>3. pc[p] \notin Busy
  BY <1>1 DEF Busy, Holding, Starts, Call, Open, PipeCall, Dup, Fork, CloseFd, Exit, Running,
     Opening, OpenAlloc, OpenFd, Pipealloc, PipeFile, PipeKalloc, PipeFds, Forking,
     ForkDup, ForkDone, Fileclose, FilecloseShared, FilecloseLast, Closing, FileclosePipe,
     FilecloseInode, FilecloseNone, ExitFd, CloseDone, HandFits
<1>4. UNCHANGED pc \/ (\E s : s \notin Busy /\ pc' = [pc EXCEPT ![p] = s])
      \/ (\E q \in Procs : Fork(p, q)) \/ ForkDone(p)
  BY DEF Busy, Holding, Starts, Call, Open, PipeCall, Dup, CloseFd, Exit, Running,
     Opening, OpenAlloc, OpenFd, GiveUp, Pipealloc, PipeFile, PipeKalloc, PipeFds, Forking,
     ForkDup, Fileclose, FilecloseShared, FilecloseLast, FileclosePipe,
     FilecloseInode, FilecloseNone, ExitFd, CloseDone
<1>5. pc'[p] \notin Busy
  <2>1. CASE UNCHANGED pc \/ \E s : s \notin Busy /\ pc' = [pc EXCEPT ![p] = s]
    BY <1>1, <1>3, <2>1 DEF TableTypes
  <2>2. CASE (\E q \in Procs : Fork(p, q)) \/ ForkDone(p)
    BY <1>1, <2>2 DEF Fork, ForkDone, Busy, Holding, TableTypes
  <2> QED
    BY <1>4, <2>1, <2>2
<1>6. \A q \in Procs \ {p} : pc[q] \in Busy => fd'[q] = fd[q]
  <2>1. CASE ForkDup(p)
    <3>1. PICK c \in Procs, k \in Fds, f \in Files :
              fd' = [fd EXCEPT ![c][k] = f] /\ pc[c] = "embryo"
      BY <2>1, ForkDupStep
    <3>2. \A q \in Procs \ {c} : fd'[q] = fd[q]
      BY <1>1, <3>1 DEF TableTypes
    <3> QED
      BY <3>1, <3>2 DEF Busy, Holding
  <2>2. CASE ~ForkDup(p)
    <3>1. CASE Dup(p)
      BY <1>1, <3>1 DEF Dup, TableTypes
    <3>2. CASE Opening(p)
      BY <1>1, <3>2 DEF Opening, OpenAlloc, OpenFd, TableTypes
    <3>3. CASE PipeFds(p)
      <4>1. CASE pc'[p] = "user"
        <5>1. PICK k0 \in Fds, k1 \in Fds :
                  /\ k0 # k1 /\ Len(hand[p]) = 2
                  /\ fd' = [fd EXCEPT ![p][k0] = hand[p][1], ![p][k1] = hand[p][2]]
          BY <3>3, <4>1, PipeFdsStep
        <5>2. PICK x, y : fd' = [fd EXCEPT ![p][k0] = x, ![p][k1] = y]
          BY <5>1
        <5> QED
          BY <1>1, <5>2 DEF TableTypes
      <4>2. CASE UNCHANGED fd
        BY <4>2
      <4>3. PICK s : s = "user"
        OBVIOUS
      <4>4. Goto(p, s) => pc'[p] = s
        BY Gone
      <4> QED
        BY <3>3, <4>1, <4>2, <4>3, <4>4 DEF PipeFds
    <3>4. ASSUME NEW k \in Fds, CloseFd(p, k) PROVE \A q \in Procs \ {p} : fd'[q] = fd[q]
      BY <1>1, <3>4 DEF CloseFd, TableTypes
    <3>5. CASE ExitFd(p)
      BY <1>1, <3>5 DEF ExitFd, TableTypes
    <3>6. CASE UNCHANGED fd
      BY <3>6
    <3>7. \/ Dup(p) \/ Opening(p) \/ PipeFds(p) \/ ExitFd(p)
          \/ UNCHANGED fd
          \/ \E k \in Fds : CloseFd(p, k)
      BY <2>2 DEF Starts, Call, Open, PipeCall, Fork, Exit, Running, Pipealloc, PipeFile,
         PipeKalloc, Forking, ForkDone, Fileclose, FilecloseShared, FilecloseLast,
         FileclosePipe, FilecloseInode, FilecloseNone, CloseDone
    <3> QED
      BY <3>1, <3>2, <3>3, <3>4, <3>5, <3>6, <3>7
  <2> QED
    BY <2>1, <2>2
<1>7. \A q \in Procs \ {p} : pc'[q] = pc[q] \/ (pc[q] \in Idle /\ pc'[q] \in Idle)
  BY OthersLeft DEF OthersStay
<1>8. \A q \in Procs : IF pc[q] \in Busy THEN pc'[q] = pc[q] /\ fd'[q] = fd[q]
                       ELSE pc'[q] \notin Busy
  BY <1>3, <1>5, <1>6, <1>7 DEF Busy, Holding, Idle
<1> QED
  BY <1>2, <1>8, FilesAway DEF Away

-----------------------------------------------------------------------------
(* The steps of fileread and filewrite.  An inode's lock has one holder.   *)
LEMMA SoleHolder ==
    ASSUME FileInv, NEW p \in Procs, NEW q \in Procs, pc[p] \in Holding, pc[q] \in Holding,
           Ip(p) = Ip(q)
    PROVE  p = q
<1>1. Ip(p) \in Inodes
  BY BusyFile DEF Busy
<1>2. ilock[Ip(p)] = p /\ ilock[Ip(p)] = q
  BY <1>1 DEF FileInv, LocksOwned
<1> QED
  BY <1>2

LEMMA SoleUser ==
    ASSUME FileInv, NEW p \in Procs, NEW q \in Procs, pc[p] \in Holding, pc[q] \in Holding,
           io[p].f = io[q].f
    PROVE  p = q
BY SoleHolder DEF Ip

(* What a step of p that leaves entries and descriptors alone preserves.   *)
OthersBusy(p) ==
    \A q \in Procs \ {p} :
        io'[q] = io[q] /\ fd'[q] = fd[q] /\ (pc'[q] \in Busy \/ pc[q] \in Busy => pc'[q] = pc[q])

SameKinds == \A f \in Files : SameKind(f)

LEMMA OthersIo ==
    ASSUME FileInv, NEW p \in Procs, OthersBusy(p), SameKinds
    PROVE  \A q \in Procs \ {p} :
              /\ IoFits(q)'
              /\ pc'[q] \in Busy =>
                    pc[q] \in Busy /\ pc'[q] = pc[q] /\ io'[q] = io[q] /\ Ip(q)' = Ip(q)
<1> SUFFICES ASSUME NEW q \in Procs \ {p}, pc'[q] \in Busy
             PROVE  /\ IoFits(q)'
                    /\ pc[q] \in Busy /\ pc'[q] = pc[q] /\ io'[q] = io[q] /\ Ip(q)' = Ip(q)
  BY DEF IoFits, Busy
<1>1. pc'[q] = pc[q] /\ io'[q] = io[q] /\ fd'[q] = fd[q]
  BY DEF OthersBusy
<1>2. pc[q] \in Busy
  BY <1>1
<1>3. io[q].f \in Files /\ file'[io[q].f].type = "inode" /\ Ip(q)' = Ip(q)
  BY <1>1, <1>2, BusyFile DEF SameKinds, SameKind, Ip
<1>4. IoFits(q)'
  BY <1>1, <1>2, <1>3, BusyFile DEF IoFits
<1> QED
  BY <1>1, <1>2, <1>3, <1>4

(* Locks stay where they are, as long as p stays on its side.              *)
LEMMA LocksStay ==
    ASSUME FileInv, NEW p \in Procs, OthersBusy(p), SameKinds, UNCHANGED ilock,
           pc'[p] \in Holding <=> pc[p] \in Holding,
           pc[p] \in Holding => Ip(p)' = Ip(p)
    PROVE  LocksOwned'
<1> SUFFICES ASSUME NEW q \in Procs, NEW i \in Inodes
             PROVE  ilock[i] = q <=> pc'[q] \in Holding /\ Ip(q)' = i
  BY DEF LocksOwned
<1>1. ilock[i] = q <=> pc[q] \in Holding /\ Ip(q) = i
  BY DEF FileInv, LocksOwned
<1>2. CASE q = p
  BY <1>1, <1>2
<1>3. CASE q # p
  <2>1. pc'[q] \in Busy \/ pc[q] \in Busy => pc'[q] = pc[q] /\ Ip(q)' = Ip(q)
    BY <1>3, OthersIo DEF OthersBusy
  <2> QED
    BY <1>1, <2>1 DEF Busy
<1> QED
  BY <1>2, <1>3

(* The offsets, when off, moved and size change for the file of p alone.   *)
LEMMA OffsetsStay ==
    ASSUME FileInv, TableTypes', NEW p \in Procs, OthersBusy(p), SameKinds,
           pc[p] \in Holding, \A i \in Inodes : size'[i] >= size[i],
           \A g \in Files \ {io[p].f} : file'[g].off = file[g].off /\ moved'[g] = moved[g],
           io'[p].f = io[p].f,
           file'[io[p].f].off <= MaxSize,
           file'[io[p].f].off <= size'[Ip(p)],
           moved'[io[p].f] = file'[io[p].f].off \/ pc'[p] = "off",
           pc'[p] = "off" => /\ moved'[io[p].f] = file'[io[p].f].off + Done(p)'
                             /\ moved'[io[p].f] <= size'[Ip(p)]
    PROVE  OffsetsFit'
<1>1. TableTypes
  BY DEF FileInv
<1>2. Ip(p)' = Ip(p) /\ Ip(p) \in Inodes /\ io[p].f \in Files /\ Ip(p) = file[io[p].f].obj
  BY BusyFile DEF Busy, SameKinds, SameKind, Ip
<1>3. ASSUME NEW f \in Files
      PROVE  /\ file'[f].off <= MaxSize
             /\ file'[f].type = "inode" =>
                   /\ file'[f].off <= size'[file'[f].obj]
                   /\ \/ moved'[f] = file'[f].off
                      \/ \E q \in Procs : pc'[q] = "off" /\ io'[q].f = f
  <2>1. CASE f = io[p].f
    <3>1. file'[f].obj = Ip(p)
      BY <1>2, <2>1 DEF SameKinds, SameKind
    <3> QED
      BY <2>1, <3>1
  <2>2. CASE f # io[p].f
    <3>1. /\ file[f].off <= MaxSize
          /\ file[f].type = "inode" =>
                /\ file[f].off <= size[file[f].obj]
                /\ \/ moved[f] = file[f].off
                   \/ \E q \in Procs : pc[q] = "off" /\ io[q].f = f
      BY DEF FileInv, OffsetsFit
    <3>2. /\ file'[f].off = file[f].off /\ moved'[f] = moved[f]
          /\ file'[f].type = file[f].type /\ file'[f].obj = file[f].obj
      BY <2>2 DEF SameKinds, SameKind
    <3>3. file[f].type = "inode" => file[f].obj \in Inodes
      BY DEF FileInv, EntriesFit, EntryFits
    <3>4. file[f].type = "inode" => file[f].off <= size'[file[f].obj]
      <4> SUFFICES ASSUME file[f].type = "inode"
                   PROVE  file[f].off <= size'[file[f].obj]
        OBVIOUS
      <4>1. PICK i \in Inodes : i = file[f].obj
        BY <3>3
      <4>2. file[f].off <= size[i] /\ size[i] <= size'[i] /\ size[i] \in Int
        BY <1>1, <3>1, <4>1, Limits DEF TableTypes
      <4>3. file[f].off \in Int
        BY FileFields
      <4>4. size'[i] \in Int
        BY <4>1, Limits DEF TableTypes
      <4> QED
        BY <4>1, <4>2, <4>3, <4>4
    <3>5. \A q \in Procs : pc[q] = "off" /\ io[q].f = f => pc'[q] = "off" /\ io'[q].f = f
      BY <2>2 DEF OthersBusy, Busy, Holding
    <3> QED
      BY <3>1, <3>2, <3>4, <3>5
  <2> QED
    BY <2>1, <2>2
<1>4. ASSUME NEW q \in Procs, pc'[q] = "off"
      PROVE  /\ moved'[io'[q].f] = file'[io'[q].f].off + Done(q)'
             /\ moved'[io'[q].f] <= size'[Ip(q)']
  <2>1. CASE q = p
    BY <1>2, <1>4, <2>1
  <2>2. CASE q # p
    <3>1. pc[q] = "off" /\ io'[q] = io[q] /\ Ip(q)' = Ip(q)
      BY <1>4, <2>2, OthersIo DEF Busy, Holding
    <3>2. io[q].f # io[p].f /\ io[q].f \in Files /\ Ip(q) \in Inodes
      BY <2>2, <3>1, SoleUser, BusyFile DEF Busy, Holding
    <3>3. /\ moved[io[q].f] = file[io[q].f].off + Done(q)
          /\ moved[io[q].f] <= size[Ip(q)]
      BY <3>1 DEF FileInv, OffsetsFit
    <3>4. moved'[io'[q].f] = file'[io'[q].f].off + Done(q)'
      BY <3>1, <3>2, <3>3 DEF Done
    <3>5. moved'[io'[q].f] <= size'[Ip(q)']
      <4>1. PICK i \in Inodes : i = Ip(q)
        BY <3>2
      <4>2. moved[io[q].f] \in Int /\ size[i] \in Int /\ size'[i] \in Int
        <5>1. moved \in [Files -> Nat] /\ size \in [Inodes -> 0..MaxSize]
          BY <1>1 DEF TableTypes
        <5>2. size' \in [Inodes -> 0..MaxSize]
          BY DEF TableTypes
        <5>3. io[q].f \in Files
          BY <3>2
        <5> QED
          BY <4>1, <5>1, <5>2, <5>3, Limits
      <4>3. moved[io[q].f] <= size[i] /\ size[i] <= size'[i]
        BY <3>3, <4>1
      <4>4. moved'[io'[q].f] = moved[io[q].f] /\ Ip(q)' = i
        BY <3>1, <3>2, <4>1
      <4> QED
        BY <4>2, <4>3, <4>4
    <3> QED
      BY <3>4, <3>5
  <2> QED
    BY <2>1, <2>2
<1> QED
  BY <1>3, <1>4 DEF OffsetsFit

LEMMA ReadWriteFrame ==
    ASSUME FileInv, NEW p \in Procs, ReadWrite(p)
    PROVE  OthersBusy(p) /\ SameKinds /\ UNCHANGED fd
<1> USE DEF table, inode, local
<1>1. SameKinds
  BY ReadWriteCalm DEF Kept, Calm, SameKinds
<1>2. UNCHANGED fd
  BY DEF ReadWrite, Ilock, Readi, Writei, Advance, Iunlock
<1>3. OthersStay(p)
  BY OthersLeft DEF Running
<1>4. \A q \in Procs \ {p} : pc'[q] \in Busy \/ pc[q] \in Busy => pc'[q] = pc[q]
  BY <1>3 DEF OthersStay, Busy, Holding, Idle
<1>5. OthersBusy(p)
  BY <1>2, <1>3, <1>4 DEF OthersBusy, OthersStay
<1> QED
  BY <1>1, <1>2, <1>5

(* Reading or writing on, a process keeps its file.                        *)
LEMMA OnTheWay ==
    ASSUME FileInv, NEW p \in Procs, ReadWrite(p), io'[p].f = io[p].f, io'[p].op = io[p].op
    PROVE  \A q \in Procs : IoFits(q)'
<1>1. OthersBusy(p) /\ SameKinds /\ UNCHANGED fd
  BY ReadWriteFrame
<1>2. pc[p] \in Busy
  BY DEF ReadWrite, Ilock, Readi, Writei, Advance, Iunlock, Busy, Holding
<1>3. IoFits(p)'
  BY <1>1, <1>2, BusyFile DEF IoFits, SameKinds, SameKind
<1> QED
  BY <1>1, <1>3, OthersIo

LEMMA StartsIo ==
    ASSUME FileInv, NEW p \in Procs, Starts(p)
    PROVE  IoInv'
<1> USE DEF Goto, table, inode, local
<1>1. PICK k \in Fds, n \in Sizes : Read(p, k, n) \/ Write(p, k, n)
  BY DEF Starts
<1>2. /\ pc[p] = "user" /\ fd[p][k] # None /\ file[fd[p][k]].type # "pipe"
      /\ UNCHANGED <<file, fd, ilock, size, moved>>
      /\ io' = [io EXCEPT ![p] = [f |-> fd[p][k], op |-> "read", n |-> n, r |-> 0]]
         \/ io' = [io EXCEPT ![p] = [f |-> fd[p][k], op |-> "write", n |-> n, r |-> 0]]
      /\ Goto(p, IF file[fd[p][k]].type = "inode" THEN "ilock" ELSE "panic")
  BY <1>1 DEF Read, Write
<1>3. file[fd[p][k]].type = "inode" /\ fd[p][k] \in Files
  BY <1>2, FdCounted, FileFields
<1>4. pc' = [pc EXCEPT ![p] = "ilock"]
  BY <1>2, <1>3
<1>5. pc'[p] = "ilock" /\ \A q \in Procs \ {p} : pc'[q] = pc[q] /\ io'[q] = io[q]
  BY <1>2, <1>4 DEF FileInv, TableTypes
<1>6. io'[p].f = fd[p][k] /\ io'[p].op # "none"
  BY <1>2 DEF FileInv, TableTypes
<1>7. OthersBusy(p) /\ SameKinds
  BY <1>2, <1>5 DEF OthersBusy, SameKinds, SameKind
<1>8. \A q \in Procs : IoFits(q)'
  <2>1. IoFits(p)'
    BY <1>2, <1>3, <1>6 DEF IoFits
  <2> QED
    BY <1>7, <2>1, OthersIo
<1>9. LocksOwned'
  BY <1>2, <1>5, <1>7, LocksStay DEF Holding
<1>10. OffsetsFit'
  <2>1. \A q \in Procs : pc'[q] = "off" <=> pc[q] = "off"
    BY <1>2, <1>5
  <2>2. \A q \in Procs : pc[q] = "off" => io'[q] = io[q] /\ Ip(q)' = Ip(q) /\ Done(q)' = Done(q)
    BY <1>2, <1>5 DEF Ip, Done
  <2> QED
    BY <1>2, <2>1, <2>2 DEF FileInv, OffsetsFit
<1> QED
  BY <1>8, <1>9, <1>10 DEF IoInv

LEMMA IlockIo ==
    ASSUME FileInv, NEW p \in Procs, Ilock(p)
    PROVE  IoInv'
<1> USE DEF Goto, table, inode, local
<1>1. /\ pc[p] = "ilock" /\ ilock[Ip(p)] = None
      /\ ilock' = [ilock EXCEPT ![Ip(p)] = p] /\ pc' = [pc EXCEPT ![p] = "rw"]
      /\ UNCHANGED <<file, fd, size, io, moved>>
  BY DEF Ilock
<1>2. pc'[p] = "rw" /\ \A q \in Procs \ {p} : pc'[q] = pc[q]
  BY <1>1 DEF FileInv, TableTypes
<1>3. \A q \in Procs : Ip(q)' = Ip(q) /\ Done(q)' = Done(q)
  BY <1>1 DEF Ip, Done
<1>4. Ip(p) \in Inodes /\ ilock'[Ip(p)] = p /\ \A i \in Inodes \ {Ip(p)} : ilock'[i] = ilock[i]
  BY <1>1, BusyFile DEF Busy, FileInv, TableTypes
<1>5. \A q \in Procs : IoFits(q)'
  BY <1>1, OnTheWay DEF ReadWrite
<1>6. LocksOwned'
  <2> SUFFICES ASSUME NEW q \in Procs, NEW i \in Inodes
               PROVE  ilock'[i] = q <=> pc'[q] \in Holding /\ Ip(q) = i
    BY <1>3 DEF LocksOwned
  <2>1. ilock[i] = q <=> pc[q] \in Holding /\ Ip(q) = i
    BY DEF FileInv, LocksOwned
  <2>2. CASE q = p
    BY <1>1, <1>2, <1>4, <2>1, <2>2 DEF Holding
  <2>3. CASE q # p
    <3>1. None \notin Procs
      BY Apart
    <3> QED
      BY <1>1, <1>2, <1>4, <2>1, <2>3, <3>1
  <2> QED
    BY <2>2, <2>3
<1>7. OffsetsFit'
  <2>1. \A q \in Procs : pc'[q] = "off" <=> pc[q] = "off"
    BY <1>1, <1>2
  <2> QED
    BY <1>1, <1>3, <2>1 DEF FileInv, OffsetsFit
<1> QED
  BY <1>5, <1>6, <1>7 DEF IoInv

LEMMA IunlockIo ==
    ASSUME FileInv, NEW p \in Procs, Iunlock(p)
    PROVE  IoInv'
<1> USE DEF Goto, table, inode, local
<1>1. /\ pc[p] = "iunlock"
      /\ ilock' = [ilock EXCEPT ![Ip(p)] = None]
      /\ UNCHANGED <<file, fd, size, moved>>
  BY DEF Iunlock
<1>2. /\ \/ pc'[p] = "ilock" /\ io'[p].f = io[p].f /\ io'[p].op = io[p].op
         \/ pc'[p] = "user"
      /\ \A q \in Procs \ {p} : pc'[q] = pc[q] /\ io'[q] = io[q]
  BY DEF Iunlock, FileInv, TableTypes
<1>3. \A q \in Procs \ {p} : Ip(q)' = Ip(q) /\ Done(q)' = Done(q)
  BY <1>1, <1>2 DEF Ip, Done
<1>4. Ip(p) \in Inodes /\ ilock'[Ip(p)] = None
      /\ \A i \in Inodes \ {Ip(p)} : ilock'[i] = ilock[i]
  BY <1>1, BusyFile DEF Busy, Holding, FileInv, TableTypes
<1>5. \A q \in Procs : IoFits(q)'
  <2>1. CASE pc'[p] = "user"
    <3>1. IoFits(p)'
      BY <2>1 DEF IoFits, Holding
    <3> QED
      BY <3>1, ReadWriteFrame, OthersIo DEF ReadWrite
  <2>2. CASE io'[p].f = io[p].f /\ io'[p].op = io[p].op
    BY <2>2, OnTheWay DEF ReadWrite
  <2> QED
    BY <1>2, <2>1, <2>2
<1>6. LocksOwned'
  <2> SUFFICES ASSUME NEW q \in Procs, NEW i \in Inodes
               PROVE  ilock'[i] = q <=> pc'[q] \in Holding /\ Ip(q)' = i
    BY DEF LocksOwned
  <2>1. ilock[i] = q <=> pc[q] \in Holding /\ Ip(q) = i
    BY DEF FileInv, LocksOwned
  <2>2. None \notin Procs
    BY Apart
  <2>3. CASE q = p
    BY <1>1, <1>2, <1>4, <2>1, <2>2, <2>3 DEF Holding
  <2>4. CASE q # p
    <3>1. CASE i = Ip(p)
      <4>1. ~(pc[q] \in Holding /\ Ip(q) = i)
        BY <1>1, <2>4, <3>1, SoleHolder DEF Holding
      <4> QED
        BY <1>2, <1>3, <1>4, <2>2, <2>4, <3>1, <4>1
    <3>2. CASE i # Ip(p)
      BY <1>2, <1>3, <1>4, <2>1, <2>4, <3>2
    <3> QED
      BY <3>1, <3>2
  <2> QED
    BY <2>3, <2>4
<1>7. OffsetsFit'
  <2>1. \A q \in Procs : pc'[q] = "off" <=> pc[q] = "off"
    BY <1>1, <1>2
  <2>2. \A q \in Procs : pc[q] = "off" => io'[q] = io[q] /\ Ip(q)' = Ip(q) /\ Done(q)' = Done(q)
    BY <1>1, <1>2, <1>3
  <2> QED
    BY <1>1, <2>1, <2>2 DEF FileInv, OffsetsFit
<1> QED
  BY <1>5, <1>6, <1>7 DEF IoInv

(* readi and writei begin where the other users of the file have stopped.  *)
LEMMA InTurn ==
    ASSUME FileInv, NEW p \in Procs, pc[p] = "rw"
    PROVE  /\ moved[io[p].f] = file[io[p].f].off
           /\ file[io[p].f].off \in Nat /\ file[io[p].f].off <= size[Ip(p)]
           /\ size[Ip(p)] \in 0..MaxSize
<1>1. pc[p] \in Holding
  BY DEF Holding
<1>2. /\ io[p].f \in Files /\ file[io[p].f].type = "inode"
      /\ file[io[p].f].off \in Nat /\ file[io[p].f].off <= size[Ip(p)]
      /\ size[Ip(p)] \in 0..MaxSize
  BY <1>1, IoFile
<1>3. \A q \in Procs : pc[q] = "off" => io[q].f # io[p].f
  BY <1>1, SoleUser DEF Holding
<1>4. moved[io[p].f] = file[io[p].f].off
  BY <1>2, <1>3 DEF FileInv, OffsetsFit
<1> QED
  BY <1>2, <1>4

LEMMA SmallerOf ==
    ASSUME NEW x \in Int, NEW y \in Int
    PROVE  Smaller(x, y) \in {x, y} /\ Smaller(x, y) <= x /\ Smaller(x, y) <= y
BY DEF Smaller

LEMMA ReadiIo ==
    ASSUME FileInv, NEW p \in Procs, Readi(p), TableTypes'
    PROVE  IoInv'
<1> USE DEF Goto, table, inode, local
<1>1. pc[p] = "rw" /\ pc[p] \in Busy /\ pc[p] \in Holding
  BY DEF Readi, Busy, Holding
<1>2. PICK f \in Files, i \in Inodes : f = io[p].f /\ i = Ip(p)
  BY <1>1, BusyFile
<1>3. PICK off \in Nat, n \in Nat, sz \in 0..MaxSize :
          off = file[f].off /\ n = io[p].n /\ sz = size[i] /\ off <= sz /\ moved[f] = off
  BY <1>1, <1>2, InTurn, IoFile
<1>4. PICK r \in Nat : r = Smaller(n, sz - off) /\ r <= sz - off
  BY <1>3, SmallerOf
<1>5. /\ io' = [io EXCEPT ![p].r = r]
      /\ moved' = [moved EXCEPT ![f] = @ + r]
      /\ pc' = [pc EXCEPT ![p] = "off"]
      /\ UNCHANGED <<file, fd, ilock, size>>
  BY <1>2, <1>3, <1>4 DEF Readi
<1>6. /\ io'[p].f = f /\ io'[p].op = io[p].op /\ io'[p].r = r /\ pc'[p] = "off"
      /\ moved'[f] = off + r /\ \A g \in Files \ {f} : moved'[g] = moved[g]
  BY <1>2, <1>3, <1>5 DEF FileInv, TableTypes
<1>7. OthersBusy(p) /\ SameKinds
  BY ReadWriteFrame DEF ReadWrite
<1>8. Ip(p)' = i
  BY <1>2, <1>5, <1>6 DEF Ip
<1>9. \A q \in Procs : IoFits(q)'
  BY <1>2, <1>6, OnTheWay DEF ReadWrite
<1>10. LocksOwned'
  BY <1>1, <1>2, <1>5, <1>6, <1>7, <1>8, LocksStay DEF Holding
<1>11. Done(p)' = r
  BY <1>4, <1>6 DEF Done
<1>12. off <= MaxSize /\ off + r <= sz
  BY <1>3, <1>4, Limits
<1>13. \A j \in Inodes : size'[j] >= size[j]
  BY <1>5, Limits DEF FileInv, TableTypes
<1>14. OffsetsFit'
  BY <1>1, <1>2, <1>3, <1>5, <1>6, <1>7, <1>11, <1>12, <1>13, OffsetsStay
<1> QED
  BY <1>9, <1>10, <1>14 DEF IoInv

LEMMA WriteiIo ==
    ASSUME FileInv, NEW p \in Procs, Writei(p), TableTypes'
    PROVE  IoInv'
<1> USE DEF Goto, table, inode, local
<1>1. pc[p] = "rw" /\ pc[p] \in Busy /\ pc[p] \in Holding
  BY DEF Writei, Busy, Holding
<1>2. PICK f \in Files, i \in Inodes : f = io[p].f /\ i = Ip(p)
  BY <1>1, BusyFile
<1>3. PICK off \in Nat, n \in Nat, sz \in 0..MaxSize :
          off = file[f].off /\ n = io[p].n /\ sz = size[i] /\ off <= sz /\ moved[f] = off
  BY <1>1, <1>2, InTurn, IoFile
<1>4. PICK n1 \in Nat : n1 = Smaller(n, MaxChunk)
  BY Limits, SmallerOf
<1>5. PICK r \in Int, d \in Nat :
          /\ r = IF Fits(off, n1) THEN n1 ELSE -1
          /\ d = IF Fits(off, n1) THEN n1 ELSE 0
  OBVIOUS
<1>6. d = (IF r > 0 THEN r ELSE 0) /\ off + d <= MaxSize
  BY <1>3, <1>5, Limits DEF Fits
<1>7. /\ io' = [io EXCEPT ![p].r = r]
      /\ moved' = IF Fits(off, n1) THEN [moved EXCEPT ![f] = @ + n1] ELSE moved
      /\ size' = IF Fits(off, n1) /\ off + n1 > sz
                 THEN [size EXCEPT ![i] = off + n1] ELSE size
      /\ pc' = [pc EXCEPT ![p] = "off"]
      /\ UNCHANGED <<file, fd, ilock>>
  <2>1. UNCHANGED <<file, fd, ilock>>
    BY DEF Writei
  <2>2. io' = [io EXCEPT ![p].r = r] /\ pc' = [pc EXCEPT ![p] = "off"]
    BY <1>2, <1>3, <1>4, <1>5 DEF Writei
  <2>3. moved' = IF Fits(off, n1) THEN [moved EXCEPT ![f] = @ + n1] ELSE moved
    BY <1>2, <1>3, <1>4 DEF Writei
  <2>4. size' = IF Fits(off, n1) /\ off + n1 > sz
                THEN [size EXCEPT ![i] = off + n1] ELSE size
    BY <1>2, <1>3, <1>4 DEF Writei
  <2> QED
    BY <2>1, <2>2, <2>3, <2>4
<1>8. /\ io'[p].f = f /\ io'[p].op = io[p].op /\ io'[p].r = r /\ pc'[p] = "off"
      /\ moved'[f] = off + d /\ \A g \in Files \ {f} : moved'[g] = moved[g]
  <2>1. /\ io'[p].f = f /\ io'[p].op = io[p].op /\ io'[p].r = r /\ pc'[p] = "off"
    BY <1>2, <1>7 DEF FileInv, TableTypes
  <2>2. moved \in [Files -> Nat]
    BY DEF FileInv, TableTypes
  <2>3. CASE Fits(off, n1)
    <3>1. moved' = [moved EXCEPT ![f] = @ + n1] /\ d = n1
      BY <1>5, <1>7, <2>3
    <3> QED
      BY <1>3, <2>1, <2>2, <3>1
  <2>4. CASE ~Fits(off, n1)
    <3>1. moved' = moved /\ d = 0
      BY <1>5, <1>7, <2>4
    <3> QED
      BY <1>3, <2>1, <2>2, <3>1
  <2> QED
    BY <2>3, <2>4
<1>9. /\ size'[i] \in Nat /\ size'[i] >= sz /\ size'[i] >= off + d
      /\ \A j \in Inodes \ {i} : size'[j] = size[j]
  <2>1. size \in [Inodes -> 0..MaxSize] /\ MaxSize \in Nat
    BY Limits DEF FileInv, TableTypes
  <2>2. sz \in Nat /\ size[i] = sz
    BY <1>3, <2>1
  <2>3. CASE Fits(off, n1) /\ off + n1 > sz
    <3>1. size' = [size EXCEPT ![i] = off + n1] /\ d = n1
      BY <1>5, <1>7, <2>3
    <3> QED
      BY <1>3, <1>4, <2>1, <2>2, <2>3, <3>1
  <2>4. CASE Fits(off, n1) /\ ~(off + n1 > sz)
    <3>1. size' = size /\ d = n1
      BY <1>5, <1>7, <2>4
    <3> QED
      BY <1>3, <1>4, <2>2, <2>4, <3>1
  <2>5. CASE ~Fits(off, n1)
    <3>1. size' = size /\ d = 0
      BY <1>5, <1>7, <2>5
    <3> QED
      BY <1>3, <2>2, <3>1
  <2> QED
    BY <2>3, <2>4, <2>5
<1>10. OthersBusy(p) /\ SameKinds
  BY ReadWriteFrame DEF ReadWrite
<1>11. Ip(p)' = i
  BY <1>2, <1>7, <1>8 DEF Ip
<1>12. \A q \in Procs : IoFits(q)'
  BY <1>2, <1>8, OnTheWay DEF ReadWrite
<1>13. LocksOwned'
  BY <1>1, <1>2, <1>7, <1>8, <1>10, <1>11, LocksStay DEF Holding
<1>14. Done(p)' = d
  BY <1>6, <1>8 DEF Done
<1>15. \A j \in Inodes : size'[j] >= size[j]
  <2> SUFFICES ASSUME NEW j \in Inodes
               PROVE  size'[j] >= size[j]
    OBVIOUS
  <2>1. size[j] \in Int
    BY Limits DEF FileInv, TableTypes
  <2>2. CASE j = i
    BY <1>3, <1>9, <2>2
  <2>3. CASE j # i
    BY <1>9, <2>1, <2>3
  <2> QED
    BY <2>2, <2>3
<1>16. file'[f].off = off /\ off <= MaxSize /\ off <= size'[i]
  BY <1>3, <1>6, <1>7, <1>9, Limits
<1>17. OffsetsFit'
  BY <1>1, <1>2, <1>7, <1>8, <1>9, <1>10, <1>14, <1>15, <1>16, OffsetsStay
<1> QED
  BY <1>12, <1>13, <1>17 DEF IoInv

LEMMA AdvanceIo ==
    ASSUME FileInv, NEW p \in Procs, Advance(p), TableTypes'
    PROVE  IoInv'
<1> USE DEF Goto, table, inode, local
<1>1. pc[p] = "off" /\ pc[p] \in Busy /\ pc[p] \in Holding
  BY DEF Advance, Busy, Holding
<1>2. PICK f \in Files, i \in Inodes : f = io[p].f /\ i = Ip(p)
  BY <1>1, BusyFile
<1>3. /\ UNCHANGED <<fd, ilock, size, io, moved>> /\ pc' = [pc EXCEPT ![p] = "iunlock"]
  BY DEF Advance
<1>4. pc'[p] = "iunlock"
  BY <1>3 DEF FileInv, TableTypes
<1>5. /\ \A g \in Files \ {f} : file'[g] = file[g]
      /\ file'[f].off = file[f].off + Done(p)
  BY <1>2, AdvanceStep
<1>6. moved[f] = file[f].off + Done(p) /\ moved[f] <= size[i]
  BY <1>1, <1>2 DEF FileInv, OffsetsFit
<1>7. moved'[f] = file'[f].off /\ file'[f].off <= size'[i] /\ file'[f].off <= MaxSize
  <2>1. PICK m \in Nat : m = moved[f]
    BY DEF FileInv, TableTypes
  <2>2. size[i] \in 0..MaxSize
    BY DEF FileInv, TableTypes
  <2> QED
    BY <1>3, <1>5, <1>6, <2>1, <2>2, Limits
<1>8. OthersBusy(p) /\ SameKinds
  BY ReadWriteFrame DEF ReadWrite
<1>9. Ip(p)' = i
  BY <1>2, <1>3, <1>8 DEF Ip, SameKinds, SameKind
<1>10. \A q \in Procs : IoFits(q)'
  BY <1>3, OnTheWay DEF ReadWrite
<1>11. LocksOwned'
  BY <1>1, <1>2, <1>3, <1>4, <1>8, <1>9, LocksStay DEF Holding
<1>12. \A j \in Inodes : size'[j] >= size[j]
  BY <1>3, Limits DEF FileInv, TableTypes
<1>13. OffsetsFit'
  BY <1>1, <1>2, <1>3, <1>4, <1>5, <1>7, <1>8, <1>12, OffsetsStay
<1> QED
  BY <1>10, <1>11, <1>13 DEF IoInv

LEMMA IoKept ==
    ASSUME FileInv, NEW p \in Procs, Call(p) \/ Running(p)
    PROVE  IoInv'
<1>1. CASE ReadWrite(p)
  BY <1>1, TypesKept, IlockIo, ReadiIo, WriteiIo, AdvanceIo, IunlockIo DEF ReadWrite
<1>2. CASE Starts(p)
  BY <1>2, StartsIo
<1>3. CASE ~ReadWrite(p) /\ ~Starts(p)
  BY <1>3, AwayStep, AwayKeeps
<1> QED
  BY <1>1, <1>2, <1>3

-----------------------------------------------------------------------------
(* The invariant holds to begin with, and every step keeps it.             *)
LEMMA FileInit ==
    ASSUME Init
    PROVE  FileInv
<1> USE DEF Init
<1>1. <<>> \in Seq(Files) /\ Len(<<>>) = 0
  BY ShortOnes
<1>2. /\ \A p \in Procs : /\ fd[p] = [k \in Fds |-> None] /\ hand[p] = <<>> /\ ff[p] = None
                          /\ ip[p] = None /\ child[p] = None /\ io[p] = NoIo
                          /\ pc[p] \in {"user", "unused"}
      /\ \A f \in Files : file[f] = Free /\ moved[f] = 0
      /\ \A i \in Inodes : iref[i] = 0 /\ ilock[i] = None /\ size[i] = 0
      /\ \A g \in PipePages : pipe[g] = {} /\ g \notin kept
  OBVIOUS
<1>3. TableTypes
  <2>1. Free \in Entries
    BY DEF Free, Entries
  <2>2. file \in [Files -> Entries]
    BY <2>1
  <2>3. NoIo \in [f : Files \cup {None}, op : {"none", "read", "write"}, n : Nat, r : Int]
    BY DEF NoIo
  <2>4. io \in [Procs -> [f : Files \cup {None}, op : {"none", "read", "write"},
                          n : Nat, r : Int]]
    BY <2>3
  <2>5. hand \in [Procs -> Seq(Files)]
    BY <1>1
  <2>6. size \in [Inodes -> 0..MaxSize]
    BY Limits
  <2>7. /\ fd \in [Procs -> [Fds -> Files \cup {None}]]
        /\ pipe \in [PipePages -> SUBSET {"read", "write"}] /\ kept \subseteq PipePages
        /\ iref \in [Inodes -> Nat] /\ ilock \in [Inodes -> Procs \cup {None}]
        /\ ff \in [Procs -> Entries \cup {None}] /\ ip \in [Procs -> Inodes \cup {None}]
        /\ child \in [Procs -> Procs \cup {None}] /\ moved \in [Files -> Nat]
    OBVIOUS
  <2>8. \A p \in Procs : pc[p] \in {"user", "unused"}
    BY <1>2
  <2>9. pc \in [Procs -> {"unused", "embryo", "user", "open", "open_fd", "pipe", "pipe_fd",
                          "fork", "close", "exit", "ilock", "rw", "off", "iunlock"}]
    OBVIOUS
  <2> HIDE DEF Init
  <2> QED
    BY <2>2, <2>4, <2>5, <2>6, <2>7, <2>9 DEF TableTypes
<1> HIDE DEF Init
<1>4. HandsFit
  BY <1>1, <1>2 DEF HandsFit, HandFits
<1>5. ForksFit
  BY <1>2 DEF ForksFit
<1>6. \A f \in Files : file[f].ref = 0 /\ file[f].type = "none" /\ file[f].off = 0
  BY <1>2 DEF Free
<1>7. EntriesFit
  <2>1. \A p \in Procs, k \in Fds : fd[p][k] = None
    BY <1>2
  <2> QED
    BY <1>2, <1>6, <2>1 DEF EntriesFit, EntryFits
<1>8. RefsCounted
  <2>1. \A f \in Files : Pointers(f) = {}
    <3>1. ASSUME NEW p \in Procs, NEW k \in Places
          PROVE  Held(p, k) = None
      <4>1. CASE k \in Fds
        BY <1>2, <4>1, FdHeld
      <4>2. CASE k \notin Fds
        <5>1. k \in Int /\ NFds \in Int /\ ~(k <= NFds) /\ ~(k - NFds <= 0)
          BY <4>2, Limits DEF Places, Fds
        <5>2. Len(hand[p]) = 0
          BY <1>1, <1>2
        <5> QED
          BY <5>1, <5>2 DEF Held
      <4> QED
        BY <4>1, <4>2
    <3> QED
      BY <3>1, Apart DEF Pointers
  <2>2. \A i \in Inodes : OpenOn(i) = {} /\ PutBy(i) = {} /\ OpenedBy(i) = {}
    BY <1>2, <1>6, Apart DEF OpenOn, PutBy, OpenedBy
  <2>3. Cardinality({}) = 0
    BY FS_EmptySet
  <2>4. \A f \in Files : file[f].ref = Cardinality(Pointers(f))
    BY <1>6, <2>1, <2>3
  <2>5. \A i \in Inodes : iref[i] = Cardinality(OpenOn(i)) + Cardinality(PutBy(i))
                                                         + Cardinality(OpenedBy(i))
    <3> SUFFICES ASSUME NEW i \in Inodes
                 PROVE  iref[i] = Cardinality(OpenOn(i)) + Cardinality(PutBy(i))
                                                         + Cardinality(OpenedBy(i))
      OBVIOUS
    <3>1. iref[i] = 0
      BY <1>2
    <3>2. /\ Cardinality(OpenOn(i)) = 0 /\ Cardinality(PutBy(i)) = 0
          /\ Cardinality(OpenedBy(i)) = 0
      BY <2>2, <2>3
    <3> QED
      BY <3>1, <3>2
  <2> QED
    BY <2>4, <2>5 DEF RefsCounted
<1>9. EndsFit
  <2>1. \A g \in PipePages, end \in {"read", "write"} : Owners(g, end) = {}
    BY <1>2, <1>6 DEF Owners
  <2> QED
    BY <1>2, <2>1 DEF EndsFit
<1>10. \A p \in Procs : pc[p] \notin Busy
  BY <1>2 DEF Busy, Holding
<1>11. \A p \in Procs : IoFits(p)
  BY <1>10 DEF IoFits, Busy
<1>12. LocksOwned
  BY <1>2, <1>10, Apart DEF LocksOwned, Busy
<1>13. OffsetsFit
  BY <1>6, <1>10, Limits DEF OffsetsFit, Busy, Holding
<1> QED
  BY <1>3, <1>4, <1>5, <1>7, <1>8, <1>9, <1>11, <1>12, <1>13 DEF FileInv

LEMMA FileStutters ==
    ASSUME FileInv, UNCHANGED vars
    PROVE  FileInv'
<1> USE DEF vars, table, inode, local
<1>1. TableTypes' /\ HandsFit' /\ ForksFit' /\ EntriesFit'
  BY DEF FileInv, TableTypes, HandsFit, HandFits, ForksFit, EntriesFit, EntryFits, Fresh
<1>2. RefsCounted'
  BY DEF FileInv, RefsCounted, Pointers, Held, OpenOn, PutBy, OpenedBy
<1>3. EndsFit'
  BY DEF FileInv, EndsFit, Owners, Leads
<1>4. (\A p \in Procs : IoFits(p)') /\ LocksOwned' /\ OffsetsFit'
  BY DEF FileInv, IoFits, LocksOwned, OffsetsFit, Ip, Done
<1> QED
  BY <1>1, <1>2, <1>3, <1>4 DEF FileInv

LEMMA FileNext ==
    ASSUME FileInv, Next
    PROVE  FileInv'
<1>1. PICK p \in Procs : Call(p) \/ Running(p)
  BY DEF Next
<1> QED
  BY <1>1, TypesKept, HandsKept, ForksKept, EntriesKept, RefsKept, EndsKept, IoKept
     DEF FileInv, IoInv

(* The invariant from which the properties follow.                         *)
THEOREM FileTableInvariant == Spec => []FileInv
<1>1. FileInv /\ [Next]_vars => FileInv'
  BY FileStutters, FileNext
<1> QED
  BY <1>1, FileInit, PTL DEF Spec

(* f->ref is never out of step with the descriptors and the local          *)
(* variables that point to the file, and the same for the inodes.          *)
THEOREM ReferencesCounted == Spec => []RefsCounted
<1>1. FileInv => RefsCounted
  BY DEF FileInv
<1> QED
  BY <1>1, FileTableInvariant, PTL

(* No count exceeds what descriptors and calls can hold: a process has a   *)
(* file in hand at most once.                                              *)
LEMMA RefsBounded ==
    ASSUME FileInv, NEW f \in Files
    PROVE  file[f].ref \in 0..(Cardinality(Procs) * (NFds + 1))
<1> DEFINE T == Procs \X (1..(NFds + 1))
           m == [x \in Pointers(f) |-> <<x[1], IF x[2] = NFds + 2 THEN NFds + 1 ELSE x[2]>>]
<1>1. m \in [Pointers(f) -> T]
  <2> SUFFICES ASSUME NEW x \in Pointers(f)
               PROVE  m[x] \in T
    OBVIOUS
  <2>1. x[1] \in Procs /\ x[2] \in Places
    BY DEF Pointers
  <2>2. (IF x[2] = NFds + 2 THEN NFds + 1 ELSE x[2]) \in 1..(NFds + 1)
    BY <2>1, Limits DEF Places
  <2> QED
    BY <2>1, <2>2
<1>2. \A x, y \in Pointers(f) : m[x] = m[y] => x = y
  <2> SUFFICES ASSUME NEW x \in Pointers(f), NEW y \in Pointers(f), m[x] = m[y]
               PROVE  x = y
    OBVIOUS
  <2>1. PICK p \in Procs, k \in Places, l \in Places :
              x = <<p, k>> /\ y = <<p, l>> /\ Held(p, k) = f /\ Held(p, l) = f
    BY DEF Pointers
  <2>2. (IF k = NFds + 2 THEN NFds + 1 ELSE k) = (IF l = NFds + 2 THEN NFds + 1 ELSE l)
    BY <2>1
  <2>3. ~(Held(p, NFds + 1) = f /\ Held(p, NFds + 2) = f)
    <3>1. Len(hand[p]) = 2 => hand[p][1] # hand[p][2]
      BY DEF FileInv, HandsFit, HandFits
    <3>2. Held(p, NFds + 2) = f => Len(hand[p]) = 2 /\ hand[p][2] = f
      BY HandHeld, Apart
    <3>3. Held(p, NFds + 1) = f => hand[p][1] = f
      BY HandHeld, Apart
    <3> QED
      BY <3>1, <3>2, <3>3
  <2>4. k = l
    BY <2>1, <2>2, <2>3
  <2> QED
    BY <2>1, <2>4
<1>3. IsFiniteSet(T) /\ Cardinality(T) = Cardinality(Procs) * (NFds + 1)
  <2>1. IsFiniteSet(1..(NFds + 1)) /\ Cardinality(1..(NFds + 1)) = NFds + 1
    <3>1. 1 \in Int /\ NFds + 1 \in Int /\ ~(1 > NFds + 1) /\ (NFds + 1) - 1 + 1 = NFds + 1
      BY Limits
    <3>2. \A a, b \in Int : /\ IsFiniteSet(a..b)
                            /\ Cardinality(a..b) = IF a > b THEN 0 ELSE b - a + 1
      BY FS_Interval
    <3>3. Cardinality(1..(NFds + 1)) = (NFds + 1) - 1 + 1
      BY <3>1, <3>2
    <3> QED
      BY <3>1, <3>2, <3>3
  <2> QED
    BY <2>1, FileTableAssumption, FS_Product
<1>4. m \in Injection(Pointers(f), T)
  BY <1>1, <1>2 DEF Injection, IsInjective
<1>5. Cardinality(Pointers(f)) <= Cardinality(T)
  BY <1>3, <1>4, FS_Injection
<1>6. Cardinality(T) \in Nat
  BY <1>3, FS_CardinalityType
<1>7. file[f].ref = Cardinality(Pointers(f)) /\ file[f].ref \in Nat
  BY FileFields DEF FileInv, RefsCounted
<1> QED
  BY <1>3, <1>5, <1>6, <1>7

(* Types, the bound on f->ref, and that no call ends in a panic.           *)
THEOREM FileTableTyped == Spec => []TypeOK
<1>1. FileInv => TypeOK
  <2> SUFFICES ASSUME FileInv
               PROVE  TypeOK
    OBVIOUS
  <2>1. TableTypes
    BY DEF FileInv
  <2>2. ASSUME NEW f \in Files
        PROVE  file[f] \in [ref : 0..(Cardinality(Procs) * (NFds + 1)),
                            type : {"none", "inode", "pipe"},
                            readable : BOOLEAN, writable : BOOLEAN,
                            obj : Inodes \cup PipePages \cup {None}, off : 0..MaxSize]
    <3>1. PICK e \in Entries : e = file[f]
      BY FileFields
    <3>2. e.ref \in 0..(Cardinality(Procs) * (NFds + 1))
      BY <3>1, RefsBounded
    <3>3. e.off \in 0..MaxSize
      <4>1. e.off \in Nat /\ e.off <= MaxSize
        BY <3>1, FileFields DEF FileInv, OffsetsFit
      <4> QED
        BY <4>1, Limits
    <3>4. e \in [ref : 0..(Cardinality(Procs) * (NFds + 1)),
                 type : {"none", "inode", "pipe"},
                 readable : BOOLEAN, writable : BOOLEAN,
                 obj : Inodes \cup PipePages \cup {None}, off : 0..MaxSize]
      BY <3>2, <3>3 DEF Entries
    <3> QED
      BY <3>1, <3>4
  <2>3. file \in [Files -> [ref : 0..(Cardinality(Procs) * (NFds + 1)),
                            type : {"none", "inode", "pipe"},
                            readable : BOOLEAN, writable : BOOLEAN,
                            obj : Inodes \cup PipePages \cup {None}, off : 0..MaxSize]]
    BY <2>1, <2>2 DEF TableTypes
  <2> QED
    BY <2>1, <2>3 DEF TableTypes, TypeOK
<1> QED
  BY <1>1, FileTableInvariant, PTL

(* An end of a pipe is open if and only if exactly one entry, or the       *)
(* fileclose that took it out of the table, will close it.                 *)
THEOREM PipeEndsOwned == Spec => []EndsOwned
<1>1. FileInv => EndsOwned
  <2> SUFFICES ASSUME FileInv, NEW g \in PipePages
               PROVE  /\ \A end \in {"read", "write"} :
                            Cardinality(Owners(g, end)) = IF end \in pipe[g] THEN 1 ELSE 0
                      /\ g \in kept <=> pipe[g] # {}
    BY DEF EndsOwned
  <2>1. /\ \A end \in {"read", "write"} :
              /\ end \in pipe[g] <=> Owners(g, end) # {}
              /\ \A x, y \in Owners(g, end) : x = y
        /\ g \in kept <=> pipe[g] # {}
    BY DEF FileInv, EndsFit
  <2>2. ASSUME NEW end \in {"read", "write"}
        PROVE  Cardinality(Owners(g, end)) = IF end \in pipe[g] THEN 1 ELSE 0
    <3>1. CASE end \in pipe[g]
      <4>1. PICK x : x \in Owners(g, end)
        BY <2>1, <3>1
      <4>2. Owners(g, end) = {x}
        BY <2>1, <4>1
      <4> QED
        BY <3>1, <4>2, FS_Singleton
    <3>2. CASE end \notin pipe[g]
      <4>1. Owners(g, end) = {}
        BY <2>1, <3>2
      <4> QED
        BY <3>2, <4>1, FS_EmptySet
    <3> QED
      BY <3>1, <3>2
  <2> QED
    BY <2>1, <2>2
<1> QED
  BY <1>1, FileTableInvariant, PTL

(* Processes that share a file read and write one after the other: each    *)
(* starts where the last one has stopped, whatever else runs between.      *)
THEOREM OffsetsTakenInTurn == Spec => []OffsetsInTurn
<1>1. FileInv => OffsetsInTurn
  BY InTurn DEF OffsetsInTurn
<1> QED
  BY <1>1, FileTableInvariant, PTL
=============================================================================

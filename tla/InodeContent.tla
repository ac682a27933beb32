---------------------------- MODULE InodeContent ----------------------------
(***************************************************************************)
(* What a file contains (fs.c: balloc, bzero, bfree, bmap, itrunc, readi,  *)
(* writei): a bitmap of blocks, and for every inode NDIRECT block numbers  *)
(* and the number of a block of NINDIRECT more.                            *)
(*                                                                         *)
(* A process works on an inode whose sleep lock it holds, so what only it  *)
(* can reach is one step; a step ends where the lock of a buffer that      *)
(* others use, the bitmap's, is given up.  A cell of a block is a byte, or *)
(* in an indirect block an address; a block has BSIZE of either.  The log  *)
(* (log.c) is not in the repository: nothing here crashes half way.        *)
(***************************************************************************)
EXTENDS Integers, Sequences, FiniteSets

CONSTANTS Procs, Inodes,
          Blocks,   \* the data blocks that balloc can give, above 0
          BSIZE, NDIRECT,
          W,        \* off and n are unsigned: modulo W
          Offsets, Sizes, Sources,  \* what is asked of readi and writei
          NoProc, NoBlock

NINDIRECT == BSIZE
MAXFILE == NDIRECT + NINDIRECT

VARIABLES bitmap,        \* the blocks marked in use
          data,          \* Blocks -> cells
          addrs, size,   \* struct inode: index NDIRECT is the indirect block
          dinode,        \* addrs and size on disk
          holder,        \* who holds ip->lock
          call,          \* the call under way: op, off, n, src, tot
          bno,           \* the block balloc has just marked for the inode
          panic,         \* why the kernel has stopped
          file           \* history: what the callers of an inode were promised

cvars == <<bitmap, data, addrs, size, dinode, holder, call, bno, panic, file>>

Cells == 0..(BSIZE - 1)

Init ==
    /\ bitmap = {}
    /\ data = [b \in Blocks |-> [c \in Cells |-> 0]]
    /\ addrs = [i \in Inodes |-> [k \in 0..NDIRECT |-> 0]]
    /\ size = [i \in Inodes |-> 0]
    /\ dinode = [i \in Inodes |-> <<addrs[i], 0>>]
    /\ holder = [i \in Inodes |-> NoProc]
    /\ call = [i \in Inodes |-> [op |-> "none"]]
    /\ bno = [i \in Inodes |-> NoBlock]
    /\ panic = "no"
    /\ file = [i \in Inodes |-> <<>>]

-----------------------------------------------------------------------------
(* The path from a block of the file to a block of the disk. *)

Indirect(i) == addrs[i][NDIRECT]

(* bmap's answer if it has nothing to allocate, else 0. *)
Mapped(i, bn) ==
    CASE bn < NDIRECT -> addrs[i][bn]
      [] bn >= NDIRECT /\ Indirect(i) = 0 -> 0
      [] OTHER -> data[Indirect(i)][bn - NDIRECT]

(* The byte a reader of the inode finds at offset x. *)
ByteAt(i, x) == data[Mapped(i, x \div BSIZE)][x % BSIZE]

Plus(a, b) == (a + b) % W

Doing(p, i, op) == panic = "no" /\ holder[i] = p /\ call[i].op = op

-----------------------------------------------------------------------------
(* The calls, with their early returns (nothing happens). *)

(* ilock, and the test at the head of writei. *)
Fits(i, off, n) ==
    /\ off <= size[i] /\ Plus(off, n) >= off
    /\ Plus(off, n) <= MAXFILE * BSIZE

Begin(p, i, c) ==
    /\ panic = "no"
    /\ holder[i] = NoProc /\ \A j \in Inodes : holder[j] # p
    /\ holder' = [holder EXCEPT ![i] = p]
    /\ call' = [call EXCEPT ![i] = c]
    /\ UNCHANGED <<bitmap, data, addrs, size, dinode, bno, panic, file>>

CallWrite(p, i) ==
    \E off \in Offsets, src \in Sources :
        /\ Fits(i, off, Len(src))
        /\ Begin(p, i, [op |-> "write", off |-> off, tot |-> 0, src |-> src])

(* readi cuts n short at the end of the file. *)
CallRead(p, i) ==
    \E off \in Offsets, n \in Sizes :
        /\ off <= size[i] /\ Plus(off, n) >= off
        /\ LET m == IF Plus(off, n) > size[i] THEN size[i] - off ELSE n
           IN  Begin(p, i, [op |-> "read", off |-> off, tot |-> 0, n |-> m,
                            dst |-> <<>>])

CallTrunc(p, i) == Begin(p, i, [op |-> "trunc", next |-> 0])

-----------------------------------------------------------------------------
(* bmap *)

(* balloc marks the first free block, under the bitmap's buffer. *)
Balloc(i) ==
    IF Blocks \subseteq bitmap
    THEN panic' = "out of blocks" /\ UNCHANGED <<bitmap, bno>>
    ELSE \E b \in Blocks \ bitmap :
            /\ \A a \in Blocks \ bitmap : b <= a
            /\ bitmap' = bitmap \cup {b}
            /\ bno' = [bno EXCEPT ![i] = b]
            /\ UNCHANGED panic

(* The block of the file that the next byte of the call is in. *)
Here(i) == call[i].off \div BSIZE

Left(i) ==
    CASE call[i].op = "write" -> Len(call[i].src) - call[i].tot
      [] call[i].op = "read" -> call[i].n - call[i].tot
      [] OTHER -> 0

Bmap(p, i) ==
    /\ Doing(p, i, call[i].op) /\ Left(i) > 0 /\ bno[i] = NoBlock
    /\ Mapped(i, Here(i)) = 0
    /\ Balloc(i)
    /\ UNCHANGED <<data, addrs, size, dinode, holder, call, file>>

(* bmap without bzero: a mutation. *)
AsItWas(b) == data[b]

Zeroed(b) == [c \in Cells |-> 0]

(* bzero, and the block becomes the file's.  A missing indirect block is   *)
(* allocated before the block its entry is for.                            *)
Enter(i, b, cells) ==
    LET bn == Here(i) IN
    IF bn >= NDIRECT /\ Indirect(i) # 0
    THEN /\ data' = [data EXCEPT ![b] = cells, ![Indirect(i)][bn - NDIRECT] = b]
         /\ UNCHANGED addrs
    ELSE /\ data' = [data EXCEPT ![b] = cells]
         /\ addrs' = [addrs EXCEPT ![i][IF bn < NDIRECT THEN bn ELSE NDIRECT] = b]

Bzero(p, i) ==
    /\ Doing(p, i, call[i].op) /\ bno[i] # NoBlock
    /\ Enter(i, bno[i], Zeroed(bno[i]))
    /\ bno' = [bno EXCEPT ![i] = NoBlock]
    /\ UNCHANGED <<bitmap, size, dinode, holder, call, panic, file>>

-----------------------------------------------------------------------------
(* One turn of the loops of writei and readi *)

Chunk(i) ==
    LET room == BSIZE - (call[i].off % BSIZE)
    IN  IF Left(i) < room THEN Left(i) ELSE room

Ready(p, i, op) ==
    Doing(p, i, op) /\ Left(i) > 0 /\ bno[i] = NoBlock /\ Mapped(i, Here(i)) # 0

Advance(i, m) == [call[i] EXCEPT !.off = @ + m, !.tot = @ + m]

Writei(p, i) ==
    /\ Ready(p, i, "write")
    /\ LET m == Chunk(i)
           b == Mapped(i, Here(i))
           c == call[i].off % BSIZE
       IN  /\ data' = [data EXCEPT ![b] =
                          [x \in Cells |-> IF x \in c..(c + m - 1)
                                           THEN call[i].src[call[i].tot + x - c + 1]
                                           ELSE @[x]]]
           /\ call' = [call EXCEPT ![i] = Advance(i, m)]
    /\ UNCHANGED <<bitmap, addrs, size, dinode, holder, bno, panic, file>>

Readi(p, i) ==
    /\ Ready(p, i, "read")
    /\ LET m == Chunk(i)
           b == Mapped(i, Here(i))
           c == call[i].off % BSIZE
       IN  call' = [call EXCEPT ![i] =
                       [Advance(i, m) EXCEPT !.dst =
                            @ \o [k \in 1..m |-> data[b][c + k - 1]]]]
    /\ UNCHANGED <<bitmap, data, addrs, size, dinode, holder, bno, panic, file>>

-----------------------------------------------------------------------------
(* The ends of the calls, with iunlock *)

Unlock(i) ==
    /\ holder' = [holder EXCEPT ![i] = NoProc]
    /\ call' = [call EXCEPT ![i] = [op |-> "none"]]

(* ip->size = n, and iupdate writes the dinode. *)
Iupdate(i, a, n) ==
    /\ size' = [size EXCEPT ![i] = n]
    /\ dinode' = [dinode EXCEPT ![i] = <<a, n>>]

Overwritten(f, from, src) ==
    LET to == from + Len(src)
        n == IF to > Len(f) THEN to ELSE Len(f)
    IN  [x \in 1..n |-> IF x \in (from + 1)..to THEN src[x - from] ELSE f[x]]

(* ip->size without iupdate: a mutation. *)
GrowsInMemory(i) ==
    /\ size' = IF call[i].tot > 0 /\ call[i].off > size[i]
               THEN [size EXCEPT ![i] = call[i].off] ELSE size
    /\ UNCHANGED dinode

Grows(i) == IF call[i].tot > 0 /\ call[i].off > size[i]
            THEN Iupdate(i, addrs[i], call[i].off)
            ELSE UNCHANGED <<size, dinode>>

WriteDone(p, i) ==
    /\ Doing(p, i, "write") /\ Left(i) = 0
    /\ Grows(i)
    /\ file' = [file EXCEPT ![i] =
                   Overwritten(@, call[i].off - call[i].tot, call[i].src)]
    /\ Unlock(i)
    /\ UNCHANGED <<bitmap, data, addrs, bno, panic>>

ReadDone(p, i) ==
    /\ Doing(p, i, "read") /\ Left(i) = 0
    /\ Unlock(i)
    /\ UNCHANGED <<bitmap, data, addrs, size, dinode, bno, panic, file>>

-----------------------------------------------------------------------------
(* itrunc *)

(* bfree, under the bitmap's buffer; it panics at a block that is free. *)
Bfree(b) ==
    IF b \in bitmap
    THEN bitmap' = bitmap \ {b} /\ UNCHANGED panic
    ELSE panic' = "freeing free block" /\ UNCHANGED bitmap

Truncating(p, i, k) == Doing(p, i, "trunc") /\ call[i].next = k

NextBlock(i) == call' = [call EXCEPT ![i].next = @ + 1]

TruncDirect(p, i) ==
    \E k \in 0..(NDIRECT - 1) :
        /\ Truncating(p, i, k)
        /\ IF addrs[i][k] = 0 THEN UNCHANGED <<bitmap, addrs, panic>>
           ELSE Bfree(addrs[i][k]) /\ addrs' = [addrs EXCEPT ![i][k] = 0]
        /\ NextBlock(i)
        /\ UNCHANGED <<data, size, dinode, holder, bno, file>>

(* The entries of the indirect block keep their values. *)
TruncIndirect(p, i) ==
    \E j \in 0..(NINDIRECT - 1) :
        /\ Truncating(p, i, NDIRECT + j)
        /\ IF Mapped(i, NDIRECT + j) = 0 THEN UNCHANGED <<bitmap, panic>>
           ELSE Bfree(Mapped(i, NDIRECT + j))
        /\ NextBlock(i)
        /\ UNCHANGED <<data, addrs, size, dinode, holder, bno, file>>

TruncDone(p, i) ==
    /\ Truncating(p, i, MAXFILE)
    /\ IF Indirect(i) = 0 THEN UNCHANGED <<bitmap, addrs, panic>>
       ELSE Bfree(Indirect(i)) /\ addrs' = [addrs EXCEPT ![i][NDIRECT] = 0]
    /\ Iupdate(i, addrs'[i], 0)
    /\ file' = [file EXCEPT ![i] = <<>>]
    /\ Unlock(i)
    /\ UNCHANGED <<data, bno>>

-----------------------------------------------------------------------------
(* A panic stops the machine. *)
Halted == panic # "no" /\ UNCHANGED cvars

Step(p, i) ==
    \/ CallWrite(p, i) \/ CallRead(p, i) \/ CallTrunc(p, i)
    \/ Bmap(p, i) \/ Bzero(p, i)
    \/ Writei(p, i) \/ WriteDone(p, i) \/ Readi(p, i) \/ ReadDone(p, i)
    \/ TruncDirect(p, i) \/ TruncIndirect(p, i) \/ TruncDone(p, i)

Next == (\E p \in Procs, i \in Inodes : Step(p, i)) \/ Halted

Spec == Init /\ [][Next]_cvars

-----------------------------------------------------------------------------
(* Properties *)

(* The places that name a block: slots of inodes, entries of indirect      *)
(* blocks, and what balloc has just returned.  itrunc has already freed    *)
(* what lies before its position.                                          *)
Freed(i, bn) == call[i].op = "trunc" /\ bn < call[i].next

Places == Inodes \X (0..(MAXFILE + 1))

Named(i, k) ==
    CASE k > MAXFILE -> IF bno[i] = NoBlock THEN 0 ELSE bno[i]
      [] k = MAXFILE -> Indirect(i)
      [] k < MAXFILE -> IF Freed(i, k) THEN 0 ELSE Mapped(i, k)

(* A block that is marked in use belongs to one place, and a block that    *)
(* belongs to a place is marked: nothing is shared by two files, nothing   *)
(* leaks, and bfree never finds a block free, although balloc and bfree of *)
(* different inodes interleave and recycled blocks have old contents.      *)
BlocksOwnedOnce ==
    panic = "no" =>
        LET owners == {q \in Places : Named(q[1], q[2]) # 0}
        IN  /\ bitmap = {Named(q[1], q[2]) : q \in owners}
            /\ Cardinality(owners) = Cardinality(bitmap)

NoPanic == panic \in {"no", "out of blocks"}

(* Between calls an inode contains what the writei calls put there, byte   *)
(* for byte, across the boundary of direct and indirect blocks and however *)
(* the calls were cut into chunks.                                         *)
ContentKept ==
    \A i \in Inodes : holder[i] = NoProc =>
        /\ size[i] = Len(file[i])
        /\ \A x \in 0..(size[i] - 1) : ByteAt(i, x) = file[i][x + 1]

(* ... and the dinode on disk says the same as the copy in memory, though  *)
(* bmap changes the copy and writei calls iupdate only when the file grew. *)
DinodeWritten ==
    \A i \in Inodes : holder[i] = NoProc => dinode[i] = <<addrs[i], size[i]>>

(* readi returns the bytes of the file in the range asked for, as far as   *)
(* the file goes, and allocates nothing.                                   *)
ReadsBack ==
    \A i \in Inodes : call[i].op = "read" =>
        /\ bno[i] = NoBlock
        /\ call[i].dst = SubSeq(file[i], call[i].off - call[i].tot + 1, call[i].off)
=============================================================================

------------------------------ MODULE FileTable ------------------------------
(***************************************************************************)
(* The file table of xv6 (file.c) and pipealloc (pipe.c): processes that   *)
(* open files and pipes, share them by dup and fork, read and write them,  *)
(* close them and exit.                                                    *)
(*                                                                         *)
(* A section under ftable.lock, under a pipe's lock or under the sleep     *)
(* lock of an inode is what the processes interleave: the first two are    *)
(* one step each, while a process that holds an inode's lock is visible.   *)
(* The system calls (sysfile.c, proc.c) are not in the repository: of them *)
(* the model has the order of their calls to file.c.  What goes through a  *)
(* pipe is the subject of Pipe, references to inodes of InodeCache.        *)
(***************************************************************************)
EXTENDS Integers, FiniteSets, Sequences

CONSTANTS Procs,     \* slots of the process table
          Files,     \* the entries of ftable.file
          NFds,      \* NOFILE
          Inodes,    \* the files of the disk
          PipePages, \* what kalloc has for pipes
          Modes,     \* the modes of open: is it readable, is it writable
          Sizes,     \* the n of read and write
          MaxChunk,  \* max of filewrite
          MaxSize,   \* the size no file exceeds
          None       \* 0, as a pointer

Fds == 1..NFds

Entries ==
    [ref : Nat, type : {"none", "inode", "pipe"}, readable : BOOLEAN,
     writable : BOOLEAN, obj : Inodes \cup PipePages \cup {None}, off : Nat]

(* sys_open sets both modes of a file, and sys_read and sys_write refuse a *)
(* negative n.                                                             *)
ASSUME FileTableAssumption ==
    /\ IsFiniteSet(Procs) /\ IsFiniteSet(Files) /\ Procs \cap Files = {}
    /\ NFds \in Nat
    /\ None \notin Procs \cup Files \cup Inodes \cup PipePages \cup Entries
    /\ Modes \subseteq BOOLEAN \X BOOLEAN
    /\ Sizes \subseteq Nat
    /\ MaxChunk \in Nat /\ MaxSize \in Nat

VARIABLES file,    \* ftable.file
          fd,      \* p->ofile
          pipe,    \* the ends of each pipe that are open
          kept,    \* the pipe pages that kfree has not got back
          iref,    \* references to each inode
          ilock,   \* the process that holds the sleep lock of each inode
          size,    \* and its size
          pc,      \* where each process stands
          hand,    \* files it has got, or has still to close
          ff,      \* fileclose's copy of the entry, or None
          ip,      \* the inode sys_open has got
          child,   \* the process fork makes
          io,      \* the file it reads or writes, and the bytes left
          moved    \* history: bytes read and written since the open

table == <<file, pipe, kept>>
inode == <<iref, ilock, size>>
local == <<hand, ff, ip, child, io>>
vars == <<table, fd, inode, pc, local, moved>>

Free == [ref |-> 0, type |-> "none", readable |-> FALSE, writable |-> FALSE,
         obj |-> None, off |-> 0]

NoIo == [f |-> None, op |-> "none", n |-> 0, r |-> 0]

Init ==
    /\ file = [f \in Files |-> Free]
    /\ fd = [p \in Procs |-> [k \in Fds |-> None]]
    /\ pipe = [g \in PipePages |-> {}]
    /\ kept = {}
    /\ iref = [i \in Inodes |-> 0]
    /\ ilock = [i \in Inodes |-> None]
    /\ size = [i \in Inodes |-> 0]
    /\ \E first \in Procs :
          pc = [p \in Procs |-> IF p = first THEN "user" ELSE "unused"]
    /\ hand = [p \in Procs |-> <<>>]
    /\ ff = [p \in Procs |-> None]
    /\ ip = [p \in Procs |-> None]
    /\ child = [p \in Procs |-> None]
    /\ io = [p \in Procs |-> NoIo]
    /\ moved = [f \in Files |-> 0]

-----------------------------------------------------------------------------
Goto(p, s) == pc' = [pc EXCEPT ![p] = s]

(* fdalloc takes the first free descriptor, filealloc the first free entry *)
(* of the table; which entry that is makes no difference to anybody.       *)
FirstOf(f, S) == f \in S /\ \A g \in S : f <= g

FreeFiles == {f \in Files : file[f].ref = 0}

FreeFds(p) == {k \in Fds : fd[p][k] = None}

(* filealloc: only ref is set, the rest is what fileclose left. *)
Filealloc(p) ==
    \E f \in Files :
        /\ f \in FreeFiles
        /\ file' = [file EXCEPT ![f].ref = 1]
        /\ hand' = [hand EXCEPT ![p] = Append(@, f)]

(* filedup *)
Filedup(f) == file' = [file EXCEPT ![f].ref = @ + 1]

-----------------------------------------------------------------------------
(* sys_open: namei, filealloc, fdalloc; the entry is filled in last. *)
Open(p, i) ==
    /\ pc[p] = "user"
    /\ iref' = [iref EXCEPT ![i] = @ + 1]
    /\ ip' = [ip EXCEPT ![p] = i]
    /\ Goto(p, "open")
    /\ UNCHANGED <<table, fd, ilock, size, hand, ff, child, io, moved>>

(* It gives up with iput, and fileclose if it has a file. *)
GiveUp(p, s) ==
    /\ iref' = [iref EXCEPT ![ip[p]] = @ - 1]
    /\ ip' = [ip EXCEPT ![p] = None]
    /\ Goto(p, s)

OpenAlloc(p) ==
    /\ pc[p] = "open"
    /\ \/ Filealloc(p) /\ Goto(p, "open_fd") /\ UNCHANGED <<iref, ip>>
       \/ FreeFiles = {} /\ GiveUp(p, "user") /\ UNCHANGED <<file, hand>>
    /\ UNCHANGED <<pipe, kept, fd, ilock, size, ff, child, io, moved>>

OpenFd(p, mode) ==
    /\ pc[p] = "open_fd"
    /\ LET f == hand[p][1]
       IN  \/ /\ \E k \in Fds :
                    /\ FirstOf(k, FreeFds(p))
                    /\ fd' = [fd EXCEPT ![p][k] = f]
              /\ file' = [file EXCEPT ![f] =
                    [ref |-> @.ref, type |-> "inode", readable |-> mode[1],
                     writable |-> mode[2], obj |-> ip[p], off |-> 0]]
              /\ moved' = [moved EXCEPT ![f] = 0]
              /\ hand' = [hand EXCEPT ![p] = <<>>]
              /\ ip' = [ip EXCEPT ![p] = None]
              /\ Goto(p, "user")
              /\ UNCHANGED iref
           \/ /\ FreeFds(p) = {}
              /\ GiveUp(p, "close")
              /\ UNCHANGED <<file, fd, hand, moved>>
    /\ UNCHANGED <<pipe, kept, ilock, size, ff, child, io>>

-----------------------------------------------------------------------------
(* sys_pipe and pipealloc *)
PipeCall(p) ==
    /\ pc[p] = "user"
    /\ Goto(p, "pipe")
    /\ UNCHANGED <<table, fd, inode, local, moved>>

(* The two filealloc of pipealloc; bad closes what there is.  (Mutation:   *)
(* it forgets the first file if there is no second one.)                   *)
PipeFileLeaks(p) ==
    /\ pc[p] = "pipe"
    /\ Len(hand[p]) < 2
    /\ \/ Filealloc(p) /\ UNCHANGED pc
       \/ /\ FreeFiles = {}
          /\ Goto(p, "user")
          /\ hand' = [hand EXCEPT ![p] = <<>>]
          /\ UNCHANGED file
    /\ UNCHANGED <<pipe, kept, fd, inode, ff, ip, child, io, moved>>

PipeFile(p) ==
    /\ pc[p] = "pipe"
    /\ Len(hand[p]) < 2
    /\ \/ Filealloc(p) /\ UNCHANGED pc
       \/ /\ FreeFiles = {}
          /\ Goto(p, IF hand[p] = <<>> THEN "user" ELSE "close")
          /\ UNCHANGED <<file, hand>>
    /\ UNCHANGED <<pipe, kept, fd, inode, ff, ip, child, io, moved>>

End(f, g, rd) ==
    [ref |-> file[f].ref, type |-> "pipe", readable |-> rd, writable |-> ~rd,
     obj |-> g, off |-> file[f].off]

(* kalloc, and the fields of pipe and files, which nobody else can see. *)
PipeKalloc(p) ==
    /\ pc[p] = "pipe"
    /\ Len(hand[p]) = 2
    /\ \/ \E g \in PipePages \ kept :
             /\ kept' = kept \cup {g}
             /\ pipe' = [pipe EXCEPT ![g] = {"read", "write"}]
             /\ file' = [file EXCEPT ![hand[p][1]] = End(hand[p][1], g, TRUE),
                                     ![hand[p][2]] = End(hand[p][2], g, FALSE)]
             /\ Goto(p, "pipe_fd")
       \/ Goto(p, "close") /\ UNCHANGED table
    /\ UNCHANGED <<fd, inode, local, moved>>

(* Two descriptors, or the pipe is closed again. *)
PipeFds(p) ==
    /\ pc[p] = "pipe_fd"
    /\ \/ \E k0, k1 \in Fds :
             /\ FirstOf(k0, FreeFds(p)) /\ FirstOf(k1, FreeFds(p) \ {k0})
             /\ fd' = [fd EXCEPT ![p][k0] = hand[p][1], ![p][k1] = hand[p][2]]
             /\ hand' = [hand EXCEPT ![p] = <<>>]
             /\ Goto(p, "user")
       \/ /\ Cardinality(FreeFds(p)) < 2
          /\ Goto(p, "close")
          /\ UNCHANGED <<fd, hand>>
    /\ UNCHANGED <<table, inode, ff, ip, child, io, moved>>

-----------------------------------------------------------------------------
(* sys_dup and fork *)
Dup(p) ==
    /\ pc[p] = "user"
    /\ \E j, k \in Fds :
          /\ fd[p][j] # None
          /\ FirstOf(k, FreeFds(p))
          /\ fd' = [fd EXCEPT ![p][k] = fd[p][j]]
          /\ Filedup(fd[p][j])
          /\ Goto(p, IF file[fd[p][j]].ref < 1 THEN "panic" ELSE "user")
    /\ UNCHANGED <<pipe, kept, inode, local, moved>>

Fork(p, q) ==
    /\ pc[p] = "user" /\ pc[q] = "unused"
    /\ pc' = [pc EXCEPT ![p] = "fork", ![q] = "embryo"]
    /\ child' = [child EXCEPT ![p] = q]
    /\ UNCHANGED <<table, fd, inode, hand, ff, ip, io, moved>>

ToCopy(p) == {k \in Fds : fd[p][k] # None /\ fd[child[p]][k] = None}

ForkDup(p) ==
    /\ pc[p] = "fork"
    /\ \E k \in Fds :
          /\ FirstOf(k, ToCopy(p))
          /\ Filedup(fd[p][k])
          /\ fd' = [fd EXCEPT ![child[p]][k] = fd[p][k]]
          /\ Goto(p, IF file[fd[p][k]].ref < 1 THEN "panic" ELSE "fork")
    /\ UNCHANGED <<pipe, kept, inode, local, moved>>

ForkDone(p) ==
    /\ pc[p] = "fork"
    /\ ToCopy(p) = {}
    /\ pc' = [pc EXCEPT ![p] = "user", ![child[p]] = "user"]
    /\ child' = [child EXCEPT ![p] = None]
    /\ UNCHANGED <<table, fd, inode, hand, ff, ip, io, moved>>

-----------------------------------------------------------------------------
(* sys_close and exit: the descriptor first, the file then. *)
CloseFd(p, k) ==
    /\ pc[p] = "user"
    /\ fd[p][k] # None
    /\ hand' = [hand EXCEPT ![p] = <<fd[p][k]>>]
    /\ fd' = [fd EXCEPT ![p][k] = None]
    /\ Goto(p, "close")
    /\ UNCHANGED <<table, inode, ff, ip, child, io, moved>>

(* One process, the one that waits for the others, never exits.  exit      *)
(* closes one descriptor after the other.                                  *)
Exit(p) ==
    /\ pc[p] = "user"
    /\ \E q \in Procs \ {p} : pc[q] \notin {"unused", "embryo", "exit"}
    /\ Goto(p, "exit")
    /\ UNCHANGED <<table, fd, inode, local, moved>>

ToClose(p) == {k \in Fds : fd[p][k] # None}

ExitFd(p) ==
    /\ pc[p] = "exit" /\ hand[p] = <<>> /\ ff[p] = None
    /\ \E k \in Fds :
          /\ FirstOf(k, ToClose(p))
          /\ hand' = [hand EXCEPT ![p] = <<fd[p][k]>>]
          /\ fd' = [fd EXCEPT ![p][k] = None]
    /\ UNCHANGED <<table, inode, pc, ff, ip, child, io, moved>>

(* fileclose, under ftable.lock *)
Closing(p) == pc[p] \in {"close", "exit"} /\ hand[p] # <<>> /\ ff[p] = None

FilecloseShared(p) ==
    /\ Closing(p)
    /\ LET f == Head(hand[p])
       IN  /\ file[f].ref # 1
           /\ file' = [file EXCEPT ![f].ref = @ - 1]
           /\ hand' = [hand EXCEPT ![p] = Tail(@)]
           /\ IF file[f].ref < 1 THEN Goto(p, "panic") ELSE UNCHANGED pc
    /\ UNCHANGED <<pipe, kept, fd, inode, ff, ip, child, io, moved>>

FilecloseLastKeepsType(p) ==    \* a mutation: f->type = FD_NONE is missing
    /\ Closing(p)
    /\ LET f == Head(hand[p])
       IN  /\ file[f].ref = 1
           /\ ff' = [ff EXCEPT ![p] = file[f]]
           /\ file' = [file EXCEPT ![f].ref = 0]
           /\ hand' = [hand EXCEPT ![p] = Tail(@)]
    /\ UNCHANGED <<pipe, kept, fd, inode, pc, ip, child, io, moved>>

FilecloseLast(p) ==
    /\ Closing(p)
    /\ LET f == Head(hand[p])
       IN  /\ file[f].ref = 1
           /\ ff' = [ff EXCEPT ![p] = file[f]]
           /\ file' = [file EXCEPT ![f].ref = 0, ![f].type = "none"]
           /\ hand' = [hand EXCEPT ![p] = Tail(@)]
    /\ UNCHANGED <<pipe, kept, fd, inode, pc, ip, child, io, moved>>

(* and after it: pipeclose, or iput, or nothing if the entry was not used. *)
EndOf(e) == IF e.writable THEN "write" ELSE "read"

FileclosePipe(p) ==
    /\ ff[p] # None /\ ff[p].type = "pipe"
    /\ LET g == ff[p].obj
       IN  /\ pipe' = [pipe EXCEPT ![g] = @ \ {EndOf(ff[p])}]
           /\ kept' = IF pipe[g] \subseteq {EndOf(ff[p])} THEN kept \ {g} ELSE kept
    /\ ff' = [ff EXCEPT ![p] = None]
    /\ UNCHANGED <<file, fd, inode, pc, hand, ip, child, io, moved>>

FilecloseInode(p) ==
    /\ ff[p] # None /\ ff[p].type = "inode"
    /\ iref' = [iref EXCEPT ![ff[p].obj] = @ - 1]
    /\ ff' = [ff EXCEPT ![p] = None]
    /\ UNCHANGED <<table, fd, ilock, size, pc, hand, ip, child, io, moved>>

FilecloseNone(p) ==
    /\ ff[p] # None /\ ff[p].type = "none"
    /\ ff' = [ff EXCEPT ![p] = None]
    /\ UNCHANGED <<table, fd, inode, pc, hand, ip, child, io, moved>>

CloseDone(p) ==
    /\ hand[p] = <<>> /\ ff[p] = None
    /\ \/ pc[p] = "close" /\ Goto(p, "user")
       \/ pc[p] = "exit" /\ ToClose(p) = {} /\ Goto(p, "unused")
    /\ UNCHANGED <<table, fd, inode, local, moved>>

-----------------------------------------------------------------------------
(* fileread and filewrite of an inode *)
Read(p, k, n) ==
    /\ pc[p] = "user"
    /\ fd[p][k] # None
    /\ file[fd[p][k]].readable /\ file[fd[p][k]].type # "pipe"
    /\ io' = [io EXCEPT ![p] = [f |-> fd[p][k], op |-> "read", n |-> n, r |-> 0]]
    /\ Goto(p, IF file[fd[p][k]].type = "inode" THEN "ilock" ELSE "panic")
    /\ UNCHANGED <<table, fd, inode, hand, ff, ip, child, moved>>

Write(p, k, n) ==
    /\ pc[p] = "user"
    /\ fd[p][k] # None
    /\ file[fd[p][k]].writable /\ file[fd[p][k]].type # "pipe"
    /\ n > 0
    /\ io' = [io EXCEPT ![p] = [f |-> fd[p][k], op |-> "write", n |-> n, r |-> 0]]
    /\ Goto(p, IF file[fd[p][k]].type = "inode" THEN "ilock" ELSE "panic")
    /\ UNCHANGED <<table, fd, inode, hand, ff, ip, child, moved>>

Ip(p) == file[io[p].f].obj

Ilock(p) ==
    /\ pc[p] = "ilock"
    /\ ilock[Ip(p)] = None
    /\ ilock' = [ilock EXCEPT ![Ip(p)] = p]
    /\ Goto(p, "rw")
    /\ UNCHANGED <<table, fd, iref, size, local, moved>>

Smaller(x, y) == IF x <= y THEN x ELSE y

(* readi: what there is up to the size.  (Mutation: iunlock comes before   *)
(* the offset is moved.)                                                   *)
ReadiUnlocks(p) ==
    /\ pc[p] = "rw" /\ io[p].op = "read"
    /\ LET f == io[p].f
           r == Smaller(io[p].n, size[Ip(p)] - file[f].off)
       IN  /\ io' = [io EXCEPT ![p].r = r]
           /\ moved' = [moved EXCEPT ![f] = @ + r]
    /\ ilock' = [ilock EXCEPT ![Ip(p)] = None]
    /\ Goto(p, "off")
    /\ UNCHANGED <<table, fd, iref, size, hand, ff, ip, child>>

Readi(p) ==
    /\ pc[p] = "rw" /\ io[p].op = "read"
    /\ LET f == io[p].f
           r == Smaller(io[p].n, size[Ip(p)] - file[f].off)
       IN  /\ io' = [io EXCEPT ![p].r = r]
           /\ moved' = [moved EXCEPT ![f] = @ + r]
    /\ Goto(p, "off")
    /\ UNCHANGED <<table, fd, inode, hand, ff, ip, child>>

(* writei: a chunk, all of it or, beyond the largest size, -1.             *)
(* (Mutation: only the offset is compared with the largest size.)          *)
FitsOffset(off, n1) == off <= MaxSize

Fits(off, n1) == off + n1 <= MaxSize

Writei(p) ==
    /\ pc[p] = "rw" /\ io[p].op = "write"
    /\ LET f == io[p].f
           n1 == Smaller(io[p].n, MaxChunk)
           fits == Fits(file[f].off, n1)
       IN  /\ io' = [io EXCEPT ![p].r = IF fits THEN n1 ELSE -1]
           /\ moved' = IF fits THEN [moved EXCEPT ![f] = @ + n1] ELSE moved
           /\ size' = IF fits /\ file[f].off + n1 > size[Ip(p)]
                      THEN [size EXCEPT ![Ip(p)] = file[f].off + n1] ELSE size
    /\ Goto(p, "off")
    /\ UNCHANGED <<table, fd, iref, ilock, hand, ff, ip, child>>

(* if(r > 0) f->off += r *)
Advance(p) ==
    /\ pc[p] = "off"
    /\ file' = IF io[p].r > 0 THEN [file EXCEPT ![io[p].f].off = @ + io[p].r] ELSE file
    /\ Goto(p, "iunlock")
    /\ UNCHANGED <<pipe, kept, fd, inode, local, moved>>

(* iunlock; filewrite goes on with the next chunk. *)
Iunlock(p) ==
    /\ pc[p] = "iunlock"
    /\ ilock' = [ilock EXCEPT ![Ip(p)] = None]
    /\ IF io[p].op = "write" /\ io[p].r > 0 /\ io[p].n > io[p].r
       THEN /\ io' = [io EXCEPT ![p].n = @ - io[p].r]
            /\ Goto(p, "ilock")
       ELSE /\ io' = [io EXCEPT ![p] = NoIo]
            /\ Goto(p, "user")
    /\ UNCHANGED <<table, fd, iref, size, hand, ff, ip, child, moved>>

-----------------------------------------------------------------------------
Call(p) ==
    \/ \E i \in Inodes : Open(p, i)
    \/ PipeCall(p)
    \/ Dup(p)
    \/ \E q \in Procs : Fork(p, q)
    \/ \E k \in Fds : CloseFd(p, k)
    \/ Exit(p)
    \/ \E k \in Fds, n \in Sizes : Read(p, k, n) \/ Write(p, k, n)

Opening(p) == OpenAlloc(p) \/ \E mode \in Modes : OpenFd(p, mode)

Pipealloc(p) == PipeFile(p) \/ PipeKalloc(p) \/ PipeFds(p)

Forking(p) == ForkDup(p) \/ ForkDone(p)

Fileclose(p) ==
    \/ FilecloseShared(p)
    \/ FilecloseLast(p)
    \/ FileclosePipe(p)
    \/ FilecloseInode(p)
    \/ FilecloseNone(p)
    \/ ExitFd(p)
    \/ CloseDone(p)

ReadWrite(p) == Ilock(p) \/ Readi(p) \/ Writei(p) \/ Advance(p) \/ Iunlock(p)

Running(p) == Opening(p) \/ Pipealloc(p) \/ Forking(p) \/ Fileclose(p) \/ ReadWrite(p)

Next == \E p \in Procs : Call(p) \/ Running(p)

Spec == Init /\ [][Next]_vars

-----------------------------------------------------------------------------
(* Properties *)

(* Types, and no panic of filedup, fileclose, fileread or filewrite: a     *)
(* descriptor never leads to an entry without references or without type.  *)
TypeOK ==
    /\ file \in [Files -> [ref : 0..(Cardinality(Procs) * (NFds + 1)),
                           type : {"none", "inode", "pipe"},
                           readable : BOOLEAN, writable : BOOLEAN,
                           obj : Inodes \cup PipePages \cup {None}, off : 0..MaxSize]]
    /\ fd \in [Procs -> [Fds -> Files \cup {None}]]
    /\ pipe \in [PipePages -> SUBSET {"read", "write"}]
    /\ kept \subseteq PipePages
    /\ ilock \in [Inodes -> Procs \cup {None}]
    /\ size \in [Inodes -> 0..MaxSize]
    /\ pc \in [Procs -> {"unused", "embryo", "user", "open", "open_fd", "pipe",
                         "pipe_fd", "fork", "close", "exit", "ilock", "rw", "off",
                         "iunlock"}]

(* The places where a process keeps pointers to files: its descriptors and *)
(* the local variables of a call.                                          *)
Places == 1..(NFds + 2)

Held(p, k) ==
    IF k <= NFds THEN fd[p][k]
    ELSE IF k - NFds <= Len(hand[p]) THEN hand[p][k - NFds] ELSE None

Pointers(f) == {x \in Procs \X Places : Held(x[1], x[2]) = f}

(* Who refers to an inode: the files open on it, the fileclose that has    *)
(* still to put it, and sys_open.                                          *)
OpenOn(i) ==
    {f \in Files : file[f].ref > 0 /\ file[f].type = "inode" /\ file[f].obj = i}

PutBy(i) == {p \in Procs : ff[p] # None /\ ff[p].type = "inode" /\ ff[p].obj = i}

OpenedBy(i) == {p \in Procs : ip[p] = i}

(* f->ref is the number of descriptors and of pointers in some call, and   *)
(* an inode has as many references as it should: whatever runs out in open *)
(* or pipe.                                                                *)
RefsCounted ==
    /\ \A f \in Files : file[f].ref = Cardinality(Pointers(f))
    /\ \A i \in Inodes :
          iref[i] = Cardinality(OpenOn(i)) + Cardinality(PutBy(i)) + Cardinality(OpenedBy(i))

Leads(e, g, end) == e.type = "pipe" /\ e.obj = g /\ (e.writable <=> end = "write")

Owners(g, end) ==
    {f \in Files : file[f].ref > 0 /\ Leads(file[f], g, end)} \cup
    {p \in Procs : ff[p] # None /\ Leads(ff[p], g, end)}

(* Each open end of a pipe belongs to exactly one file, or to the one      *)
(* fileclose that is on its way to close it; its page is kept as long as   *)
(* an end is open.  So the end is closed with the last descriptor, even    *)
(* if the entry has meanwhile been handed out again.                       *)
EndsOwned ==
    \A g \in PipePages :
        /\ \A end \in {"read", "write"} :
              Cardinality(Owners(g, end)) = IF end \in pipe[g] THEN 1 ELSE 0
        /\ g \in kept <=> pipe[g] # {}

(* Whoever has the inode's lock finds f->off where the reads and writes    *)
(* through this file have left it, those of other processes included: no   *)
(* byte is read twice and no chunk is written over another one.            *)
OffsetsInTurn ==
    \A p \in Procs : pc[p] = "rw" => file[io[p].f].off = moved[io[p].f]

-----------------------------------------------------------------------------
(* What the properties rest on: the types of all variables, and            *)
TableTypes ==
    /\ file \in [Files -> Entries]
    /\ fd \in [Procs -> [Fds -> Files \cup {None}]]
    /\ pipe \in [PipePages -> SUBSET {"read", "write"}]
    /\ kept \subseteq PipePages
    /\ iref \in [Inodes -> Nat]
    /\ ilock \in [Inodes -> Procs \cup {None}]
    /\ size \in [Inodes -> 0..MaxSize]
    /\ pc \in [Procs -> {"unused", "embryo", "user", "open", "open_fd", "pipe",
                         "pipe_fd", "fork", "close", "exit", "ilock", "rw", "off",
                         "iunlock"}]
    /\ hand \in [Procs -> Seq(Files)]
    /\ ff \in [Procs -> Entries \cup {None}]
    /\ ip \in [Procs -> Inodes \cup {None}]
    /\ child \in [Procs -> Procs \cup {None}]
    /\ io \in [Procs -> [f : Files \cup {None}, op : {"none", "read", "write"},
                         n : Nat, r : Int]]
    /\ moved \in [Files -> Nat]

(* what a process has in hand at each place of its calls,                  *)
HandFits(p) ==
    /\ Len(hand[p]) <= 2
    /\ Len(hand[p]) = 2 => hand[p][1] # hand[p][2]
    /\ hand[p] # <<>> => pc[p] \in {"open_fd", "pipe", "pipe_fd", "close", "exit"}
    /\ pc[p] = "open_fd" => Len(hand[p]) = 1
    /\ pc[p] = "pipe_fd" => Len(hand[p]) = 2
    /\ ip[p] # None <=> pc[p] \in {"open", "open_fd"}
    /\ ff[p] # None => pc[p] \in {"close", "exit"}

HandsFit == \A p \in Procs : HandFits(p)

(* whose child an embryo is,                                               *)
ForksFit ==
    /\ \A p \in Procs :
          pc[p] = "fork" => child[p] \in Procs /\ pc[child[p]] = "embryo"
    /\ \A p, q \in Procs :
          pc[p] = "fork" /\ pc[q] = "fork" /\ child[p] = child[q] => p = q

(* what type an entry has, and that nobody shares it before it has one,    *)
EntryFits(e) ==
    /\ e.type = "inode" => e.obj \in Inodes
    /\ e.type = "pipe" => e.obj \in PipePages

Fresh(f) == file[f].type = "none" /\ file[f].ref = 1

EntriesFit ==
    /\ \A f \in Files : EntryFits(file[f]) /\ (file[f].ref = 0 => file[f].type = "none")
    /\ \A p \in Procs : ff[p] # None => EntryFits(ff[p])
    /\ \A p \in Procs, k \in Fds : fd[p][k] # None => file[fd[p][k]].type # "none"
    /\ \A p \in Procs :
          /\ pc[p] \in {"open_fd", "pipe"} =>
                \A k \in 1..2 : k <= Len(hand[p]) => Fresh(hand[p][k])
          /\ pc[p] = "pipe_fd" => \A k \in 1..2 : file[hand[p][k]].type = "pipe"

(* who owns the ends of a pipe,                                            *)
EndsFit ==
    \A g \in PipePages :
        /\ \A end \in {"read", "write"} :
              /\ end \in pipe[g] <=> Owners(g, end) # {}
              /\ \A x, y \in Owners(g, end) : x = y
        /\ g \in kept <=> pipe[g] # {}

(* and who reads or writes at which offset, under which lock.              *)
Holding == {"rw", "off", "iunlock"}

IoFits(p) ==
    pc[p] \in Holding \cup {"ilock"} =>
        /\ \E k \in Fds : fd[p][k] # None /\ fd[p][k] = io[p].f
        /\ file[io[p].f].type = "inode"
        /\ io[p].op # "none"

LocksOwned ==
    \A p \in Procs, i \in Inodes : ilock[i] = p <=> pc[p] \in Holding /\ Ip(p) = i

Done(p) == IF io[p].r > 0 THEN io[p].r ELSE 0

OffsetsFit ==
    /\ \A f \in Files :
          /\ file[f].off <= MaxSize
          /\ file[f].type = "inode" =>
                /\ file[f].off <= size[file[f].obj]
                /\ \/ moved[f] = file[f].off
                   \/ \E p \in Procs : pc[p] = "off" /\ io[p].f = f
    /\ \A p \in Procs :
          pc[p] = "off" => /\ moved[io[p].f] = file[io[p].f].off + Done(p)
                           /\ moved[io[p].f] <= size[Ip(p)]

FileInv ==
    /\ TableTypes
    /\ HandsFit
    /\ ForksFit
    /\ EntriesFit
    /\ RefsCounted
    /\ EndsFit
    /\ \A p \in Procs : IoFits(p)
    /\ LocksOwned
    /\ OffsetsFit
=============================================================================

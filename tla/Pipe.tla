--------------------------------- MODULE Pipe ---------------------------------
(***************************************************************************)
(* xv6 pipes (pipe.c): processes that share the read end or the write end  *)
(* of one pipe, from pipealloc to the kfree of the last pipeclose.         *)
(*                                                                         *)
(* p->lock is held from acquire to release, except inside sleep, which     *)
(* gives it up and sleeps in one step (that is what the lock argument of   *)
(* sleep is for) and takes it again before it returns.  The tests of       *)
(* myproc()->killed and the sleep that follows are separate steps, for     *)
(* kill takes no pipe lock and may come in between.  sleep, wakeup and     *)
(* kill belong to proc.c, and are modelled by what pipe.c relies on.       *)
(***************************************************************************)
EXTENDS Integers, FiniteSets, Sequences

CONSTANTS Readers,   \* the processes with the read end open
          Writers,   \* the processes with the write end open
          Bytes,     \* the values of a byte
          PipeSize,  \* PIPESIZE
          W,         \* the counters are unsigned: they wrap at W (2^32)
          Sizes,     \* the n of the calls
          MaxWrites, \* bound: calls of write of each writer
          MaxKills,  \* bound: processes that are killed
          NoProc     \* no process

Procs == Readers \cup Writers

ASSUME PipeAssumption ==
    /\ Readers # {} /\ Writers # {} /\ Readers \cap Writers = {}
    /\ PipeSize \in Nat \ {0}
    /\ W \in Nat /\ W >= 2 * PipeSize /\ W % PipeSize = 0
    /\ Sizes \subseteq Nat
    /\ MaxWrites \in Nat /\ MaxKills \in Nat
    /\ IsFiniteSet(Procs)
    /\ NoProc \notin Procs

VARIABLES data, nread, nwrite, readopen, writeopen,  \* struct pipe
          lock,    \* the process that holds p->lock, or NoProc
          freed,   \* the page of the pipe was given to kfree
          holders, \* the processes whose file still refers to the pipe
          pc,      \* where each process stands
          n, i,    \* the size of its call and the bytes it moved
          killed,  \* myproc()->killed
          writes,  \* the calls of write it has left
          eof      \* history: the readers whose read of n > 0 bytes returned 0

pipe == <<data, nread, nwrite, readopen, writeopen>>
vars == <<data, nread, nwrite, readopen, writeopen, lock, freed, holders, pc,
          n, i, killed, writes, eof>>

(* pipealloc: the pipe is empty and both ends are open. *)
Init ==
    /\ data \in {[k \in 0..(PipeSize - 1) |-> b] : b \in Bytes}
    /\ nread = 0 /\ nwrite = 0
    /\ readopen = TRUE /\ writeopen = TRUE
    /\ lock = NoProc
    /\ freed = FALSE
    /\ holders = Procs
    /\ pc = [p \in Procs |-> "user"]
    /\ n = [p \in Procs |-> 0]
    /\ i = [p \in Procs |-> 0]
    /\ killed = [p \in Procs |-> FALSE]
    /\ writes = [w \in Writers |-> MaxWrites]
    /\ eof = {}

-----------------------------------------------------------------------------
(* Unsigned arithmetic on the counters. *)
Inc(x) == IF x + 1 = W THEN 0 ELSE x + 1

Plus(x, k) == IF x + k >= W THEN x + k - W ELSE x + k

(* The test of pipewrite with a limit one too large: a mutation. *)
FullLate == nwrite = Plus(nread, PipeSize + 1)

Full == nwrite = Plus(nread, PipeSize)

Empty == nread = nwrite

(* wakeup: every process that sleeps at s is runnable again, at t. *)
Awakened(f, s, t) == [p \in Procs |-> IF f[p] = s THEN t ELSE f[p]]

WakeReaders(f) == Awakened(f, "r_asleep", "r_woken")

WakeWriters(f) == Awakened(f, "w_asleep", "w_woken")

(* release and return: the locals of the call are gone. *)
Return(p) ==
    /\ lock' = NoProc
    /\ n' = [n EXCEPT ![p] = 0]
    /\ i' = [i EXCEPT ![p] = 0]

(* A process sleeps at s until wakeup or kill, and takes the lock again.   *)
Sleep(p, s, t) ==
    /\ pc[p] = s
    /\ pc' = [pc EXCEPT ![p] = t]
    /\ lock' = NoProc
    /\ UNCHANGED <<pipe, freed, holders, n, i, killed, writes, eof>>

Resume(p, s, t) ==
    /\ pc[p] = s
    /\ lock = NoProc
    /\ lock' = p
    /\ pc' = [pc EXCEPT ![p] = t]
    /\ UNCHANGED <<pipe, freed, holders, n, i, killed, writes, eof>>

-----------------------------------------------------------------------------
(* pipewrite *)

(* The call and its acquire. *)
WriteCall(w, size) ==
    /\ pc[w] = "user"
    /\ ~killed[w]
    /\ writes[w] > 0
    /\ lock = NoProc
    /\ lock' = w
    /\ writes' = [writes EXCEPT ![w] = @ - 1]
    /\ n' = [n EXCEPT ![w] = size]
    /\ i' = [i EXCEPT ![w] = 0]
    /\ pc' = [pc EXCEPT ![w] = "w_loop"]
    /\ UNCHANGED <<pipe, freed, holders, killed, eof>>

(* A byte is stored while the pipe is not full: the readers are woken only *)
(* at the end or when the pipe fills.                                      *)
WriteByte(w, b) ==
    /\ pc[w] = "w_loop"
    /\ i[w] < n[w]
    /\ ~Full
    /\ data' = [data EXCEPT ![nwrite % PipeSize] = b]
    /\ nwrite' = Inc(nwrite)
    /\ i' = [i EXCEPT ![w] = @ + 1]
    /\ UNCHANGED <<nread, readopen, writeopen, lock, freed, holders, pc, n,
                   killed, writes, eof>>

(* The pipe is full: give up if nobody reads or the process was killed.    *)
(* The bytes stored so far stay in the pipe.                               *)
WriteFails(w) ==
    /\ pc[w] = "w_loop"
    /\ i[w] < n[w]
    /\ Full
    /\ ~readopen \/ killed[w]
    /\ Return(w)
    /\ pc' = [pc EXCEPT ![w] = "user"]
    /\ UNCHANGED <<pipe, freed, holders, killed, writes, eof>>

(* The pipe is full: wake the readers, and go to sleep. *)
WriteBlocks(w) ==
    /\ pc[w] = "w_loop"
    /\ i[w] < n[w]
    /\ Full
    /\ readopen /\ ~killed[w]
    /\ pc' = WakeReaders([pc EXCEPT ![w] = "w_sleep"])
    /\ UNCHANGED <<pipe, lock, freed, holders, n, i, killed, writes, eof>>

(* pipewrite that does not wake the readers when it returns: a mutation.   *)
WriteReturnsQuietly(w) ==
    /\ pc[w] = "w_loop"
    /\ i[w] = n[w]
    /\ Return(w)
    /\ pc' = [pc EXCEPT ![w] = "user"]
    /\ UNCHANGED <<pipe, freed, holders, killed, writes, eof>>

WriteReturns(w) ==
    /\ pc[w] = "w_loop"
    /\ i[w] = n[w]
    /\ Return(w)
    /\ pc' = WakeReaders([pc EXCEPT ![w] = "user"])
    /\ UNCHANGED <<pipe, freed, holders, killed, writes, eof>>

-----------------------------------------------------------------------------
(* piperead *)

ReadCall(r, size) ==
    /\ pc[r] = "user"
    /\ ~killed[r]
    /\ r \notin eof
    /\ lock = NoProc
    /\ lock' = r
    /\ n' = [n EXCEPT ![r] = size]
    /\ i' = [i EXCEPT ![r] = 0]
    /\ pc' = [pc EXCEPT ![r] = "r_wait"]
    /\ UNCHANGED <<pipe, freed, holders, killed, writes, eof>>

(* Nothing to read and somebody may write: -1 if killed. *)
ReadFails(r) ==
    /\ pc[r] = "r_wait"
    /\ Empty /\ writeopen
    /\ killed[r]
    /\ Return(r)
    /\ pc' = [pc EXCEPT ![r] = "user"]
    /\ UNCHANGED <<pipe, freed, holders, killed, writes, eof>>

ReadBlocks(r) ==
    /\ pc[r] = "r_wait"
    /\ Empty /\ writeopen
    /\ ~killed[r]
    /\ pc' = [pc EXCEPT ![r] = "r_sleep"]
    /\ UNCHANGED <<pipe, lock, freed, holders, n, i, killed, writes, eof>>

ReadStarts(r) ==
    /\ pc[r] = "r_wait"
    /\ ~Empty \/ ~writeopen
    /\ pc' = [pc EXCEPT ![r] = "r_copy"]
    /\ UNCHANGED <<pipe, lock, freed, holders, n, i, killed, writes, eof>>

(* The byte goes to the reader's buffer, which nothing here looks at. *)
ReadByte(r) ==
    /\ pc[r] = "r_copy"
    /\ i[r] < n[r]
    /\ ~Empty
    /\ nread' = Inc(nread)
    /\ i' = [i EXCEPT ![r] = @ + 1]
    /\ UNCHANGED <<data, nwrite, readopen, writeopen, lock, freed, holders, pc,
                   n, killed, writes, eof>>

(* piperead that wakes the writers only when it took all it wanted: a      *)
(* mutation.                                                               *)
ReadReturnsQuietly(r) ==
    /\ pc[r] = "r_copy"
    /\ i[r] = n[r] \/ Empty
    /\ Return(r)
    /\ pc' = IF i[r] = n[r] THEN WakeWriters([pc EXCEPT ![r] = "user"])
                            ELSE [pc EXCEPT ![r] = "user"]
    /\ eof' = IF i[r] = 0 /\ n[r] > 0 THEN eof \cup {r} ELSE eof
    /\ UNCHANGED <<pipe, freed, holders, killed, writes>>

(* The writers are woken, whatever was read; 0 bytes mean end of file. *)
ReadReturns(r) ==
    /\ pc[r] = "r_copy"
    /\ i[r] = n[r] \/ Empty
    /\ Return(r)
    /\ pc' = WakeWriters([pc EXCEPT ![r] = "user"])
    /\ eof' = IF i[r] = 0 /\ n[r] > 0 THEN eof \cup {r} ELSE eof
    /\ UNCHANGED <<pipe, freed, holders, killed, writes>>

-----------------------------------------------------------------------------
(* fileclose: only the last reference to an end leads to pipeclose. *)

Sharers(p) == IF p \in Readers THEN Readers ELSE Writers

(* fileclose that closes the pipe with every file: a mutation. *)
CloseFileAlways(p) ==
    /\ pc[p] = "user"
    /\ p \in holders
    /\ holders' = holders \ {p}
    /\ pc' = [pc EXCEPT ![p] = "close"]
    /\ UNCHANGED <<pipe, lock, freed, n, i, killed, writes, eof>>

CloseFile(p) ==
    /\ pc[p] = "user"
    /\ p \in holders
    /\ holders' = holders \ {p}
    /\ pc' = [pc EXCEPT ![p] =
                 IF holders \cap Sharers(p) = {p} THEN "close" ELSE "gone"]
    /\ UNCHANGED <<pipe, lock, freed, n, i, killed, writes, eof>>

(* pipeclose from acquire to release: the other side is woken, and the     *)
(* last end to close goes on to kfree.                                     *)
PipeClose(p) ==
    /\ pc[p] = "close"
    /\ lock = NoProc
    /\ readopen' = (readopen /\ p \in Writers)
    /\ writeopen' = (writeopen /\ p \in Readers)
    /\ LET next == [pc EXCEPT ![p] =
                       IF readopen' \/ writeopen' THEN "gone" ELSE "free"]
       IN  pc' = IF p \in Writers THEN WakeReaders(next) ELSE WakeWriters(next)
    /\ UNCHANGED <<data, nread, nwrite, lock, freed, holders, n, i, killed,
                   writes, eof>>

Kfree(p) ==
    /\ pc[p] = "free"
    /\ freed' = TRUE
    /\ pc' = [pc EXCEPT ![p] = "gone"]
    /\ UNCHANGED <<pipe, lock, holders, n, i, killed, writes, eof>>

(* kill: a process that sleeps is woken, one that is about to is not.      *)
Kill(p) ==
    /\ pc[p] # "gone"
    /\ ~killed[p]
    /\ Cardinality({q \in Procs : killed[q]}) < MaxKills
    /\ killed' = [killed EXCEPT ![p] = TRUE]
    /\ pc' = [pc EXCEPT ![p] = CASE @ = "r_asleep" -> "r_woken"
                                 [] @ = "w_asleep" -> "w_woken"
                                 [] OTHER -> @]
    /\ UNCHANGED <<pipe, lock, freed, holders, n, i, writes, eof>>

-----------------------------------------------------------------------------
Write(w) ==
    \/ \E size \in Sizes : WriteCall(w, size)
    \/ \E b \in Bytes : WriteByte(w, b)
    \/ WriteFails(w)
    \/ WriteBlocks(w)
    \/ Sleep(w, "w_sleep", "w_asleep")
    \/ Resume(w, "w_woken", "w_loop")
    \/ WriteReturns(w)

Read(r) ==
    \/ \E size \in Sizes : ReadCall(r, size)
    \/ ReadFails(r)
    \/ ReadBlocks(r)
    \/ Sleep(r, "r_sleep", "r_asleep")
    \/ Resume(r, "r_woken", "r_wait")
    \/ ReadStarts(r)
    \/ ReadByte(r)
    \/ ReadReturns(r)

Close(p) == CloseFile(p) \/ PipeClose(p) \/ Kfree(p)

(* Every process is done with the pipe. *)
Finished == freed /\ UNCHANGED vars

Next ==
    \/ \E w \in Writers : Write(w)
    \/ \E r \in Readers : Read(r)
    \/ \E p \in Procs : Close(p) \/ Kill(p)
    \/ Finished

Spec == Init /\ [][Next]_vars

(* The scheduler runs every runnable process again and again, and a        *)
(* process that has nothing left to read or write exits, which closes its  *)
(* files.  A process that sleeps is not runnable: nothing is assumed of it *)
(* until somebody wakes it.  No kill is promised.                          *)
FairSpec ==
    /\ Spec
    /\ \A w \in Writers : WF_vars(Write(w) \/ Close(w))
    /\ \A r \in Readers : WF_vars(Read(r) \/ Close(r))

-----------------------------------------------------------------------------
(* Properties *)

WriterCodes == {"w_loop", "w_sleep", "w_asleep", "w_woken"}

ReaderCodes == {"r_wait", "r_sleep", "r_asleep", "r_woken", "r_copy"}

CommonCodes == {"user", "close", "free", "gone"}

(* The bytes in the pipe, counted as unsigned subtraction counts them. *)
Count == IF nwrite >= nread THEN nwrite - nread ELSE nwrite + W - nread

(* Types of every variable, and the pipe never holds more bytes than it    *)
(* has room for, across every wrap of its two counters.                    *)
TypeOK ==
    /\ data \in [0..(PipeSize - 1) -> Bytes]
    /\ nread \in 0..(W - 1) /\ nwrite \in 0..(W - 1)
    /\ Count \in 0..PipeSize
    /\ readopen \in BOOLEAN /\ writeopen \in BOOLEAN
    /\ lock \in Procs \cup {NoProc}
    /\ freed \in BOOLEAN
    /\ holders \subseteq Procs
    /\ pc \in [Procs -> WriterCodes \cup ReaderCodes \cup CommonCodes]
    /\ \A r \in Readers : pc[r] \notin WriterCodes
    /\ \A w \in Writers : pc[w] \notin ReaderCodes
    /\ n \in [Procs -> Nat]
    /\ i \in [Procs -> Nat] /\ \A p \in Procs : i[p] <= n[p]
    /\ killed \in [Procs -> BOOLEAN]
    /\ writes \in [Writers -> 0..MaxWrites]
    /\ eof \subseteq Readers

(* Nobody sleeps on while what it waits for is there: when the lock is     *)
(* free, a sleeping reader has nothing to read and a writer to wait for,   *)
(* a sleeping writer has no room and a reader to wait for.  The exception  *)
(* is the code's: a writer that finds itself killed leaves a full pipe     *)
(* without the wakeup of the readers, who sleep on until another writer    *)
(* or the close of the write end wakes them.                               *)
NoLostWakeup ==
    lock = NoProc =>
        /\ \A r \in Readers :
              pc[r] = "r_asleep" =>
                  writeopen /\ (Empty \/ \E w \in Writers : killed[w])
        /\ \A w \in Writers : pc[w] = "w_asleep" => Full /\ readopen

(* The page of the pipe is given to kfree by one process, once, and nobody *)
(* is inside the pipe's code then or comes back to it.                     *)
NoUseAfterFree ==
    /\ freed => \A p \in Procs : pc[p] = "gone"
    /\ \A p \in Procs :
          pc[p] = "free" => \A q \in Procs \ {p} : pc[q] = "gone"

(* The pipe is a bounded byte stream: bytes come out once, in the order    *)
(* they went in, a write never overtakes a byte that was not read, and end *)
(* of file means that all were read and no writer is left.                 *)
Contents == [k \in 1..Count |-> data[(nread + k - 1) % PipeSize]]

Stream == INSTANCE ByteStream WITH
              Capacity <- PipeSize, queue <- Contents, sendable <- writeopen,
              receivable <- readopen, over <- eof

ImplementsStream == Stream!StreamSpec

(* Once the writers are done the readers see the end, everybody closes and *)
(* the page is given back: no sleeper is left behind, also not one that    *)
(* kill missed between the test of killed and the sleep.                   *)
PageReturned == <>freed

-----------------------------------------------------------------------------
(* What the invariants above rest on. *)

(* The lock is held exactly where the code of a call runs awake. *)
LockHeld ==
    \A p \in Procs :
        lock = p <=> pc[p] \in {"w_loop", "w_sleep", "r_wait", "r_sleep", "r_copy"}

(* An end is open while a file refers to it or its pipeclose is to come,   *)
(* and only the last reference leads to pipeclose.                         *)
Keeps(p) == p \in holders \/ pc[p] = "close"

EndsOpen ==
    /\ \A p \in Procs : p \in holders <=> pc[p] \notin {"close", "free", "gone"}
    /\ readopen <=> \E r \in Readers : Keeps(r)
    /\ writeopen <=> \E w \in Writers : Keeps(w)
    /\ \A p \in Procs :
          pc[p] = "close" => \A q \in Sharers(p) \ {p} : ~Keeps(q)

(* Who is about to sleep has just seen why, with the lock held since; who  *)
(* sleeps has a reason to, or somebody in the pipe who will wake it.       *)
AboutToSleep ==
    /\ \A r \in Readers : pc[r] = "r_sleep" => Empty /\ writeopen
    /\ \A w \in Writers :
          pc[w] = "w_sleep" => /\ Full /\ readopen
                               /\ \A r \in Readers : pc[r] # "r_asleep"

SleepReason ==
    /\ \A r \in Readers :
          pc[r] = "r_asleep" =>
              /\ writeopen
              /\ \/ Empty
                 \/ \E w \in Writers : killed[w] \/ pc[w] = "w_loop"
    /\ \A w \in Writers :
          pc[w] = "w_asleep" =>
              readopen /\ (Full \/ \E r \in Readers : pc[r] = "r_copy")

(* A reader that has copied nothing yet copies because there is something, *)
(* or because nothing can come.                                            *)
CopyReason ==
    \A r \in Readers :
        pc[r] = "r_copy" /\ i[r] = 0 => ~Empty \/ ~writeopen

PipeInv ==
    /\ TypeOK
    /\ LockHeld
    /\ EndsOpen
    /\ AboutToSleep
    /\ SleepReason
    /\ NoUseAfterFree
=============================================================================

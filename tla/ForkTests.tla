------------------------------ MODULE ForkTests ------------------------------
(***************************************************************************)
(* forktest.c and stressfs.c, two programs that fork as often as they can. *)
(* forktest fills the process table and reaps all it has made.  stressfs is*)
(* a chain: each process goes on with a file of its own as soon as a fork  *)
(* has succeeded, and its child goes on forking; each waits for its child. *)
(*                                                                         *)
(* fork and wait are the kernel's (proc.c).  fork may fail at any time, for*)
(* want of memory, and must when the table is full; wait gives -1 if there *)
(* is no child.  Init adopts the orphans, and reaps them.                  *)
(***************************************************************************)
EXTENDS Integers, FiniteSets

CONSTANTS N,       \* forks that forktest tries; 1000 in the code
          Tables,  \* the sizes of the process table, as far as it is free
          FORKS,   \* forks that stressfs tries; 4 in the code
          WRITES   \* blocks that it writes; 20 in the code

VARIABLES prog,    \* which of the two
          slots,   \* the slots of the table: 1 is the program itself
          state,   \* of a slot: unused, running or zombie
          parent,  \* of a process, or 0
          pc, n,   \* n: its loop variable, i in stressfs
          block,   \* what it has written, and then read, of its file
          size,    \* of the files, in blocks
          says     \* forktest's last line

tvars == <<prog, slots, state, parent, pc, n, block, size, says>>

Root == 1
Slots == 1..slots

Init ==
    /\ prog \in {"forktest", "stressfs"} /\ slots \in Tables
    /\ state = [p \in Slots |-> IF p = Root THEN "running" ELSE "unused"]
    /\ parent = [p \in Slots |-> 0]
    /\ pc = [p \in Slots |-> "fork"]
    /\ n = [p \in Slots |-> 0] /\ block = [p \in Slots |-> 0]
    /\ \E old \in {0, WRITES + 1} : size = [f \in 0..FORKS |-> old]
    /\ says = "nothing"

-----------------------------------------------------------------------------
(* The kernel *)

At(p, s) == state[p] = "running" /\ pc[p] = s

Children(p) == {c \in Slots : parent[c] = p /\ state[c] # "unused"}

(* Which slot is taken does not matter: it is the first. *)
Free(c) == state[c] = "unused" /\ \A q \in 1..(c - 1) : state[q] # "unused"

(* The child c starts at s with a copy of p's variable, p goes on at t. *)
Forked(p, c, s, t, up) ==
    /\ Free(c)
    /\ state' = [state EXCEPT ![c] = "running"]
    /\ parent' = [parent EXCEPT ![c] = p]
    /\ pc' = [pc EXCEPT ![p] = t, ![c] = s]
    /\ n' = up
    /\ block' = [block EXCEPT ![c] = 0]

(* wait: a child that has exited, ... *)
Waited(p) ==
    /\ \E c \in Children(p) : state[c] = "zombie" /\ state' = [state EXCEPT ![c] = "unused"]
    /\ UNCHANGED parent

(* ... or -1. *)
WaitFails(p) == Children(p) = {} /\ UNCHANGED <<state, parent>>

Exit(p) ==
    /\ At(p, "exit")
    /\ parent' = [q \in Slots |-> IF parent[q] = p THEN 0 ELSE parent[q]]
    /\ state' = [q \in Slots |->
                    CASE q = p -> IF parent[p] = 0 /\ p # Root THEN "unused" ELSE "zombie"
                      [] parent[q] = p /\ state[q] = "zombie" -> "unused"
                      [] OTHER -> state[q]]
    /\ UNCHANGED <<prog, slots, pc, n, block, size, says>>

-----------------------------------------------------------------------------
(* forktest *)

Test(p, s) == prog = "forktest" /\ At(p, s)

FillTable(p) ==
    /\ Test(p, "fork") /\ n[p] < N
    /\ \/ \E c \in Slots : Forked(p, c, "exit", "fork", [n EXCEPT ![p] = @ + 1])
       \/ /\ pc' = [pc EXCEPT ![p] = "reap"]
          /\ UNCHANGED <<state, parent, n, block>>
    /\ UNCHANGED <<prog, slots, size, says>>

Says(p, line) ==
    /\ says' = line
    /\ pc' = [pc EXCEPT ![p] = "exit"]
    /\ UNCHANGED <<prog, slots, n, block, size>>

Claimed(p) ==
    /\ Test(p, "fork") /\ n[p] = N
    /\ Says(p, "fork claimed to work N times!")
    /\ UNCHANGED <<state, parent>>

ReapAll(p) ==
    /\ Test(p, "reap") /\ n[p] > 0
    /\ \/ /\ Waited(p)
          /\ n' = [n EXCEPT ![p] = @ - 1]
          /\ UNCHANGED <<prog, slots, pc, block, size, says>>
       \/ WaitFails(p) /\ Says(p, "wait stopped early")

(* After the last child wait must fail.                                    *)
Reaped(p) ==
    /\ Test(p, "reap") /\ n[p] = 0
    /\ \/ WaitFails(p) /\ Says(p, "fork test OK")
       \/ Waited(p) /\ Says(p, "wait got too many")

-----------------------------------------------------------------------------
(* stressfs *)

Stress(p, s) == prog = "stressfs" /\ At(p, s)

(* The loop ends in the parent; the child has the next i, and so has the   *)
(* caller of a fork that failed.                                           *)
ForkOn(p) ==
    /\ Stress(p, "fork") /\ n[p] < FORKS
    /\ \/ \E c \in Slots : Forked(p, c, "fork", "write", [n EXCEPT ![c] = n[p] + 1])
       \/ n' = [n EXCEPT ![p] = @ + 1] /\ UNCHANGED <<state, parent, pc, block>>
    /\ UNCHANGED <<prog, slots, size, says>>

LastOfChain(p) ==
    /\ Stress(p, "fork") /\ n[p] = FORKS
    /\ pc' = [pc EXCEPT ![p] = "write"]
    /\ UNCHANGED <<prog, slots, state, parent, n, block, size, says>>

(* The file of this i, from its beginning: O_CREATE does not truncate. *)
Write(p) ==
    /\ Stress(p, "write")
    /\ IF block[p] < WRITES
       THEN /\ block' = [block EXCEPT ![p] = @ + 1]
            /\ size' = [size EXCEPT ![n[p]] = IF @ > block[p] THEN @ ELSE block[p] + 1]
            /\ UNCHANGED pc
       ELSE /\ block' = [block EXCEPT ![p] = 0]
            /\ pc' = [pc EXCEPT ![p] = "read"]
            /\ UNCHANGED size
    /\ UNCHANGED <<prog, slots, state, parent, n, says>>

(* The loop of reads, of a file that nobody else has; then it waits. *)
Read(p) ==
    /\ Stress(p, "read")
    /\ block' = [block EXCEPT ![p] = IF size[n[p]] < WRITES THEN size[n[p]] ELSE WRITES]
    /\ pc' = [pc EXCEPT ![p] = "wait"]
    /\ UNCHANGED <<prog, slots, state, parent, n, size, says>>

WaitForChild(p) ==
    /\ Stress(p, "wait")
    /\ Waited(p) \/ WaitFails(p)
    /\ pc' = [pc EXCEPT ![p] = "exit"]
    /\ UNCHANGED <<prog, slots, n, block, size, says>>

Next ==
    \E p \in Slots :
        \/ FillTable(p) \/ Claimed(p) \/ ReapAll(p) \/ Reaped(p)
        \/ ForkOn(p) \/ LastOfChain(p) \/ Write(p) \/ Read(p) \/ WaitForChild(p)
        \/ Exit(p)

-----------------------------------------------------------------------------
(* Properties *)

(* forktest gets back every child that it made, no more and no fewer, and  *)
(* leaves the table as it was: it says OK unless no fork has failed.       *)
ForksCounted ==
    prog = "forktest" =>
        /\ says \in {"nothing", "fork claimed to work N times!", "fork test OK"}
        /\ says = "fork test OK" => \A p \in Slots \ {Root} : state[p] = "unused"
        /\ says = "fork claimed to work N times!" => N < slots

(* No two processes of stressfs have the same file, whichever forks failed,*)
(* each reads back what it wrote, and the first exits after all others.    *)
ChainOfFiles ==
    prog = "stressfs" =>
        /\ \A p, q \in {p \in Slots : state[p] = "running" /\ pc[p] # "fork"} :
              p # q => n[p] # n[q]
        /\ \A p \in Slots : At(p, "wait") \/ At(p, "exit") => block[p] = WRITES
        /\ state[Root] = "zombie" => \A p \in Slots \ {Root} : state[p] = "unused"
=============================================================================

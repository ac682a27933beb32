------------------------------ MODULE MergeSort ------------------------------
(***************************************************************************)
(* The three merge sorts of Assignment4: q3_threaded.c (a thread for each  *)
(* half), q3_forked.c (a child process for the left half, in memory that is*)
(* shared) and q3_normal.c (recursion).  Creating a thread or a child may  *)
(* fail.                                                                   *)
(*                                                                         *)
(* A segment <<l, r>> of the array is sorted by whoever merge_sort was     *)
(* called for; pc says how far it is.  Where threads run beside it, merge  *)
(* is two steps: it fills an array of its own, and writes it back.         *)
(***************************************************************************)
EXTENDS Integers, Sequences, FiniteSets

CONSTANTS Inputs,     \* the arrays to sort, of one length
          MIN_LENGTH  \* shorter segments are sorted with qsort; 5 in the code

VARIABLES variant,  \* which of the programs
          input, array,
          pc,       \* of a segment, or "idle"
          merged,   \* what merge is about to write back
          failed    \* history: the children that have exited with 1

mvars == <<variant, input, array, pc, merged, failed>>

n == Len(input)
Whole == <<1, n>>
Segments == (1..n) \X (1..n)

(* The numbers of the command line or of the terminal, in the array that   *)
(* the threads or (shmat) the processes have in common.                    *)
Entered == input \in Inputs /\ array = input

Init ==
    /\ variant \in {"threaded", "forked", "normal"}
    /\ Entered
    /\ pc = [s \in Segments |-> IF s = Whole THEN "start" ELSE "idle"]
    /\ merged = [s \in Segments |-> <<>>]
    /\ failed = {}

Mid(s) == s[1] + (s[2] - s[1]) \div 2
Lower(s) == <<s[1], Mid(s)>>
Upper(s) == <<Mid(s) + 1, s[2]>>

-----------------------------------------------------------------------------
(* What the loops compute *)

Ordered(q) == \A j, k \in 1..Len(q) : j < k => q[j] <= q[k]

Count(q, v) == Cardinality({k \in 1..Len(q) : q[k] = v})

SameBag(q, r) == /\ Len(q) = Len(r)
                 /\ \A k \in 1..Len(q) : Count(q, q[k]) = Count(r, q[k])

(* qsort (a library's) and the selection sort of q3_forked.c, whose swap   *)
(* in one expression the compiler of the Makefile evaluates from the left. *)
Sorted(a, s) ==
    LET below(k) == {j \in s[1]..s[2] : a[j] < a[k] \/ (a[j] = a[k] /\ j < k)}
    IN  [k \in 1..Len(a) |->
            IF k \notin s[1]..s[2] THEN a[k]
            ELSE a[CHOOSE j \in s[1]..s[2] : Cardinality(below(j)) = k - s[1]]]

(* The loops of merge (mergeSort), which take what is smaller and then what*)
(* is left; q3_forked.c takes equal numbers in the other order.  Taken[k]  *)
(* is how many of the first k came from p.                                 *)
Merge(p, q) ==
    LET Taken[k \in 0..(Len(p) + Len(q))] ==
            IF k = 0 THEN 0
            ELSE LET x == Taken[k - 1]
                     y == k - 1 - x
                 IN  IF y = Len(q) \/ (x < Len(p) /\ p[x + 1] <= q[y + 1])
                     THEN x + 1 ELSE x
    IN  [k \in 1..(Len(p) + Len(q)) |->
            IF Taken[k] > Taken[k - 1] THEN p[Taken[k]] ELSE q[k - Taken[k]]]

Part(s) == SubSeq(array, s[1], s[2])

Base(s) ==
    CASE variant = "threaded" -> s[2] - s[1] + 1 <= MIN_LENGTH
      [] variant = "forked" -> s[2] - s[1] < 2
      [] variant = "normal" -> s[1] >= s[2]

-----------------------------------------------------------------------------
Running == pc[Whole] \notin {"joined", "exited", "undefined"}

At(s, t) == pc[s] = t /\ Running

SortBase(s) ==
    /\ At(s, "start") /\ Base(s)
    /\ array' = Sorted(array, s)
    /\ pc' = [pc EXCEPT ![s] = "done"]
    /\ UNCHANGED <<variant, input, merged, failed>>

(* A half is given to a thread or a child, or called; s goes on with t. *)
Give(s, half, t) ==
    /\ pc' = [pc EXCEPT ![half] = "start", ![s] = t]
    /\ UNCHANGED <<variant, input, array, merged, failed>>

Divides(s, v) == variant = v /\ At(s, "start") /\ ~Base(s)

CreateLower(s) == Divides(s, "threaded") /\ Give(s, Lower(s), "upper")
CreateUpper(s) == At(s, "upper") /\ Give(s, Upper(s), "join")

(* wait(NULL) does not ask how the child ended. *)
Fork(s) == Divides(s, "forked") /\ Give(s, Lower(s), "wait")
Wait(s) ==
    /\ variant = "forked" /\ At(s, "wait") /\ pc[Lower(s)] \in {"done", "exited"}
    /\ Give(s, Upper(s), "join")

(* The calls of partition. *)
Partition(s) ==
    \/ Divides(s, "normal") /\ Give(s, Lower(s), "wait")
    \/ /\ variant = "normal" /\ At(s, "wait") /\ pc[Lower(s)] = "done"
       /\ Give(s, Upper(s), "join")

(* pthread_create fails: the caller sorts that half itself. *)
CreateFails(s, half, t) ==
    /\ array' = Sorted(array, half)
    /\ pc' = [pc EXCEPT ![half] = "done", ![s] = t]
    /\ UNCHANGED <<variant, input, merged, failed>>

CreateLowerFails(s) == Divides(s, "threaded") /\ CreateFails(s, Lower(s), "upper")
CreateUpperFails(s) == At(s, "upper") /\ CreateFails(s, Upper(s), "join")

(* ... and at the top main joins a thread id that was never written.       *)
CreateTopFails ==
    /\ variant = "threaded" /\ pc[Whole] = "start"
    /\ array' = Sorted(array, Whole)
    /\ pc' = [pc EXCEPT ![Whole] = "undefined"]
    /\ UNCHANGED <<variant, input, merged, failed>>

(* The process that runs s was forked for a segment with the same end.     *)
Process(s) == CHOOSE t \in Segments :
                 /\ t[2] = s[2] /\ pc[t] # "idle"
                 /\ \A u \in Segments : u[2] = s[2] /\ pc[u] # "idle" => t[1] <= u[1]

(* fork fails, and the process that called it exits. *)
ForkFails(s) ==
    /\ Divides(s, "forked")
    /\ pc' = [t \in Segments |->
                 IF t[2] = s[2] /\ pc[t] # "idle"
                 THEN IF t = Process(s) THEN "exited" ELSE "idle" ELSE pc[t]]
    /\ failed' = failed \cup {Process(s)}
    /\ UNCHANGED <<variant, input, array, merged>>

(* merge as soon as the upper half is done: a mutation. *)
JoinUpperOnly(s) ==
    /\ variant = "threaded"
    /\ At(s, "join") /\ pc[Upper(s)] = "done"
    /\ merged' = [merged EXCEPT ![s] = Merge(Part(Lower(s)), Part(Upper(s)))]
    /\ pc' = [pc EXCEPT ![s] = "merge"]
    /\ UNCHANGED <<variant, input, array, failed>>

Join(s) ==
    /\ variant = "threaded"
    /\ At(s, "join") /\ pc[Upper(s)] = "done" /\ pc[Lower(s)] = "done"
    /\ merged' = [merged EXCEPT ![s] = Merge(Part(Lower(s)), Part(Upper(s)))]
    /\ pc' = [pc EXCEPT ![s] = "merge"]
    /\ UNCHANGED <<variant, input, array, failed>>

WriteBack(s) ==
    /\ At(s, "merge")
    /\ array' = [k \in 1..n |-> IF k \in s[1]..s[2] THEN merged[s][k - s[1] + 1]
                                                    ELSE array[k]]
    /\ pc' = [pc EXCEPT ![s] = "done"]
    /\ UNCHANGED <<variant, input, merged, failed>>

(* Without threads nobody else is at work below s: merge is one step. *)
Merges(s, v) ==
    /\ variant = v /\ At(s, "join") /\ pc[Upper(s)] = "done"
    /\ LET q == Merge(Part(Lower(s)), Part(Upper(s)))
       IN  array' = [k \in 1..n |-> IF k \in s[1]..s[2] THEN q[k - s[1] + 1] ELSE array[k]]
    /\ pc' = [pc EXCEPT ![s] = "done"]
    /\ UNCHANGED <<variant, input, merged, failed>>

MergeShared(s) == Merges(s, "forked")
MergeList(s) == Merges(s, "normal")

(* main prints the array. *)
Return ==
    /\ pc[Whole] = "done"
    /\ pc' = [pc EXCEPT ![Whole] = "joined"]
    /\ UNCHANGED <<variant, input, array, merged, failed>>

Next ==
    \/ \E s \in Segments :
          \/ SortBase(s) \/ CreateLower(s) \/ CreateUpper(s)
          \/ CreateLowerFails(s) \/ CreateUpperFails(s) \/ Join(s) \/ WriteBack(s)
          \/ Fork(s) \/ ForkFails(s) \/ Wait(s) \/ MergeShared(s)
          \/ Partition(s) \/ MergeList(s)
    \/ CreateTopFails \/ Return

-----------------------------------------------------------------------------
(* What is printed is the input in order, however threads and children are *)
(* scheduled and whichever of them cannot be created, but for a child that *)
(* could not fork: its half stays unsorted and nobody notices.  No two at  *)
(* work share a cell, and no number is ever lost.                          *)
SortedAtEnd ==
    /\ SameBag(array, input)
    /\ pc[Whole] \in {"done", "joined"} /\ failed = {} => Ordered(array)
    /\ \A s, t \in Segments :
          s # t /\ pc[s] \in {"start", "merge"} /\ pc[t] \in {"start", "merge"}
              => s[2] < t[1] \/ t[2] < s[1]
=============================================================================

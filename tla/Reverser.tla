------------------------------ MODULE Reverser ------------------------------
(***************************************************************************)
(* Assignment1: task1.c writes a file backwards, with the case of letters  *)
(* changed, to Assignment/rev1.txt, one buffer at a time from the end;     *)
(* task2.c checks the result one character at a time.  A step is one turn  *)
(* of their loops: the lseek calls, the read and the write.                *)
(***************************************************************************)
EXTENDS Integers, Sequences

CONSTANTS Files,    \* what the file to reverse, and an older rev1.txt, contain
          BufSizes, \* of task1.c; 10000 in the code
          Lower, Upper,  \* a letter in both cases
          None      \* no rev1.txt, or no character read yet

VARIABLES test, old,        \* the input, and rev1.txt before
          rev,              \* rev1.txt
          pc,
          bufrSize, B, b, pos, wpos,  \* B: bufrSize as it was
          resChar, rpos     \* of the checker

vvars == <<test, old, rev, pc, bufrSize, B, b, pos, wpos, resChar, rpos>>

Init ==
    /\ test \in Files /\ old \in Files \cup {None} /\ rev = old
    /\ B \in BufSizes /\ bufrSize = B
    /\ pc = "open" /\ b = 0 /\ pos = 0 /\ wpos = 0
    /\ resChar = None /\ rpos = 0

N == Len(test)

InvChar(c) == IF c = Lower THEN Upper ELSE IF c = Upper THEN Lower ELSE c

(* reverse that goes on to the end, and swaps back: a mutation. *)
ReverseTwice(s) ==
    LET size == Len(s) - 1
        swap[index \in 0..Len(s)] ==
            IF index > size THEN s
            ELSE LET t == swap[index + 1]
                 IN  [t EXCEPT ![index + 1] = t[size - index + 1],
                               ![size - index + 1] = t[index + 1]]
    IN  swap[0]

(* The recursive reverse: swap(index, size - index) for index = 0..size/2. *)
Reverse(s) ==
    LET size == Len(s) - 1
        swap[index \in 0..Len(s)] ==
            IF index > size \div 2 THEN s
            ELSE LET t == swap[index + 1]
                 IN  [t EXCEPT ![index + 1] = t[size - index + 1],
                               ![size - index + 1] = t[index + 1]]
    IN  swap[0]

Inverted(s) == [k \in 1..Len(s) |-> InvChar(s[k])]

(* write at an offset into a file that may be longer. *)
Written(f, at, s) ==
    [k \in 1..(IF at + Len(s) > Len(f) THEN at + Len(s) ELSE Len(f)) |->
        IF k \in (at + 1)..(at + Len(s)) THEN s[k - at] ELSE f[k]]

-----------------------------------------------------------------------------
(* task1.c *)

(* A file that is there is not truncated.  Or task1.c is not run at all.   *)
Open ==
    /\ pc = "open"
    /\ \/ /\ rev' = IF old = None THEN <<>> ELSE old
          /\ pos' = N /\ pc' = "loop"
       \/ old # None /\ pc' = "check" /\ UNCHANGED <<rev, pos>>
    /\ UNCHANGED <<test, old, bufrSize, B, b, wpos, resChar, rpos>>

Put(s) == /\ rev' = Written(rev, wpos, Reverse(Inverted(s)))
          /\ wpos' = wpos + Len(s)

(* lseek back over the last buffer and one more. *)
WholeBuffer ==
    /\ pc = "loop" /\ pos - (bufrSize + b) >= 0
    /\ LET from == pos - (bufrSize + b)
       IN  /\ Put(SubSeq(test, from + 1, from + bufrSize))
           /\ pos' = from + bufrSize
    /\ b' = bufrSize
    /\ UNCHANGED <<test, old, pc, bufrSize, B, resChar, rpos>>

(* The position after lseek(-bufrSize), if it does not fail. *)
Back == IF pos >= bufrSize THEN pos - bufrSize ELSE pos

(* The steps back that are possible, and less than the buffer. *)
Steps == {k \in 1..(bufrSize - 1) : Back - k >= 0}

(* The rest at the beginning of the file.  If there is none, bufrSize      *)
(* stays, and the buffer is written with what is read from there: the first*)
(* buffer again, or nothing of an empty file, after which the buffer is as *)
(* malloc gave it.                                                         *)
LastBuffer ==
    /\ pc = "loop" /\ pos - (bufrSize + b) < 0
    /\ LET i == IF Steps = {} THEN 0 ELSE CHOOSE k \in Steps : \A j \in Steps : j <= k
           size == IF i = 0 THEN bufrSize ELSE i
           from == Back - i
       IN  /\ bufrSize' = size
           /\ \E junk \in {Lower, Upper} :
                 Put(IF N = 0 THEN [k \in 1..size |-> junk]
                     ELSE SubSeq(test, from + 1, from + size))
    /\ pc' = "check"
    /\ UNCHANGED <<test, old, B, b, pos, resChar, rpos>>

-----------------------------------------------------------------------------
(* task2.c: chkFileCorrectness *)

(* The loop compares as long as a > 0, a being the place of a character    *)
(* counted from 0; at the end of rev1.txt read leaves resChar alone.       *)
Check ==
    /\ pc = "check"
    /\ LET a == N - 1 - rpos
           r == IF rpos < Len(rev) THEN rev[rpos + 1] ELSE resChar
       IN  IF a <= 0 THEN pc' = "yes" /\ UNCHANGED <<resChar, rpos>>
           ELSE IF test[a + 1] # InvChar(r) THEN pc' = "no" /\ UNCHANGED <<resChar, rpos>>
           ELSE resChar' = r /\ rpos' = rpos + 1 /\ UNCHANGED pc
    /\ UNCHANGED <<test, old, rev, bufrSize, B, b, pos, wpos>>

Next == Open \/ WholeBuffer \/ LastBuffer \/ Check

-----------------------------------------------------------------------------
(* What the runs of the two programs should come to. *)
Reversed == [k \in 1..N |-> InvChar(test[N + 1 - k])]

Ran == wpos > 0

(* rev1.txt is the whole input backwards, whatever the lengths of the file *)
(* and the buffer; after that comes the first buffer again if the length is*)
(* a multiple of the buffer's, and after that what an older, longer file   *)
(* had there.                                                              *)
WholeFileReversed ==
    Ran /\ pc # "loop" /\ N > 0 =>
        LET again == IF N % B = 0 THEN SubSeq(Reversed, N - B + 1, N) ELSE <<>>
            f == IF old = None THEN <<>> ELSE old
        IN  rev = Written(f, 0, Reversed \o again)

(* The checker accepts whatever the reverser has written, and of other     *)
(* files those that agree in all places but the last.                      *)
CheckerSound ==
    /\ Ran => pc # "no"
    /\ pc = "yes" => \A k \in 1..(N - 1) : k <= Len(rev) => rev[k] = Reversed[k]
    /\ pc = "no" => \E k \in 1..(N - 1) : k > Len(rev) \/ rev[k] # Reversed[k]
=============================================================================

----------------------------- MODULE MCFileTable -----------------------------
(* Two processes with two descriptors each, three files, one pipe at a     *)
(* time and one inode: files, descriptors and pipes all run out.           *)
(* Processes are interchangeable, and so are files.                        *)
EXTENDS FileTable, TLC

MCModes == {<<TRUE, TRUE>>}

Symmetry == Permutations(Procs) \cup Permutations(Files)

(* What a file without a type leads to is never looked at: whoever gives   *)
(* it a type sets the other fields.                                        *)
View ==
    <<[f \in Files |-> IF file[f].type = "none"
                       THEN <<file[f].ref>> ELSE <<file[f], moved[f]>>],
      [p \in Procs |-> IF ff[p] # None /\ ff[p].type = "none" THEN Free ELSE ff[p]],
      fd, pipe, kept, inode, pc, hand, ip, child, io>>
=============================================================================

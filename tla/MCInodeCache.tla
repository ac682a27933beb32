---------------------------- MODULE MCInodeCache ----------------------------
(* Three processes, two cache entries and three inodes on disk: entries    *)
(* are shared and recycled, an inode is freed and claimed again, and the   *)
(* cache and the disk may be full.  The processes are interchangeable, and *)
(* only invariants are checked, so their symmetry is used.                 *)
EXTENDS InodeCache, TLC

Symmetry == Permutations(Procs)

(* What an entry holds is forgotten when nobody refers to it, and type and *)
(* nlink when valid is not set: iget and ilock overwrite them unread.      *)
View ==
    <<disk, pc, job, ip, next, sleeplocks,
      [i \in Inodes |->
          <<ref[i], IF ref[i] > 0 THEN <<inum[i], valid[i]>> ELSE <<>>,
            IF ref[i] > 0 /\ valid[i] THEN <<type[i], nlink[i]>> ELSE <<>> >>]>>
=============================================================================

------------------------------- MODULE MCKernel -------------------------------
(* Parts of xv6 that share no state with each other here: a behaviour is   *)
(* one of them alone.  The variables of those with many initial states are *)
(* fixed in the behaviours of the others.                                  *)
EXTENDS Integers, Sequences, FiniteSets, TLC

CONSTANTS Procs, Inodes, Blocks, BSIZE, NDIRECT, W, Offsets, Sizes, Sources,
          NoProc, NoBlock, Inums, Calls, Seconds, Years, MaxUpdates,
          TickW, Naps, MaxTicks, Argvs, PGSIZE, MAXARG

(* Block 0 is the boot block, so 0 is no address of a block.  Offsets and  *)
(* sizes are unsigned ints, whose sums are taken modulo W.                 *)
ASSUME ContentAssumption ==
    /\ Blocks \subseteq Nat \ {0} /\ IsFiniteSet(Blocks)
    /\ BSIZE \in Nat \ {0} /\ NDIRECT \in Nat /\ W \in Nat
    /\ Offsets \subseteq 0..(W - 1) /\ Sizes \subseteq 0..(W - 1)
    /\ Sources \subseteq Seq(Nat) /\ \A src \in Sources : Len(src) < W
    /\ NoProc \notin Procs /\ NoBlock \notin Blocks

(* Inode 0 is none, and 1 is ROOTINO; a path is a sequence of names.       *)
ASSUME DirectoriesAssumption ==
    /\ IsFiniteSet(Procs) /\ 1 \in Inums /\ Inums \subseteq Nat \ {0}
    /\ Calls \subseteq STRING \X Seq(STRING)

(* During one call the seconds do not come round.                          *)
ASSUME ClockAssumption ==
    Seconds \in Nat /\ Years \in Nat \ {0} /\ MaxUpdates \in Nat /\ MaxUpdates < Seconds

ASSUME SleepAssumption == TickW \in Nat \ {0} /\ Naps \subseteq Int

(* The bytes of the arguments are numbers, and pages are of whole words.   *)
ASSUME ArgumentsAssumption ==
    /\ Argvs \subseteq Seq(Seq(Nat)) /\ MAXARG \in Nat
    /\ PGSIZE \in Nat \ {0} /\ PGSIZE % 4 = 0

VARIABLES part,
          bitmap, data, addrs, size, dinode, holder, call, bno, panic, file,
          type, linked, entries, dholder, dpc, op, path, cwd, ip, child, elem,
          second, year, uip, bcd, rpc, t1, t2, shown, updates,
          ticks, count, tpc, n, ticks0, since, killed,
          argv, argc, sp, ustack, mem, epc

content == <<bitmap, data, addrs, size, dinode, holder, call, bno, panic, file>>
directories == <<type, linked, entries, dholder, dpc, op, path, cwd, ip, child, elem>>
clock == <<second, year, uip, bcd, rpc, t1, t2, shown, updates>>
sleep == <<ticks, count, tpc, n, ticks0, since, killed>>
exec == <<argv, argc, sp, ustack, mem, epc>>

C == INSTANCE InodeContent
D == INSTANCE Directories WITH holder <- dholder, pc <- dpc
R == INSTANCE CmosTime WITH pc <- rpc
T == INSTANCE Ticks WITH pc <- tpc, W <- TickW
E == INSTANCE ExecStack WITH pc <- epc

Init ==
    /\ C!Init /\ D!Init
    /\ \/ part \in {"content", "directories"}
       \/ part = "clock" /\ R!Init
       \/ part = "sleep" /\ T!Init
       \/ part = "exec" /\ E!Init
    /\ part # "clock" =>
          /\ second = 0 /\ year = 0 /\ uip = "no" /\ bcd = FALSE /\ rpc = "done"
          /\ t1 = 0 /\ t2 = 0 /\ shown = {} /\ updates = 0
    /\ part # "sleep" =>
          /\ ticks = 0 /\ count = 0 /\ tpc = 0 /\ n = 0 /\ ticks0 = 0 /\ since = 0
          /\ killed = 0
    /\ part # "exec" =>
          /\ argv = 0 /\ argc = 0 /\ sp = 0 /\ ustack = 0 /\ mem = 0 /\ epc = 0

Next ==
    /\ UNCHANGED part
    /\ \/ part = "content" /\ C!Next /\ UNCHANGED <<directories, clock, sleep, exec>>
       \/ part = "directories" /\ D!Next /\ UNCHANGED <<content, clock, sleep, exec>>
       \/ part = "clock" /\ R!Next /\ UNCHANGED <<content, directories, sleep, exec>>
       \/ part = "sleep" /\ T!Next /\ UNCHANGED <<content, directories, clock, exec>>
       \/ part = "exec" /\ E!Next /\ UNCHANGED <<content, directories, clock, sleep>>

Spec == Init /\ [][Next]_<<part, content, directories, clock, sleep, exec>>

MCSources == {<<1>>, <<2, 3, 1>>, [k \in 1..15 |-> 1]}
MCCalls == {<<"mkdir", <<"a">>>>, <<"mkdir", <<"a", "b">>>>, <<"create", <<>>>>,
            <<"unlink", <<"a">>>>, <<"unlink", <<"a", "b">>>>,
            <<"chdir", <<"a">>>>, <<"open", <<"a", "b", "..">>>>}
MCNaps == {-1, 0, 3}
MCArgvs == UNION {{[k \in 1..argcount |-> [j \in 1..l[k] |-> 96 + k]] :
                      l \in [1..argcount -> {0, 3, 4, 130, 200}]} : argcount \in 0..4}
Symmetry == {f @@ g : f \in Permutations(Procs), g \in Permutations(Inodes)}

(* What a free block contains, and one that balloc has just taken, is never*)
(* read before bzero clears it.                                            *)
Fresh == {bno[i] : i \in Inodes}
View == <<part, bitmap, [b \in bitmap \ Fresh |-> data[b]], addrs, size, dinode,
          holder, call, bno, panic, file, directories, clock, sleep, exec>>

-----------------------------------------------------------------------------
(* Blocks are neither shared nor leaked, and bfree finds none free (fs.c:  *)
(* balloc, bmap, itrunc of different inodes interleave).                   *)
BlocksSound == part = "content" => C!BlocksOwnedOnce /\ C!NoPanic

(* Files contain what was written, in memory and in the dinode, and readi  *)
(* returns it (fs.c: writei, readi, bmap, itrunc, iupdate).                *)
ContentSound == part = "content" => C!ContentKept /\ C!DinodeWritten /\ C!ReadsBack

(* Walks never wait in a circle, names and inodes fit together, and only a *)
(* walk through ".." meets a freed inode (fs.c: namex, dirlookup, dirlink).*)
DirectoriesSound ==
    part = "directories" => D!NoWaitCycle /\ D!TreeSound /\ D!PanicsAtDotDot

(* cmostime returns a time that was shown (lapic.c), and sys_sleep sleeps  *)
(* long enough and no longer (sysproc.c).                                  *)
TimeSound == /\ part = "clock" => R!TimeWasShown
             /\ part = "sleep" => T!SleepSound

(* A new program finds its arguments, and exec refuses only what does not  *)
(* fit (exec.c).                                                           *)
ArgumentsSound == part = "exec" => E!MainGetsArguments /\ E!RefusesTooMuch
=============================================================================

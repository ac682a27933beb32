----------------------------- MODULE ShellProofs -----------------------------
(***************************************************************************)
(* ShellInv is an invariant of Shell, and with it the properties that the  *)
(* runs check, for any commands, process IDs and lengths of the list.      *)
(*                                                                         *)
(* Most steps are steps of one shell that leave every other process as it  *)
(* is, reap one or start a program (Steady): they leave the chain of the   *)
(* shells alone (SteadyChain), and the places of all other shells fit as   *)
(* before (OtherFits), so that what is left to show is that the shell      *)
(* itself fits at its new place (SteadyStep).  Three kinds of steps are    *)
(* different: a pipeline that adds a shell at the end of the chain         *)
(* (PipeLastForked), the end of the last shell (DiesSafe), and what comes  *)
(* from the terminal and the programs, whose signals hit no shell          *)
(* (SignalSteady).                                                         *)
(***************************************************************************)
EXTENDS Shell, FiniteSetTheorems, TLAPS

(* What a process and the variables of a shell consist of. *)
LEMMA ProcessTypes ==
    ASSUME NEW q \in Processes
    PROVE  /\ q.st \in {"none", "run", "stopped", "doomed", "zombie"}
           /\ q.what \in {"none", "shell", "fg", "bg", "stage"}
           /\ q.parent \in 0..MaxPid
           /\ q.reads \in BOOLEAN
           /\ q.in \in Pipes \cup {Tty, File, Closed}
           /\ q.out \in Pipes \cup {Tty, File}
BY DEF Processes

LEMMA StateTypes ==
    ASSUME NEW s \in ShellStates
    PROVE  /\ s.pc \in Codes
           /\ s.cmd \in Cmds
           /\ s.stage \in {"only", "first", "last"}
           /\ s.left \in 0..2
           /\ s.jobs \in Seq(Jobs)
           /\ s.Childpid \in 0..MaxPid
           /\ s.waits \in Int
           /\ s.pipe \in 0..MaxPid
           /\ s.a = Tty /\ s.b = Tty
BY DEF ShellStates

LEMMA Limits == MaxPid \in Nat \ {0} /\ MaxJobs \in Nat /\ Commands \subseteq Cmds
BY ShellAssumption

LEMMA ShellIs ==
    ASSUME NEW p
    PROVE  p \in Shells <=> /\ p \in Pids
                            /\ proc[p].st \in {"run", "stopped", "doomed"}
                            /\ proc[p].what = "shell"
BY DEF Shells, Live

LEMMA ShellIsNext ==
    ASSUME NEW p
    PROVE  p \in Shells' <=> /\ p \in Pids
                             /\ proc'[p].st \in {"run", "stopped", "doomed"}
                             /\ proc'[p].what = "shell"
BY DEF Shells, Live

(* What the invariant says of one process, *)
LEMMA Typed ==
    ASSUME ShellInv, NEW p \in Pids
    PROVE  /\ proc[p] \in Processes /\ sh[p] \in ShellStates
           /\ sh[p].pc # "none" <=> p \in Shells
           /\ p \notin Shells => sh[p] = NoShell
           /\ proc[p].parent < p
           /\ p >= next => proc[p].st = "none"
           /\ next \in 2..(MaxPid + 1)
BY DEF ShellInv, ShellTypes, NoShell

(* and of one shell. *)
LEMMA Placed ==
    ASSUME ShellInv, NEW p \in Shells
    PROVE  /\ p \in Pids /\ p < next /\ p # 0
           /\ sh[p].pc # "none"
           /\ ShellFits(p)
<1>1. p \in Pids /\ proc[p].st # "none"
  BY ShellIs
<1>2. p < next
  BY <1>1, Typed, Limits DEF Pids
<1>. QED BY <1>1, <1>2, Typed DEF ShellInv, Pids

-----------------------------------------------------------------------------
(* What a step of shell p, or with 0 for p one of the terminal or of a     *)
(* program, does to a process that it does not end: *)
Kept(q, p) ==
    /\ proc'[q].what = proc[q].what /\ proc'[q].parent = proc[q].parent
    /\ proc'[q].st = "none" <=> proc[q].st = "none"
    /\ proc[q].what = "shell" => proc'[q].st = proc[q].st
    /\ q # p => proc'[q].in = proc[q].in /\ proc'[q].out = proc[q].out

Reaped(q, p) == proc'[q] = NoProc /\ q \notin Shells /\ proc[q].parent \in {0, p}

Born(q, p) ==
    /\ q = next /\ next' = next + 1
    /\ proc'[q].parent = p /\ proc'[q].what \in {"fg", "bg", "stage"}
    /\ proc'[q].st = "run"

Steady(p) ==
    /\ next' \in {next, next + 1}
    /\ \A q \in Pids : Kept(q, p) \/ Reaped(q, p) \/ Born(q, p)

(* (or a step that starts a shell) *)
Settled(p) ==
    /\ next' \in {next, next + 1}
    /\ \A q \in Pids :
          \/ Kept(q, p) \/ Reaped(q, p)
          \/ q = next /\ next' = next + 1 /\ proc'[q].parent = p

(* and what it does to the place of a shell in the chain. *)
Onward(p) ==
    \/ /\ sh[p].pc = "wait_last" /\ sh'[p].pc = "wait_last"
       /\ sh'[p].waits = sh[p].waits
    \/ /\ IsTail(p)
       /\ sh'[p].pc # "wait_last" \/ sh'[p].waits \notin Pids
       /\ sh[p].pc # "wait_last" \/ \A q \in Pids :
             proc'[q].st # "none" /\ proc'[q].what = "shell" => proc'[q].parent # p

LEMMA SteadyShells ==
    ASSUME ShellInv, NEW p, Steady(p)
    PROVE  Shells' = Shells
<1>1. ASSUME NEW q \in Pids PROVE q \in Shells' <=> q \in Shells
  <2>1. CASE Kept(q, p)
    <3>1. proc[q].what = "shell" => proc'[q].st = proc[q].st
      BY <2>1 DEF Kept
    <3>2. proc'[q].what = proc[q].what
      BY <2>1 DEF Kept
    <3>. QED BY <3>1, <3>2, ShellIs, ShellIsNext
  <2>2. CASE Reaped(q, p)
    BY <2>2, ShellIsNext DEF Reaped, NoProc
  <2>3. CASE Born(q, p)
    <3>1. q = next /\ proc'[q].what # "shell"
      BY <2>3 DEF Born
    <3>2. proc[q].st = "none"
      BY <3>1, Typed, Limits DEF Pids
    <3>. QED BY <3>1, <3>2, ShellIs, ShellIsNext
  <2>. QED BY <2>1, <2>2, <2>3 DEF Steady
<1>2. \A q : q \in Shells => q \in Pids
  BY ShellIs
<1>3. \A q : q \in Shells' => q \in Pids
  BY ShellIsNext
<1>. QED BY <1>1, <1>2, <1>3

(* A process that is a shell, or was, and has not been reaped. *)
LEMMA SteadyShell ==
    ASSUME ShellInv, NEW p, Steady(p), NEW q \in Pids,
           proc'[q].st # "none", proc'[q].what = "shell"
    PROVE  /\ proc[q].st # "none" /\ proc[q].what = "shell"
           /\ proc'[q].parent = proc[q].parent
<1>1. ~Reaped(q, p)
  BY DEF Reaped, NoProc
<1>2. ~Born(q, p)
  BY DEF Born
<1>3. Kept(q, p)
  BY <1>1, <1>2 DEF Steady
<1>. QED BY <1>3 DEF Kept

LEMMA SteadyChain ==
    ASSUME ShellInv, NEW p, Steady(p), \A q \in Shells : Onward(q)
    PROVE  Chain'
<1>1. Shells' = Shells
  BY SteadyShells
<1>2. Chain
  BY DEF ShellInv
<1>3. ASSUME NEW q \in Pids, proc'[q].st # "none", proc'[q].what = "shell", q # Root
      PROVE  WaitedFor(q)'
  <2>1. /\ proc[q].st # "none" /\ proc[q].what = "shell"
        /\ proc'[q].parent = proc[q].parent
    BY <1>3, SteadyShell
  <2>2. WaitedFor(q)
    BY <2>1, <1>2, <1>3 DEF Chain
  <2>3. PICK r : r = proc[q].parent
    OBVIOUS
  <2>4. /\ r \in Shells /\ sh[r].pc = "wait_last" /\ sh[r].waits = q
        /\ \A s \in Shells : s <= r \/ q <= s
    BY <2>2, <2>3 DEF WaitedFor
  <2>5. proc'[q].parent = r
    BY <2>1, <2>3
  <2>6. sh'[r].pc = "wait_last" /\ sh'[r].waits = q
    BY <2>4, <2>5, <1>3 DEF Onward
  <2>. QED BY <2>4, <2>5, <2>6, <1>1 DEF WaitedFor
<1>4. ASSUME NEW s \in Shells', ~IsTail(s)'
      PROVE  proc'[sh'[s].waits].parent = s
  <2>1. s \in Shells /\ Onward(s)
    BY <1>1, <1>4
  <2>2. sh'[s].pc = "wait_last" /\ sh'[s].waits \in Shells
    BY <1>1, <1>4 DEF IsTail
  <2>3. sh'[s].waits \in Pids
    BY <2>2, ShellIs
  <2>4. sh[s].pc = "wait_last" /\ sh'[s].waits = sh[s].waits
    BY <2>1, <2>2, <2>3 DEF Onward
  <2>5. PICK q : q = sh[s].waits
    OBVIOUS
  <2>6. q \in Shells /\ sh'[s].waits = q
    BY <2>2, <2>4, <2>5
  <2>7. proc[q].parent = s
    BY <1>2, <2>1, <2>4, <2>5, <2>6 DEF Chain, IsTail
  <2>8. proc'[q].st # "none" /\ proc'[q].what = "shell" /\ q \in Pids
    BY <2>6, <1>1, ShellIsNext
  <2>9. proc'[q].parent = proc[q].parent
    BY <2>8, SteadyShell
  <2>. QED BY <2>6, <2>7, <2>9
<1>5. ASSUME NEW q \in Shells', NEW s \in Shells', IsTail(q)'
      PROVE  s <= q
  <2>1. q \in Shells /\ s \in Shells /\ Onward(q)
    BY <1>1, <1>5
  <2>2. CASE IsTail(q)
    BY <2>1, <2>2, <1>2 DEF Chain
  <2>3. CASE ~IsTail(q)
    <3>1. sh'[q].pc = "wait_last" /\ sh'[q].waits = sh[q].waits
      BY <2>1, <2>3 DEF Onward
    <3>2. sh[q].waits \in Shells
      BY <2>3 DEF IsTail
    <3>. QED BY <3>1, <3>2, <1>1, <1>5 DEF IsTail
  <2>. QED BY <2>2, <2>3
<1>6. Shells' # {} => Root \in Shells'
  BY <1>1, <1>2 DEF Chain
<1>. QED BY <1>3, <1>4, <1>5, <1>6 DEF Chain

-----------------------------------------------------------------------------
(* A job of shell r stays one, in a step of r as in one of another. *)
LEMMA JobStays ==
    ASSUME ShellInv, NEW p, Steady(p) \/ Settled(p), NEW r, NEW c \in Pids,
           JobFits(r, c), Again(r) => Again(r)'
    PROVE  JobFits(r, c)'
<1>s. Settled(p)
  BY DEF Steady, Settled, Born
<1>1. c < next /\ proc[c].what # "shell"
      /\ (proc[c].st = "none" \/ (proc[c].what = "fg" /\ proc[c].parent = r) \/ Again(r))
  BY DEF JobFits
<1>2. next \in Nat /\ c \in Nat /\ next' \in {next, next + 1}
  BY <1>s, Typed, Limits DEF Pids, Settled
<1>3. c < next'
  BY <1>1, <1>2
<1>4. CASE Kept(c, p)
  <2>1. /\ proc'[c].what = proc[c].what /\ proc'[c].parent = proc[c].parent
        /\ proc'[c].st = "none" <=> proc[c].st = "none"
    BY <1>4 DEF Kept
  <2>. QED BY <2>1, <1>1, <1>3 DEF JobFits
<1>5. CASE Reaped(c, p)
  BY <1>3, <1>5 DEF JobFits, Reaped, NoProc
<1>6. c # next
  BY <1>1, <1>2
<1>. QED BY <1>s, <1>4, <1>5, <1>6 DEF Settled

(* A child that another shell's step, or none, has left alone. *)
LEMMA ChildStays ==
    ASSUME ShellInv, NEW p, Steady(p) \/ Settled(p), NEW r \in Shells, r # p,
           NEW c \in Pids
    PROVE  /\ c \in Children(r)' <=> c \in Children(r)
           /\ c \in Children(r) => proc'[c].what = proc[c].what
<1>s. Settled(p)
  BY DEF Steady, Settled, Born
<1>1. r # 0 /\ r \in Pids
  BY Placed
<1>2. CASE Kept(c, p)
  BY <1>2 DEF Kept, Children
<1>3. CASE Reaped(c, p)
  <2>1. proc'[c].st = "none" /\ proc[c].parent # r
    BY <1>1, <1>3 DEF Reaped, NoProc
  <2>. QED BY <2>1 DEF Children
<1>4. CASE c = next /\ proc'[c].parent = p
  <2>1. proc'[c].parent # r
    BY <1>4
  <2>2. proc[c].st = "none"
    BY <1>4, Typed, Limits DEF Pids
  <2>. QED BY <2>1, <2>2 DEF Children
<1>. QED BY <1>s, <1>2, <1>3, <1>4 DEF Settled

LEMMA OtherFits ==
    ASSUME ShellInv, NEW p, Steady(p) \/ Settled(p), NEW r \in Shells, r # p, sh'[r] = sh[r]
    PROVE  ShellFits(r)'
<1>1. r \in Pids /\ ShellFits(r)
  BY Placed
<1>2. sh[r] \in ShellStates
  BY <1>1, Typed
<1>3. sh'[r].pc = "prompt" => proc'[r].in = Tty /\ proc'[r].out = Tty
  <2>1. Kept(r, p)
    <3>1. ~Reaped(r, p)
      BY DEF Reaped
    <3>2. r # next
      BY Placed, Typed, Limits DEF Pids
    <3>. QED BY <1>1, <3>1, <3>2 DEF Steady, Settled, Born
  <2>. QED BY <2>1, <1>1 DEF Kept, ShellFits
<1>4. ASSUME NEW c \in Children(r)', proc'[c].what = "fg"
      PROVE  sh'[r].pc \in {"forked", "wait"} /\ sh'[r].waits = c
  <2>1. c \in Pids
    BY DEF Children
  <2>2. c \in Children(r) /\ proc[c].what = "fg"
    BY <2>1, <1>4, ChildStays
  <2>. QED BY <2>2, <1>1 DEF ShellFits
<1>5. sh'[r].pc = "forked" =>
         sh'[r].waits \in Children(r)' /\ proc'[sh'[r].waits].what = "fg"
  <2>. SUFFICES ASSUME sh[r].pc = "forked"
                PROVE  sh[r].waits \in Children(r)' /\ proc'[sh[r].waits].what = "fg"
    OBVIOUS
  <2>1. sh[r].waits \in Children(r) /\ proc[sh[r].waits].what = "fg"
    BY <1>1 DEF ShellFits
  <2>2. sh[r].waits \in Pids
    BY <2>1 DEF Children
  <2>. QED BY <2>1, <2>2, ChildStays
<1>6. sh'[r].pc = "wait_last" => sh'[r].waits < next'
  <2>1. next \in Nat /\ next' \in {next, next + 1} /\ sh[r].waits \in Int
    BY <1>1, <1>2, Typed, Limits, StateTypes DEF Pids, Steady, Settled
  <2>2. sh[r].pc = "wait_last" => sh[r].waits < next
    BY <1>1 DEF ShellFits
  <2>. QED BY <2>1, <2>2
<1>7. Again(r) <=> Again(r)'
  BY DEF Again, Op
<1>8. ASSUME NEW c \in Listed(r)' \cup ({sh'[r].Childpid} \ {0})
      PROVE  JobFits(r, c)'
  <2>1. c \in Listed(r) \cup ({sh[r].Childpid} \ {0})
    BY DEF Listed
  <2>2. JobFits(r, c)
    BY <2>1, <1>1 DEF ShellFits
  <2>3. c \in Pids
    <3>1. CASE c \in Listed(r)
      <4>1. PICK k \in DOMAIN sh[r].jobs : c = sh[r].jobs[k].pid
        BY <3>1 DEF Listed
      <4>2. sh[r].jobs \in Seq(Jobs)
        BY <1>2, StateTypes
      <4>3. sh[r].jobs[k] \in Jobs
        BY <4>1, <4>2
      <4>. QED BY <4>1, <4>3 DEF Jobs
    <3>2. CASE c = sh[r].Childpid /\ c # 0
      <4>1. c \in 0..MaxPid
        BY <1>2, <3>2, StateTypes
      <4>. QED BY <4>1, <3>2, Limits DEF Pids
    <3>. QED BY <2>1, <3>1, <3>2
  <2>. QED BY <2>2, <2>3, <1>7, JobStays
<1>9. /\ sh'[r].pc \in {"exec", "run", "forked", "wait"} => sh'[r].left > 0
      /\ sh'[r].pc = "pipe_last" \/ sh'[r].stage = "first" => sh'[r].pipe > 0
      /\ Len(sh'[r].jobs) <= MaxJobs + 1
      /\ Again(r)' \/ Len(sh'[r].jobs) <= MaxJobs
  BY <1>1, <1>7 DEF ShellFits
<1>. QED BY <1>3, <1>4, <1>5, <1>6, <1>8, <1>9 DEF ShellFits

(* A step of one process keeps the invariant if it does so at its place. *)
LEMMA SteadyStep ==
    ASSUME ShellInv, NEW p, Steady(p), next' <= MaxPid + 1,
           proc' \in [Pids -> Processes], sh' \in [Pids -> ShellStates],
           \A q \in Pids : q # p => sh'[q] = sh[q],
           p \in Pids => /\ p \in Shells /\ sh'[p].pc # "none"
                         /\ Onward(p) /\ ShellFits(p)',
           p \in Pids \cup {0}
    PROVE  ShellInv'
<1>1. Shells' = Shells
  BY SteadyShells
<1>n. next \in 2..(MaxPid + 1) /\ next' \in {next, next + 1} /\ next \in Nat
  BY Typed, Limits DEF Steady, Pids
<1>2. ASSUME NEW q \in Shells PROVE Onward(q) /\ ShellFits(q)'
  <2>1. CASE q = p
    BY <2>1, Placed
  <2>2. CASE q # p
    <3>1. sh'[q] = sh[q]
      BY <2>2, Placed
    <3>. QED BY <2>2, <3>1, OtherFits DEF Onward, IsTail
  <2>. QED BY <2>1, <2>2
<1>3. Chain'
  BY <1>2, SteadyChain
<1>4. ASSUME NEW q \in Pids
      PROVE  IF q \in Shells' THEN sh'[q].pc # "none" ELSE sh'[q] = NoShell
  <2>1. CASE q = p
    BY <2>1, <1>1
  <2>2. CASE q # p
    BY <2>2, <1>1, Typed
  <2>. QED BY <2>1, <2>2
<1>5. ASSUME NEW q \in Pids
      PROVE  proc'[q].parent < q /\ (q >= next' => proc'[q].st = "none")
  <2>1. /\ proc[q].parent < q /\ (q >= next => proc[q].st = "none")
        /\ q \in Nat /\ q > 0
    BY Typed, Limits DEF Pids
  <2>2. CASE Kept(q, p)
    <3>1. proc'[q].parent = proc[q].parent /\ (proc'[q].st = "none" <=> proc[q].st = "none")
      BY <2>2 DEF Kept
    <3>2. q >= next' => q >= next
      BY <2>1, <1>n
    <3>. QED BY <3>1, <3>2, <2>1
  <2>3. CASE Reaped(q, p)
    BY <2>1, <2>3 DEF Reaped, NoProc
  <2>4. CASE Born(q, p)
    <3>1. q = next /\ next' = next + 1 /\ proc'[q].parent = p
      BY <2>4 DEF Born
    <3>2. p < q
      <4>1. CASE p \in Pids
        BY <3>1, <4>1, Placed
      <4>2. CASE p = 0
        BY <2>1, <4>2
      <4>. QED BY <4>1, <4>2
    <3>3. ~(q >= next')
      BY <3>1, <1>n
    <3>. QED BY <3>1, <3>2, <3>3
  <2>. QED BY <2>2, <2>3, <2>4 DEF Steady
<1>6. next' \in 2..(MaxPid + 1)
  BY <1>n, Limits
<1>7. ShellTypes'
  BY <1>4, <1>5, <1>6 DEF ShellTypes
<1>. QED BY <1>1, <1>2, <1>3, <1>7 DEF ShellInv

-----------------------------------------------------------------------------
(* A shell that is not waiting for the end of its pipeline has no shell    *)
(* for a child, and is the last one of the chain.                          *)
LEMMA ActiveIsTail ==
    ASSUME ShellInv, NEW p \in Shells, sh[p].pc # "wait_last"
    PROVE  /\ IsTail(p)
           /\ \A s \in Shells : s <= p
           /\ \A q \in Pids : proc[q].st # "none" /\ proc[q].what = "shell" /\ q # Root
                                => proc[q].parent # p
BY DEF IsTail, ShellInv, Chain, WaitedFor

LEMMA ActiveGoesOn ==
    ASSUME ShellInv, NEW p \in Shells, sh[p].pc # "wait_last",
           sh'[p].pc # "wait_last" \/ sh'[p].waits \notin Pids
    PROVE  Onward(p)
BY ActiveIsTail DEF Onward

LEMMA ListedPids ==
    ASSUME ShellInv, NEW p \in Pids
    PROVE  /\ Listed(p) \subseteq Pids
           /\ sh[p].Childpid # 0 => sh[p].Childpid \in Pids
<1>1. sh[p] \in ShellStates
  BY Typed
<1>2. sh[p].jobs \in Seq(Jobs) /\ sh[p].Childpid \in 0..MaxPid
  BY <1>1, StateTypes
<1>3. ASSUME NEW c \in Listed(p) PROVE c \in Pids
  <2>1. PICK k \in DOMAIN sh[p].jobs : c = sh[p].jobs[k].pid
    BY <1>3 DEF Listed
  <2>2. sh[p].jobs[k] \in Jobs
    BY <1>2, <2>1
  <2>. QED BY <2>1, <2>2 DEF Jobs
<1>4. sh[p].Childpid # 0 => sh[p].Childpid \in Pids
  BY <1>2, Limits DEF Pids
<1>. QED BY <1>3, <1>4

(* The jobs of a shell that leaves its list alone. *)
LEMMA JobsKept ==
    ASSUME ShellInv, NEW p, Steady(p) \/ Settled(p), NEW r \in Shells,
           sh'[r].jobs = sh[r].jobs, sh'[r].Childpid = sh[r].Childpid,
           Again(r) => Again(r)'
    PROVE  /\ Len(sh'[r].jobs) <= MaxJobs + 1
           /\ Again(r)' \/ Len(sh'[r].jobs) <= MaxJobs
           /\ \A c \in Listed(r)' \cup ({sh'[r].Childpid} \ {0}) : JobFits(r, c)'
<1>1. ShellFits(r) /\ r \in Pids
  BY Placed
<1>2. /\ Len(sh[r].jobs) <= MaxJobs + 1
      /\ Again(r) \/ Len(sh[r].jobs) <= MaxJobs
      /\ \A c \in Listed(r) \cup ({sh[r].Childpid} \ {0}) : JobFits(r, c)
  BY <1>1 DEF ShellFits
<1>3. Listed(r)' = Listed(r)
  BY DEF Listed
<1>4. ASSUME NEW c \in Listed(r)' \cup ({sh'[r].Childpid} \ {0})
      PROVE  JobFits(r, c)'
  <2>1. c \in Listed(r) \cup ({sh[r].Childpid} \ {0})
    BY <1>3
  <2>2. c \in Pids
    BY <2>1, <1>1, ListedPids
  <2>. QED BY <2>1, <2>2, <1>2, JobStays
<1>. QED BY <1>2, <1>4

(* A step that changes no process but the descriptors of the shell. *)
LEMMA Quiet ==
    ASSUME ShellInv, NEW p \in Shells, next' = next, NEW x \in Processes,
           x.st = proc[p].st, x.what = proc[p].what, x.parent = proc[p].parent,
           proc' = [proc EXCEPT ![p] = x]
    PROVE  /\ Steady(p)
           /\ proc' \in [Pids -> Processes]
           /\ next' <= MaxPid + 1
           /\ \A c \in Pids : /\ c \in Children(p)' <=> c \in Children(p)
                              /\ proc'[c].what = proc[c].what
           /\ proc'[p] = x
<1>1. proc \in [Pids -> Processes] /\ next \in 2..(MaxPid + 1) /\ p \in Pids
  BY Placed DEF ShellInv, ShellTypes
<1>2. proc' \in [Pids -> Processes] /\ proc'[p] = x
      /\ \A c \in Pids : c # p => proc'[c] = proc[c]
  BY <1>1
<1>3. \A c \in Pids : /\ proc'[c].what = proc[c].what /\ proc'[c].st = proc[c].st
                      /\ proc'[c].parent = proc[c].parent
  BY <1>2
<1>4. \A c \in Pids : Kept(c, p)
  BY <1>2, <1>3 DEF Kept
<1>5. next' <= MaxPid + 1
  BY <1>1, Limits
<1>. QED BY <1>2, <1>3, <1>4, <1>5 DEF Steady, Children

LEMMA Unmoved ==
    ASSUME ShellInv, NEW p \in Shells, next' = next, proc' = proc
    PROVE  /\ Steady(p)
           /\ proc' \in [Pids -> Processes]
           /\ next' <= MaxPid + 1
           /\ \A c \in Pids : /\ c \in Children(p)' <=> c \in Children(p)
                              /\ proc'[c].what = proc[c].what
<1>1. proc \in [Pids -> Processes] /\ next \in 2..(MaxPid + 1) /\ p \in Pids
  BY Placed DEF ShellInv, ShellTypes
<1>2. next' <= MaxPid + 1
  BY <1>1, Limits
<1>3. \A c \in Pids : Kept(c, p)
  BY DEF Kept
<1>. QED BY <1>1, <1>2, <1>3 DEF Steady, Children

LEMMA NoProgram ==
    ASSUME ShellInv, NEW p \in Shells, sh[p].pc \notin {"forked", "wait"}
    PROVE  \A c \in Children(p) : proc[c].what # "fg"
BY Placed DEF ShellFits

(* executeInbuild returns *)
LEMMA Stepped ==
    ASSUME NEW s \in ShellStates, s.left > 0
    PROVE  /\ Step(s) \in ShellStates
           /\ Step(s).pc \in {"exec", "pipe_last", "update"}
           /\ Step(s).pc = "exec" => Step(s).left > 0
           /\ s.left > 1 => Step(s).pc = "exec"
           /\ Step(s).pc = "pipe_last" => s.stage = "first"
           /\ Step(s).jobs = s.jobs /\ Step(s).Childpid = s.Childpid
           /\ Step(s).stage = s.stage /\ Step(s).pipe = s.pipe /\ Step(s).cmd = s.cmd
           /\ Step(s).left = s.left - 1
<1>1. s.left \in 1..2
  BY StateTypes
<1>2. PICK pc : pc = CASE s.left > 1 -> "exec"
                       [] s.left = 1 /\ s.stage = "first" -> "pipe_last"
                       [] OTHER -> "update"
  OBVIOUS
<1>3. /\ pc \in {"exec", "pipe_last", "update"}
      /\ pc = "exec" <=> s.left > 1
      /\ pc = "pipe_last" => s.stage = "first"
  <2>1. CASE s.left > 1
    BY <2>1, <1>2
  <2>2. CASE s.left = 1 /\ s.stage = "first"
    BY <2>2, <1>2
  <2>3. CASE s.left = 1 /\ s.stage # "first"
    BY <2>3, <1>2
  <2>. QED BY <2>1, <2>2, <2>3, <1>1
<1>4. Step(s) = [s EXCEPT !.left = s.left - 1, !.waits = 0, !.pc = pc]
  BY <1>2 DEF Step
<1>5. s.left - 1 \in 0..2 /\ (s.left > 1 => s.left - 1 > 0)
  BY <1>1
<1>6. pc \in Codes
  BY <1>3 DEF Codes
<1>7. Step(s) \in ShellStates
  <2>1. PICK l \in 0..2 : l = s.left - 1
    BY <1>5
  <2>2. 0 \in Int
    OBVIOUS
  <2>3. [s EXCEPT !.left = l, !.waits = 0, !.pc = pc] \in ShellStates
    BY <1>6, <2>2 DEF ShellStates
  <2>. QED BY <1>4, <2>1, <2>3
<1>8. /\ Step(s).pc = pc /\ Step(s).left = s.left - 1
      /\ Step(s).jobs = s.jobs /\ Step(s).Childpid = s.Childpid
      /\ Step(s).stage = s.stage /\ Step(s).pipe = s.pipe /\ Step(s).cmd = s.cmd
  BY <1>4 DEF ShellStates
<1>. QED BY <1>3, <1>5, <1>7, <1>8

LEMMA StepFits ==
    ASSUME ShellInv, NEW p \in Shells, sh[p].pc \in {"run", "wait"},
           Steady(p), next' <= MaxPid + 1, proc' \in [Pids -> Processes],
           NEW s \in ShellStates, s.left = sh[p].left, s.stage = sh[p].stage,
           s.pipe = sh[p].pipe, sh' = [sh EXCEPT ![p] = Step(s)],
           \A c \in Children(p)' : proc'[c].what # "fg",
           Len(s.jobs) <= MaxJobs + 1, Again(p)' \/ Len(s.jobs) <= MaxJobs,
           \A c \in Listed(p)' \cup ({sh'[p].Childpid} \ {0}) : JobFits(p, c)'
    PROVE  ShellInv'
<1>1. p \in Pids /\ ShellFits(p) /\ sh \in [Pids -> ShellStates]
  BY Placed DEF ShellInv, ShellTypes
<1>2. s.left > 0
  BY <1>1 DEF ShellFits
<1>3. PICK t : t = Step(s)
  OBVIOUS
<1>4. /\ t \in ShellStates
      /\ t.pc \in {"exec", "pipe_last", "update"}
      /\ t.pc = "exec" => t.left > 0
      /\ t.pc = "pipe_last" => s.stage = "first"
      /\ t.jobs = s.jobs /\ t.stage = s.stage /\ t.pipe = s.pipe
  BY <1>2, <1>3, Stepped
<1>5. /\ sh' \in [Pids -> ShellStates] /\ sh'[p] = t
      /\ \A q \in Pids : q # p => sh'[q] = sh[q]
  BY <1>1, <1>3, <1>4
<1>6. sh'[p].pc = "pipe_last" \/ sh'[p].stage = "first" => sh'[p].pipe > 0
  BY <1>1, <1>4, <1>5 DEF ShellFits
<1>7. ShellFits(p)'
  BY <1>4, <1>5, <1>6 DEF ShellFits
<1>8. Onward(p)
  BY <1>4, <1>5, ActiveGoesOn
<1>9. sh'[p].pc # "none"
  BY <1>4, <1>5
<1>. QED BY <1>1, <1>5, <1>7, <1>8, <1>9, SteadyStep

LEMMA StepsOn ==
    ASSUME ShellInv, NEW p \in Shells, sh[p].pc \in {"run", "wait"}, ~Again(p),
           Steady(p), next' <= MaxPid + 1, proc' \in [Pids -> Processes],
           sh' = [sh EXCEPT ![p] = Step(@)],
           \A c \in Children(p)' : proc'[c].what # "fg"
    PROVE  ShellInv'
<1>1. p \in Pids /\ ShellFits(p) /\ sh[p] \in ShellStates /\ sh \in [Pids -> ShellStates]
  BY Placed, Typed DEF ShellInv, ShellTypes
<1>2. sh[p].left > 0
  BY <1>1 DEF ShellFits
<1>3. Step(sh[p]).jobs = sh[p].jobs /\ Step(sh[p]).Childpid = sh[p].Childpid
  BY <1>1, <1>2, Stepped
<1>4. sh'[p] = Step(sh[p])
  BY <1>1
<1>5. Len(sh[p].jobs) <= MaxJobs + 1 /\ Len(sh[p].jobs) <= MaxJobs
  BY <1>1 DEF ShellFits
<1>6. \A c \in Listed(p)' \cup ({sh'[p].Childpid} \ {0}) : JobFits(p, c)'
  BY <1>3, <1>4, JobsKept
<1>. QED BY <1>1, <1>5, <1>6, StepFits

LEMMA AfterTypes ==
    ASSUME NEW q \in Processes
    PROVE  /\ After(q) \in Processes
           /\ After(q).st = q.st /\ After(q).what = q.what
           /\ After(q).parent = q.parent
BY DEF After, Processes, Tty, File

-----------------------------------------------------------------------------
(* The steps of a shell, but for those that start or end one. *)
LEMMA AtShell ==
    ASSUME ShellInv, NEW p \in Pids, NEW s, s # "none", At(p, s)
    PROVE  /\ p \in Shells /\ sh[p].pc = s /\ proc[p].st = "run"
           /\ ShellFits(p) /\ sh[p] \in ShellStates /\ proc[p] \in Processes
           /\ sh \in [Pids -> ShellStates] /\ proc \in [Pids -> Processes]
<1>1. sh[p].pc = s /\ proc[p].st = "run"
  BY DEF At
<1>2. p \in Shells
  BY <1>1, Typed
<1>. QED BY <1>1, <1>2, Placed, Typed DEF ShellInv, ShellTypes

LEMMA TurnsTo ==
    ASSUME ShellInv, NEW p \in Shells, sh[p].pc # "wait_last",
           Steady(p), next' <= MaxPid + 1, proc' \in [Pids -> Processes],
           NEW t \in ShellStates, t.pc \notin {"none", "wait_last"},
           sh' = [sh EXCEPT ![p] = t],
           t.jobs = sh[p].jobs, t.Childpid = sh[p].Childpid,
           Again(p) => Again(p)',
           t.pc = "prompt" => proc'[p].in = Tty /\ proc'[p].out = Tty,
           t.pc \in {"exec", "run", "forked", "wait"} => t.left > 0,
           t.pc = "pipe_last" \/ t.stage = "first" => t.pipe > 0,
           \A c \in Children(p)' : proc'[c].what = "fg" =>
                t.pc \in {"forked", "wait"} /\ t.waits = c,
           t.pc = "forked" => t.waits \in Children(p)' /\ proc'[t.waits].what = "fg"
    PROVE  ShellInv'
<1>1. p \in Pids /\ sh \in [Pids -> ShellStates]
  BY Placed DEF ShellInv, ShellTypes
<1>2. /\ sh' \in [Pids -> ShellStates] /\ sh'[p] = t
      /\ \A q \in Pids : q # p => sh'[q] = sh[q]
  BY <1>1
<1>3. /\ Len(sh'[p].jobs) <= MaxJobs + 1
      /\ Again(p)' \/ Len(sh'[p].jobs) <= MaxJobs
      /\ \A c \in Listed(p)' \cup ({sh'[p].Childpid} \ {0}) : JobFits(p, c)'
  BY <1>2, JobsKept
<1>4. ShellFits(p)'
  BY <1>2, <1>3 DEF ShellFits
<1>5. Onward(p)
  BY <1>2, ActiveGoesOn
<1>6. sh'[p].pc # "none"
  BY <1>2
<1>. QED BY <1>1, <1>2, <1>4, <1>5, <1>6, SteadyStep

LEMMA ReadCommandSafe ==
    ASSUME ShellInv, NEW p \in Pids, NEW c \in Commands, ReadCommand(p, c)
    PROVE  ShellInv'
<1>1. At(p, "prompt")
  BY DEF ReadCommand
<1>2. /\ p \in Shells /\ sh[p].pc = "prompt" /\ ShellFits(p) /\ sh[p] \in ShellStates
      /\ sh \in [Pids -> ShellStates]
  BY <1>1, AtShell
<1>3. proc[p].in = Tty /\ proc[p].out = Tty
  BY <1>2 DEF ShellFits
<1>4. c \in Cmds
  BY Limits
<1>5. PICK g \in {"redirect", "pipe"} :
         g = IF c.first = "none" THEN "redirect" ELSE "pipe"
  OBVIOUS
<1>6. PICK t : t = [sh[p] EXCEPT !.cmd = c, !.a = Tty, !.b = Tty, !.pc = g]
  OBVIOUS
<1>7. sh' = [sh EXCEPT ![p] = t]
  BY <1>2, <1>3, <1>5, <1>6 DEF ReadCommand
<1>8. /\ t \in ShellStates /\ t.pc \in {"redirect", "pipe"} /\ t.jobs = sh[p].jobs
      /\ t.Childpid = sh[p].Childpid /\ t.stage = sh[p].stage /\ t.pipe = sh[p].pipe
  BY <1>2, <1>4, <1>6 DEF ShellStates, Codes
<1>9. proc' = proc /\ next' = next
  BY DEF ReadCommand
<1>10. /\ Steady(p) /\ next' <= MaxPid + 1 /\ proc' \in [Pids -> Processes]
       /\ \A d \in Pids : /\ d \in Children(p)' <=> d \in Children(p)
                          /\ proc'[d].what = proc[d].what
  BY <1>2, <1>9, Unmoved
<1>11. \A d \in Children(p)' : proc'[d].what # "fg"
  BY <1>2, <1>10, NoProgram DEF Children
<1>12. t.stage = "first" => t.pipe > 0
  BY <1>2, <1>8 DEF ShellFits
<1>13. ~Again(p)
  BY <1>2 DEF Again
<1>. QED BY <1>2, <1>7, <1>8, <1>10, <1>11, <1>12, <1>13, TurnsTo

LEMMA NextCommandSafe ==
    ASSUME ShellInv, NEW p \in Pids, NEW c \in Commands,
           NextCommand(p, c) \/ NextPipeline(p, c)
    PROVE  ShellInv'
<1>1. At(p, "update")
  BY DEF NextCommand, NextPipeline
<1>2. /\ p \in Shells /\ sh[p].pc = "update" /\ sh[p] \in ShellStates
      /\ sh \in [Pids -> ShellStates]
  BY <1>1, AtShell
<1>4. c \in Cmds
  BY Limits
<1>5. PICK g \in {"redirect", "pipe"} :
         sh' = [sh EXCEPT ![p].cmd = c, ![p].stage = "only", ![p].pc = g]
  BY DEF NextCommand, NextPipeline
<1>6. PICK t : t = [sh[p] EXCEPT !.cmd = c, !.stage = "only", !.pc = g]
  OBVIOUS
<1>7. sh' = [sh EXCEPT ![p] = t]
  BY <1>2, <1>5, <1>6
<1>8. /\ t \in ShellStates /\ t.pc \in {"redirect", "pipe"} /\ t.jobs = sh[p].jobs
      /\ t.Childpid = sh[p].Childpid /\ t.stage = "only"
  BY <1>2, <1>4, <1>6 DEF ShellStates, Codes
<1>9. proc' = proc /\ next' = next
  BY DEF NextCommand, NextPipeline
<1>10. /\ Steady(p) /\ next' <= MaxPid + 1 /\ proc' \in [Pids -> Processes]
       /\ \A d \in Pids : /\ d \in Children(p)' <=> d \in Children(p)
                          /\ proc'[d].what = proc[d].what
  BY <1>2, <1>9, Unmoved
<1>11. \A d \in Children(p)' : proc'[d].what # "fg"
  BY <1>2, <1>10, NoProgram DEF Children
<1>13. ~Again(p)
  BY <1>2 DEF Again
<1>. QED BY <1>2, <1>7, <1>8, <1>10, <1>11, <1>13, TurnsTo

LEMMA UpdateSafe ==
    ASSUME ShellInv, NEW p \in Pids, Update(p)
    PROVE  ShellInv'
<1>1. At(p, "update")
  BY DEF Update
<1>2. /\ p \in Shells /\ sh[p].pc = "update" /\ ShellFits(p) /\ sh[p] \in ShellStates
      /\ sh \in [Pids -> ShellStates] /\ proc[p] \in Processes
  BY <1>1, AtShell
<1>3. PICK old : old = sh[p].jobs
  OBVIOUS
<1>4. old \in Seq(Jobs) /\ sh[p].a = Tty /\ sh[p].b = Tty
  BY <1>2, <1>3, StateTypes
<1>5. PICK status \in [DOMAIN sh[p].jobs ->
                          {"Running", "Sleeping", "Zombie", "Stopped", "junk"}] :
        sh' = [sh EXCEPT ![p] = [NoShell EXCEPT !.pc = "prompt",
                 !.jobs = [k \in DOMAIN sh[p].jobs |->
                             [pid |-> sh[p].jobs[k].pid, status |-> status[k]]]]]
  BY DEF Update
<1>6. PICK jobs : jobs = [k \in DOMAIN sh[p].jobs |->
                            [pid |-> sh[p].jobs[k].pid, status |-> status[k]]]
  OBVIOUS
<1>7. /\ jobs \in Seq(Jobs) /\ Len(jobs) = Len(old) /\ DOMAIN jobs = DOMAIN old
      /\ \A k \in DOMAIN old : jobs[k].pid = old[k].pid
  <2>0. jobs = [k \in DOMAIN old |-> [pid |-> old[k].pid, status |-> status[k]]]
    BY <1>3, <1>6, Zenon
  <2>a. \A k \in DOMAIN old : old[k] \in Jobs
    BY <1>4
  <2>b. \A k \in DOMAIN old :
           status[k] \in {"Running", "Sleeping", "Zombie", "Stopped", "junk"}
    BY <1>3
  <2>1. \A k \in DOMAIN old : old[k].pid \in Pids
    BY <2>a DEF Jobs
  <2>2. \A k \in DOMAIN old : [pid |-> old[k].pid, status |-> status[k]] \in Jobs
    BY <2>b, <2>1 DEF Jobs
  <2>3. PICK n \in Nat : n = Len(old)
    BY <1>4
  <2>4. DOMAIN old = 1..n
    BY <1>4, <2>3
  <2>5. jobs \in [1..n -> Jobs]
    BY <2>0, <2>2, <2>4
  <2>6. jobs \in Seq(Jobs) /\ Len(jobs) = n
    BY <2>5
  <2>. QED BY <2>0, <2>3, <2>4, <2>6
<1>8. PICK t : t = [NoShell EXCEPT !.pc = "prompt", !.jobs = jobs]
  OBVIOUS
<1>9. /\ t \in ShellStates /\ t.pc = "prompt" /\ t.jobs = jobs
      /\ t.Childpid = 0 /\ t.stage = "only"
  <2>1. NoCommand \in Cmds
    BY DEF NoCommand, Cmds, Ops
  <2>2. t = [pc |-> "prompt", cmd |-> NoCommand, stage |-> "only", left |-> 0,
             jobs |-> jobs, Childpid |-> 0, waits |-> 0, pipe |-> 0, a |-> Tty, b |-> Tty]
    BY <1>8 DEF NoShell
  <2>3. 0 \in 0..MaxPid /\ 0 \in Int /\ 0 \in 0..2
    BY Limits
  <2>. QED BY <1>7, <2>1, <2>2, <2>3 DEF ShellStates, Codes
<1>10. /\ sh' = [sh EXCEPT ![p] = t] /\ sh' \in [Pids -> ShellStates] /\ sh'[p] = t
       /\ \A q \in Pids : q # p => sh'[q] = sh[q]
  BY <1>2, <1>5, <1>6, <1>8, <1>9
<1>11. PICK x : x = Restore(p)
  OBVIOUS
<1>12. /\ x \in Processes /\ x.st = proc[p].st /\ x.what = proc[p].what
       /\ x.parent = proc[p].parent /\ x.in = Tty /\ x.out = Tty
  <2>1. x = [proc[p] EXCEPT !.in = Tty, !.out = Tty]
    BY <1>4, <1>11 DEF Restore, Tty, Closed
  <2>. QED BY <2>1, <1>2 DEF Processes
<1>13. proc' = [proc EXCEPT ![p] = x] /\ next' = next
  BY <1>11 DEF Update
<1>14. /\ Steady(p) /\ next' <= MaxPid + 1 /\ proc' \in [Pids -> Processes]
       /\ proc'[p] = x
       /\ \A d \in Pids : /\ d \in Children(p)' <=> d \in Children(p)
                          /\ proc'[d].what = proc[d].what
  BY <1>2, <1>12, <1>13, Quiet
<1>15. \A d \in Children(p)' : proc'[d].what # "fg"
  BY <1>2, <1>14, NoProgram DEF Children
<1>16. ~Again(p)
  BY <1>2 DEF Again
<1>17. Len(sh'[p].jobs) <= MaxJobs /\ Len(sh'[p].jobs) <= MaxJobs + 1
  BY <1>2, <1>3, <1>7, <1>9, <1>10, <1>16 DEF ShellFits
<1>18. Listed(p)' = Listed(p)
  <2>1. sh'[p].jobs = jobs /\ DOMAIN jobs = DOMAIN old
        /\ \A k \in DOMAIN old : jobs[k].pid = sh[p].jobs[k].pid
    BY <1>3, <1>7, <1>9, <1>10
  <2>. QED BY <1>3, <2>1 DEF Listed
<1>19. ASSUME NEW c \in Listed(p)' \cup ({sh'[p].Childpid} \ {0})
       PROVE  JobFits(p, c)'
  <2>1. c \in Listed(p)
    BY <1>9, <1>10, <1>18
  <2>2. JobFits(p, c) /\ c \in Pids
    BY <2>1, <1>2, ListedPids DEF ShellFits
  <2>. QED BY <2>2, <1>14, <1>16, JobStays
<1>20. ShellFits(p)'
  BY <1>9, <1>10, <1>12, <1>14, <1>15, <1>17, <1>19 DEF ShellFits
<1>21. Onward(p) /\ sh'[p].pc # "none"
  BY <1>2, <1>9, <1>10, ActiveGoesOn
<1>. QED BY <1>2, <1>10, <1>14, <1>20, <1>21, SteadyStep

LEMMA RedirectSafe ==
    ASSUME ShellInv, NEW p \in Pids, Redirect(p)
    PROVE  ShellInv'
<1>1. At(p, "redirect")
  BY DEF Redirect
<1>2. /\ p \in Shells /\ sh[p].pc = "redirect" /\ ShellFits(p) /\ sh[p] \in ShellStates
      /\ sh \in [Pids -> ShellStates] /\ proc[p] \in Processes
      /\ proc \in [Pids -> Processes]
  BY <1>1, AtShell
<1>3. \A in \in Inputs(p) : in \in Pipes \cup {Tty, File, Closed}
  BY <1>2, ProcessTypes DEF Inputs
<1>4. PICK in \in Inputs(p), out \in {proc[p].out, File}, l \in {1, 2} :
        /\ sh' = [sh EXCEPT ![p].pc = "exec", ![p].left = l]
        /\ proc' = [proc EXCEPT ![p].in = in, ![p].out = out]
  <2>1. PICK in \in Inputs(p) :
          \/ /\ sh' = [sh EXCEPT ![p].pc = "exec", ![p].left = 2]
             /\ proc' = [proc EXCEPT ![p].in = in, ![p].out = File]
          \/ /\ sh' = [sh EXCEPT ![p].pc = "exec",
                         ![p].left = IF sh[p].cmd.redir = "none" THEN 2 ELSE 1]
             /\ proc' = [proc EXCEPT ![p].in = in]
    BY DEF Redirect
  <2>2. CASE /\ sh' = [sh EXCEPT ![p].pc = "exec", ![p].left = 2]
             /\ proc' = [proc EXCEPT ![p].in = in, ![p].out = File]
    BY <2>2
  <2>3. CASE /\ sh' = [sh EXCEPT ![p].pc = "exec",
                         ![p].left = IF sh[p].cmd.redir = "none" THEN 2 ELSE 1]
             /\ proc' = [proc EXCEPT ![p].in = in]
    <3>1. [proc EXCEPT ![p].in = in] = [proc EXCEPT ![p].in = in, ![p].out = proc[p].out]
      BY <1>2 DEF Processes
    <3>2. PICK l \in {1, 2} : l = IF sh[p].cmd.redir = "none" THEN 2 ELSE 1
      OBVIOUS
    <3>. QED BY <2>3, <3>1, <3>2
  <2>. QED BY <2>1, <2>2, <2>3
<1>5. PICK t : t = [sh[p] EXCEPT !.pc = "exec", !.left = l]
  OBVIOUS
<1>6. sh' = [sh EXCEPT ![p] = t]
  BY <1>2, <1>4, <1>5
<1>7. /\ t \in ShellStates /\ t.pc = "exec" /\ t.jobs = sh[p].jobs /\ t.left > 0
      /\ t.Childpid = sh[p].Childpid /\ t.stage = sh[p].stage /\ t.pipe = sh[p].pipe
  <2>1. l \in 0..2 /\ l > 0
    OBVIOUS
  <2>. QED BY <1>2, <1>5, <2>1 DEF ShellStates, Codes
<1>8. PICK x : x = [proc[p] EXCEPT !.in = in, !.out = out]
  OBVIOUS
<1>9. out \in Pipes \cup {Tty, File}
  BY <1>2, ProcessTypes
<1>10. /\ x \in Processes /\ x.st = proc[p].st /\ x.what = proc[p].what
       /\ x.parent = proc[p].parent
  BY <1>2, <1>3, <1>8, <1>9 DEF Processes
<1>11. proc' = [proc EXCEPT ![p] = x] /\ next' = next
  BY <1>2, <1>4, <1>8 DEF Redirect
<1>12. /\ Steady(p) /\ next' <= MaxPid + 1 /\ proc' \in [Pids -> Processes]
       /\ \A d \in Pids : /\ d \in Children(p)' <=> d \in Children(p)
                          /\ proc'[d].what = proc[d].what
  BY <1>2, <1>10, <1>11, Quiet
<1>13. \A d \in Children(p)' : proc'[d].what # "fg"
  BY <1>2, <1>12, NoProgram DEF Children
<1>14. t.stage = "first" => t.pipe > 0
  BY <1>2, <1>7 DEF ShellFits
<1>15. ~Again(p)
  BY <1>2 DEF Again
<1>. QED BY <1>2, <1>6, <1>7, <1>12, <1>13, <1>14, <1>15, TurnsTo

LEMMA CheckChildSafe ==
    ASSUME ShellInv, NEW p \in Pids, CheckChild(p)
    PROVE  ShellInv'
<1>1. At(p, "exec")
  BY DEF CheckChild
<1>2. /\ p \in Shells /\ sh[p].pc = "exec" /\ ShellFits(p) /\ sh[p] \in ShellStates
      /\ sh \in [Pids -> ShellStates]
  BY <1>1, AtShell
<1>5. PICK t : t = [sh[p] EXCEPT !.pc = "run"]
  OBVIOUS
<1>6. sh' = [sh EXCEPT ![p] = t] /\ sh'[p] = t
  BY <1>2, <1>5 DEF CheckChild, Goto
<1>7. /\ t \in ShellStates /\ t.pc = "run" /\ t.jobs = sh[p].jobs /\ t.left = sh[p].left
      /\ t.Childpid = sh[p].Childpid /\ t.stage = sh[p].stage /\ t.pipe = sh[p].pipe
      /\ t.cmd = sh[p].cmd
  BY <1>2, <1>5 DEF ShellStates, Codes
<1>11. proc' = proc /\ next' = next
  BY DEF CheckChild
<1>12. /\ Steady(p) /\ next' <= MaxPid + 1 /\ proc' \in [Pids -> Processes]
       /\ \A d \in Pids : /\ d \in Children(p)' <=> d \in Children(p)
                          /\ proc'[d].what = proc[d].what
  BY <1>2, <1>11, Unmoved
<1>13. \A d \in Children(p)' : proc'[d].what # "fg"
  BY <1>2, <1>12, NoProgram DEF Children
<1>14. (t.stage = "first" => t.pipe > 0) /\ t.left > 0
  BY <1>2, <1>7 DEF ShellFits
<1>15. Again(p) => Again(p)'
  BY <1>6, <1>7 DEF Again, Op
<1>. QED BY <1>2, <1>6, <1>7, <1>12, <1>13, <1>14, <1>15, TurnsTo

LEMMA NothingTypes == NoProc \in Processes
BY Limits DEF NoProc, Processes

(* A child that has ended is reaped. *)
LEMMA ReapSteady ==
    ASSUME ShellInv, NEW p \in Shells, proc[p].st = "run", NEW c \in Zombies(p),
           next' = next, proc'[c] = NoProc, proc'[p].st = proc[p].st,
           proc'[p].what = proc[p].what, proc'[p].parent = proc[p].parent,
           \A q \in Pids : q # p /\ q # c => proc'[q] = proc[q]
    PROVE  /\ Steady(p)
           /\ next' <= MaxPid + 1
           /\ \A d \in Children(p)' : /\ d # c /\ d \in Children(p)
                                      /\ proc'[d].what = proc[d].what
<1>1. proc \in [Pids -> Processes] /\ next \in 2..(MaxPid + 1) /\ p \in Pids
  BY Placed DEF ShellInv, ShellTypes
<1>2. c \in Pids /\ c # p /\ proc[c].parent = p /\ proc[c].st = "zombie"
  BY DEF Zombies, Children
<1>5. Kept(p, p)
  BY DEF Kept
<1>6. Reaped(c, p)
  BY <1>2, ShellIs DEF Reaped
<1>7. \A q \in Pids : q # p /\ q # c => Kept(q, p)
  BY DEF Kept
<1>8. Steady(p)
  BY <1>5, <1>6, <1>7 DEF Steady
<1>9. ASSUME NEW d \in Children(p)'
      PROVE  d # c /\ d \in Children(p) /\ proc'[d].what = proc[d].what
  <2>1. d \in Pids /\ proc'[d].parent = p /\ proc'[d].st # "none"
    BY <1>9 DEF Children
  <2>2. d # c
    BY <2>1 DEF NoProc
  <2>3. CASE d = p
    <3>1. proc[d].parent = p /\ proc[d].st # "none"
      BY <2>1, <2>3
    <3>. QED BY <2>1, <2>2, <2>3, <3>1 DEF Children
  <2>4. CASE d # p
    BY <2>1, <2>2, <2>4 DEF Children
  <2>. QED BY <2>3, <2>4
<1>10. next' <= MaxPid + 1
  BY <1>1, Limits
<1>. QED BY <1>8, <1>9, <1>10

LEMMA DeleteJobFacts ==
    ASSUME ShellInv, NEW p \in Pids, NEW c
    PROVE  /\ DeleteJob(p, c) \in Seq(Jobs)
           /\ Len(DeleteJob(p, c)) <= Len(sh[p].jobs)
           /\ \A k \in DOMAIN DeleteJob(p, c) :
                 \E j \in DOMAIN sh[p].jobs : DeleteJob(p, c)[k] = sh[p].jobs[j]
<1>1. PICK jobs : jobs = sh[p].jobs
  OBVIOUS
<1>2. jobs \in Seq(Jobs)
  BY <1>1, Typed, StateTypes
<1>3. PICK n \in Nat : n = Len(jobs)
  BY <1>2
<1>4. CASE jobs = <<>>
  <2>1. DeleteJob(p, c) = jobs
    BY <1>1, <1>4 DEF DeleteJob
  <2>. QED BY <1>1, <1>2, <1>3, <2>1
<1>5. CASE jobs # <<>>
  <2>1. n # 0 /\ DOMAIN jobs = 1..n /\ \A k \in 1..n : jobs[k] \in Jobs
    BY <1>2, <1>3, <1>5
  <2>2. PICK f : f = FirstJob(p, c)
    OBVIOUS
  <2>3. DeleteJob(p, c) = [j \in 1..(n - 1) |-> IF j < f THEN jobs[j] ELSE jobs[j + 1]]
    BY <1>1, <1>3, <1>5, <2>2 DEF DeleteJob
  <2>4. PICK d : d = DeleteJob(p, c)
    OBVIOUS
  <2>5. ASSUME NEW k \in 1..(n - 1)
        PROVE  \E j \in 1..n : d[k] = jobs[j]
    <3>1. k \in 1..n /\ k + 1 \in 1..n
      OBVIOUS
    <3>2. d[k] = jobs[k] \/ d[k] = jobs[k + 1]
      BY <2>3, <2>4
    <3>. QED BY <3>1, <3>2
  <2>6. d \in [1..(n - 1) -> Jobs]
    BY <2>1, <2>3, <2>4, <2>5
  <2>7. n - 1 \in Nat
    BY <2>1
  <2>8. d \in Seq(Jobs) /\ Len(d) = n - 1 /\ DOMAIN d = 1..(n - 1)
    BY <2>6, <2>7
  <2>9. Len(d) <= Len(jobs)
    BY <1>3, <2>8
  <2>10. \A k \in DOMAIN d : \E j \in DOMAIN jobs : d[k] = jobs[j]
    BY <2>1, <2>5, <2>8
  <2>. QED BY <1>1, <2>4, <2>8, <2>9, <2>10
<1>. QED BY <1>4, <1>5

LEMMA ReapSafe ==
    ASSUME ShellInv, NEW p \in Pids, At(p, "exec"), NEW c \in Zombies(p),
           sh' = [sh EXCEPT ![p].pc = "run", ![p].jobs = DeleteJob(p, c)],
           proc' = [proc EXCEPT ![c] = NoProc], next' = next
    PROVE  ShellInv'
<1>2. /\ p \in Shells /\ sh[p].pc = "exec" /\ ShellFits(p) /\ sh[p] \in ShellStates
      /\ sh \in [Pids -> ShellStates] /\ proc[p] \in Processes /\ proc[p].st = "run"
      /\ proc \in [Pids -> Processes]
  BY AtShell
<1>3. PICK jobs : jobs = DeleteJob(p, c)
  OBVIOUS
<1>4. /\ jobs \in Seq(Jobs) /\ Len(jobs) <= Len(sh[p].jobs)
      /\ \A k \in DOMAIN jobs : \E j \in DOMAIN sh[p].jobs : jobs[k] = sh[p].jobs[j]
  BY <1>3, DeleteJobFacts
<1>5. PICK t : t = [sh[p] EXCEPT !.pc = "run", !.jobs = jobs]
  OBVIOUS
<1>6. sh' = [sh EXCEPT ![p] = t]
  BY <1>2, <1>3, <1>5
<1>7. /\ t \in ShellStates /\ t.pc = "run" /\ t.jobs = jobs /\ t.left = sh[p].left
      /\ t.Childpid = sh[p].Childpid /\ t.stage = sh[p].stage /\ t.pipe = sh[p].pipe
      /\ t.cmd = sh[p].cmd
  BY <1>2, <1>4, <1>5 DEF ShellStates, Codes
<1>8. /\ sh' \in [Pids -> ShellStates] /\ sh'[p] = t
      /\ \A q \in Pids : q # p => sh'[q] = sh[q]
  BY <1>2, <1>6, <1>7
<1>9. /\ proc' \in [Pids -> Processes] /\ proc'[c] = NoProc /\ proc'[p] = proc[p]
      /\ \A q \in Pids : q # p /\ q # c => proc'[q] = proc[q]
  <2>1. c \in Pids /\ c # p
    BY <1>2 DEF Zombies, Children
  <2>. QED BY <1>2, <2>1, NothingTypes
<1>10. /\ Steady(p) /\ next' <= MaxPid + 1
       /\ \A d \in Children(p)' : /\ d # c /\ d \in Children(p)
                                  /\ proc'[d].what = proc[d].what
  BY <1>2, <1>9, ReapSteady
<1>11. \A d \in Children(p)' : proc'[d].what # "fg"
  BY <1>2, <1>10, NoProgram
<1>12. (t.stage = "first" => t.pipe > 0) /\ t.left > 0
  BY <1>2, <1>7 DEF ShellFits
<1>13. Again(p) => Again(p)'
  BY <1>7, <1>8 DEF Again, Op
<1>14. Len(jobs) <= MaxJobs + 1 /\ (Again(p)' \/ Len(jobs) <= MaxJobs)
  <2>1. Len(sh[p].jobs) <= MaxJobs + 1 /\ (Again(p) \/ Len(sh[p].jobs) <= MaxJobs)
    BY <1>2 DEF ShellFits
  <2>2. PICK n \in Nat : n = Len(jobs)
    BY <1>4
  <2>j. sh[p].jobs \in Seq(Jobs)
    BY <1>2, StateTypes
  <2>3. PICK m \in Nat : m = Len(sh[p].jobs)
    BY <2>j
  <2>. QED BY <2>1, <2>2, <2>3, <1>4, <1>13, Limits
<1>15. ASSUME NEW e \in Listed(p)' PROVE e \in Listed(p)
  <2>1. PICK k \in DOMAIN jobs : e = jobs[k].pid
    BY <1>7, <1>8, <1>15 DEF Listed
  <2>2. PICK j \in DOMAIN sh[p].jobs : jobs[k] = sh[p].jobs[j]
    BY <1>4, <2>1
  <2>. QED BY <2>1, <2>2 DEF Listed
<1>16. ASSUME NEW e \in Listed(p)' \cup ({sh'[p].Childpid} \ {0})
       PROVE  JobFits(p, e)'
  <2>1. e \in Listed(p) \cup ({sh[p].Childpid} \ {0})
    BY <1>7, <1>8, <1>15
  <2>2. JobFits(p, e) /\ e \in Pids
    BY <2>1, <1>2, ListedPids DEF ShellFits
  <2>. QED BY <2>2, <1>10, <1>13, JobStays
<1>17. ShellFits(p)'
  BY <1>7, <1>8, <1>11, <1>12, <1>14, <1>16 DEF ShellFits
<1>18. Onward(p) /\ sh'[p].pc # "none"
  BY <1>2, <1>7, <1>8, ActiveGoesOn
<1>. QED BY <1>2, <1>8, <1>9, <1>10, <1>17, <1>18, SteadyStep

(* executeInbuild does nothing that the model has. *)
LEMMA ExecutedSafe ==
    ASSUME ShellInv, NEW p \in Shells, sh[p].pc \in {"run", "wait"}, ~Again(p),
           Executed(p), next' = next, \A c \in Children(p) : proc[c].what # "fg"
    PROVE  ShellInv'
<1>1. proc[p] \in Processes
  BY Placed, Typed
<1>2. PICK x : x = After(proc[p])
  OBVIOUS
<1>3. /\ x \in Processes /\ x.st = proc[p].st /\ x.what = proc[p].what
      /\ x.parent = proc[p].parent
  BY <1>1, <1>2, AfterTypes
<1>4. proc' = [proc EXCEPT ![p] = x]
  BY <1>2 DEF Executed
<1>5. /\ Steady(p) /\ next' <= MaxPid + 1 /\ proc' \in [Pids -> Processes]
      /\ \A d \in Pids : /\ d \in Children(p)' <=> d \in Children(p)
                         /\ proc'[d].what = proc[d].what
  BY <1>3, <1>4, Quiet
<1>6. \A d \in Children(p)' : proc'[d].what # "fg"
  BY <1>5 DEF Children
<1>7. sh' = [sh EXCEPT ![p] = Step(@)]
  BY DEF Executed
<1>. QED BY <1>5, <1>6, <1>7, StepsOn

LEMMA RunsNotAgain ==
    ASSUME NEW p, sh[p].pc = "wait" \/ Op(p) # "amp" \/ sh[p].left = 2
    PROVE  ~Again(p)
BY DEF Again

LEMMA BuiltinSafe ==
    ASSUME ShellInv, NEW p \in Pids, Builtin(p)
    PROVE  ShellInv'
<1>1. At(p, "run") /\ Op(p) # "amp" /\ Executed(p) /\ next' = next
  BY DEF Builtin
<1>2. p \in Shells /\ sh[p].pc = "run"
  BY <1>1, AtShell
<1>. QED BY <1>1, <1>2, RunsNotAgain, NoProgram, ExecutedSafe

LEMMA WaitFailsSafe ==
    ASSUME ShellInv, NEW p \in Pids, WaitFails(p)
    PROVE  ShellInv'
<1>1. At(p, "wait") /\ Awaited(p) = {} /\ Executed(p) /\ next' = next
  BY DEF WaitFails
<1>2. p \in Shells /\ sh[p].pc = "wait" /\ ShellFits(p)
  BY <1>1, AtShell
<1>3. \A c \in Children(p) : proc[c].what # "fg"
  BY <1>1, <1>2 DEF ShellFits, Awaited
<1>. QED BY <1>1, <1>2, <1>3, RunsNotAgain, ExecutedSafe

LEMMA WaitedSafe ==
    ASSUME ShellInv, NEW p \in Pids, Waited(p)
    PROVE  ShellInv'
<1>1. At(p, "wait") /\ next' = next /\ sh' = [sh EXCEPT ![p] = Step(@)]
  BY DEF Waited
<1>2. /\ p \in Shells /\ sh[p].pc = "wait" /\ ShellFits(p) /\ proc[p].st = "run"
      /\ proc[p] \in Processes /\ sh[p] \in ShellStates
  BY <1>1, AtShell
<1>3. PICK c \in Awaited(p) \cap Zombies(p) :
        proc' = [proc EXCEPT ![p] = After(@), ![c] = NoProc]
  BY DEF Waited
<1>4. PICK x : x = After(proc[p])
  OBVIOUS
<1>5. /\ x \in Processes /\ x.st = proc[p].st /\ x.what = proc[p].what
      /\ x.parent = proc[p].parent
  BY <1>2, <1>4, AfterTypes
<1>w. /\ proc' \in [Pids -> Processes] /\ proc'[c] = NoProc /\ proc'[p] = x
      /\ \A q \in Pids : q # p /\ q # c => proc'[q] = proc[q]
  <2>1. c \in Pids /\ c # p
    BY <1>2 DEF Zombies, Children
  <2>2. proc \in [Pids -> Processes]
    BY <1>1, AtShell
  <2>3. proc' = [proc EXCEPT ![p] = x, ![c] = NoProc]
    BY <1>3, <1>4, <2>1, <2>2
  <2>. QED BY <1>5, <2>1, <2>2, <2>3, NothingTypes
<1>6. /\ Steady(p) /\ next' <= MaxPid + 1
      /\ \A d \in Children(p)' : /\ d # c /\ d \in Children(p)
                                 /\ proc'[d].what = proc[d].what
  BY <1>1, <1>2, <1>5, <1>w, ReapSteady
<1>7. ASSUME NEW d \in Children(p)', proc'[d].what = "fg"
      PROVE  FALSE
  <2>1. d # c /\ sh[p].waits = d /\ d \in Pids
    BY <1>2, <1>6, <1>7 DEF ShellFits, Children
  <2>2. sh[p].waits \in {c, Any}
    BY <1>3 DEF Awaited
  <2>. QED BY <2>1, <2>2, Limits DEF Any, Pids
<1>. QED BY <1>1, <1>2, <1>w, <1>6, <1>7, RunsNotAgain, StepsOn

(* A process that shell p has forked. *)
LEMMA ChildTypes ==
    ASSUME ShellInv, NEW p \in Pids, NEW what \in {"fg", "bg", "stage", "shell"},
           NEW reads \in BOOLEAN, NEW out \in Pipes \cup {Tty, File}
    PROVE  /\ Child(p, what, reads, out) \in Processes
           /\ Child(p, what, reads, out).parent = p
           /\ Child(p, what, reads, out).what = what
           /\ Child(p, what, reads, out).st = "run"
<1>1. proc[p].in \in Pipes \cup {Tty, File, Closed}
  BY Typed, ProcessTypes
<1>2. p \in 0..MaxPid
  BY Limits DEF Pids
<1>. QED BY <1>1, <1>2 DEF Child, Processes

LEMMA BornSteady ==
    ASSUME ShellInv, NEW p \in Shells, next <= MaxPid, next' = next + 1,
           NEW k \in Processes, k.parent = p, k.st = "run", k.what \in {"fg", "bg", "stage"},
           proc' = [proc EXCEPT ![next] = k]
    PROVE  /\ Steady(p) /\ next' <= MaxPid + 1 /\ proc' \in [Pids -> Processes]
           /\ next \in Pids /\ next # p /\ next \in Children(p)' /\ proc'[next] = k
           /\ \A d \in Children(p)' : \/ d = next
                                      \/ d \in Children(p) /\ proc'[d] = proc[d]
<1>1. proc \in [Pids -> Processes] /\ next \in 2..(MaxPid + 1) /\ p \in Pids /\ p < next
  BY Placed DEF ShellInv, ShellTypes
<1>2. next \in Pids /\ next # p /\ next' <= MaxPid + 1
  BY <1>1, Limits DEF Pids
<1>3. /\ proc' \in [Pids -> Processes] /\ proc'[next] = k
      /\ \A q \in Pids : q # next => proc'[q] = proc[q]
  BY <1>1, <1>2
<1>4. Born(next, p)
  BY <1>3 DEF Born
<1>5. \A q \in Pids : q # next => Kept(q, p)
  BY <1>3 DEF Kept
<1>6. Steady(p)
  BY <1>4, <1>5 DEF Steady
<1>. QED BY <1>2, <1>3, <1>6 DEF Children

LEMMA ForkProgramSafe ==
    ASSUME ShellInv, NEW p \in Pids, ForkProgram(p)
    PROVE  ShellInv'
<1>1. At(p, "run") /\ Op(p) # "amp"
  BY DEF ForkProgram
<1>2. /\ p \in Shells /\ sh[p].pc = "run" /\ ShellFits(p) /\ sh[p] \in ShellStates
      /\ sh \in [Pids -> ShellStates] /\ proc[p] \in Processes
  BY <1>1, AtShell
<1>3. ~Again(p) /\ \A c \in Children(p) : proc[c].what # "fg"
  BY <1>1, <1>2, RunsNotAgain, NoProgram
<1>4. CASE Executed(p) /\ next' = next
  BY <1>2, <1>3, <1>4, ExecutedSafe
<1>5. CASE /\ next <= MaxPid
           /\ proc' = [proc EXCEPT ![next] = Child(p, "fg", Op(p) = "reader", proc[p].out)]
           /\ sh' = [sh EXCEPT ![p].pc = "forked", ![p].waits = next]
           /\ next' = next + 1
  <2>b. proc[p].out \in Pipes \cup {Tty, File}
    BY <1>2, ProcessTypes
  <2>c. PICK k : k = Child(p, "fg", Op(p) = "reader", proc[p].out)
    OBVIOUS
  <2>1. /\ k \in Processes /\ k.parent = p /\ k.st = "run" /\ k.what = "fg"
        /\ proc' = [proc EXCEPT ![next] = k]
    <3>1. k \in Processes
      BY <2>b, <2>c, Limits, <1>2, ProcessTypes DEF Child, Processes, Pids
    <3>. QED BY <1>5, <2>c, <3>1 DEF Child
  <2>2. /\ Steady(p) /\ next' <= MaxPid + 1 /\ proc' \in [Pids -> Processes]
        /\ next \in Pids /\ next # p /\ next \in Children(p)' /\ proc'[next] = k
        /\ \A d \in Children(p)' : \/ d = next
                                   \/ d \in Children(p) /\ proc'[d] = proc[d]
    BY <1>2, <1>5, <2>1, BornSteady, ZenonT(60)
  <2>3. PICK t : t = [sh[p] EXCEPT !.pc = "forked", !.waits = next]
    OBVIOUS
  <2>4. sh' = [sh EXCEPT ![p] = t]
    BY <1>2, <1>5, <2>3
  <2>5. next \in Int
    BY Typed, Limits
  <2>6. /\ t \in ShellStates /\ t.pc = "forked" /\ t.jobs = sh[p].jobs /\ t.left = sh[p].left
        /\ t.Childpid = sh[p].Childpid /\ t.stage = sh[p].stage /\ t.pipe = sh[p].pipe
        /\ t.waits = next
    BY <1>2, <2>3, <2>5 DEF ShellStates, Codes
  <2>7. (t.stage = "first" => t.pipe > 0) /\ t.left > 0
    BY <1>2, <2>6 DEF ShellFits
  <2>8. \A d \in Children(p)' : proc'[d].what = "fg" => t.waits = d
    BY <1>3, <2>2, <2>6
  <2>9. t.waits \in Children(p)' /\ proc'[t.waits].what = "fg"
    BY <2>1, <2>2, <2>6
  <2>. QED BY <1>2, <1>3, <2>2, <2>4, <2>6, <2>7, <2>8, <2>9, TurnsTo
<1>. QED BY <1>4, <1>5 DEF ForkProgram

LEMMA SetChildpidSafe ==
    ASSUME ShellInv, NEW p \in Pids, SetChildpid(p)
    PROVE  ShellInv'
<1>1. At(p, "forked") /\ proc' = proc /\ next' = next
  BY DEF SetChildpid
<1>2. /\ p \in Shells /\ sh[p].pc = "forked" /\ ShellFits(p) /\ sh[p] \in ShellStates
      /\ sh \in [Pids -> ShellStates]
  BY <1>1, AtShell
<1>3. PICK w : w = sh[p].waits
  OBVIOUS
<1>4. /\ w \in Children(p) /\ w \in Pids /\ proc[w].what = "fg" /\ proc[w].parent = p
      /\ proc[w].st # "none"
  BY <1>2, <1>3 DEF ShellFits, Children
<1>5. w < next /\ w \in 0..MaxPid /\ w # 0
  BY <1>4, Typed, Limits DEF Pids
<1>6. PICK t : t = [sh[p] EXCEPT !.Childpid = w, !.pc = "wait"]
  OBVIOUS
<1>7. sh' = [sh EXCEPT ![p] = t]
  BY <1>2, <1>3, <1>6 DEF SetChildpid
<1>8. /\ t \in ShellStates /\ t.pc = "wait" /\ t.jobs = sh[p].jobs /\ t.left = sh[p].left
      /\ t.Childpid = w /\ t.stage = sh[p].stage /\ t.pipe = sh[p].pipe /\ t.waits = w
  BY <1>2, <1>3, <1>5, <1>6 DEF ShellStates, Codes
<1>9. /\ sh' \in [Pids -> ShellStates] /\ sh'[p] = t
      /\ \A q \in Pids : q # p => sh'[q] = sh[q]
  BY <1>2, <1>7, <1>8
<1>10. /\ Steady(p) /\ next' <= MaxPid + 1 /\ proc' \in [Pids -> Processes]
       /\ \A d \in Pids : /\ d \in Children(p)' <=> d \in Children(p)
                          /\ proc'[d].what = proc[d].what
  BY <1>1, <1>2, Unmoved
<1>11. (t.stage = "first" => t.pipe > 0) /\ t.left > 0
  BY <1>2, <1>8 DEF ShellFits
<1>12. ~Again(p) /\ Len(t.jobs) <= MaxJobs /\ Len(t.jobs) <= MaxJobs + 1
  BY <1>2, <1>8 DEF Again, ShellFits
<1>13. \A d \in Children(p)' : proc'[d].what = "fg" => t.waits = d
  BY <1>2, <1>3, <1>8, <1>10 DEF ShellFits, Children
<1>14. JobFits(p, w)'
  BY <1>1, <1>4, <1>5 DEF JobFits
<1>15. Listed(p)' = Listed(p)
  BY <1>8, <1>9 DEF Listed
<1>16. ASSUME NEW e \in Listed(p)' \cup ({sh'[p].Childpid} \ {0})
       PROVE  JobFits(p, e)'
  <2>1. CASE e = w
    BY <2>1, <1>14
  <2>2. CASE e \in Listed(p)
    <3>1. JobFits(p, e) /\ e \in Pids
      BY <2>2, <1>2, ListedPids DEF ShellFits
    <3>. QED BY <3>1, <1>10, <1>12, JobStays
  <2>. QED BY <2>1, <2>2, <1>8, <1>9, <1>15
<1>17. ShellFits(p)'
  BY <1>8, <1>9, <1>11, <1>12, <1>13, <1>16 DEF ShellFits
<1>18. Onward(p) /\ sh'[p].pc # "none"
  BY <1>2, <1>8, <1>9, ActiveGoesOn
<1>. QED BY <1>2, <1>9, <1>10, <1>17, <1>18, SteadyStep

LEMMA FgSafe ==
    ASSUME ShellInv, NEW p \in Pids, Fg(p)
    PROVE  ShellInv'
<1>1. At(p, "run") /\ Op(p) # "amp" /\ proc' = proc /\ next' = next
  BY DEF Fg
<1>2. /\ p \in Shells /\ sh[p].pc = "run" /\ ShellFits(p) /\ sh[p] \in ShellStates
      /\ sh \in [Pids -> ShellStates]
  BY <1>1, AtShell
<1>3. sh[p].cmd.arg \in Int
  BY <1>2, StateTypes DEF Cmds
<1>4. PICK t : t = [sh[p] EXCEPT !.pc = "wait", !.waits = sh[p].cmd.arg]
  OBVIOUS
<1>5. sh' = [sh EXCEPT ![p] = t]
  BY <1>2, <1>4 DEF Fg
<1>6. /\ t \in ShellStates /\ t.pc = "wait" /\ t.jobs = sh[p].jobs /\ t.left = sh[p].left
      /\ t.Childpid = sh[p].Childpid /\ t.stage = sh[p].stage /\ t.pipe = sh[p].pipe
  BY <1>2, <1>3, <1>4 DEF ShellStates, Codes
<1>7. /\ Steady(p) /\ next' <= MaxPid + 1 /\ proc' \in [Pids -> Processes]
      /\ \A d \in Pids : /\ d \in Children(p)' <=> d \in Children(p)
                         /\ proc'[d].what = proc[d].what
  BY <1>1, <1>2, Unmoved
<1>8. \A d \in Children(p)' : proc'[d].what # "fg"
  BY <1>2, <1>7, NoProgram DEF Children
<1>9. (t.stage = "first" => t.pipe > 0) /\ t.left > 0
  BY <1>2, <1>6 DEF ShellFits
<1>10. ~Again(p)
  BY <1>1, RunsNotAgain
<1>. QED BY <1>2, <1>5, <1>6, <1>7, <1>8, <1>9, <1>10, TurnsTo

LEMMA PipeForkedSafe ==
    ASSUME ShellInv, NEW p \in Pids, PipeForked(p)
    PROVE  ShellInv'
<1>1. At(p, "pipe")
  BY DEF PipeForked
<1>2. /\ p \in Shells /\ sh[p].pc = "pipe" /\ ShellFits(p) /\ sh[p] \in ShellStates
      /\ sh \in [Pids -> ShellStates] /\ proc[p] \in Processes
  BY <1>1, AtShell
<1>3. ~Again(p) /\ \A c \in Children(p) : proc[c].what # "fg"
  BY <1>2, NoProgram DEF Again
<1>n. next \in 2..(MaxPid + 1)
  BY Typed
<1>4. ASSUME NEW n \in 1..MaxPid, sh' = [sh EXCEPT ![p].pc = "pipe_last", ![p].pipe = n],
             Steady(p), next' <= MaxPid + 1, proc' \in [Pids -> Processes],
             \A d \in Children(p)' : proc'[d].what # "fg"
      PROVE  ShellInv'
  <2>1. PICK t : t = [sh[p] EXCEPT !.pc = "pipe_last", !.pipe = n]
    OBVIOUS
  <2>2. sh' = [sh EXCEPT ![p] = t]
    BY <1>2, <1>4, <2>1
  <2>3. n \in 0..MaxPid /\ n > 0
    BY Limits
  <2>4. /\ t \in ShellStates /\ t.pc = "pipe_last" /\ t.jobs = sh[p].jobs
        /\ t.Childpid = sh[p].Childpid /\ t.pipe = n
    BY <1>2, <2>1, <2>3 DEF ShellStates, Codes
  <2>5. t.pc = "pipe_last" \/ t.stage = "first" => t.pipe > 0
    BY <2>3, <2>4
  <2>6. Again(p) => Again(p)'
    BY <1>3
  <2>7. /\ t.pc \notin {"none", "wait_last"} /\ t.pc \notin {"exec", "run", "forked", "wait"}
        /\ t.pc # "prompt" /\ t.pc # "forked" /\ sh[p].pc # "wait_last"
    BY <1>2, <2>4
  <2>8. p \in Shells
    BY <1>2
  <2>. QED BY <1>4, <2>2, <2>4, <2>5, <2>6, <2>7, <2>8, TurnsTo
<1>5. CASE /\ next <= MaxPid
           /\ proc' = [proc EXCEPT ![next] = Child(p, "stage", FALSE, next)]
           /\ sh' = [sh EXCEPT ![p].pc = "pipe_last", ![p].pipe = next]
           /\ next' = next + 1
  <2>1. next \in 1..MaxPid
    BY <1>5, <1>n, Limits
  <2>a. PICK k : k = Child(p, "stage", FALSE, next)
    OBVIOUS
  <2>b. next \in Pipes \cup {Tty, File}
    BY <2>1 DEF Pipes
  <2>2. /\ k \in Processes /\ k.parent = p /\ k.st = "run" /\ k.what = "stage"
        /\ proc' = [proc EXCEPT ![next] = k]
    <3>1. k \in Processes
      BY <2>a, <2>b, Limits, <1>2, ProcessTypes DEF Child, Processes, Pids
    <3>. QED BY <1>5, <2>a, <3>1 DEF Child
  <2>3. /\ Steady(p) /\ next' <= MaxPid + 1 /\ proc' \in [Pids -> Processes]
        /\ proc'[next] = k
        /\ \A d \in Children(p)' : \/ d = next
                                   \/ d \in Children(p) /\ proc'[d] = proc[d]
    BY <1>2, <1>5, <2>2, BornSteady
  <2>4. \A d \in Children(p)' : proc'[d].what # "fg"
    BY <1>3, <2>2, <2>3
  <2>. QED BY <1>4, <1>5, <2>1, <2>3, <2>4
<1>6. CASE /\ next > MaxPid
           /\ sh' = [sh EXCEPT ![p].pc = "pipe_last", ![p].pipe = next - 1]
           /\ UNCHANGED <<proc, next>>
  <2>1. next - 1 \in 1..MaxPid
    BY <1>n, Limits
  <2>2. /\ Steady(p) /\ next' <= MaxPid + 1 /\ proc' \in [Pids -> Processes]
        /\ \A d \in Pids : /\ d \in Children(p)' <=> d \in Children(p)
                           /\ proc'[d].what = proc[d].what
    BY <1>2, <1>6, Unmoved
  <2>3. \A d \in Children(p)' : proc'[d].what # "fg"
    BY <1>3, <2>2 DEF Children
  <2>. QED BY <1>4, <1>6, <2>1, <2>2, <2>3
<1>. QED BY <1>5, <1>6 DEF PipeForked

LEMMA PipeInShellSafe ==
    ASSUME ShellInv, NEW p \in Pids, PipeInShell(p)
    PROVE  ShellInv'
<1>1. At(p, "pipe") /\ next' = next
  BY DEF PipeInShell
<1>2. /\ p \in Shells /\ sh[p].pc = "pipe" /\ ShellFits(p) /\ sh[p] \in ShellStates
      /\ sh \in [Pids -> ShellStates] /\ proc[p] \in Processes
      /\ proc \in [Pids -> Processes]
  BY <1>1, AtShell
<1>3. ~Again(p) /\ \A c \in Children(p) : proc[c].what # "fg"
  BY <1>2, NoProgram DEF Again
<1>n. next \in 2..(MaxPid + 1)
  BY Typed
<1>4. PICK n : /\ n = (IF next <= MaxPid THEN next ELSE next - 1)
               /\ proc' = [proc EXCEPT ![p].out = n]
               /\ sh' = [sh EXCEPT ![p].pc = "exec", ![p].stage = "first",
                                   ![p].left = 2, ![p].pipe = n]
  BY DEF PipeInShell
<1>5. n \in Pipes /\ n \in 0..MaxPid /\ n > 0
  BY <1>n, <1>4, Limits DEF Pipes
<1>6. PICK t : t = [sh[p] EXCEPT !.pc = "exec", !.stage = "first", !.left = 2, !.pipe = n]
  OBVIOUS
<1>7. sh' = [sh EXCEPT ![p] = t]
  BY <1>2, <1>4, <1>6
<1>8. /\ t \in ShellStates /\ t.pc = "exec" /\ t.jobs = sh[p].jobs /\ t.left > 0
      /\ t.Childpid = sh[p].Childpid /\ t.pipe = n
  <2>1. 2 \in 0..2 /\ 2 > 0
    OBVIOUS
  <2>. QED BY <1>2, <1>5, <1>6, <2>1 DEF ShellStates, Codes
<1>9. PICK x : x = [proc[p] EXCEPT !.out = n]
  OBVIOUS
<1>10. /\ x \in Processes /\ x.st = proc[p].st /\ x.what = proc[p].what
       /\ x.parent = proc[p].parent
  BY <1>2, <1>5, <1>9 DEF Processes
<1>11. proc' = [proc EXCEPT ![p] = x]
  BY <1>2, <1>4, <1>9
<1>12. /\ Steady(p) /\ next' <= MaxPid + 1 /\ proc' \in [Pids -> Processes]
       /\ \A d \in Pids : /\ d \in Children(p)' <=> d \in Children(p)
                          /\ proc'[d].what = proc[d].what
  BY <1>1, <1>2, <1>10, <1>11, Quiet
<1>13. \A d \in Children(p)' : proc'[d].what # "fg"
  BY <1>3, <1>12 DEF Children
<1>. QED BY <1>2, <1>3, <1>5, <1>7, <1>8, <1>12, <1>13, TurnsTo

LEMMA BackgroundSafe ==
    ASSUME ShellInv, NEW p \in Pids, Background(p)
    PROVE  ShellInv'
<1>1. At(p, "run") /\ Op(p) = "amp" /\ sh[p].left = 2
  BY DEF Background
<1>2. /\ p \in Shells /\ sh[p].pc = "run" /\ ShellFits(p) /\ sh[p] \in ShellStates
      /\ sh \in [Pids -> ShellStates] /\ proc[p] \in Processes
  BY <1>1, AtShell
<1>3. ~Again(p) /\ \A c \in Children(p) : proc[c].what # "fg"
  BY <1>1, <1>2, RunsNotAgain, NoProgram
<1>4. CASE Executed(p) /\ next' = next
  BY <1>2, <1>3, <1>4, ExecutedSafe
<1>5. CASE /\ next <= MaxPid
           /\ proc' = [proc EXCEPT ![next] = Child(p, "bg", FALSE, proc[p].out)]
           /\ Started(p, next)
           /\ next' = next + 1
  <2>1. PICK k : k = Child(p, "bg", FALSE, proc[p].out)
    OBVIOUS
  <2>2. proc[p].out \in Pipes \cup {Tty, File}
    BY <1>2, ProcessTypes
  <2>3. k \in Processes
    BY <2>1, <2>2, Limits, <1>2, ProcessTypes DEF Child, Processes, Pids
  <2>4. k.parent = p /\ k.st = "run" /\ k.what = "bg" /\ proc' = [proc EXCEPT ![next] = k]
    BY <1>5, <2>1 DEF Child
  <2>5. /\ Steady(p) /\ next' <= MaxPid + 1 /\ proc' \in [Pids -> Processes]
        /\ next \in Pids /\ proc'[next] = k
        /\ \A d \in Children(p)' : \/ d = next
                                   \/ d \in Children(p) /\ proc'[d] = proc[d]
    BY <1>2, <1>5, <2>3, <2>4, BornSteady
  <2>6. \A d \in Children(p)' : proc'[d].what # "fg"
    BY <1>3, <2>4, <2>5
  <2>7. PICK status \in {"Running", "Sleeping", "Zombie", "junk"} :
          sh' = [sh EXCEPT ![p] = Step([sh[p] EXCEPT !.Childpid = next,
                  !.jobs = Append(@, [pid |-> next, status |-> status])])]
    BY <1>5 DEF Started
  <2>8. PICK job : job = [pid |-> next, status |-> status]
    OBVIOUS
  <2>9. job \in Jobs /\ job.pid = next
    BY <2>5, <2>8 DEF Jobs
  <2>10. PICK jobs : jobs = Append(sh[p].jobs, job)
    OBVIOUS
  <2>11. PICK s : s = [sh[p] EXCEPT !.Childpid = next, !.jobs = jobs]
    OBVIOUS
  <2>12. sh' = [sh EXCEPT ![p] = Step(s)]
    <3>1. s = [sh[p] EXCEPT !.Childpid = next,
                 !.jobs = Append(@, [pid |-> next, status |-> status])]
      BY <2>8, <2>10, <2>11
    <3>. QED BY <2>7, <3>1, Zenon
  <2>13. sh[p].jobs \in Seq(Jobs) /\ next \in 0..MaxPid
    BY <1>2, <2>5, StateTypes DEF Pids
  <2>14. jobs \in Seq(Jobs)
    BY <2>9, <2>10, <2>13
  <2>15. /\ s \in ShellStates /\ s.left = 2 /\ s.stage = sh[p].stage /\ s.pipe = sh[p].pipe
         /\ s.jobs = jobs /\ s.Childpid = next /\ s.cmd = sh[p].cmd
    BY <1>1, <1>2, <2>11, <2>13, <2>14 DEF ShellStates
  <2>16. Len(jobs) <= MaxJobs + 1
    <3>1. PICK n \in Nat : n = Len(sh[p].jobs)
      BY <2>13
    <3>2. Len(jobs) = n + 1
      BY <2>9, <2>10, <2>13, <3>1
    <3>3. n <= MaxJobs
      BY <1>2, <1>3, <3>1 DEF ShellFits
    <3>. QED BY <3>2, <3>3, Limits
  <2>17. sh'[p] = Step(s)
    BY <1>2, <2>12
  <2>18. s.left > 0 /\ s.left > 1 /\ s.left - 1 = 1
    BY <2>15
  <2>19. PICK t : t = Step(s)
    OBVIOUS
  <2>20. /\ t.pc = "exec" /\ t.left = 1 /\ t.stage = sh[p].stage /\ t.cmd = sh[p].cmd
         /\ t.jobs = jobs /\ t.Childpid = next
    BY <2>15, <2>18, <2>19, Stepped
  <2>21. Again(p)'
    BY <1>1, <2>17, <2>19, <2>20 DEF Again, Op
  <2>n. PICK n : n = next
    OBVIOUS
  <2>22. JobFits(p, n)'
    <3>1. n < next'
      BY <1>5, <2>n, Typed, Limits
    <3>. QED BY <2>4, <2>5, <2>n, <2>21, <3>1 DEF JobFits
  <2>23. ASSUME NEW e \in Listed(p)' \cup ({sh'[p].Childpid} \ {0})
         PROVE  JobFits(p, e)'
    <3>1. CASE e = n
      BY <3>1, <2>22
    <3>2. CASE e \in Listed(p)
      <4>1. JobFits(p, e) /\ e \in Pids
        BY <3>2, <1>2, ListedPids DEF ShellFits
      <4>. QED BY <4>1, <1>3, <2>5, JobStays
    <3>3. CASE e \in Listed(p)' /\ e # n
      <4>1. PICK j \in DOMAIN jobs : e = jobs[j].pid
        BY <3>3, <2>17, <2>19, <2>20 DEF Listed
      <4>2. PICK l \in Nat : l = Len(sh[p].jobs)
        BY <2>13
      <4>3. /\ DOMAIN jobs = 1..(l + 1) /\ DOMAIN sh[p].jobs = 1..l
            /\ jobs[l + 1] = job /\ \A i \in 1..l : jobs[i] = sh[p].jobs[i]
        BY <2>9, <2>10, <2>13, <4>2
      <4>4. j # l + 1
        BY <3>3, <4>1, <4>3, <2>9, <2>n
      <4>5. j \in 1..l
        BY <4>1, <4>3, <4>4
      <4>6. e \in Listed(p)
        BY <4>1, <4>3, <4>5 DEF Listed
      <4>. QED BY <4>6, <3>2
    <3>. QED BY <3>1, <3>3, <2>n, <2>17, <2>19, <2>20
  <2>. QED BY <1>1, <1>2, <2>5, <2>6, <2>12, <2>15, <2>16, <2>21, <2>23, StepFits
<1>. QED BY <1>4, <1>5 DEF Background

-----------------------------------------------------------------------------
(* Signals hit programs, never a shell. *)
LEMMA HitFacts ==
    ASSUME NEW q \in Processes, NEW sig \in {"kill", "die", "stop", "cont"}
    PROVE  /\ Hit(q, sig) \in Processes
           /\ \/ Hit(q, sig) = NoProc /\ q.parent = 0 /\ q.st # "none"
              \/ /\ Hit(q, sig).what = q.what /\ Hit(q, sig).parent = q.parent
                 /\ Hit(q, sig).in = q.in /\ Hit(q, sig).out = q.out
                 /\ Hit(q, sig).st = "none" <=> q.st = "none"
<1>1. NoProc \in Processes
  BY NothingTypes
<1>2. ASSUME NEW s \in {"run", "stopped", "doomed", "zombie"}
      PROVE  LET r == [q EXCEPT !.st = s]
             IN  /\ r \in Processes /\ r.what = q.what /\ r.parent = q.parent
                 /\ r.in = q.in /\ r.out = q.out /\ r.st = s
  BY DEF Processes
<1>3. q.st # "none" =>
        /\ Ended(q) \in Processes
        /\ \/ Ended(q) = NoProc /\ q.parent = 0 /\ q.st # "none"
           \/ /\ Ended(q).what = q.what /\ Ended(q).parent = q.parent
              /\ Ended(q).in = q.in /\ Ended(q).out = q.out
              /\ Ended(q).st = "none" <=> q.st = "none"
  BY <1>1, <1>2 DEF Ended
<1>4. CASE Hit(q, sig) = q
  BY <1>4
<1>5. CASE Hit(q, sig) = Ended(q) /\ q.st # "none"
  BY <1>3, <1>5
<1>6. CASE /\ q.st # "none"
           /\ \E s \in {"run", "stopped", "doomed", "zombie"} : Hit(q, sig) = [q EXCEPT !.st = s]
  BY <1>2, <1>6
<1>7. \/ Hit(q, sig) = q
      \/ Hit(q, sig) = Ended(q) /\ q.st # "none"
      \/ /\ q.st # "none"
         /\ \E s \in {"run", "stopped", "doomed", "zombie"} : Hit(q, sig) = [q EXCEPT !.st = s]
  BY DEF Hit
<1>. QED BY <1>4, <1>5, <1>6, <1>7

LEMMA SignalSteady ==
    ASSUME ShellInv, NEW p \in Shells \cup {0}, next' = next,
           NEW S, NEW sig \in {"kill", "die", "stop", "cont"},
           \A q \in S \cap Pids : proc[q].what # "shell",
           \A q \in Pids : q # p => proc'[q] = Signal(S, sig)[q],
           p \in Pids => /\ proc'[p] \in Processes /\ proc'[p].st = proc[p].st
                         /\ proc'[p].what = proc[p].what
                         /\ proc'[p].parent = proc[p].parent
    PROVE  /\ Steady(p) /\ next' <= MaxPid + 1
           /\ \A q \in Pids : proc'[q] \in Processes
           /\ \A d \in Children(p)' :
                 p # 0 => d \in Children(p) /\ proc'[d].what = proc[d].what
<1>1. next \in 2..(MaxPid + 1) /\ next' <= MaxPid + 1
  BY Limits DEF ShellInv, ShellTypes
<1>2. ASSUME NEW q \in Pids, q # p
      PROVE  /\ proc'[q] \in Processes
             /\ Kept(q, p) \/ (Reaped(q, p) /\ proc[q].parent = 0 /\ proc[q].st # "none")
  <2>1. proc[q] \in Processes
    BY Typed
  <2>2. CASE q \notin S
    <3>1. proc'[q] = proc[q]
      BY <1>2, <2>2 DEF Signal
    <3>. QED BY <2>1, <3>1 DEF Kept
  <2>3. CASE q \in S
    <3>1. proc'[q] = Hit(proc[q], sig)
      BY <1>2, <2>3 DEF Signal
    <3>2. proc[q].what # "shell"
      BY <2>3
    <3>3. q \notin Shells
      BY <3>2, ShellIs
    <3>4. PICK x : x = Hit(proc[q], sig)
      OBVIOUS
    <3>5. /\ x \in Processes
          /\ \/ x = NoProc /\ proc[q].parent = 0 /\ proc[q].st # "none"
             \/ /\ x.what = proc[q].what /\ x.parent = proc[q].parent
                /\ x.in = proc[q].in /\ x.out = proc[q].out
                /\ x.st = "none" <=> proc[q].st = "none"
      BY <2>1, <3>4, HitFacts
    <3>. QED BY <3>1, <3>2, <3>3, <3>4, <3>5 DEF Kept, Reaped
  <2>. QED BY <2>2, <2>3
<1>3. p \in Pids => Kept(p, p)
  BY DEF Kept
<1>4. Steady(p)
  BY <1>2, <1>3 DEF Steady
<1>5. ASSUME NEW d \in Children(p)', p # 0
      PROVE  d \in Children(p) /\ proc'[d].what = proc[d].what
  <2>1. d \in Pids /\ proc'[d].parent = p /\ proc'[d].st # "none"
    BY <1>5 DEF Children
  <2>2. Kept(d, p)
    <3>1. ~Reaped(d, p)
      BY <2>1 DEF Reaped, NoProc
    <3>. QED BY <2>1, <3>1, <1>2, <1>3
  <2>. QED BY <2>1, <2>2 DEF Kept, Children
<1>6. \A q \in Pids : proc'[q] \in Processes
  BY <1>2
<1>. QED BY <1>1, <1>4, <1>5, <1>6

LEMMA SignalledSafe ==
    ASSUME ShellInv, NEW p \in Shells, sh[p].pc = "run", next' = next,
           NEW S, NEW sig \in {"kill", "die", "stop", "cont"},
           \A q \in S \cap Pids : proc[q].what # "shell",
           proc' = [Signal(S, sig) EXCEPT ![p] = After(@)]
    PROVE  /\ Steady(p) /\ next' <= MaxPid + 1 /\ proc' \in [Pids -> Processes]
           /\ \A d \in Children(p)' : proc'[d].what # "fg"
<1>1. p \in Pids /\ proc[p] \in Processes /\ proc[p].what = "shell"
  BY Placed, Typed, ShellIs
<1>2. PICK f : f = Signal(S, sig)
  OBVIOUS
<1>3. f = [q \in Pids |-> IF q \in S THEN Hit(proc[q], sig) ELSE proc[q]]
  BY <1>2 DEF Signal
<1>4. f[p] = proc[p] /\ DOMAIN f = Pids
  BY <1>1, <1>3
<1>5. PICK x : x = After(proc[p])
  OBVIOUS
<1>6. /\ x \in Processes /\ x.st = proc[p].st /\ x.what = proc[p].what
      /\ x.parent = proc[p].parent
  BY <1>1, <1>5, AfterTypes
<1>7. proc' = [f EXCEPT ![p] = x]
  BY <1>2, <1>4, <1>5
<1>8. /\ proc'[p] = x /\ \A q \in Pids : q # p => proc'[q] = Signal(S, sig)[q]
      /\ proc' = [q \in Pids |-> proc'[q]]
  BY <1>1, <1>2, <1>3, <1>4, <1>7
<1>9. /\ Steady(p) /\ next' <= MaxPid + 1
      /\ \A q \in Pids : proc'[q] \in Processes
      /\ \A d \in Children(p)' :
            p # 0 => d \in Children(p) /\ proc'[d].what = proc[d].what
  BY <1>6, <1>8, SignalSteady
<1>10. proc' \in [Pids -> Processes]
  BY <1>8, <1>9
<1>11. p # 0
  BY Placed
<1>12. \A d \in Children(p)' : proc'[d].what # "fg"
  BY <1>9, <1>11, NoProgram
<1>. QED BY <1>9, <1>10, <1>12

LEMMA ListedPrograms ==
    ASSUME ShellInv, NEW p \in Shells, NEW c \in Listed(p)
    PROVE  c \in Pids /\ proc[c].what # "shell"
BY Placed, ListedPids DEF ShellFits, JobFits

LEMMA KjobSafe ==
    ASSUME ShellInv, NEW p \in Pids, Kjob(p) \/ OverKill(p)
    PROVE  ShellInv'
<1>1. At(p, "run") /\ Op(p) # "amp" /\ next' = next /\ sh' = [sh EXCEPT ![p] = Step(@)]
  BY DEF Kjob, OverKill
<1>2. p \in Shells /\ sh[p].pc = "run" /\ ~Again(p)
  <2>1. p \in Shells /\ sh[p].pc = "run"
    BY <1>1, AtShell
  <2>2. ~Again(p)
    BY <1>1, RunsNotAgain
  <2> QED
    BY <2>1, <2>2
<1>3. CASE Kjob(p)
  <2>a. PICK S : S = {sh[p].cmd.arg} \cap Programs
    OBVIOUS
  <2>b. PICK sig \in {"kill", "die", "stop", "cont"} : sig = Op(p)
    BY <1>3 DEF Kjob
  <2>1. S = {sh[p].cmd.arg} \cap Programs /\ proc' = [Signal(S, sig) EXCEPT ![p] = After(@)]
    BY <1>3, <2>a, <2>b DEF Kjob
  <2>2. \A q \in S \cap Pids : proc[q].what # "shell"
    BY <2>1 DEF Programs
  <2>. QED BY <1>1, <1>2, <2>1, <2>2, SignalledSafe, StepsOn
<1>4. CASE OverKill(p)
  <2>a. PICK S : S = Listed(p)
    OBVIOUS
  <2>b. PICK sig \in {"kill", "die", "stop", "cont"} : sig = "die"
    OBVIOUS
  <2>1. S = Listed(p) /\ proc' = [Signal(S, sig) EXCEPT ![p] = After(@)]
    BY <1>4, <2>a, <2>b DEF OverKill
  <2>2. \A q \in S \cap Pids : proc[q].what # "shell"
    BY <1>2, <2>1, ListedPrograms
  <2>. QED BY <1>1, <1>2, <2>1, <2>2, SignalledSafe, StepsOn
<1>. QED BY <1>3, <1>4

LEMMA BgSafe ==
    ASSUME ShellInv, NEW p \in Pids, Bg(p), ~Dies(p)
    PROVE  ShellInv'
<1>1. At(p, "run") /\ Op(p) # "amp" /\ next' = next
  BY DEF Bg
<1>2. /\ p \in Shells /\ sh[p].pc = "run" /\ ~Again(p) /\ ShellFits(p)
      /\ sh[p] \in ShellStates /\ sh \in [Pids -> ShellStates]
  BY <1>1, AtShell, RunsNotAgain
<1>3. PICK pid :
        \/ /\ Wakes(p, pid)
           /\ sh' = [sh EXCEPT ![p] = Step([sh[p] EXCEPT !.jobs[1].status = "Stopped"])]
           /\ proc' = [Signal({pid}, "cont") EXCEPT ![p] = After(@)]
        \/ Executed(p)
  BY DEF Bg
<1>4. CASE Executed(p)
  BY <1>1, <1>2, <1>4, NoProgram, ExecutedSafe
<1>5. CASE /\ Wakes(p, pid)
           /\ sh' = [sh EXCEPT ![p] = Step([sh[p] EXCEPT !.jobs[1].status = "Stopped"])]
           /\ proc' = [Signal({pid}, "cont") EXCEPT ![p] = After(@)]
  <2>1. PICK old : old = sh[p].jobs
    OBVIOUS
  <2>2. old \in Seq(Jobs) /\ old # <<>> /\ pid \in {old[1].pid, old[Len(old)].pid}
    BY <1>2, <1>5, <2>1, StateTypes DEF Wakes
  <2>3. PICK n \in Nat : n = Len(old)
    BY <2>2
  <2>4. n # 0 /\ DOMAIN old = 1..n /\ \A k \in 1..n : old[k] \in Jobs
    BY <2>2, <2>3
  <2>5. pid \in Listed(p)
    <3>1. 1 \in 1..n /\ n \in 1..n
      BY <2>4
    <3>. QED BY <2>1, <2>2, <2>3, <2>4, <3>1 DEF Listed
  <2>6. \A q \in {pid} \cap Pids : proc[q].what # "shell"
    BY <1>2, <2>5, ListedPrograms
  <2>a. PICK S : S = {pid}
    OBVIOUS
  <2>b. PICK sig \in {"kill", "die", "stop", "cont"} : sig = "cont"
    OBVIOUS
  <2>7. S = {pid} /\ proc' = [Signal(S, sig) EXCEPT ![p] = After(@)]
    BY <1>5, <2>a, <2>b
  <2>8. /\ Steady(p) /\ next' <= MaxPid + 1 /\ proc' \in [Pids -> Processes]
        /\ \A d \in Children(p)' : proc'[d].what # "fg"
    BY <1>1, <1>2, <2>6, <2>7, SignalledSafe
  <2>9. PICK jobs : jobs = [old EXCEPT ![1] = [old[1] EXCEPT !.status = "Stopped"]]
    OBVIOUS
  <2>10. [old[1] EXCEPT !.status = "Stopped"] \in Jobs
         /\ [old[1] EXCEPT !.status = "Stopped"].pid = old[1].pid
    <3>1. old[1] \in Jobs
      BY <2>4
    <3>. QED BY <3>1 DEF Jobs
  <2>11. /\ jobs \in Seq(Jobs) /\ Len(jobs) = n /\ DOMAIN jobs = 1..n
         /\ \A k \in 1..n : jobs[k].pid = old[k].pid
    <3>1. jobs \in [1..n -> Jobs]
      BY <2>2, <2>3, <2>4, <2>9, <2>10
    <3>2. jobs \in Seq(Jobs) /\ Len(jobs) = n /\ DOMAIN jobs = 1..n
      BY <3>1
    <3>3. \A k \in 1..n : jobs[k].pid = old[k].pid
      BY <2>4, <2>9, <2>10
    <3>. QED BY <3>2, <3>3
  <2>12. PICK s : s = [sh[p] EXCEPT !.jobs = jobs]
    OBVIOUS
  <2>13. [sh[p] EXCEPT !.jobs[1].status = "Stopped"] = s
    BY <1>2, <2>1, <2>9, <2>12
  <2>14. sh' = [sh EXCEPT ![p] = Step(s)]
    BY <1>5, <2>13, Zenon
  <2>15. /\ s \in ShellStates /\ s.left = sh[p].left /\ s.stage = sh[p].stage
         /\ s.pipe = sh[p].pipe /\ s.jobs = jobs /\ s.Childpid = sh[p].Childpid
    BY <1>2, <2>11, <2>12 DEF ShellStates
  <2>16. Len(jobs) <= MaxJobs /\ Len(jobs) <= MaxJobs + 1
    BY <1>2, <2>1, <2>3, <2>11 DEF ShellFits
  <2>17. s.left > 0
    BY <1>2, <2>15 DEF ShellFits
  <2>18. sh'[p].jobs = jobs /\ sh'[p].Childpid = sh[p].Childpid
    <3>1. sh'[p] = Step(s)
      BY <1>2, <2>14
    <3>. QED BY <2>15, <2>17, <3>1, Stepped
  <2>19. Listed(p)' = Listed(p)
    <3>1. DOMAIN sh'[p].jobs = DOMAIN sh[p].jobs
          /\ \A k \in DOMAIN sh[p].jobs : sh'[p].jobs[k].pid = sh[p].jobs[k].pid
      BY <2>1, <2>4, <2>11, <2>18
    <3>. QED BY <3>1 DEF Listed
  <2>20. ASSUME NEW e \in Listed(p)' \cup ({sh'[p].Childpid} \ {0})
         PROVE  JobFits(p, e)'
    <3>1. e \in Listed(p) \cup ({sh[p].Childpid} \ {0})
      BY <2>18, <2>19
    <3>2. JobFits(p, e) /\ e \in Pids
      BY <3>1, <1>2, ListedPids DEF ShellFits
    <3>. QED BY <3>2, <1>2, <2>8, JobStays
  <2>. QED BY <1>2, <2>8, <2>14, <2>15, <2>16, <2>20, StepFits
<1>. QED BY <1>3, <1>4, <1>5

-----------------------------------------------------------------------------
(* What comes from outside: no shell takes part. *)
LEMMA OutsideSafe ==
    ASSUME ShellInv, Steady(0), next' <= MaxPid + 1, proc' \in [Pids -> Processes], sh' = sh
    PROVE  ShellInv'
<1>1. 0 \notin Pids
  BY Limits DEF Pids
<1>2. sh' \in [Pids -> ShellStates]
  BY DEF ShellInv, ShellTypes
<1>. QED BY <1>1, <1>2, SteadyStep

LEMMA OutsideSignal ==
    ASSUME ShellInv, next' = next,
           NEW S, NEW sig \in {"kill", "die", "stop", "cont"},
           \A q \in S \cap Pids : proc[q].what # "shell",
           proc' = Signal(S, sig)
    PROVE  Steady(0) /\ next' <= MaxPid + 1 /\ proc' \in [Pids -> Processes]
<1>1. 0 \notin Pids
  BY Limits DEF Pids
<1>2. Steady(0) /\ next' <= MaxPid + 1 /\ \A q \in Pids : proc'[q] \in Processes
  BY <1>1, SignalSteady
<1>3. proc' = [q \in Pids |-> proc'[q]]
  BY DEF Signal
<1>. QED BY <1>2, <1>3

LEMMA CtrlCSafe ==
    ASSUME ShellInv, CtrlC
    PROVE  ShellInv'
<1>1. \A q \in Programs \cap Pids : proc[q].what # "shell"
  BY DEF Programs
<1>2. proc' = Signal(Programs, "die") /\ sh' = sh /\ next' = next
  BY DEF CtrlC
<1>. QED BY <1>1, <1>2, OutsideSignal, OutsideSafe

LEMMA ContinuedSafe ==
    ASSUME ShellInv, NEW q \in Pids, Continued(q)
    PROVE  ShellInv'
<1>1. \A r \in {q} \cap Pids : proc[r].what # "shell"
  BY DEF Continued, Programs
<1>2. proc' = Signal({q}, "cont") /\ sh' = sh /\ next' = next
  BY DEF Continued
<1>. QED BY <1>1, <1>2, OutsideSignal, OutsideSafe

LEMMA ExitsSafe ==
    ASSUME ShellInv, NEW q \in Pids, Exits(q)
    PROVE  ShellInv'
<1>1. /\ proc[q].what # "shell" /\ proc[q].st = "run"
      /\ proc' = [proc EXCEPT ![q] = Ended(@)] /\ sh' = sh /\ next' = next
  BY DEF Exits, Programs
<1>2. \A r \in {q} \cap Pids : proc[r].what # "shell"
  BY <1>1
<1>3. Hit(proc[q], "kill") = Ended(proc[q])
  BY <1>1 DEF Hit
<1>4. proc \in [Pids -> Processes]
  BY DEF ShellInv, ShellTypes
<1>5. proc' = Signal({q}, "kill")
  BY <1>1, <1>3, <1>4 DEF Signal
<1>. QED BY <1>1, <1>2, <1>5, OutsideSignal, OutsideSafe

LEMMA CtrlZSafe ==
    ASSUME ShellInv, CtrlZ
    PROVE  ShellInv'
<1>1. \A q \in Programs \cap Pids : proc[q].what # "shell"
  BY DEF Programs
<1>2. /\ proc' = Signal(Programs, "stop") /\ next' = next
      /\ Len(sh[Root].jobs) < MaxJobs /\ proc[Root].st = "run"
  BY DEF CtrlZ
<1>3. Steady(0) /\ next' <= MaxPid + 1 /\ proc' \in [Pids -> Processes]
  BY <1>1, <1>2, OutsideSignal
<1>4. CASE sh' = sh
  BY <1>3, <1>4, OutsideSafe
<1>5. CASE /\ sh[Root].Childpid \notin {0, Root}
           /\ sh' = [sh EXCEPT ![Root].jobs =
                       Append(@, [pid |-> sh[Root].Childpid, status |-> "Stopped"])]
  <2>1. Root \in Pids
    BY Limits DEF Root, Pids
  <2>2. Root \in Shells
    BY <1>5, <2>1, Typed DEF NoShell
  <2>3. /\ sh[Root] \in ShellStates /\ ShellFits(Root) /\ sh \in [Pids -> ShellStates]
        /\ proc[Root] \in Processes /\ Root # 0
    BY <2>1, <2>2, Typed, Placed DEF ShellInv, ShellTypes
  <2>4. PICK c : c = sh[Root].Childpid
    OBVIOUS
  <2>5. c \in Pids
    BY <1>5, <2>1, <2>4, ListedPids
  <2>6. PICK job : job = [pid |-> c, status |-> "Stopped"]
    OBVIOUS
  <2>7. job \in Jobs /\ job.pid = c
    BY <2>5, <2>6 DEF Jobs
  <2>8. sh[Root].jobs \in Seq(Jobs)
    BY <2>3, StateTypes
  <2>9. PICK n \in Nat : n = Len(sh[Root].jobs)
    BY <2>8
  <2>10. PICK jobs : jobs = Append(sh[Root].jobs, job)
    OBVIOUS
  <2>11. /\ jobs \in Seq(Jobs) /\ Len(jobs) = n + 1
         /\ DOMAIN jobs = 1..(n + 1) /\ DOMAIN sh[Root].jobs = 1..n
         /\ jobs[n + 1] = job /\ \A i \in 1..n : jobs[i] = sh[Root].jobs[i]
    BY <2>7, <2>8, <2>9, <2>10
  <2>12. PICK t : t = [sh[Root] EXCEPT !.jobs = jobs]
    OBVIOUS
  <2>13. sh' = [sh EXCEPT ![Root] = t]
    BY <1>5, <2>3, <2>4, <2>6, <2>10, <2>12
  <2>14. /\ t \in ShellStates /\ t.jobs = jobs /\ t.pc = sh[Root].pc /\ t.left = sh[Root].left
         /\ t.Childpid = c /\ t.stage = sh[Root].stage /\ t.pipe = sh[Root].pipe
         /\ t.cmd = sh[Root].cmd /\ t.waits = sh[Root].waits
    BY <2>3, <2>4, <2>11, <2>12 DEF ShellStates
  <2>15. /\ sh' \in [Pids -> ShellStates] /\ sh'[Root] = t
         /\ \A q \in Pids : q # Root => sh'[q] = sh[q]
    BY <2>1, <2>3, <2>13, <2>14
  <2>16. proc'[Root] = proc[Root]
    BY <1>2, <2>1, <2>2, ShellIs DEF Signal, Programs
  <2>17. Steady(Root)
    <3>1. \A q \in Pids : q # Root => proc'[q] = Signal(Programs, "stop")[q]
      BY <1>2
    <3>2. PICK S, sig : S = Programs /\ sig = "stop"
      OBVIOUS
    <3>3. sig \in {"kill", "die", "stop", "cont"}
      BY <3>2
    <3>. QED BY <1>1, <1>2, <2>2, <2>3, <2>16, <3>1, <3>2, <3>3, SignalSteady
  <2>18. Onward(Root)
    <3>1. CASE sh[Root].pc = "wait_last"
      BY <3>1, <2>14, <2>15 DEF Onward
    <3>2. CASE sh[Root].pc # "wait_last"
      BY <3>2, <2>2, <2>14, <2>15, ActiveGoesOn
    <3>. QED BY <3>1, <3>2
  <2>19. \A d \in Pids : /\ d \in Children(Root)' <=> d \in Children(Root)
                         /\ d \in Children(Root) => proc'[d].what = proc[d].what
    BY <1>3, <2>2, <2>3, ChildStays
  <2>20. \A d \in Children(Root)' : proc'[d].what = "fg" =>
            t.pc \in {"forked", "wait"} /\ t.waits = d
    BY <2>3, <2>14, <2>19 DEF ShellFits, Children
  <2>21. t.pc = "forked" => t.waits \in Children(Root)' /\ proc'[t.waits].what = "fg"
    BY <2>3, <2>14, <2>19 DEF ShellFits, Children
  <2>22. Len(jobs) <= MaxJobs /\ Len(jobs) <= MaxJobs + 1
    BY <1>2, <2>9, <2>11, Limits
  <2>23. Again(Root) => Again(Root)'
    BY <2>14, <2>15 DEF Again, Op
  <2>24. ASSUME NEW e \in Listed(Root)' \cup ({sh'[Root].Childpid} \ {0})
         PROVE  JobFits(Root, e)'
    <3>1. e \in Listed(Root) \cup ({sh[Root].Childpid} \ {0})
      <4>1. CASE e = c
        BY <4>1, <1>5, <2>4
      <4>2. CASE e \in Listed(Root)' /\ e # c
        <5>1. PICK j \in DOMAIN jobs : e = jobs[j].pid
          BY <4>2, <2>14, <2>15 DEF Listed
        <5>2. j # n + 1
          BY <4>2, <5>1, <2>7, <2>11
        <5>3. j \in 1..n
          BY <5>1, <5>2, <2>11
        <5>. QED BY <5>1, <5>3, <2>11 DEF Listed
      <4>. QED BY <4>1, <4>2, <2>14, <2>15
    <3>2. JobFits(Root, e) /\ e \in Pids
      BY <3>1, <2>1, <2>3, ListedPids DEF ShellFits
    <3>. QED BY <3>2, <1>3, <2>23, JobStays
  <2>25. t.pc = "prompt" => proc'[Root].in = Tty /\ proc'[Root].out = Tty
    BY <2>3, <2>14, <2>16 DEF ShellFits
  <2>26. /\ t.pc \in {"exec", "run", "forked", "wait"} => t.left > 0
         /\ t.pc = "pipe_last" \/ t.stage = "first" => t.pipe > 0
         /\ t.pc = "wait_last" => t.waits < next'
    BY <1>2, <2>3, <2>14 DEF ShellFits
  <2>27. ShellFits(Root)'
    BY <2>14, <2>15, <2>20, <2>21, <2>22, <2>24, <2>25, <2>26 DEF ShellFits
  <2>28. sh'[Root].pc # "none"
    BY <2>1, <2>2, <2>14, <2>15, Typed
  <2>. QED BY <1>3, <2>1, <2>2, <2>15, <2>17, <2>18, <2>27, <2>28, SteadyStep
<1>. QED BY <1>4, <1>5 DEF CtrlZ

-----------------------------------------------------------------------------
(* The end of a pipeline *)
LEMMA WaitLastSafe ==
    ASSUME ShellInv, NEW p \in Pids, WaitLast(p)
    PROVE  ShellInv'
<1>1. At(p, "wait_last") /\ Goto(p, "update") /\ next' = next
  BY DEF WaitLast
<1>2. /\ p \in Shells /\ sh[p].pc = "wait_last" /\ ShellFits(p) /\ sh[p] \in ShellStates
      /\ sh \in [Pids -> ShellStates] /\ proc[p] \in Processes /\ proc[p].st = "run"
      /\ proc \in [Pids -> Processes]
  BY <1>1, AtShell
<1>3. PICK t : t = [sh[p] EXCEPT !.pc = "update"]
  OBVIOUS
<1>4. /\ t \in ShellStates /\ t.pc = "update" /\ t.jobs = sh[p].jobs
      /\ t.Childpid = sh[p].Childpid /\ t.stage = sh[p].stage /\ t.pipe = sh[p].pipe
  BY <1>2, <1>3 DEF ShellStates, Codes
<1>5. sh' = [sh EXCEPT ![p] = t]
  BY <1>1, <1>2, <1>3 DEF Goto
<1>6. /\ sh' \in [Pids -> ShellStates] /\ sh'[p] = t
      /\ \A q \in Pids : q # p => sh'[q] = sh[q]
  BY <1>2, <1>4, <1>5
<1>7. /\ Steady(p) /\ next' <= MaxPid + 1 /\ proc' \in [Pids -> Processes]
      /\ \A d \in Children(p)' : d \in Children(p) /\ proc'[d].what = proc[d].what
      /\ \/ Awaited(p) = {}
         \/ \E c \in Awaited(p) \cap Zombies(p) : proc'[c] = NoProc
  <2>1. CASE Awaited(p) = {} /\ UNCHANGED proc
    BY <1>1, <1>2, <2>1, Unmoved DEF Children
  <2>2. CASE \E c \in Awaited(p) \cap Zombies(p) : proc' = [proc EXCEPT ![c] = NoProc]
    <3>1. PICK c \in Awaited(p) \cap Zombies(p) : proc' = [proc EXCEPT ![c] = NoProc]
      BY <2>2
    <3>2. c \in Pids /\ c # p
      BY <1>2 DEF Zombies, Children
    <3>3. /\ proc' \in [Pids -> Processes] /\ proc'[c] = NoProc /\ proc'[p] = proc[p]
          /\ \A q \in Pids : q # p /\ q # c => proc'[q] = proc[q]
      BY <1>2, <3>1, <3>2, NothingTypes
    <3>4. c \in Zombies(p)
      OBVIOUS
    <3>5. /\ Steady(p) /\ next' <= MaxPid + 1
          /\ \A d \in Children(p)' : /\ d # c /\ d \in Children(p)
                                     /\ proc'[d].what = proc[d].what
      BY <1>1, <1>2, <3>3, <3>4, ReapSteady
    <3>. QED BY <3>3, <3>5
  <2>. QED BY <2>1, <2>2 DEF WaitLast
<1>8. \A d \in Children(p)' : proc'[d].what # "fg"
  BY <1>2, <1>7, NoProgram
<1>9. ~Again(p)
  BY <1>2 DEF Again
<1>10. /\ Len(sh'[p].jobs) <= MaxJobs + 1
       /\ Again(p)' \/ Len(sh'[p].jobs) <= MaxJobs
       /\ \A c \in Listed(p)' \cup ({sh'[p].Childpid} \ {0}) : JobFits(p, c)'
  BY <1>2, <1>4, <1>6, <1>7, <1>9, JobsKept
<1>11. t.stage = "first" => t.pipe > 0
  BY <1>2, <1>4 DEF ShellFits
<1>12. ShellFits(p)'
  BY <1>4, <1>6, <1>8, <1>10, <1>11 DEF ShellFits
<1>13. IsTail(p)
  <2>. SUFFICES ASSUME sh[p].waits \in Shells PROVE FALSE
    BY DEF IsTail
  <2>1. PICK w : w = sh[p].waits
    OBVIOUS
  <2>2. w \in Shells /\ w \in Pids /\ proc[w].st \notin {"none", "zombie"} /\ proc[w].parent = p
    BY <1>2, <2>1, ShellIs DEF ShellInv, Chain, IsTail
  <2>3. w \in Awaited(p)
    BY <2>1, <2>2 DEF Awaited, Children
  <2>4. PICK c \in Awaited(p) \cap Zombies(p) : proc'[c] = NoProc
    BY <1>7, <2>3
  <2>5. c # w /\ w # Any
    BY <2>2, Limits DEF Zombies, Any, Pids
  <2>. QED BY <2>1, <2>4, <2>5 DEF Awaited
<1>14. ASSUME NEW q \in Pids, proc'[q].st # "none", proc'[q].what = "shell", proc'[q].parent = p
       PROVE  FALSE
  <2>1. proc[q].st # "none" /\ proc[q].what = "shell" /\ proc[q].parent = p
    BY <1>7, <1>14, SteadyShell
  <2>2. q # Root
    BY <1>2, <2>1, Placed, Typed, Limits DEF Root, Pids
  <2>3. sh[p].waits = q
    BY <2>1, <2>2 DEF ShellInv, Chain, WaitedFor
  <2>4. q \in Awaited(p)
    BY <2>1, <2>3 DEF Awaited, Children
  <2>5. PICK c \in Awaited(p) \cap Zombies(p) : proc'[c] = NoProc
    BY <1>7, <2>4
  <2>6. c # q /\ q # Any
    BY <1>14, <2>5, Limits DEF NoProc, Any, Pids
  <2>. QED BY <2>3, <2>5, <2>6 DEF Awaited
<1>15. Onward(p)
  BY <1>4, <1>6, <1>13, <1>14 DEF Onward
<1>16. sh'[p].pc # "none"
  BY <1>4, <1>6
<1>. QED BY <1>2, <1>6, <1>7, <1>12, <1>15, <1>16, SteadyStep

(* Its last command: without a child, ... *)
LEMMA PipeLastAlone ==
    ASSUME ShellInv, NEW p \in Pids, At(p, "pipe_last"), next' = next,
           proc' = [proc EXCEPT ![p].in = sh[p].pipe],
           sh' = [sh EXCEPT ![p].pc = "wait_last", ![p].waits = Any, ![p].stage = "last"]
    PROVE  ShellInv'
<1>1. /\ p \in Shells /\ sh[p].pc = "pipe_last" /\ ShellFits(p) /\ sh[p] \in ShellStates
      /\ sh \in [Pids -> ShellStates] /\ proc[p] \in Processes
      /\ proc \in [Pids -> Processes]
  BY AtShell
<1>2. sh[p].pipe \in Pipes
  <2>1. sh[p].pipe > 0 /\ sh[p].pipe \in 0..MaxPid
    BY <1>1, StateTypes DEF ShellFits
  <2>. QED BY <2>1, Limits DEF Pipes
<1>3. PICK x : x = [proc[p] EXCEPT !.in = sh[p].pipe]
  OBVIOUS
<1>4. /\ x \in Processes /\ x.st = proc[p].st /\ x.what = proc[p].what
      /\ x.parent = proc[p].parent
  BY <1>1, <1>2, <1>3 DEF Processes
<1>5. proc' = [proc EXCEPT ![p] = x]
  BY <1>1, <1>3
<1>6. /\ Steady(p) /\ next' <= MaxPid + 1 /\ proc' \in [Pids -> Processes]
      /\ \A d \in Pids : /\ d \in Children(p)' <=> d \in Children(p)
                         /\ proc'[d].what = proc[d].what
  BY <1>1, <1>4, <1>5, Quiet
<1>7. \A d \in Children(p)' : proc'[d].what # "fg"
  BY <1>1, <1>6, NoProgram DEF Children
<1>8. PICK t : t = [sh[p] EXCEPT !.pc = "wait_last", !.waits = Any, !.stage = "last"]
  OBVIOUS
<1>9. /\ t \in ShellStates /\ t.pc = "wait_last" /\ t.jobs = sh[p].jobs
      /\ t.Childpid = sh[p].Childpid /\ t.stage = "last" /\ t.waits = Any
  <2>1. Any \in Int
    BY DEF Any
  <2>. QED BY <1>1, <1>8, <2>1 DEF ShellStates, Codes
<1>10. /\ sh' \in [Pids -> ShellStates] /\ sh'[p] = t
       /\ \A q \in Pids : q # p => sh'[q] = sh[q]
  BY <1>1, <1>8, <1>9
<1>11. ~Again(p)
  BY <1>1 DEF Again
<1>12. /\ Len(sh'[p].jobs) <= MaxJobs + 1
       /\ Again(p)' \/ Len(sh'[p].jobs) <= MaxJobs
       /\ \A c \in Listed(p)' \cup ({sh'[p].Childpid} \ {0}) : JobFits(p, c)'
  BY <1>1, <1>6, <1>9, <1>10, <1>11, JobsKept
<1>13. t.waits < next' /\ t.waits \notin Pids
  BY <1>9, Typed, Limits DEF Any, Pids
<1>14. ShellFits(p)'
  BY <1>7, <1>9, <1>10, <1>12, <1>13 DEF ShellFits
<1>15. Onward(p) /\ sh'[p].pc # "none"
  BY <1>1, <1>9, <1>10, <1>13, ActiveGoesOn
<1>. QED BY <1>1, <1>6, <1>10, <1>14, <1>15, SteadyStep

(* ... and in a child, the next shell of the chain. *)
LEMMA PipeLastForked ==
    ASSUME ShellInv, NEW p \in Pids, At(p, "pipe_last"), NEW n, n = next, next' = next + 1,
           n <= MaxPid, NEW x \in Processes, x.st = proc[p].st, x.what = proc[p].what,
           x.parent = proc[p].parent,
           NEW k \in Processes, k.st = "run", k.what = "shell", k.parent = p,
           proc' = [proc EXCEPT ![p] = x, ![n] = k],
           NEW t \in ShellStates, t.pc = "wait_last", t.waits = n, t.stage = "last",
           t.jobs = sh[p].jobs, t.Childpid = sh[p].Childpid,
           NEW u \in ShellStates, u.pc = "redirect", u.stage = "last",
           u.jobs = sh[p].jobs, u.Childpid = sh[p].Childpid,
           sh' = [sh EXCEPT ![p] = t, ![n] = u]
    PROVE  ShellInv'
<1>1. /\ p \in Shells /\ sh[p].pc = "pipe_last" /\ ShellFits(p) /\ sh[p] \in ShellStates
      /\ sh \in [Pids -> ShellStates] /\ proc[p] \in Processes
      /\ proc \in [Pids -> Processes] /\ proc[p].st = "run" /\ proc[p].what = "shell"
  BY AtShell, ShellIs
<1>2. n \in Pids /\ n # p /\ p < n /\ n \in Nat /\ n >= 2
  BY <1>1, Placed, Typed, Limits DEF Pids
<1>3. /\ proc' \in [Pids -> Processes] /\ proc'[n] = k /\ proc'[p] = x
      /\ \A q \in Pids : q # p /\ q # n => proc'[q] = proc[q]
  BY <1>1, <1>2
<1>4. /\ sh' \in [Pids -> ShellStates] /\ sh'[n] = u /\ sh'[p] = t
      /\ \A q \in Pids : q # p /\ q # n => sh'[q] = sh[q]
  BY <1>1, <1>2
<1>5. proc[n].st = "none" /\ n \notin Shells
  BY <1>2, Typed, ShellIs
<1>6. Shells' = Shells \cup {n}
  <2>1. ASSUME NEW q \in Pids PROVE q \in Shells' <=> q \in Shells \/ q = n
    <3>1. CASE q = p
      BY <3>1, <1>1, <1>3, ShellIsNext
    <3>2. CASE q = n
      BY <3>2, <1>3, ShellIsNext
    <3>3. CASE q # p /\ q # n
      BY <3>3, <1>3, ShellIs, ShellIsNext
    <3>. QED BY <3>1, <3>2, <3>3
  <2>2. \A q : q \in Shells' => q \in Pids
    BY ShellIsNext
  <2>3. \A q : q \in Shells => q \in Pids
    BY ShellIs
  <2>. QED BY <2>1, <2>2, <2>3, <1>2
<1>7. /\ IsTail(p) /\ \A s \in Shells : s <= p
      /\ \A q \in Pids : proc[q].st # "none" /\ proc[q].what = "shell" /\ q # Root
                           => proc[q].parent # p
  BY <1>1, ActiveIsTail
<1>8. \A q \in Shells : q \in Pids /\ q < n /\ q \in Nat
  BY Placed, Limits DEF Pids
<1>9. ShellTypes'
  <2>1. next' \in 2..(MaxPid + 1)
    BY <1>2, Limits
  <2>2. ASSUME NEW q \in Pids
        PROVE  IF q \in Shells' THEN sh'[q].pc # "none" ELSE sh'[q] = NoShell
    BY <1>1, <1>3, <1>4, <1>6, Typed
  <2>3. ASSUME NEW q \in Pids
        PROVE  proc'[q].parent < q /\ (q >= next' => proc'[q].st = "none")
    <3>1. /\ proc[q].parent < q /\ (q >= n => proc[q].st = "none") /\ q \in Nat
      BY Typed, Limits DEF Pids
    <3>2. q >= next' => q >= n /\ q # n /\ q # p
      BY <3>1, <1>2
    <3>. QED BY <3>1, <3>2, <1>2, <1>3
  <2>. QED BY <2>1, <2>2, <2>3, <1>3, <1>4 DEF ShellTypes
<1>10. ASSUME NEW q \in Pids, proc'[q].st # "none", proc'[q].what = "shell", q # Root
       PROVE  WaitedFor(q)'
  <2>1. CASE q = n
    <3>1. proc'[n].parent = p /\ sh'[p].pc = "wait_last" /\ sh'[p].waits = n /\ p \in Shells'
      BY <1>1, <1>3, <1>4, <1>6
    <3>2. \A s \in Shells' : s <= p \/ n <= s
      BY <1>2, <1>6, <1>7
    <3>. QED BY <2>1, <3>1, <3>2 DEF WaitedFor
  <2>2. CASE q # n
    <3>1. /\ proc[q].st # "none" /\ proc[q].what = "shell"
          /\ proc'[q].parent = proc[q].parent
      BY <2>2, <1>3, <1>10
    <3>2. PICK r : r = proc[q].parent
      OBVIOUS
    <3>3. /\ r \in Shells /\ sh[r].pc = "wait_last" /\ sh[r].waits = q
          /\ \A s \in Shells : s <= r \/ q <= s
      BY <3>1, <3>2, <1>10 DEF ShellInv, Chain, WaitedFor
    <3>4. r # p /\ r # n /\ r \in Pids
      BY <3>3, <1>1, <1>5, <1>8
    <3>5. sh'[r] = sh[r] /\ r \in Shells'
      BY <3>3, <3>4, <1>4, <1>6
    <3>6. q <= n
      BY <3>1, <1>2, Typed, Limits DEF Pids
    <3>7. \A s \in Shells' : s <= r \/ q <= s
      BY <3>3, <3>6, <1>6
    <3>. QED BY <3>1, <3>2, <3>3, <3>5, <3>7 DEF WaitedFor
  <2>. QED BY <2>1, <2>2
<1>11. ASSUME NEW s \in Shells, s # p
       PROVE  sh[s].pc = "wait_last" => sh[s].waits # n
  BY <1>2, <1>8, Placed DEF ShellFits
<1>12. ASSUME NEW s \in Shells', ~IsTail(s)'
       PROVE  proc'[sh'[s].waits].parent = s
  <2>1. sh'[s].pc = "wait_last" /\ sh'[s].waits \in Shells'
    BY <1>12 DEF IsTail
  <2>2. CASE s = p
    BY <2>2, <1>3, <1>4
  <2>3. CASE s = n
    BY <2>1, <2>3, <1>4
  <2>4. CASE s # p /\ s # n
    <3>1. s \in Shells /\ sh'[s] = sh[s]
      BY <2>4, <1>4, <1>6, <1>8
    <3>2. PICK w : w = sh[s].waits
      OBVIOUS
    <3>3. w \in Shells /\ w # n /\ w \in Pids
      BY <2>1, <2>4, <3>1, <3>2, <1>6, <1>8, <1>11
    <3>4. proc[w].parent = s
      BY <2>1, <3>1, <3>2, <3>3 DEF ShellInv, Chain, IsTail
    <3>5. proc'[w].parent = proc[w].parent
      BY <3>3, <1>3
    <3>. QED BY <3>1, <3>2, <3>4, <3>5
  <2>. QED BY <2>2, <2>3, <2>4
<1>13. ASSUME NEW q \in Shells', NEW s \in Shells', IsTail(q)'
       PROVE  s <= q
  <2>1. CASE q = n
    BY <2>1, <1>2, <1>6, <1>8
  <2>2. CASE q # n
    <3>1. q \in Shells /\ q \in Pids
      BY <2>2, <1>6, <1>8
    <3>2. q # p
      BY <1>4, <1>6, <1>13 DEF IsTail
    <3>3. sh'[q] = sh[q]
      BY <2>2, <3>1, <3>2, <1>4
    <3>4. IsTail(q)
      BY <3>3, <1>6, <1>13 DEF IsTail
    <3>5. p <= q /\ q <= p
      BY <3>1, <3>4, <1>1, <1>7 DEF ShellInv, Chain
    <3>. QED BY <3>1, <3>2, <3>5, <1>1, <1>8
  <2>. QED BY <2>1, <2>2
<1>14. Chain'
  <2>1. Root \in Shells'
    BY <1>1, <1>6 DEF ShellInv, Chain
  <2>. QED BY <2>1, <1>10, <1>12, <1>13 DEF Chain
<1>15. Settled(p)
  <2>1. \A q \in Pids : q # n => Kept(q, p)
    BY <1>3 DEF Kept
  <2>2. proc'[n].parent = p
    BY <1>3
  <2>. QED BY <2>1, <2>2 DEF Settled
<1>16. \A c \in Children(p) : proc[c].what # "fg"
  BY <1>1, NoProgram
<1>17. ~Again(p)
  BY <1>1 DEF Again
<1>18. ShellFits(p)'
  <2>1. \A c \in Children(p)' : proc'[c].what # "fg"
    <3>1. ASSUME NEW c \in Children(p)', proc'[c].what = "fg" PROVE FALSE
      <4>1. c \in Pids /\ proc'[c].parent = p /\ proc'[c].st # "none"
        BY <3>1 DEF Children
      <4>2. c # n /\ c # p
        BY <3>1, <1>1, <1>3
      <4>. QED BY <3>1, <4>1, <4>2, <1>3, <1>16 DEF Children
    <3>. QED BY <3>1
  <2>2. /\ Len(sh'[p].jobs) <= MaxJobs + 1
        /\ Again(p)' \/ Len(sh'[p].jobs) <= MaxJobs
        /\ \A c \in Listed(p)' \cup ({sh'[p].Childpid} \ {0}) : JobFits(p, c)'
    BY <1>1, <1>4, <1>15, <1>17, JobsKept
  <2>3. n < next'
    BY <1>2
  <2>. QED BY <1>4, <2>1, <2>2, <2>3 DEF ShellFits
<1>19. ShellFits(n)'
  <2>1. \A c \in Pids : c \notin Children(n)'
    <3>1. ASSUME NEW c \in Pids, proc'[c].parent = n, proc'[c].st # "none" PROVE FALSE
      <4>1. c # n
        BY <3>1, <1>2, <1>3
      <4>2. proc[c].st # "none" /\ proc[c].parent = n
        BY <3>1, <4>1, <1>1, <1>3
      <4>. QED BY <4>2, <1>2, Typed, Limits DEF Pids
    <3>. QED BY <3>1 DEF Children
  <2>2. Len(sh'[n].jobs) <= MaxJobs /\ Len(sh'[n].jobs) <= MaxJobs + 1
    BY <1>1, <1>4, <1>17 DEF ShellFits
  <2>3. ASSUME NEW c \in Listed(n)' \cup ({sh'[n].Childpid} \ {0})
        PROVE  JobFits(n, c)'
    <3>1. c \in Listed(p) \cup ({sh[p].Childpid} \ {0})
      BY <1>4 DEF Listed
    <3>2. JobFits(p, c) /\ c \in Pids
      BY <3>1, <1>1, ListedPids DEF ShellFits
    <3>3. c < n /\ proc[c].what # "shell" /\ proc[c].st = "none"
      BY <3>2, <1>16, <1>17 DEF JobFits, Children
    <3>4. c # n /\ c # p /\ c < next'
      BY <3>2, <3>3, <1>1, <1>2, Limits DEF Pids
    <3>. QED BY <3>2, <3>3, <3>4, <1>3 DEF JobFits
  <2>4. \A c \in Children(n)' : proc'[c].what # "fg"
    BY <2>1 DEF Children
  <2>. QED BY <1>4, <2>2, <2>3, <2>4 DEF ShellFits
<1>20. ASSUME NEW r \in Shells' PROVE ShellFits(r)'
  <2>1. CASE r # p /\ r # n
    <3>1. r \in Shells /\ sh'[r] = sh[r]
      BY <2>1, <1>4, <1>6, <1>8
    <3>. QED BY <2>1, <3>1, <1>15, OtherFits
  <2>. QED BY <2>1, <1>18, <1>19
<1>. QED BY <1>9, <1>14, <1>20 DEF ShellInv

LEMMA PipeLastSafe ==
    ASSUME ShellInv, NEW p \in Pids, PipeLast(p)
    PROVE  ShellInv'
<1>1. At(p, "pipe_last")
  BY DEF PipeLast
<1>2. /\ p \in Shells /\ sh[p].pc = "pipe_last" /\ ShellFits(p) /\ sh[p] \in ShellStates
      /\ sh \in [Pids -> ShellStates] /\ proc[p] \in Processes
      /\ proc \in [Pids -> Processes]
  BY <1>1, AtShell
<1>3. CASE /\ next > MaxPid
           /\ proc' = [proc EXCEPT ![p].in = sh[p].pipe]
           /\ sh' = [sh EXCEPT ![p].pc = "wait_last", ![p].waits = Any, ![p].stage = "last"]
           /\ UNCHANGED next
  BY <1>1, <1>3, PipeLastAlone
<1>4. CASE /\ next <= MaxPid
           /\ proc' = [proc EXCEPT ![p].in = sh[p].pipe,
                         ![next] = [Child(p, "shell", FALSE, proc[p].out)
                                      EXCEPT !.in = sh[p].pipe]]
           /\ sh' = [sh EXCEPT ![p].pc = "wait_last", ![p].waits = next, ![p].stage = "last",
                               ![next] = [sh[p] EXCEPT !.pc = "redirect", !.stage = "last"]]
           /\ next' = next + 1
  <2>1. PICK n : n = next
    OBVIOUS
  <2>2. n \in Pids /\ n # p /\ n \in Int /\ n <= MaxPid
    BY <1>2, <1>4, <2>1, Placed, Typed, Limits DEF Pids
  <2>3. PICK i : i = sh[p].pipe
    OBVIOUS
  <2>4. i \in Pipes
    <3>1. i > 0 /\ i \in 0..MaxPid
      BY <1>2, <2>3, StateTypes DEF ShellFits
    <3>. QED BY <3>1, Limits DEF Pipes
  <2>5. PICK x : x = [proc[p] EXCEPT !.in = i]
    OBVIOUS
  <2>6. /\ x \in Processes /\ x.st = proc[p].st /\ x.what = proc[p].what
        /\ x.parent = proc[p].parent
    BY <1>2, <2>4, <2>5 DEF Processes
  <2>7. PICK k : k = [Child(p, "shell", FALSE, proc[p].out) EXCEPT !.in = i]
    OBVIOUS
  <2>8. k \in Processes /\ k.st = "run" /\ k.what = "shell" /\ k.parent = p
    <3>1. k = [st |-> "run", what |-> "shell", parent |-> p, reads |-> FALSE,
               in |-> i, out |-> proc[p].out]
      BY <2>7 DEF Child
    <3>2. proc[p].out \in Pipes \cup {Tty, File} /\ p \in 0..MaxPid
      BY <1>2, ProcessTypes, Limits DEF Pids
    <3>. QED BY <2>4, <3>1, <3>2 DEF Processes
  <2>9. proc' = [proc EXCEPT ![p] = x, ![n] = k]
    BY <1>2, <1>4, <2>1, <2>2, <2>3, <2>5, <2>7
  <2>10. PICK t : t = [sh[p] EXCEPT !.pc = "wait_last", !.waits = n, !.stage = "last"]
    OBVIOUS
  <2>11. /\ t \in ShellStates /\ t.pc = "wait_last" /\ t.waits = n /\ t.stage = "last"
         /\ t.jobs = sh[p].jobs /\ t.Childpid = sh[p].Childpid
    BY <1>2, <2>2, <2>10 DEF ShellStates, Codes
  <2>12. PICK u : u = [sh[p] EXCEPT !.pc = "redirect", !.stage = "last"]
    OBVIOUS
  <2>13. /\ u \in ShellStates /\ u.pc = "redirect" /\ u.stage = "last"
         /\ u.jobs = sh[p].jobs /\ u.Childpid = sh[p].Childpid
    BY <1>2, <2>12 DEF ShellStates, Codes
  <2>14. sh' = [sh EXCEPT ![p] = t, ![n] = u]
    BY <1>2, <1>4, <2>1, <2>2, <2>10, <2>12
  <2>15. next' = next + 1
    BY <1>4
  <2>. QED BY <1>1, <2>1, <2>2, <2>6, <2>8, <2>9, <2>11, <2>13, <2>14, <2>15, PipeLastForked
<1>. QED BY <1>3, <1>4 DEF PipeLast

-----------------------------------------------------------------------------
(* A shell ends: it is the last one of the chain, and its parent becomes   *)
(* the last one.                                                           *)
LEMMA DiesSafe ==
    ASSUME ShellInv, NEW p \in Shells, sh[p].pc # "wait_last", Dies(p)
    PROVE  ShellInv' /\ Shells' = Shells \ {p}
<1>1. /\ p \in Pids /\ proc[p] \in Processes /\ proc[p].what = "shell"
      /\ proc[p].st # "none" /\ proc \in [Pids -> Processes]
      /\ sh \in [Pids -> ShellStates] /\ next \in 2..(MaxPid + 1) /\ p # 0
  BY Placed, Typed, ShellIs DEF ShellInv, ShellTypes
<1>2. /\ \A s \in Shells : s <= p
      /\ \A q \in Pids : proc[q].st # "none" /\ proc[q].what = "shell" /\ q # Root
                           => proc[q].parent # p
  BY ActiveIsTail
<1>3. \A q \in Pids : proc[q].st # "none" /\ proc[q].what = "shell" => proc[q].parent # p
  BY <1>1, <1>2, Typed, Limits DEF Root, Pids
<1>4. NoShell \in ShellStates
  <2>1. NoCommand \in Cmds
    BY DEF NoCommand, Cmds, Ops
  <2>2. <<>> \in Seq(Jobs) /\ 0 \in 0..MaxPid /\ 0 \in 0..2
    BY Limits
  <2>. QED BY <2>1, <2>2 DEF NoShell, ShellStates, Codes
<1>5. /\ sh' \in [Pids -> ShellStates] /\ sh'[p] = NoShell /\ next' = next
      /\ \A q \in Pids : q # p => sh'[q] = sh[q]
  BY <1>1, <1>4 DEF Dies
<1>6. proc' = [q \in Pids |->
                 CASE q = p -> Ended(proc[p])
                   [] proc[q].parent = p /\ proc[q].st = "zombie" -> NoProc
                   [] proc[q].parent = p /\ proc[q].st # "zombie" ->
                        [proc[q] EXCEPT !.parent = 0]
                   [] OTHER -> proc[q]]
  BY DEF Dies
<1>7. /\ proc'[p] \in Processes /\ proc'[p].st \in {"none", "zombie"}
      /\ \/ proc'[p] = NoProc
         \/ /\ proc'[p].what = "shell" /\ proc'[p].parent = proc[p].parent
            /\ proc[p].parent # 0 /\ proc'[p].st = "zombie"
  <2>a. proc[p].parent # p
    BY <1>1, <1>3, ShellIs
  <2>1. proc'[p] = Ended(proc[p])
    BY <1>1, <1>6, <2>a
  <2>2. CASE proc[p].parent = 0
    BY <2>1, <2>2, NothingTypes DEF Ended, NoProc
  <2>3. CASE proc[p].parent # 0
    BY <1>1, <2>1, <2>3 DEF Ended, Processes
  <2>. QED BY <2>2, <2>3
<1>8. ASSUME NEW q \in Pids, q # p
      PROVE  /\ proc[q].parent # p => proc'[q] = proc[q]
             /\ proc[q].parent = p => \/ proc'[q] = NoProc /\ proc[q].st = "zombie"
                                      \/ proc'[q] = [proc[q] EXCEPT !.parent = 0]
  BY <1>6, <1>8
<1>9. ASSUME NEW q \in Pids, q # p, proc[q].parent = p
      PROVE  /\ proc'[q] \in Processes /\ proc'[q].parent = 0
             /\ \/ proc'[q] = NoProc /\ proc[q].st = "zombie"
                \/ proc'[q].what = proc[q].what /\ proc'[q].st = proc[q].st
  <2>1. CASE proc'[q] = NoProc /\ proc[q].st = "zombie"
    <3>1. NoProc.parent = 0
      BY DEF NoProc
    <3>. QED BY <2>1, <3>1, NothingTypes
  <2>2. CASE proc'[q] = [proc[q] EXCEPT !.parent = 0]
    <3>1. proc[q] \in Processes /\ 0 \in 0..MaxPid
      BY <1>1, Limits
    <3>. QED BY <2>2, <3>1 DEF Processes
  <2>. QED BY <1>8, <1>9, <2>1, <2>2
<1>10. \A q \in Pids : proc'[q] \in Processes
  BY <1>1, <1>7, <1>8, <1>9
<1>11. proc' \in [Pids -> Processes]
  <2>1. proc' = [q \in Pids |-> proc'[q]]
    BY <1>6
  <2>. QED BY <1>10, <2>1
(* No shell but p is touched. *)
<1>12. ASSUME NEW q \in Shells, q # p
       PROVE  q \in Pids /\ proc'[q] = proc[q]
  BY <1>3, <1>8, <1>12, ShellIs
<1>13. Shells' = Shells \ {p}
  <2>1. ASSUME NEW q \in Pids PROVE q \in Shells' <=> q \in Shells /\ q # p
    <3>1. CASE q = p
      BY <3>1, <1>7, ShellIsNext
    <3>2. CASE q # p /\ proc[q].parent # p
      BY <3>2, <1>8, ShellIs, ShellIsNext
    <3>3. CASE q # p /\ proc[q].parent = p
      <4>1. q \notin Shells
        BY <3>3, <1>3, ShellIs
      <4>2. q \notin Shells'
        BY <3>3, <1>3, <1>9, ShellIsNext DEF NoProc
      <4>. QED BY <4>1, <4>2
    <3>. QED BY <3>1, <3>2, <3>3
  <2>2. \A q : q \in Shells' => q \in Pids
    BY ShellIsNext
  <2>3. \A q : q \in Shells => q \in Pids
    BY ShellIs
  <2>. QED BY <2>1, <2>2, <2>3
<1>14. ShellTypes'
  <2>1. ASSUME NEW q \in Pids
        PROVE  IF q \in Shells' THEN sh'[q].pc # "none" ELSE sh'[q] = NoShell
    BY <1>5, <1>13, Typed
  <2>2. ASSUME NEW q \in Pids
        PROVE  proc'[q].parent < q /\ (q >= next' => proc'[q].st = "none")
    <3>1. /\ proc[q].parent < q /\ (q >= next => proc[q].st = "none") /\ 0 < q
      BY Typed, Limits DEF Pids
    <3>2. CASE q = p
      <4>1. proc'[q].parent < q
        BY <3>1, <3>2, <1>7 DEF NoProc
      <4>2. ~(q >= next')
        BY <3>2, <1>1, <1>5, Placed, Limits DEF Pids
      <4>. QED BY <4>1, <4>2
    <3>3. CASE q # p /\ proc[q].parent # p
      BY <3>1, <3>3, <1>5, <1>8
    <3>4. CASE q # p /\ proc[q].parent = p
      BY <3>1, <3>4, <1>5, <1>9 DEF NoProc
    <3>. QED BY <3>2, <3>3, <3>4
  <2>. QED BY <1>1, <1>5, <1>11, <2>1, <2>2 DEF ShellTypes
<1>15. ASSUME NEW q \in Pids, proc'[q].st # "none", proc'[q].what = "shell", q # Root
       PROVE  WaitedFor(q)'
  <2>1. /\ proc[q].st # "none" /\ proc[q].what = "shell"
        /\ proc'[q].parent = proc[q].parent /\ proc[q].parent # p
    <3>1. CASE q = p
      BY <3>1, <1>1, <1>7, <1>15, Typed, Limits DEF NoProc, Pids
    <3>2. CASE q # p /\ proc[q].parent # p
      BY <3>2, <1>8, <1>15
    <3>3. CASE q # p /\ proc[q].parent = p
      BY <3>3, <1>3, <1>9, <1>15 DEF NoProc
    <3>. QED BY <3>1, <3>2, <3>3
  <2>2. PICK r : r = proc[q].parent
    OBVIOUS
  <2>3. /\ r \in Shells /\ sh[r].pc = "wait_last" /\ sh[r].waits = q
        /\ \A s \in Shells : s <= r \/ q <= s
    BY <2>1, <2>2, <1>15 DEF ShellInv, Chain, WaitedFor
  <2>4. r \in Shells' /\ sh'[r] = sh[r]
    BY <2>1, <2>2, <2>3, <1>5, <1>12, <1>13
  <2>. QED BY <2>1, <2>2, <2>3, <2>4, <1>13 DEF WaitedFor
<1>16. ASSUME NEW s \in Shells', ~IsTail(s)'
       PROVE  proc'[sh'[s].waits].parent = s
  <2>1. s \in Shells /\ s # p /\ sh'[s] = sh[s]
    BY <1>5, <1>12, <1>13
  <2>2. PICK w : w = sh[s].waits
    OBVIOUS
  <2>3. sh[s].pc = "wait_last" /\ w \in Shells /\ w # p
    BY <2>1, <2>2, <1>13, <1>16 DEF IsTail
  <2>4. proc[w].parent = s
    BY <2>1, <2>2, <2>3 DEF ShellInv, Chain, IsTail
  <2>. QED BY <2>1, <2>2, <2>3, <2>4, <1>12
<1>17. ASSUME NEW q \in Shells', NEW s \in Shells', IsTail(q)'
       PROVE  s <= q
  <2>1. /\ q \in Shells /\ q # p /\ sh'[q] = sh[q] /\ s \in Shells /\ s # p
    BY <1>5, <1>12, <1>13
  <2>2. CASE IsTail(q)
    BY <2>1, <2>2 DEF ShellInv, Chain
  <2>3. CASE ~IsTail(q)
    <3>1. sh[q].pc = "wait_last" /\ sh[q].waits = p
      BY <2>1, <2>3, <1>13, <1>17 DEF IsTail
    <3>2. proc[p].parent = q
      BY <2>1, <2>3, <3>1 DEF ShellInv, Chain
    <3>3. p # Root
      BY <2>1, <3>2, <1>1, Typed, Placed, Limits DEF Root, Pids
    <3>4. s <= q \/ p <= s
      BY <1>1, <2>1, <3>2, <3>3 DEF ShellInv, Chain, WaitedFor
    <3>5. ~(p <= s)
      <4>1. s \in Pids /\ s <= p
        BY <2>1, <1>2, <1>12
      <4>. QED BY <2>1, <4>1, <1>1, Limits DEF Pids
    <3>. QED BY <3>4, <3>5
  <2>. QED BY <2>2, <2>3
<1>18. Shells' # {} => Root \in Shells'
  <2>. SUFFICES ASSUME NEW s \in Shells' PROVE Root \in Shells'
    OBVIOUS
  <2>1. s \in Shells /\ s # p /\ s \in Pids
    BY <1>12, <1>13
  <2>2. Root \in Shells
    BY <2>1 DEF ShellInv, Chain
  <2>3. p # Root
    BY <2>1, <1>2, Limits DEF Root, Pids
  <2>. QED BY <2>2, <2>3, <1>13
<1>19. Chain'
  BY <1>15, <1>16, <1>17, <1>18 DEF Chain
<1>20. ASSUME NEW r \in Shells' PROVE ShellFits(r)'
  <2>1. /\ r \in Shells /\ r # p /\ sh'[r] = sh[r] /\ proc'[r] = proc[r] /\ r \in Pids
        /\ r # 0 /\ ShellFits(r)
    BY <1>5, <1>12, <1>13, Placed
  <2>2. ASSUME NEW c \in Children(r)', proc'[c].what = "fg"
        PROVE  c \in Children(r) /\ proc[c].what = "fg"
    <3>1. c \in Pids /\ proc'[c].parent = r /\ proc'[c].st # "none"
      BY <2>2 DEF Children
    <3>2. c # p
      BY <2>2, <1>7 DEF NoProc
    <3>3. proc[c].parent # p
      BY <3>1, <3>2, <2>1, <1>9
    <3>. QED BY <3>1, <3>2, <3>3, <2>2, <1>8 DEF Children
  <2>3. ASSUME sh[r].pc = "forked"
        PROVE  sh[r].waits \in Children(r)' /\ proc'[sh[r].waits].what = "fg"
    <3>1. PICK w : w = sh[r].waits
      OBVIOUS
    <3>2. w \in Pids /\ proc[w].parent = r /\ proc[w].st # "none" /\ proc[w].what = "fg"
      BY <2>1, <2>3, <3>1 DEF ShellFits, Children
    <3>3. proc'[w] = proc[w]
      BY <3>2, <2>1, <1>1, <1>8
    <3>. QED BY <3>1, <3>2, <3>3 DEF Children
  <2>4. Again(r) <=> Again(r)'
    BY <2>1 DEF Again, Op
  <2>5. ASSUME NEW c \in Listed(r)' \cup ({sh'[r].Childpid} \ {0})
        PROVE  JobFits(r, c)'
    <3>1. c \in Listed(r) \cup ({sh[r].Childpid} \ {0})
      BY <2>1 DEF Listed
    <3>2. JobFits(r, c) /\ c \in Pids
      BY <3>1, <2>1, ListedPids DEF ShellFits
    <3>3. c < next /\ proc[c].what # "shell" /\ c # p
          /\ (proc[c].st = "none" \/ (proc[c].what = "fg" /\ proc[c].parent = r) \/ Again(r))
      BY <3>2, <1>1 DEF JobFits
    <3>4. CASE proc[c].parent # p
      BY <3>2, <3>3, <3>4, <2>4, <1>5, <1>8 DEF JobFits
    <3>5. CASE proc[c].parent = p
      <4>1. \/ proc'[c] = NoProc
            \/ proc'[c].what = proc[c].what /\ proc'[c].st = proc[c].st
        BY <3>2, <3>3, <3>5, <1>9
      <4>2. proc[c].parent # r
        BY <3>5, <2>1
      <4>. QED BY <3>3, <4>1, <4>2, <2>4, <1>5 DEF JobFits, NoProc
    <3>. QED BY <3>4, <3>5
  <2>6. /\ sh'[r].pc = "prompt" => proc'[r].in = Tty /\ proc'[r].out = Tty
        /\ sh'[r].pc \in {"exec", "run", "forked", "wait"} => sh'[r].left > 0
        /\ sh'[r].pc = "pipe_last" \/ sh'[r].stage = "first" => sh'[r].pipe > 0
        /\ sh'[r].pc = "wait_last" => sh'[r].waits < next'
        /\ Len(sh'[r].jobs) <= MaxJobs + 1
        /\ Again(r)' \/ Len(sh'[r].jobs) <= MaxJobs
    BY <2>1, <2>4, <1>5 DEF ShellFits
  <2>7. \A c \in Children(r)' : proc'[c].what = "fg" =>
            sh'[r].pc \in {"forked", "wait"} /\ sh'[r].waits = c
    BY <2>1, <2>2 DEF ShellFits
  <2>8. sh'[r].pc = "forked" =>
           sh'[r].waits \in Children(r)' /\ proc'[sh'[r].waits].what = "fg"
    BY <2>1, <2>3
  <2>. QED BY <2>5, <2>6, <2>7, <2>8 DEF ShellFits
<1>. QED BY <1>13, <1>14, <1>19, <1>20 DEF ShellInv

-----------------------------------------------------------------------------
(* A shell dies at the prompt or while it executes, never waiting. *)
LEMMA EndsSafe ==
    ASSUME ShellInv, NEW p \in Pids, NEW s \in {"prompt", "exec", "run"},
           At(p, s), Dies(p)
    PROVE  ShellInv'
BY AtShell, DiesSafe

LEMMA MainSafe ==
    ASSUME ShellInv, NEW p \in Pids, Main(p)
    PROVE  ShellInv'
<1>1. ASSUME NEW c \in Commands,
             ReadCommand(p, c) \/ NextCommand(p, c) \/ NextPipeline(p, c)
      PROVE  ShellInv'
  BY <1>1, ReadCommandSafe, NextCommandSafe
<1>2. CASE Quit(p)
  BY <1>2, EndsSafe DEF Quit
<1>3. CASE Update(p)
  BY <1>3, UpdateSafe
<1>. QED BY <1>1, <1>2, <1>3 DEF Main

LEMMA ChkFileSafe ==
    ASSUME ShellInv, NEW p \in Pids, ChkFile(p)
    PROVE  ShellInv'
<1>1. CASE Redirect(p) \/ CheckChild(p)
  BY <1>1, RedirectSafe, CheckChildSafe
<1>2. CASE Reap(p)
  <2>1. PICK c \in Zombies(p) :
          \/ /\ sh' = [sh EXCEPT ![p].pc = "run", ![p].jobs = DeleteJob(p, c)]
             /\ proc' = [proc EXCEPT ![c] = NoProc] /\ next' = next
          \/ Dies(p)
    BY <1>2 DEF Reap
  <2>2. At(p, "exec")
    BY <1>2 DEF Reap
  <2>. QED BY <2>1, <2>2, ReapSafe, EndsSafe
<1>. QED BY <1>1, <1>2 DEF ChkFile

LEMMA ForeGroundSafe ==
    ASSUME ShellInv, NEW p \in Pids, ForeGroundProcess(p)
    PROVE  ShellInv'
BY ForkProgramSafe, SetChildpidSafe, WaitedSafe, FgSafe, WaitFailsSafe DEF ForeGroundProcess

LEMMA BackGroundSafe ==
    ASSUME ShellInv, NEW p \in Pids, BackGroundProcess(p)
    PROVE  ShellInv'
BY BackgroundSafe, EndsSafe DEF BackGroundProcess, BackgroundAgain

LEMMA ExecuteInbuildSafe ==
    ASSUME ShellInv, NEW p \in Pids, ExecuteInbuild(p)
    PROVE  ShellInv'
<1>1. CASE Bg(p) /\ Dies(p)
  BY <1>1, EndsSafe DEF Bg
<1>2. CASE Bg(p) /\ ~Dies(p)
  BY <1>2, BgSafe
<1>. QED BY <1>1, <1>2, BuiltinSafe, KjobSafe DEF ExecuteInbuild

LEMMA ForkPipesSafe ==
    ASSUME ShellInv, NEW p \in Pids, ForkPipes(p)
    PROVE  ShellInv'
BY PipeForkedSafe, PipeInShellSafe, PipeLastSafe, WaitLastSafe DEF ForkPipes

LEMMA InitSafe ==
    ASSUME Init
    PROVE  ShellInv
<1>1. NoShell \in ShellStates
  <2>1. NoCommand \in Cmds
    BY DEF NoCommand, Cmds, Ops
  <2>2. <<>> \in Seq(Jobs) /\ 0 \in 0..MaxPid /\ 0 \in 0..2
    BY Limits
  <2>. QED BY <2>1, <2>2 DEF NoShell, ShellStates, Codes
<1>2. PICK r : r = [NoShell EXCEPT !.pc = "prompt"]
  OBVIOUS
<1>3. /\ r \in ShellStates /\ r.pc = "prompt" /\ r.jobs = <<>> /\ r.Childpid = 0
      /\ r.stage = "only"
  <2>1. NoShell.jobs = <<>> /\ NoShell.Childpid = 0 /\ NoShell.stage = "only"
    BY DEF NoShell
  <2>. QED BY <1>1, <1>2, <2>1 DEF ShellStates, Codes
<1>4. PICK x : x = [NoProc EXCEPT !.st = "run", !.what = "shell"]
  OBVIOUS
<1>5. /\ x \in Processes /\ x.st = "run" /\ x.what = "shell" /\ x.parent = 0
      /\ x.in = Tty /\ x.out = Tty
  <2>1. x = [st |-> "run", what |-> "shell", parent |-> 0, reads |-> FALSE,
             in |-> Tty, out |-> Tty]
    BY <1>4 DEF NoProc
  <2>2. 0 \in 0..MaxPid
    BY Limits
  <2>. QED BY <2>1, <2>2 DEF Processes
<1>6. /\ proc = [p \in Pids |-> IF p = Root THEN x ELSE NoProc]
      /\ sh = [p \in Pids |-> IF p = Root THEN r ELSE NoShell]
      /\ next = 2
  BY <1>2, <1>4 DEF Init
<1>7. Root \in Pids
  BY Limits DEF Root, Pids
<1>8. Shells = {Root}
  <2>1. \A p : p \in Shells <=> p = Root
    BY <1>5, <1>6, <1>7, ShellIs DEF NoProc
  <2>. QED BY <2>1
<1>9. ShellTypes
  <2>1. next \in 2..(MaxPid + 1)
    BY <1>6, Limits
  <2>2. proc \in [Pids -> Processes] /\ sh \in [Pids -> ShellStates]
    BY <1>1, <1>3, <1>5, <1>6, NothingTypes
  <2>3. \A p \in Pids : IF p \in Shells THEN sh[p].pc # "none" ELSE sh[p] = NoShell
    BY <1>3, <1>6, <1>7, <1>8
  <2>4. ASSUME NEW p \in Pids
        PROVE  proc[p].parent < p /\ (p >= next => proc[p].st = "none")
    <3>1. CASE p = Root
      BY <3>1, <1>5, <1>6, <1>7 DEF Root
    <3>2. CASE p # Root
      <4>1. proc[p].parent = 0 /\ proc[p].st = "none"
        BY <3>2, <1>6 DEF NoProc
      <4>. QED BY <4>1, Limits DEF Pids
    <3>. QED BY <3>1, <3>2
  <2>. QED BY <2>1, <2>2, <2>3, <2>4 DEF ShellTypes
<1>10. Chain
  <2>1. \A q \in Pids : q # Root => proc[q].st = "none"
    BY <1>6 DEF NoProc
  <2>2. sh[Root].pc = "prompt"
    BY <1>3, <1>6, <1>7
  <2>3. IsTail(Root) /\ Root <= Root
    BY <2>2 DEF IsTail, Root
  <2>. QED BY <1>8, <2>1, <2>3 DEF Chain
<1>11. ShellFits(Root)
  <2>1. sh[Root] = r /\ proc[Root] = x
    BY <1>6, <1>7
  <2>2. \A c \in Pids : c \notin Children(Root)
    BY <1>5, <1>6 DEF Children, NoProc, Root
  <2>3. Len(r.jobs) = 0 /\ Listed(Root) = {}
    BY <1>3, <2>1 DEF Listed
  <2>4. \A c \in Children(Root) : proc[c].what # "fg"
    BY <2>2 DEF Children
  <2>. QED BY <1>3, <1>5, <2>1, <2>3, <2>4, Limits DEF ShellFits
<1>. QED BY <1>8, <1>9, <1>10, <1>11 DEF ShellInv

LEMMA StutterSafe ==
    ASSUME ShellInv, UNCHANGED vars
    PROVE  ShellInv'
<1>1. proc' = proc /\ sh' = sh /\ next' = next
  BY DEF vars
<1>2. proc' \in [Pids -> Processes] /\ next' \in 2..(MaxPid + 1)
  BY <1>1 DEF ShellInv, ShellTypes
<1>3. \A q \in Pids : Kept(q, 0)
  BY <1>1 DEF Kept
<1>4. Steady(0) /\ next' <= MaxPid + 1
  BY <1>1, <1>2, <1>3, Limits DEF Steady
<1>. QED BY <1>1, <1>2, <1>4, OutsideSafe

LEMMA NextSafe ==
    ASSUME ShellInv, [Next]_vars
    PROVE  ShellInv'
<1>1. ASSUME NEW p \in Pids,
             \/ Main(p) \/ ChkFile(p) \/ ForeGroundProcess(p) \/ BackGroundProcess(p)
             \/ ExecuteInbuild(p) \/ ForkPipes(p)
      PROVE  ShellInv'
  BY <1>1, MainSafe, ChkFileSafe, ForeGroundSafe, BackGroundSafe, ExecuteInbuildSafe,
     ForkPipesSafe
<1>2. ASSUME NEW q \in Pids, Exits(q) \/ Continued(q)
      PROVE  ShellInv'
  BY <1>2, ExitsSafe, ContinuedSafe
<1>3. CASE Over \/ UNCHANGED vars
  BY <1>3, StutterSafe DEF Over
<1>. QED BY <1>1, <1>2, <1>3, CtrlCSafe, CtrlZSafe DEF Next

(* However deep the pipelines nest and whatever the user types, the shells *)
(* stay a chain in which each but the last waits for the next, and each    *)
(* has the descriptors, the program and the jobs that its place asks for.  *)
THEOREM ShellInvariant == Spec => []ShellInv
<1>1. Init => ShellInv
  BY InitSafe
<1>2. ShellInv /\ [Next]_vars => ShellInv'
  BY NextSafe
<1>. QED BY <1>1, <1>2, PTL DEF Spec

-----------------------------------------------------------------------------
(* What follows for the properties that the runs check. *)
LEMMA InvTyped ==
    ASSUME ShellInv
    PROVE  TypeOK
<1>1. next \in 2..(MaxPid + 1)
  BY DEF ShellInv, ShellTypes
<1>2. ASSUME NEW p \in Pids
      PROVE  /\ proc[p].st \in {"none", "run", "stopped", "doomed", "zombie"}
             /\ proc[p].what \in {"none", "shell", "fg", "bg", "stage"}
             /\ proc[p].parent \in 0..MaxPid
             /\ proc[p].in \in Pipes \cup {Tty, File, Closed}
             /\ proc[p].out \in Pipes \cup {Tty, File}
             /\ sh[p].left \in 0..2
             /\ Listed(p) \subseteq Pids
             /\ sh[p].pc # "none" <=> p \in Shells
  BY Typed, ProcessTypes, StateTypes, ListedPids
<1>3. ASSUME NEW p \in Pids PROVE Len(sh[p].jobs) <= MaxJobs + 1
  <2>1. CASE p \in Shells
    BY <2>1, Placed DEF ShellFits
  <2>2. CASE p \notin Shells
    <3>1. sh[p].jobs = <<>>
      BY <2>2, Typed DEF NoShell
    <3>. QED BY <3>1, Limits
  <2>. QED BY <2>1, <2>2
<1>. QED BY <1>1, <1>2, <1>3 DEF TypeOK

LEMMA OneActive ==
    ASSUME ShellInv
    PROVE  OneReader
<1>1. PICK A : A = {p \in Shells : sh[p].pc # "wait_last"}
  OBVIOUS
<1>2. ASSUME NEW p \in A, NEW s \in A PROVE p = s
  <2>1. p \in Shells /\ s \in Shells /\ p <= s /\ s <= p
    BY <1>1, ActiveIsTail
  <2>. QED BY <2>1, Placed, Limits DEF Pids
<1>3. Cardinality(A) <= 1
  <2>1. CASE A = {}
    BY <2>1, FS_EmptySet
  <2>2. CASE A # {}
    <3>1. PICK p : A = {p}
      BY <2>2, <1>2
    <3>. QED BY <3>1, FS_Singleton
  <2>. QED BY <2>1, <2>2
<1>4. Root \in Live \/ Shells = {}
  BY DEF ShellInv, Chain, Shells
<1>. QED BY <1>1, <1>3, <1>4 DEF OneReader

LEMMA PromptIsDone ==
    ASSUME ShellInv
    PROVE  ForegroundDone
<1>. SUFFICES ASSUME NEW p \in Shells, sh[p].pc = "prompt"
              PROVE  /\ \A c \in Children(p) : proc[c].what \notin {"fg", "shell"}
                     /\ \A c \in Listed(p) : proc[c].st = "none"
  BY DEF ForegroundDone
<1>1. \A c \in Children(p) : proc[c].what # "fg"
  BY NoProgram
<1>2. ASSUME NEW c \in Children(p) PROVE proc[c].what # "shell"
  <2>1. c \in Pids /\ proc[c].parent = p /\ proc[c].st # "none"
    BY DEF Children
  <2>2. c # Root
    BY <2>1, Placed, Typed, Limits DEF Root, Pids
  <2>. QED BY <2>1, <2>2, ActiveIsTail
<1>3. ASSUME NEW c \in Listed(p) PROVE proc[c].st = "none"
  <2>1. c \in Pids /\ JobFits(p, c)
    BY Placed, ListedPids DEF ShellFits
  <2>2. ~Again(p)
    BY DEF Again
  <2>. QED BY <1>1, <2>1, <2>2 DEF JobFits, Children
<1>. QED BY <1>1, <1>2, <1>3

(* Types of what the shell keeps. *)
THEOREM ShellTyped == Spec => []TypeOK
BY ShellInvariant, InvTyped, PTL

(* At most one shell reads the terminal and runs commands, and none is     *)
(* left without a parent.                                                  *)
THEOREM OneShellReads == Spec => []OneReader
BY ShellInvariant, OneActive, PTL

(* Every redirection and pipeline is undone when the shell prompts again.  *)
THEOREM PromptOnTerminal == Spec => []TerminalAtPrompt
<1>1. ShellInv => TerminalAtPrompt
  BY DEF ShellInv, ShellFits, TerminalAtPrompt
<1>. QED BY <1>1, ShellInvariant, PTL

(* A shell prompts only when its foreground programs and the jobs of its   *)
(* list are gone.                                                          *)
THEOREM ForegroundReaped == Spec => []ForegroundDone
BY ShellInvariant, PromptIsDone, PTL

-----------------------------------------------------------------------------
(* Why a shell dies. *)
LEMMA StaysUp ==
    ASSUME ShellInv, NEW p \in Shells, ShellInv', sh'[p].pc # "none"
    PROVE  p \in Shells'
BY Placed DEF ShellInv, ShellTypes, NoShell

(* A step of shell p that is not its end. *)
Goes(p) == sh'[p].pc # "none" /\ \A q \in Shells : q # p => sh'[q] = sh[q]

(* A step of shell p that may be. *)
Risks(p) ==
    /\ sh[p].jobs # <<>> \/ Op(p) = "amp" \/ Quit(p)
    /\ \E t : sh' = [sh EXCEPT ![p] = t]

LEMMA TurnGoes ==
    ASSUME ShellInv, NEW p \in Shells, NEW t, t.pc # "none", sh' = [sh EXCEPT ![p] = t]
    PROVE  Goes(p)
<1>1. p \in Pids /\ sh \in [Pids -> ShellStates] /\ \A q \in Shells : q \in Pids
  BY Placed DEF ShellInv, ShellTypes
<1>. QED BY <1>1 DEF Goes

LEMMA StepGoes ==
    ASSUME ShellInv, NEW p \in Shells, sh[p].pc \in {"run", "wait"},
           sh' = [sh EXCEPT ![p] = Step(@)]
    PROVE  Goes(p)
<1>1. PICK t : t = Step(sh[p])
  OBVIOUS
<1>2. sh[p] \in ShellStates /\ sh[p].left > 0
  BY Placed, Typed DEF ShellFits
<1>3. t.pc # "none"
  BY <1>1, <1>2, Stepped
<1>. QED BY <1>1, <1>3, TurnGoes

LEMMA MainGoes ==
    ASSUME ShellInv, NEW p \in Pids, Main(p)
    PROVE  Goes(p) \/ Risks(p)
<1>1. ASSUME NEW s, s # "none", At(p, s)
      PROVE  p \in Shells /\ sh[p] \in ShellStates /\ sh \in [Pids -> ShellStates]
  BY <1>1, AtShell
<1>2. ASSUME NEW c \in Commands, ReadCommand(p, c) PROVE Goes(p)
  <2>1. PICK g \in {"redirect", "pipe"} :
           g = IF c.first = "none" THEN "redirect" ELSE "pipe"
    OBVIOUS
  <2>2. PICK t : t = [sh[p] EXCEPT !.cmd = c, !.a = proc[p].in, !.b = proc[p].out, !.pc = g]
    OBVIOUS
  <2>3. At(p, "prompt")
    BY <1>2 DEF ReadCommand
  <2>4. sh' = [sh EXCEPT ![p] = t] /\ t.pc # "none"
    BY <1>1, <1>2, <2>1, <2>2, <2>3 DEF ReadCommand, ShellStates
  <2>. QED BY <1>1, <2>3, <2>4, TurnGoes
<1>3. ASSUME NEW c \in Commands, NextCommand(p, c) \/ NextPipeline(p, c) PROVE Goes(p)
  <2>1. PICK g \in {"redirect", "pipe"} :
           sh' = [sh EXCEPT ![p].cmd = c, ![p].stage = "only", ![p].pc = g]
    BY <1>3 DEF NextCommand, NextPipeline
  <2>2. PICK t : t = [sh[p] EXCEPT !.cmd = c, !.stage = "only", !.pc = g]
    OBVIOUS
  <2>3. At(p, "update")
    BY <1>3 DEF NextCommand, NextPipeline
  <2>4. sh' = [sh EXCEPT ![p] = t] /\ t.pc # "none"
    BY <1>1, <2>1, <2>2, <2>3 DEF ShellStates
  <2>. QED BY <1>1, <2>3, <2>4, TurnGoes
<1>4. ASSUME Update(p) PROVE Goes(p)
  <2>1. PICK jobs : sh' = [sh EXCEPT ![p] = [NoShell EXCEPT !.pc = "prompt", !.jobs = jobs]]
    BY <1>4 DEF Update
  <2>2. PICK t : t = [NoShell EXCEPT !.pc = "prompt", !.jobs = jobs]
    OBVIOUS
  <2>3. t.pc # "none" /\ sh' = [sh EXCEPT ![p] = t]
    BY <2>1, <2>2 DEF NoShell
  <2>4. At(p, "update")
    BY <1>4 DEF Update
  <2>. QED BY <1>1, <2>3, <2>4, TurnGoes
<1>5. ASSUME Quit(p) PROVE Risks(p)
  BY <1>5 DEF Quit, Dies, Risks
<1>. QED BY <1>2, <1>3, <1>4, <1>5 DEF Main

LEMMA ChkFileGoes ==
    ASSUME ShellInv, NEW p \in Pids, ChkFile(p)
    PROVE  Goes(p) \/ Risks(p)
<1>1. ASSUME NEW s, s # "none", At(p, s)
      PROVE  p \in Shells /\ sh[p] \in ShellStates /\ sh \in [Pids -> ShellStates]
  BY <1>1, AtShell
<1>2. ASSUME Redirect(p) PROVE Goes(p)
  <2>1. PICK l : sh' = [sh EXCEPT ![p].pc = "exec", ![p].left = l]
    BY <1>2 DEF Redirect
  <2>2. PICK t : t = [sh[p] EXCEPT !.pc = "exec", !.left = l]
    OBVIOUS
  <2>3. At(p, "redirect")
    BY <1>2 DEF Redirect
  <2>4. sh' = [sh EXCEPT ![p] = t] /\ t.pc # "none"
    BY <1>1, <2>1, <2>2, <2>3 DEF ShellStates
  <2>. QED BY <1>1, <2>3, <2>4, TurnGoes
<1>3. ASSUME CheckChild(p) PROVE Goes(p)
  <2>1. PICK t : t = [sh[p] EXCEPT !.pc = "run"]
    OBVIOUS
  <2>2. At(p, "exec")
    BY <1>3 DEF CheckChild
  <2>3. sh' = [sh EXCEPT ![p] = t] /\ t.pc # "none"
    BY <1>1, <1>3, <2>1, <2>2 DEF CheckChild, Goto, ShellStates
  <2>. QED BY <1>1, <2>2, <2>3, TurnGoes
<1>4. ASSUME Reap(p) PROVE Goes(p) \/ Risks(p)
  <2>1. PICK jobs : \/ sh' = [sh EXCEPT ![p].pc = "run", ![p].jobs = jobs]
                    \/ Risks(p)
    BY <1>4 DEF Reap, DeleteFails, Dies, Risks
  <2>2. PICK t : t = [sh[p] EXCEPT !.pc = "run", !.jobs = jobs]
    OBVIOUS
  <2>3. At(p, "exec")
    BY <1>4 DEF Reap
  <2>4. (sh' = [sh EXCEPT ![p] = t] \/ Risks(p)) /\ t.pc # "none"
    BY <1>1, <2>1, <2>2, <2>3 DEF ShellStates
  <2>. QED BY <1>1, <2>3, <2>4, TurnGoes
<1>. QED BY <1>2, <1>3, <1>4 DEF ChkFile

LEMMA ProcessGoes ==
    ASSUME ShellInv, NEW p \in Pids, ForeGroundProcess(p) \/ BackGroundProcess(p)
    PROVE  Goes(p) \/ Risks(p)
<1>1. ASSUME NEW s, s # "none", At(p, s)
      PROVE  /\ p \in Shells /\ sh[p].pc = s
             /\ sh[p] \in ShellStates /\ sh \in [Pids -> ShellStates]
  BY <1>1, AtShell
<1>2. ASSUME ForkProgram(p) PROVE Goes(p)
  <2>1. At(p, "run")
    BY <1>2 DEF ForkProgram
  <2>2. CASE Executed(p)
    BY <1>1, <2>1, <2>2, StepGoes DEF Executed
  <2>3. CASE sh' = [sh EXCEPT ![p].pc = "forked", ![p].waits = next]
    <3>1. PICK t : t = [sh[p] EXCEPT !.pc = "forked", !.waits = next]
      OBVIOUS
    <3>2. sh' = [sh EXCEPT ![p] = t] /\ t.pc # "none"
      BY <1>1, <2>1, <2>3, <3>1 DEF ShellStates
    <3>. QED BY <1>1, <2>1, <3>2, TurnGoes
  <2>. QED BY <1>2, <2>2, <2>3 DEF ForkProgram
<1>3. ASSUME SetChildpid(p) PROVE Goes(p)
  <2>1. PICK t : t = [sh[p] EXCEPT !.Childpid = sh[p].waits, !.pc = "wait"]
    OBVIOUS
  <2>2. At(p, "forked")
    BY <1>3 DEF SetChildpid
  <2>3. sh' = [sh EXCEPT ![p] = t] /\ t.pc # "none"
    BY <1>1, <1>3, <2>1, <2>2 DEF SetChildpid, ShellStates
  <2>. QED BY <1>1, <2>2, <2>3, TurnGoes
<1>4. ASSUME Waited(p) \/ WaitFails(p) PROVE Goes(p)
  <2>1. At(p, "wait") /\ sh' = [sh EXCEPT ![p] = Step(@)]
    BY <1>4 DEF Waited, WaitFails, Executed
  <2>. QED BY <1>1, <2>1, StepGoes
<1>5. ASSUME Fg(p) PROVE Goes(p)
  <2>1. PICK t : t = [sh[p] EXCEPT !.pc = "wait", !.waits = sh[p].cmd.arg]
    OBVIOUS
  <2>2. At(p, "run")
    BY <1>5 DEF Fg
  <2>3. sh' = [sh EXCEPT ![p] = t] /\ t.pc # "none"
    BY <1>1, <1>5, <2>1, <2>2 DEF Fg, ShellStates
  <2>. QED BY <1>1, <2>2, <2>3, TurnGoes
<1>6. ASSUME BackGroundProcess(p) PROVE Risks(p)
  BY <1>6 DEF BackGroundProcess, Background, BackgroundAgain, Executed, Started, Dies, Risks
<1>. QED BY <1>2, <1>3, <1>4, <1>5, <1>6 DEF ForeGroundProcess

LEMMA InbuildGoes ==
    ASSUME ShellInv, NEW p \in Pids, ExecuteInbuild(p)
    PROVE  Goes(p) \/ Risks(p)
<1>1. At(p, "run")
  BY DEF ExecuteInbuild, Builtin, Bg, Kjob, OverKill
<1>2. p \in Shells /\ sh[p].pc = "run" /\ sh[p] \in ShellStates
  BY <1>1, AtShell
<1>3. CASE Builtin(p) \/ Kjob(p) \/ OverKill(p)
  BY <1>2, <1>3, StepGoes DEF Builtin, Kjob, OverKill, Executed
<1>4. CASE Bg(p)
  <2>1. CASE Executed(p)
    BY <1>2, <2>1, StepGoes DEF Executed
  <2>2. CASE ~Executed(p)
    <3>1. Wakes(p, GetJobPid(p, sh[p].cmd.arg)) \/ GetJobFails(p, sh[p].cmd.arg)
      BY <1>4, <2>2 DEF Bg
    <3>2. sh[p].jobs = <<>> => Len(sh[p].jobs) = 0
      OBVIOUS
    <3>3. sh[p].cmd.arg \in Int
      BY <1>2, StateTypes DEF Cmds
    <3>4. sh[p].jobs # <<>>
      BY <3>1, <3>2, <3>3 DEF Wakes, GetJobFails
    <3>5. \E t : sh' = [sh EXCEPT ![p] = t]
      BY <1>4, <2>2 DEF Bg, Dies
    <3>. QED BY <3>4, <3>5 DEF Risks
  <2>. QED BY <2>1, <2>2
<1>. QED BY <1>3, <1>4 DEF ExecuteInbuild

LEMMA PipesGo ==
    ASSUME ShellInv, NEW p \in Pids, ForkPipes(p)
    PROVE  Goes(p)
<1>1. ASSUME NEW s, s # "none", At(p, s)
      PROVE  /\ p \in Shells /\ sh[p] \in ShellStates /\ sh \in [Pids -> ShellStates]
  BY <1>1, AtShell
<1>2. ASSUME PipeForked(p) PROVE Goes(p)
  <2>1. PICK n : sh' = [sh EXCEPT ![p].pc = "pipe_last", ![p].pipe = n]
    BY <1>2 DEF PipeForked
  <2>2. PICK t : t = [sh[p] EXCEPT !.pc = "pipe_last", !.pipe = n]
    OBVIOUS
  <2>3. At(p, "pipe")
    BY <1>2 DEF PipeForked
  <2>4. sh' = [sh EXCEPT ![p] = t] /\ t.pc # "none"
    BY <1>1, <2>1, <2>2, <2>3 DEF ShellStates
  <2>. QED BY <1>1, <2>3, <2>4, TurnGoes
<1>3. ASSUME PipeInShell(p) PROVE Goes(p)
  <2>1. PICK n : sh' = [sh EXCEPT ![p].pc = "exec", ![p].stage = "first",
                                  ![p].left = 2, ![p].pipe = n]
    BY <1>3 DEF PipeInShell
  <2>2. PICK t : t = [sh[p] EXCEPT !.pc = "exec", !.stage = "first", !.left = 2, !.pipe = n]
    OBVIOUS
  <2>3. At(p, "pipe")
    BY <1>3 DEF PipeInShell
  <2>4. sh' = [sh EXCEPT ![p] = t] /\ t.pc # "none"
    BY <1>1, <2>1, <2>2, <2>3 DEF ShellStates
  <2>. QED BY <1>1, <2>3, <2>4, TurnGoes
<1>4. ASSUME WaitLast(p) PROVE Goes(p)
  <2>1. PICK t : t = [sh[p] EXCEPT !.pc = "update"]
    OBVIOUS
  <2>2. At(p, "wait_last")
    BY <1>4 DEF WaitLast
  <2>3. sh' = [sh EXCEPT ![p] = t] /\ t.pc # "none"
    BY <1>1, <1>4, <2>1, <2>2 DEF WaitLast, Goto, ShellStates
  <2>. QED BY <1>1, <2>2, <2>3, TurnGoes
<1>5. ASSUME PipeLast(p) PROVE Goes(p)
  <2>1. At(p, "pipe_last")
    BY <1>5, Zenon DEF PipeLast
  <2>2. PICK w, t, u : /\ t = [sh[p] EXCEPT !.pc = "wait_last", !.waits = w, !.stage = "last"]
                       /\ \/ sh' = [sh EXCEPT ![p] = t]
                          \/ sh' = [sh EXCEPT ![p] = t, ![next] = u]
    <3>1. CASE sh' = [sh EXCEPT ![p].pc = "wait_last", ![p].waits = Any, ![p].stage = "last"]
      BY <1>1, <2>1, <3>1
    <3>2. CASE sh' = [sh EXCEPT
                        ![p].pc = "wait_last", ![p].waits = next, ![p].stage = "last",
                        ![next] = [sh[p] EXCEPT !.pc = "redirect", !.stage = "last"]]
      <4>1. PICK u : u = [sh[p] EXCEPT !.pc = "redirect", !.stage = "last"]
        OBVIOUS
      <4>2. PICK t : t = [sh[p] EXCEPT !.pc = "wait_last", !.waits = next, !.stage = "last"]
        OBVIOUS
      <4>3. sh' = [sh EXCEPT ![p] = t, ![next] = u]
        BY <1>1, <2>1, <3>2, <4>1, <4>2
      <4>. QED BY <4>2, <4>3
    <3>. QED BY <1>5, <3>1, <3>2 DEF PipeLast
  <2>3. p \in Shells /\ t.pc # "none"
    BY <1>1, <2>1, <2>2 DEF ShellStates
  <2>4. CASE sh' = [sh EXCEPT ![p] = t]
    BY <2>3, <2>4, TurnGoes
  <2>5. CASE sh' = [sh EXCEPT ![p] = t, ![next] = u]
    <3>1. p # next /\ p \in Pids /\ \A q \in Shells : q # next /\ q \in Pids
      BY <2>3, Placed, Typed, Limits DEF Pids
    <3>2. sh \in [Pids -> ShellStates]
      BY <1>1, <2>1
    <3>. QED BY <2>3, <2>5, <3>1, <3>2 DEF Goes
  <2>. QED BY <2>2, <2>4, <2>5
<1>. QED BY <1>2, <1>3, <1>4, <1>5 DEF ForkPipes

LEMMA StepKeepsShells ==
    ASSUME ShellInv, [Next]_vars, NEW p \in Shells,
           sh[p].jobs = <<>>, Op(p) # "amp", ~Quit(p)
    PROVE  sh'[p].pc # "none"
<1>1. p \in Pids /\ sh[p].pc # "none" /\ sh \in [Pids -> ShellStates]
  BY Placed DEF ShellInv, ShellTypes
<1>2. ASSUME NEW q \in Pids,
             \/ Main(q) \/ ChkFile(q) \/ ForeGroundProcess(q) \/ BackGroundProcess(q)
             \/ ExecuteInbuild(q) \/ ForkPipes(q)
      PROVE  sh'[p].pc # "none"
  <2>1. CASE Goes(q)
    BY <1>1, <2>1 DEF Goes
  <2>2. CASE Risks(q) /\ q = p
    BY <2>2 DEF Risks
  <2>3. CASE Risks(q) /\ q # p
    <3>1. PICK t : sh' = [sh EXCEPT ![q] = t]
      BY <2>3 DEF Risks
    <3>. QED BY <1>1, <2>3, <3>1
  <2>. QED BY <1>2, <2>1, <2>2, <2>3, MainGoes, ChkFileGoes, ProcessGoes, InbuildGoes, PipesGo
<1>3. CASE sh' = sh
  BY <1>1, <1>3
<1>4. CASE CtrlZ
  <2>1. sh' = sh \/ \E jobs : sh' = [sh EXCEPT ![Root].jobs = jobs]
    BY <1>4 DEF CtrlZ
  <2>2. ASSUME NEW jobs, sh' = [sh EXCEPT ![Root].jobs = jobs]
        PROVE  sh'[p].pc # "none"
    <3>1. CASE p = Root
      <4>1. sh'[p] = [sh[p] EXCEPT !.jobs = jobs] /\ sh[p] \in ShellStates
        BY <1>1, <2>2, <3>1
      <4>. QED BY <1>1, <4>1 DEF ShellStates
    <3>2. CASE p # Root
      BY <1>1, <2>2, <3>2
    <3>. QED BY <3>1, <3>2
  <2>. QED BY <2>1, <2>2, <1>3
<1>5. ASSUME NEW q \in Pids, Exits(q) \/ Continued(q) PROVE sh'[p].pc # "none"
  BY <1>3, <1>5 DEF Exits, Continued
<1>6. CASE CtrlC \/ Over \/ UNCHANGED vars
  BY <1>3, <1>6 DEF CtrlC, Over, vars
<1>. QED BY <1>2, <1>4, <1>5, <1>6 DEF Next

(* Nothing makes a shell without jobs die but quit and the &: neither the  *)
(* children of pipelines that it reaps, nor a signal, nor another shell.   *)
THEOREM NoOtherDeath == Spec => DiesOfJobsOnly
<1>1. ASSUME ShellInv, ShellInv', [Next]_vars, NEW p \in Shells,
             sh[p].jobs = <<>>, Op(p) # "amp", ~Quit(p)
      PROVE  p \in Shells'
  BY <1>1, StepKeepsShells, StaysUp
<1>2. ShellInv /\ ShellInv' /\ [Next]_vars =>
        [\A p \in Shells :
            sh[p].jobs = <<>> /\ Op(p) # "amp" /\ ~Quit(p) => p \in Shells']_vars
  BY <1>1
<1>. QED BY <1>2, ShellInvariant, PTL DEF Spec, DiesOfJobsOnly
=============================================================================

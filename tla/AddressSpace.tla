----------------------------- MODULE AddressSpace -----------------------------
(***************************************************************************)
(* User address spaces of xv6 (vm.c and exec.c): setupkvm, walkpgdir,      *)
(* mappages, allocuvm, deallocuvm, copyuvm, freevm, loaduvm and exec, for  *)
(* processes that fork, exec, grow, shrink and exit over one pool of       *)
(* pages, any of which kalloc may fail to give.                            *)
(*                                                                         *)
(* A step gets or gives back one page; what a process does to pages that   *)
(* only it can reach is part of the step before or after.  kalloc, kfree,  *)
(* fork, growproc, exit and wait (kalloc.c, proc.c) are not in the         *)
(* repository: of them the model has the calls to vm.c.  Kernel stacks,    *)
(* which allocproc gets from the same pool, are left out; the kernel's     *)
(* part of a directory is one page table.                                  *)
(***************************************************************************)
EXTENDS Integers, FiniteSets, Sequences

CONSTANTS Procs,     \* slots of the process table
          Pages,     \* what kalloc can give, numbered
          PerTable,  \* PTEs of a page table
          UserTables,\* page tables below KERNBASE
          PgSize,    \* PGSIZE
          Contents,  \* what a segment may load into a page
          Programs,  \* what exec may be given: sequences of segments
          Grows,     \* arguments of sbrk
          None,      \* 0, as an address of a page
          Junk,      \* what kfree leaves in a page
          Zero,      \* a page of zeros
          Args       \* a stack page with the arguments of exec

Pdes == 0..UserTables    \* slots of a page directory, the last of the kernel

Ptes == 0..(PerTable - 1)

UserPages == 0..(UserTables * PerTable - 1)

KernBase == UserTables * PerTable * PgSize

PgRoundUp(x) == (x + PgSize - 1) \div PgSize

(* A present PTE, and a program header. *)
Entries == [pg : Pages, user : BOOLEAN]

Segments == [vaddr : Nat, memsz : Nat, filesz : Nat, data : Contents]

(* userinit takes four pages before anything runs. *)
ASSUME AddressSpaceAssumption ==
    /\ 1..4 \subseteq Pages /\ Pages \subseteq Nat
    /\ PerTable \in Nat \ {0} /\ UserTables \in Nat \ {0} /\ PgSize \in Nat \ {0}
    /\ Programs \subseteq Seq(Segments)
    /\ Grows \subseteq Int
    /\ None \notin Pages \cup Entries

VARIABLES free,    \* the free list of kalloc
          page,    \* what each page contains: a directory, a table, data
          pgdir,   \* p->pgdir
          sz,      \* p->sz
          pc, op,  \* where a process stands, in which call
          child,   \* the process fork makes
          segs,    \* the program headers exec has still to load
          prog,    \* the program it was given
          d,       \* the page directory under construction or to be freed
          lo, hi,  \* the sizes between which pages are got or given back
          a,       \* the page of user addresses the loop has come to
          mem      \* the page just got and not mapped yet

memory == <<free, page>>
image == <<pgdir, sz>>
loop == <<lo, hi, a>>
vars == <<memory, image, pc, op, child, segs, prog, d, loop, mem>>

EmptyDir == [s \in Pdes |-> None]

EmptyTable == [t \in Ptes |-> None]

Pte(pg, u) == [pg |-> pg, user |-> u]

(* userinit: setupkvm and inituvm made the image of the first process, of  *)
(* one page.                                                               *)
Init ==
    /\ free = Pages \ (1..4)
    /\ page = [g \in Pages |->
                 CASE g = 1 -> [s \in Pdes |-> CASE s = UserTables -> 2
                                                 [] s = 0 -> 3
                                                 [] OTHER -> None]
                   [] g = 2 -> EmptyTable
                   [] g = 3 -> [t \in Ptes |-> IF t = 0 THEN Pte(4, TRUE) ELSE None]
                   [] g = 4 -> Zero
                   [] OTHER -> Junk]
    /\ \E first \in Procs :
          /\ pgdir = [p \in Procs |-> IF p = first THEN 1 ELSE None]
          /\ sz = [p \in Procs |-> IF p = first THEN PgSize ELSE 0]
          /\ pc = [p \in Procs |-> IF p = first THEN "user" ELSE "unused"]
    /\ op = [p \in Procs |-> "none"]
    /\ child = [p \in Procs |-> p]
    /\ segs = [p \in Procs |-> <<>>]
    /\ prog = [p \in Procs |-> <<>>]
    /\ d = [p \in Procs |-> None]
    /\ lo = [p \in Procs |-> 0]
    /\ hi = [p \in Procs |-> 0]
    /\ a = [p \in Procs |-> 0]
    /\ mem = [p \in Procs |-> None]

-----------------------------------------------------------------------------
(* kalloc takes a page from the free list; which one makes no difference   *)
(* to the code, so the model takes the first.                              *)
First(g) == g \in free /\ \A h \in free : g <= h

(* walkpgdir: the entry of page v of the addresses, or None.               *)
Table(dir, v) == page[dir][v \div PerTable]

Walk(dir, v) ==
    IF Table(dir, v) = None THEN None ELSE page[Table(dir, v)][v % PerTable]

Mapped(dir) == {v \in UserPages : Walk(dir, v) # None}

Goto(p, s) == pc' = [pc EXCEPT ![p] = s]

(* The call is over; a fork that failed gives the child's slot back.       *)
Return(p) ==
    /\ pc' = [pc EXCEPT ![p] = "user",
                        ![child[p]] = IF child[p] # p THEN "unused" ELSE "user"]
    /\ op' = [op EXCEPT ![p] = "none"]
    /\ child' = [child EXCEPT ![p] = p]
    /\ prog' = [prog EXCEPT ![p] = <<>>]
    /\ segs' = [segs EXCEPT ![p] = <<>>]
    /\ lo' = [lo EXCEPT ![p] = 0]
    /\ hi' = [hi EXCEPT ![p] = 0]
    /\ a' = [a EXCEPT ![p] = 0]

call == <<op, child, prog, segs>>

-----------------------------------------------------------------------------
(* The calls *)

(* The first page that allocuvm adds to oldsz bytes.  (Mutation: the page  *)
(* the size lies in, which is there already.)                              *)
AllocFromDown(oldsz) == oldsz \div PgSize

AllocFrom(oldsz) == PgRoundUp(oldsz)

(* fork: allocproc, then copyuvm from 0 to p->sz. *)
Fork(p, q) ==
    /\ pc[p] = "user" /\ pc[q] = "unused"
    /\ pc' = [pc EXCEPT ![p] = "kvmdir", ![q] = "embryo"]
    /\ op' = [op EXCEPT ![p] = "fork"]
    /\ child' = [child EXCEPT ![p] = q]
    /\ hi' = [hi EXCEPT ![p] = sz[p]]
    /\ a' = [a EXCEPT ![p] = 0]
    /\ UNCHANGED <<memory, image, segs, prog, d, lo, mem>>

(* exec has found an ELF header; otherwise it returns with nothing done.   *)
Exec(p, s) ==
    /\ pc[p] = "user"
    /\ Goto(p, "kvmdir")
    /\ op' = [op EXCEPT ![p] = "exec"]
    /\ prog' = [prog EXCEPT ![p] = s]
    /\ segs' = [segs EXCEPT ![p] = s]
    /\ lo' = [lo EXCEPT ![p] = 0]
    /\ UNCHANGED <<memory, image, child, d, hi, a, mem>>

(* growproc: sbrk of a positive or negative number of bytes. *)
Grow(p, n) ==
    /\ pc[p] = "user"
    /\ n > 0
    /\ sz[p] + n < KernBase
    /\ Goto(p, "alloc")
    /\ op' = [op EXCEPT ![p] = "grow"]
    /\ lo' = [lo EXCEPT ![p] = sz[p]]
    /\ hi' = [hi EXCEPT ![p] = sz[p] + n]
    /\ a' = [a EXCEPT ![p] = AllocFrom(sz[p])]
    /\ d' = [d EXCEPT ![p] = pgdir[p]]
    /\ UNCHANGED <<memory, image, child, segs, prog, mem>>

Shrink(p, n) ==
    /\ pc[p] = "user"
    /\ n < 0
    /\ sz[p] + n > 0
    /\ Goto(p, "dealloc")
    /\ op' = [op EXCEPT ![p] = "shrink"]
    /\ lo' = [lo EXCEPT ![p] = sz[p] + n]
    /\ hi' = [hi EXCEPT ![p] = sz[p]]
    /\ d' = [d EXCEPT ![p] = pgdir[p]]
    /\ UNCHANGED <<memory, image, child, segs, prog, a, mem>>

(* exit, and wait of the parent, which frees the image; the first process  *)
(* never exits, so there is always another one.                            *)
Exit(p) ==
    /\ pc[p] = "user"
    /\ \E q \in Procs \ {p} : pgdir[q] # None
    /\ Goto(p, "freevm")
    /\ op' = [op EXCEPT ![p] = "exit"]
    /\ d' = [d EXCEPT ![p] = pgdir[p]]
    /\ pgdir' = [pgdir EXCEPT ![p] = None]
    /\ sz' = [sz EXCEPT ![p] = 0]
    /\ UNCHANGED <<memory, child, segs, prog, loop, mem>>

-----------------------------------------------------------------------------
(* setupkvm *)

KvmDir(p) ==
    /\ pc[p] = "kvmdir"
    /\ \/ \E g \in Pages :
             /\ First(g)
             /\ free' = free \ {g}
             /\ page' = [page EXCEPT ![g] = EmptyDir]
             /\ d' = [d EXCEPT ![p] = g]
             /\ Goto(p, "kvmtable")
             /\ UNCHANGED <<call, loop>>
       \/ /\ free = {}
          /\ Return(p)
          /\ UNCHANGED <<memory, d>>
    /\ UNCHANGED <<image, mem>>

(* mappages of the kernel's part, which takes one table here. *)
KvmTable(p) ==
    /\ pc[p] = "kvmtable"
    /\ \/ \E g \in Pages :
             /\ First(g)
             /\ free' = free \ {g}
             /\ page' = [page EXCEPT ![g] = EmptyTable, ![d[p]][UserTables] = g]
             /\ Goto(p, IF op[p] = "fork" THEN "alloc" ELSE "segment")
       \/ /\ free = {}
          /\ Goto(p, "freevm")
          /\ UNCHANGED memory
    /\ UNCHANGED <<image, call, d, loop, mem>>

-----------------------------------------------------------------------------
(* The loops of allocuvm and copyuvm: one page after the other. *)

(* The page is there: zeroed, or a copy of the parent's. *)
Fill(p) ==
    IF op[p] = "fork" THEN page[Walk(pgdir[p], a[p]).pg] ELSE Zero

(* The user bit: copyuvm takes over the parent's, the guard page of the    *)
(* stack has it cleared.  (Mutation: copyuvm sets it like allocuvm.)       *)
FlagsAnew(p) == TRUE

Flags(p) == op[p] = "fork" => Walk(pgdir[p], a[p]).user

(* copyuvm's panics: page not present. *)
CopyPanics(p) == op[p] = "fork" /\ a[p] \notin Mapped(pgdir[p])

(* Where a failure leads: copyuvm frees the directory it builds, allocuvm  *)
(* calls deallocuvm.  (Mutation: allocuvm returns 0 at once.)              *)
FailsToReturn(p) == IF op[p] = "fork" THEN "freevm" ELSE "fail"

FailsTo(p) == IF op[p] = "fork" THEN "freevm" ELSE "dealloc"

GetPage(p) ==
    /\ pc[p] = "alloc"
    /\ a[p] * PgSize < hi[p]
    /\ IF CopyPanics(p)
       THEN Goto(p, "panic") /\ UNCHANGED <<memory, mem>>
       ELSE \/ /\ \E g \in Pages :
                     /\ First(g)
                     /\ free' = free \ {g}
                     /\ page' = [page EXCEPT ![g] = Fill(p)]
                     /\ mem' = [mem EXCEPT ![p] = g]
               /\ Goto(p, "map")
            \/ /\ free = {}
               /\ Goto(p, FailsTo(p))
               /\ UNCHANGED <<memory, mem>>
    /\ UNCHANGED <<image, call, d, loop>>

(* mappages of one page, whose table is there. *)
Map(p) ==
    /\ pc[p] = "map"
    /\ Table(d[p], a[p]) # None
    /\ page' = [page EXCEPT ![Table(d[p], a[p])][a[p] % PerTable] =
                   Pte(mem[p], Flags(p))]
    /\ mem' = [mem EXCEPT ![p] = None]
    /\ a' = [a EXCEPT ![p] = @ + 1]
    /\ Goto(p, IF Walk(d[p], a[p]) # None THEN "panic" ELSE "alloc")
    /\ UNCHANGED <<free, image, call, d, lo, hi>>

(* mappages whose walkpgdir has to allocate the table first. *)
MapTable(p) ==
    /\ pc[p] = "map"
    /\ Table(d[p], a[p]) = None
    /\ \/ \E g \in Pages :
             /\ First(g)
             /\ free' = free \ {g}
             /\ page' = [page EXCEPT
                           ![g] = [EmptyTable EXCEPT
                                     ![a[p] % PerTable] = Pte(mem[p], Flags(p))],
                           ![d[p]][a[p] \div PerTable] = g]
             /\ mem' = [mem EXCEPT ![p] = None]
             /\ a' = [a EXCEPT ![p] = @ + 1]
             /\ Goto(p, "alloc")
       \/ /\ free = {}
          /\ Goto(p, IF op[p] = "fork" THEN "drop" ELSE "dealloc")
          /\ UNCHANGED <<memory, mem, a>>
    /\ UNCHANGED <<image, call, d, lo, hi>>

(* The size is reached: allocuvm returns newsz, copyuvm the directory.     *)
ForkDone(p) ==
    /\ pc[p] = "alloc" /\ op[p] = "fork"
    /\ a[p] * PgSize >= hi[p]
    /\ pgdir' = [pgdir EXCEPT ![child[p]] = d[p]]
    /\ sz' = [sz EXCEPT ![child[p]] = sz[p]]
    /\ pc' = [pc EXCEPT ![p] = "user", ![child[p]] = "user"]
    /\ op' = [op EXCEPT ![p] = "none"]
    /\ child' = [child EXCEPT ![p] = p]
    /\ d' = [d EXCEPT ![p] = None]
    /\ hi' = [hi EXCEPT ![p] = 0]
    /\ a' = [a EXCEPT ![p] = 0]
    /\ UNCHANGED <<memory, segs, prog, lo, mem>>

GrowDone(p) ==
    /\ pc[p] = "alloc" /\ op[p] = "grow"
    /\ a[p] * PgSize >= hi[p]
    /\ sz' = [sz EXCEPT ![p] = hi[p]]
    /\ d' = [d EXCEPT ![p] = None]
    /\ Return(p)
    /\ UNCHANGED <<memory, pgdir, mem>>

-----------------------------------------------------------------------------
(* deallocuvm, from PGROUNDUP(newsz) up to oldsz *)
ToFree(p) ==
    {v \in Mapped(d[p]) : PgRoundUp(lo[p]) <= v /\ v * PgSize < hi[p]}

GivePage(p, v) ==
    /\ free' = free \cup {Walk(d[p], v).pg}
    /\ page' = [page EXCEPT ![Walk(d[p], v).pg] = Junk,
                            ![Table(d[p], v)][v % PerTable] = None]

Dealloc(p) ==
    /\ pc[p] = "dealloc"
    /\ \E v \in ToFree(p) : (\A w \in ToFree(p) : v <= w) /\ GivePage(p, v)
    /\ UNCHANGED <<image, pc, call, d, loop, mem>>

(* It is over: in sbrk of a negative size, or after allocuvm has failed,   *)
(* with a page in its hands or not.                                        *)
ShrinkDone(p) ==
    /\ pc[p] = "dealloc" /\ op[p] = "shrink"
    /\ ToFree(p) = {}
    /\ sz' = [sz EXCEPT ![p] = lo[p]]
    /\ d' = [d EXCEPT ![p] = None]
    /\ Return(p)
    /\ UNCHANGED <<memory, pgdir, mem>>

AllocFailedLeaks(p) ==    \* a mutation: kfree(mem) is forgotten
    /\ pc[p] = "dealloc" /\ op[p] \in {"grow", "exec"}
    /\ ToFree(p) = {}
    /\ mem' = [mem EXCEPT ![p] = None]
    /\ Goto(p, "fail")
    /\ UNCHANGED <<memory, image, call, d, loop>>

AllocFailed(p) ==
    /\ pc[p] = "dealloc" /\ op[p] \in {"grow", "exec"}
    /\ ToFree(p) = {}
    /\ Goto(p, IF mem[p] # None THEN "drop" ELSE "fail")
    /\ UNCHANGED <<memory, image, call, d, loop, mem>>

(* kfree(mem) *)
Drop(p) ==
    /\ pc[p] = "drop"
    /\ free' = free \cup {mem[p]}
    /\ page' = [page EXCEPT ![mem[p]] = Junk]
    /\ mem' = [mem EXCEPT ![p] = None]
    /\ Goto(p, "fail")
    /\ UNCHANGED <<image, call, d, loop>>

(* The caller is told: sbrk returns -1, exec and copyuvm free what they    *)
(* have built.                                                             *)
Fail(p) ==
    /\ pc[p] = "fail"
    /\ \/ /\ op[p] = "grow"
          /\ d' = [d EXCEPT ![p] = None]
          /\ Return(p)
       \/ /\ op[p] # "grow"
          /\ Goto(p, "freevm")
          /\ UNCHANGED <<call, loop, d>>
    /\ UNCHANGED <<memory, image, mem>>

-----------------------------------------------------------------------------
(* freevm: the user pages, the tables, the directory. *)
FreePage(p) ==
    /\ pc[p] = "freevm"
    /\ \E v \in Mapped(d[p]) : (\A w \in Mapped(d[p]) : v <= w) /\ GivePage(p, v)
    /\ UNCHANGED <<image, pc, call, d, loop, mem>>

Used(dir) == {s \in Pdes : page[dir][s] # None}

(* The directory still holds the address of the table it gives back.       *)
FreeTable(p) ==
    /\ pc[p] = "freevm"
    /\ Mapped(d[p]) = {}
    /\ \E s \in Used(d[p]) :
          /\ \A r \in Used(d[p]) : s <= r
          /\ free' = free \cup {page[d[p]][s]}
          /\ page' = [page EXCEPT ![page[d[p]][s]] = Junk, ![d[p]][s] = None]
    /\ UNCHANGED <<image, pc, call, d, loop, mem>>

FreeDir(p) ==
    /\ pc[p] = "freevm"
    /\ Used(d[p]) = {}
    /\ free' = free \cup {d[p]}
    /\ page' = [page EXCEPT ![d[p]] = Junk]
    /\ d' = [d EXCEPT ![p] = None]
    /\ IF op[p] = "exit"
       THEN /\ Goto(p, "unused")
            /\ op' = [op EXCEPT ![p] = "none"]
            /\ UNCHANGED <<child, segs, prog, loop>>
       ELSE Return(p)
    /\ UNCHANGED <<image, mem>>

-----------------------------------------------------------------------------
(* exec *)

(* The next program header, and its tests; lo is sz of exec. *)
Segment(p) ==
    /\ pc[p] = "segment"
    /\ segs[p] # <<>>
    /\ LET s == Head(segs[p])
           end == s.vaddr + s.memsz
       IN  \/ /\ s.memsz < s.filesz \/ end >= KernBase
              /\ Goto(p, "freevm")
              /\ UNCHANGED loop
           \/ /\ s.memsz >= s.filesz /\ end < KernBase
              /\ lo[p] <= end
              /\ hi' = [hi EXCEPT ![p] = end]
              /\ a' = [a EXCEPT ![p] = AllocFrom(lo[p])]
              /\ Goto(p, "alloc")
              /\ UNCHANGED lo
           \/ /\ s.memsz >= s.filesz
              /\ lo[p] > end
              /\ Goto(p, "load")
              /\ UNCHANGED loop
    /\ UNCHANGED <<memory, image, call, d, mem>>

(* allocuvm returned: a size of 0 is taken for a failure. *)
SegmentDone(p) ==
    /\ pc[p] = "alloc" /\ op[p] = "exec" /\ segs[p] # <<>>
    /\ a[p] * PgSize >= hi[p]
    /\ lo' = [lo EXCEPT ![p] = hi[p]]
    /\ Goto(p, IF hi[p] = 0 THEN "freevm" ELSE "load")
    /\ UNCHANGED <<memory, image, call, d, hi, a, mem>>

(* loaduvm: the file part of the segment is read into its pages, or the    *)
(* file is too short.                                                      *)
Loaded(s) == {v \in UserPages : s.vaddr <= v * PgSize /\ v * PgSize < s.vaddr + s.filesz}

LoadPanics(p, s) == ~(Loaded(s) \subseteq Mapped(d[p]))

Load(p) ==
    /\ pc[p] = "load"
    /\ LET s == Head(segs[p])
       IN  \/ /\ s.vaddr % PgSize = 0
              /\ IF LoadPanics(p, s)
                 THEN Goto(p, "panic") /\ UNCHANGED page
                 ELSE /\ page' = [g \in Pages |->
                                    IF \E v \in Loaded(s) : Walk(d[p], v).pg = g
                                    THEN s.data ELSE page[g]]
                      /\ Goto(p, "segment")
              /\ segs' = [segs EXCEPT ![p] = Tail(@)]
           \/ /\ Goto(p, "freevm")
              /\ UNCHANGED <<page, segs>>
    /\ UNCHANGED <<free, image, op, child, prog, d, loop, mem>>

(* Two pages more, the guard page and the stack. *)
Stack(p) ==
    /\ pc[p] = "segment"
    /\ segs[p] = <<>>
    /\ LET top == PgRoundUp(lo[p]) * PgSize
       IN  IF top + 2 * PgSize >= KernBase
           THEN Goto(p, "freevm") /\ UNCHANGED loop
           ELSE /\ lo' = [lo EXCEPT ![p] = top]
                /\ hi' = [hi EXCEPT ![p] = top + 2 * PgSize]
                /\ a' = [a EXCEPT ![p] = AllocFrom(top)]
                /\ Goto(p, "alloc")
    /\ UNCHANGED <<memory, image, call, d, mem>>

(* clearpteu of the guard page. *)
Guard(p) ==
    /\ pc[p] = "alloc" /\ op[p] = "exec" /\ segs[p] = <<>>
    /\ a[p] * PgSize >= hi[p]
    /\ LET v == a[p] - 2
       IN  page' = [page EXCEPT ![Table(d[p], v)][v % PerTable].user = FALSE]
    /\ Goto(p, "args")
    /\ UNCHANGED <<free, image, call, d, loop, mem>>

(* copyout of the arguments and of ustack, through the user bit of the     *)
(* page; they do not fit into it, or are too many.                         *)
PushArgs(p) ==
    /\ pc[p] = "args"
    /\ \/ LET stack == Walk(d[p], a[p] - 1)
          IN  /\ stack.user
              /\ page' = [page EXCEPT ![stack.pg] = Args]
              /\ Goto(p, "commit")
       \/ /\ Goto(p, "freevm")
          /\ UNCHANGED page
    /\ UNCHANGED <<free, image, call, d, loop, mem>>

(* Commit: the old image is the one to free now. *)
Commit(p) ==
    /\ pc[p] = "commit"
    /\ pgdir' = [pgdir EXCEPT ![p] = d[p]]
    /\ sz' = [sz EXCEPT ![p] = hi[p]]
    /\ d' = [d EXCEPT ![p] = pgdir[p]]
    /\ Goto(p, "freevm")
    /\ UNCHANGED <<memory, call, loop, mem>>

-----------------------------------------------------------------------------
Call(p) ==
    \/ \E q \in Procs : Fork(p, q)
    \/ \E s \in Programs : Exec(p, s)
    \/ \E n \in Grows : Grow(p, n) \/ Shrink(p, n)
    \/ Exit(p)

Setupkvm(p) == KvmDir(p) \/ KvmTable(p)

Allocuvm(p) == GetPage(p) \/ Map(p) \/ MapTable(p) \/ ForkDone(p) \/ GrowDone(p)

Deallocuvm(p) ==
    \/ Dealloc(p)
    \/ ShrinkDone(p)
    \/ AllocFailed(p)
    \/ Drop(p)
    \/ Fail(p)

Freevm(p) == FreePage(p) \/ FreeTable(p) \/ FreeDir(p)

ExecStep(p) ==
    \/ Segment(p)
    \/ SegmentDone(p)
    \/ Load(p)
    \/ Stack(p)
    \/ Guard(p)
    \/ PushArgs(p)
    \/ Commit(p)

Next ==
    \E p \in Procs :
        Call(p) \/ Setupkvm(p) \/ Allocuvm(p) \/ Deallocuvm(p) \/ Freevm(p) \/ ExecStep(p)

Spec == Init /\ [][Next]_vars

-----------------------------------------------------------------------------
(* Properties *)

Dirs == ({pgdir[p] : p \in Procs} \cup {d[p] : p \in Procs}) \ {None}

Tables == {page[dir][s] : dir \in Dirs, s \in Pdes} \ {None}

(* Everything that refers to a page: the free list, a process's directory, *)
(* a directory or a page in somebody's hands, an entry of a directory, an  *)
(* entry of a table.                                                       *)
Places(g) ==
    (IF g \in free THEN {<<"free", None>>} ELSE {})
      \cup {<<"pgdir", p>> : p \in {p \in Procs : pgdir[p] = g}}
      \cup {<<"d", p>> : p \in {p \in Procs : d[p] = g /\ pgdir[p] # g}}
      \cup {<<"mem", p>> : p \in {p \in Procs : mem[p] = g}}
      \cup {<<"pde", e>> : e \in {e \in Dirs \X Pdes : page[e[1]][e[2]] = g}}
      \cup {<<"pte", e>> : e \in {e \in Tables \X Ptes :
                 page[e[1]][e[2]] # None /\ page[e[1]][e[2]].pg = g}}

(* Whatever fails and whenever, every page has one owner: none is lost and *)
(* none is shared or given back while it is in use.                        *)
PagesOwnedOnce == \A g \in Pages : Cardinality(Places(g)) = 1

(* A process in user mode has the pages below its size and no other, so    *)
(* that copyuvm finds all it looks for and a failed sbrk leaves nothing.   *)
SizeMapped ==
    \A p \in Procs : pc[p] = "user" =>
        Mapped(pgdir[p]) = {v \in UserPages : v * PgSize < sz[p]}

(* What a process sees: the data of its pages, and whether it may use them.*)
Seen(dir, v) == <<page[Walk(dir, v).pg], Walk(dir, v).user>>

Image(p) == [v \in Mapped(pgdir[p]) |-> Seen(pgdir[p], v)]

(* The image exec promises for a program: its segments, the last one to    *)
(* load a page wins, then a page nobody may use and the stack.             *)
Limit(s) == s.vaddr + s.memsz

Top(s) ==
    PgRoundUp(CHOOSE e \in {Limit(s[k]) : k \in DOMAIN s} \cup {0} :
                 \A k \in DOMAIN s : Limit(s[k]) <= e)

Loads(s, n, v) == {k \in 1..n : v \in Loaded(s[k])}

Latest(S) == CHOOSE k \in S : \A j \in S : j <= k

Content(s, n, v) ==
    IF Loads(s, n, v) = {} THEN Zero ELSE s[Latest(Loads(s, n, v))].data

ExecImage(s) ==
    [v \in 0..(Top(s) + 1) |->
        <<IF v > Top(s) THEN Args ELSE Content(s, Len(s), v), v # Top(s)>>]

(* The pages below n bytes are the same before and after a step. *)
KeepsBelow(p, n) ==
    \A v \in UserPages : v * PgSize < n =>
        v \in DOMAIN Image(p) /\ v \in DOMAIN Image(p)' /\ Image(p)'[v] = Image(p)[v]

AddsZeros(p) ==
    \A v \in DOMAIN Image(p)' \ DOMAIN Image(p) : Image(p)'[v] = <<Zero, TRUE>>

(* A process finds its image as it left it, whatever fails in its own call *)
(* or in another's: only a whole exec replaces it, sbrk touches nothing    *)
(* below the smaller size, and a child starts with a copy of the parent's. *)
ImageStep(p) ==
    /\ pgdir[p] # None /\ pgdir'[p] # None =>
          \/ Image(p)' = Image(p)
          \/ op[p] = "exec" /\ Image(p)' = ExecImage(prog[p])
          \/ op[p] = "grow" /\ KeepsBelow(p, sz[p]) /\ AddsZeros(p)
          \/ op[p] = "shrink" /\ KeepsBelow(p, lo[p])
    /\ pgdir[p] = None /\ pgdir'[p] # None =>
          \E q \in Procs \ {p} : child[q] = p /\ Image(p)' = Image(q)

ImagesKept == [][\A p \in Procs : ImageStep(p)]_vars

Codes == {"unused", "embryo", "user", "kvmdir", "kvmtable", "alloc", "map",
          "dealloc", "drop", "fail", "freevm", "segment", "load", "args", "commit",
          "panic"}

(* Types of the variables that are not pages, and no process panics: no    *)
(* page is mapped over another, and none that is needed is missing.        *)
TypeOK ==
    /\ free \subseteq Pages
    /\ pgdir \in [Procs -> Pages \cup {None}]
    /\ sz \in [Procs -> 0..KernBase]
    /\ pc \in [Procs -> Codes \ {"panic"}]
    /\ op \in [Procs -> {"none", "fork", "exec", "grow", "shrink", "exit"}]
    /\ child \in [Procs -> Procs]
    /\ d \in [Procs -> Pages \cup {None}]
    /\ lo \in [Procs -> 0..KernBase] /\ hi \in [Procs -> 0..KernBase]
    /\ a \in [Procs -> 0..(UserTables * PerTable)]
    /\ mem \in [Procs -> Pages \cup {None}]

-----------------------------------------------------------------------------
(* What the properties rest on: that each page is in one of five places,   *)
Leaves ==
    {g \in Pages : \E t \in Tables, k \in Ptes : page[t][k] # None /\ page[t][k].pg = g}

Hands == {mem[p] : p \in Procs} \ {None}

PagesApart ==
    /\ Pages = free \cup Dirs \cup Tables \cup Leaves \cup Hands
    /\ free \cap (Dirs \cup Tables \cup Leaves \cup Hands) = {}
    /\ Dirs \cap (Tables \cup Leaves \cup Hands) = {}
    /\ Tables \cap (Leaves \cup Hands) = {}
    /\ Leaves \cap Hands = {}

(* and there once;                                                         *)
Roots(p) == {pgdir[p], d[p]} \ {None}

RootsOnce == \A p, q \in Procs : Roots(p) \cap Roots(q) # {} => p = q

TablesOnce ==
    \A e, f \in Dirs, s, r \in Pdes :
        page[e][s] # None /\ page[e][s] = page[f][r] => e = f /\ s = r

LeavesOnce ==
    \A t, u \in Tables, k, l \in Ptes :
        page[t][k] # None /\ page[u][l] # None /\ page[t][k].pg = page[u][l].pg
           => t = u /\ k = l

HandsOnce == \A p, q \in Procs : mem[p] # None /\ mem[p] = mem[q] => p = q

PlacedOnce == RootsOnce /\ TablesOnce /\ LeavesOnce /\ HandsOnce

(* what directories and tables contain, nothing in the kernel's table;     *)
PageTypes ==
    /\ DOMAIN page = Pages
    /\ \A e \in Dirs : page[e] \in [Pdes -> Pages \cup {None}]
    /\ \A t \in Tables : page[t] \in [Ptes -> Entries \cup {None}]
    /\ \A e \in Dirs : page[e][UserTables] # None => page[page[e][UserTables]] = EmptyTable

(* what a process has in hand at each place of its calls,                  *)
CallFits(p) ==
    /\ op[p] = "none" <=> pc[p] \in {"unused", "embryo", "user"}
    /\ pc[p] \in {"kvmdir", "kvmtable"} => op[p] \in {"fork", "exec"}
    /\ pc[p] \in {"alloc", "map", "drop", "fail"} => op[p] \in {"fork", "exec", "grow"}
    /\ pc[p] = "dealloc" => op[p] \in {"grow", "exec", "shrink"}
    /\ pc[p] = "freevm" => op[p] \in {"fork", "exec", "exit"}
    /\ pc[p] \in {"segment", "load", "args", "commit"} => op[p] = "exec"
    /\ IF op[p] = "fork" THEN child[p] # p /\ pc[child[p]] = "embryo" ELSE child[p] = p
    /\ pc[p] \in {"map", "drop"} => mem[p] # None
    /\ mem[p] # None => pc[p] \in {"map", "drop", "dealloc"} /\ op[p] # "shrink"
    /\ d[p] = None <=> pc[p] \in {"unused", "embryo", "user", "kvmdir"}
    /\ pgdir[p] = None <=> pc[p] \in {"unused", "embryo"} \/ op[p] = "exit"
    /\ op[p] \in {"grow", "shrink"} => d[p] = pgdir[p]
    /\ op[p] \in {"fork", "exec"} => d[p] # pgdir[p]

CallsFit ==
    /\ segs \in [Procs -> Seq(Segments)]
    /\ \A p \in Procs : CallFits(p)
    /\ \A p, q \in Procs :
          op[p] = "fork" /\ op[q] = "fork" /\ child[p] = child[q] => p = q

(* and how far its loop over the pages has got.                            *)
Below(n) == {v \in UserPages : v * PgSize < n}

Upto(k) == {v \in UserPages : v < k}

Looping(p) == pc[p] \in {"alloc", "map"}

LoopFits(p) ==
    /\ Looping(p) => Mapped(d[p]) = Upto(a[p]) /\ a[p] <= PgRoundUp(hi[p])
    /\ pc[p] = "map" => a[p] * PgSize < hi[p]
    /\ op[p] = "fork" => hi[p] = sz[p]
    /\ op[p] = "fork" /\ pc[p] \in {"kvmdir", "kvmtable"} => a[p] = 0
    /\ op[p] = "grow" => lo[p] = sz[p] /\ lo[p] <= hi[p]
    /\ op[p] = "shrink" => lo[p] <= hi[p] /\ hi[p] = sz[p]
    /\ op[p] = "grow" /\ Looping(p) => PgRoundUp(lo[p]) <= a[p]
    /\ pc[p] = "dealloc" /\ op[p] # "exec" =>
          Below(lo[p]) \subseteq Mapped(d[p]) /\ Mapped(d[p]) \subseteq Below(hi[p])
    /\ pgdir[p] # None /\ (op[p] \notin {"grow", "shrink"} \/ pc[p] \in {"drop", "fail"}) =>
          Mapped(pgdir[p]) = Below(sz[p])

(* For exec: what is there of the image when the next segment comes.       *)
End(p) == Limit(Head(segs[p]))

ExecFits(p) ==
    /\ pc[p] = "kvmtable" => page[d[p]] = EmptyDir
    /\ op[p] = "exec" /\ pc[p] \in {"kvmdir", "kvmtable"} => lo[p] = 0
    /\ pc[p] \in {"segment", "load"} => Mapped(d[p]) = Below(lo[p])
    /\ pc[p] = "load" => segs[p] # <<>> /\ End(p) <= lo[p]
    /\ pc[p] = "load" \/ (op[p] = "exec" /\ Looping(p) /\ segs[p] # <<>>) =>
          Head(segs[p]).filesz <= Head(segs[p]).memsz
    /\ op[p] = "exec" /\ Looping(p) =>
          IF segs[p] # <<>> THEN hi[p] = End(p) ELSE hi[p] >= 2 * PgSize
    /\ pc[p] \in {"args", "commit"} => Mapped(d[p]) = Below(hi[p]) /\ a[p] = PgRoundUp(hi[p])
    /\ pc[p] \in {"args", "commit"} => hi[p] >= 2 * PgSize

SpaceInv ==
    /\ TypeOK
    /\ PagesApart
    /\ PlacedOnce
    /\ PageTypes
    /\ CallsFit
    /\ \A p \in Procs : LoopFits(p) /\ ExecFits(p)

-----------------------------------------------------------------------------
(* What ImagesKept rests on: what an image under construction contains.    *)

(* How many segments exec has loaded, and what is known of them.           *)
Done(p) == Len(prog[p]) - Len(segs[p])

Building(p) ==
    /\ op[p] = "exec"
    /\ pc[p] \in {"kvmdir", "kvmtable", "segment", "load", "alloc", "map", "args", "commit"}

Stacking(p) == pc[p] \in {"args", "commit"} \/ (Looping(p) /\ segs[p] = <<>>)

ProgramFits(p) ==
    /\ Len(segs[p]) <= Len(prog[p])
    /\ \A i \in 1..Len(segs[p]) : segs[p][i] = prog[p][Done(p) + i]
    /\ \A j \in 1..Done(p) :
          prog[p][j].filesz <= prog[p][j].memsz /\ Limit(prog[p][j]) <= lo[p]
    /\ IF Stacking(p)
       THEN /\ segs[p] = <<>> /\ Top(prog[p]) \in Nat
            /\ lo[p] = Top(prog[p]) * PgSize /\ hi[p] = lo[p] + 2 * PgSize
       ELSE \/ lo[p] = 0
            \/ pc[p] = "load" /\ lo[p] = End(p)
            \/ \E j \in 1..Done(p) : lo[p] = Limit(prog[p][j])
    /\ Looping(p) => lo[p] <= hi[p] /\ PgRoundUp(lo[p]) <= a[p]

ImageFits(p) ==
    /\ pc[p] = "map" => page[mem[p]] = Fill(p)
    /\ op[p] = "fork" /\ Looping(p) =>
          \A v \in Mapped(d[p]) : Seen(d[p], v) = Seen(pgdir[p], v)
    /\ op[p] = "exec" /\ (Looping(p) \/ pc[p] \in {"segment", "load"}) =>
          \A v \in Mapped(d[p]) : Seen(d[p], v) = <<Content(prog[p], Done(p), v), TRUE>>
    /\ pc[p] = "args" =>
          \A v \in Mapped(d[p]) :
             Seen(d[p], v) = <<Content(prog[p], Len(prog[p]), v), v # Top(prog[p])>>
    /\ pc[p] = "commit" =>
          \A v \in Mapped(d[p]) : Seen(d[p], v) = ExecImage(prog[p])[v]

ImageInv ==
    /\ SpaceInv
    /\ prog \in [Procs -> Seq(Segments)]
    /\ \A p \in Procs : ImageFits(p) /\ (Building(p) => ProgramFits(p))
=============================================================================

--------------------------- MODULE MCAddressSpace ---------------------------
(* Two processes and eleven pages: two images of the smallest program fit, *)
(* two of the largest do not, so kalloc fails at every place of every call.*)
(* The processes are interchangeable, and no liveness is checked.          *)
EXTENDS AddressSpace, TLC

CONSTANTS Text, Data

Seg(vaddr, memsz, filesz, data) ==
    [vaddr |-> vaddr, memsz |-> memsz, filesz |-> filesz, data |-> data]

(* One page; two segments of which the second has a bss; one whose second  *)
(* segment lies below the first; one whose header is wrong.                *)
MCPrograms ==
    {<<Seg(0, 1, 1, Text)>>,
     <<Seg(0, 2, 2, Text), Seg(2, 3, 1, Data)>>,
     <<Seg(2, 1, 1, Text), Seg(0, 1, 1, Data)>>,
     <<Seg(0, 1, 2, Text)>>}

Symmetry == Permutations(Procs)

(* Which page is which is forgotten: a directory is seen as the tree that  *)
(* hangs from it.  That tells states apart as long as no page hangs in two *)
(* places, which the view therefore says as well.                          *)
Leaf(e) == IF e = None THEN None ELSE <<page[e.pg], e.user>>

Tree(dir) ==
    IF dir = None THEN None
    ELSE [s \in Pdes |-> IF page[dir][s] = None THEN None
                         ELSE [t \in Ptes |-> Leaf(page[page[dir][s]][t])]]

View ==
    <<pc, op, child, segs, prog, loop, sz, Cardinality(free), PagesOwnedOnce,
      [p \in Procs |-> <<Tree(pgdir[p]), d[p] = pgdir[p], Tree(d[p]),
                         IF mem[p] = None THEN None ELSE page[mem[p]]>>]>>

MCGrows == {-1, 3}
=============================================================================

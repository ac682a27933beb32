-------------------------- MODULE AddressSpaceProofs --------------------------
(***************************************************************************)
(* SpaceInv is an invariant of AddressSpace, for any number of processes   *)
(* and pages and any sizes of pages, tables and directories: every page    *)
(* has one owner, a process in user mode has the pages below its size, and *)
(* no process panics.                                                      *)
(***************************************************************************)
EXTENDS AddressSpace, FiniteSetTheorems, TLAPS

-----------------------------------------------------------------------------
(* Numbers of pages *)

LEMMA Sizes ==
    /\ PerTable \in Nat \ {0} /\ UserTables \in Nat \ {0} /\ PgSize \in Nat \ {0}
    /\ PerTable > 0 /\ UserTables > 0 /\ PgSize > 0
    /\ KernBase \in Nat /\ UserTables * PerTable \in Nat
    /\ KernBase = (UserTables * PerTable) * PgSize
<1>1. PerTable \in Nat \ {0} /\ UserTables \in Nat \ {0} /\ PgSize \in Nat \ {0}
  BY AddressSpaceAssumption
<1>2. \A x, y \in Nat : x * y \in Nat
  OBVIOUS
<1> QED
  BY <1>1, <1>2 DEF KernBase

LEMMA Division ==
    ASSUME NEW P \in Nat \ {0}, NEW x \in Nat
    PROVE  /\ x \div P \in Nat
           /\ x % P \in 0..(P - 1)
           /\ x = P * (x \div P) + (x % P)
  OBVIOUS

LEMMA DivisionUnique ==
    ASSUME NEW P \in Nat \ {0}, NEW q \in Nat, NEW r \in 0..(P - 1)
    PROVE  (P * q + r) % P = r /\ (P * q + r) \div P = q
  OBVIOUS

(* Multiples of P keep the order of the factors. *)
LEMMA TimesMonotone ==
    ASSUME NEW P \in Nat \ {0}, NEW x \in Int, NEW y \in Int
    PROVE  x * P < y * P <=> x < y
<1>1. CASE x < y
  <2>1. (y - x) * P >= P
    BY <1>1
  <2> QED
    BY <1>1, <2>1
<1>2. CASE x >= y
  <2>1. (x - y) * P >= 0
    BY <1>2
  <2> QED
    BY <1>2, <2>1
<1> QED
  BY <1>1, <1>2

(* PGROUNDUP(n) / PGSIZE is the first page that does not begin below n.    *)
LEMMA RoundUp ==
    ASSUME NEW n \in Nat
    PROVE  /\ PgRoundUp(n) \in Nat
           /\ \A v \in Nat : v * PgSize < n <=> v < PgRoundUp(n)
<1> DEFINE m == n + PgSize - 1
           q == m \div PgSize
           r == m % PgSize
<1>1. m \in Nat /\ q \in Nat /\ r \in 0..(PgSize - 1) /\ m = PgSize * q + r
  BY Sizes, Division
<1>2. PgRoundUp(n) = q
  BY DEF PgRoundUp
<1>3. n = q * PgSize + r - PgSize + 1
  BY <1>1, Sizes
<1> HIDE DEF m, q, r
<1>4. ASSUME NEW v \in Nat PROVE v * PgSize < n <=> v < q
  <2>1. CASE v < q
    <3>1. (q - v) * PgSize >= PgSize
      BY <1>1, <2>1, Sizes
    <3> QED
      BY <1>1, <1>3, <2>1, <3>1, Sizes
  <2>2. CASE v >= q
    <3>1. (v - q) * PgSize >= 0
      BY <1>1, <2>2, Sizes
    <3> QED
      BY <1>1, <1>3, <2>2, <3>1, Sizes
  <2> QED
    BY <1>1, <2>1, <2>2
<1> QED
  BY <1>1, <1>2, <1>4

LEMMA RoundUpMonotone ==
    ASSUME NEW m \in Nat, NEW n \in Nat, m <= n
    PROVE  PgRoundUp(m) <= PgRoundUp(n)
<1>1. PgRoundUp(m) \in Nat /\ PgRoundUp(n) \in Nat
  BY RoundUp
<1> SUFFICES ASSUME PgRoundUp(n) < PgRoundUp(m) PROVE FALSE
  BY <1>1
<1>2. PgRoundUp(n) * PgSize < m
  BY <1>1, RoundUp
<1>3. ~(PgRoundUp(n) * PgSize < n)
  BY <1>1, RoundUp
<1>4. PgRoundUp(n) * PgSize \in Nat
  BY <1>1, Sizes
<1> QED
  BY <1>2, <1>3, <1>4

LEMMA RoundUpExact ==
    ASSUME NEW k \in Nat
    PROVE  PgRoundUp(k * PgSize) = k
<1>1. k * PgSize \in Nat
  BY Sizes
<1>2. PgRoundUp(k * PgSize) \in Nat
  BY <1>1, RoundUp
<1>3. \A v \in Nat : v < k <=> v < PgRoundUp(k * PgSize)
  BY <1>1, RoundUp, TimesMonotone, Sizes
<1> QED
  BY <1>2, <1>3

LEMMA RoundUpLimit ==
    ASSUME NEW n \in 0..KernBase
    PROVE  PgRoundUp(n) \in 0..(UserTables * PerTable)
<1>1. PgRoundUp(n) \in Nat /\ PgRoundUp(n) <= PgRoundUp(KernBase)
  BY RoundUp, RoundUpMonotone, Sizes
<1>2. PgRoundUp(KernBase) = UserTables * PerTable
  BY RoundUpExact, Sizes
<1> QED
  BY <1>1, <1>2, Sizes

LEMMA BelowRoundUp ==
    ASSUME NEW n \in Nat
    PROVE  Below(n) = Upto(PgRoundUp(n))
<1>1. UserPages \subseteq Nat
  BY Sizes DEF UserPages
<1> QED
  BY <1>1, RoundUp DEF Below, Upto

LEMMA BelowMonotone ==
    ASSUME NEW m \in Nat, NEW n \in Nat, m <= n
    PROVE  Below(m) \subseteq Below(n)
<1>1. ASSUME NEW v \in UserPages, NEW y \in Nat, y = v * PgSize, y < m PROVE y < n
  BY <1>1
<1>2. \A v \in UserPages : v * PgSize \in Nat
  BY Sizes DEF UserPages
<1> QED
  BY <1>1, <1>2 DEF Below

(* A page of user addresses is one PTE of one user table. *)
LEMMA Slots ==
    ASSUME NEW v \in UserPages
    PROVE  /\ v \div PerTable \in Pdes /\ v \div PerTable \in 0..(UserTables - 1)
           /\ v \div PerTable # UserTables
           /\ v % PerTable \in Ptes
           /\ v = PerTable * (v \div PerTable) + (v % PerTable)
<1> DEFINE q == v \div PerTable
           r == v % PerTable
<1>1. v \in Nat /\ q \in Nat /\ r \in 0..(PerTable - 1) /\ v = PerTable * q + r
  BY Sizes, Division DEF UserPages
<1>2. v < UserTables * PerTable
  BY Sizes DEF UserPages
<1> HIDE DEF q, r
<1>3. q * PerTable < UserTables * PerTable
  BY <1>1, <1>2, Sizes
<1>4. q < UserTables
  BY <1>1, <1>3, TimesMonotone, Sizes
<1>5. q \in Pdes /\ q \in 0..(UserTables - 1) /\ q # UserTables /\ r \in Ptes
  BY <1>1, <1>4, Sizes DEF Pdes, Ptes
<1> QED
  BY <1>1, <1>5 DEF q, r

LEMMA SlotsApart ==
    ASSUME NEW v \in UserPages, NEW w \in UserPages,
           v \div PerTable = w \div PerTable, v % PerTable = w % PerTable
    PROVE  v = w
<1> DEFINE q == v \div PerTable
           r == v % PerTable
<1>1. v = PerTable * q + r
  BY Slots
<1>2. w = PerTable * (w \div PerTable) + (w % PerTable)
  BY Slots
<1>3. w = PerTable * q + r
  BY <1>2
<1> HIDE DEF q, r
<1> QED
  BY <1>1, <1>3

LEMMA PageOfSlot ==
    ASSUME NEW s \in 0..(UserTables - 1), NEW k \in Ptes
    PROVE  \E v \in UserPages : v \div PerTable = s /\ v % PerTable = k
<1>1. (PerTable * s + k) \div PerTable = s /\ (PerTable * s + k) % PerTable = k
  BY DivisionUnique, Sizes DEF Ptes
<1>2. PerTable * s + k \in Nat
  BY Sizes DEF Ptes
<1>3. (UserTables - s) * PerTable >= PerTable
  BY Sizes
<1>4. PerTable * s + k < UserTables * PerTable
  BY <1>2, <1>3, Sizes DEF Ptes
<1> QED
  BY <1>1, <1>2, <1>4, Sizes DEF UserPages

-----------------------------------------------------------------------------
(* Pages and their places *)

MemTypes ==
    /\ free \subseteq Pages
    /\ pgdir \in [Procs -> Pages \cup {None}]
    /\ d \in [Procs -> Pages \cup {None}]
    /\ mem \in [Procs -> Pages \cup {None}]

MemInv == MemTypes /\ PagesApart /\ PlacedOnce /\ PageTypes

LEMMA MemParts ==
    ASSUME MemInv
    PROVE  /\ MemTypes /\ PagesApart /\ PageTypes
           /\ RootsOnce /\ TablesOnce /\ LeavesOnce /\ HandsOnce
BY DEF MemInv, PlacedOnce

LEMMA MemPartsNext ==
    ASSUME MemTypes', PagesApart', PageTypes', RootsOnce', TablesOnce', LeavesOnce', HandsOnce'
    PROVE  MemInv'
BY DEF MemInv, PlacedOnce

LEMMA NoneApart == None \notin Pages /\ None \notin Entries
BY AddressSpaceAssumption

LEMMA DirOf ==
    ASSUME NEW e
    PROVE  e \in Dirs <=> e # None /\ \E q \in Procs : e \in Roots(q)
BY DEF Dirs, Roots

LEMMA DirOfNext ==
    ASSUME NEW e
    PROVE  e \in Dirs' <=> e # None /\ \E q \in Procs : e \in Roots(q)'
BY DEF Dirs, Roots

LEMMA TableOf ==
    ASSUME NEW t
    PROVE  t \in Tables <=> t # None /\ \E e \in Dirs, s \in Pdes : t = page[e][s]
BY DEF Tables

LEMMA TableOfNext ==
    ASSUME NEW t
    PROVE  t \in Tables' <=> t # None /\ \E e \in Dirs', s \in Pdes : t = page'[e][s]
BY DEF Tables

LEMMA LeafOf ==
    ASSUME NEW g
    PROVE  g \in Leaves <=> g \in Pages /\ \E t \in Tables, k \in Ptes :
                                             page[t][k] # None /\ page[t][k].pg = g
BY DEF Leaves

LEMMA LeafOfNext ==
    ASSUME NEW g
    PROVE  g \in Leaves' <=> g \in Pages /\ \E t \in Tables', k \in Ptes :
                                             page'[t][k] # None /\ page'[t][k].pg = g
BY DEF Leaves

LEMMA HandOf ==
    ASSUME NEW g
    PROVE  g \in Hands <=> g # None /\ \E q \in Procs : mem[q] = g
BY DEF Hands

LEMMA HandOfNext ==
    ASSUME NEW g
    PROVE  g \in Hands' <=> g # None /\ \E q \in Procs : mem'[q] = g
BY DEF Hands

(* What the contents of a directory and of a table are. *)
LEMMA DirContents ==
    ASSUME MemInv, NEW e \in Dirs, NEW s \in Pdes
    PROVE  /\ e \in Pages
           /\ page[e][s] \in Pages \cup {None}
           /\ page[e][s] # None => page[e][s] \in Tables
<1>1. page[e] \in [Pdes -> Pages \cup {None}]
  BY DEF MemInv, PageTypes
<1> QED
  BY <1>1, TableOf DEF MemInv, PagesApart

LEMMA TableContents ==
    ASSUME MemInv, NEW t \in Tables, NEW k \in Ptes
    PROVE  /\ t \in Pages
           /\ page[t][k] \in Entries \cup {None}
           /\ page[t][k] # None => page[t][k].pg \in Leaves /\ page[t][k].pg \in Pages
<1>1. page[t] \in [Ptes -> Entries \cup {None}]
  BY DEF MemInv, PageTypes
<1>2. page[t][k] # None => page[t][k].pg \in Pages
  BY <1>1 DEF Entries
<1> QED
  BY <1>1, <1>2, LeafOf DEF MemInv, PagesApart

(* The directory e and its tables stay as they are. *)
TreeKept(e) ==
    /\ page'[e] = page[e]
    /\ \A s \in Pdes : page[e][s] # None => page'[page[e][s]] = page[page[e][s]]

(* setupkvm gets a directory. *)
LEMMA DirMade ==
    ASSUME MemInv, NEW p \in Procs, NEW g \in free, d[p] = None, pgdir[p] # g,
           free' = free \ {g},
           page' = [page EXCEPT ![g] = EmptyDir],
           d' = [d EXCEPT ![p] = g],
           pgdir' = pgdir, mem' = mem
    PROVE  MemInv' /\ \A e \in Dirs : TreeKept(e)
<1>1. g \in Pages /\ g # None /\ g \notin Dirs /\ g \notin Tables /\ g \notin Leaves /\ g \notin Hands
  BY NoneApart DEF MemInv, MemTypes, PagesApart
<1>2. DOMAIN page = Pages /\ DOMAIN page' = Pages
  BY DEF MemInv, PageTypes
<1>3. /\ page'[g] = EmptyDir
      /\ \A h \in Pages : h # g => page'[h] = page[h]
  BY <1>1, <1>2
<1>4. MemTypes'
  BY <1>1 DEF MemInv, MemTypes
<1>5. /\ \A q \in Procs \ {p} : Roots(q)' = Roots(q)
      /\ Roots(p)' = Roots(p) \cup {g}
  BY <1>1 DEF Roots, MemInv, MemTypes
<1>6. Dirs' = Dirs \cup {g}
  BY <1>1, <1>5, DirOf, DirOfNext
<1>7. \A e \in Dirs : e \in Pages /\ page'[e] = page[e]
  BY <1>1, <1>3 DEF MemInv, PagesApart
<1>8. \A s \in Pdes : page'[g][s] = None
  BY <1>3 DEF EmptyDir
<1>9. Tables' = Tables
  <2>1. ASSUME NEW t PROVE t \in Tables' <=> t \in Tables
    BY <1>1, <1>6, <1>7, <1>8, TableOf, TableOfNext
  <2> QED
    BY <2>1
<1>10. \A t \in Tables : t \in Pages /\ page'[t] = page[t]
  BY <1>1, <1>3 DEF MemInv, PagesApart
<1>11. Leaves' = Leaves
  <2>1. ASSUME NEW h PROVE h \in Leaves' <=> h \in Leaves
    BY <1>9, <1>10, LeafOf, LeafOfNext
  <2> QED
    BY <2>1
<1>12. Hands' = Hands
  BY DEF Hands
<1>13. PagesApart'
  BY <1>1, <1>6, <1>9, <1>11, <1>12 DEF MemInv, PagesApart
<1>14. PlacedOnce'
  <2>1. RootsOnce'
    <3>1. \A q \in Procs : g \notin Roots(q)
      BY <1>1, DirOf
    <3> QED
      BY <1>5, <3>1, MemParts DEF RootsOnce
  <2>2. TablesOnce'
    BY <1>6, <1>7, <1>8, MemParts DEF TablesOnce
  <2>3. LeavesOnce'
    BY <1>9, <1>10, MemParts DEF LeavesOnce
  <2>4. HandsOnce'
    BY MemParts DEF HandsOnce
  <2> QED
    BY <2>1, <2>2, <2>3, <2>4 DEF PlacedOnce
<1>15. PageTypes'
  <2>1. EmptyDir \in [Pdes -> Pages \cup {None}]
    BY DEF EmptyDir
  <2>2. UserTables \in Pdes
    BY Sizes DEF Pdes
  <2>3. \A e \in Dirs' : page'[e] \in [Pdes -> Pages \cup {None}]
    BY <1>3, <1>6, <1>7, <2>1 DEF MemInv, PageTypes
  <2>4. \A t \in Tables' : page'[t] \in [Ptes -> Entries \cup {None}]
    BY <1>9, <1>10 DEF MemInv, PageTypes
  <2>5. ASSUME NEW e \in Dirs', page'[e][UserTables] # None
        PROVE  page'[page'[e][UserTables]] = EmptyTable
    <3>1. e \in Dirs /\ page'[e] = page[e]
      BY <1>6, <1>7, <1>8, <2>2, <2>5
    <3>2. page[e][UserTables] \in Tables
      BY <2>2, <2>5, <3>1, DirContents
    <3> QED
      BY <1>10, <2>5, <3>1, <3>2 DEF MemInv, PageTypes
  <2> QED
    BY <1>2, <2>3, <2>4, <2>5 DEF PageTypes
<1>16. \A e \in Dirs : TreeKept(e)
  BY <1>7, <1>10, DirContents DEF TreeKept
<1> QED
  BY <1>4, <1>13, <1>14, <1>15, <1>16 DEF MemInv

(* A step that touches nothing but the tree of x leaves the others alone.  *)
LEMMA OthersKept ==
    ASSUME MemInv, NEW x \in Dirs,
           \A h \in Dirs \cup Tables :
              page'[h] # page[h] => h = x \/ \E s \in Pdes : h = page[x][s]
    PROVE  \A e \in Dirs \ {x} : TreeKept(e)
<1> SUFFICES ASSUME NEW e \in Dirs \ {x} PROVE TreeKept(e)
  OBVIOUS
<1>1. e \notin Tables
  BY DEF MemInv, PagesApart
<1>2. \A s \in Pdes : page[x][s] # e
  BY <1>1, DirContents, NoneApart
<1>3. page'[e] = page[e]
  BY <1>2
<1>4. ASSUME NEW s \in Pdes, page[e][s] # None
      PROVE  page'[page[e][s]] = page[page[e][s]]
  <2>1. page[e][s] \in Tables /\ page[e][s] # x
    BY <1>4, DirContents DEF MemInv, PagesApart
  <2>2. \A r \in Pdes : page[e][s] # page[x][r]
    BY <1>4, MemParts DEF TablesOnce
  <2> QED
    BY <2>1, <2>2
<1> QED
  BY <1>3, <1>4 DEF TreeKept

(* A directory and its tables are apart. *)
LEMMA TreeApart ==
    ASSUME MemInv, NEW x \in Dirs, NEW s \in Pdes, page[x][s] # None
    PROVE  /\ page[x][s] \in Tables /\ page[x][s] \in Pages /\ page[x][s] # x
           /\ \A e \in Dirs, r \in Pdes : page[e][r] = page[x][s] => e = x /\ r = s
BY DirContents, MemParts DEF PagesApart, TablesOnce

(* setupkvm gets the kernel's table. *)
LEMMA TableMade ==
    ASSUME MemInv, NEW x \in Dirs, NEW g \in free, page[x] = EmptyDir,
           free' = free \ {g},
           DOMAIN page' = Pages,
           page'[g] = EmptyTable,
           page'[x] = [EmptyDir EXCEPT ![UserTables] = g],
           \A h \in Pages : h # g /\ h # x => page'[h] = page[h],
           d' = d, pgdir' = pgdir, mem' = mem
    PROVE  /\ MemInv'
           /\ \A e \in Dirs \ {x} : TreeKept(e)
           /\ \A s \in Pdes : page'[x][s] = IF s = UserTables THEN g ELSE None
<1>1. g \in Pages /\ g # None /\ g \notin Dirs /\ g \notin Tables /\ g \notin Leaves /\ g \notin Hands
  BY NoneApart DEF MemInv, MemTypes, PagesApart
<1>3. x \in Pages /\ x # g
  BY <1>1 DEF MemInv, PagesApart
<1>4. UserTables \in Pdes
  BY Sizes DEF Pdes
<1>6. \A s \in Pdes : page'[x][s] = IF s = UserTables THEN g ELSE None
  BY <1>4 DEF EmptyDir
<1>7. MemTypes'
  BY DEF MemInv, MemTypes
<1>8. Dirs' = Dirs /\ Hands' = Hands
  BY DEF Dirs, Hands
<1>9. \A e \in Dirs : e \in Pages /\ (e # x => page'[e] = page[e])
  BY <1>1 DEF MemInv, PagesApart
<1>10. \A s \in Pdes : page[x][s] = None
  BY DEF EmptyDir
<1>11. Tables' = Tables \cup {g}
  <2>1. ASSUME NEW t \in Tables' PROVE t \in Tables \cup {g}
    <3>1. PICK e \in Dirs, s \in Pdes : t # None /\ t = page'[e][s]
      BY <1>8, TableOfNext
    <3>2. CASE e = x
      BY <1>6, <3>1, <3>2
    <3>3. CASE e # x
      BY <1>9, <3>1, <3>3, TableOf
    <3> QED
      BY <3>2, <3>3
  <2>2. ASSUME NEW t \in Tables PROVE t \in Tables'
    <3>1. PICK e \in Dirs, s \in Pdes : t # None /\ t = page[e][s]
      BY TableOf
    <3>2. e # x
      BY <1>10, <3>1
    <3>3. t = page'[e][s]
      BY <1>9, <3>1, <3>2
    <3> QED
      BY <1>8, <3>1, <3>3, TableOfNext
  <2>3. g \in Tables'
    <3>1. page'[x][UserTables] = g
      BY <1>4, <1>6
    <3> QED
      BY <1>1, <1>4, <1>8, <3>1, TableOfNext
  <2> QED
    BY <2>1, <2>2, <2>3
<1>12. \A t \in Tables : t \in Pages /\ t # x /\ t # g /\ page'[t] = page[t]
  BY <1>1 DEF MemInv, PagesApart
<1>13. \A k \in Ptes : page'[g][k] = None
  BY DEF EmptyTable
<1>14. Leaves' = Leaves
  <2>1. ASSUME NEW h \in Leaves' PROVE h \in Leaves
    BY <1>11, <1>12, <1>13, LeafOf, LeafOfNext
  <2>2. ASSUME NEW h \in Leaves PROVE h \in Leaves'
    BY <1>11, <1>12, LeafOf, LeafOfNext
  <2> QED
    BY <2>1, <2>2
<1>15. PagesApart'
  BY <1>1, <1>8, <1>11, <1>14 DEF MemInv, PagesApart
<1>16. PlacedOnce'
  <2>1. RootsOnce'
    BY MemParts DEF RootsOnce, Roots
  <2>2. TablesOnce'
    <3> SUFFICES ASSUME NEW e \in Dirs, NEW f \in Dirs, NEW s \in Pdes, NEW r \in Pdes,
                        page'[e][s] # None, page'[e][s] = page'[f][r]
                 PROVE  e = f /\ s = r
      BY <1>8 DEF TablesOnce
    <3>1. \A h \in Dirs, i \in Pdes : h # x => page'[h][i] = page[h][i] /\ page'[h][i] # g
      <4> SUFFICES ASSUME NEW h \in Dirs, NEW i \in Pdes, h # x
                   PROVE  page'[h][i] = page[h][i] /\ page'[h][i] # g
        OBVIOUS
      <4>1. page'[h][i] = page[h][i]
        BY <1>9
      <4> QED
        BY <1>1, <4>1, DirContents
    <3>2. CASE e = x
      <4>1. s = UserTables /\ page'[e][s] = g
        BY <1>6, <3>2
      <4>2. f = x
        BY <3>1, <4>1
      <4> QED
        BY <1>6, <3>2, <4>1, <4>2
    <3>3. CASE e # x /\ f = x
      <4>1. page'[f][r] = g
        BY <1>6, <3>3
      <4> QED
        BY <3>1, <3>3, <4>1
    <3>4. CASE e # x /\ f # x
      BY <1>9, <3>4, MemParts DEF TablesOnce
    <3> QED
      BY <3>2, <3>3, <3>4
  <2>3. LeavesOnce'
    BY <1>11, <1>12, <1>13, MemParts DEF LeavesOnce
  <2>4. HandsOnce'
    BY MemParts DEF HandsOnce
  <2> QED
    BY <2>1, <2>2, <2>3, <2>4 DEF PlacedOnce
<1>17. PageTypes'
  <2>1. EmptyTable \in [Ptes -> Entries \cup {None}] /\ page[x] \in [Pdes -> Pages \cup {None}]
    BY DEF EmptyTable, MemInv, PageTypes
  <2>2. page'[x] \in [Pdes -> Pages \cup {None}]
    BY <1>1, <2>1
  <2>3. \A e \in Dirs' : page'[e] \in [Pdes -> Pages \cup {None}]
    BY <1>8, <1>9, <2>2 DEF MemInv, PageTypes
  <2>4. \A t \in Tables' : page'[t] \in [Ptes -> Entries \cup {None}]
    BY <1>11, <1>12, <2>1 DEF MemInv, PageTypes
  <2>5. ASSUME NEW e \in Dirs', page'[e][UserTables] # None
        PROVE  page'[page'[e][UserTables]] = EmptyTable
    <3>1. CASE e = x
      BY <1>4, <1>6, <3>1
    <3>2. CASE e # x
      <4>1. e \in Dirs /\ page'[e] = page[e]
        BY <1>8, <1>9, <3>2
      <4>2. page[e][UserTables] \in Tables
        BY <1>4, <2>5, <4>1, DirContents
      <4> QED
        BY <1>12, <2>5, <4>1, <4>2 DEF MemInv, PageTypes
    <3> QED
      BY <3>1, <3>2
  <2> QED
    BY <2>3, <2>4, <2>5 DEF PageTypes
<1>18. \A e \in Dirs \ {x} : TreeKept(e)
  <2>1. \A h \in Dirs \cup Tables : page'[h] # page[h] => h = x
    BY <1>9, <1>12
  <2> QED
    BY <2>1, OthersKept
<1> QED
  BY <1>6, <1>7, <1>15, <1>16, <1>17, <1>18 DEF MemInv

(* A page that kalloc gives to the loop. *)
LEMMA PageGot ==
    ASSUME MemInv, NEW p \in Procs, NEW g \in free, NEW c, mem[p] = None,
           free' = free \ {g},
           page' = [page EXCEPT ![g] = c],
           mem' = [mem EXCEPT ![p] = g],
           d' = d, pgdir' = pgdir
    PROVE  MemInv' /\ \A e \in Dirs : TreeKept(e)
<1>1. g \in Pages /\ g # None /\ g \notin Dirs /\ g \notin Tables /\ g \notin Leaves /\ g \notin Hands
  BY NoneApart DEF MemInv, MemTypes, PagesApart
<1>2. DOMAIN page = Pages /\ DOMAIN page' = Pages
  BY DEF MemInv, PageTypes
<1>3. \A h \in Pages : h # g => page'[h] = page[h]
  BY <1>1, <1>2
<1>4. MemTypes'
  BY <1>1 DEF MemInv, MemTypes
<1>5. Dirs' = Dirs
  BY DEF Dirs
<1>6. \A e \in Dirs \cup Tables : e \in Pages /\ e # g /\ page'[e] = page[e]
  BY <1>1, <1>3 DEF MemInv, PagesApart
<1>7. Tables' = Tables
  <2>1. ASSUME NEW t PROVE t \in Tables' <=> t \in Tables
    BY <1>5, <1>6, TableOf, TableOfNext
  <2> QED
    BY <2>1
<1>8. Leaves' = Leaves
  <2>1. ASSUME NEW h PROVE h \in Leaves' <=> h \in Leaves
    BY <1>6, <1>7, LeafOf, LeafOfNext
  <2> QED
    BY <2>1
<1>9. mem'[p] = g /\ \A q \in Procs : q # p => mem'[q] = mem[q]
  BY DEF MemInv, MemTypes
<1>10. Hands' = Hands \cup {g}
  <2>1. ASSUME NEW h PROVE h \in Hands' <=> h \in Hands \cup {g}
    BY <1>1, <1>9, HandOf, HandOfNext
  <2> QED
    BY <2>1
<1>11. PagesApart'
  BY <1>1, <1>5, <1>7, <1>8, <1>10 DEF MemInv, PagesApart
<1>12. PlacedOnce'
  <2>1. RootsOnce'
    BY MemParts DEF RootsOnce, Roots
  <2>2. TablesOnce'
    BY <1>5, <1>6, MemParts DEF TablesOnce
  <2>3. LeavesOnce'
    BY <1>6, <1>7, MemParts DEF LeavesOnce
  <2>4. HandsOnce'
    <3>1. \A q \in Procs : mem[q] # g
      BY <1>1, HandOf
    <3> QED
      BY <1>9, <3>1, MemParts DEF HandsOnce
  <2> QED
    BY <2>1, <2>2, <2>3, <2>4 DEF PlacedOnce
<1>13. PageTypes'
  <2>1. UserTables \in Pdes
    BY Sizes DEF Pdes
  <2>2. \A e \in Dirs : page[e][UserTables] # None => page[e][UserTables] \in Tables
    BY <2>1, DirContents
  <2> QED
    BY <1>2, <1>5, <1>6, <1>7, <2>2 DEF MemInv, PageTypes
<1>14. \A e \in Dirs : TreeKept(e)
  BY <1>6, DirContents DEF TreeKept
<1> QED
  BY <1>4, <1>11, <1>12, <1>13, <1>14 DEF MemInv

(* mappages puts a page into a table that is there. *)
LEMMA PageMapped ==
    ASSUME MemInv, NEW p \in Procs, NEW x \in Dirs, NEW s \in Pdes, NEW k \in Ptes,
           NEW u \in BOOLEAN, NEW t, NEW h,
           s # UserTables, t = page[x][s], t # None, page[t][k] = None,
           h = mem[p], h # None,
           free' = free,
           DOMAIN page' = Pages,
           page'[t] = [page[t] EXCEPT ![k] = Pte(h, u)],
           \A g \in Pages : g # t => page'[g] = page[g],
           \A q \in Procs : mem'[q] = IF q = p THEN None ELSE mem[q],
           mem' \in [Procs -> Pages \cup {None}],
           d' = d, pgdir' = pgdir
    PROVE  MemInv' /\ \A e \in Dirs \ {x} : TreeKept(e)
<1>1. h \in Pages /\ h \in Hands /\ h \notin Leaves
  BY HandOf, MemParts DEF MemTypes, PagesApart
<1>2. t \in Tables /\ t \in Pages /\ \A e \in Dirs, r \in Pdes : page[e][r] = t => e = x /\ r = s
  BY TreeApart
<1>3. Pte(h, u) \in Entries /\ Pte(h, u) # None /\ Pte(h, u).pg = h
  BY <1>1, NoneApart DEF Pte, Entries
<1>4. page[t] \in [Ptes -> Entries \cup {None}]
  BY <1>2, MemParts DEF PageTypes
<1>5. page'[t] \in [Ptes -> Entries \cup {None}]
  BY <1>3, <1>4
<1>6. \A l \in Ptes : page'[t][l] = IF l = k THEN Pte(h, u) ELSE page[t][l]
  BY <1>4
<1>7. MemTypes'
  BY MemParts DEF MemTypes
<1>8. Dirs' = Dirs
  BY DEF Dirs
<1>9. \A e \in Dirs : e \in Pages /\ e # t /\ page'[e] = page[e]
  BY <1>2, MemParts DEF PagesApart
<1>10. Tables' = Tables
  <2>1. ASSUME NEW v PROVE v \in Tables' <=> v \in Tables
    BY <1>8, <1>9, TableOf, TableOfNext
  <2> QED
    BY <2>1
<1>11. \A v \in Tables : v \in Pages /\ (v # t => page'[v] = page[v])
  BY MemParts DEF PagesApart
<1>12. Leaves' = Leaves \cup {h}
  <2>1. ASSUME NEW g \in Leaves' PROVE g \in Leaves \cup {h}
    <3>1. PICK v \in Tables, l \in Ptes : page'[v][l] # None /\ page'[v][l].pg = g
      BY <1>10, LeafOfNext
    <3>2. g \in Pages
      BY LeafOfNext
    <3>3. CASE v = t /\ l = k
      BY <1>3, <1>6, <3>1, <3>3
    <3>4. CASE v # t \/ l # k
      <4>1. page'[v][l] = page[v][l]
        BY <1>6, <1>11, <3>4
      <4> QED
        BY <3>1, <3>2, <4>1, LeafOf
    <3> QED
      BY <3>3, <3>4
  <2>2. ASSUME NEW g \in Leaves PROVE g \in Leaves'
    <3>1. PICK v \in Tables, l \in Ptes : page[v][l] # None /\ page[v][l].pg = g
      BY LeafOf
    <3>2. page'[v][l] = page[v][l]
      BY <1>6, <1>11, <3>1
    <3> QED
      BY <1>10, <3>1, <3>2, LeafOf, LeafOfNext
  <2>3. h \in Leaves'
    BY <1>1, <1>2, <1>3, <1>6, <1>10, LeafOfNext
  <2> QED
    BY <2>1, <2>2, <2>3
<1>13. Hands' = Hands \ {h}
  <2>1. \A q \in Procs : q # p => mem[q] # h
    BY MemParts DEF HandsOnce
  <2>2. ASSUME NEW g PROVE g \in Hands' <=> g \in Hands \ {h}
    BY <2>1, HandOf, HandOfNext
  <2> QED
    BY <2>2
<1>14. PagesApart'
  BY <1>1, <1>8, <1>10, <1>12, <1>13, MemParts DEF PagesApart
<1>15. RootsOnce'
  BY MemParts DEF RootsOnce, Roots
<1>16. TablesOnce'
  BY <1>8, <1>9, MemParts DEF TablesOnce
<1>17. LeavesOnce'
  <2> SUFFICES ASSUME NEW v \in Tables', NEW w \in Tables', NEW i \in Ptes, NEW j \in Ptes,
                      page'[v][i] # None, page'[w][j] # None, page'[v][i].pg = page'[w][j].pg
               PROVE  v = w /\ i = j
    BY DEF LeavesOnce
  <2>0. v \in Tables /\ w \in Tables
    BY <1>10
  <2>1. \A y \in Tables, z \in Ptes : page[y][z] # None => page[y][z].pg # h
    BY <1>1, TableContents
  <2>2. \A y \in Tables, z \in Ptes : ~(y = t /\ z = k) => page'[y][z] = page[y][z]
    <3> SUFFICES ASSUME NEW y \in Tables, NEW z \in Ptes, ~(y = t /\ z = k)
                 PROVE  page'[y][z] = page[y][z]
      OBVIOUS
    <3>1. CASE y = t
      BY <1>6, <3>1
    <3>2. CASE y # t
      BY <1>11, <3>2
    <3> QED
      BY <3>1, <3>2
  <2>3. page'[t][k].pg = h
    BY <1>3, <1>6
  <2>4. CASE ~(v = t /\ i = k) /\ ~(w = t /\ j = k)
    BY <2>0, <2>2, <2>4, MemParts DEF LeavesOnce
  <2>5. CASE v = t /\ i = k /\ ~(w = t /\ j = k)
    <3>1. page'[w][j] = page[w][j] /\ page'[v][i].pg = h
      BY <2>0, <2>2, <2>3, <2>5
    <3> QED
      BY <2>0, <2>1, <3>1
  <2>6. CASE w = t /\ j = k /\ ~(v = t /\ i = k)
    <3>1. page'[v][i] = page[v][i] /\ page'[w][j].pg = h
      BY <2>0, <2>2, <2>3, <2>6
    <3> QED
      BY <2>0, <2>1, <3>1
  <2> QED
    BY <2>4, <2>5, <2>6
<1>18. HandsOnce'
  BY MemParts DEF HandsOnce
<1>19. PageTypes'
  <2>1. \A e \in Dirs : page[e][UserTables] # None => page[e][UserTables] \in Tables /\ page[e][UserTables] # t
    BY <1>2, DirContents, Sizes DEF Pdes
  <2> QED
    BY <1>5, <1>8, <1>9, <1>10, <1>11, <2>1, MemParts DEF PageTypes
<1>20. \A e \in Dirs \ {x} : TreeKept(e)
  <2>1. \A g \in Dirs \cup Tables : page'[g] # page[g] => g = t
    BY <1>9, <1>11
  <2> QED
    BY <2>1, OthersKept
<1> QED
  BY <1>7, <1>14, <1>15, <1>16, <1>17, <1>18, <1>19, <1>20, MemPartsNext

(* mappages puts a page into a table that walkpgdir has just got. *)
LEMMA TableMapped ==
    ASSUME MemInv, NEW p \in Procs, NEW x \in Dirs, NEW s \in Pdes, NEW k \in Ptes,
           NEW u \in BOOLEAN, NEW t \in free, NEW h,
           s # UserTables, page[x][s] = None,
           h = mem[p], h # None,
           free' = free \ {t},
           DOMAIN page' = Pages,
           page'[t] = [EmptyTable EXCEPT ![k] = Pte(h, u)],
           page'[x] = [page[x] EXCEPT ![s] = t],
           \A g \in Pages : g # t /\ g # x => page'[g] = page[g],
           \A q \in Procs : mem'[q] = IF q = p THEN None ELSE mem[q],
           mem' \in [Procs -> Pages \cup {None}],
           d' = d, pgdir' = pgdir
    PROVE  MemInv' /\ \A e \in Dirs \ {x} : TreeKept(e)
<1>1. h \in Pages /\ h \in Hands /\ h \notin Leaves
  BY HandOf, MemParts DEF MemTypes, PagesApart
<1>2. t \in Pages /\ t # None /\ t \notin Dirs /\ t \notin Tables /\ t \notin Leaves /\ t \notin Hands
  BY NoneApart, MemParts DEF MemTypes, PagesApart
<1>3. Pte(h, u) \in Entries /\ Pte(h, u) # None /\ Pte(h, u).pg = h
  BY <1>1, NoneApart DEF Pte, Entries
<1>4. EmptyTable \in [Ptes -> Entries \cup {None}]
  BY DEF EmptyTable
<1>5. page'[t] \in [Ptes -> Entries \cup {None}]
  BY <1>3, <1>4
<1>6. \A l \in Ptes : page'[t][l] = IF l = k THEN Pte(h, u) ELSE None
  BY DEF EmptyTable
<1>7. MemTypes'
  BY MemParts DEF MemTypes
<1>8. Dirs' = Dirs
  BY DEF Dirs
<1>9. \A e \in Dirs : e \in Pages /\ (e # x => page'[e] = page[e])
  BY <1>2, MemParts DEF PagesApart
<1>10. page[x] \in [Pdes -> Pages \cup {None}]
  BY MemParts DEF PageTypes
<1>11. page'[x] \in [Pdes -> Pages \cup {None}]
  BY <1>2, <1>10
<1>12. \A r \in Pdes : page'[x][r] = IF r = s THEN t ELSE page[x][r]
  BY <1>10
<1>13. Tables' = Tables \cup {t}
  <2>1. ASSUME NEW v \in Tables' PROVE v \in Tables \cup {t}
    <3>1. PICK e \in Dirs, r \in Pdes : v # None /\ v = page'[e][r]
      BY <1>8, TableOfNext
    <3>2. CASE e = x
      BY <1>12, <3>1, <3>2, TableOf
    <3>3. CASE e # x
      BY <1>9, <3>1, <3>3, TableOf
    <3> QED
      BY <3>2, <3>3
  <2>2. ASSUME NEW v \in Tables PROVE v \in Tables'
    <3>1. PICK e \in Dirs, r \in Pdes : v # None /\ v = page[e][r]
      BY TableOf
    <3>2. page'[e][r] = page[e][r]
      BY <1>9, <1>12, <3>1
    <3> QED
      BY <1>8, <3>1, <3>2, TableOfNext
  <2>3. t \in Tables'
    BY <1>2, <1>8, <1>12, TableOfNext
  <2> QED
    BY <2>1, <2>2, <2>3
<1>14. \A v \in Tables : v \in Pages /\ v # t /\ v # x /\ page'[v] = page[v]
  BY <1>2, MemParts DEF PagesApart
<1>15. Leaves' = Leaves \cup {h}
  <2>1. ASSUME NEW g \in Leaves' PROVE g \in Leaves \cup {h}
    <3>1. PICK v \in Tables \cup {t}, l \in Ptes : page'[v][l] # None /\ page'[v][l].pg = g
      BY <1>13, LeafOfNext
    <3>2. g \in Pages
      BY LeafOfNext
    <3>3. CASE v = t
      BY <1>3, <1>6, <3>1, <3>3
    <3>4. CASE v # t
      BY <1>14, <3>1, <3>2, <3>4, LeafOf
    <3> QED
      BY <3>3, <3>4
  <2>2. ASSUME NEW g \in Leaves PROVE g \in Leaves'
    <3>1. PICK v \in Tables, l \in Ptes : page[v][l] # None /\ page[v][l].pg = g
      BY LeafOf
    <3> QED
      BY <1>13, <1>14, <3>1, LeafOf, LeafOfNext
  <2>3. h \in Leaves'
    <3>1. page'[t][k] # None /\ page'[t][k].pg = h
      BY <1>3, <1>6
    <3> QED
      BY <1>1, <1>13, <3>1, LeafOfNext
  <2> QED
    BY <2>1, <2>2, <2>3
<1>16. Hands' = Hands \ {h}
  <2>1. \A q \in Procs : q # p => mem[q] # h
    BY MemParts DEF HandsOnce
  <2>2. ASSUME NEW g PROVE g \in Hands' <=> g \in Hands \ {h}
    BY <2>1, HandOf, HandOfNext
  <2> QED
    BY <2>2
<1>17. PagesApart'
  BY <1>1, <1>2, <1>8, <1>13, <1>15, <1>16, MemParts DEF PagesApart
<1>18. RootsOnce'
  BY MemParts DEF RootsOnce, Roots
<1>19. TablesOnce'
  <2> SUFFICES ASSUME NEW e \in Dirs, NEW f \in Dirs, NEW q \in Pdes, NEW r \in Pdes,
                      page'[e][q] # None, page'[e][q] = page'[f][r]
               PROVE  e = f /\ q = r
    BY <1>8 DEF TablesOnce
  <2>1. \A y \in Dirs, z \in Pdes : page[y][z] # t
    BY <1>2, DirContents
  <2>2. \A y \in Dirs, z \in Pdes : ~(y = x /\ z = s) => page'[y][z] = page[y][z]
    BY <1>9, <1>12
  <2>3. page'[x][s] = t
    BY <1>12
  <2>4. CASE ~(e = x /\ q = s) /\ ~(f = x /\ r = s)
    BY <2>2, <2>4, MemParts DEF TablesOnce
  <2>5. CASE e = x /\ q = s /\ ~(f = x /\ r = s)
    BY <2>1, <2>2, <2>3, <2>5
  <2>6. CASE f = x /\ r = s /\ ~(e = x /\ q = s)
    BY <2>1, <2>2, <2>3, <2>6
  <2> QED
    BY <2>4, <2>5, <2>6
<1>20. LeavesOnce'
  <2> SUFFICES ASSUME NEW v \in Tables \cup {t}, NEW w \in Tables \cup {t},
                      NEW i \in Ptes, NEW j \in Ptes,
                      page'[v][i] # None, page'[w][j] # None, page'[v][i].pg = page'[w][j].pg
               PROVE  v = w /\ i = j
    BY <1>13 DEF LeavesOnce
  <2>1. \A y \in Tables, z \in Ptes : page[y][z] # None => page[y][z].pg # h
    BY <1>1, TableContents
  <2>2. CASE v # t /\ w # t
    BY <1>14, <2>2, MemParts DEF LeavesOnce
  <2>3. CASE v = t /\ w # t
    <3>1. page'[w][j] = page[w][j] /\ w \in Tables /\ page'[v][i].pg = h
      BY <1>3, <1>6, <1>14, <2>3
    <3> QED
      BY <2>1, <3>1
  <2>4. CASE v # t /\ w = t
    <3>1. page'[v][i] = page[v][i] /\ v \in Tables /\ page'[w][j].pg = h
      BY <1>3, <1>6, <1>14, <2>4
    <3> QED
      BY <2>1, <3>1
  <2>5. CASE v = t /\ w = t
    BY <1>6, <2>5
  <2> QED
    BY <2>2, <2>3, <2>4, <2>5
<1>21. HandsOnce'
  BY MemParts DEF HandsOnce
<1>22. PageTypes'
  <2>1. UserTables \in Pdes
    BY Sizes DEF Pdes
  <2>2. \A e \in Dirs : page[e][UserTables] # None => page[e][UserTables] \in Tables
    BY <2>1, DirContents
  <2>3. \A e \in Dirs : page'[e][UserTables] = page[e][UserTables]
    BY <1>9, <1>12, <2>1
  <2>4. \A e \in Dirs' : page'[e] \in [Pdes -> Pages \cup {None}]
    BY <1>8, <1>9, <1>11, MemParts DEF PageTypes
  <2>5. \A v \in Tables' : page'[v] \in [Ptes -> Entries \cup {None}]
    BY <1>5, <1>13, <1>14, MemParts DEF PageTypes
  <2>6. \A e \in Dirs' : page'[e][UserTables] # None => page'[page'[e][UserTables]] = EmptyTable
    BY <1>8, <1>14, <2>2, <2>3, MemParts DEF PageTypes
  <2> QED
    BY <2>4, <2>5, <2>6 DEF PageTypes
<1>23. \A e \in Dirs \ {x} : TreeKept(e)
  <2>1. \A g \in Dirs \cup Tables : page'[g] # page[g] => g = x
    BY <1>9, <1>14
  <2> QED
    BY <2>1, OthersKept
<1> QED
  BY <1>7, <1>17, <1>18, <1>19, <1>20, <1>21, <1>22, <1>23, MemPartsNext

(* deallocuvm and freevm give a page back and clear its entry. *)
LEMMA PageGiven ==
    ASSUME MemInv, NEW x \in Dirs, NEW s \in Pdes, NEW k \in Ptes, NEW t, NEW h,
           t = page[x][s], t # None, page[t][k] # None, h = page[t][k].pg,
           free' = free \cup {h},
           DOMAIN page' = Pages,
           page'[t] = [page[t] EXCEPT ![k] = None],
           \A g \in Pages : g # t /\ g # h => page'[g] = page[g],
           mem' = mem, d' = d, pgdir' = pgdir
    PROVE  MemInv' /\ \A e \in Dirs \ {x} : TreeKept(e)
<1>1. t \in Tables /\ t \in Pages /\ \A e \in Dirs, r \in Pdes : page[e][r] = t => e = x /\ r = s
  BY TreeApart
<1>2. h \in Pages /\ h \in Leaves /\ h \notin Dirs /\ h \notin Tables
  BY <1>1, TableContents, MemParts DEF PagesApart
<1>3. s # UserTables
  BY MemParts DEF PageTypes, EmptyTable
<1>4. page[t] \in [Ptes -> Entries \cup {None}]
  BY <1>1, MemParts DEF PageTypes
<1>5. page'[t] \in [Ptes -> Entries \cup {None}]
  BY <1>4
<1>6. \A l \in Ptes : page'[t][l] = IF l = k THEN None ELSE page[t][l]
  BY <1>4
<1>7. MemTypes'
  BY <1>2, MemParts DEF MemTypes
<1>8. Dirs' = Dirs /\ Hands' = Hands
  BY DEF Dirs, Hands
<1>9. \A e \in Dirs : e \in Pages /\ e # t /\ page'[e] = page[e]
  BY <1>1, <1>2, MemParts DEF PagesApart
<1>10. Tables' = Tables
  <2>1. ASSUME NEW v PROVE v \in Tables' <=> v \in Tables
    BY <1>8, <1>9, TableOf, TableOfNext
  <2> QED
    BY <2>1
<1>11. \A v \in Tables : v \in Pages /\ (v # t => page'[v] = page[v])
  BY <1>2, MemParts DEF PagesApart
<1>12. \A y \in Tables, z \in Ptes :
          page'[y][z] = IF y = t /\ z = k THEN None ELSE page[y][z]
  BY <1>6, <1>11
<1>13. Leaves' = Leaves \ {h}
  <2>1. ASSUME NEW g \in Leaves' PROVE g \in Leaves \ {h}
    <3>1. PICK v \in Tables, l \in Ptes : page'[v][l] # None /\ page'[v][l].pg = g
      BY <1>10, LeafOfNext
    <3>2. page[v][l] # None /\ page[v][l].pg = g /\ ~(v = t /\ l = k)
      BY <1>12, <3>1
    <3>3. g # h
      BY <1>1, <3>2, MemParts DEF LeavesOnce
    <3> QED
      BY <3>2, <3>3, LeafOf, LeafOfNext
  <2>2. ASSUME NEW g \in Leaves \ {h} PROVE g \in Leaves'
    <3>1. PICK v \in Tables, l \in Ptes : page[v][l] # None /\ page[v][l].pg = g
      BY LeafOf
    <3>2. ~(v = t /\ l = k)
      BY <3>1
    <3>3. page'[v][l] = page[v][l]
      BY <1>12, <3>2, Zenon
    <3> QED
      BY <1>10, <3>1, <3>3, LeafOf, LeafOfNext
  <2> QED
    BY <2>1, <2>2
<1>14. PagesApart'
  BY <1>2, <1>8, <1>10, <1>13, MemParts DEF PagesApart
<1>15. RootsOnce'
  BY MemParts DEF RootsOnce, Roots
<1>16. TablesOnce'
  BY <1>8, <1>9, MemParts DEF TablesOnce
<1>17. LeavesOnce'
  BY <1>10, <1>12, MemParts DEF LeavesOnce
<1>18. HandsOnce'
  BY MemParts DEF HandsOnce
<1>19. PageTypes'
  <2>1. \A e \in Dirs : page[e][UserTables] # None => page[e][UserTables] \in Tables /\ page[e][UserTables] # t
    BY <1>1, <1>3, DirContents, Sizes DEF Pdes
  <2> QED
    BY <1>5, <1>8, <1>9, <1>10, <1>11, <2>1, MemParts DEF PageTypes
<1>20. \A e \in Dirs \ {x} : TreeKept(e)
  <2>1. \A g \in Dirs \cup Tables : page'[g] # page[g] => g = t
    BY <1>9, <1>11
  <2> QED
    BY <2>1, OthersKept
<1> QED
  BY <1>7, <1>14, <1>15, <1>16, <1>17, <1>18, <1>19, <1>20, MemPartsNext

(* freevm gives a table back that maps nothing any more. *)
LEMMA TableGiven ==
    ASSUME MemInv, NEW x \in Dirs, NEW s \in Pdes, NEW t,
           t = page[x][s], t # None, \A k \in Ptes : page[t][k] = None,
           free' = free \cup {t},
           DOMAIN page' = Pages,
           page'[x] = [page[x] EXCEPT ![s] = None],
           \A g \in Pages : g # t /\ g # x => page'[g] = page[g],
           mem' = mem, d' = d, pgdir' = pgdir
    PROVE  MemInv' /\ \A e \in Dirs \ {x} : TreeKept(e)
<1>1. t \in Tables /\ t \in Pages /\ \A e \in Dirs, r \in Pdes : page[e][r] = t => e = x /\ r = s
  BY TreeApart
<1>2. t \notin Dirs /\ t \notin Leaves /\ t \notin Hands
  BY <1>1, MemParts DEF PagesApart
<1>3. MemTypes'
  BY <1>1, MemParts DEF MemTypes
<1>4. Dirs' = Dirs /\ Hands' = Hands
  BY DEF Dirs, Hands
<1>5. \A e \in Dirs : e \in Pages /\ (e # x => page'[e] = page[e])
  BY <1>2, MemParts DEF PagesApart
<1>6. page[x] \in [Pdes -> Pages \cup {None}]
  BY MemParts DEF PageTypes
<1>7. page'[x] \in [Pdes -> Pages \cup {None}]
  BY <1>6
<1>8. \A e \in Dirs, r \in Pdes :
         page'[e][r] = IF e = x /\ r = s THEN None ELSE page[e][r]
  BY <1>5, <1>6
<1>9. Tables' = Tables \ {t}
  <2>1. ASSUME NEW v \in Tables' PROVE v \in Tables \ {t}
    <3>1. PICK e \in Dirs, r \in Pdes : v # None /\ v = page'[e][r]
      BY <1>4, TableOfNext
    <3>2. ~(e = x /\ r = s) /\ v = page[e][r]
      BY <1>8, <3>1
    <3> QED
      BY <1>1, <3>1, <3>2, TableOf
  <2>2. ASSUME NEW v \in Tables \ {t} PROVE v \in Tables'
    <3>1. PICK e \in Dirs, r \in Pdes : v # None /\ v = page[e][r]
      BY TableOf
    <3>2. page'[e][r] = page[e][r]
      BY <1>8, <3>1
    <3> QED
      BY <1>4, <3>1, <3>2, TableOfNext
  <2> QED
    BY <2>1, <2>2
<1>10. \A v \in Tables : v \in Pages /\ (v # t => page'[v] = page[v])
  BY MemParts DEF PagesApart
<1>11. Leaves' = Leaves
  <2>1. ASSUME NEW g \in Leaves' PROVE g \in Leaves
    BY <1>9, <1>10, LeafOf, LeafOfNext
  <2>2. ASSUME NEW g \in Leaves PROVE g \in Leaves'
    <3>1. PICK v \in Tables, k \in Ptes : page[v][k] # None /\ page[v][k].pg = g
      BY LeafOf
    <3>2. v # t
      BY <3>1
    <3> QED
      BY <1>9, <1>10, <3>1, <3>2, LeafOf, LeafOfNext
  <2> QED
    BY <2>1, <2>2
<1>12. PagesApart'
  BY <1>1, <1>2, <1>4, <1>9, <1>11, MemParts DEF PagesApart
<1>13. RootsOnce'
  BY MemParts DEF RootsOnce, Roots
<1>14. TablesOnce'
  BY <1>4, <1>8, MemParts DEF TablesOnce
<1>15. LeavesOnce'
  BY <1>9, <1>10, MemParts DEF LeavesOnce
<1>16. HandsOnce'
  BY MemParts DEF HandsOnce
<1>17. PageTypes'
  <2>1. UserTables \in Pdes
    BY Sizes DEF Pdes
  <2>2. \A e \in Dirs : page'[e][UserTables] # None =>
           /\ page'[e][UserTables] = page[e][UserTables]
           /\ page[e][UserTables] \in Tables /\ page[e][UserTables] # t
    BY <1>1, <1>8, <2>1, DirContents
  <2> QED
    BY <1>4, <1>5, <1>7, <1>9, <1>10, <2>2, MemParts DEF PageTypes
<1>18. \A e \in Dirs \ {x} : TreeKept(e)
  <2>1. \A g \in Dirs \cup Tables : page'[g] # page[g] => g = x \/ g = t
    BY <1>5, <1>10
  <2> QED
    BY <2>1, OthersKept
<1> QED
  BY <1>3, <1>12, <1>13, <1>14, <1>15, <1>16, <1>17, <1>18, MemPartsNext

(* freevm gives the directory back. *)
LEMMA DirGiven ==
    ASSUME MemInv, NEW p \in Procs, NEW x,
           x = d[p], x # None, pgdir[p] # x, \A s \in Pdes : page[x][s] = None,
           free' = free \cup {x},
           DOMAIN page' = Pages,
           \A g \in Pages : g # x => page'[g] = page[g],
           \A q \in Procs : d'[q] = IF q = p THEN None ELSE d[q],
           d' \in [Procs -> Pages \cup {None}],
           mem' = mem, pgdir' = pgdir
    PROVE  MemInv' /\ \A e \in Dirs \ {x} : TreeKept(e)
<1>1. x \in Dirs /\ x \in Pages /\ x \notin Tables /\ x \notin Leaves /\ x \notin Hands
  <2>1. x \in Dirs
    BY DirOf DEF Roots
  <2> QED
    BY <2>1, MemParts DEF PagesApart
<1>2. MemTypes'
  BY <1>1, MemParts DEF MemTypes
<1>3. \A q \in Procs : Roots(q)' = Roots(q) \ {x}
  <2>1. \A q \in Procs : x \in Roots(q) => q = p
    BY MemParts DEF RootsOnce, Roots
  <2> QED
    BY <2>1 DEF Roots
<1>4. Dirs' = Dirs \ {x}
  <2>1. ASSUME NEW e PROVE e \in Dirs' <=> e \in Dirs \ {x}
    BY <1>3, DirOf, DirOfNext
  <2> QED
    BY <2>1
<1>5. \A e \in Dirs \cup Tables : e \in Pages /\ (e # x => page'[e] = page[e])
  BY MemParts DEF PagesApart
<1>6. Tables' = Tables
  <2>1. ASSUME NEW v \in Tables' PROVE v \in Tables
    BY <1>4, <1>5, TableOf, TableOfNext
  <2>2. ASSUME NEW v \in Tables PROVE v \in Tables'
    <3>1. PICK e \in Dirs, r \in Pdes : v # None /\ v = page[e][r]
      BY TableOf
    <3>2. e # x
      BY <3>1
    <3> QED
      BY <1>4, <1>5, <3>1, <3>2, TableOfNext
  <2> QED
    BY <2>1, <2>2
<1>7. \A v \in Tables : page'[v] = page[v]
  BY <1>1, <1>5
<1>8. Leaves' = Leaves
  <2>1. ASSUME NEW h PROVE h \in Leaves' <=> h \in Leaves
    BY <1>6, <1>7, LeafOf, LeafOfNext
  <2> QED
    BY <2>1
<1>9. Hands' = Hands
  BY DEF Hands
<1>10. PagesApart'
  BY <1>1, <1>4, <1>6, <1>8, <1>9, MemParts DEF PagesApart
<1>11. RootsOnce'
  BY <1>3, MemParts DEF RootsOnce
<1>12. TablesOnce'
  BY <1>4, <1>5, MemParts DEF TablesOnce
<1>13. LeavesOnce'
  BY <1>6, <1>7, MemParts DEF LeavesOnce
<1>14. HandsOnce'
  BY MemParts DEF HandsOnce
<1>15. PageTypes'
  <2>1. UserTables \in Pdes
    BY Sizes DEF Pdes
  <2>2. \A e \in Dirs : page[e][UserTables] # None => page[e][UserTables] \in Tables
    BY <2>1, DirContents
  <2> QED
    BY <1>4, <1>5, <1>6, <1>7, <2>2, MemParts DEF PageTypes
<1>16. \A e \in Dirs \ {x} : TreeKept(e)
  <2>1. \A g \in Dirs \cup Tables : page'[g] # page[g] => g = x
    BY <1>5
  <2> QED
    BY <1>1, <2>1, OthersKept
<1> QED
  BY <1>2, <1>10, <1>11, <1>12, <1>13, <1>14, <1>15, <1>16, MemPartsNext

(* kfree of the page that could not be mapped. *)
LEMMA HandDropped ==
    ASSUME MemInv, NEW p \in Procs, NEW h, h = mem[p], h # None,
           free' = free \cup {h},
           DOMAIN page' = Pages,
           \A g \in Pages : g # h => page'[g] = page[g],
           \A q \in Procs : mem'[q] = IF q = p THEN None ELSE mem[q],
           mem' \in [Procs -> Pages \cup {None}],
           d' = d, pgdir' = pgdir
    PROVE  MemInv' /\ \A e \in Dirs : TreeKept(e)
<1>1. h \in Pages /\ h \in Hands /\ h \notin Dirs /\ h \notin Tables /\ h \notin Leaves
  BY HandOf, MemParts DEF MemTypes, PagesApart
<1>2. MemTypes'
  BY <1>1, MemParts DEF MemTypes
<1>3. Dirs' = Dirs
  BY DEF Dirs
<1>4. \A e \in Dirs \cup Tables : e \in Pages /\ page'[e] = page[e]
  BY <1>1, MemParts DEF PagesApart
<1>5. Tables' = Tables
  <2>1. ASSUME NEW t PROVE t \in Tables' <=> t \in Tables
    BY <1>3, <1>4, TableOf, TableOfNext
  <2> QED
    BY <2>1
<1>6. Leaves' = Leaves
  <2>1. ASSUME NEW g PROVE g \in Leaves' <=> g \in Leaves
    BY <1>4, <1>5, LeafOf, LeafOfNext
  <2> QED
    BY <2>1
<1>7. Hands' = Hands \ {h}
  <2>1. \A q \in Procs : q # p => mem[q] # h
    BY MemParts DEF HandsOnce
  <2>2. ASSUME NEW g PROVE g \in Hands' <=> g \in Hands \ {h}
    BY <2>1, HandOf, HandOfNext
  <2> QED
    BY <2>2
<1>8. PagesApart'
  BY <1>1, <1>3, <1>5, <1>6, <1>7, MemParts DEF PagesApart
<1>9. RootsOnce'
  BY MemParts DEF RootsOnce, Roots
<1>10. TablesOnce'
  BY <1>3, <1>4, MemParts DEF TablesOnce
<1>11. LeavesOnce'
  BY <1>4, <1>5, MemParts DEF LeavesOnce
<1>12. HandsOnce'
  BY MemParts DEF HandsOnce
<1>13. PageTypes'
  <2>1. UserTables \in Pdes
    BY Sizes DEF Pdes
  <2>2. \A e \in Dirs : page[e][UserTables] # None => page[e][UserTables] \in Tables
    BY <2>1, DirContents
  <2> QED
    BY <1>3, <1>4, <1>5, <2>2, MemParts DEF PageTypes
<1>14. \A e \in Dirs : TreeKept(e)
  BY <1>4, DirContents DEF TreeKept
<1> QED
  BY <1>2, <1>8, <1>9, <1>10, <1>11, <1>12, <1>13, <1>14, MemPartsNext

(* What is read into pages that are mapped disturbs no tree. *)
LEMMA DataWritten ==
    ASSUME MemInv,
           DOMAIN page' = Pages,
           \A g \in Pages \ Leaves : page'[g] = page[g],
           free' = free, mem' = mem, d' = d, pgdir' = pgdir
    PROVE  MemInv' /\ \A e \in Dirs : TreeKept(e)
<1>1. MemTypes'
  BY MemParts DEF MemTypes
<1>2. Dirs' = Dirs /\ Hands' = Hands
  BY DEF Dirs, Hands
<1>3. \A e \in Dirs \cup Tables : e \in Pages /\ page'[e] = page[e]
  BY MemParts DEF PagesApart
<1>4. Tables' = Tables
  <2>1. ASSUME NEW t PROVE t \in Tables' <=> t \in Tables
    BY <1>2, <1>3, TableOf, TableOfNext
  <2> QED
    BY <2>1
<1>5. Leaves' = Leaves
  <2>1. ASSUME NEW g PROVE g \in Leaves' <=> g \in Leaves
    BY <1>3, <1>4, LeafOf, LeafOfNext
  <2> QED
    BY <2>1
<1>6. PagesApart'
  BY <1>2, <1>4, <1>5, MemParts DEF PagesApart
<1>7. RootsOnce' /\ HandsOnce'
  BY MemParts DEF RootsOnce, HandsOnce, Roots
<1>8. TablesOnce'
  BY <1>2, <1>3, MemParts DEF TablesOnce
<1>9. LeavesOnce'
  BY <1>3, <1>4, MemParts DEF LeavesOnce
<1>10. PageTypes'
  <2>1. UserTables \in Pdes
    BY Sizes DEF Pdes
  <2>2. \A e \in Dirs : page[e][UserTables] # None => page[e][UserTables] \in Tables
    BY <2>1, DirContents
  <2> QED
    BY <1>2, <1>3, <1>4, <2>2, MemParts DEF PageTypes
<1>11. \A e \in Dirs : TreeKept(e)
  BY <1>3, DirContents DEF TreeKept
<1> QED
  BY <1>1, <1>6, <1>7, <1>8, <1>9, <1>10, <1>11, MemPartsNext

(* clearpteu changes an entry, and not the page it leads to. *)
LEMMA EntryChanged ==
    ASSUME MemInv, NEW x \in Dirs, NEW s \in Pdes, NEW k \in Ptes, NEW t,
           t = page[x][s], t # None, page[t][k] # None,
           DOMAIN page' = Pages,
           page'[t] = [page[t] EXCEPT ![k].user = FALSE],
           \A g \in Pages : g # t => page'[g] = page[g],
           free' = free, mem' = mem, d' = d, pgdir' = pgdir
    PROVE  MemInv' /\ \A e \in Dirs \ {x} : TreeKept(e)
<1>1. t \in Tables /\ t \in Pages /\ \A e \in Dirs, r \in Pdes : page[e][r] = t => e = x /\ r = s
  BY TreeApart
<1>2. s # UserTables
  BY MemParts DEF PageTypes, EmptyTable
<1>3. page[t] \in [Ptes -> Entries \cup {None}] /\ page[t][k] \in Entries
  BY <1>1, TableContents, MemParts DEF PageTypes
<1>4. [page[t][k] EXCEPT !.user = FALSE] \in Entries
      /\ [page[t][k] EXCEPT !.user = FALSE].pg = page[t][k].pg
  BY <1>3 DEF Entries
<1>5. page'[t] \in [Ptes -> Entries \cup {None}]
  BY <1>3, <1>4
<1>6. \A l \in Ptes : /\ page'[t][l] # None <=> page[t][l] # None
                      /\ page'[t][l] # None => page'[t][l].pg = page[t][l].pg
  BY <1>3, <1>4, NoneApart
<1>7. MemTypes'
  BY MemParts DEF MemTypes
<1>8. Dirs' = Dirs /\ Hands' = Hands
  BY DEF Dirs, Hands
<1>9. \A e \in Dirs : e \in Pages /\ e # t /\ page'[e] = page[e]
  BY <1>1, MemParts DEF PagesApart
<1>10. Tables' = Tables
  <2>1. ASSUME NEW v PROVE v \in Tables' <=> v \in Tables
    BY <1>8, <1>9, TableOf, TableOfNext
  <2> QED
    BY <2>1
<1>11. \A v \in Tables : v \in Pages /\ (v # t => page'[v] = page[v])
  BY MemParts DEF PagesApart
<1>12. \A v \in Tables, l \in Ptes :
          /\ page'[v][l] # None <=> page[v][l] # None
          /\ page'[v][l] # None => page'[v][l].pg = page[v][l].pg
  <2> SUFFICES ASSUME NEW v \in Tables, NEW l \in Ptes
               PROVE  /\ page'[v][l] # None <=> page[v][l] # None
                      /\ page'[v][l] # None => page'[v][l].pg = page[v][l].pg
    OBVIOUS
  <2>1. CASE v = t
    BY <1>6, <2>1
  <2>2. CASE v # t
    BY <1>11, <2>2
  <2> QED
    BY <2>1, <2>2
<1>13. Leaves' = Leaves
  <2>1. ASSUME NEW g PROVE g \in Leaves' <=> g \in Leaves
    BY <1>10, <1>12, LeafOf, LeafOfNext
  <2> QED
    BY <2>1
<1>14. PagesApart'
  BY <1>8, <1>10, <1>13, MemParts DEF PagesApart
<1>15. RootsOnce' /\ HandsOnce'
  BY MemParts DEF RootsOnce, HandsOnce, Roots
<1>16. TablesOnce'
  BY <1>8, <1>9, MemParts DEF TablesOnce
<1>17. LeavesOnce'
  BY <1>10, <1>12, MemParts DEF LeavesOnce
<1>18. PageTypes'
  <2>1. \A e \in Dirs : page[e][UserTables] # None => page[e][UserTables] \in Tables /\ page[e][UserTables] # t
    BY <1>1, <1>2, DirContents, Sizes DEF Pdes
  <2>2. \A e \in Dirs' : page'[e] \in [Pdes -> Pages \cup {None}]
    BY <1>8, <1>9, MemParts DEF PageTypes
  <2>3. \A v \in Tables' : page'[v] \in [Ptes -> Entries \cup {None}]
    BY <1>5, <1>10, <1>11, MemParts DEF PageTypes
  <2>4. ASSUME NEW e \in Dirs', page'[e][UserTables] # None
        PROVE  page'[page'[e][UserTables]] = EmptyTable
    <3>1. e \in Dirs /\ page'[e] = page[e]
      BY <1>8, <1>9
    <3>2. page[e][UserTables] \in Tables /\ page[e][UserTables] # t
      BY <2>1, <2>4, <3>1
    <3>3. page[page[e][UserTables]] = EmptyTable
      BY <2>4, <3>1, MemParts DEF PageTypes
    <3>4. page'[page[e][UserTables]] = page[page[e][UserTables]]
      BY <1>11, <3>2
    <3> QED
      BY <3>1, <3>3, <3>4, Zenon
  <2> QED
    BY <2>2, <2>3, <2>4 DEF PageTypes
<1>19. \A e \in Dirs \ {x} : TreeKept(e)
  <2>1. \A g \in Dirs \cup Tables : page'[g] # page[g] => g = t
    BY <1>9, <1>11
  <2> QED
    BY <2>1, OthersKept
<1> QED
  BY <1>7, <1>14, <1>15, <1>16, <1>17, <1>18, <1>19, MemPartsNext

(* Directories change hands. *)
LEMMA RootsMoved ==
    ASSUME MemInv, free' = free, page' = page, mem' = mem,
           pgdir' \in [Procs -> Pages \cup {None}],
           d' \in [Procs -> Pages \cup {None}],
           Dirs' = Dirs, RootsOnce'
    PROVE  MemInv' /\ \A e \in Dirs : TreeKept(e)
<1>1. MemTypes'
  BY MemParts DEF MemTypes
<1>2. Tables' = Tables /\ Hands' = Hands
  BY DEF Tables, Hands
<1>3. Leaves' = Leaves
  BY <1>2 DEF Leaves
<1>4. PagesApart'
  BY <1>2, <1>3, MemParts DEF PagesApart
<1>5. TablesOnce' /\ LeavesOnce' /\ HandsOnce'
  BY <1>2, MemParts DEF TablesOnce, LeavesOnce, HandsOnce
<1>6. PageTypes'
  BY <1>2, MemParts DEF PageTypes
<1> QED
  BY <1>1, <1>4, <1>5, <1>6, MemPartsNext DEF TreeKept

-----------------------------------------------------------------------------
(* What a directory maps *)

LEMMA WalkTypes ==
    ASSUME MemInv, NEW x \in Dirs, NEW v \in UserPages
    PROVE  /\ Table(x, v) = page[x][v \div PerTable]
           /\ Table(x, v) # None => Table(x, v) \in Tables
           /\ Walk(x, v) # None =>
                 /\ Table(x, v) # None
                 /\ Walk(x, v) = page[Table(x, v)][v % PerTable]
                 /\ Walk(x, v) \in Entries
                 /\ Walk(x, v).pg \in Leaves
<1>1. Table(x, v) = page[x][v \div PerTable]
  BY DEF Table
<1>2. Table(x, v) # None => Table(x, v) \in Tables
  BY <1>1, Slots, DirContents
<1>3. ASSUME Walk(x, v) # None
      PROVE  Table(x, v) # None /\ Walk(x, v) = page[Table(x, v)][v % PerTable]
  BY <1>3 DEF Walk
<1> QED
  BY <1>1, <1>2, <1>3, Slots, TableContents

LEMMA MappedPages ==
    ASSUME NEW x
    PROVE  /\ Mapped(x) \subseteq UserPages
           /\ \A v \in UserPages : v \in Mapped(x) <=> Walk(x, v) # None
BY DEF Mapped

LEMMA KeptWalk ==
    ASSUME MemInv, NEW x \in Dirs, TreeKept(x)
    PROVE  \A v \in UserPages : Walk(x, v)' = Walk(x, v)
<1> SUFFICES ASSUME NEW v \in UserPages PROVE Walk(x, v)' = Walk(x, v)
  OBVIOUS
<1>1. v \div PerTable \in Pdes
  BY Slots
<1>2. Table(x, v)' = Table(x, v)
  BY DEF TreeKept, Table
<1>3. Table(x, v) # None => page'[Table(x, v)] = page[Table(x, v)]
  BY <1>1 DEF TreeKept, Table
<1> QED
  BY <1>2, <1>3 DEF Walk

LEMMA KeptMapped ==
    ASSUME MemInv, NEW x \in Dirs, TreeKept(x)
    PROVE  Mapped(x)' = Mapped(x)
BY KeptWalk DEF Mapped

(* One entry of a table that is there changes. *)
LEMMA WalkChanged ==
    ASSUME MemInv, NEW x \in Dirs, NEW v \in UserPages, NEW c, NEW t,
           t = Table(x, v), t # None,
           page'[x] = page[x],
           \A k \in Ptes : page'[t][k] = IF k = v % PerTable THEN c ELSE page[t][k],
           \A w \in Tables \ {t} : page'[w] = page[w]
    PROVE  \A w \in UserPages : Walk(x, w)' = IF w = v THEN c ELSE Walk(x, w)
<1> SUFFICES ASSUME NEW w \in UserPages
             PROVE  Walk(x, w)' = IF w = v THEN c ELSE Walk(x, w)
  OBVIOUS
<1>1. /\ v \div PerTable \in Pdes /\ w \div PerTable \in Pdes
      /\ v % PerTable \in Ptes /\ w % PerTable \in Ptes
  BY Slots
<1>2. Table(x, w)' = Table(x, w) /\ Table(x, w) = page[x][w \div PerTable]
      /\ t = page[x][v \div PerTable]
  BY DEF Table
<1>3. CASE w = v
  BY <1>1, <1>2, <1>3 DEF Walk
<1>4. CASE w # v /\ Table(x, w) = t
  <2>1. w \div PerTable = v \div PerTable
    <3>1. page[x][w \div PerTable] # None /\ page[x][w \div PerTable] = page[x][v \div PerTable]
      BY <1>2, <1>4
    <3> QED
      BY <1>1, <3>1, MemParts DEF TablesOnce
  <2>2. w % PerTable # v % PerTable
    BY <1>4, <2>1, SlotsApart
  <2> QED
    BY <1>1, <1>2, <1>4, <2>2 DEF Walk
<1>5. CASE w # v /\ Table(x, w) # t
  BY <1>2, <1>5, WalkTypes DEF Walk
<1> QED
  BY <1>3, <1>4, <1>5

(* A table comes, with one entry. *)
LEMMA WalkTabled ==
    ASSUME MemInv, NEW x \in Dirs, NEW v \in UserPages, NEW c, NEW t,
           t # None, Table(x, v) = None,
           \A s \in Pdes : page'[x][s] = IF s = v \div PerTable THEN t ELSE page[x][s],
           \A k \in Ptes : page'[t][k] = IF k = v % PerTable THEN c ELSE None,
           \A w \in Tables : page'[w] = page[w]
    PROVE  \A w \in UserPages : Walk(x, w)' = IF w = v THEN c ELSE Walk(x, w)
<1> SUFFICES ASSUME NEW w \in UserPages
             PROVE  Walk(x, w)' = IF w = v THEN c ELSE Walk(x, w)
  OBVIOUS
<1>1. /\ v \div PerTable \in Pdes /\ w \div PerTable \in Pdes
      /\ v % PerTable \in Ptes /\ w % PerTable \in Ptes
  BY Slots
<1>2. /\ Table(x, w)' = IF w \div PerTable = v \div PerTable THEN t ELSE Table(x, w)
      /\ w \div PerTable = v \div PerTable => Table(x, w) = None
  BY <1>1 DEF Table
<1>3. CASE w = v
  BY <1>1, <1>2, <1>3 DEF Walk
<1>4. CASE w # v /\ w \div PerTable = v \div PerTable
  <2>1. w % PerTable # v % PerTable
    BY <1>4, SlotsApart
  <2> QED
    BY <1>1, <1>2, <1>4, <2>1 DEF Walk
<1>5. CASE w # v /\ w \div PerTable # v \div PerTable
  BY <1>2, <1>5, WalkTypes DEF Walk
<1> QED
  BY <1>3, <1>4, <1>5

LEMMA MappedChanged ==
    ASSUME NEW x, NEW v \in UserPages, NEW c,
           \A w \in UserPages : Walk(x, w)' = IF w = v THEN c ELSE Walk(x, w)
    PROVE  Mapped(x)' = IF c = None THEN Mapped(x) \ {v} ELSE Mapped(x) \cup {v}
BY DEF Mapped

(* A directory without user tables maps nothing. *)
LEMMA NothingMapped ==
    ASSUME NEW x, \A s \in Pdes : s # UserTables => page'[x][s] = None
    PROVE  Mapped(x)' = {}
<1>1. ASSUME NEW v \in UserPages PROVE Walk(x, v)' = None
  BY Slots DEF Walk, Table
<1> QED
  BY <1>1 DEF Mapped

(* If nothing is mapped, the tables are empty. *)
LEMMA TablesEmpty ==
    ASSUME MemInv, NEW x \in Dirs, Mapped(x) = {}, NEW s \in Pdes, page[x][s] # None
    PROVE  \A k \in Ptes : page[page[x][s]][k] = None
<1>1. CASE s = UserTables
  BY <1>1, MemParts DEF PageTypes, EmptyTable
<1>2. CASE s # UserTables
  <2>1. s \in 0..(UserTables - 1)
    BY <1>2, Sizes DEF Pdes
  <2>2. SUFFICES ASSUME NEW k \in Ptes PROVE page[page[x][s]][k] = None
    OBVIOUS
  <2>3. PICK v \in UserPages : v \div PerTable = s /\ v % PerTable = k
    BY <2>1, PageOfSlot
  <2>4. Walk(x, v) = None
    BY MappedPages
  <2> QED
    BY <2>3, <2>4 DEF Walk, Table
<1> QED
  BY <1>1, <1>2

-----------------------------------------------------------------------------
(* Each page has one owner. *)
LEMMA OwnedOnce ==
    ASSUME MemInv
    PROVE  PagesOwnedOnce
<1> SUFFICES ASSUME NEW g \in Pages PROVE \E x : Places(g) = {x}
  BY FS_Singleton DEF PagesOwnedOnce
<1>1. g # None
  BY NoneApart
<1>2. \A p \in Procs : pgdir[p] = g \/ d[p] = g => g \in Dirs
  BY <1>1, DirOf DEF Roots
<1>3. \A p \in Procs : mem[p] = g => g \in Hands
  BY <1>1, HandOf
<1>4. \A e \in Dirs \X Pdes : page[e[1]][e[2]] = g => g \in Tables
  BY <1>1, TableOf
<1>5. \A e \in Tables \X Ptes :
         page[e[1]][e[2]] # None /\ page[e[1]][e[2]].pg = g => g \in Leaves
  BY LeafOf
<1>6. CASE g \in free
  <2>1. g \notin Dirs /\ g \notin Tables /\ g \notin Leaves /\ g \notin Hands
    BY <1>6, MemParts DEF PagesApart
  <2>2. Places(g) = {<<"free", None>>}
    BY <1>2, <1>3, <1>4, <1>5, <1>6, <2>1 DEF Places
  <2> QED
    BY <2>2
<1>7. CASE g \in Dirs
  <2>1. g \notin free /\ g \notin Tables /\ g \notin Leaves /\ g \notin Hands
    BY <1>7, MemParts DEF PagesApart
  <2>2. PICK p \in Procs : g \in Roots(p)
    BY <1>7, DirOf
  <2>3. \A q \in Procs : q # p => pgdir[q] # g /\ d[q] # g
    BY <1>1, <2>2, MemParts DEF RootsOnce, Roots
  <2>4. CASE pgdir[p] = g
    <3>1. Places(g) = {<<"pgdir", p>>}
      BY <1>3, <1>4, <1>5, <2>1, <2>3, <2>4 DEF Places
    <3> QED
      BY <3>1
  <2>5. CASE pgdir[p] # g
    <3>1. d[p] = g
      BY <2>2, <2>5 DEF Roots
    <3>2. Places(g) = {<<"d", p>>}
      BY <1>3, <1>4, <1>5, <2>1, <2>3, <2>5, <3>1 DEF Places
    <3> QED
      BY <3>2
  <2> QED
    BY <2>4, <2>5
<1>8. CASE g \in Tables
  <2>1. g \notin free /\ g \notin Dirs /\ g \notin Leaves /\ g \notin Hands
    BY <1>8, MemParts DEF PagesApart
  <2>2. PICK e \in Dirs, s \in Pdes : g = page[e][s]
    BY <1>8, TableOf
  <2>3. \A f \in Dirs, r \in Pdes : page[f][r] = g => f = e /\ r = s
    BY <1>1, <2>2, MemParts DEF TablesOnce
  <2>4. \A z \in Dirs \X Pdes : page[z[1]][z[2]] = g <=> z = <<e, s>>
    BY <2>2, <2>3
  <2>5. Places(g) = {<<"pde", <<e, s>>>>}
    BY <1>2, <1>3, <1>5, <2>1, <2>4 DEF Places
  <2> QED
    BY <2>5
<1>9. CASE g \in Leaves
  <2>1. g \notin free /\ g \notin Dirs /\ g \notin Tables /\ g \notin Hands
    BY <1>9, MemParts DEF PagesApart
  <2>2. PICK t \in Tables, k \in Ptes : page[t][k] # None /\ page[t][k].pg = g
    BY <1>9, LeafOf
  <2>3. \A u \in Tables, l \in Ptes :
           page[u][l] # None /\ page[u][l].pg = g => u = t /\ l = k
    BY <2>2, MemParts DEF LeavesOnce
  <2>4. \A z \in Tables \X Ptes :
           page[z[1]][z[2]] # None /\ page[z[1]][z[2]].pg = g <=> z = <<t, k>>
    BY <2>2, <2>3
  <2>5. Places(g) = {<<"pte", <<t, k>>>>}
    BY <1>2, <1>3, <1>4, <2>1, <2>4 DEF Places
  <2> QED
    BY <2>5
<1>10. CASE g \in Hands
  <2>1. g \notin free /\ g \notin Dirs /\ g \notin Tables /\ g \notin Leaves
    BY <1>10, MemParts DEF PagesApart
  <2>2. PICK p \in Procs : mem[p] = g
    BY <1>10, HandOf
  <2>3. \A q \in Procs : mem[q] = g <=> q = p
    BY <1>1, <2>2, MemParts DEF HandsOnce
  <2>4. Places(g) = {<<"mem", p>>}
    BY <1>2, <1>4, <1>5, <2>1, <2>3 DEF Places
  <2> QED
    BY <2>4
<1> QED
  BY <1>6, <1>7, <1>8, <1>9, <1>10, MemParts DEF PagesApart

-----------------------------------------------------------------------------
(* One process moves, the others stay where they are. *)

LEMMA SpaceMem ==
    ASSUME SpaceInv
    PROVE  MemInv
BY DEF SpaceInv, TypeOK, MemInv, MemTypes

LEMMA SpaceParts ==
    ASSUME SpaceInv, NEW p \in Procs
    PROVE  /\ TypeOK /\ CallFits(p) /\ LoopFits(p) /\ ExecFits(p)
           /\ segs \in [Procs -> Seq(Segments)]
BY DEF SpaceInv, CallsFit

LEMMA ProcTypes ==
    ASSUME TypeOK, NEW p \in Procs
    PROVE  /\ sz[p] \in Nat /\ lo[p] \in Nat /\ hi[p] \in Nat /\ a[p] \in Nat
           /\ sz[p] <= KernBase /\ lo[p] <= KernBase /\ hi[p] <= KernBase
           /\ a[p] <= UserTables * PerTable
           /\ pgdir[p] \in Pages \cup {None} /\ d[p] \in Pages \cup {None}
           /\ mem[p] \in Pages \cup {None}
           /\ child[p] \in Procs
           /\ op[p] \in {"none", "fork", "exec", "grow", "shrink", "exit"}
           /\ pc[p] \in Codes \ {"panic"}
<1>1. sz[p] \in 0..KernBase /\ lo[p] \in 0..KernBase /\ hi[p] \in 0..KernBase
      /\ a[p] \in 0..(UserTables * PerTable)
  BY DEF TypeOK
<1>2. KernBase \in Nat /\ UserTables * PerTable \in Nat
  BY Sizes
<1> QED
  BY <1>1, <1>2 DEF TypeOK

LEMMA DirInUse ==
    ASSUME SpaceInv, NEW p \in Procs
    PROVE  /\ pgdir[p] # None => pgdir[p] \in Dirs
           /\ d[p] # None => d[p] \in Dirs
BY DirOf DEF Roots

Same(q) ==
    /\ pgdir'[q] = pgdir[q] /\ sz'[q] = sz[q] /\ pc'[q] = pc[q] /\ op'[q] = op[q]
    /\ child'[q] = child[q] /\ segs'[q] = segs[q] /\ d'[q] = d[q] /\ lo'[q] = lo[q]
    /\ hi'[q] = hi[q] /\ a'[q] = a[q] /\ mem'[q] = mem[q]

(* The pages mapped in a directory are those of its value, not of its name. *)
LEMMA MappedAt ==
    ASSUME NEW q, NEW x
    PROVE  /\ pgdir'[q] = x => Mapped(pgdir[q])' = Mapped(x)'
           /\ d'[q] = x => Mapped(d[q])' = Mapped(x)'
BY DEF Mapped, Walk, Table

Kept(q) == \A e \in Roots(q) : TreeKept(e)

LEMMA MappedKept ==
    ASSUME SpaceInv, NEW q \in Procs, Kept(q)
    PROVE  /\ pgdir[q] # None /\ pgdir'[q] = pgdir[q] =>
                 Mapped(pgdir[q])' = Mapped(pgdir[q])
           /\ d[q] # None /\ d'[q] = d[q] =>
                 Mapped(d[q])' = Mapped(d[q]) /\ page'[d[q]] = page[d[q]]
<1>1. ASSUME pgdir[q] # None, pgdir'[q] = pgdir[q]
      PROVE  Mapped(pgdir[q])' = Mapped(pgdir[q])
  <2>1. PICK x : x = pgdir[q]
    OBVIOUS
  <2>2. x \in Dirs /\ TreeKept(x)
    BY <1>1, <2>1, DirInUse DEF Kept, Roots
  <2>3. Mapped(x)' = Mapped(x)
    BY <2>2, KeptMapped, SpaceMem
  <2> QED
    BY <1>1, <2>1, <2>3, MappedAt
<1>2. ASSUME d[q] # None, d'[q] = d[q]
      PROVE  Mapped(d[q])' = Mapped(d[q]) /\ page'[d[q]] = page[d[q]]
  <2>1. PICK x : x = d[q]
    OBVIOUS
  <2>2. x \in Dirs /\ TreeKept(x)
    BY <1>2, <2>1, DirInUse DEF Kept, Roots
  <2>3. Mapped(x)' = Mapped(x) /\ page'[x] = page[x]
    BY <2>2, KeptMapped, SpaceMem DEF TreeKept
  <2> QED
    BY <1>2, <2>1, <2>3, MappedAt
<1> QED
  BY <1>1, <1>2

LEMMA OtherFits ==
    ASSUME SpaceInv, NEW q \in Procs, Same(q), Kept(q)
    PROVE  LoopFits(q)' /\ ExecFits(q)'
<1>1. CallFits(q) /\ LoopFits(q) /\ ExecFits(q)
  BY SpaceParts
<1>2. d[q] # None <=> pc[q] \notin {"unused", "embryo", "user", "kvmdir"}
  BY <1>1 DEF CallFits
<1>3. Looping(q)' = Looping(q) /\ End(q)' = End(q)
  BY DEF Same, Looping, End
<1>4. /\ pgdir[q] # None => Mapped(pgdir[q])' = Mapped(pgdir[q])
      /\ d[q] # None => Mapped(d[q])' = Mapped(d[q]) /\ page'[d[q]] = page[d[q]]
  BY MappedKept DEF Same
<1>5. Looping(q) => d[q] # None
  BY <1>2 DEF Looping
<1>6. /\ Below(lo[q])' = Below(lo[q]) /\ Below(hi[q])' = Below(hi[q])
      /\ Below(sz[q])' = Below(sz[q]) /\ Upto(a[q])' = Upto(a[q])
      /\ PgRoundUp(lo[q])' = PgRoundUp(lo[q]) /\ PgRoundUp(hi[q])' = PgRoundUp(hi[q])
  BY DEF Same, Below, Upto, PgRoundUp
<1>7. LoopFits(q)'
  BY <1>1, <1>2, <1>3, <1>4, <1>5, <1>6 DEF LoopFits, Same
<1>8. ExecFits(q)'
  BY <1>1, <1>2, <1>3, <1>4, <1>5, <1>6 DEF ExecFits, Same
<1> QED
  BY <1>7, <1>8

LEMMA Frame ==
    ASSUME SpaceInv, NEW S \in SUBSET Procs,
           TypeOK', MemInv', segs' \in [Procs -> Seq(Segments)],
           \A q \in Procs \ S : Same(q) /\ Kept(q),
           \A q \in S : CallFits(q)' /\ LoopFits(q)' /\ ExecFits(q)',
           \A q \in S : pc[q] = "embryo" => \E r \in S : op[r] = "fork" /\ child[r] = q,
           \A q \in S : op'[q] = "fork" =>
              (op[q] = "fork" /\ child'[q] = child[q]) \/ pc[child'[q]] # "embryo",
           \A q, r \in S : op'[q] = "fork" /\ op'[r] = "fork" => q = r
    PROVE  SpaceInv'
<1>1. \A q, r \in Procs :
         op[q] = "fork" /\ op[r] = "fork" /\ child[q] = child[r] => q = r
  BY DEF SpaceInv, CallsFit
<1>2. \A q \in Procs : LoopFits(q)' /\ ExecFits(q)'
  BY OtherFits
<1>3. \A q \in Procs : op[q] = "fork" => pc[child[q]] = "embryo" /\ child[q] \in Procs
  BY SpaceParts, ProcTypes DEF CallFits
<1>4. ASSUME NEW q \in Procs \ S PROVE CallFits(q)'
  <2>1. op[q] = "fork" => child[q] \notin S
    BY <1>1, <1>3
  <2>2. op[q] = "fork" => pc'[child[q]] = "embryo"
    BY <1>3, <2>1 DEF Same
  <2>3. CallFits(q) /\ Same(q)
    BY SpaceParts
  <2> QED
    BY <2>2, <2>3 DEF CallFits, Same
<1>5. ASSUME NEW q \in Procs, NEW r \in Procs,
             op'[q] = "fork", op'[r] = "fork", child'[q] = child'[r]
      PROVE  q = r
  <2>1. CASE q \in S /\ r \in S
    BY <1>5, <2>1
  <2>2. CASE q \in S /\ r \notin S
    <3>1. op[r] = "fork" /\ child'[r] = child[r]
      BY <1>5, <2>2 DEF Same
    <3>2. pc[child'[q]] = "embryo"
      BY <1>3, <1>5, <3>1
    <3>3. op[q] = "fork" /\ child'[q] = child[q]
      BY <1>5, <2>2, <3>2
    <3>4. child[q] = child[r]
      BY <1>5, <3>1, <3>3
    <3> QED
      BY <1>1, <3>1, <3>3, <3>4
  <2>3. CASE q \notin S /\ r \in S
    <3>1. op[q] = "fork" /\ child'[q] = child[q]
      BY <1>5, <2>3 DEF Same
    <3>2. pc[child'[r]] = "embryo"
      BY <1>3, <1>5, <3>1
    <3>3. op[r] = "fork" /\ child'[r] = child[r]
      BY <1>5, <2>3, <3>2
    <3>4. child[q] = child[r]
      BY <1>5, <3>1, <3>3
    <3> QED
      BY <1>1, <3>1, <3>3, <3>4
  <2>4. CASE q \notin S /\ r \notin S
    BY <1>1, <1>5, <2>4 DEF Same
  <2> QED
    BY <2>1, <2>2, <2>3, <2>4
<1>6. CallsFit'
  BY <1>4, <1>5 DEF CallsFit
<1> QED
  BY <1>2, <1>6 DEF SpaceInv, MemInv

LEMMA FrameOne ==
    ASSUME SpaceInv, NEW p \in Procs, pc[p] # "embryo",
           TypeOK', MemInv', segs' \in [Procs -> Seq(Segments)],
           \A q \in Procs \ {p} : Same(q) /\ Kept(q),
           CallFits(p)', LoopFits(p)', ExecFits(p)',
           op'[p] = "fork" => op[p] = "fork" /\ child'[p] = child[p]
    PROVE  SpaceInv'
<1>1. PICK S \in SUBSET Procs : S = {p}
  OBVIOUS
<1>2. \A q \in S : q = p
  BY <1>1
<1>3. \A q \in Procs \ S : q \in Procs \ {p}
  BY <1>1
<1> QED
  BY <1>2, <1>3, Frame

(* What happens in the tree of one process leaves those of the others. *)
LEMMA TreesApart ==
    ASSUME SpaceInv, NEW p \in Procs, NEW x \in Roots(p),
           \A e \in Dirs \ {x} : TreeKept(e)
    PROVE  /\ \A q \in Procs \ {p} : Kept(q)
           /\ \A e \in Roots(p) : e # x => TreeKept(e)
<1>1. ASSUME NEW q \in Procs, NEW e \in Roots(q) PROVE e \in Dirs
  BY <1>1, DirOf DEF Roots
<1>2. ASSUME NEW q \in Procs \ {p} PROVE x \notin Roots(q)
  BY SpaceMem, MemParts DEF RootsOnce
<1> QED
  BY <1>1, <1>2 DEF Kept

LEMMA AllKept ==
    ASSUME SpaceInv, \A e \in Dirs : TreeKept(e)
    PROVE  \A q \in Procs : Kept(q)
BY DirOf DEF Kept, Roots

LEMMA MemSame ==
    ASSUME SpaceInv, UNCHANGED <<free, page, pgdir, d, mem>>
    PROVE  MemInv' /\ \A q \in Procs : Kept(q)
<1>1. Dirs' = Dirs
  BY DEF Dirs
<1>2. RootsOnce'
  BY SpaceMem, MemParts DEF RootsOnce, Roots
<1>3. MemInv
  BY SpaceMem
<1>4. pgdir' \in [Procs -> Pages \cup {None}] /\ d' \in [Procs -> Pages \cup {None}]
  BY <1>3, MemParts DEF MemTypes
<1> QED
  BY <1>1, <1>2, <1>3, <1>4, RootsMoved, AllKept

LEMMA RootsSame ==
    ASSUME SpaceInv, free' = free, page' = page, mem' = mem,
           pgdir' \in [Procs -> Pages \cup {None}], d' \in [Procs -> Pages \cup {None}],
           \A q \in Procs : Roots(q)' = Roots(q)
    PROVE  MemInv' /\ \A q \in Procs : Kept(q)
<1>1. Dirs' = Dirs
  <2>1. ASSUME NEW e PROVE e \in Dirs' <=> e \in Dirs
    BY DirOf, DirOfNext
  <2> QED
    BY <2>1
<1>2. RootsOnce'
  BY SpaceMem, MemParts DEF RootsOnce
<1> QED
  BY <1>1, <1>2, RootsMoved, AllKept, SpaceMem

-----------------------------------------------------------------------------
(* The calls *)

LEMMA ForkStep ==
    ASSUME SpaceInv, NEW p \in Procs, NEW q \in Procs, Fork(p, q)
    PROVE  SpaceInv'
<1>1. /\ TypeOK /\ CallFits(p) /\ LoopFits(p) /\ ExecFits(p) /\ CallFits(q)
      /\ segs \in [Procs -> Seq(Segments)]
  BY SpaceParts
<1>2. p # q /\ pc[p] = "user" /\ pc[q] = "unused" /\ sz[p] \in 0..KernBase
  BY <1>1 DEF Fork, TypeOK
<1>3. /\ pc'[p] = "kvmdir" /\ pc'[q] = "embryo" /\ op'[p] = "fork" /\ op'[q] = op[q]
      /\ child'[p] = q /\ child'[q] = child[q] /\ hi'[p] = sz[p] /\ a'[p] = 0
      /\ \A r \in Procs \ {p, q} : Same(r)
  BY <1>1, <1>2 DEF Fork, TypeOK, Same, memory, image
<1>4. /\ free' = free /\ page' = page /\ pgdir' = pgdir /\ d' = d /\ mem' = mem
      /\ sz' = sz /\ segs' = segs
  BY DEF Fork, memory, image
<1>5. TypeOK'
  <2>1. pc' \in [Procs -> Codes \ {"panic"}]
    BY <1>1 DEF Fork, TypeOK, Codes
  <2>2. 0 \in 0..(UserTables * PerTable)
    BY Sizes
  <2> QED
    BY <1>1, <1>2, <1>4, <2>1, <2>2 DEF Fork, TypeOK
<1>6. MemInv' /\ \A r \in Procs : Kept(r)
  BY <1>4, MemSame
<1>7. CallFits(p)' /\ CallFits(q)'
  BY <1>1, <1>2, <1>3, <1>4 DEF CallFits
<1>8. /\ pgdir[p] # None => Mapped(pgdir[p])' = Mapped(pgdir[p]) /\ Below(sz[p])' = Below(sz[p])
  BY <1>4, <1>6, MappedKept DEF Below
<1>9. LoopFits(p)'
  BY <1>1, <1>2, <1>3, <1>4, <1>8 DEF LoopFits, CallFits, Looping
<1>10. LoopFits(q)' /\ ExecFits(p)' /\ ExecFits(q)'
  BY <1>1, <1>2, <1>3, <1>4 DEF LoopFits, ExecFits, CallFits, Looping
<1>11. PICK S \in SUBSET Procs : S = {p, q}
  OBVIOUS
<1>12. \A r \in S : op'[r] = "fork" => r = p
  BY <1>1, <1>2, <1>3, <1>11 DEF CallFits
<1>13. \A r \in Procs \ S : Same(r) /\ Kept(r)
  BY <1>3, <1>6, <1>11
<1>14. \A r \in S : CallFits(r)' /\ LoopFits(r)' /\ ExecFits(r)'
  BY <1>7, <1>9, <1>10, <1>11
<1>15. \A r \in S : pc[r] # "embryo"
  BY <1>2, <1>11
<1>16. \A r \in S : op'[r] = "fork" => pc[child'[r]] # "embryo"
  BY <1>2, <1>3, <1>12
<1>17. segs' \in [Procs -> Seq(Segments)]
  BY <1>1, <1>4
<1>18. \A r, s \in S : op'[r] = "fork" /\ op'[s] = "fork" => r = s
  BY <1>12
<1> QED
  BY <1>5, <1>6, <1>13, <1>14, <1>15, <1>16, <1>17, <1>18, Frame

LEMMA ExecStart ==
    ASSUME SpaceInv, NEW p \in Procs, NEW s \in Programs, Exec(p, s)
    PROVE  SpaceInv'
<1>1. /\ TypeOK /\ CallFits(p) /\ LoopFits(p) /\ ExecFits(p)
      /\ segs \in [Procs -> Seq(Segments)] /\ s \in Seq(Segments)
  BY SpaceParts, AddressSpaceAssumption
<1>2. pc[p] = "user"
  BY DEF Exec
<1>3. /\ pc'[p] = "kvmdir" /\ op'[p] = "exec" /\ segs'[p] = s /\ lo'[p] = 0
      /\ \A r \in Procs \ {p} : Same(r)
  BY <1>1 DEF Exec, Goto, TypeOK, Same, memory, image
<1>4. /\ free' = free /\ page' = page /\ pgdir' = pgdir /\ d' = d /\ mem' = mem
      /\ sz' = sz /\ child' = child /\ hi' = hi /\ a' = a
  BY DEF Exec, memory, image
<1>5. TypeOK'
  <2>1. pc' \in [Procs -> Codes \ {"panic"}]
    BY <1>1 DEF Exec, Goto, TypeOK, Codes
  <2>2. 0 \in 0..KernBase
    BY Sizes
  <2> QED
    BY <1>1, <1>4, <2>1, <2>2 DEF Exec, TypeOK
<1>6. segs' \in [Procs -> Seq(Segments)]
  BY <1>1 DEF Exec
<1>7. MemInv' /\ \A r \in Procs : Kept(r)
  BY <1>4, MemSame
<1>8. CallFits(p)'
  BY <1>1, <1>2, <1>3, <1>4 DEF CallFits
<1>9. pgdir[p] # None => Mapped(pgdir[p])' = Mapped(pgdir[p]) /\ Below(sz[p])' = Below(sz[p])
  BY <1>4, <1>7, MappedKept DEF Below
<1>10. LoopFits(p)'
  BY <1>1, <1>2, <1>3, <1>4, <1>9 DEF LoopFits, CallFits, Looping
<1>11. ExecFits(p)'
  BY <1>1, <1>2, <1>3, <1>4 DEF ExecFits, CallFits, Looping
<1> QED
  BY <1>2, <1>3, <1>5, <1>6, <1>7, <1>8, <1>10, <1>11, FrameOne

LEMMA GrowStep ==
    ASSUME SpaceInv, NEW p \in Procs, NEW n \in Grows, Grow(p, n)
    PROVE  SpaceInv'
<1>1. /\ TypeOK /\ CallFits(p) /\ LoopFits(p) /\ ExecFits(p)
      /\ segs \in [Procs -> Seq(Segments)] /\ n \in Int
  BY SpaceParts, AddressSpaceAssumption
<1>2. pc[p] = "user" /\ n > 0 /\ sz[p] + n < KernBase
  BY DEF Grow
<1>3. sz[p] \in Nat /\ sz[p] <= KernBase /\ sz[p] \in 0..KernBase /\ sz[p] + n \in 0..KernBase
      /\ KernBase \in Nat
  BY <1>1, <1>2, ProcTypes, Sizes
<1>4. /\ pc'[p] = "alloc" /\ op'[p] = "grow" /\ lo'[p] = sz[p] /\ hi'[p] = sz[p] + n
      /\ a'[p] = PgRoundUp(sz[p]) /\ d'[p] = pgdir[p]
      /\ \A r \in Procs \ {p} : Same(r)
  BY <1>1 DEF Grow, Goto, TypeOK, Same, memory, image, AllocFrom
<1>5. /\ free' = free /\ page' = page /\ pgdir' = pgdir /\ mem' = mem
      /\ sz' = sz /\ child' = child /\ segs' = segs
  BY DEF Grow, memory, image
<1>6. PgRoundUp(sz[p]) \in 0..(UserTables * PerTable)
  BY <1>3, RoundUpLimit
<1>7. TypeOK'
  <2>1. pc' \in [Procs -> Codes \ {"panic"}]
    BY <1>1 DEF Grow, Goto, TypeOK, Codes
  <2>2. a' \in [Procs -> 0..(UserTables * PerTable)]
    BY <1>1, <1>6 DEF Grow, TypeOK, AllocFrom
  <2>3. lo' \in [Procs -> 0..KernBase] /\ hi' \in [Procs -> 0..KernBase]
    BY <1>1, <1>3 DEF Grow, TypeOK
  <2>4. op' \in [Procs -> {"none", "fork", "exec", "grow", "shrink", "exit"}]
    BY <1>1 DEF Grow, TypeOK
  <2>5. d' \in [Procs -> Pages \cup {None}]
    BY <1>1 DEF Grow, TypeOK
  <2> QED
    BY <1>1, <1>5, <2>1, <2>2, <2>3, <2>4, <2>5 DEF TypeOK
<1>8. pgdir[p] # None /\ d[p] = None /\ Mapped(pgdir[p]) = Below(sz[p])
  BY <1>1, <1>2 DEF CallFits, LoopFits
<1>9. \A r \in Procs : Roots(r)' = Roots(r)
  BY <1>4, <1>5, <1>8 DEF Roots, Same
<1>10. MemInv' /\ \A r \in Procs : Kept(r)
  BY <1>7, <1>5, <1>9, RootsSame DEF TypeOK
<1>11. CallFits(p)'
  BY <1>1, <1>2, <1>4, <1>5, <1>8 DEF CallFits
<1>12. Mapped(d[p])' = Upto(PgRoundUp(sz[p]))
  <2>1. Mapped(pgdir[p])' = Mapped(pgdir[p])
    BY <1>5, <1>8, <1>10, MappedKept
  <2>2. Mapped(d[p])' = Mapped(pgdir[p])'
    BY <1>4, <1>5 DEF Mapped, Walk, Table
  <2> QED
    BY <1>3, <1>8, <2>1, <2>2, BelowRoundUp
<1>13. LoopFits(p)'
  <2>1. PgRoundUp(sz[p]) <= PgRoundUp(sz[p] + n) /\ PgRoundUp(sz[p]) \in Nat
    <3>1. sz[p] + n \in Nat /\ sz[p] <= sz[p] + n
      BY <1>1, <1>2, <1>3
    <3> QED
      BY <1>3, <3>1, RoundUpMonotone, RoundUp
  <2>2. Mapped(d[p])' = Upto(a[p])'
    BY <1>4, <1>12 DEF Upto
  <2>3. a'[p] <= PgRoundUp(hi[p])' /\ PgRoundUp(lo[p])' <= a'[p]
    BY <1>4, <2>1 DEF PgRoundUp
  <2>4. lo'[p] = sz'[p] /\ lo'[p] <= hi'[p]
    BY <1>1, <1>2, <1>3, <1>4, <1>5
  <2> QED
    BY <1>4, <2>2, <2>3, <2>4 DEF LoopFits, Looping
<1>14. ExecFits(p)'
  BY <1>4 DEF ExecFits, Looping
<1> QED
  BY <1>1, <1>2, <1>4, <1>5, <1>7, <1>10, <1>11, <1>13, <1>14, FrameOne

LEMMA ShrinkStep ==
    ASSUME SpaceInv, NEW p \in Procs, NEW n \in Grows, Shrink(p, n)
    PROVE  SpaceInv'
<1>1. /\ TypeOK /\ CallFits(p) /\ LoopFits(p) /\ ExecFits(p)
      /\ segs \in [Procs -> Seq(Segments)] /\ n \in Int
  BY SpaceParts, AddressSpaceAssumption
<1>2. pc[p] = "user" /\ n < 0 /\ sz[p] + n > 0
  BY DEF Shrink
<1>3. sz[p] \in Nat /\ sz[p] <= KernBase /\ sz[p] \in 0..KernBase /\ sz[p] + n \in 0..KernBase
      /\ KernBase \in Nat
  BY <1>1, <1>2, ProcTypes, Sizes
<1>4. /\ pc'[p] = "dealloc" /\ op'[p] = "shrink" /\ lo'[p] = sz[p] + n /\ hi'[p] = sz[p]
      /\ d'[p] = pgdir[p]
      /\ \A r \in Procs \ {p} : Same(r)
  BY <1>1 DEF Shrink, Goto, TypeOK, Same, memory, image
<1>5. /\ free' = free /\ page' = page /\ pgdir' = pgdir /\ mem' = mem
      /\ sz' = sz /\ child' = child /\ segs' = segs /\ a' = a
  BY DEF Shrink, memory, image
<1>6. TypeOK'
  <2>1. pc' \in [Procs -> Codes \ {"panic"}]
    BY <1>1 DEF Shrink, Goto, TypeOK, Codes
  <2>2. lo' \in [Procs -> 0..KernBase] /\ hi' \in [Procs -> 0..KernBase]
    BY <1>1, <1>3 DEF Shrink, TypeOK
  <2>3. op' \in [Procs -> {"none", "fork", "exec", "grow", "shrink", "exit"}]
    BY <1>1 DEF Shrink, TypeOK
  <2>4. d' \in [Procs -> Pages \cup {None}]
    BY <1>1 DEF Shrink, TypeOK
  <2> QED
    BY <1>1, <1>5, <2>1, <2>2, <2>3, <2>4 DEF TypeOK
<1>7. pgdir[p] # None /\ d[p] = None /\ mem[p] = None /\ Mapped(pgdir[p]) = Below(sz[p])
  BY <1>1, <1>2 DEF CallFits, LoopFits
<1>8. \A r \in Procs : Roots(r)' = Roots(r)
  BY <1>4, <1>5, <1>7 DEF Roots, Same
<1>9. MemInv' /\ \A r \in Procs : Kept(r)
  BY <1>6, <1>5, <1>8, RootsSame DEF TypeOK
<1>10. CallFits(p)'
  BY <1>1, <1>2, <1>4, <1>5, <1>7 DEF CallFits
<1>11. Mapped(d[p])' = Below(sz[p])
  <2>1. Mapped(pgdir[p])' = Mapped(pgdir[p])
    BY <1>5, <1>7, <1>9, MappedKept
  <2>2. Mapped(d[p])' = Mapped(pgdir[p])'
    BY <1>4, <1>5 DEF Mapped, Walk, Table
  <2> QED
    BY <1>7, <2>1, <2>2
<1>12. LoopFits(p)'
  <2>1. Below(lo[p])' \subseteq Below(sz[p])
    <3>1. Below(lo[p])' = Below(sz[p] + n)
      BY <1>4 DEF Below
    <3>2. sz[p] + n \in Nat /\ sz[p] + n <= sz[p]
      BY <1>1, <1>2, <1>3
    <3> QED
      BY <1>3, <3>1, <3>2, BelowMonotone
  <2>2. Below(hi[p])' = Below(sz[p])
    BY <1>4 DEF Below
  <2>3. lo'[p] <= hi'[p] /\ hi'[p] = sz'[p]
    BY <1>1, <1>2, <1>3, <1>4, <1>5
  <2> QED
    BY <1>4, <1>11, <2>1, <2>2, <2>3 DEF LoopFits, Looping
<1>13. ExecFits(p)'
  BY <1>4 DEF ExecFits, Looping
<1> QED
  BY <1>1, <1>2, <1>4, <1>5, <1>6, <1>9, <1>10, <1>12, <1>13, FrameOne

LEMMA ExitStep ==
    ASSUME SpaceInv, NEW p \in Procs, Exit(p)
    PROVE  SpaceInv'
<1>1. /\ TypeOK /\ CallFits(p) /\ LoopFits(p) /\ ExecFits(p)
      /\ segs \in [Procs -> Seq(Segments)]
  BY SpaceParts
<1>2. pc[p] = "user" /\ d[p] = None /\ mem[p] = None /\ pgdir[p] # None /\ child[p] = p
  BY <1>1 DEF Exit, CallFits
<1>3. /\ pc'[p] = "freevm" /\ op'[p] = "exit" /\ d'[p] = pgdir[p] /\ pgdir'[p] = None
      /\ sz'[p] = 0
      /\ \A r \in Procs \ {p} : Same(r)
  BY <1>1 DEF Exit, Goto, TypeOK, Same, memory, loop
<1>4. /\ free' = free /\ page' = page /\ mem' = mem /\ child' = child /\ segs' = segs
      /\ lo' = lo /\ hi' = hi /\ a' = a
  BY DEF Exit, memory, loop
<1>5. TypeOK'
  <2>1. pc' \in [Procs -> Codes \ {"panic"}]
    BY <1>1 DEF Exit, Goto, TypeOK, Codes
  <2>2. sz' \in [Procs -> 0..KernBase]
    BY <1>1, Sizes DEF Exit, TypeOK
  <2>3. op' \in [Procs -> {"none", "fork", "exec", "grow", "shrink", "exit"}]
    BY <1>1 DEF Exit, TypeOK
  <2>4. d' \in [Procs -> Pages \cup {None}] /\ pgdir' \in [Procs -> Pages \cup {None}]
    BY <1>1 DEF Exit, TypeOK
  <2> QED
    BY <1>1, <1>4, <2>1, <2>2, <2>3, <2>4 DEF TypeOK
<1>6. \A r \in Procs : Roots(r)' = Roots(r)
  BY <1>2, <1>3 DEF Roots, Same
<1>7. MemInv' /\ \A r \in Procs : Kept(r)
  BY <1>5, <1>4, <1>6, RootsSame DEF TypeOK
<1>8. CallFits(p)'
  BY <1>1, <1>2, <1>3, <1>4 DEF CallFits
<1>9. LoopFits(p)' /\ ExecFits(p)'
  BY <1>3 DEF LoopFits, ExecFits, Looping
<1> QED
  BY <1>1, <1>2, <1>3, <1>4, <1>5, <1>7, <1>8, <1>9, FrameOne

(* A call returns: a child that fork has not finished is given up. *)
LEMMA Returns ==
    ASSUME SpaceInv, NEW p \in Procs, Return(p),
           op[p] \notin {"none", "exit"},
           MemInv', free' \subseteq Pages,
           \A q \in Procs \ {p} : Kept(q),
           pgdir' = pgdir, d' \in [Procs -> Pages \cup {None}],
           \A q \in Procs : d'[q] = IF q = p THEN None ELSE d[q],
           mem' = mem, mem[p] = None,
           sz' \in [Procs -> 0..KernBase], \A q \in Procs \ {p} : sz'[q] = sz[q],
           Mapped(pgdir[p])' = Below(sz[p])'
    PROVE  SpaceInv'
<1>0. PICK c : c = child[p]
  OBVIOUS
<1>1. /\ TypeOK /\ CallFits(p) /\ LoopFits(p) /\ ExecFits(p)
      /\ segs \in [Procs -> Seq(Segments)] /\ c \in Procs /\ CallFits(c)
  BY <1>0, SpaceParts, ProcTypes
<1>2. IF op[p] = "fork" THEN c # p /\ pc[c] = "embryo" ELSE c = p
  BY <1>0, <1>1 DEF CallFits
<1>3. pc[p] \notin {"unused", "embryo", "user"} /\ pgdir[p] # None
  BY <1>1 DEF CallFits
<1>4. /\ pc'[p] = "user" /\ op'[p] = "none" /\ child'[p] = p /\ segs'[p] = <<>>
      /\ lo'[p] = 0 /\ hi'[p] = 0 /\ a'[p] = 0
      /\ c # p => pc'[c] = "unused"
      /\ \A q \in Procs \ {p, c} : pc'[q] = pc[q]
      /\ \A q \in Procs \ {p} :
            /\ op'[q] = op[q] /\ child'[q] = child[q] /\ segs'[q] = segs[q]
            /\ lo'[q] = lo[q] /\ hi'[q] = hi[q] /\ a'[q] = a[q]
  BY <1>0, <1>1 DEF Return, TypeOK
<1>5. TypeOK'
  <2>1. pc' \in [Procs -> Codes \ {"panic"}]
    BY <1>1 DEF Return, TypeOK, Codes
  <2>2. op' \in [Procs -> {"none", "fork", "exec", "grow", "shrink", "exit"}]
        /\ child' \in [Procs -> Procs]
    BY <1>1 DEF Return, TypeOK
  <2>3. lo' \in [Procs -> 0..KernBase] /\ hi' \in [Procs -> 0..KernBase]
    <3>1. 0 \in 0..KernBase
      BY Sizes
    <3> QED
      BY <1>1, <3>1 DEF Return, TypeOK
  <2>4. a' \in [Procs -> 0..(UserTables * PerTable)]
    BY <1>1, Sizes DEF Return, TypeOK
  <2> QED
    BY <1>1, <2>1, <2>2, <2>3, <2>4 DEF TypeOK
<1>6. segs' \in [Procs -> Seq(Segments)]
  <2>1. <<>> \in Seq(Segments)
    OBVIOUS
  <2> QED
    BY <1>1, <2>1 DEF Return
<1>7. \A q \in Procs \ {p, c} : Same(q) /\ Kept(q)
  BY <1>4 DEF Same
<1>8. CallFits(p)' /\ LoopFits(p)' /\ ExecFits(p)'
  BY <1>3, <1>4 DEF CallFits, LoopFits, ExecFits, Looping
<1>9. c # p => CallFits(c)' /\ LoopFits(c)' /\ ExecFits(c)'
  BY <1>1, <1>2, <1>4 DEF CallFits, LoopFits, ExecFits, Looping
<1>10. PICK S \in SUBSET Procs : S = {p, c}
  BY <1>1
<1>11. \A q \in S : CallFits(q)' /\ LoopFits(q)' /\ ExecFits(q)'
  BY <1>8, <1>9, <1>10
<1>12. \A q \in S : op'[q] # "fork"
  BY <1>1, <1>2, <1>4, <1>10 DEF CallFits
<1>13. \A q \in S : pc[q] = "embryo" => \E r \in S : op[r] = "fork" /\ child[r] = q
  BY <1>0, <1>2, <1>3, <1>10
<1>14. \A q \in Procs \ S : Same(q) /\ Kept(q)
  BY <1>7, <1>10
<1>15. \A q \in S : op'[q] = "fork" =>
          (op[q] = "fork" /\ child'[q] = child[q]) \/ pc[child'[q]] # "embryo"
  BY <1>12
<1>16. \A q, r \in S : op'[q] = "fork" /\ op'[r] = "fork" => q = r
  BY <1>12
<1> QED
  BY <1>5, <1>6, <1>11, <1>13, <1>14, <1>15, <1>16, Frame

(* A step that only changes the place of p. *)
LEMMA GotoStep ==
    ASSUME SpaceInv, NEW p \in Procs, NEW s \in Codes \ {"panic"}, pc[p] # "embryo",
           Goto(p, s),
           UNCHANGED <<free, page, pgdir, sz, op, child, segs, d, lo, hi, a, mem>>
    PROVE  /\ pc'[p] = s
           /\ d[p] # None => Mapped(d[p])' = Mapped(d[p])
           /\ pgdir[p] # None => Mapped(pgdir[p])' = Mapped(pgdir[p])
           /\ Below(lo[p])' = Below(lo[p]) /\ Below(hi[p])' = Below(hi[p])
           /\ Below(sz[p])' = Below(sz[p]) /\ Upto(a[p])' = Upto(a[p])
           /\ PgRoundUp(lo[p])' = PgRoundUp(lo[p]) /\ PgRoundUp(hi[p])' = PgRoundUp(hi[p])
           /\ End(p)' = End(p)
           /\ CallFits(p)' /\ LoopFits(p)' /\ ExecFits(p)' => SpaceInv'
<1>1. TypeOK /\ segs \in [Procs -> Seq(Segments)]
  BY SpaceParts
<1>2. pc'[p] = s /\ \A q \in Procs \ {p} : Same(q)
  BY <1>1 DEF Goto, TypeOK, Same
<1>3. TypeOK'
  <2>1. pc' \in [Procs -> Codes \ {"panic"}]
    BY <1>1 DEF Goto, TypeOK
  <2> QED
    BY <1>1, <2>1 DEF TypeOK
<1>4. MemInv' /\ \A q \in Procs : Kept(q)
  BY MemSame
<1>5. /\ d[p] # None => Mapped(d[p])' = Mapped(d[p])
      /\ pgdir[p] # None => Mapped(pgdir[p])' = Mapped(pgdir[p])
  BY <1>4, MappedKept
<1>6. /\ Below(lo[p])' = Below(lo[p]) /\ Below(hi[p])' = Below(hi[p])
      /\ Below(sz[p])' = Below(sz[p]) /\ Upto(a[p])' = Upto(a[p])
      /\ PgRoundUp(lo[p])' = PgRoundUp(lo[p]) /\ PgRoundUp(hi[p])' = PgRoundUp(hi[p])
      /\ End(p)' = End(p)
  BY DEF Below, Upto, PgRoundUp, End
<1>7. ASSUME CallFits(p)', LoopFits(p)', ExecFits(p)' PROVE SpaceInv'
  BY <1>1, <1>2, <1>3, <1>4, <1>7, FrameOne
<1> QED
  BY <1>2, <1>5, <1>6, <1>7

-----------------------------------------------------------------------------
(* setupkvm *)

LEMMA KvmDirStep ==
    ASSUME SpaceInv, NEW p \in Procs, KvmDir(p)
    PROVE  SpaceInv'
<1>1. /\ TypeOK /\ CallFits(p) /\ LoopFits(p) /\ ExecFits(p)
      /\ segs \in [Procs -> Seq(Segments)]
  BY SpaceParts
<1>2. /\ pc[p] = "kvmdir" /\ d[p] = None /\ mem[p] = None /\ pgdir[p] # None
      /\ op[p] \in {"fork", "exec"}
      /\ Mapped(pgdir[p]) = Below(sz[p])
  BY <1>1 DEF KvmDir, CallFits, LoopFits
<1>3. pgdir' = pgdir /\ sz' = sz /\ mem' = mem
  BY DEF KvmDir, image
<1>4. CASE free = {} /\ Return(p) /\ UNCHANGED <<memory, d>>
  <2>1. free' = free /\ page' = page /\ d' = d
    BY <1>4 DEF memory
  <2>2. MemInv' /\ \A q \in Procs : Kept(q)
    BY <1>3, <2>1, MemSame
  <2>3. Mapped(pgdir[p])' = Below(sz[p])'
    <3>1. Below(sz[p])' = Below(sz[p])
      BY <1>3 DEF Below
    <3> QED
      BY <1>2, <1>3, <2>2, <3>1, MappedKept
  <2>4. free' \subseteq Pages /\ d' \in [Procs -> Pages \cup {None}]
        /\ sz' \in [Procs -> 0..KernBase]
    BY <1>1, <1>3, <2>1 DEF TypeOK
  <2>5. \A q \in Procs : d'[q] = IF q = p THEN None ELSE d[q]
    BY <1>2, <2>1
  <2> QED
    BY <1>2, <1>3, <1>4, <2>2, <2>3, <2>4, <2>5, Returns
<1>5. CASE \E g \in Pages :
             /\ First(g)
             /\ free' = free \ {g}
             /\ page' = [page EXCEPT ![g] = EmptyDir]
             /\ d' = [d EXCEPT ![p] = g]
             /\ Goto(p, "kvmtable")
             /\ UNCHANGED <<call, loop>>
  <2>1. PICK g \in free :
             /\ free' = free \ {g}
             /\ page' = [page EXCEPT ![g] = EmptyDir]
             /\ d' = [d EXCEPT ![p] = g]
             /\ Goto(p, "kvmtable")
             /\ UNCHANGED <<call, loop>>
    BY <1>5 DEF First
  <2>2. g \in Pages /\ g # None /\ g \notin Dirs /\ pgdir[p] # g
    BY SpaceMem, MemParts, NoneApart, DirInUse DEF MemTypes, PagesApart
  <2>3. MemInv' /\ \A e \in Dirs : TreeKept(e)
    BY <1>2, <1>3, <2>1, <2>2, DirMade, SpaceMem
  <2>4. \A q \in Procs : Kept(q)
    BY <2>3, AllKept
  <2>5. /\ op' = op /\ child' = child /\ segs' = segs /\ lo' = lo /\ hi' = hi /\ a' = a
    BY <2>1 DEF call, loop
  <2>6. /\ pc'[p] = "kvmtable" /\ d'[p] = g
        /\ \A q \in Procs \ {p} : Same(q)
    BY <1>1, <1>3, <2>1, <2>5 DEF Goto, TypeOK, Same
  <2>7. TypeOK'
    <3>1. pc' \in [Procs -> Codes \ {"panic"}]
      BY <1>1, <2>1 DEF Goto, TypeOK, Codes
    <3>2. d' \in [Procs -> Pages \cup {None}] /\ free' \subseteq Pages
      BY <1>1, <2>1, <2>2 DEF TypeOK
    <3> QED
      BY <1>1, <1>3, <2>5, <3>1, <3>2 DEF TypeOK
  <2>8. CallFits(p)'
    <3>1. op[p] = "fork" => child[p] # p /\ pc'[child[p]] = pc[child[p]]
      <4>1. op[p] = "fork" => child[p] \in Procs \ {p}
        BY <1>1, ProcTypes DEF CallFits
      <4> QED
        BY <2>6, <4>1 DEF Same
    <3> QED
      BY <1>1, <1>2, <1>3, <2>2, <2>5, <2>6, <3>1 DEF CallFits
  <2>9. Mapped(pgdir[p])' = Below(sz[p])'
    <3>1. Below(sz[p])' = Below(sz[p])
      BY <1>3 DEF Below
    <3> QED
      BY <1>2, <1>3, <2>4, <3>1, MappedKept
  <2>10. LoopFits(p)'
    BY <1>1, <1>2, <1>3, <2>5, <2>6, <2>9 DEF LoopFits, Looping
  <2>11. page'[g] = EmptyDir
    BY <2>1, <2>2, SpaceMem, MemParts DEF PageTypes
  <2>12. ExecFits(p)'
    BY <1>1, <1>2, <2>5, <2>6, <2>11 DEF ExecFits, Looping
  <2> QED
    BY <1>1, <1>2, <2>3, <2>4, <2>5, <2>6, <2>7, <2>8, <2>10, <2>12, FrameOne
<1> QED
  BY <1>4, <1>5 DEF KvmDir

LEMMA ChildKept ==
    ASSUME SpaceInv, NEW p \in Procs, \A q \in Procs \ {p} : Same(q), child'[p] = child[p]
    PROVE  IF op[p] = "fork" THEN child'[p] # p /\ pc'[child'[p]] = "embryo" ELSE child'[p] = p
<1>1. CallFits(p) /\ child[p] \in Procs
  BY SpaceParts, ProcTypes
<1> QED
  BY <1>1 DEF CallFits, Same

LEMMA KvmTableStep ==
    ASSUME SpaceInv, NEW p \in Procs, KvmTable(p)
    PROVE  SpaceInv'
<1>1. /\ TypeOK /\ CallFits(p) /\ LoopFits(p) /\ ExecFits(p)
      /\ segs \in [Procs -> Seq(Segments)]
  BY SpaceParts
<1>2. /\ pc[p] = "kvmtable" /\ d[p] # None /\ mem[p] = None /\ pgdir[p] # None
      /\ op[p] \in {"fork", "exec"} /\ d[p] # pgdir[p]
      /\ Mapped(pgdir[p]) = Below(sz[p])
      /\ page[d[p]] = EmptyDir
  BY <1>1 DEF KvmTable, CallFits, LoopFits, ExecFits
<1>3. /\ pgdir' = pgdir /\ sz' = sz /\ mem' = mem /\ op' = op /\ child' = child /\ segs' = segs
      /\ lo' = lo /\ hi' = hi /\ a' = a /\ d' = d
  BY DEF KvmTable, image, call, loop
<1>4. CASE free = {} /\ Goto(p, "freevm") /\ UNCHANGED memory
  <2>1. free' = free /\ page' = page
    BY <1>4 DEF memory
  <2>2. "freevm" \in Codes \ {"panic"}
    BY DEF Codes
  <2>3. /\ pc'[p] = "freevm"
        /\ pgdir[p] # None => Mapped(pgdir[p])' = Mapped(pgdir[p])
        /\ Below(sz[p])' = Below(sz[p])
        /\ CallFits(p)' /\ LoopFits(p)' /\ ExecFits(p)' => SpaceInv'
    BY <1>2, <1>3, <1>4, <2>1, <2>2, GotoStep
  <2>4. \A q \in Procs \ {p} : Same(q)
    BY <1>1, <1>3, <1>4 DEF Goto, TypeOK, Same
  <2>5. CallFits(p)'
    BY <1>1, <1>2, <1>3, <2>3, <2>4, ChildKept DEF CallFits
  <2>6. LoopFits(p)' /\ ExecFits(p)'
    BY <1>1, <1>2, <1>3, <2>3 DEF LoopFits, ExecFits, Looping
  <2> QED
    BY <2>3, <2>5, <2>6
<1>5. CASE \E g \in Pages :
             /\ First(g)
             /\ free' = free \ {g}
             /\ page' = [page EXCEPT ![g] = EmptyTable, ![d[p]][UserTables] = g]
             /\ Goto(p, IF op[p] = "fork" THEN "alloc" ELSE "segment")
  <2>1. PICK g \in free :
             /\ free' = free \ {g}
             /\ page' = [page EXCEPT ![g] = EmptyTable, ![d[p]][UserTables] = g]
             /\ Goto(p, IF op[p] = "fork" THEN "alloc" ELSE "segment")
    BY <1>5 DEF First
  <2>2. PICK x : x = d[p]
    OBVIOUS
  <2>3. x \in Dirs /\ x \in Roots(p) /\ x # None /\ x # pgdir[p] /\ d'[p] = x
    BY <1>2, <1>3, <2>2, DirInUse DEF Roots
  <2>4. g \in Pages /\ g \notin Dirs /\ x \in Pages /\ DOMAIN page = Pages
    BY <2>3, SpaceMem, MemParts DEF MemTypes, PagesApart, PageTypes
  <2>5. page[x] = EmptyDir
    BY <1>2, <2>2
  <2>6. /\ DOMAIN page' = Pages
        /\ page'[g] = EmptyTable
        /\ page'[x] = [EmptyDir EXCEPT ![UserTables] = g]
        /\ \A h \in Pages : h # g /\ h # x => page'[h] = page[h]
    BY <2>1, <2>2, <2>3, <2>4, <2>5
  <2>7. /\ MemInv'
        /\ \A e \in Dirs \ {x} : TreeKept(e)
        /\ \A s \in Pdes : page'[x][s] = IF s = UserTables THEN g ELSE None
    BY <1>3, <2>1, <2>3, <2>5, <2>6, TableMade, SpaceMem
  <2>8. \A q \in Procs \ {p} : Kept(q)
    BY <2>3, <2>7, TreesApart
  <2>9. pc'[p] = (IF op[p] = "fork" THEN "alloc" ELSE "segment")
        /\ \A q \in Procs \ {p} : Same(q)
    BY <1>1, <1>3, <2>1 DEF Goto, TypeOK, Same
  <2>10. TypeOK'
    <3>1. pc' \in [Procs -> Codes \ {"panic"}]
      BY <1>1, <2>1 DEF Goto, TypeOK, Codes
    <3>2. free' \subseteq Pages
      BY <1>1, <2>1 DEF TypeOK
    <3> QED
      BY <1>1, <1>3, <3>1, <3>2 DEF TypeOK
  <2>11. CallFits(p)'
    BY <1>1, <1>2, <1>3, <2>9, ChildKept DEF CallFits
  <2>12. Mapped(pgdir[p])' = Below(sz[p])'
    <3>1. PICK y : y = pgdir[p]
      OBVIOUS
    <3>2. y \in Dirs /\ TreeKept(y)
      BY <1>2, <2>3, <2>7, <3>1, DirInUse
    <3>3. Mapped(y)' = Mapped(y)
      BY <3>2, KeptMapped, SpaceMem
    <3>4. Mapped(pgdir[p])' = Mapped(y)'
      BY <1>3, <3>1 DEF Mapped, Walk, Table
    <3>5. Below(sz[p])' = Below(sz[p])
      BY <1>3 DEF Below
    <3> QED
      BY <1>2, <3>1, <3>3, <3>4, <3>5
  <2>13. Mapped(d[p])' = {}
    <3>1. Mapped(x)' = {}
      BY <2>7, NothingMapped
    <3> QED
      BY <2>3, <3>1 DEF Mapped, Walk, Table
  <2>14. UserPages \subseteq Nat
    BY Sizes DEF UserPages
  <2>15. LoopFits(p)'
    <3>1. op[p] = "fork" => a[p] = 0
      BY <1>1, <1>2 DEF LoopFits
    <3>2. op[p] = "fork" => Mapped(d[p])' = Upto(a[p])'
      BY <1>3, <2>13, <2>14, <3>1 DEF Upto
    <3>3. op[p] = "fork" => a'[p] <= PgRoundUp(hi[p])'
      <4>1. PgRoundUp(hi[p]) \in Nat
        BY <1>1, ProcTypes, RoundUp
      <4> QED
        BY <1>3, <3>1, <4>1 DEF PgRoundUp
    <3> QED
      BY <1>1, <1>2, <1>3, <2>9, <2>12, <3>2, <3>3 DEF LoopFits, Looping
  <2>16. ExecFits(p)'
    <3>1. op[p] = "exec" => Below(lo[p])' = {}
      <4>1. \A v \in UserPages : ~(v * PgSize < 0)
        BY <2>14, Sizes
      <4> QED
        BY <1>1, <1>2, <1>3, <4>1 DEF ExecFits, Below
    <3> QED
      BY <1>1, <1>2, <1>3, <2>9, <2>13, <3>1 DEF ExecFits, Looping
  <2> QED
    BY <1>1, <1>2, <1>3, <2>7, <2>8, <2>9, <2>10, <2>11, <2>15, <2>16, FrameOne
<1> QED
  BY <1>4, <1>5 DEF KvmTable

-----------------------------------------------------------------------------
(* The loops of allocuvm and copyuvm *)

(* A step of p in the directory it holds. *)
LEMMA TreeStep ==
    ASSUME SpaceInv, NEW p \in Procs, NEW x, x = d[p], x # None, pc[p] # "embryo",
           pgdir' = pgdir, sz' = sz, op' = op, child' = child, d' = d, lo' = lo, hi' = hi,
           MemInv', \A e \in Dirs \ {x} : TreeKept(e),
           TypeOK', segs' \in [Procs -> Seq(Segments)],
           \A q \in Procs \ {p} : Same(q)
    PROVE  /\ Mapped(d[p])' = Mapped(x)'
           /\ pgdir[p] # None /\ pgdir[p] # x => Mapped(pgdir[p])' = Mapped(pgdir[p])
           /\ Below(lo[p])' = Below(lo[p]) /\ Below(hi[p])' = Below(hi[p])
           /\ Below(sz[p])' = Below(sz[p])
           /\ PgRoundUp(lo[p])' = PgRoundUp(lo[p]) /\ PgRoundUp(hi[p])' = PgRoundUp(hi[p])
           /\ IF op'[p] = "fork" THEN child'[p] # p /\ pc'[child'[p]] = "embryo"
                                 ELSE child'[p] = p
           /\ CallFits(p)' /\ LoopFits(p)' /\ ExecFits(p)' => SpaceInv'
<1>1. x \in Roots(p)
  BY DEF Roots
<1>2. /\ \A q \in Procs \ {p} : Kept(q)
      /\ \A e \in Roots(p) : e # x => TreeKept(e)
  BY <1>1, TreesApart
<1>3. Mapped(d[p])' = Mapped(x)'
  BY MappedAt
<1>4. ASSUME pgdir[p] # None, pgdir[p] # x
      PROVE  Mapped(pgdir[p])' = Mapped(pgdir[p])
  <2>1. PICK y : y = pgdir[p]
    OBVIOUS
  <2>2. y \in Dirs /\ TreeKept(y)
    BY <1>2, <1>4, <2>1, DirInUse DEF Roots
  <2>3. Mapped(y)' = Mapped(y)
    BY <2>2, KeptMapped, SpaceMem
  <2> QED
    BY <2>1, <2>3, MappedAt
<1>5. /\ Below(lo[p])' = Below(lo[p]) /\ Below(hi[p])' = Below(hi[p])
      /\ Below(sz[p])' = Below(sz[p])
      /\ PgRoundUp(lo[p])' = PgRoundUp(lo[p]) /\ PgRoundUp(hi[p])' = PgRoundUp(hi[p])
  BY DEF Below, PgRoundUp
<1>6. IF op'[p] = "fork" THEN child'[p] # p /\ pc'[child'[p]] = "embryo" ELSE child'[p] = p
  BY ChildKept
<1>7. ASSUME CallFits(p)', LoopFits(p)', ExecFits(p)' PROVE SpaceInv'
  BY <1>2, <1>7, FrameOne
<1> QED
  BY <1>3, <1>4, <1>5, <1>6, <1>7

(* The page that the loop has come to. *)
LEMMA PageOfLoop ==
    ASSUME NEW v \in Nat, NEW n \in Nat, n <= KernBase, v * PgSize < n
    PROVE  v \in UserPages /\ v < PgRoundUp(n) /\ v + 1 \in 0..(UserTables * PerTable)
<1>1. v < PgRoundUp(n)
  BY RoundUp
<1>2. PgRoundUp(n) \in 0..(UserTables * PerTable)
  BY RoundUpLimit, Sizes
<1> QED
  BY <1>1, <1>2, Sizes DEF UserPages

LEMMA UptoMonotone ==
    ASSUME NEW j \in Nat, NEW k \in Nat, j <= k
    PROVE  Upto(j) \subseteq Upto(k)
BY Sizes DEF Upto, UserPages

(* allocuvm of sbrk has changed nothing below the old size and nothing     *)
(* from the new one on.                                                    *)
LEMMA GrowBounds ==
    ASSUME SpaceInv, NEW p \in Procs, op[p] = "grow", Looping(p)
    PROVE  Below(lo[p]) \subseteq Mapped(d[p]) /\ Mapped(d[p]) \subseteq Below(hi[p])
<1>1. TypeOK /\ LoopFits(p)
  BY SpaceParts
<1>2. lo[p] \in Nat /\ hi[p] \in Nat /\ a[p] \in Nat
  BY <1>1, ProcTypes
<1>3. PgRoundUp(lo[p]) <= a[p] /\ a[p] <= PgRoundUp(hi[p]) /\ Mapped(d[p]) = Upto(a[p])
  BY <1>1 DEF LoopFits
<1>4. PgRoundUp(lo[p]) \in Nat /\ PgRoundUp(hi[p]) \in Nat
  BY <1>2, RoundUp
<1> QED
  BY <1>2, <1>3, <1>4, BelowRoundUp, UptoMonotone

(* kalloc fails: copyuvm goes to freevm or has the page to drop, allocuvm  *)
(* calls deallocuvm.                                                       *)
LEMMA LoopFails ==
    ASSUME SpaceInv, NEW p \in Procs, NEW s, Looping(p), Goto(p, s),
           s = IF op[p] # "fork" THEN "dealloc"
               ELSE IF pc[p] = "map" THEN "drop" ELSE "freevm",
           UNCHANGED <<free, page, pgdir, sz, op, child, segs, d, lo, hi, a, mem>>
    PROVE  SpaceInv'
<1>1. TypeOK /\ CallFits(p) /\ LoopFits(p) /\ ExecFits(p)
  BY SpaceParts
<1>2. pc[p] \in {"alloc", "map"} /\ op[p] \in {"fork", "exec", "grow"} /\ d[p] # None
      /\ (mem[p] # None <=> pc[p] = "map") /\ pgdir[p] # None
  BY <1>1 DEF Looping, CallFits
<1>3. s \in Codes \ {"panic"} /\ s \in {"dealloc", "drop", "freevm"}
  BY DEF Codes
<1>4. /\ pc'[p] = s
      /\ Mapped(d[p])' = Mapped(d[p]) /\ Mapped(pgdir[p])' = Mapped(pgdir[p])
      /\ Below(lo[p])' = Below(lo[p]) /\ Below(hi[p])' = Below(hi[p])
      /\ Below(sz[p])' = Below(sz[p])
      /\ CallFits(p)' /\ LoopFits(p)' /\ ExecFits(p)' => SpaceInv'
  BY <1>2, <1>3, GotoStep
<1>5. \A q \in Procs \ {p} : Same(q)
  BY <1>1 DEF Goto, TypeOK, Same
<1>6. CallFits(p)'
  BY <1>1, <1>2, <1>3, <1>4, <1>5, ChildKept DEF CallFits
<1>7. op[p] = "grow" =>
        Below(lo[p]) \subseteq Mapped(d[p]) /\ Mapped(d[p]) \subseteq Below(hi[p])
  BY GrowBounds
<1>8. LoopFits(p)'
  BY <1>1, <1>2, <1>3, <1>4, <1>7 DEF LoopFits, Looping
<1>9. ExecFits(p)'
  BY <1>3, <1>4 DEF ExecFits, Looping
<1> QED
  BY <1>4, <1>6, <1>8, <1>9

LEMMA GetPageStep ==
    ASSUME SpaceInv, NEW p \in Procs, GetPage(p)
    PROVE  SpaceInv'
<1>1. /\ TypeOK /\ CallFits(p) /\ LoopFits(p) /\ ExecFits(p)
      /\ segs \in [Procs -> Seq(Segments)]
  BY SpaceParts
<1>2. /\ pc[p] = "alloc" /\ d[p] # None /\ mem[p] = None /\ pgdir[p] # None
      /\ op[p] \in {"fork", "exec", "grow"}
      /\ a[p] * PgSize < hi[p]
  BY <1>1 DEF GetPage, CallFits
<1>3. /\ pgdir' = pgdir /\ sz' = sz /\ op' = op /\ child' = child /\ segs' = segs
      /\ lo' = lo /\ hi' = hi /\ a' = a /\ d' = d
  BY DEF GetPage, image, call, loop
<1>4. a[p] \in UserPages
  BY <1>1, <1>2, ProcTypes, PageOfLoop
<1>5. ~CopyPanics(p)
  <2>1. ASSUME op[p] = "fork" PROVE a[p] \in Mapped(pgdir[p])
    <3>1. Mapped(pgdir[p]) = Below(sz[p]) /\ hi[p] = sz[p]
      BY <1>1, <1>2, <2>1 DEF LoopFits
    <3> QED
      BY <1>2, <1>4, <3>1 DEF Below
  <2> QED
    BY <2>1 DEF CopyPanics
<1>6. CASE free = {} /\ Goto(p, FailsTo(p)) /\ UNCHANGED <<memory, mem>>
  <2>1. free' = free /\ page' = page /\ mem' = mem /\ Looping(p)
    BY <1>2, <1>6 DEF memory, Looping
  <2>2. FailsTo(p) = IF op[p] # "fork" THEN "dealloc"
                     ELSE IF pc[p] = "map" THEN "drop" ELSE "freevm"
    BY <1>2 DEF FailsTo
  <2> QED
    BY <1>3, <1>6, <2>1, <2>2, LoopFails
<1>7. CASE /\ \E g \in Pages :
                 /\ First(g)
                 /\ free' = free \ {g}
                 /\ page' = [page EXCEPT ![g] = Fill(p)]
                 /\ mem' = [mem EXCEPT ![p] = g]
           /\ Goto(p, "map")
  <2>1. PICK g \in free :
             /\ free' = free \ {g}
             /\ page' = [page EXCEPT ![g] = Fill(p)]
             /\ mem' = [mem EXCEPT ![p] = g]
    BY <1>7 DEF First
  <2>2. g \in Pages /\ g # None
    BY SpaceMem, MemParts, NoneApart DEF MemTypes
  <2>3. PICK x : x = d[p]
    OBVIOUS
  <2>4. PICK c : c = Fill(p)
    OBVIOUS
  <2>5. page' = [page EXCEPT ![g] = c]
    BY <2>1, <2>4
  <2>6. MemInv' /\ \A e \in Dirs : TreeKept(e)
    BY <1>2, <1>3, <2>1, <2>5, PageGot, SpaceMem
  <2>7. x \in Dirs /\ x # None
    BY <1>2, <2>3, DirInUse
  <2>8. Mapped(x)' = Mapped(d[p])
    BY <2>3, <2>6, <2>7, KeptMapped, SpaceMem
  <2>9. pc'[p] = "map" /\ mem'[p] = g /\ \A q \in Procs \ {p} : Same(q)
    BY <1>1, <1>3, <1>7, <2>1 DEF Goto, TypeOK, Same
  <2>10. TypeOK'
    <3>1. pc' \in [Procs -> Codes \ {"panic"}]
      BY <1>1, <1>7 DEF Goto, TypeOK, Codes
    <3>2. mem' \in [Procs -> Pages \cup {None}] /\ free' \subseteq Pages
      BY <1>1, <2>1, <2>2 DEF TypeOK
    <3> QED
      BY <1>1, <1>3, <3>1, <3>2 DEF TypeOK
  <2>11. /\ Mapped(d[p])' = Mapped(x)'
         /\ pgdir[p] # None /\ pgdir[p] # x => Mapped(pgdir[p])' = Mapped(pgdir[p])
         /\ Below(sz[p])' = Below(sz[p])
         /\ PgRoundUp(lo[p])' = PgRoundUp(lo[p]) /\ PgRoundUp(hi[p])' = PgRoundUp(hi[p])
         /\ IF op'[p] = "fork" THEN child'[p] # p /\ pc'[child'[p]] = "embryo"
                               ELSE child'[p] = p
         /\ CallFits(p)' /\ LoopFits(p)' /\ ExecFits(p)' => SpaceInv'
    BY <1>1, <1>2, <1>3, <2>3, <2>6, <2>7, <2>9, <2>10, TreeStep
  <2>12. CallFits(p)'
    BY <1>1, <1>2, <1>3, <2>2, <2>9, <2>11 DEF CallFits
  <2>13. Upto(a[p])' = Upto(a[p]) /\ End(p)' = End(p)
    BY <1>3 DEF Upto, End
  <2>14. op[p] \in {"fork", "exec"} => pgdir[p] # x
    BY <1>1, <2>3 DEF CallFits
  <2>15. LoopFits(p)'
    BY <1>1, <1>2, <1>3, <2>8, <2>9, <2>11, <2>13, <2>14 DEF LoopFits, Looping
  <2>16. ExecFits(p)'
    BY <1>1, <1>2, <1>3, <2>9, <2>13 DEF ExecFits, Looping
  <2> QED
    BY <2>11, <2>12, <2>15, <2>16
<1> QED
  BY <1>5, <1>6, <1>7 DEF GetPage

(* The page is mapped, the loop goes on with the next one. *)
LEMMA LoopGoesOn ==
    ASSUME SpaceInv, NEW p \in Procs, NEW x, x = d[p], pc[p] = "map",
           pgdir' = pgdir, sz' = sz, op' = op, child' = child, d' = d, lo' = lo, hi' = hi,
           segs' = segs,
           Goto(p, "alloc"),
           mem' = [mem EXCEPT ![p] = None],
           a' = [a EXCEPT ![p] = @ + 1],
           MemInv', \A e \in Dirs \ {x} : TreeKept(e),
           Mapped(x)' = Mapped(x) \cup {a[p]}
    PROVE  SpaceInv'
<1>1. /\ TypeOK /\ CallFits(p) /\ LoopFits(p) /\ ExecFits(p)
      /\ segs \in [Procs -> Seq(Segments)]
  BY SpaceParts
<1>2. /\ d[p] # None /\ pgdir[p] # None /\ op[p] \in {"fork", "exec", "grow"}
      /\ op[p] \in {"fork", "exec"} => pgdir[p] # x
      /\ a[p] * PgSize < hi[p]
      /\ Mapped(x) = Upto(a[p])
  BY <1>1 DEF CallFits, LoopFits, Looping
<1>3. /\ a[p] \in Nat /\ a[p] \in UserPages /\ a[p] < PgRoundUp(hi[p])
      /\ a[p] + 1 \in 0..(UserTables * PerTable)
      /\ PgRoundUp(lo[p]) \in Nat /\ PgRoundUp(hi[p]) \in Nat
  BY <1>1, <1>2, ProcTypes, PageOfLoop, RoundUp
<1>4. /\ pc'[p] = "alloc" /\ mem'[p] = None /\ a'[p] = a[p] + 1
      /\ \A q \in Procs \ {p} : Same(q)
  BY <1>1 DEF Goto, TypeOK, Same
<1>5. TypeOK'
  <2>1. pc' \in [Procs -> Codes \ {"panic"}]
    BY <1>1 DEF Goto, TypeOK, Codes
  <2>2. a' \in [Procs -> 0..(UserTables * PerTable)]
    BY <1>1, <1>3 DEF TypeOK
  <2>3. mem' \in [Procs -> Pages \cup {None}] /\ free' \subseteq Pages
    BY DEF MemInv, MemTypes
  <2> QED
    BY <1>1, <2>1, <2>2, <2>3 DEF TypeOK
<1>6. /\ Mapped(d[p])' = Mapped(x)'
      /\ pgdir[p] # None /\ pgdir[p] # x => Mapped(pgdir[p])' = Mapped(pgdir[p])
      /\ Below(sz[p])' = Below(sz[p])
      /\ PgRoundUp(lo[p])' = PgRoundUp(lo[p]) /\ PgRoundUp(hi[p])' = PgRoundUp(hi[p])
      /\ IF op'[p] = "fork" THEN child'[p] # p /\ pc'[child'[p]] = "embryo"
                            ELSE child'[p] = p
      /\ CallFits(p)' /\ LoopFits(p)' /\ ExecFits(p)' => SpaceInv'
  BY <1>1, <1>2, <1>4, <1>5, TreeStep
<1>7. CallFits(p)'
  BY <1>1, <1>2, <1>4, <1>6 DEF CallFits
<1>8. End(p)' = End(p)
  BY DEF End
<1>9. Mapped(d[p])' = Upto(a[p])'
  <2>1. \A v \in UserPages : v < a[p] + 1 <=> v < a[p] \/ v = a[p]
    BY <1>3, Sizes DEF UserPages
  <2> QED
    BY <1>2, <1>3, <1>4, <1>6, <2>1 DEF Upto
<1>10. a'[p] <= PgRoundUp(hi[p])' /\ (op[p] = "grow" => PgRoundUp(lo[p])' <= a'[p])
  <2>1. op[p] = "grow" => PgRoundUp(lo[p]) <= a[p]
    BY <1>1 DEF LoopFits, Looping
  <2> QED
    BY <1>3, <1>4, <1>6, <2>1
<1>11. LoopFits(p)'
  BY <1>1, <1>2, <1>4, <1>6, <1>9, <1>10 DEF LoopFits, Looping
<1>12. ExecFits(p)'
  BY <1>1, <1>2, <1>4, <1>8 DEF ExecFits, Looping
<1> QED
  BY <1>6, <1>7, <1>11, <1>12

(* What the loop is about to map. *)
LEMMA PageAtHand ==
    ASSUME SpaceInv, NEW p \in Procs, NEW x, x = d[p], NEW v, v = a[p], pc[p] = "map"
    PROVE  /\ x \in Dirs /\ x # None /\ v \in UserPages /\ mem[p] # None
           /\ Walk(x, v) = None /\ Flags(p) \in BOOLEAN
           /\ v \div PerTable \in Pdes /\ v \div PerTable # UserTables /\ v % PerTable \in Ptes
<1>1. TypeOK /\ CallFits(p) /\ LoopFits(p)
  BY SpaceParts
<1>2. /\ x # None /\ pgdir[p] # None /\ op[p] \in {"fork", "exec", "grow"}
      /\ mem[p] # None /\ v * PgSize < hi[p] /\ Mapped(x) = Upto(v)
  BY <1>1 DEF CallFits, LoopFits, Looping
<1>3. v \in UserPages /\ v \in Nat
  BY <1>1, <1>2, ProcTypes, PageOfLoop
<1>4. x \in Dirs
  BY <1>2, DirInUse
<1>5. v \notin Mapped(x)
  BY <1>2, <1>3 DEF Upto
<1>6. Flags(p) \in BOOLEAN
  <2>1. CASE op[p] # "fork"
    BY <2>1 DEF Flags
  <2>2. CASE op[p] = "fork"
    <3>1. Mapped(pgdir[p]) = Below(sz[p]) /\ hi[p] = sz[p]
      BY <1>1, <1>2, <2>2 DEF LoopFits
    <3>2. v \in Mapped(pgdir[p])
      BY <1>2, <1>3, <3>1 DEF Below
    <3>3. Walk(pgdir[p], v) \in Entries
      BY <1>2, <1>3, <3>2, SpaceMem, WalkTypes, MappedPages, DirInUse
    <3>4. Walk(pgdir[p], v).user \in BOOLEAN
      BY <3>3 DEF Entries
    <3> QED
      BY <2>2, <3>4 DEF Flags
  <2> QED
    BY <2>1, <2>2
<1> QED
  BY <1>2, <1>3, <1>4, <1>5, <1>6, MappedPages, Slots

(* The page the loop has come to is mapped, and no other. *)
MapsPage(p) ==
    /\ mem' = [mem EXCEPT ![p] = None]
    /\ a' = [a EXCEPT ![p] = @ + 1]
    /\ Goto(p, "alloc")
    /\ Pte(mem[p], Flags(p)) # None
    /\ \A w \in UserPages :
          Walk(d[p], w)' = IF w = a[p] THEN Pte(mem[p], Flags(p)) ELSE Walk(d[p], w)

LEMMA PageGoesIn ==
    ASSUME SpaceInv, NEW p \in Procs, NEW x, x = d[p], pc[p] = "map", MapsPage(p),
           pgdir' = pgdir, sz' = sz, op' = op, child' = child, d' = d, lo' = lo, hi' = hi,
           segs' = segs,
           MemInv', \A e \in Dirs \ {x} : TreeKept(e)
    PROVE  SpaceInv'
<1>1. PICK v : v = a[p]
  OBVIOUS
<1>2. PICK c : c = Pte(mem[p], Flags(p))
  OBVIOUS
<1>3. v \in UserPages /\ c # None
  BY <1>1, <1>2, PageAtHand DEF MapsPage
<1>4. \A w \in UserPages : Walk(x, w)' = IF w = v THEN c ELSE Walk(x, w)
  <2>1. \A w \in UserPages : Walk(d[p], w)' = Walk(x, w)'
    BY DEF Walk, Table
  <2> QED
    BY <1>1, <1>2, <2>1 DEF MapsPage
<1>5. Mapped(x)' = Mapped(x) \cup {a[p]}
  BY <1>1, <1>3, <1>4, MappedChanged
<1> QED
  BY <1>5, LoopGoesOn DEF MapsPage

LEMMA MapEffect ==
    ASSUME SpaceInv, NEW p \in Procs, Map(p)
    PROVE  MapsPage(p) /\ MemInv' /\ \A e \in Dirs \ {d[p]} : TreeKept(e)
<1>1. PICK x : x = d[p]
  OBVIOUS
<1>2. PICK v : v = a[p]
  OBVIOUS
<1>3. PICK t : t = Table(x, v)
  OBVIOUS
<1>4. PICK s : s = v \div PerTable
  OBVIOUS
<1>5. PICK k : k = v % PerTable
  OBVIOUS
<1>6. PICK u : u = Flags(p)
  OBVIOUS
<1>7. PICK h : h = mem[p]
  OBVIOUS
<1>8. pc[p] = "map" /\ t # None
  BY <1>1, <1>2, <1>3 DEF Map
<1>9. /\ x \in Dirs /\ x # None /\ v \in UserPages /\ h # None
      /\ Walk(x, v) = None /\ u \in BOOLEAN
      /\ s \in Pdes /\ s # UserTables /\ k \in Ptes
  BY <1>1, <1>2, <1>4, <1>5, <1>6, <1>7, <1>8, PageAtHand
<1>10. /\ page' = [page EXCEPT ![t][k] = Pte(h, u)]
       /\ mem' = [mem EXCEPT ![p] = None]
       /\ a' = [a EXCEPT ![p] = @ + 1]
       /\ Goto(p, "alloc")
  BY <1>1, <1>2, <1>3, <1>5, <1>6, <1>7, <1>9 DEF Map
<1>11. pgdir' = pgdir /\ d' = d /\ free' = free
  BY DEF Map, image
<1>12. MemInv /\ TypeOK
  BY SpaceMem, SpaceParts
<1>13. /\ t = page[x][s] /\ page[t][k] = None /\ t \in Tables /\ t \in Pages /\ t # x
       /\ page[t] \in [Ptes -> Entries \cup {None}] /\ DOMAIN page = Pages
  <2>1. t = page[x][s] /\ page[t][k] = None
    BY <1>3, <1>4, <1>5, <1>8, <1>9 DEF Table, Walk
  <2>2. t \in Tables /\ t \in Pages /\ t # x
    BY <1>8, <1>9, <1>12, <2>1, TreeApart
  <2> QED
    BY <1>12, <2>1, <2>2, MemParts DEF PageTypes
<1>14. /\ DOMAIN page' = Pages
       /\ page'[t] = [page[t] EXCEPT ![k] = Pte(h, u)]
       /\ \A g \in Pages : g # t => page'[g] = page[g]
  BY <1>10, <1>13
<1>15. /\ \A q \in Procs : mem'[q] = IF q = p THEN None ELSE mem[q]
       /\ mem' \in [Procs -> Pages \cup {None}]
  BY <1>10, <1>12 DEF TypeOK
<1>16. MemInv' /\ \A e \in Dirs \ {x} : TreeKept(e)
  BY <1>7, <1>8, <1>9, <1>11, <1>12, <1>13, <1>14, <1>15, PageMapped
<1>17. PICK c : c = Pte(h, u)
  OBVIOUS
<1>18. c # None
  <2>1. h \in Pages
    BY <1>7, <1>9, <1>12 DEF TypeOK
  <2> QED
    BY <1>9, <1>17, <2>1, NoneApart DEF Pte, Entries
<1>19. \A l \in Ptes : page'[t][l] = IF l = v % PerTable THEN c ELSE page[t][l]
  BY <1>5, <1>13, <1>14, <1>17
<1>20. page'[x] = page[x] /\ \A w \in Tables \ {t} : page'[w] = page[w]
  BY <1>9, <1>12, <1>13, <1>14, MemParts DEF PagesApart
<1>21. \A w \in UserPages : Walk(x, w)' = IF w = v THEN c ELSE Walk(x, w)
  BY <1>3, <1>8, <1>9, <1>12, <1>19, <1>20, WalkChanged
<1>22. \A w \in UserPages : Walk(d[p], w)' = Walk(x, w)'
  BY <1>1, <1>11 DEF Walk, Table
<1>23. MapsPage(p)
  BY <1>1, <1>2, <1>6, <1>7, <1>10, <1>17, <1>18, <1>21, <1>22 DEF MapsPage
<1> QED
  BY <1>1, <1>16, <1>23

LEMMA MapStep ==
    ASSUME SpaceInv, NEW p \in Procs, Map(p)
    PROVE  SpaceInv'
<1>1. PICK x : x = d[p]
  OBVIOUS
<1>2. MapsPage(p) /\ MemInv' /\ \A e \in Dirs \ {x} : TreeKept(e)
  BY <1>1, MapEffect
<1>3. /\ pgdir' = pgdir /\ sz' = sz /\ op' = op /\ child' = child /\ d' = d
      /\ lo' = lo /\ hi' = hi /\ segs' = segs /\ pc[p] = "map"
  BY DEF Map, image, call
<1> QED
  BY <1>1, <1>2, <1>3, PageGoesIn

LEMMA MapTableEffect ==
    ASSUME SpaceInv, NEW p \in Procs, MapTable(p), NEW y \in free
    PROVE  MapsPage(p) /\ MemInv' /\ \A e \in Dirs \ {d[p]} : TreeKept(e)
<1>1. PICK x : x = d[p]
  OBVIOUS
<1>2. PICK v : v = a[p]
  OBVIOUS
<1>3. PICK s : s = v \div PerTable
  OBVIOUS
<1>4. PICK k : k = v % PerTable
  OBVIOUS
<1>5. PICK u : u = Flags(p)
  OBVIOUS
<1>6. PICK h : h = mem[p]
  OBVIOUS
<1>7. pc[p] = "map" /\ Table(x, v) = None
  BY <1>1, <1>2 DEF MapTable
<1>8. /\ x \in Dirs /\ x # None /\ v \in UserPages /\ h # None
      /\ Walk(x, v) = None /\ u \in BOOLEAN
      /\ s \in Pdes /\ s # UserTables /\ k \in Ptes
  BY <1>1, <1>2, <1>3, <1>4, <1>5, <1>6, <1>7, PageAtHand
<1>9. pgdir' = pgdir /\ d' = d
  BY DEF MapTable, image
<1>10. MemInv /\ TypeOK
  BY SpaceMem, SpaceParts
<1>11. PICK t \in free :
          /\ free' = free \ {t}
          /\ page' = [page EXCEPT ![t] = [EmptyTable EXCEPT ![k] = Pte(h, u)],
                                  ![x][s] = t]
          /\ mem' = [mem EXCEPT ![p] = None]
          /\ a' = [a EXCEPT ![p] = @ + 1]
          /\ Goto(p, "alloc")
  BY <1>1, <1>2, <1>3, <1>4, <1>5, <1>6 DEF MapTable, First
<1>12. /\ t \in Pages /\ t # None /\ t # x /\ t \notin Tables /\ x \in Pages /\ x \notin Tables
       /\ DOMAIN page = Pages /\ page[x] \in [Pdes -> Pages \cup {None}]
  BY <1>8, <1>10, MemParts, NoneApart DEF MemTypes, PagesApart, PageTypes
<1>13. page[x][s] = None
  BY <1>3, <1>7 DEF Table
<1>14. /\ DOMAIN page' = Pages
       /\ page'[t] = [EmptyTable EXCEPT ![k] = Pte(h, u)]
       /\ page'[x] = [page[x] EXCEPT ![s] = t]
       /\ \A g \in Pages : g # t /\ g # x => page'[g] = page[g]
  BY <1>11, <1>12
<1>15. /\ \A q \in Procs : mem'[q] = IF q = p THEN None ELSE mem[q]
       /\ mem' \in [Procs -> Pages \cup {None}]
  BY <1>10, <1>11 DEF TypeOK
<1>16. MemInv' /\ \A e \in Dirs \ {x} : TreeKept(e)
  <2>1. free' = free \ {t}
    BY <1>11
  <2> QED
    BY <1>6, <1>8, <1>9, <1>10, <1>13, <1>14, <1>15, <2>1, TableMapped
<1>17. PICK c : c = Pte(h, u)
  OBVIOUS
<1>18. c # None
  <2>1. h \in Pages
    BY <1>6, <1>8, <1>10 DEF TypeOK
  <2> QED
    BY <1>8, <1>17, <2>1, NoneApart DEF Pte, Entries
<1>19. \A l \in Ptes : page'[t][l] = IF l = v % PerTable THEN c ELSE None
  BY <1>4, <1>14, <1>17 DEF EmptyTable
<1>20. \A r \in Pdes : page'[x][r] = IF r = v \div PerTable THEN t ELSE page[x][r]
  BY <1>3, <1>12, <1>14
<1>21. \A w \in Tables : page'[w] = page[w]
  BY <1>10, <1>12, <1>14, MemParts DEF PagesApart
<1>22. \A w \in UserPages : Walk(x, w)' = IF w = v THEN c ELSE Walk(x, w)
  <2>1. MemInv /\ x \in Dirs /\ v \in UserPages /\ t # None /\ Table(x, v) = None
    BY <1>7, <1>8, <1>10, <1>12
  <2> QED
    BY <1>19, <1>20, <1>21, <2>1, WalkTabled
<1>23. \A w \in UserPages : Walk(d[p], w)' = Walk(x, w)'
  BY <1>1, <1>9 DEF Walk, Table
<1>24. MapsPage(p)
  BY <1>1, <1>2, <1>5, <1>6, <1>11, <1>17, <1>18, <1>22, <1>23 DEF MapsPage
<1> QED
  BY <1>1, <1>16, <1>24

LEMMA MapTableStep ==
    ASSUME SpaceInv, NEW p \in Procs, MapTable(p)
    PROVE  SpaceInv'
<1>1. PICK x : x = d[p]
  OBVIOUS
<1>2. /\ pgdir' = pgdir /\ sz' = sz /\ op' = op /\ child' = child /\ d' = d
      /\ lo' = lo /\ hi' = hi /\ segs' = segs /\ pc[p] = "map"
  BY DEF MapTable, image, call
<1>3. CASE free = {}
  <2>1. /\ Goto(p, IF op[p] = "fork" THEN "drop" ELSE "dealloc")
        /\ UNCHANGED <<memory, mem, a>>
    BY <1>3 DEF MapTable, First
  <2>2. free' = free /\ page' = page /\ mem' = mem /\ a' = a /\ Looping(p)
    BY <1>2, <2>1 DEF memory, Looping
  <2>3. (IF op[p] = "fork" THEN "drop" ELSE "dealloc") =
          IF op[p] # "fork" THEN "dealloc" ELSE IF pc[p] = "map" THEN "drop" ELSE "freevm"
    BY <1>2
  <2> QED
    BY <1>2, <2>1, <2>2, <2>3, LoopFails
<1>4. CASE free # {}
  <2>1. PICK y : y \in free
    BY <1>4
  <2>2. MapsPage(p) /\ MemInv' /\ \A e \in Dirs \ {x} : TreeKept(e)
    BY <1>1, <2>1, MapTableEffect
  <2> QED
    BY <1>1, <1>2, <2>2, PageGoesIn
<1> QED
  BY <1>3, <1>4

(* The size is reached: the pages below it are there. *)
LEMMA LoopDone ==
    ASSUME SpaceInv, NEW p \in Procs, pc[p] = "alloc", a[p] * PgSize >= hi[p]
    PROVE  /\ Mapped(d[p]) = Below(hi[p]) /\ a[p] = PgRoundUp(hi[p])
           /\ a[p] \in Nat /\ hi[p] \in Nat
<1>1. Mapped(d[p]) = Upto(a[p]) /\ a[p] <= PgRoundUp(hi[p])
  BY SpaceParts DEF LoopFits, Looping
<1>2. a[p] \in Nat /\ hi[p] \in Nat /\ PgRoundUp(hi[p]) \in Nat /\ a[p] * PgSize \in Nat
  <2>1. a[p] \in Nat /\ hi[p] \in Nat
    BY SpaceParts, ProcTypes
  <2>2. \A k \in Nat : k * PgSize \in Nat
    BY Sizes
  <2> QED
    BY <2>1, <2>2, RoundUp
<1>3. ~(a[p] < PgRoundUp(hi[p]))
  <2>1. ~(a[p] * PgSize < hi[p])
    BY <1>2
  <2> QED
    BY <1>2, <2>1, RoundUp
<1> QED
  BY <1>1, <1>2, <1>3, BelowRoundUp

LEMMA ForkDoneStep ==
    ASSUME SpaceInv, NEW p \in Procs, ForkDone(p)
    PROVE  SpaceInv'
<1>1. PICK c : c = child[p]
  OBVIOUS
<1>2. PICK x : x = d[p]
  OBVIOUS
<1>3. PICK y : y = pgdir[p]
  OBVIOUS
<1>4. /\ TypeOK /\ CallFits(p) /\ LoopFits(p) /\ c \in Procs /\ CallFits(c)
      /\ segs \in [Procs -> Seq(Segments)] /\ MemInv
  BY <1>1, SpaceParts, ProcTypes, SpaceMem
<1>5. /\ pc[p] = "alloc" /\ op[p] = "fork" /\ c # p /\ pc[c] = "embryo" /\ mem[p] = None
      /\ x # None /\ y # None /\ x # y
  BY <1>1, <1>2, <1>3, <1>4 DEF ForkDone, CallFits
<1>6. op[c] = "none" /\ child[c] = c /\ mem[c] = None /\ d[c] = None /\ pgdir[c] = None
  BY <1>4, <1>5 DEF CallFits
<1>7. x \in Pages /\ y \in Pages
  BY <1>2, <1>3, <1>4, <1>5 DEF TypeOK
<1>8. free' = free /\ page' = page /\ mem' = mem /\ segs' = segs /\ lo' = lo
  BY DEF ForkDone, memory
<1>9. /\ pgdir' = [pgdir EXCEPT ![c] = x] /\ sz' = [sz EXCEPT ![c] = sz[p]]
      /\ pc' = [pc EXCEPT ![p] = "user", ![c] = "user"]
      /\ op' = [op EXCEPT ![p] = "none"] /\ child' = [child EXCEPT ![p] = p]
      /\ d' = [d EXCEPT ![p] = None]
      /\ hi' = [hi EXCEPT ![p] = 0] /\ a' = [a EXCEPT ![p] = 0]
  BY <1>1, <1>2 DEF ForkDone
<1>10. TypeOK'
  <2>1. pc' \in [Procs -> Codes \ {"panic"}]
    BY <1>4, <1>9 DEF TypeOK, Codes
  <2>2. /\ pgdir' \in [Procs -> Pages \cup {None}] /\ d' \in [Procs -> Pages \cup {None}]
        /\ op' \in [Procs -> {"none", "fork", "exec", "grow", "shrink", "exit"}]
        /\ child' \in [Procs -> Procs]
    BY <1>4, <1>7, <1>9 DEF TypeOK
  <2>3. sz' \in [Procs -> 0..KernBase] /\ hi' \in [Procs -> 0..KernBase]
    BY <1>4, <1>9, Sizes DEF TypeOK
  <2>4. a' \in [Procs -> 0..(UserTables * PerTable)]
    BY <1>4, <1>9, Sizes DEF TypeOK
  <2> QED
    BY <1>4, <1>8, <2>1, <2>2, <2>3, <2>4 DEF TypeOK
<1>11. /\ pgdir'[p] = y /\ sz'[p] = sz[p] /\ pc'[p] = "user" /\ op'[p] = "none"
       /\ child'[p] = p /\ d'[p] = None
       /\ pgdir'[c] = x /\ sz'[c] = sz[p] /\ pc'[c] = "user" /\ op'[c] = "none"
       /\ child'[c] = c /\ d'[c] = None
       /\ \A q \in Procs \ {p, c} : Same(q)
  BY <1>3, <1>4, <1>5, <1>6, <1>8, <1>9 DEF TypeOK, Same
<1>12. /\ Roots(p) = {x, y} /\ Roots(c) = {}
       /\ Roots(p)' = {y} /\ Roots(c)' = {x}
       /\ \A q \in Procs \ {p, c} : Roots(q)' = Roots(q)
  BY <1>2, <1>3, <1>5, <1>6, <1>11 DEF Roots, Same
<1>13. Dirs' = Dirs
  <2>1. ASSUME NEW e PROVE e \in Dirs' <=> e \in Dirs
    <3>1. ASSUME NEW q \in Procs, e \in Roots(q) PROVE \E r \in Procs : e \in Roots(r)'
      <4>1. CASE q \in {p, c}
        BY <1>4, <1>12, <3>1, <4>1
      <4>2. CASE q \notin {p, c}
        BY <1>12, <3>1, <4>2
      <4> QED
        BY <4>1, <4>2
    <3>2. ASSUME NEW q \in Procs, e \in Roots(q)' PROVE \E r \in Procs : e \in Roots(r)
      <4>1. CASE q \in {p, c}
        BY <1>4, <1>12, <3>2, <4>1
      <4>2. CASE q \notin {p, c}
        BY <1>12, <3>2, <4>2
      <4> QED
        BY <4>1, <4>2
    <3> QED
      BY <3>1, <3>2, DirOf, DirOfNext
  <2> QED
    BY <2>1
<1>14. RootsOnce'
  <2>1. \A q, r \in Procs : Roots(q) \cap Roots(r) # {} => q = r
    BY <1>4, MemParts DEF RootsOnce
  <2>2. \A q \in Procs \ {p, c} : x \notin Roots(q) /\ y \notin Roots(q)
    BY <1>12, <2>1
  <2>3. ASSUME NEW q \in Procs, NEW r \in Procs, NEW e, e \in Roots(q)', e \in Roots(r)'
        PROVE  q = r
    <3>1. CASE q \notin {p, c} /\ r \notin {p, c}
      BY <1>12, <2>1, <2>3, <3>1
    <3>2. CASE q \in {p, c} \/ r \in {p, c}
      BY <1>5, <1>12, <2>2, <2>3, <3>2
    <3> QED
      BY <3>1, <3>2
  <2> QED
    BY <2>3 DEF RootsOnce
<1>15. MemInv' /\ \A e \in Dirs : TreeKept(e)
  <2>1. pgdir' \in [Procs -> Pages \cup {None}] /\ d' \in [Procs -> Pages \cup {None}]
    BY <1>10 DEF TypeOK
  <2> QED
    BY <1>4, <1>8, <1>13, <1>14, <2>1, RootsMoved
<1>16. \A q \in Procs : Kept(q)
  BY <1>15, AllKept
<1>17. Mapped(x)' = Below(hi[p]) /\ Mapped(y)' = Below(sz[p]) /\ hi[p] = sz[p]
  <2>1. x \in Dirs /\ y \in Dirs
    BY <1>2, <1>3, <1>5, DirInUse
  <2>2. Mapped(x)' = Mapped(x) /\ Mapped(y)' = Mapped(y)
    BY <1>4, <1>15, <2>1, KeptMapped
  <2>3. Mapped(x) = Below(hi[p])
    BY <1>2, <1>5, LoopDone DEF ForkDone
  <2>4. Mapped(y) = Below(sz[p]) /\ hi[p] = sz[p]
    BY <1>3, <1>4, <1>5 DEF LoopFits
  <2> QED
    BY <2>2, <2>3, <2>4
<1>18. Mapped(pgdir[p])' = Below(sz[p])' /\ Mapped(pgdir[c])' = Below(sz[c])'
  <2>1. Mapped(pgdir[p])' = Mapped(y)' /\ Mapped(pgdir[c])' = Mapped(x)'
    BY <1>11 DEF Mapped, Walk, Table
  <2>2. Below(sz[p])' = Below(sz[p]) /\ Below(sz[c])' = Below(sz[p])
    BY <1>11 DEF Below
  <2> QED
    BY <1>17, <2>1, <2>2
<1>19. /\ CallFits(p)' /\ CallFits(c)'
  BY <1>5, <1>6, <1>8, <1>11 DEF CallFits
<1>20. LoopFits(p)' /\ LoopFits(c)' /\ ExecFits(p)' /\ ExecFits(c)'
  BY <1>11, <1>18 DEF LoopFits, ExecFits, Looping
<1>21. PICK S \in SUBSET Procs : S = {p, c}
  BY <1>4
<1>22. /\ \A q \in S : CallFits(q)' /\ LoopFits(q)' /\ ExecFits(q)'
       /\ \A q \in S : op'[q] # "fork"
       /\ \A q \in S : pc[q] = "embryo" => \E r \in S : op[r] = "fork" /\ child[r] = q
  BY <1>1, <1>5, <1>11, <1>19, <1>20, <1>21
<1>23. \A q \in Procs \ S : Same(q) /\ Kept(q)
  BY <1>11, <1>16, <1>21
<1>24. segs' \in [Procs -> Seq(Segments)]
  BY <1>4, <1>8
<1> QED
  BY <1>10, <1>15, <1>22, <1>23, <1>24, Frame

LEMMA GrowDoneStep ==
    ASSUME SpaceInv, NEW p \in Procs, GrowDone(p)
    PROVE  SpaceInv'
<1>1. TypeOK /\ CallFits(p) /\ LoopFits(p)
  BY SpaceParts
<1>2. /\ pc[p] = "alloc" /\ op[p] = "grow" /\ mem[p] = None
      /\ pgdir[p] # None /\ d[p] = pgdir[p]
      /\ Mapped(d[p]) = Below(hi[p])
  BY <1>1, LoopDone DEF GrowDone, CallFits
<1>3. free' = free /\ page' = page /\ mem' = mem /\ pgdir' = pgdir
  BY DEF GrowDone, memory
<1>4. /\ sz' = [sz EXCEPT ![p] = hi[p]] /\ d' = [d EXCEPT ![p] = None] /\ Return(p)
  BY DEF GrowDone
<1>5. /\ sz' \in [Procs -> 0..KernBase] /\ sz'[p] = hi[p]
      /\ \A q \in Procs \ {p} : sz'[q] = sz[q]
      /\ d' \in [Procs -> Pages \cup {None}]
      /\ \A q \in Procs : d'[q] = IF q = p THEN None ELSE d[q]
      /\ free' \subseteq Pages /\ pgdir' \in [Procs -> Pages \cup {None}]
  BY <1>1, <1>3, <1>4 DEF TypeOK
<1>6. \A q \in Procs : Roots(q)' = Roots(q)
  BY <1>2, <1>3, <1>5 DEF Roots
<1>7. MemInv' /\ \A q \in Procs : Kept(q)
  BY <1>3, <1>5, <1>6, RootsSame
<1>8. Mapped(pgdir[p])' = Below(sz[p])'
  <2>1. Below(sz[p])' = Below(hi[p])
    BY <1>5 DEF Below
  <2> QED
    BY <1>2, <1>3, <1>7, <2>1, MappedKept
<1> QED
  BY <1>2, <1>3, <1>4, <1>5, <1>7, <1>8, Returns

-----------------------------------------------------------------------------
(* deallocuvm *)

(* A user page goes back to the free list. *)
LEMMA PageGivenBack ==
    ASSUME SpaceInv, NEW p \in Procs, NEW x, x = d[p], x # None,
           NEW v \in Mapped(x), GivePage(p, v),
           mem' = mem, d' = d, pgdir' = pgdir
    PROVE  /\ MemInv' /\ \A e \in Dirs \ {x} : TreeKept(e)
           /\ Mapped(x)' = Mapped(x) \ {v}
           /\ \A w \in UserPages : Walk(x, w)' = IF w = v THEN None ELSE Walk(x, w)
<1>1. PICK t : t = Table(x, v)
  OBVIOUS
<1>2. PICK s : s = v \div PerTable
  OBVIOUS
<1>3. PICK k : k = v % PerTable
  OBVIOUS
<1>4. PICK h : h = Walk(x, v).pg
  OBVIOUS
<1>5. MemInv /\ x \in Dirs /\ v \in UserPages
  BY SpaceMem, DirInUse, MappedPages
<1>6. s \in Pdes /\ k \in Ptes
  BY <1>2, <1>3, <1>5, Slots
<1>7. /\ t = page[x][s] /\ t # None /\ t \in Tables
      /\ page[t][k] # None /\ h = page[t][k].pg /\ h \in Leaves
  BY <1>1, <1>2, <1>3, <1>4, <1>5, WalkTypes, MappedPages
<1>8. /\ x \in Pages /\ t \in Pages /\ h \in Pages /\ t # h /\ t # x /\ h # x
      /\ \A w \in Tables : w # h /\ w \in Pages
      /\ DOMAIN page = Pages /\ page[t] \in [Ptes -> Entries \cup {None}]
  BY <1>5, <1>7, MemParts DEF PagesApart, PageTypes
<1>9. /\ free' = free \cup {h}
      /\ page' = [page EXCEPT ![h] = Junk, ![t][k] = None]
  BY <1>1, <1>3, <1>4 DEF GivePage
<1>10. /\ DOMAIN page' = Pages
       /\ page'[t] = [page[t] EXCEPT ![k] = None]
       /\ \A g \in Pages : g # t /\ g # h => page'[g] = page[g]
  BY <1>8, <1>9, SMTT(30)
<1>11. MemInv' /\ \A e \in Dirs \ {x} : TreeKept(e)
  <2>1. free' = free \cup {h}
    BY <1>9
  <2> QED
    BY <1>5, <1>6, <1>7, <1>10, <2>1, PageGiven
<1>12. \A l \in Ptes : page'[t][l] = IF l = v % PerTable THEN None ELSE page[t][l]
  BY <1>3, <1>8, <1>10
<1>13. page'[x] = page[x] /\ \A w \in Tables \ {t} : page'[w] = page[w]
  BY <1>8, <1>10
<1>14. \A w \in UserPages : Walk(x, w)' = IF w = v THEN None ELSE Walk(x, w)
  <2>1. PICK c : c = None
    OBVIOUS
  <2>2. t # None
    BY <1>7
  <2>3. \A l \in Ptes : page'[t][l] = IF l = v % PerTable THEN c ELSE page[t][l]
    BY <1>12, <2>1
  <2>4. \A w \in UserPages : Walk(x, w)' = IF w = v THEN c ELSE Walk(x, w)
    BY <1>1, <1>5, <1>13, <2>2, <2>3, WalkChanged
  <2> QED
    BY <2>1, <2>4
<1>15. Mapped(x)' = Mapped(x) \ {v}
  BY <1>5, <1>14, MappedChanged
<1> QED
  BY <1>11, <1>14, <1>15

LEMMA DeallocStep ==
    ASSUME SpaceInv, NEW p \in Procs, Dealloc(p)
    PROVE  SpaceInv'
<1>1. /\ TypeOK /\ CallFits(p) /\ LoopFits(p) /\ ExecFits(p)
      /\ segs \in [Procs -> Seq(Segments)]
  BY SpaceParts
<1>2. PICK x : x = d[p]
  OBVIOUS
<1>3. /\ pc[p] = "dealloc" /\ x # None /\ pgdir[p] # None
      /\ op[p] \in {"grow", "exec", "shrink"} /\ (op[p] = "exec" => pgdir[p] # x)
  BY <1>1, <1>2 DEF Dealloc, CallFits
<1>4. /\ pgdir' = pgdir /\ sz' = sz /\ pc' = pc /\ op' = op /\ child' = child /\ segs' = segs
      /\ lo' = lo /\ hi' = hi /\ a' = a /\ d' = d /\ mem' = mem
  BY DEF Dealloc, image, call, loop
<1>5. PICK v \in Mapped(x) : PgRoundUp(lo[p]) <= v /\ v * PgSize < hi[p] /\ GivePage(p, v)
  BY <1>2 DEF Dealloc, ToFree
<1>6. MemInv' /\ Mapped(x)' = Mapped(x) \ {v} /\ \A e \in Dirs \ {x} : TreeKept(e)
  BY <1>2, <1>3, <1>4, <1>5, PageGivenBack
<1>7. \A q \in Procs \ {p} : Same(q)
  BY <1>4 DEF Same
<1>8. TypeOK'
  BY <1>1, <1>4, <1>6 DEF TypeOK, MemInv, MemTypes
<1>9. /\ Mapped(d[p])' = Mapped(x)'
      /\ pgdir[p] # None /\ pgdir[p] # x => Mapped(pgdir[p])' = Mapped(pgdir[p])
      /\ Below(lo[p])' = Below(lo[p]) /\ Below(hi[p])' = Below(hi[p])
      /\ Below(sz[p])' = Below(sz[p])
      /\ IF op'[p] = "fork" THEN child'[p] # p /\ pc'[child'[p]] = "embryo"
                            ELSE child'[p] = p
      /\ CallFits(p)' /\ LoopFits(p)' /\ ExecFits(p)' => SpaceInv'
  BY <1>1, <1>2, <1>3, <1>4, <1>6, <1>7, <1>8, TreeStep
<1>10. CallFits(p)'
  BY <1>1, <1>4, <1>9 DEF CallFits
<1>11. v \notin Below(lo[p])
  <2>1. lo[p] \in Nat /\ PgRoundUp(lo[p]) \in Nat /\ v \in Nat
    BY <1>1, ProcTypes, RoundUp, MappedPages, Sizes DEF UserPages
  <2> QED
    BY <1>5, <2>1, BelowRoundUp DEF Upto
<1>12. LoopFits(p)'
  <2>1. op[p] # "exec" => Below(lo[p]) \subseteq Mapped(x) /\ Mapped(x) \subseteq Below(hi[p])
    BY <1>1, <1>2, <1>3 DEF LoopFits
  <2> QED
    BY <1>1, <1>3, <1>4, <1>6, <1>9, <1>11, <2>1 DEF LoopFits, Looping
<1>13. ExecFits(p)'
  BY <1>3, <1>4 DEF ExecFits, Looping
<1> QED
  BY <1>9, <1>10, <1>12, <1>13

(* deallocuvm of sbrk leaves the pages below the new size, and no other.   *)
LEMMA Emptied ==
    ASSUME SpaceInv, NEW p \in Procs, pc[p] = "dealloc", op[p] # "exec", ToFree(p) = {}
    PROVE  Mapped(d[p]) = Below(lo[p])
<1>1. TypeOK /\ Below(lo[p]) \subseteq Mapped(d[p]) /\ Mapped(d[p]) \subseteq Below(hi[p])
  BY SpaceParts DEF LoopFits
<1>2. lo[p] \in Nat /\ PgRoundUp(lo[p]) \in Nat
  BY <1>1, ProcTypes, RoundUp
<1>3. ASSUME NEW v \in Mapped(d[p]) PROVE v \in Below(lo[p])
  <2>1. v \in UserPages /\ v \in Nat /\ v * PgSize < hi[p]
    BY <1>1, Sizes DEF Below, UserPages
  <2>2. ~(PgRoundUp(lo[p]) <= v)
    BY <2>1 DEF ToFree
  <2>3. v \in Upto(PgRoundUp(lo[p]))
    BY <1>2, <2>1, <2>2 DEF Upto
  <2> QED
    BY <1>2, <2>3, BelowRoundUp
<1> QED
  BY <1>1, <1>3

LEMMA ShrinkDoneStep ==
    ASSUME SpaceInv, NEW p \in Procs, ShrinkDone(p)
    PROVE  SpaceInv'
<1>1. TypeOK /\ CallFits(p) /\ LoopFits(p)
  BY SpaceParts
<1>2. /\ pc[p] = "dealloc" /\ op[p] = "shrink" /\ mem[p] = None
      /\ pgdir[p] # None /\ d[p] = pgdir[p]
      /\ Mapped(d[p]) = Below(lo[p])
  BY <1>1, Emptied DEF ShrinkDone, CallFits
<1>3. free' = free /\ page' = page /\ mem' = mem /\ pgdir' = pgdir
  BY DEF ShrinkDone, memory
<1>4. /\ sz' = [sz EXCEPT ![p] = lo[p]] /\ d' = [d EXCEPT ![p] = None] /\ Return(p)
  BY DEF ShrinkDone
<1>5. /\ sz' \in [Procs -> 0..KernBase] /\ sz'[p] = lo[p]
      /\ \A q \in Procs \ {p} : sz'[q] = sz[q]
      /\ d' \in [Procs -> Pages \cup {None}]
      /\ \A q \in Procs : d'[q] = IF q = p THEN None ELSE d[q]
      /\ free' \subseteq Pages /\ pgdir' \in [Procs -> Pages \cup {None}]
  BY <1>1, <1>3, <1>4 DEF TypeOK
<1>6. \A q \in Procs : Roots(q)' = Roots(q)
  BY <1>2, <1>3, <1>5 DEF Roots
<1>7. MemInv' /\ \A q \in Procs : Kept(q)
  BY <1>3, <1>5, <1>6, RootsSame
<1>8. Mapped(pgdir[p])' = Below(sz[p])'
  <2>1. Below(sz[p])' = Below(lo[p])
    BY <1>5 DEF Below
  <2> QED
    BY <1>2, <1>3, <1>7, <2>1, MappedKept
<1> QED
  BY <1>2, <1>3, <1>4, <1>5, <1>7, <1>8, Returns

LEMMA AllocFailedStep ==
    ASSUME SpaceInv, NEW p \in Procs, AllocFailed(p)
    PROVE  SpaceInv'
<1>1. TypeOK /\ CallFits(p) /\ LoopFits(p)
  BY SpaceParts
<1>2. /\ pc[p] = "dealloc" /\ op[p] \in {"grow", "exec"} /\ d[p] # None /\ pgdir[p] # None
      /\ op[p] = "grow" => Mapped(d[p]) = Below(lo[p]) /\ lo[p] = sz[p] /\ d[p] = pgdir[p]
  BY <1>1, Emptied DEF AllocFailed, CallFits, LoopFits
<1>3. PICK s : s = IF mem[p] # None THEN "drop" ELSE "fail"
  OBVIOUS
<1>4. /\ free' = free /\ page' = page /\ pgdir' = pgdir /\ sz' = sz /\ op' = op
      /\ child' = child /\ segs' = segs /\ lo' = lo /\ hi' = hi /\ a' = a /\ d' = d
      /\ mem' = mem /\ Goto(p, s)
  BY <1>3 DEF AllocFailed, memory, image, call, loop
<1>5. s \in Codes \ {"panic"} /\ s \in {"drop", "fail"}
  BY <1>3 DEF Codes
<1>6. /\ pc'[p] = s
      /\ Mapped(d[p])' = Mapped(d[p]) /\ Mapped(pgdir[p])' = Mapped(pgdir[p])
      /\ Below(sz[p])' = Below(sz[p])
      /\ CallFits(p)' /\ LoopFits(p)' /\ ExecFits(p)' => SpaceInv'
  BY <1>2, <1>4, <1>5, GotoStep
<1>7. \A q \in Procs \ {p} : Same(q)
  BY <1>1, <1>4 DEF Goto, TypeOK, Same
<1>8. CallFits(p)'
  BY <1>1, <1>2, <1>3, <1>4, <1>5, <1>6, <1>7, ChildKept DEF CallFits
<1>9. LoopFits(p)'
  BY <1>1, <1>2, <1>4, <1>5, <1>6 DEF LoopFits, Looping
<1>10. ExecFits(p)'
  BY <1>5, <1>6 DEF ExecFits, Looping
<1> QED
  BY <1>6, <1>8, <1>9, <1>10

LEMMA DropStep ==
    ASSUME SpaceInv, NEW p \in Procs, Drop(p)
    PROVE  SpaceInv'
<1>1. /\ TypeOK /\ CallFits(p) /\ LoopFits(p)
      /\ segs \in [Procs -> Seq(Segments)]
  BY SpaceParts
<1>2. PICK x : x = d[p]
  OBVIOUS
<1>3. PICK h : h = mem[p]
  OBVIOUS
<1>4. /\ pc[p] = "drop" /\ op[p] \in {"fork", "exec", "grow"} /\ x # None
      /\ h # None /\ pgdir[p] # None /\ Mapped(pgdir[p]) = Below(sz[p])
  BY <1>1, <1>2, <1>3 DEF Drop, CallFits, LoopFits
<1>5. /\ pgdir' = pgdir /\ sz' = sz /\ op' = op /\ child' = child /\ segs' = segs
      /\ lo' = lo /\ hi' = hi /\ a' = a /\ d' = d
  BY DEF Drop, image, call, loop
<1>6. /\ free' = free \cup {h} /\ page' = [page EXCEPT ![h] = Junk]
      /\ mem' = [mem EXCEPT ![p] = None] /\ Goto(p, "fail")
  BY <1>3 DEF Drop
<1>7. DOMAIN page = Pages
  BY SpaceMem, MemParts DEF PageTypes
<1>8. /\ DOMAIN page' = Pages
      /\ \A g \in Pages : g # h => page'[g] = page[g]
      /\ \A q \in Procs : mem'[q] = IF q = p THEN None ELSE mem[q]
      /\ mem' \in [Procs -> Pages \cup {None}]
  BY <1>1, <1>6, <1>7 DEF TypeOK
<1>9. MemInv' /\ \A e \in Dirs : TreeKept(e)
  <2>1. free' = free \cup {h}
    BY <1>6
  <2> QED
    BY <1>3, <1>4, <1>5, <1>8, <2>1, HandDropped, SpaceMem
<1>10. \A q \in Procs \ {p} : Same(q)
  BY <1>1, <1>5, <1>6, <1>8 DEF Goto, TypeOK, Same
<1>11. TypeOK'
  <2>1. pc' \in [Procs -> Codes \ {"panic"}]
    BY <1>1, <1>6 DEF Goto, TypeOK, Codes
  <2>2. free' \subseteq Pages
    BY <1>9 DEF MemInv, MemTypes
  <2> QED
    BY <1>1, <1>5, <1>8, <2>1, <2>2 DEF TypeOK
<1>12. /\ Below(sz[p])' = Below(sz[p])
       /\ IF op'[p] = "fork" THEN child'[p] # p /\ pc'[child'[p]] = "embryo"
                             ELSE child'[p] = p
       /\ CallFits(p)' /\ LoopFits(p)' /\ ExecFits(p)' => SpaceInv'
  BY <1>1, <1>2, <1>4, <1>5, <1>9, <1>10, <1>11, TreeStep
<1>13. Mapped(pgdir[p])' = Mapped(pgdir[p])
  BY <1>4, <1>5, <1>9, AllKept, MappedKept
<1>14. pc'[p] = "fail" /\ mem'[p] = None
  BY <1>1, <1>6, <1>8 DEF Goto, TypeOK
<1>15. CallFits(p)'
  BY <1>1, <1>2, <1>4, <1>5, <1>12, <1>14 DEF CallFits
<1>16. LoopFits(p)'
  BY <1>1, <1>4, <1>5, <1>12, <1>13, <1>14 DEF LoopFits, Looping
<1>17. ExecFits(p)'
  BY <1>14 DEF ExecFits, Looping
<1> QED
  BY <1>12, <1>15, <1>16, <1>17

LEMMA FailStep ==
    ASSUME SpaceInv, NEW p \in Procs, Fail(p)
    PROVE  SpaceInv'
<1>1. TypeOK /\ CallFits(p) /\ LoopFits(p)
  BY SpaceParts
<1>2. /\ pc[p] = "fail" /\ op[p] \in {"fork", "exec", "grow"} /\ mem[p] = None
      /\ d[p] # None /\ pgdir[p] # None /\ Mapped(pgdir[p]) = Below(sz[p])
      /\ op[p] = "grow" => d[p] = pgdir[p]
  BY <1>1 DEF Fail, CallFits, LoopFits
<1>3. free' = free /\ page' = page /\ pgdir' = pgdir /\ sz' = sz /\ mem' = mem
  BY DEF Fail, memory, image
<1>4. CASE op[p] = "grow" /\ d' = [d EXCEPT ![p] = None] /\ Return(p)
  <2>1. /\ d' \in [Procs -> Pages \cup {None}]
        /\ \A q \in Procs : d'[q] = IF q = p THEN None ELSE d[q]
        /\ free' \subseteq Pages /\ pgdir' \in [Procs -> Pages \cup {None}]
        /\ sz' \in [Procs -> 0..KernBase]
    BY <1>1, <1>3, <1>4 DEF TypeOK
  <2>2. \A q \in Procs : Roots(q)' = Roots(q)
    BY <1>2, <1>3, <1>4, <2>1 DEF Roots
  <2>3. MemInv' /\ \A q \in Procs : Kept(q)
    BY <1>3, <2>1, <2>2, RootsSame
  <2>4. Mapped(pgdir[p])' = Below(sz[p])'
    <3>1. Below(sz[p])' = Below(sz[p])
      BY <1>3 DEF Below
    <3> QED
      BY <1>2, <1>3, <2>3, <3>1, MappedKept
  <2> QED
    BY <1>2, <1>3, <1>4, <2>1, <2>3, <2>4, Returns
<1>5. CASE op[p] # "grow" /\ Goto(p, "freevm") /\ UNCHANGED <<call, loop, d>>
  <2>1. /\ op' = op /\ child' = child /\ segs' = segs /\ lo' = lo /\ hi' = hi /\ a' = a
        /\ d' = d
    BY <1>5 DEF call, loop
  <2>2. "freevm" \in Codes \ {"panic"}
    BY DEF Codes
  <2>3. /\ pc'[p] = "freevm"
        /\ Mapped(pgdir[p])' = Mapped(pgdir[p]) /\ Below(sz[p])' = Below(sz[p])
        /\ CallFits(p)' /\ LoopFits(p)' /\ ExecFits(p)' => SpaceInv'
    BY <1>2, <1>3, <1>5, <2>1, <2>2, GotoStep
  <2>4. \A q \in Procs \ {p} : Same(q)
    BY <1>1, <1>3, <1>5, <2>1 DEF Goto, TypeOK, Same
  <2>5. CallFits(p)'
    BY <1>1, <1>2, <1>3, <1>5, <2>1, <2>3, <2>4, ChildKept DEF CallFits
  <2>6. LoopFits(p)' /\ ExecFits(p)'
    BY <1>1, <1>2, <1>3, <1>5, <2>1, <2>3 DEF LoopFits, ExecFits, Looping
  <2> QED
    BY <2>3, <2>5, <2>6
<1> QED
  BY <1>4, <1>5 DEF Fail

-----------------------------------------------------------------------------
(* freevm *)

(* What p holds while it frees an image.                                   *)
LEMMA FreeingFits ==
    ASSUME SpaceInv, NEW p \in Procs, NEW x, x = d[p], pc[p] = "freevm"
    PROVE  /\ TypeOK /\ CallFits(p) /\ LoopFits(p)
           /\ segs \in [Procs -> Seq(Segments)]
           /\ op[p] \in {"fork", "exec", "exit"} /\ mem[p] = None
           /\ x # None /\ x \in Dirs /\ x \in Roots(p) /\ pgdir[p] # x
           /\ pgdir[p] # None <=> op[p] # "exit"
           /\ pgdir[p] # None => Mapped(pgdir[p]) = Below(sz[p])
<1>1. TypeOK /\ CallFits(p) /\ LoopFits(p) /\ segs \in [Procs -> Seq(Segments)]
  BY SpaceParts
<1>2. /\ op[p] \in {"fork", "exec", "exit"} /\ mem[p] = None /\ x # None /\ pgdir[p] # x
      /\ pgdir[p] # None <=> op[p] # "exit"
      /\ pgdir[p] # None => Mapped(pgdir[p]) = Below(sz[p])
  BY <1>1 DEF CallFits, LoopFits
<1> QED
  BY <1>1, <1>2, DirInUse DEF Roots

(* A step of freevm that is not its last. *)
LEMMA FreeingGoesOn ==
    ASSUME SpaceInv, NEW p \in Procs, NEW x, x = d[p], pc[p] = "freevm",
           UNCHANGED <<image, pc, call, d, loop, mem>>,
           MemInv', \A e \in Dirs \ {x} : TreeKept(e)
    PROVE  SpaceInv'
<1>1. /\ TypeOK /\ CallFits(p) /\ LoopFits(p)
      /\ segs \in [Procs -> Seq(Segments)]
      /\ op[p] \in {"fork", "exec", "exit"} /\ mem[p] = None
      /\ x # None /\ pgdir[p] # x
      /\ pgdir[p] # None => Mapped(pgdir[p]) = Below(sz[p])
  BY FreeingFits
<1>2. /\ pgdir' = pgdir /\ sz' = sz /\ pc' = pc /\ op' = op /\ child' = child /\ segs' = segs
      /\ lo' = lo /\ hi' = hi /\ a' = a /\ d' = d /\ mem' = mem
  BY DEF image, call, loop
<1>3. \A q \in Procs \ {p} : Same(q)
  BY <1>2 DEF Same
<1>4. TypeOK'
  BY <1>1, <1>2 DEF TypeOK, MemInv, MemTypes
<1>5. /\ pgdir[p] # None /\ pgdir[p] # x => Mapped(pgdir[p])' = Mapped(pgdir[p])
      /\ Below(sz[p])' = Below(sz[p])
      /\ IF op'[p] = "fork" THEN child'[p] # p /\ pc'[child'[p]] = "embryo"
                            ELSE child'[p] = p
      /\ CallFits(p)' /\ LoopFits(p)' /\ ExecFits(p)' => SpaceInv'
  BY <1>1, <1>2, <1>3, <1>4, TreeStep
<1>6. CallFits(p)'
  BY <1>1, <1>2, <1>5 DEF CallFits
<1>7. LoopFits(p)'
  BY <1>1, <1>2, <1>5 DEF LoopFits, Looping
<1>8. ExecFits(p)'
  BY <1>2 DEF ExecFits, Looping
<1> QED
  BY <1>5, <1>6, <1>7, <1>8

LEMMA FreePageStep ==
    ASSUME SpaceInv, NEW p \in Procs, FreePage(p)
    PROVE  SpaceInv'
<1>1. PICK x : x = d[p]
  OBVIOUS
<1>2. pc[p] = "freevm" /\ UNCHANGED <<image, pc, call, d, loop, mem>>
  BY DEF FreePage
<1>3. PICK v \in Mapped(x) : GivePage(p, v)
  BY <1>1 DEF FreePage
<1>4. x # None /\ pgdir' = pgdir /\ d' = d /\ mem' = mem
  BY <1>1, <1>2, FreeingFits DEF image
<1>5. MemInv' /\ \A e \in Dirs \ {x} : TreeKept(e)
  BY <1>1, <1>3, <1>4, PageGivenBack
<1> QED
  BY <1>1, <1>2, <1>5, FreeingGoesOn

LEMMA FreeTableStep ==
    ASSUME SpaceInv, NEW p \in Procs, FreeTable(p)
    PROVE  SpaceInv'
<1>1. PICK x : x = d[p]
  OBVIOUS
<1>2. pc[p] = "freevm" /\ UNCHANGED <<image, pc, call, d, loop, mem>> /\ Mapped(x) = {}
  BY <1>1 DEF FreeTable
<1>3. PICK s \in Used(x) :
         /\ free' = free \cup {page[x][s]}
         /\ page' = [page EXCEPT ![page[x][s]] = Junk, ![x][s] = None]
  BY <1>1 DEF FreeTable
<1>4. PICK t : t = page[x][s]
  OBVIOUS
<1>5. /\ x # None /\ x \in Dirs /\ pgdir' = pgdir /\ d' = d /\ mem' = mem
      /\ s \in Pdes /\ t # None /\ MemInv
  BY <1>1, <1>2, <1>4, FreeingFits, SpaceMem DEF image, Used
<1>6. \A k \in Ptes : page[t][k] = None
  BY <1>2, <1>4, <1>5, TablesEmpty
<1>7. /\ t \in Pages /\ x \in Pages /\ t # x /\ DOMAIN page = Pages
  BY <1>4, <1>5, TreeApart, DirContents, MemParts DEF PageTypes
<1>8. /\ DOMAIN page' = Pages
      /\ page'[x] = [page[x] EXCEPT ![s] = None]
      /\ \A g \in Pages : g # t /\ g # x => page'[g] = page[g]
  BY <1>3, <1>4, <1>7
<1>9. MemInv' /\ \A e \in Dirs \ {x} : TreeKept(e)
  <2>1. free' = free \cup {t}
    BY <1>3, <1>4
  <2> QED
    BY <1>4, <1>5, <1>6, <1>8, <2>1, TableGiven
<1> QED
  BY <1>1, <1>2, <1>9, FreeingGoesOn

LEMMA FreeDirStep ==
    ASSUME SpaceInv, NEW p \in Procs, FreeDir(p)
    PROVE  SpaceInv'
<1>1. PICK x : x = d[p]
  OBVIOUS
<1>2. pc[p] = "freevm"
  BY DEF FreeDir
<1>3. /\ TypeOK /\ CallFits(p) /\ LoopFits(p)
      /\ segs \in [Procs -> Seq(Segments)]
      /\ op[p] \in {"fork", "exec", "exit"} /\ mem[p] = None
      /\ x # None /\ x \in Dirs /\ x \in Roots(p) /\ pgdir[p] # x
      /\ pgdir[p] # None <=> op[p] # "exit"
      /\ pgdir[p] # None => Mapped(pgdir[p]) = Below(sz[p])
  BY <1>1, <1>2, FreeingFits
<1>4. MemInv /\ x \in Pages /\ DOMAIN page = Pages
  BY <1>3, SpaceMem, MemParts DEF PagesApart, PageTypes
<1>5. \A s \in Pdes : page[x][s] = None
  BY <1>1 DEF FreeDir, Used
<1>6. /\ free' = free \cup {x} /\ page' = [page EXCEPT ![x] = Junk]
      /\ d' = [d EXCEPT ![p] = None]
      /\ pgdir' = pgdir /\ sz' = sz /\ mem' = mem
  BY <1>1 DEF FreeDir, image
<1>7. /\ DOMAIN page' = Pages
      /\ \A g \in Pages : g # x => page'[g] = page[g]
      /\ \A q \in Procs : d'[q] = IF q = p THEN None ELSE d[q]
      /\ d' \in [Procs -> Pages \cup {None}]
      /\ free' \subseteq Pages
  BY <1>3, <1>4, <1>6 DEF TypeOK
<1>8. MemInv' /\ \A e \in Dirs \ {x} : TreeKept(e)
  <2>1. free' = free \cup {x}
    BY <1>6
  <2> QED
    BY <1>1, <1>3, <1>4, <1>5, <1>6, <1>7, <2>1, DirGiven, SMTT(30)
<1>9. /\ \A q \in Procs \ {p} : Kept(q)
      /\ \A e \in Roots(p) : e # x => TreeKept(e)
  BY <1>3, <1>8, TreesApart
<1>10. CASE op[p] = "exit"
  <2>1. /\ Goto(p, "unused") /\ op' = [op EXCEPT ![p] = "none"]
        /\ child' = child /\ segs' = segs /\ lo' = lo /\ hi' = hi /\ a' = a
    BY <1>10 DEF FreeDir, loop
  <2>2. /\ pc'[p] = "unused" /\ op'[p] = "none" /\ d'[p] = None
        /\ \A q \in Procs \ {p} : Same(q)
    BY <1>3, <1>6, <1>7, <2>1 DEF Goto, TypeOK, Same
  <2>3. TypeOK'
    <3>1. pc' \in [Procs -> Codes \ {"panic"}]
      BY <1>3, <2>1 DEF Goto, TypeOK, Codes
    <3>2. op' \in [Procs -> {"none", "fork", "exec", "grow", "shrink", "exit"}]
      BY <1>3, <2>1 DEF TypeOK
    <3> QED
      BY <1>3, <1>6, <1>7, <2>1, <3>1, <3>2 DEF TypeOK
  <2>4. CallFits(p)'
    BY <1>3, <1>6, <1>10, <2>1, <2>2 DEF CallFits
  <2>5. LoopFits(p)' /\ ExecFits(p)'
    BY <1>3, <1>6, <1>10, <2>2 DEF LoopFits, ExecFits, Looping
  <2> QED
    BY <1>2, <1>3, <1>8, <1>9, <2>1, <2>2, <2>3, <2>4, <2>5, FrameOne
<1>11. CASE op[p] # "exit"
  <2>1. Return(p)
    BY <1>11 DEF FreeDir
  <2>2. Mapped(pgdir[p])' = Below(sz[p])'
    <3>1. PICK y : y = pgdir[p]
      OBVIOUS
    <3>2. y \in Dirs /\ TreeKept(y)
      BY <1>3, <1>9, <1>11, <3>1, DirInUse DEF Roots
    <3>3. Mapped(y)' = Mapped(y)
      BY <1>4, <3>2, KeptMapped
    <3>4. Mapped(pgdir[p])' = Mapped(y)'
      BY <1>6, <3>1 DEF Mapped, Walk, Table
    <3>5. Below(sz[p])' = Below(sz[p])
      BY <1>6 DEF Below
    <3> QED
      BY <1>3, <1>11, <3>1, <3>3, <3>4, <3>5
  <2>3. sz' \in [Procs -> 0..KernBase]
    BY <1>3, <1>6 DEF TypeOK
  <2> QED
    BY <1>3, <1>6, <1>7, <1>8, <1>9, <1>11, <2>1, <2>2, <2>3, Returns
<1> QED
  BY <1>10, <1>11

-----------------------------------------------------------------------------
(* exec *)

LEMMA HeadOf ==
    ASSUME NEW p \in Procs, segs \in [Procs -> Seq(Segments)], segs[p] # <<>>
    PROVE  /\ Head(segs[p]).vaddr \in Nat /\ Head(segs[p]).memsz \in Nat
           /\ Head(segs[p]).filesz \in Nat
           /\ End(p) \in Nat /\ End(p) = Head(segs[p]).vaddr + Head(segs[p]).memsz
           /\ Tail(segs[p]) \in Seq(Segments)
<1>1. segs[p] \in Seq(Segments)
  OBVIOUS
<1>2. Head(segs[p]) \in Segments /\ Tail(segs[p]) \in Seq(Segments)
  BY <1>1
<1>3. /\ Head(segs[p]).vaddr \in Nat /\ Head(segs[p]).memsz \in Nat
      /\ Head(segs[p]).filesz \in Nat
  BY <1>2 DEF Segments
<1> QED
  BY <1>2, <1>3 DEF End, Limit

LEMMA ExecHolds ==
    ASSUME SpaceInv, NEW p \in Procs, op[p] = "exec",
           pc[p] \in {"alloc", "segment", "load", "args", "commit"}
    PROVE  /\ mem[p] = None /\ child[p] = p
           /\ d[p] # None /\ pgdir[p] # None /\ d[p] # pgdir[p]
           /\ Mapped(pgdir[p]) = Below(sz[p])
BY SpaceParts DEF CallFits, LoopFits

(* A step of exec that touches no page, to the next loop, to loaduvm or to *)
(* freevm.                                                                 *)
LEMMA ExecMoves ==
    ASSUME SpaceInv, NEW p \in Procs, NEW s, NEW l, NEW h, NEW k,
           op[p] = "exec", pc[p] \in {"alloc", "segment", "load", "args"},
           s \in {"alloc", "load", "freevm"}, Goto(p, s),
           UNCHANGED <<free, page, pgdir, sz, op, child, segs, d, mem>>,
           lo' \in [Procs -> 0..KernBase], hi' \in [Procs -> 0..KernBase],
           a' \in [Procs -> 0..(UserTables * PerTable)],
           lo'[p] = l, hi'[p] = h, a'[p] = k,
           \A q \in Procs \ {p} : lo'[q] = lo[q] /\ hi'[q] = hi[q] /\ a'[q] = a[q],
           s = "alloc" =>
              /\ Mapped(d[p]) = Upto(k) /\ k <= PgRoundUp(h)
              /\ IF segs[p] # <<>>
                 THEN h = End(p) /\ Head(segs[p]).filesz <= Head(segs[p]).memsz
                 ELSE h >= 2 * PgSize,
           s = "load" =>
              /\ Mapped(d[p]) = Below(l) /\ segs[p] # <<>> /\ End(p) <= l
              /\ Head(segs[p]).filesz <= Head(segs[p]).memsz
    PROVE  SpaceInv'
<1>1. /\ TypeOK /\ CallFits(p) /\ LoopFits(p) /\ ExecFits(p)
      /\ segs \in [Procs -> Seq(Segments)]
  BY SpaceParts
<1>2. /\ mem[p] = None /\ child[p] = p /\ d[p] # None /\ pgdir[p] # None /\ d[p] # pgdir[p]
      /\ Mapped(pgdir[p]) = Below(sz[p])
  BY ExecHolds, <1>1 DEF CallFits
<1>3. pc'[p] = s /\ \A q \in Procs \ {p} : Same(q)
  BY <1>1 DEF Goto, TypeOK, Same
<1>4. TypeOK'
  <2>1. pc' \in [Procs -> Codes \ {"panic"}]
    BY <1>1 DEF Goto, TypeOK, Codes
  <2> QED
    BY <1>1, <2>1 DEF TypeOK
<1>5. MemInv' /\ \A q \in Procs : Kept(q)
  BY MemSame
<1>6. /\ Mapped(d[p])' = Mapped(d[p]) /\ Mapped(pgdir[p])' = Mapped(pgdir[p])
  BY <1>2, <1>5, MappedKept
<1>7. /\ Below(sz[p])' = Below(sz[p]) /\ Below(lo[p])' = Below(l) /\ Upto(a[p])' = Upto(k)
      /\ PgRoundUp(hi[p])' = PgRoundUp(h) /\ End(p)' = End(p)
  BY DEF Below, Upto, PgRoundUp, End
<1>8. CallFits(p)'
  BY <1>1, <1>2, <1>3 DEF CallFits
<1>9. LoopFits(p)'
  BY <1>1, <1>2, <1>3, <1>6, <1>7 DEF LoopFits, Looping
<1>10. ExecFits(p)'
  BY <1>1, <1>2, <1>3, <1>6, <1>7 DEF ExecFits, Looping
<1> QED
  BY <1>1, <1>3, <1>4, <1>5, <1>8, <1>9, <1>10, FrameOne

LEMMA ExecFails ==
    ASSUME SpaceInv, NEW p \in Procs,
           op[p] = "exec", pc[p] \in {"alloc", "segment", "load", "args"}, Goto(p, "freevm"),
           UNCHANGED <<free, page, pgdir, sz, op, child, segs, d, lo, hi, a, mem>>
    PROVE  SpaceInv'
<1>1. TypeOK
  BY SpaceParts
<1>2. PICK l : l = lo'[p]
  OBVIOUS
<1>3. PICK h : h = hi'[p]
  OBVIOUS
<1>4. PICK k : k = a'[p]
  OBVIOUS
<1>5. PICK s : s = "freevm"
  OBVIOUS
<1>6. Goto(p, s)
  BY <1>5
<1>7. /\ lo' \in [Procs -> 0..KernBase] /\ hi' \in [Procs -> 0..KernBase]
      /\ a' \in [Procs -> 0..(UserTables * PerTable)]
  BY <1>1 DEF TypeOK
<1> QED
  BY <1>2, <1>3, <1>4, <1>5, <1>6, <1>7, ExecMoves

LEMMA SegmentStep ==
    ASSUME SpaceInv, NEW p \in Procs, Segment(p)
    PROVE  SpaceInv'
<1>1. /\ TypeOK /\ CallFits(p) /\ LoopFits(p) /\ ExecFits(p)
      /\ segs \in [Procs -> Seq(Segments)]
  BY SpaceParts
<1>2. /\ pc[p] = "segment" /\ op[p] = "exec" /\ segs[p] # <<>>
      /\ Mapped(d[p]) = Below(lo[p])
  BY <1>1 DEF Segment, CallFits, ExecFits
<1>3. UNCHANGED <<free, page, pgdir, sz, op, child, segs, d, mem>>
  BY DEF Segment, memory, image, call
<1>4. /\ lo[p] \in Nat /\ hi[p] \in Nat /\ a[p] \in Nat /\ KernBase \in Nat
      /\ lo \in [Procs -> 0..KernBase] /\ hi \in [Procs -> 0..KernBase]
      /\ a \in [Procs -> 0..(UserTables * PerTable)]
  BY <1>1, ProcTypes, Sizes DEF TypeOK
<1>5. /\ Head(segs[p]).memsz \in Nat /\ Head(segs[p]).filesz \in Nat
      /\ End(p) \in Nat /\ End(p) = Head(segs[p]).vaddr + Head(segs[p]).memsz
  BY <1>1, <1>2, HeadOf
<1>6. CASE Goto(p, "freevm") /\ UNCHANGED loop
  BY <1>2, <1>3, <1>6, ExecFails DEF loop
<1>7. CASE /\ Head(segs[p]).memsz >= Head(segs[p]).filesz /\ End(p) < KernBase
           /\ lo[p] <= End(p)
           /\ hi' = [hi EXCEPT ![p] = End(p)]
           /\ a' = [a EXCEPT ![p] = AllocFrom(lo[p])]
           /\ Goto(p, "alloc")
           /\ UNCHANGED lo
  <2>1. PICK l : l = lo'[p]
    OBVIOUS
  <2>2. PICK h : h = End(p)
    OBVIOUS
  <2>3. PICK k : k = PgRoundUp(lo[p])
    OBVIOUS
  <2>4. PICK s : s = "alloc"
    OBVIOUS
  <2>5. Goto(p, s)
    BY <1>7, <2>4
  <2>6. k \in 0..(UserTables * PerTable) /\ h \in 0..KernBase
    BY <1>1, <1>4, <1>5, <1>7, <2>2, <2>3, RoundUpLimit DEF TypeOK
  <2>7. /\ lo' \in [Procs -> 0..KernBase] /\ hi' \in [Procs -> 0..KernBase]
        /\ a' \in [Procs -> 0..(UserTables * PerTable)]
        /\ hi'[p] = h /\ a'[p] = k
        /\ \A q \in Procs \ {p} : lo'[q] = lo[q] /\ hi'[q] = hi[q] /\ a'[q] = a[q]
    BY <1>4, <1>7, <2>2, <2>3, <2>6 DEF AllocFrom
  <2>8. Mapped(d[p]) = Upto(k)
    BY <1>2, <1>4, <2>3, BelowRoundUp
  <2>9. k <= PgRoundUp(h)
    BY <1>4, <1>5, <1>7, <2>2, <2>3, RoundUpMonotone
  <2>10. IF segs[p] # <<>>
         THEN h = End(p) /\ Head(segs[p]).filesz <= Head(segs[p]).memsz
         ELSE h >= 2 * PgSize
    BY <1>2, <1>5, <1>7, <2>2
  <2> QED
    BY <1>2, <1>3, <2>1, <2>4, <2>5, <2>7, <2>8, <2>9, <2>10, ExecMoves
<1>8. CASE /\ Head(segs[p]).memsz >= Head(segs[p]).filesz
           /\ lo[p] > End(p)
           /\ Goto(p, "load")
           /\ UNCHANGED loop
  <2>1. PICK l : l = lo[p]
    OBVIOUS
  <2>2. PICK h : h = hi[p]
    OBVIOUS
  <2>3. PICK k : k = a[p]
    OBVIOUS
  <2>4. PICK s : s = "load"
    OBVIOUS
  <2>5. Goto(p, s)
    BY <1>8, <2>4
  <2>6. lo' = lo /\ hi' = hi /\ a' = a
    BY <1>8 DEF loop
  <2>7. /\ Mapped(d[p]) = Below(l) /\ segs[p] # <<>> /\ End(p) <= l
        /\ Head(segs[p]).filesz <= Head(segs[p]).memsz
    BY <1>2, <1>4, <1>5, <1>8, <2>1
  <2> QED
    BY <1>2, <1>3, <1>4, <2>1, <2>2, <2>3, <2>4, <2>5, <2>6, <2>7, ExecMoves
<1> QED
  BY <1>6, <1>7, <1>8 DEF Segment, End, Limit

LEMMA SegmentDoneStep ==
    ASSUME SpaceInv, NEW p \in Procs, SegmentDone(p)
    PROVE  SpaceInv'
<1>1. /\ TypeOK /\ ExecFits(p) /\ segs \in [Procs -> Seq(Segments)]
  BY SpaceParts
<1>2. /\ pc[p] = "alloc" /\ op[p] = "exec" /\ segs[p] # <<>>
      /\ Mapped(d[p]) = Below(hi[p]) /\ hi[p] \in Nat
  BY LoopDone DEF SegmentDone
<1>3. hi[p] = End(p) /\ Head(segs[p]).filesz <= Head(segs[p]).memsz
  BY <1>1, <1>2 DEF ExecFits, Looping
<1>4. UNCHANGED <<free, page, pgdir, sz, op, child, segs, d, hi, a, mem>>
  BY DEF SegmentDone, memory, image, call
<1>5. PICK l : l = hi[p]
  OBVIOUS
<1>6. PICK h : h = hi[p]
  OBVIOUS
<1>7. PICK k : k = a[p]
  OBVIOUS
<1>8. PICK s : s = IF hi[p] = 0 THEN "freevm" ELSE "load"
  OBVIOUS
<1>9. Goto(p, s) /\ s \in {"alloc", "load", "freevm"} /\ s # "alloc"
  BY <1>8 DEF SegmentDone
<1>10. /\ lo' \in [Procs -> 0..KernBase] /\ hi' \in [Procs -> 0..KernBase]
       /\ a' \in [Procs -> 0..(UserTables * PerTable)]
       /\ lo'[p] = l /\ \A q \in Procs \ {p} : lo'[q] = lo[q]
  BY <1>1, <1>4, <1>5 DEF TypeOK, SegmentDone
<1>11. Mapped(d[p]) = Below(l) /\ End(p) <= l
  BY <1>2, <1>3, <1>5
<1> QED
  BY <1>2, <1>3, <1>4, <1>6, <1>7, <1>9, <1>10, <1>11, ExecMoves

LEMMA StackStep ==
    ASSUME SpaceInv, NEW p \in Procs, Stack(p)
    PROVE  SpaceInv'
<1>1. /\ TypeOK /\ CallFits(p) /\ ExecFits(p)
  BY SpaceParts
<1>2. /\ pc[p] = "segment" /\ op[p] = "exec" /\ segs[p] = <<>>
      /\ Mapped(d[p]) = Below(lo[p])
  BY <1>1 DEF Stack, CallFits, ExecFits
<1>3. UNCHANGED <<free, page, pgdir, sz, op, child, segs, d, mem>>
  BY DEF Stack, memory, image, call
<1>4. PICK k : k = PgRoundUp(lo[p])
  OBVIOUS
<1>5. PICK top : top = k * PgSize
  OBVIOUS
<1>6. PICK two : two = 2 * PgSize
  OBVIOUS
<1>7. /\ lo[p] \in Nat /\ k \in Nat /\ top \in Nat /\ two \in Nat /\ KernBase \in Nat
      /\ k \in 0..(UserTables * PerTable)
  <2>1. lo[p] \in 0..KernBase /\ lo[p] \in Nat
    BY <1>1, ProcTypes DEF TypeOK
  <2>2. k \in 0..(UserTables * PerTable) /\ k \in Nat
    BY <1>4, <2>1, RoundUpLimit, RoundUp
  <2>3. two \in Nat /\ KernBase \in Nat /\ \A i \in Nat : i * PgSize \in Nat
    BY <1>6, Sizes
  <2> QED
    BY <1>5, <2>1, <2>2, <2>3
<1>8. CASE Goto(p, "freevm") /\ UNCHANGED loop
  BY <1>2, <1>3, <1>8, ExecFails DEF loop
<1>9. CASE /\ top + two < KernBase
           /\ lo' = [lo EXCEPT ![p] = top]
           /\ hi' = [hi EXCEPT ![p] = top + two]
           /\ a' = [a EXCEPT ![p] = AllocFrom(top)]
           /\ Goto(p, "alloc")
  <2>1. PICK h : h = top + two
    OBVIOUS
  <2>2. PICK s : s = "alloc"
    OBVIOUS
  <2>3. Goto(p, s)
    BY <1>9, <2>2
  <2>4. AllocFrom(top) = k
    BY <1>5, <1>7, RoundUpExact DEF AllocFrom
  <2>5. /\ top \in 0..KernBase /\ h \in 0..KernBase /\ h \in Nat /\ top <= h /\ h >= two
    BY <1>7, <1>9, <2>1
  <2>6. /\ lo' \in [Procs -> 0..KernBase] /\ hi' \in [Procs -> 0..KernBase]
        /\ a' \in [Procs -> 0..(UserTables * PerTable)]
        /\ lo'[p] = top /\ hi'[p] = h /\ a'[p] = k
        /\ \A q \in Procs \ {p} : lo'[q] = lo[q] /\ hi'[q] = hi[q] /\ a'[q] = a[q]
    BY <1>1, <1>7, <1>9, <2>1, <2>4, <2>5 DEF TypeOK
  <2>7. Mapped(d[p]) = Upto(k)
    BY <1>2, <1>4, <1>7, BelowRoundUp
  <2>8. k <= PgRoundUp(h)
    <3>1. PgRoundUp(top) = k
      BY <1>5, <1>7, RoundUpExact
    <3> QED
      BY <1>7, <2>5, <3>1, RoundUpMonotone
  <2>9. IF segs[p] # <<>>
        THEN h = End(p) /\ Head(segs[p]).filesz <= Head(segs[p]).memsz
        ELSE h >= 2 * PgSize
    BY <1>2, <1>6, <2>5
  <2> QED
    BY <1>2, <1>3, <2>2, <2>3, <2>6, <2>7, <2>8, <2>9, ExecMoves
<1>10. IF top + two >= KernBase
       THEN Goto(p, "freevm") /\ UNCHANGED loop
       ELSE /\ lo' = [lo EXCEPT ![p] = top]
            /\ hi' = [hi EXCEPT ![p] = top + two]
            /\ a' = [a EXCEPT ![p] = AllocFrom(top)]
            /\ Goto(p, "alloc")
  BY <1>4, <1>5, <1>6, Zenon DEF Stack
<1> QED
  BY <1>7, <1>8, <1>9, <1>10

(* loaduvm writes into pages that exec has mapped. *)
LEMMA LoadStep ==
    ASSUME SpaceInv, NEW p \in Procs, Load(p)
    PROVE  SpaceInv'
<1>1. /\ TypeOK /\ CallFits(p) /\ LoopFits(p) /\ ExecFits(p)
      /\ segs \in [Procs -> Seq(Segments)] /\ MemInv
  BY SpaceParts, SpaceMem
<1>2. PICK x : x = d[p]
  OBVIOUS
<1>3. PICK s : s = Head(segs[p])
  OBVIOUS
<1>4. /\ pc[p] = "load" /\ op[p] = "exec" /\ segs[p] # <<>>
      /\ Mapped(x) = Below(lo[p]) /\ End(p) <= lo[p] /\ s.filesz <= s.memsz
  BY <1>1, <1>2, <1>3 DEF Load, CallFits, ExecFits
<1>5. /\ mem[p] = None /\ child[p] = p /\ x # None /\ pgdir[p] # None /\ x # pgdir[p]
      /\ Mapped(pgdir[p]) = Below(sz[p]) /\ x \in Dirs
  BY <1>2, <1>4, ExecHolds, DirInUse
<1>6. /\ free' = free /\ pgdir' = pgdir /\ sz' = sz /\ op' = op /\ child' = child /\ d' = d
      /\ lo' = lo /\ hi' = hi /\ a' = a /\ mem' = mem
  BY DEF Load, image, loop
<1>7. CASE Goto(p, "freevm") /\ UNCHANGED <<page, segs>>
  BY <1>4, <1>6, <1>7, ExecFails
<1>8. ~LoadPanics(p, s)
  <2>1. /\ s.vaddr \in Nat /\ s.filesz \in Nat /\ s.memsz \in Nat /\ lo[p] \in Nat
        /\ s.vaddr + s.filesz <= lo[p]
    BY <1>1, <1>3, <1>4, HeadOf, ProcTypes
  <2>2. ASSUME NEW v \in UserPages, NEW y \in Nat, y = v * PgSize, y < s.vaddr + s.filesz
        PROVE  y < lo[p]
    BY <2>1, <2>2
  <2>3. \A v \in UserPages : v * PgSize \in Nat
    BY Sizes DEF UserPages
  <2>4. Loaded(s) \subseteq Below(lo[p])
    BY <2>2, <2>3 DEF Loaded, Below
  <2> QED
    BY <1>2, <1>4, <2>4 DEF LoadPanics
<1>9. CASE /\ page' = [g \in Pages |->
                         IF \E v \in Loaded(s) : Walk(x, v).pg = g THEN s.data ELSE page[g]]
           /\ Goto(p, "segment")
           /\ segs' = [segs EXCEPT ![p] = Tail(@)]
  <2>1. ASSUME NEW v \in Loaded(s) PROVE Walk(x, v).pg \in Leaves
    <3>1. v \in Mapped(x) /\ v \in UserPages
      BY <1>2, <1>8 DEF LoadPanics, Loaded
    <3> QED
      BY <1>1, <1>5, <3>1, WalkTypes, MappedPages
  <2>2. DOMAIN page' = Pages /\ \A g \in Pages \ Leaves : page'[g] = page[g]
    BY <1>9, <2>1
  <2>3. MemInv' /\ \A e \in Dirs : TreeKept(e)
    BY <1>1, <1>6, <2>2, DataWritten
  <2>4. pc'[p] = "segment" /\ \A q \in Procs \ {p} : Same(q)
    BY <1>1, <1>6, <1>9 DEF Goto, TypeOK, Same
  <2>5. segs' \in [Procs -> Seq(Segments)]
    BY <1>1, <1>4, <1>9, HeadOf
  <2>6. TypeOK'
    <3>1. pc' \in [Procs -> Codes \ {"panic"}]
      BY <1>1, <1>9 DEF Goto, TypeOK, Codes
    <3> QED
      BY <1>1, <1>6, <3>1 DEF TypeOK
  <2>7. /\ Mapped(d[p])' = Mapped(x)'
        /\ Mapped(pgdir[p])' = Mapped(pgdir[p])
        /\ Below(lo[p])' = Below(lo[p]) /\ Below(sz[p])' = Below(sz[p])
        /\ CallFits(p)' /\ LoopFits(p)' /\ ExecFits(p)' => SpaceInv'
    BY <1>1, <1>2, <1>4, <1>5, <1>6, <2>3, <2>4, <2>5, <2>6, TreeStep
  <2>8. Mapped(x)' = Mapped(x)
    BY <1>1, <1>5, <2>3, KeptMapped
  <2>9. CallFits(p)'
    BY <1>1, <1>2, <1>4, <1>5, <1>6, <2>4 DEF CallFits
  <2>10. LoopFits(p)' /\ ExecFits(p)'
    BY <1>1, <1>4, <1>5, <1>6, <2>4, <2>7, <2>8 DEF LoopFits, ExecFits, Looping
  <2> QED
    BY <2>7, <2>9, <2>10
<1> QED
  BY <1>2, <1>3, <1>7, <1>8, <1>9 DEF Load

(* exec has the pages of the stack and of its guard. *)
LEMMA StackPages ==
    ASSUME SpaceInv, NEW p \in Procs,
           Mapped(d[p]) = Below(hi[p]), a[p] = PgRoundUp(hi[p]), hi[p] >= 2 * PgSize
    PROVE  /\ a[p] - 1 \in UserPages /\ a[p] - 1 \in Mapped(d[p])
           /\ a[p] - 2 \in UserPages /\ a[p] - 2 \in Mapped(d[p])
           /\ a[p] \in Nat /\ a[p] >= 2
<1>1. a[p] \in Nat /\ hi[p] \in Nat /\ a[p] <= UserTables * PerTable
  BY SpaceParts, ProcTypes
<1>2. a[p] >= 2
  <2>1. PICK two : two = 2 * PgSize
    OBVIOUS
  <2>2. two \in Nat /\ PgRoundUp(two) = 2
    BY <2>1, RoundUpExact, Sizes
  <2>3. two <= hi[p]
    BY <1>1, <2>1, <2>2
  <2> QED
    BY <1>1, <2>2, <2>3, RoundUpMonotone
<1>3. Mapped(d[p]) = Upto(a[p])
  BY <1>1, BelowRoundUp
<1>4. ASSUME NEW v \in Nat, v < a[p] PROVE v \in UserPages /\ v \in Mapped(d[p])
  <2>1. v \in UserPages
    BY <1>1, <1>4, Sizes DEF UserPages
  <2> QED
    BY <1>3, <1>4, <2>1 DEF Upto
<1>5. PICK v, w : v = a[p] - 1 /\ w = a[p] - 2
  OBVIOUS
<1>6. v \in Nat /\ v < a[p] /\ w \in Nat /\ w < a[p]
  BY <1>1, <1>2, <1>5
<1> QED
  BY <1>1, <1>2, <1>4, <1>5, <1>6

(* clearpteu finds the page below the stack.                               *)
LEMMA GuardEffect ==
    ASSUME SpaceInv, NEW p \in Procs, Guard(p), NEW x, x = d[p]
    PROVE  /\ MemInv' /\ \A e \in Dirs \ {x} : TreeKept(e)
           /\ Mapped(x)' = Mapped(x)
           /\ \E v \in Mapped(x) :
                 /\ v = a[p] - 2
                 /\ \A w \in UserPages :
                       Walk(x, w)' = IF w = v THEN Pte(Walk(x, v).pg, FALSE) ELSE Walk(x, w)
           /\ \A g \in Leaves : page'[g] = page[g]
<1>1. PICK v : v = a[p] - 2
  OBVIOUS
<1>2. PICK t : t = Table(x, v)
  OBVIOUS
<1>3. PICK k : k = v % PerTable
  OBVIOUS
<1>4. PICK s : s = v \div PerTable
  OBVIOUS
<1>5. MemInv /\ ExecFits(p)
  BY SpaceMem, SpaceParts
<1>6. /\ pc[p] = "alloc" /\ op[p] = "exec" /\ segs[p] = <<>>
      /\ Mapped(x) = Below(hi[p]) /\ a[p] = PgRoundUp(hi[p])
  BY LoopDone DEF Guard
<1>7. x # None /\ x \in Dirs
  BY <1>6, ExecHolds, DirInUse
<1>8. /\ free' = free /\ pgdir' = pgdir /\ d' = d /\ mem' = mem
      /\ page' = [page EXCEPT ![t][k].user = FALSE]
  BY <1>1, <1>2, <1>3 DEF Guard, image
<1>9. v \in UserPages /\ v \in Mapped(x)
  <2>1. hi[p] >= 2 * PgSize
    BY <1>5, <1>6 DEF ExecFits, Looping
  <2> QED
    BY <1>1, <1>6, <2>1, StackPages
<1>10. s \in Pdes /\ k \in Ptes
  BY <1>3, <1>4, <1>9, Slots
<1>11. /\ t = page[x][s] /\ t # None /\ t \in Tables /\ page[t][k] # None
       /\ page[t][k] = Walk(x, v)
  BY <1>2, <1>3, <1>4, <1>5, <1>7, <1>9, WalkTypes, MappedPages
<1>12. /\ t \in Pages /\ t # x /\ x \in Pages /\ DOMAIN page = Pages
       /\ page[t] \in [Ptes -> Entries \cup {None}] /\ Tables \subseteq Pages
       /\ Leaves \subseteq Pages /\ t \notin Leaves
  BY <1>5, <1>7, <1>11, MemParts DEF PagesApart, PageTypes
<1>13. /\ DOMAIN page' = Pages
       /\ page'[t] = [page[t] EXCEPT ![k].user = FALSE]
       /\ \A g \in Pages : g # t => page'[g] = page[g]
  BY <1>8, <1>12
<1>14. MemInv' /\ \A e \in Dirs \ {x} : TreeKept(e)
  <2>1. free' = free /\ mem' = mem /\ d' = d /\ pgdir' = pgdir
    BY <1>8
  <2>2. t # None /\ page[t][k] # None
    BY <1>11
  <2>3. t = page[x][s]
    BY <1>11
  <2> QED
    BY <1>5, <1>7, <1>10, <1>13, <2>1, <2>2, <2>3, EntryChanged
<1>15. PICK c : c = [page[t][k] EXCEPT !.user = FALSE]
  OBVIOUS
<1>16. c # None
  <2>1. page[t][k] \in Entries
    BY <1>10, <1>11, <1>12
  <2>2. c \in Entries
    BY <1>15, <2>1 DEF Entries
  <2> QED
    BY <2>2, NoneApart
<1>17. \A l \in Ptes : page'[t][l] = IF l = v % PerTable THEN c ELSE page[t][l]
  BY <1>3, <1>10, <1>12, <1>13, <1>15
<1>18. page'[x] = page[x] /\ \A w \in Tables \ {t} : page'[w] = page[w]
  BY <1>12, <1>13
<1>19. \A w \in UserPages : Walk(x, w)' = IF w = v THEN c ELSE Walk(x, w)
  <2>1. t # None /\ MemInv /\ x \in Dirs /\ v \in UserPages
    BY <1>5, <1>7, <1>9, <1>11
  <2> QED
    BY <1>2, <1>17, <1>18, <2>1, WalkChanged
<1>20. Mapped(x)' = Mapped(x)
  <2>1. Mapped(x)' = Mapped(x) \cup {v}
    BY <1>9, <1>16, <1>19, MappedChanged
  <2> QED
    BY <1>9, <2>1
<1>21. \A g \in Leaves : page'[g] = page[g]
  BY <1>12, <1>13
<1>22. c = Pte(Walk(x, v).pg, FALSE)
  <2>1. page[t][k] \in Entries
    BY <1>10, <1>11, <1>12
  <2> QED
    BY <1>11, <1>15, <2>1 DEF Pte, Entries
<1> QED
  BY <1>1, <1>9, <1>14, <1>19, <1>20, <1>21, <1>22

LEMMA GuardStep ==
    ASSUME SpaceInv, NEW p \in Procs, Guard(p)
    PROVE  SpaceInv'
<1>1. /\ TypeOK /\ CallFits(p) /\ LoopFits(p) /\ ExecFits(p)
      /\ segs \in [Procs -> Seq(Segments)] /\ MemInv
  BY SpaceParts, SpaceMem
<1>2. PICK x : x = d[p]
  OBVIOUS
<1>3. /\ pc[p] = "alloc" /\ op[p] = "exec" /\ segs[p] = <<>>
      /\ Mapped(x) = Below(hi[p]) /\ a[p] = PgRoundUp(hi[p])
  BY <1>2, LoopDone DEF Guard
<1>4. /\ mem[p] = None /\ child[p] = p /\ x # None /\ pgdir[p] # None /\ x # pgdir[p]
      /\ Mapped(pgdir[p]) = Below(sz[p])
  BY <1>2, <1>3, ExecHolds
<1>5. /\ pgdir' = pgdir /\ sz' = sz /\ op' = op /\ child' = child /\ d' = d
      /\ lo' = lo /\ hi' = hi /\ a' = a /\ mem' = mem /\ segs' = segs /\ free' = free
      /\ Goto(p, "args")
  BY DEF Guard, image, call, loop
<1>6. hi[p] >= 2 * PgSize
  BY <1>1, <1>3 DEF ExecFits, Looping
<1>7. MemInv' /\ (\A e \in Dirs \ {x} : TreeKept(e)) /\ Mapped(x)' = Mapped(x)
  BY <1>2, GuardEffect
<1>8. pc'[p] = "args" /\ \A q \in Procs \ {p} : Same(q)
  BY <1>1, <1>5 DEF Goto, TypeOK, Same
<1>9. TypeOK'
  <2>1. pc' \in [Procs -> Codes \ {"panic"}]
    BY <1>1, <1>5 DEF Goto, TypeOK, Codes
  <2> QED
    BY <1>1, <1>5, <2>1 DEF TypeOK
<1>10. segs' \in [Procs -> Seq(Segments)]
  BY <1>1, <1>5
<1>11. /\ Mapped(d[p])' = Mapped(x)'
       /\ Mapped(pgdir[p])' = Mapped(pgdir[p])
       /\ Below(hi[p])' = Below(hi[p]) /\ Below(sz[p])' = Below(sz[p])
       /\ PgRoundUp(hi[p])' = PgRoundUp(hi[p])
       /\ CallFits(p)' /\ LoopFits(p)' /\ ExecFits(p)' => SpaceInv'
  <2>1. pc[p] # "embryo"
    BY <1>3
  <2>2. /\ pgdir' = pgdir /\ sz' = sz /\ op' = op /\ child' = child /\ d' = d
        /\ lo' = lo /\ hi' = hi
    BY <1>5
  <2> QED
    BY <1>2, <1>4, <1>7, <1>8, <1>9, <1>10, <2>1, <2>2, TreeStep
<1>12. CallFits(p)'
  BY <1>1, <1>2, <1>3, <1>4, <1>5, <1>8 DEF CallFits
<1>13. LoopFits(p)'
  BY <1>1, <1>3, <1>4, <1>5, <1>8, <1>11 DEF LoopFits, Looping
<1>14. ExecFits(p)'
  BY <1>3, <1>5, <1>6, <1>7, <1>8, <1>11 DEF ExecFits, Looping
<1> QED
  BY <1>11, <1>12, <1>13, <1>14

(* copyout finds the page of the stack.                                    *)
LEMMA PushArgsStep ==
    ASSUME SpaceInv, NEW p \in Procs, PushArgs(p)
    PROVE  SpaceInv'
<1>1. /\ TypeOK /\ CallFits(p) /\ LoopFits(p) /\ ExecFits(p)
      /\ segs \in [Procs -> Seq(Segments)] /\ MemInv
  BY SpaceParts, SpaceMem
<1>2. PICK x : x = d[p]
  OBVIOUS
<1>3. PICK v : v = a[p] - 1
  OBVIOUS
<1>4. /\ pc[p] = "args" /\ op[p] = "exec"
      /\ Mapped(x) = Below(hi[p]) /\ a[p] = PgRoundUp(hi[p]) /\ hi[p] >= 2 * PgSize
  BY <1>1, <1>2 DEF PushArgs, CallFits, ExecFits
<1>5. /\ mem[p] = None /\ child[p] = p /\ x # None /\ pgdir[p] # None /\ x # pgdir[p]
      /\ Mapped(pgdir[p]) = Below(sz[p]) /\ x \in Dirs
  BY <1>2, <1>4, ExecHolds, DirInUse
<1>6. /\ free' = free /\ pgdir' = pgdir /\ sz' = sz /\ op' = op /\ child' = child /\ d' = d
      /\ lo' = lo /\ hi' = hi /\ a' = a /\ mem' = mem /\ segs' = segs
  BY DEF PushArgs, image, call, loop
<1>7. CASE Goto(p, "freevm") /\ UNCHANGED page
  BY <1>4, <1>6, <1>7, ExecFails
<1>8. CASE /\ page' = [page EXCEPT ![Walk(x, v).pg] = Args]
           /\ Goto(p, "commit")
  <2>1. v \in UserPages /\ v \in Mapped(x)
    BY <1>2, <1>3, <1>4, StackPages
  <2>2. Walk(x, v).pg \in Leaves
    BY <1>1, <1>5, <2>1, WalkTypes, MappedPages
  <2>3. DOMAIN page = Pages
    BY <1>1, MemParts DEF PageTypes
  <2>4. DOMAIN page' = Pages /\ \A g \in Pages \ Leaves : page'[g] = page[g]
    BY <1>8, <2>2, <2>3
  <2>5. MemInv' /\ \A e \in Dirs : TreeKept(e)
    BY <1>1, <1>6, <2>4, DataWritten
  <2>6. pc'[p] = "commit" /\ \A q \in Procs \ {p} : Same(q)
    BY <1>1, <1>6, <1>8 DEF Goto, TypeOK, Same
  <2>7. TypeOK'
    <3>1. pc' \in [Procs -> Codes \ {"panic"}]
      BY <1>1, <1>8 DEF Goto, TypeOK, Codes
    <3> QED
      BY <1>1, <1>6, <3>1 DEF TypeOK
  <2>8. /\ Mapped(d[p])' = Mapped(x)'
        /\ Mapped(pgdir[p])' = Mapped(pgdir[p])
        /\ Below(hi[p])' = Below(hi[p]) /\ Below(sz[p])' = Below(sz[p])
        /\ PgRoundUp(hi[p])' = PgRoundUp(hi[p])
        /\ CallFits(p)' /\ LoopFits(p)' /\ ExecFits(p)' => SpaceInv'
    BY <1>1, <1>2, <1>4, <1>5, <1>6, <2>5, <2>6, <2>7, TreeStep
  <2>9. Mapped(x)' = Mapped(x)
    BY <1>1, <1>5, <2>5, KeptMapped
  <2>10. CallFits(p)'
    BY <1>1, <1>2, <1>4, <1>5, <1>6, <2>6 DEF CallFits
  <2>11. LoopFits(p)' /\ ExecFits(p)'
    BY <1>1, <1>4, <1>5, <1>6, <2>6, <2>8, <2>9 DEF LoopFits, ExecFits, Looping
  <2> QED
    BY <2>8, <2>10, <2>11
<1> QED
  BY <1>2, <1>3, <1>7, <1>8 DEF PushArgs

LEMMA CommitStep ==
    ASSUME SpaceInv, NEW p \in Procs, Commit(p)
    PROVE  SpaceInv'
<1>1. /\ TypeOK /\ CallFits(p) /\ LoopFits(p) /\ ExecFits(p)
      /\ segs \in [Procs -> Seq(Segments)] /\ MemInv
  BY SpaceParts, SpaceMem
<1>2. PICK x : x = d[p]
  OBVIOUS
<1>3. PICK y : y = pgdir[p]
  OBVIOUS
<1>4. pc[p] = "commit" /\ op[p] = "exec" /\ Mapped(x) = Below(hi[p])
  BY <1>1, <1>2 DEF Commit, CallFits, ExecFits
<1>5. /\ mem[p] = None /\ child[p] = p /\ x # None /\ y # None /\ x # y
      /\ x \in Dirs /\ x \in Pages \cup {None} /\ y \in Pages \cup {None}
  BY <1>1, <1>2, <1>3, <1>4, ExecHolds, DirInUse, ProcTypes
<1>6. /\ free' = free /\ page' = page /\ op' = op /\ child' = child /\ segs' = segs
      /\ lo' = lo /\ hi' = hi /\ a' = a /\ mem' = mem
      /\ pgdir' = [pgdir EXCEPT ![p] = x] /\ d' = [d EXCEPT ![p] = y]
      /\ sz' = [sz EXCEPT ![p] = hi[p]]
      /\ Goto(p, "freevm")
  BY <1>2, <1>3 DEF Commit, memory, call, loop
<1>7. /\ pc'[p] = "freevm" /\ pgdir'[p] = x /\ d'[p] = y /\ sz'[p] = hi[p]
      /\ \A q \in Procs \ {p} : Same(q)
  BY <1>1, <1>6 DEF Goto, TypeOK, Same
<1>8. TypeOK'
  <2>1. pc' \in [Procs -> Codes \ {"panic"}]
    BY <1>1, <1>6 DEF Goto, TypeOK, Codes
  <2>2. /\ pgdir' \in [Procs -> Pages \cup {None}] /\ d' \in [Procs -> Pages \cup {None}]
        /\ sz' \in [Procs -> 0..KernBase]
    BY <1>1, <1>5, <1>6 DEF TypeOK
  <2> QED
    BY <1>1, <1>6, <2>1, <2>2 DEF TypeOK
<1>9. \A q \in Procs : Roots(q)' = Roots(q)
  BY <1>2, <1>3, <1>7 DEF Roots, Same
<1>10. MemInv' /\ \A q \in Procs : Kept(q)
  BY <1>6, <1>8, <1>9, RootsSame DEF TypeOK
<1>11. Mapped(pgdir[p])' = Below(sz[p])'
  <2>1. TreeKept(x)
    BY <1>2, <1>5, <1>10 DEF Kept, Roots
  <2>2. Mapped(x)' = Mapped(x)
    BY <1>1, <1>5, <2>1, KeptMapped
  <2>3. Mapped(pgdir[p])' = Mapped(x)' /\ Below(sz[p])' = Below(hi[p])
    BY <1>7 DEF Mapped, Walk, Table, Below
  <2> QED
    BY <1>4, <2>2, <2>3
<1>12. CallFits(p)'
  BY <1>4, <1>5, <1>6, <1>7 DEF CallFits
<1>13. LoopFits(p)' /\ ExecFits(p)'
  BY <1>4, <1>6, <1>7, <1>11 DEF LoopFits, ExecFits, Looping
<1>14. segs' \in [Procs -> Seq(Segments)]
  BY <1>1, <1>6
<1> QED
  BY <1>4, <1>6, <1>7, <1>8, <1>10, <1>12, <1>13, <1>14, FrameOne

-----------------------------------------------------------------------------
(* The pages of the first process *)

LEMMA FirstImage ==
    ASSUME Init
    PROVE  /\ MemInv
           /\ Mapped(1) = Below(PgSize)
           /\ 1 \in Pages /\ 1 # None
<1> DEFINE First1 == [s \in Pdes |-> CASE s = UserTables -> 2
                                       [] s = 0 -> 3
                                       [] OTHER -> None]
           First3 == [t \in Ptes |-> IF t = 0 THEN Pte(4, TRUE) ELSE None]
<1>1. 1 \in Pages /\ 2 \in Pages /\ 3 \in Pages /\ 4 \in Pages
  BY AddressSpaceAssumption
<1>2. 1 # None /\ 2 # None /\ 3 # None /\ 4 # None /\ Pages \subseteq Nat
  BY <1>1, NoneApart, AddressSpaceAssumption
<1>3. 0 \in Pdes /\ UserTables \in Pdes /\ 0 # UserTables /\ 0 \in Ptes
  BY Sizes DEF Pdes, Ptes
<1>4. Pte(4, TRUE) \in Entries /\ Pte(4, TRUE) # None /\ Pte(4, TRUE).pg = 4
  <2>1. PICK u \in BOOLEAN : u = TRUE
    OBVIOUS
  <2>2. Pte(4, u) \in Entries /\ Pte(4, u).pg = 4
    BY <1>1 DEF Pte, Entries
  <2> QED
    BY <2>1, <2>2, NoneApart
<1>5. /\ free = Pages \ (1..4) /\ DOMAIN page = Pages
      /\ page[1] = First1 /\ page[2] = EmptyTable /\ page[3] = First3
  BY <1>1 DEF Init
<1>6. /\ First1 \in [Pdes -> Pages \cup {None}]
      /\ First1[UserTables] = 2 /\ First1[0] = 3
      /\ \A s \in Pdes : s # UserTables /\ s # 0 => First1[s] = None
  <2>1. ASSUME NEW s \in Pdes
        PROVE  First1[s] = IF s = UserTables THEN 2 ELSE IF s = 0 THEN 3 ELSE None
    <3>1. CASE s = UserTables
      BY <1>3, <3>1
    <3>2. CASE s # UserTables
      BY <3>2
    <3> QED
      BY <3>1, <3>2
  <2> HIDE DEF First1
  <2>2. First1 = [s \in Pdes |-> First1[s]]
    BY DEF First1
  <2> QED
    BY <1>1, <1>3, <2>1, <2>2
<1>7. /\ First3 \in [Ptes -> Entries \cup {None}]
      /\ First3[0] = Pte(4, TRUE) /\ \A k \in Ptes : k # 0 => First3[k] = None
  BY <1>3, <1>4
<1>8. /\ \A k \in Ptes : EmptyTable[k] = None
      /\ EmptyTable \in [Ptes -> Entries \cup {None}]
  BY DEF EmptyTable
<1>9. PICK first \in Procs : pgdir = [p \in Procs |-> IF p = first THEN 1 ELSE None]
  BY DEF Init
<1>10. d = [p \in Procs |-> None] /\ mem = [p \in Procs |-> None]
  BY DEF Init
<1> HIDE DEF First1, First3
<1>11. Dirs = {1}
  BY <1>2, <1>9, <1>10 DEF Dirs
<1>12. Tables = {2, 3}
  <2>1. ASSUME NEW t PROVE t \in Tables <=> t \in {2, 3}
    BY <1>2, <1>3, <1>5, <1>6, <1>11, TableOf
  <2> QED
    BY <2>1
<1>13. Leaves = {4}
  <2>1. ASSUME NEW g \in Leaves PROVE g = 4
    <3>1. PICK t \in Tables, k \in Ptes : page[t][k] # None /\ page[t][k].pg = g
      BY LeafOf
    <3>2. page[t] = First3 /\ k = 0
      BY <1>5, <1>7, <1>8, <1>12, <3>1
    <3> QED
      BY <1>4, <1>7, <3>1, <3>2
  <2>2. 4 \in Leaves
    <3>1. 3 \in Tables /\ page[3][0] # None /\ page[3][0].pg = 4
      BY <1>4, <1>5, <1>7, <1>12
    <3> QED
      BY <1>1, <1>3, <3>1, LeafOf
  <2> QED
    BY <2>1, <2>2
<1>14. Hands = {}
  BY <1>10 DEF Hands
<1>15. PagesApart
  <2>1. Pages = free \cup {1} \cup {2, 3} \cup {4}
    BY <1>1, <1>2, <1>5
  <2>2. 1 \notin free /\ 2 \notin free /\ 3 \notin free /\ 4 \notin free
    BY <1>5
  <2> QED
    BY <1>11, <1>12, <1>13, <1>14, <2>1, <2>2 DEF PagesApart
<1>16. PlacedOnce
  <2>1. RootsOnce
    BY <1>2, <1>9, <1>10 DEF RootsOnce, Roots
  <2>2. TablesOnce
    BY <1>5, <1>6, <1>11 DEF TablesOnce
  <2>3. LeavesOnce
    <3>1. \A t \in Tables, k \in Ptes : page[t][k] # None => t = 3 /\ k = 0
      BY <1>5, <1>7, <1>8, <1>12
    <3> QED
      BY <3>1 DEF LeavesOnce
  <2>4. HandsOnce
    BY <1>10 DEF HandsOnce
  <2> QED
    BY <2>1, <2>2, <2>3, <2>4 DEF PlacedOnce
<1>17. PageTypes
  BY <1>5, <1>6, <1>7, <1>8, <1>11, <1>12 DEF PageTypes
<1>18. MemTypes
  BY <1>1, <1>5, <1>9, <1>10 DEF MemTypes
<1>19. Mapped(1) = Below(PgSize)
  <2>1. ASSUME NEW v \in UserPages PROVE Walk(1, v) # None <=> v = 0
    <3>1. /\ v \div PerTable \in Pdes /\ v \div PerTable # UserTables /\ v % PerTable \in Ptes
          /\ v = PerTable * (v \div PerTable) + (v % PerTable)
      BY Slots
    <3>2. CASE v \div PerTable = 0 /\ v % PerTable = 0
      <4>1. v = 0
        BY <3>1, <3>2, Sizes
      <4>2. Walk(1, v) = First3[0]
        BY <1>2, <1>5, <1>6, <3>2 DEF Walk, Table
      <4> QED
        BY <1>4, <1>7, <4>1, <4>2
    <3>3. CASE ~(v \div PerTable = 0 /\ v % PerTable = 0)
      <4>1. v # 0
        <5>1. 0 \div PerTable = 0 /\ 0 % PerTable = 0
          BY Sizes
        <5> QED
          BY <3>3, <5>1
      <4>2. Walk(1, v) = None
        BY <1>2, <1>5, <1>6, <1>7, <3>1, <3>3 DEF Walk, Table
      <4> QED
        BY <4>1, <4>2
    <3> QED
      BY <3>2, <3>3
  <2>2. PgRoundUp(1 * PgSize) = 1 /\ 1 * PgSize = PgSize
    BY RoundUpExact, Sizes
  <2>3. Below(PgSize) = Upto(1)
    BY <2>2, BelowRoundUp, Sizes
  <2>4. \A v \in UserPages : v < 1 <=> v = 0
    BY Sizes DEF UserPages
  <2> QED
    BY <2>1, <2>3, <2>4 DEF Mapped, Upto
<1> QED
  BY <1>1, <1>2, <1>15, <1>16, <1>17, <1>18, <1>19 DEF MemInv

LEMMA InitInv ==
    ASSUME Init
    PROVE  SpaceInv
<1>1. MemInv /\ Mapped(1) = Below(PgSize) /\ 1 \in Pages /\ 1 # None
  BY FirstImage
<1>2. PICK first \in Procs :
         /\ pgdir = [p \in Procs |-> IF p = first THEN 1 ELSE None]
         /\ sz = [p \in Procs |-> IF p = first THEN PgSize ELSE 0]
         /\ pc = [p \in Procs |-> IF p = first THEN "user" ELSE "unused"]
  BY DEF Init
<1>3. /\ op = [p \in Procs |-> "none"] /\ child = [p \in Procs |-> p]
      /\ segs = [p \in Procs |-> <<>>] /\ d = [p \in Procs |-> None]
      /\ lo = [p \in Procs |-> 0] /\ hi = [p \in Procs |-> 0] /\ a = [p \in Procs |-> 0]
      /\ mem = [p \in Procs |-> None]
  BY DEF Init
<1>4. TypeOK
  <2>1. PgSize \in 0..KernBase /\ 0 \in 0..KernBase
    <3>1. (UserTables * PerTable - 1) * PgSize >= 0
      BY Sizes
    <3> QED
      BY <3>1, Sizes
  <2>2. 0 \in 0..(UserTables * PerTable)
    BY Sizes
  <2>3. pc \in [Procs -> Codes \ {"panic"}]
    BY <1>2 DEF Codes
  <2>4. /\ free \subseteq Pages /\ pgdir \in [Procs -> Pages \cup {None}]
        /\ d \in [Procs -> Pages \cup {None}] /\ mem \in [Procs -> Pages \cup {None}]
    BY <1>1 DEF MemInv, MemTypes
  <2>5. /\ sz \in [Procs -> 0..KernBase]
        /\ lo \in [Procs -> 0..KernBase] /\ hi \in [Procs -> 0..KernBase]
    BY <1>2, <1>3, <2>1
  <2> QED
    BY <1>3, <2>2, <2>3, <2>4, <2>5 DEF TypeOK
<1>5. CallsFit
  <2>1. segs \in [Procs -> Seq(Segments)]
    BY <1>3
  <2>2. \A p \in Procs : CallFits(p)
    BY <1>1, <1>2, <1>3 DEF CallFits
  <2> QED
    BY <1>3, <2>1, <2>2 DEF CallsFit
<1>6. ASSUME NEW p \in Procs PROVE LoopFits(p) /\ ExecFits(p)
  <2>1. pgdir[p] # None => pgdir[p] = 1 /\ sz[p] = PgSize
    BY <1>2
  <2> QED
    BY <1>1, <1>2, <1>3, <2>1 DEF LoopFits, ExecFits, Looping
<1> QED
  BY <1>1, <1>4, <1>5, <1>6 DEF SpaceInv, MemInv

LEMMA NextInv ==
    ASSUME SpaceInv, [Next]_vars
    PROVE  SpaceInv'
<1>1. CASE UNCHANGED vars
  <2>1. /\ free' = free /\ page' = page /\ pgdir' = pgdir /\ sz' = sz /\ pc' = pc /\ op' = op
        /\ child' = child /\ segs' = segs /\ d' = d /\ lo' = lo /\ hi' = hi /\ a' = a
        /\ mem' = mem
    BY <1>1 DEF vars, memory, image, loop
  <2>2. TypeOK /\ segs \in [Procs -> Seq(Segments)]
    BY DEF SpaceInv, CallsFit
  <2>3. TypeOK'
    BY <2>1, <2>2 DEF TypeOK
  <2>4. MemInv' /\ \A q \in Procs : Kept(q)
    BY <2>1, MemSame
  <2>5. \A q \in Procs : Same(q)
    BY <2>1 DEF Same
  <2>6. PICK S \in SUBSET Procs : S = {}
    OBVIOUS
  <2> QED
    BY <2>1, <2>2, <2>3, <2>4, <2>5, <2>6, Frame
<1>2. ASSUME NEW p \in Procs, Call(p) PROVE SpaceInv'
  BY <1>2, ForkStep, ExecStart, GrowStep, ShrinkStep, ExitStep DEF Call
<1>3. ASSUME NEW p \in Procs, Setupkvm(p) PROVE SpaceInv'
  BY <1>3, KvmDirStep, KvmTableStep DEF Setupkvm
<1>4. ASSUME NEW p \in Procs, Allocuvm(p) PROVE SpaceInv'
  BY <1>4, GetPageStep, MapStep, MapTableStep, ForkDoneStep, GrowDoneStep DEF Allocuvm
<1>5. ASSUME NEW p \in Procs, Deallocuvm(p) PROVE SpaceInv'
  BY <1>5, DeallocStep, ShrinkDoneStep, AllocFailedStep, DropStep, FailStep DEF Deallocuvm
<1>6. ASSUME NEW p \in Procs, Freevm(p) PROVE SpaceInv'
  BY <1>6, FreePageStep, FreeTableStep, FreeDirStep DEF Freevm
<1>7. ASSUME NEW p \in Procs, ExecStep(p) PROVE SpaceInv'
  BY <1>7, SegmentStep, SegmentDoneStep, LoadStep, StackStep, GuardStep, PushArgsStep,
     CommitStep DEF ExecStep
<1> QED
  BY <1>1, <1>2, <1>3, <1>4, <1>5, <1>6, <1>7 DEF Next

-----------------------------------------------------------------------------
(* Whatever processes do at the same time and wherever kalloc fails, pages *)
(* are in one place each, directories and tables contain what walkpgdir    *)
(* expects, and each call has what it needs for its next step.             *)
THEOREM AddressSpaceInvariant == Spec => []SpaceInv
<1>1. Init => SpaceInv
  BY InitInv
<1>2. SpaceInv /\ [Next]_vars => SpaceInv'
  BY NextInv
<1> QED
  BY <1>1, <1>2, PTL DEF Spec

(* No process panics: copyuvm and loaduvm find every page they look for,   *)
(* and mappages never finds one mapped.                                    *)
THEOREM AddressSpaceTyped == Spec => []TypeOK
<1>1. SpaceInv => TypeOK
  BY DEF SpaceInv
<1> QED
  BY <1>1, AddressSpaceInvariant, PTL

(* kalloc's pages have one owner each: a failed fork, exec or sbrk loses   *)
(* none, and freevm gives none back that is in use.                        *)
THEOREM EveryPageOwned == Spec => []PagesOwnedOnce
<1>1. SpaceInv => PagesOwnedOnce
  BY SpaceMem, OwnedOnce
<1> QED
  BY <1>1, AddressSpaceInvariant, PTL

(* p->sz tells which pages a process in user mode has.                     *)
THEOREM SizesMapped == Spec => []SizeMapped
<1>1. SpaceInv => SizeMapped
  <2> SUFFICES ASSUME SpaceInv, NEW p \in Procs, pc[p] = "user"
               PROVE  Mapped(pgdir[p]) = Below(sz[p])
    BY DEF SizeMapped, Below
  <2> QED
    BY SpaceParts DEF CallFits, LoopFits
<1> QED
  BY <1>1, AddressSpaceInvariant, PTL

-----------------------------------------------------------------------------
(***************************************************************************)
(* ImagesKept, for any processes, pages and programs: what a process sees  *)
(* of its memory changes only by a whole exec, and by sbrk above the size. *)
(***************************************************************************)

(* What a step of p may write *)

OfTree(x, g) ==
    /\ x # None
    /\ \/ g = x
       \/ \E s \in Pdes : g = page[x][s]
       \/ \E v \in Mapped(x) : g = Walk(x, v).pg

(* Pages nobody has, the page in p's hands and the tree p works on. *)
Written(p) ==
    \A g \in Pages : page'[g] # page[g] => g \in free \/ g = mem[p] \/ OfTree(d[p], g)

DataKept(e) == \A v \in Mapped(e) : page'[Walk(e, v).pg] = page[Walk(e, v).pg]

(* Two trees have no page of data in common, and one has each once.        *)
LEMMA DataApart ==
    ASSUME MemInv, NEW x \in Dirs, NEW e \in Dirs, NEW v \in Mapped(x), NEW w \in Mapped(e),
           Walk(x, v).pg = Walk(e, w).pg
    PROVE  x = e /\ v = w
<1>1. v \in UserPages /\ w \in UserPages /\ Walk(x, v) # None /\ Walk(e, w) # None
  BY MappedPages
<1>2. PICK t : t = Table(x, v)
  OBVIOUS
<1>3. PICK u : u = Table(e, w)
  OBVIOUS
<1>4. /\ t \in Tables /\ t = page[x][v \div PerTable] /\ t # None
      /\ Walk(x, v) = page[t][v % PerTable]
  BY <1>1, <1>2, WalkTypes
<1>5. /\ u \in Tables /\ u = page[e][w \div PerTable] /\ u # None
      /\ Walk(e, w) = page[u][w % PerTable]
  BY <1>1, <1>3, WalkTypes
<1>6. /\ v \div PerTable \in Pdes /\ v % PerTable \in Ptes
      /\ w \div PerTable \in Pdes /\ w % PerTable \in Ptes
  BY <1>1, Slots
<1>7. t = u /\ v % PerTable = w % PerTable
  BY <1>1, <1>4, <1>5, <1>6, MemParts DEF LeavesOnce
<1>8. x = e /\ v \div PerTable = w \div PerTable
  <2>1. PICK r, s : r = v \div PerTable /\ s = w \div PerTable
    OBVIOUS
  <2>2. r \in Pdes /\ s \in Pdes /\ page[x][r] # None /\ page[x][r] = page[e][s]
    BY <1>4, <1>5, <1>6, <1>7, <2>1
  <2> QED
    BY <2>1, <2>2, MemParts DEF TablesOnce
<1> QED
  BY <1>1, <1>7, <1>8, SlotsApart

(* Trees but p's own stay as they are, and what others have in hand.       *)
LEMMA OthersUntouched ==
    ASSUME SpaceInv, NEW p \in Procs, Written(p)
    PROVE  /\ \A e \in Dirs : e # d[p] => TreeKept(e) /\ DataKept(e)
           /\ \A q \in Procs \ {p} : mem[q] # None => page'[mem[q]] = page[mem[q]]
<1>1. MemInv
  BY SpaceMem
<1>2. PICK x : x = d[p]
  OBVIOUS
<1>3. x # None => x \in Dirs
  BY <1>2, DirInUse
<1>4. mem[p] # None => mem[p] \in Hands
  BY HandOf
<1>5. /\ Pages = free \cup Dirs \cup Tables \cup Leaves \cup Hands
      /\ free \cap (Dirs \cup Tables \cup Leaves \cup Hands) = {}
      /\ Dirs \cap (Tables \cup Leaves \cup Hands) = {}
      /\ Tables \cap (Leaves \cup Hands) = {}
      /\ Leaves \cap Hands = {}
  BY <1>1, MemParts DEF PagesApart
<1>6. ASSUME NEW g \in Dirs \cup Tables \cup Leaves \cup Hands, page'[g] # page[g]
      PROVE  g = mem[p] \/ OfTree(x, g)
  BY <1>2, <1>5, <1>6 DEF Written
<1>7. ASSUME NEW g, OfTree(x, g)
      PROVE  \/ g = x
             \/ g = None
             \/ g \in Tables /\ \E s \in Pdes : g = page[x][s]
             \/ g \in Leaves /\ \E v \in Mapped(x) : g = Walk(x, v).pg
  <2>1. CASE \E s \in Pdes : g = page[x][s]
    BY <1>1, <1>3, <1>7, <2>1, DirContents DEF OfTree
  <2>2. CASE \E v \in Mapped(x) : g = Walk(x, v).pg
    BY <1>1, <1>3, <1>7, <2>2, WalkTypes, MappedPages DEF OfTree
  <2> QED
    BY <1>7, <2>1, <2>2 DEF OfTree
<1>8. None \notin Dirs /\ None \notin Tables /\ None \notin Leaves /\ None \notin Hands
  BY <1>5, NoneApart
<1>9. ASSUME NEW e \in Dirs, e # x PROVE TreeKept(e)
  <2>1. page'[e] = page[e]
    <3> SUFFICES ASSUME page'[e] # page[e] PROVE FALSE
      OBVIOUS
    <3>1. e = mem[p] \/ OfTree(x, e)
      BY <1>6
    <3> QED
      BY <1>4, <1>5, <1>7, <1>8, <1>9, <3>1
  <2>2. ASSUME NEW s \in Pdes, page[e][s] # None
        PROVE  page'[page[e][s]] = page[page[e][s]]
    <3> SUFFICES ASSUME page'[page[e][s]] # page[page[e][s]] PROVE FALSE
      OBVIOUS
    <3>1. PICK t : t = page[e][s]
      OBVIOUS
    <3>2. t \in Tables /\ t # None
      BY <1>1, <2>2, <3>1, TreeApart
    <3>3. t = mem[p] \/ OfTree(x, t)
      BY <1>6, <3>1, <3>2
    <3>4. OfTree(x, t)
      BY <1>4, <1>5, <3>2, <3>3
    <3>5. PICK r \in Pdes : t = page[x][r]
      BY <1>3, <1>5, <1>7, <3>2, <3>4 DEF OfTree
    <3>6. x \in Dirs
      BY <1>3, <3>4 DEF OfTree
    <3>7. page[x][r] = page[e][s]
      BY <3>1, <3>5
    <3> QED
      BY <1>1, <1>9, <2>2, <3>6, <3>7, TreeApart
  <2> QED
    BY <2>1, <2>2 DEF TreeKept
<1>10. ASSUME NEW e \in Dirs, e # x PROVE DataKept(e)
  <2> SUFFICES ASSUME NEW w \in Mapped(e), NEW g, g = Walk(e, w).pg, page'[g] # page[g]
               PROVE  FALSE
    BY DEF DataKept
  <2>1. g \in Leaves
    BY <1>1, WalkTypes, MappedPages
  <2>2. g = mem[p] \/ OfTree(x, g)
    BY <1>6, <2>1
  <2>3. OfTree(x, g)
    BY <1>4, <1>5, <1>8, <2>1, <2>2
  <2>4. x \in Dirs
    BY <1>3, <2>3 DEF OfTree
  <2>5. PICK v \in Mapped(x) : g = Walk(x, v).pg
    BY <1>5, <1>7, <1>8, <2>1, <2>3, <2>4
  <2> QED
    BY <1>1, <1>10, <2>4, <2>5, DataApart
<1>11. ASSUME NEW q \in Procs \ {p}, NEW g, g = mem[q], g # None, page'[g] # page[g]
       PROVE  FALSE
  <2>1. g \in Hands /\ g # mem[p]
    BY <1>1, <1>11, HandOf, MemParts DEF HandsOnce
  <2>2. OfTree(x, g)
    BY <1>6, <1>11, <2>1
  <2> QED
    BY <1>3, <1>5, <1>7, <1>8, <2>1, <2>2 DEF OfTree
<1> QED
  BY <1>2, <1>9, <1>10, <1>11

-----------------------------------------------------------------------------
(* Images *)

LEMMA SeenSame ==
    ASSUME MemInv, NEW e \in Dirs, TreeKept(e), DataKept(e)
    PROVE  /\ Mapped(e)' = Mapped(e)
           /\ \A v \in Mapped(e) : Seen(e, v)' = Seen(e, v)
<1>1. Mapped(e)' = Mapped(e)
  BY KeptMapped
<1>2. ASSUME NEW v \in Mapped(e) PROVE Seen(e, v)' = Seen(e, v)
  <2>1. Walk(e, v)' = Walk(e, v)
    BY KeptWalk, MappedPages
  <2>2. page'[Walk(e, v).pg] = page[Walk(e, v).pg]
    BY DEF DataKept
  <2> QED
    BY <2>1, <2>2 DEF Seen
<1> QED
  BY <1>1, <1>2

LEMMA ImageNext ==
    ASSUME NEW r \in Procs, NEW e, pgdir'[r] = e
    PROVE  Image(r)' = [v \in Mapped(e)' |-> Seen(e, v)']
BY DEF Image, Mapped, Seen, Walk, Table

LEMMA ImageNow ==
    ASSUME NEW r \in Procs, NEW e, pgdir[r] = e
    PROVE  Image(r) = [v \in Mapped(e) |-> Seen(e, v)]
BY DEF Image

LEMMA ImageSame ==
    ASSUME MemInv, NEW r \in Procs, NEW e \in Dirs, pgdir[r] = e, pgdir'[r] = e,
           TreeKept(e), DataKept(e)
    PROVE  Image(r)' = Image(r)
<1>1. Image(r)' = [v \in Mapped(e)' |-> Seen(e, v)']
  BY ImageNext
<1>2. Image(r) = [v \in Mapped(e) |-> Seen(e, v)]
  BY ImageNow
<1> QED
  BY <1>1, <1>2, SeenSame

(* What the image of every process is made of before and after a step of   *)
(* p that moves no directory: only p's own, while sbrk is at work.         *)
LEMMA OthersImages ==
    ASSUME SpaceInv, NEW p \in Procs, Written(p), pgdir' = pgdir,
           pgdir[p] # None /\ pgdir[p] = d[p] => ImageStep(p)
    PROVE  \A r \in Procs : ImageStep(r)
<1> SUFFICES ASSUME NEW r \in Procs PROVE ImageStep(r)
  OBVIOUS
<1>1. CASE pgdir[r] = None
  BY <1>1 DEF ImageStep
<1>2. CASE pgdir[r] # None /\ pgdir[r] # d[p]
  <2>1. PICK e : e = pgdir[r]
    OBVIOUS
  <2>2. e \in Dirs /\ e # d[p]
    BY <1>2, <2>1, DirInUse
  <2>3. TreeKept(e) /\ DataKept(e)
    BY <2>2, OthersUntouched
  <2>4. Image(r)' = Image(r)
    BY <2>1, <2>2, <2>3, ImageSame, SpaceMem
  <2> QED
    BY <1>2, <2>4 DEF ImageStep
<1>3. CASE pgdir[r] # None /\ pgdir[r] = d[p]
  <2>1. r = p
    BY <1>3, SpaceMem, MemParts DEF RootsOnce, Roots
  <2> QED
    BY <1>3, <2>1
<1> QED
  BY <1>1, <1>2, <1>3

(* Nothing is written, and the directory stays where it is or goes.        *)
LEMMA ImageStill ==
    ASSUME SpaceInv, page' = page, NEW r \in Procs, pgdir'[r] = pgdir[r] \/ pgdir'[r] = None
    PROVE  ImageStep(r)
<1>1. CASE pgdir'[r] = None
  BY <1>1 DEF ImageStep
<1>2. CASE pgdir'[r] # None
  <2>1. PICK e : e = pgdir[r]
    OBVIOUS
  <2>2. e \in Dirs /\ e # None /\ pgdir'[r] = e
    BY <1>2, <2>1, DirInUse
  <2>3. TreeKept(e) /\ DataKept(e)
    BY DEF TreeKept, DataKept
  <2>4. Image(r)' = Image(r)
    BY <2>1, <2>2, <2>3, ImageSame, SpaceMem
  <2> QED
    BY <2>1, <2>2, <2>4 DEF ImageStep
<1> QED
  BY <1>1, <1>2

-----------------------------------------------------------------------------
(* Images under construction *)

(* Of a call that builds nothing ImageInv says nothing. *)
Resting(q) ==
    /\ pc[q] \notin {"map", "args", "commit"}
    /\ op[q] = "fork" => ~Looping(q)
    /\ ~Building(q)

LEMMA AtRest ==
    ASSUME NEW q \in Procs, Resting(q)'
    PROVE  ImageFits(q)' /\ ~Building(q)'
BY DEF Resting, ImageFits, Building, Looping

LEMMA ImageParts ==
    ASSUME ImageInv, NEW q \in Procs
    PROVE  /\ SpaceInv /\ MemInv
           /\ prog[q] \in Seq(Segments) /\ prog \in [Procs -> Seq(Segments)]
           /\ ImageFits(q)
           /\ Building(q) => ProgramFits(q)
BY SpaceMem DEF ImageInv

(* copyuvm finds the page it copies. *)
LEMMA FillMapped ==
    ASSUME SpaceInv, NEW q \in Procs, op[q] = "fork", Looping(q), a[q] * PgSize < hi[q]
    PROVE  /\ pgdir[q] # None /\ pgdir[q] \in Dirs /\ pgdir[q] # d[q]
           /\ a[q] \in Mapped(pgdir[q]) /\ a[q] \in UserPages
<1>1. TypeOK /\ CallFits(q) /\ LoopFits(q)
  BY SpaceParts
<1>2. a[q] \in UserPages
  BY <1>1, ProcTypes, PageOfLoop
<1>3. pgdir[q] # None /\ pgdir[q] # d[q]
  BY <1>1 DEF CallFits, Looping
<1>4. Mapped(pgdir[q]) = Below(hi[q])
  BY <1>1, <1>3 DEF LoopFits
<1> QED
  BY <1>2, <1>3, <1>4, DirInUse DEF Below

LEMMA FillSame ==
    ASSUME SpaceInv, NEW q \in Procs, Looping(q), a[q] * PgSize < hi[q],
           op'[q] = op[q], pgdir'[q] = pgdir[q], a'[q] = a[q],
           op[q] = "fork" => TreeKept(pgdir[q]) /\ DataKept(pgdir[q])
    PROVE  Fill(q)' = Fill(q)
<1>1. CASE op[q] # "fork"
  BY <1>1 DEF Fill
<1>2. CASE op[q] = "fork"
  <2>1. PICK e : e = pgdir[q]
    OBVIOUS
  <2>2. PICK v : v = a[q]
    OBVIOUS
  <2>3. e \in Dirs /\ v \in Mapped(e) /\ v \in UserPages /\ TreeKept(e) /\ DataKept(e)
    BY <1>2, <2>1, <2>2, FillMapped
  <2>4. Walk(e, v)' = Walk(e, v)
    BY <2>3, KeptWalk, SpaceMem
  <2>5. Walk(pgdir[q], a[q])' = Walk(e, v)'
    BY <2>1, <2>2 DEF Walk, Table
  <2>6. page'[Walk(e, v).pg] = page[Walk(e, v).pg]
    BY <2>3 DEF DataKept
  <2> QED
    BY <1>2, <2>1, <2>2, <2>4, <2>5, <2>6 DEF Fill
<1> QED
  BY <1>1, <1>2

(* The child has no page the parent has not. *)
LEMMA ForkBelow ==
    ASSUME SpaceInv, NEW q \in Procs, op[q] = "fork", Looping(q)
    PROVE  Mapped(d[q]) \subseteq Below(hi[q]) /\ Mapped(pgdir[q]) = Below(hi[q])
<1>1. TypeOK /\ CallFits(q) /\ LoopFits(q)
  BY SpaceParts
<1>2. a[q] \in Nat /\ hi[q] \in Nat /\ PgRoundUp(hi[q]) \in Nat /\ a[q] <= PgRoundUp(hi[q])
  BY <1>1, ProcTypes, RoundUp DEF LoopFits
<1>3. Mapped(d[q]) = Upto(a[q]) /\ Below(hi[q]) = Upto(PgRoundUp(hi[q]))
  BY <1>1, <1>2, BelowRoundUp DEF LoopFits
<1>4. pgdir[q] # None
  BY <1>1 DEF CallFits, Looping
<1>5. Mapped(pgdir[q]) = Below(hi[q])
  BY <1>1, <1>4 DEF LoopFits
<1> QED
  BY <1>2, <1>3, <1>5, UptoMonotone

(* What ProgramFits says depends on these variables only. *)
LEMMA ProgramSame ==
    ASSUME NEW q \in Procs, ProgramFits(q),
           prog'[q] = prog[q], segs'[q] = segs[q], lo'[q] = lo[q], hi'[q] = hi[q],
           pc'[q] = "load" <=> pc[q] = "load",
           Stacking(q)' <=> Stacking(q),
           Looping(q)' =>
              /\ Looping(q)
              /\ PgRoundUp(lo[q]) <= a[q] => PgRoundUp(lo[q]) <= a'[q]
    PROVE  ProgramFits(q)'
<1>1. Done(q)' = Done(q) /\ End(q)' = End(q) /\ Top(prog[q])' = Top(prog[q])
  BY DEF Done, End, Top, Limit, PgRoundUp
<1>2. PgRoundUp(lo[q])' = PgRoundUp(lo[q])
  BY DEF PgRoundUp
<1> QED
  BY <1>1, <1>2 DEF ProgramFits, Limit

LEMMA OtherImage ==
    ASSUME ImageInv, NEW q \in Procs, Same(q), prog'[q] = prog[q],
           \A e \in Roots(q) : TreeKept(e) /\ DataKept(e),
           mem[q] # None => page'[mem[q]] = page[mem[q]]
    PROVE  ImageFits(q)' /\ (Building(q)' => ProgramFits(q)')
<1>1. /\ SpaceInv /\ MemInv /\ ImageFits(q) /\ (Building(q) => ProgramFits(q))
      /\ CallFits(q) /\ LoopFits(q)
  BY ImageParts, SpaceParts
<1>2. /\ pc'[q] = pc[q] /\ op'[q] = op[q] /\ pgdir'[q] = pgdir[q] /\ d'[q] = d[q]
      /\ mem'[q] = mem[q] /\ a'[q] = a[q] /\ segs'[q] = segs[q] /\ lo'[q] = lo[q]
      /\ hi'[q] = hi[q]
  BY DEF Same
<1>3. PICK x : x = d[q]
  OBVIOUS
<1>4. PICK y : y = pgdir[q]
  OBVIOUS
<1>5. /\ Mapped(d[q])' = Mapped(x)'
      /\ \A v \in UserPages : Seen(d[q], v)' = Seen(x, v)' /\ Seen(pgdir[q], v)' = Seen(y, v)'
  BY <1>2, <1>3, <1>4 DEF Mapped, Seen, Walk, Table
<1>6. x # None => Mapped(x)' = Mapped(x) /\ \A v \in Mapped(x) : Seen(x, v)' = Seen(x, v)
  <2>1. x # None => x \in Dirs /\ TreeKept(x) /\ DataKept(x)
    BY <1>1, <1>3, DirInUse DEF Roots
  <2> QED
    BY <1>1, <2>1, SeenSame
<1>7. y # None => \A v \in Mapped(y) : Seen(y, v)' = Seen(y, v)
  <2>1. y # None => y \in Dirs /\ TreeKept(y) /\ DataKept(y)
    BY <1>1, <1>4, DirInUse DEF Roots
  <2> QED
    BY <1>1, <2>1, SeenSame
<1>8. Done(q)' = Done(q) /\ Looping(q)' = Looping(q) /\ Stacking(q)' = Stacking(q)
      /\ Building(q)' = Building(q)
  BY <1>2 DEF Done, Looping, Stacking, Building
<1>9. pc'[q] = "map" => page'[mem'[q]] = Fill(q)'
  <2> SUFFICES ASSUME pc[q] = "map" PROVE page'[mem[q]] = Fill(q)'
    BY <1>2
  <2>1. mem[q] # None /\ Looping(q) /\ a[q] * PgSize < hi[q]
    BY <1>1 DEF CallFits, LoopFits, Looping
  <2>2. op[q] = "fork" => TreeKept(pgdir[q]) /\ DataKept(pgdir[q])
    BY <1>1, <2>1, FillMapped DEF Roots
  <2>3. Fill(q)' = Fill(q)
    BY <1>1, <1>2, <2>1, <2>2, FillSame
  <2> QED
    BY <1>1, <2>1, <2>3 DEF ImageFits
<1>10. ASSUME op'[q] = "fork", Looping(q)', NEW v \in Mapped(d[q])'
       PROVE  Seen(d[q], v)' = Seen(pgdir[q], v)'
  <2>1. op[q] = "fork" /\ Looping(q) /\ x # None /\ y # None
    BY <1>1, <1>2, <1>3, <1>4, <1>8, <1>10 DEF CallFits, Looping
  <2>2. v \in Mapped(x) /\ v \in UserPages /\ Seen(x, v) = Seen(y, v)
    BY <1>1, <1>3, <1>4, <1>5, <1>6, <1>10, <2>1, MappedPages DEF ImageFits
  <2>3. v \in Mapped(y)
    <3>1. Mapped(x) \subseteq Below(hi[q]) /\ Mapped(y) = Below(hi[q])
      BY <1>1, <1>3, <1>4, <2>1, ForkBelow
    <3> QED
      BY <2>2, <3>1
  <2> QED
    BY <1>5, <1>6, <1>7, <2>1, <2>2, <2>3
<1>11. ASSUME op'[q] = "exec", Looping(q)' \/ pc'[q] \in {"segment", "load"},
              NEW v \in Mapped(d[q])'
       PROVE  Seen(d[q], v)' = <<Content(prog'[q], Done(q)', v), TRUE>>
  <2>1. op[q] = "exec" /\ (Looping(q) \/ pc[q] \in {"segment", "load"}) /\ x # None
    BY <1>1, <1>2, <1>3, <1>8, <1>11 DEF CallFits, Looping
  <2>2. v \in Mapped(x) /\ v \in UserPages
    BY <1>5, <1>6, <1>11, <2>1, MappedPages
  <2>3. Seen(x, v) = <<Content(prog[q], Done(q), v), TRUE>>
    BY <1>1, <1>3, <2>1, <2>2 DEF ImageFits
  <2> QED
    BY <1>5, <1>6, <1>8, <2>1, <2>2, <2>3
<1>12. ASSUME pc'[q] \in {"args", "commit"}, NEW v \in Mapped(d[q])'
       PROVE  v \in Mapped(x) /\ Seen(d[q], v)' = Seen(x, v)
  <2>1. x # None
    BY <1>1, <1>2, <1>3, <1>12 DEF CallFits
  <2> QED
    BY <1>5, <1>6, <1>12, <2>1, MappedPages
<1>13. ImageFits(q)'
  <2>1. ASSUME pc'[q] = "args", NEW v \in Mapped(d[q])'
        PROVE  Seen(d[q], v)' =
                 <<Content(prog'[q], Len(prog'[q]), v), v # Top(prog'[q])>>
    BY <1>1, <1>2, <1>3, <1>12, <2>1 DEF ImageFits
  <2>2. ASSUME pc'[q] = "commit", NEW v \in Mapped(d[q])'
        PROVE  Seen(d[q], v)' = ExecImage(prog'[q])[v]
    BY <1>1, <1>2, <1>3, <1>12, <2>2 DEF ImageFits
  <2> QED
    BY <1>9, <1>10, <1>11, <2>1, <2>2 DEF ImageFits
<1>14. Building(q)' => ProgramFits(q)'
  BY <1>1, <1>2, <1>8, ProgramSame
<1> QED
  BY <1>13, <1>14

LEMMA ImageFrame ==
    ASSUME ImageInv, NEW p \in Procs, SpaceInv', Written(p),
           prog' \in [Procs -> Seq(Segments)],
           \A q \in Procs \ {p} : (Same(q) /\ prog'[q] = prog[q]) \/ Resting(q)',
           ImageFits(p)', Building(p)' => ProgramFits(p)'
    PROVE  ImageInv'
<1>1. SpaceInv /\ MemInv
  BY ImageParts
<1>2. ASSUME NEW q \in Procs \ {p} PROVE ImageFits(q)' /\ (Building(q)' => ProgramFits(q)')
  <2>1. CASE Resting(q)'
    BY <2>1, AtRest
  <2>2. CASE Same(q) /\ prog'[q] = prog[q]
    <3>1. ASSUME NEW e \in Roots(q) PROVE TreeKept(e) /\ DataKept(e)
      <4>1. e \in Dirs
        BY DirOf DEF Roots
      <4>2. e # d[p]
        BY <1>1, MemParts DEF RootsOnce, Roots
      <4> QED
        BY <1>1, <4>1, <4>2, OthersUntouched
    <3>2. mem[q] # None => page'[mem[q]] = page[mem[q]]
      BY <1>1, OthersUntouched
    <3> QED
      BY <2>2, <3>1, <3>2, OtherImage
  <2> QED
    BY <2>1, <2>2
<1> QED
  BY <1>2 DEF ImageInv

(* A step that writes nothing and after which p builds nothing. *)
LEMMA QuietStep ==
    ASSUME ImageInv, NEW p \in Procs, SpaceInv', page' = page,
           prog' \in [Procs -> Seq(Segments)],
           \A q \in Procs \ {p} : (Same(q) /\ prog'[q] = prog[q]) \/ Resting(q)',
           Resting(p)',
           \A r \in Procs : pgdir'[r] = pgdir[r] \/ pgdir'[r] = None
    PROVE  ImageInv' /\ \A r \in Procs : ImageStep(r)
<1>1. SpaceInv
  BY ImageParts
<1>2. Written(p)
  BY DEF Written
<1>3. ImageInv'
  BY <1>2, AtRest, ImageFrame
<1> QED
  BY <1>1, <1>3, ImageStill

(* A call fails. *)
LEMMA QuietGoto ==
    ASSUME ImageInv, NEW p \in Procs, SpaceInv',
           NEW s \in {"dealloc", "drop", "fail", "freevm"}, Goto(p, s),
           UNCHANGED <<page, pgdir, sz, op, child, segs, prog, d, lo, hi, a, mem>>
    PROVE  ImageInv' /\ \A r \in Procs : ImageStep(r)
<1>1. TypeOK /\ prog' \in [Procs -> Seq(Segments)]
  BY ImageParts, SpaceParts
<1>2. \A q \in Procs \ {p} : Same(q) /\ prog'[q] = prog[q]
  BY <1>1 DEF Goto, TypeOK, Same
<1>3. pc'[p] = s
  BY <1>1 DEF Goto, TypeOK
<1>4. Resting(p)'
  BY <1>3 DEF Resting, Looping, Building
<1> QED
  BY <1>1, <1>2, <1>4, QuietStep

(* A call is over. *)
LEMMA QuietReturn ==
    ASSUME ImageInv, NEW p \in Procs, SpaceInv', Return(p),
           page' = page, pgdir' = pgdir, mem' = mem,
           \A q \in Procs \ {p} : d'[q] = d[q] /\ sz'[q] = sz[q]
    PROVE  ImageInv' /\ \A r \in Procs : ImageStep(r)
<1>1. TypeOK /\ prog \in [Procs -> Seq(Segments)] /\ segs \in [Procs -> Seq(Segments)]
  BY ImageParts, SpaceParts
<1>2. prog' \in [Procs -> Seq(Segments)]
  BY <1>1 DEF Return
<1>3. pc'[p] \in {"user", "unused"} /\ \A q \in Procs \ {p} : q = child[p] => pc'[q] = "unused"
  BY <1>1 DEF Return, TypeOK
<1>4. ASSUME NEW q \in Procs \ {p}, q # child[p] PROVE Same(q) /\ prog'[q] = prog[q]
  BY <1>1, <1>4 DEF Return, TypeOK, Same
<1>5. \A q \in Procs : pc'[q] \in {"user", "unused"} => Resting(q)'
  BY DEF Resting, Looping, Building
<1> QED
  BY <1>2, <1>3, <1>4, <1>5, QuietStep

-----------------------------------------------------------------------------
(* The steps that build nothing *)

LEMMA ForkImages ==
    ASSUME ImageInv, NEW p \in Procs, NEW c \in Procs, Fork(p, c), SpaceInv'
    PROVE  ImageInv' /\ \A r \in Procs : ImageStep(r)
<1>1. TypeOK /\ prog \in [Procs -> Seq(Segments)]
  BY ImageParts, SpaceParts
<1>2. page' = page /\ pgdir' = pgdir /\ prog' = prog
  BY DEF Fork, memory, image
<1>3. p # c /\ pc'[p] = "kvmdir" /\ pc'[c] = "embryo" /\ op'[p] = "fork"
  BY <1>1 DEF Fork, TypeOK
<1>4. \A q \in Procs \ {p, c} : Same(q)
  BY <1>1 DEF Fork, TypeOK, Same, image
<1>5. Resting(p)' /\ Resting(c)'
  BY <1>3 DEF Resting, Looping, Building
<1> QED
  BY <1>1, <1>2, <1>4, <1>5, QuietStep

LEMMA SbrkImages ==
    ASSUME ImageInv, NEW p \in Procs, NEW n \in Grows, Grow(p, n) \/ Shrink(p, n), SpaceInv'
    PROVE  ImageInv' /\ \A r \in Procs : ImageStep(r)
<1>1. TypeOK /\ prog \in [Procs -> Seq(Segments)]
  BY ImageParts, SpaceParts
<1>2. page' = page /\ pgdir' = pgdir /\ prog' = prog
  BY DEF Grow, Shrink, memory, image
<1>3. \/ pc'[p] = "alloc" /\ op'[p] = "grow"
      \/ pc'[p] = "dealloc" /\ op'[p] = "shrink"
  BY <1>1 DEF Grow, Shrink, Goto, TypeOK
<1>4. \A q \in Procs \ {p} : Same(q)
  <2>1. CASE Grow(p, n)
    BY <1>1, <2>1 DEF Grow, Goto, TypeOK, Same, image
  <2>2. CASE Shrink(p, n)
    BY <1>1, <2>2 DEF Shrink, Goto, TypeOK, Same, image
  <2> QED
    BY <2>1, <2>2
<1>5. Resting(p)'
  BY <1>3 DEF Resting, Looping, Building
<1> QED
  BY <1>1, <1>2, <1>4, <1>5, QuietStep

LEMMA ExitImages ==
    ASSUME ImageInv, NEW p \in Procs, Exit(p), SpaceInv'
    PROVE  ImageInv' /\ \A r \in Procs : ImageStep(r)
<1>1. TypeOK /\ prog \in [Procs -> Seq(Segments)]
  BY ImageParts, SpaceParts
<1>2. page' = page /\ prog' = prog
  BY DEF Exit, memory
<1>3. pc'[p] = "freevm"
  BY <1>1 DEF Exit, Goto, TypeOK
<1>4. \A q \in Procs \ {p} : Same(q)
  BY <1>1 DEF Exit, Goto, TypeOK, Same, loop
<1>5. Resting(p)'
  BY <1>3 DEF Resting, Looping, Building
<1>6. \A r \in Procs : pgdir'[r] = pgdir[r] \/ pgdir'[r] = None
  BY <1>1 DEF Exit, TypeOK
<1> QED
  BY <1>1, <1>2, <1>4, <1>5, <1>6, QuietStep

LEMMA SbrkDoneImages ==
    ASSUME ImageInv, NEW p \in Procs, GrowDone(p) \/ ShrinkDone(p), SpaceInv'
    PROVE  ImageInv' /\ \A r \in Procs : ImageStep(r)
<1>1. TypeOK
  BY ImageParts, SpaceParts
<1>2. Return(p) /\ page' = page /\ pgdir' = pgdir /\ mem' = mem
  BY DEF GrowDone, ShrinkDone, memory
<1>3. \A q \in Procs \ {p} : d'[q] = d[q] /\ sz'[q] = sz[q]
  BY <1>1 DEF GrowDone, ShrinkDone, TypeOK
<1> QED
  BY <1>2, <1>3, QuietReturn

LEMMA AllocFailedImages ==
    ASSUME ImageInv, NEW p \in Procs, AllocFailed(p), SpaceInv'
    PROVE  ImageInv' /\ \A r \in Procs : ImageStep(r)
<1>1. PICK s \in {"dealloc", "drop", "fail", "freevm"} : Goto(p, s)
  BY DEF AllocFailed
<1>2. UNCHANGED <<page, pgdir, sz, op, child, segs, prog, d, lo, hi, a, mem>>
  BY DEF AllocFailed, memory, image, call, loop
<1> QED
  BY <1>1, <1>2, QuietGoto

LEMMA FailImages ==
    ASSUME ImageInv, NEW p \in Procs, Fail(p), SpaceInv'
    PROVE  ImageInv' /\ \A r \in Procs : ImageStep(r)
<1>1. TypeOK
  BY ImageParts, SpaceParts
<1>2. page' = page /\ pgdir' = pgdir /\ mem' = mem /\ sz' = sz
  BY DEF Fail, memory, image
<1>3. CASE d' = [d EXCEPT ![p] = None] /\ Return(p)
  <2>1. \A q \in Procs \ {p} : d'[q] = d[q] /\ sz'[q] = sz[q]
    BY <1>1, <1>2, <1>3 DEF TypeOK
  <2> QED
    BY <1>2, <1>3, <2>1, QuietReturn
<1>4. CASE Goto(p, "freevm") /\ UNCHANGED <<call, loop, d>>
  <2>1. PICK s \in {"dealloc", "drop", "fail", "freevm"} : s = "freevm"
    OBVIOUS
  <2>2. Goto(p, s) /\ UNCHANGED <<page, pgdir, sz, op, child, segs, prog, d, lo, hi, a, mem>>
    BY <1>2, <1>4, <2>1 DEF call, loop
  <2> QED
    BY <2>2, QuietGoto
<1> QED
  BY <1>3, <1>4 DEF Fail

LEMMA ForkDoneImages ==
    ASSUME ImageInv, NEW p \in Procs, ForkDone(p), SpaceInv'
    PROVE  ImageInv' /\ \A r \in Procs : ImageStep(r)
<1>1. /\ SpaceInv /\ TypeOK /\ CallFits(p) /\ LoopFits(p) /\ ImageFits(p)
      /\ prog \in [Procs -> Seq(Segments)]
  BY ImageParts, SpaceParts
<1>2. PICK c : c = child[p]
  OBVIOUS
<1>3. /\ pc[p] = "alloc" /\ op[p] = "fork" /\ c \in Procs /\ c # p /\ pc[c] = "embryo"
      /\ d[p] # None /\ a[p] * PgSize >= hi[p]
  BY <1>1, <1>2, ProcTypes DEF ForkDone, CallFits
<1>4. page' = page /\ prog' = prog
  BY DEF ForkDone, memory
<1>5. /\ pc'[p] = "user" /\ pc'[c] = "user" /\ pgdir'[c] = d[p]
      /\ \A r \in Procs \ {c} : pgdir'[r] = pgdir[r]
  BY <1>1, <1>2, <1>3 DEF ForkDone, TypeOK
<1>6. \A q \in Procs \ {p, c} : Same(q)
  BY <1>1, <1>2 DEF ForkDone, TypeOK, Same
<1>7. Resting(p)' /\ Resting(c)'
  BY <1>5 DEF Resting, Looping, Building
<1>8. ImageInv'
  <2>1. Written(p)
    BY <1>4 DEF Written
  <2> QED
    BY <1>1, <1>4, <1>6, <1>7, <2>1, AtRest, ImageFrame
<1>9. Image(c)' = Image(p)
  <2>1. PICK x : x = d[p]
    OBVIOUS
  <2>2. PICK y : y = pgdir[p]
    OBVIOUS
  <2>3. Mapped(x) = Mapped(y)
    <3>1. Looping(p)
      BY <1>3 DEF Looping
    <3>2. Mapped(d[p]) = Below(hi[p])
      BY <1>1, <1>3, LoopDone
    <3>3. Mapped(pgdir[p]) = Below(hi[p])
      BY <1>1, <1>3, <3>1, ForkBelow
    <3> QED
      BY <2>1, <2>2, <3>2, <3>3
  <2>4. \A v \in Mapped(x) : Seen(x, v) = Seen(y, v)
    BY <1>1, <1>3, <2>1, <2>2 DEF ImageFits, Looping
  <2>5. Mapped(x)' = Mapped(x) /\ \A v \in UserPages : Seen(x, v)' = Seen(x, v)
    BY <1>4 DEF Mapped, Seen, Walk, Table
  <2>6. Image(c)' = [v \in Mapped(x)' |-> Seen(x, v)']
    BY <1>3, <1>5, <2>1, ImageNext
  <2>7. Image(p) = [v \in Mapped(y) |-> Seen(y, v)]
    BY <2>2, ImageNow
  <2> QED
    BY <2>3, <2>4, <2>5, <2>6, <2>7, MappedPages
<1>10. ImageStep(c)
  <2>1. pgdir[c] = None
    BY <1>1, <1>3, SpaceParts DEF CallFits
  <2> QED
    BY <1>2, <1>3, <1>9, <2>1 DEF ImageStep
<1>11. \A r \in Procs \ {c} : ImageStep(r)
  BY <1>1, <1>4, <1>5, ImageStill
<1> QED
  BY <1>8, <1>10, <1>11

(* A step that writes and after which p builds nothing. *)
LEMMA FreeingImages ==
    ASSUME ImageInv, NEW p \in Procs, SpaceInv', Written(p),
           prog' \in [Procs -> Seq(Segments)],
           \A q \in Procs \ {p} : (Same(q) /\ prog'[q] = prog[q]) \/ Resting(q)',
           Resting(p)', pgdir' = pgdir, d[p] # pgdir[p]
    PROVE  ImageInv' /\ \A r \in Procs : ImageStep(r)
<1>1. ImageInv'
  BY AtRest, ImageFrame
<1>2. \A r \in Procs : ImageStep(r)
  BY ImageParts, OthersImages
<1> QED
  BY <1>1, <1>2

LEMMA GivenWritten ==
    ASSUME SpaceInv, NEW p \in Procs, d[p] # None, NEW v \in Mapped(d[p]), GivePage(p, v)
    PROVE  Written(p)
<1>1. DOMAIN page = Pages /\ MemInv
  BY SpaceMem, MemParts DEF PageTypes
<1>2. v \in UserPages /\ v \div PerTable \in Pdes
  BY MappedPages, Slots
<1>3. PICK t : t = Table(d[p], v)
  OBVIOUS
<1>4. PICK h : h = Walk(d[p], v).pg
  OBVIOUS
<1>5. PICK k : k = v % PerTable
  OBVIOUS
<1>6. page' = [page EXCEPT ![h] = Junk, ![t][k] = None]
  BY <1>3, <1>4, <1>5 DEF GivePage
<1>7. \A g \in Pages : g # h /\ g # t => page'[g] = page[g]
  BY <1>1, <1>6
<1>8. OfTree(d[p], t) /\ OfTree(d[p], h)
  BY <1>2, <1>3, <1>4 DEF OfTree, Table
<1> QED
  BY <1>7, <1>8 DEF Written

(* deallocuvm of sbrk gives back pages at or above the new size. *)
LEMMA DeallocImages ==
    ASSUME ImageInv, NEW p \in Procs, Dealloc(p), SpaceInv'
    PROVE  ImageInv' /\ \A r \in Procs : ImageStep(r)
<1>1. /\ SpaceInv /\ MemInv /\ TypeOK /\ CallFits(p) /\ LoopFits(p)
      /\ prog \in [Procs -> Seq(Segments)]
  BY ImageParts, SpaceParts
<1>2. PICK x : x = d[p]
  OBVIOUS
<1>3. /\ pc[p] = "dealloc" /\ op[p] \in {"grow", "exec", "shrink"} /\ x # None
      /\ op[p] = "exec" => x # pgdir[p]
  BY <1>1, <1>2 DEF Dealloc, CallFits
<1>4. PICK v \in Mapped(x) : PgRoundUp(lo[p]) <= v /\ GivePage(p, v)
  BY <1>2 DEF Dealloc, ToFree
<1>5. /\ pgdir' = pgdir /\ d' = d /\ mem' = mem /\ prog' = prog /\ pc' = pc /\ op' = op
      /\ \A q \in Procs : Same(q)
  BY DEF Dealloc, image, call, loop, Same
<1>6. Resting(p)'
  BY <1>3, <1>5 DEF Resting, Looping, Building
<1>7. Written(p)
  BY <1>1, <1>2, <1>3, <1>4, GivenWritten
<1>8. ImageInv'
  BY <1>1, <1>5, <1>6, <1>7, AtRest, ImageFrame
<1>9. ASSUME pgdir[p] # None, pgdir[p] = x PROVE ImageStep(p)
  <2>1. /\ Mapped(x)' = Mapped(x) \ {v}
        /\ \A w \in UserPages : Walk(x, w)' = IF w = v THEN None ELSE Walk(x, w)
    <3>1. SpaceInv /\ x # None /\ GivePage(p, v) /\ mem' = mem /\ d' = d /\ pgdir' = pgdir
      BY <1>1, <1>3, <1>4, <1>5
    <3> QED
      BY <1>2, <3>1, PageGivenBack
  <2>2. op[p] \in {"grow", "shrink"}
    BY <1>3, <1>9
  <2>3. Below(lo[p]) \subseteq Mapped(x)
    BY <1>1, <1>2, <1>3, <2>2 DEF LoopFits
  <2>4. v \notin Below(lo[p])
    <3>1. lo[p] \in Nat /\ PgRoundUp(lo[p]) \in Nat
      BY <1>1, ProcTypes, RoundUp
    <3>2. v \in UserPages /\ v \in Nat
      BY MappedPages, Sizes DEF UserPages
    <3> QED
      BY <1>4, <3>1, <3>2, BelowRoundUp DEF Upto
  <2>5. ASSUME NEW w \in Mapped(x), w # v PROVE Seen(x, w)' = Seen(x, w)
    <3>1. w \in UserPages /\ Walk(x, w)' = Walk(x, w)
      BY <2>1, <2>5, MappedPages
    <3>2. page'[Walk(x, w).pg] = page[Walk(x, w).pg]
      <4>1. PICK g : g = Walk(x, w).pg
        OBVIOUS
      <4>2. PICK t : t = Table(x, v)
        OBVIOUS
      <4>3. PICK h : h = Walk(x, v).pg
        OBVIOUS
      <4>4. PICK k : k = v % PerTable
        OBVIOUS
      <4>5. page' = [page EXCEPT ![h] = Junk, ![t][k] = None]
        BY <1>2, <1>4, <4>2, <4>3, <4>4 DEF GivePage
      <4>6. x \in Dirs
        BY <1>1, <1>2, <1>3, DirInUse
      <4>7. g # h
        BY <1>1, <2>5, <4>1, <4>3, <4>6, DataApart
      <4>8. g \in Leaves /\ t \in Tables
        BY <1>1, <3>1, <4>1, <4>2, <4>6, MappedPages, WalkTypes
      <4>9. g # t /\ g \in Pages /\ DOMAIN page = Pages
        BY <1>1, <4>8, MemParts DEF PagesApart, PageTypes
      <4> QED
        BY <4>1, <4>5, <4>7, <4>9
    <3> QED
      BY <3>1, <3>2 DEF Seen
  <2>6. Image(p) = [w \in Mapped(x) |-> Seen(x, w)]
    BY <1>9, ImageNow
  <2>7. Image(p)' = [w \in Mapped(x) \ {v} |-> Seen(x, w)']
    BY <1>5, <1>9, <2>1, ImageNext, ZenonT(60)
  <2>8. \A w \in Below(lo[p]) :
           w \in DOMAIN Image(p) /\ w \in DOMAIN Image(p)' /\ Image(p)'[w] = Image(p)[w]
    BY <2>3, <2>4, <2>5, <2>6, <2>7
  <2>9. KeepsBelow(p, lo[p])
    BY <2>8 DEF KeepsBelow, Below
  <2>10. AddsZeros(p)
    BY <2>6, <2>7 DEF AddsZeros
  <2>11. op[p] = "grow" => lo[p] = sz[p]
    BY <1>1 DEF LoopFits
  <2> QED
    BY <1>5, <1>9, <2>2, <2>9, <2>10, <2>11 DEF ImageStep
<1>10. \A r \in Procs : ImageStep(r)
  BY <1>1, <1>2, <1>5, <1>7, <1>9, OthersImages
<1> QED
  BY <1>8, <1>10

LEMMA DropImages ==
    ASSUME ImageInv, NEW p \in Procs, Drop(p), SpaceInv'
    PROVE  ImageInv' /\ \A r \in Procs : ImageStep(r)
<1>1. /\ SpaceInv /\ MemInv /\ TypeOK /\ CallFits(p)
      /\ prog \in [Procs -> Seq(Segments)]
  BY ImageParts, SpaceParts
<1>2. pgdir' = pgdir /\ d' = d /\ prog' = prog
  BY DEF Drop, image, call
<1>3. DOMAIN page = Pages
  BY <1>1, MemParts DEF PageTypes
<1>4. PICK h : h = mem[p]
  OBVIOUS
<1>5. h # None /\ h \in Hands
  BY <1>1, <1>4, HandOf DEF Drop, CallFits
<1>6. \A g \in Pages : g # h => page'[g] = page[g]
  BY <1>3, <1>4 DEF Drop
<1>7. Written(p)
  BY <1>4, <1>6 DEF Written
<1>8. pc'[p] = "fail" /\ \A q \in Procs \ {p} : Same(q)
  BY <1>1 DEF Drop, Goto, TypeOK, Same, image, call, loop
<1>9. Resting(p)'
  BY <1>8 DEF Resting, Looping, Building
<1>10. ImageInv'
  BY <1>1, <1>2, <1>7, <1>8, <1>9, AtRest, ImageFrame
<1>11. ASSUME pgdir[p] # None PROVE ImageStep(p)
  <2>1. PICK e : e = pgdir[p]
    OBVIOUS
  <2>2. e \in Dirs
    BY <1>1, <1>11, <2>1, DirInUse
  <2>3. /\ h \notin Dirs /\ h \notin Tables /\ h \notin Leaves
        /\ Dirs \subseteq Pages /\ Tables \subseteq Pages /\ Leaves \subseteq Pages
    BY <1>1, <1>5, MemParts DEF PagesApart
  <2>4. TreeKept(e)
    BY <1>1, <1>6, <2>2, <2>3, DirContents DEF TreeKept
  <2>5. DataKept(e)
    <3>1. \A v \in Mapped(e) : Walk(e, v).pg \in Leaves
      BY <1>1, <2>2, MappedPages, WalkTypes
    <3> QED
      BY <1>6, <2>3, <3>1 DEF DataKept
  <2>6. Image(p)' = Image(p)
    BY <1>1, <1>2, <2>1, <2>2, <2>4, <2>5, ImageSame
  <2> QED
    BY <1>2, <1>11, <2>6 DEF ImageStep
<1>12. \A r \in Procs : ImageStep(r)
  BY <1>1, <1>2, <1>7, <1>11, OthersImages
<1> QED
  BY <1>10, <1>12

-----------------------------------------------------------------------------
(* freevm *)

LEMMA FreePageImages ==
    ASSUME ImageInv, NEW p \in Procs, FreePage(p), SpaceInv'
    PROVE  ImageInv' /\ \A r \in Procs : ImageStep(r)
<1>1. SpaceInv /\ prog \in [Procs -> Seq(Segments)]
  BY ImageParts
<1>2. pc[p] = "freevm" /\ d[p] # None /\ pgdir[p] # d[p]
  BY <1>1, FreeingFits DEF FreePage
<1>3. Written(p)
  BY <1>1, <1>2, GivenWritten DEF FreePage
<1>4. /\ pgdir' = pgdir /\ prog' = prog /\ pc' = pc /\ op' = op
      /\ \A q \in Procs : Same(q)
  BY DEF FreePage, image, call, loop, Same
<1>5. Resting(p)'
  BY <1>2, <1>4 DEF Resting, Looping, Building
<1> QED
  BY <1>1, <1>2, <1>3, <1>4, <1>5, FreeingImages

LEMMA FreeTableImages ==
    ASSUME ImageInv, NEW p \in Procs, FreeTable(p), SpaceInv'
    PROVE  ImageInv' /\ \A r \in Procs : ImageStep(r)
<1>1. SpaceInv /\ prog \in [Procs -> Seq(Segments)] /\ DOMAIN page = Pages
  BY ImageParts, MemParts DEF PageTypes
<1>2. pc[p] = "freevm" /\ d[p] # None /\ pgdir[p] # d[p]
  BY <1>1, FreeingFits DEF FreeTable
<1>3. Written(p)
  <2>1. PICK x : x = d[p]
    OBVIOUS
  <2>2. PICK s, t :
           /\ s \in Pdes /\ t = page[x][s]
           /\ page' = [page EXCEPT ![t] = Junk, ![x][s] = None]
    BY <2>1 DEF FreeTable, Used
  <2>3. \A g \in Pages : g # t /\ g # x => page'[g] = page[g]
    BY <1>1, <2>2
  <2>4. OfTree(x, x) /\ OfTree(x, t)
    BY <1>2, <2>1, <2>2 DEF OfTree
  <2> QED
    BY <2>1, <2>3, <2>4 DEF Written
<1>4. /\ pgdir' = pgdir /\ prog' = prog /\ pc' = pc /\ op' = op
      /\ \A q \in Procs : Same(q)
  BY DEF FreeTable, image, call, loop, Same
<1>5. Resting(p)'
  BY <1>2, <1>4 DEF Resting, Looping, Building
<1> QED
  BY <1>1, <1>2, <1>3, <1>4, <1>5, FreeingImages

LEMMA FreeDirImages ==
    ASSUME ImageInv, NEW p \in Procs, FreeDir(p), SpaceInv'
    PROVE  ImageInv' /\ \A r \in Procs : ImageStep(r)
<1>1. /\ SpaceInv /\ TypeOK /\ prog \in [Procs -> Seq(Segments)] /\ DOMAIN page = Pages
      /\ segs \in [Procs -> Seq(Segments)]
  BY ImageParts, SpaceParts, MemParts DEF PageTypes
<1>2. pc[p] = "freevm" /\ d[p] # None /\ pgdir[p] # d[p]
  BY <1>1, FreeingFits DEF FreeDir
<1>3. Written(p)
  <2>1. \A g \in Pages : g # d[p] => page'[g] = page[g]
    BY <1>1 DEF FreeDir
  <2>2. OfTree(d[p], d[p])
    BY <1>2 DEF OfTree
  <2> QED
    BY <2>1, <2>2 DEF Written
<1>4. pgdir' = pgdir
  BY DEF FreeDir, image
<1>5. /\ prog' \in [Procs -> Seq(Segments)]
      /\ pc'[p] \in {"user", "unused"}
      /\ \A q \in Procs \ {p} : (Same(q) /\ prog'[q] = prog[q]) \/ pc'[q] = "unused"
  <2>1. \A q \in Procs : q # p => d'[q] = d[q]
    BY <1>1 DEF FreeDir, TypeOK
  <2>2. mem' = mem /\ sz' = sz
    BY DEF FreeDir, image
  <2>3. CASE /\ Goto(p, "unused")
             /\ op' = [op EXCEPT ![p] = "none"]
             /\ UNCHANGED <<child, segs, prog, loop>>
    BY <1>1, <1>4, <2>1, <2>2, <2>3 DEF Goto, TypeOK, Same, loop
  <2>4. CASE Return(p)
    <3>1. prog' \in [Procs -> Seq(Segments)]
      BY <1>1, <2>4 DEF Return
    <3>2. pc'[p] \in {"user", "unused"} /\ \A q \in Procs \ {p} : q = child[p] => pc'[q] = "unused"
      BY <1>1, <2>4 DEF Return, TypeOK
    <3>3. ASSUME NEW q \in Procs \ {p}, q # child[p] PROVE Same(q) /\ prog'[q] = prog[q]
      BY <1>1, <1>4, <2>1, <2>2, <2>4, <3>3 DEF Return, TypeOK, Same
    <3> QED
      BY <3>1, <3>2, <3>3
  <2> QED
    BY <2>3, <2>4 DEF FreeDir
<1>6. \A q \in Procs : pc'[q] \in {"user", "unused"} => Resting(q)'
  BY DEF Resting, Looping, Building
<1> QED
  BY <1>1, <1>2, <1>3, <1>4, <1>5, <1>6, FreeingImages

-----------------------------------------------------------------------------
(* setupkvm *)

LEMMA ExecImages ==
    ASSUME ImageInv, NEW p \in Procs, NEW s \in Programs, Exec(p, s), SpaceInv'
    PROVE  ImageInv' /\ \A r \in Procs : ImageStep(r)
<1>1. /\ SpaceInv /\ TypeOK /\ prog \in [Procs -> Seq(Segments)]
      /\ segs \in [Procs -> Seq(Segments)]
  BY ImageParts, SpaceParts
<1>2. s \in Seq(Segments)
  BY AddressSpaceAssumption
<1>3. /\ page' = page /\ pgdir' = pgdir
      /\ prog' = [prog EXCEPT ![p] = s] /\ segs' = [segs EXCEPT ![p] = s]
  BY DEF Exec, memory, image
<1>4. /\ pc'[p] = "kvmdir" /\ op'[p] = "exec" /\ lo'[p] = 0
      /\ prog'[p] = s /\ segs'[p] = s /\ prog' \in [Procs -> Seq(Segments)]
  BY <1>1, <1>2, <1>3 DEF Exec, Goto, TypeOK
<1>5. \A q \in Procs \ {p} : Same(q) /\ prog'[q] = prog[q]
  BY <1>1, <1>3 DEF Exec, Goto, TypeOK, Same, image
<1>6. ImageFits(p)'
  BY <1>4 DEF ImageFits, Looping
<1>7. ProgramFits(p)'
  <2>1. Len(s) \in Nat /\ Done(p)' = 0
    BY <1>2, <1>4 DEF Done
  <2>2. ~Stacking(p)' /\ ~Looping(p)'
    BY <1>4 DEF Stacking, Looping
  <2>3. \A i \in 1..Len(s) : 0 + i = i
    BY <2>1
  <2> QED
    BY <1>4, <2>1, <2>2, <2>3 DEF ProgramFits
<1>8. ImageInv'
  <2>1. Written(p)
    BY <1>3 DEF Written
  <2> QED
    BY <1>4, <1>5, <1>6, <1>7, <2>1, ImageFrame
<1> QED
  BY <1>1, <1>3, <1>8, ImageStill

LEMMA KvmDirImages ==
    ASSUME ImageInv, NEW p \in Procs, KvmDir(p), SpaceInv'
    PROVE  ImageInv' /\ \A r \in Procs : ImageStep(r)
<1>1. /\ SpaceInv /\ TypeOK /\ CallFits(p) /\ prog \in [Procs -> Seq(Segments)]
      /\ DOMAIN page = Pages /\ (Building(p) => ProgramFits(p))
  BY ImageParts, SpaceParts, MemParts DEF PageTypes
<1>2. /\ pc[p] = "kvmdir" /\ d[p] = None /\ pgdir' = pgdir /\ sz' = sz /\ mem' = mem
      /\ op[p] \in {"fork", "exec"} /\ pgdir[p] # None
  BY <1>1 DEF KvmDir, CallFits, image
<1>3. CASE free = {} /\ Return(p) /\ UNCHANGED <<memory, d>>
  <2>1. page' = page /\ \A q \in Procs \ {p} : d'[q] = d[q] /\ sz'[q] = sz[q]
    BY <1>2, <1>3 DEF memory
  <2> QED
    BY <1>2, <1>3, <2>1, QuietReturn
<1>4. CASE \E g \in Pages :
              /\ First(g)
              /\ free' = free \ {g}
              /\ page' = [page EXCEPT ![g] = EmptyDir]
              /\ d' = [d EXCEPT ![p] = g]
              /\ Goto(p, "kvmtable")
              /\ UNCHANGED <<call, loop>>
  <2>1. PICK g \in Pages :
           /\ g \in free
           /\ page' = [page EXCEPT ![g] = EmptyDir]
           /\ d' = [d EXCEPT ![p] = g]
           /\ Goto(p, "kvmtable")
           /\ UNCHANGED <<call, loop>>
    BY <1>4 DEF First
  <2>2. Written(p)
    <3>1. \A h \in Pages : h # g => page'[h] = page[h]
      BY <1>1, <2>1
    <3> QED
      BY <2>1, <3>1 DEF Written
  <2>3. /\ pc'[p] = "kvmtable" /\ prog' = prog /\ op' = op /\ segs' = segs /\ lo' = lo
        /\ hi' = hi
    BY <1>1, <2>1 DEF Goto, TypeOK, call, loop
  <2>4. \A q \in Procs \ {p} : Same(q)
    BY <1>1, <1>2, <2>1 DEF Goto, TypeOK, Same, call, loop
  <2>5. ImageFits(p)'
    BY <2>3 DEF ImageFits, Looping
  <2>6. Building(p)' => ProgramFits(p)'
    <3>1. Building(p)' => Building(p)
      BY <1>2, <2>3 DEF Building
    <3>2. ~Stacking(p)' /\ ~Stacking(p) /\ ~Looping(p)'
      BY <1>2, <2>3 DEF Stacking, Looping
    <3> QED
      BY <1>1, <1>2, <2>3, <3>1, <3>2, ProgramSame
  <2>7. ImageInv'
    BY <1>1, <2>2, <2>3, <2>4, <2>5, <2>6, ImageFrame
  <2> QED
    BY <1>1, <1>2, <2>2, <2>7, OthersImages
<1> QED
  BY <1>3, <1>4 DEF KvmDir

LEMMA KvmTableImages ==
    ASSUME ImageInv, NEW p \in Procs, KvmTable(p), SpaceInv'
    PROVE  ImageInv' /\ \A r \in Procs : ImageStep(r)
<1>1. /\ SpaceInv /\ MemInv /\ TypeOK /\ CallFits(p) /\ LoopFits(p) /\ ExecFits(p)
      /\ prog \in [Procs -> Seq(Segments)]
      /\ DOMAIN page = Pages /\ (Building(p) => ProgramFits(p))
  BY ImageParts, SpaceParts, MemParts DEF PageTypes
<1>2. PICK x : x = d[p]
  OBVIOUS
<1>3. /\ pc[p] = "kvmtable" /\ x # None /\ x # pgdir[p] /\ page[x] = EmptyDir
      /\ op[p] \in {"fork", "exec"} /\ pgdir' = pgdir /\ sz' = sz /\ mem' = mem
      /\ prog' = prog /\ op' = op /\ segs' = segs /\ lo' = lo /\ hi' = hi /\ a' = a /\ d' = d
      /\ child' = child
  BY <1>1, <1>2 DEF KvmTable, CallFits, ExecFits, image, call, loop
<1>4. CASE free = {} /\ Goto(p, "freevm") /\ UNCHANGED memory
  <2>1. PICK s \in {"dealloc", "drop", "fail", "freevm"} : s = "freevm"
    OBVIOUS
  <2>2. Goto(p, s) /\ UNCHANGED <<page, pgdir, sz, op, child, segs, prog, d, lo, hi, a, mem>>
    BY <1>3, <1>4, <2>1 DEF memory
  <2> QED
    BY <2>2, QuietGoto
<1>5. CASE \E g \in Pages :
              /\ First(g)
              /\ free' = free \ {g}
              /\ page' = [page EXCEPT ![g] = EmptyTable, ![d[p]][UserTables] = g]
              /\ Goto(p, IF op[p] = "fork" THEN "alloc" ELSE "segment")
  <2>1. PICK g \in Pages :
           /\ g \in free
           /\ page' = [page EXCEPT ![g] = EmptyTable, ![x][UserTables] = g]
           /\ Goto(p, IF op[p] = "fork" THEN "alloc" ELSE "segment")
    BY <1>2, <1>5 DEF First
  <2>2. Written(p)
    <3>1. \A h \in Pages : h # g /\ h # x => page'[h] = page[h]
      BY <1>1, <2>1
    <3>2. OfTree(x, x)
      BY <1>3 DEF OfTree
    <3> QED
      BY <1>2, <2>1, <3>1, <3>2 DEF Written
  <2>3. pc'[p] = IF op[p] = "fork" THEN "alloc" ELSE "segment"
    BY <1>1, <2>1 DEF Goto, TypeOK
  <2>4. \A q \in Procs \ {p} : Same(q)
    BY <1>1, <1>3, <2>1 DEF Goto, TypeOK, Same
  <2>5. Mapped(d[p])' = {}
    <3>1. x \in Dirs
      BY <1>1, <1>2, <1>3, DirInUse
    <3>2. x \in Pages /\ x # g
      BY <1>1, <2>1, <3>1, MemParts DEF PagesApart
    <3>3. \A s \in Pdes : s # UserTables => page'[x][s] = None
      BY <1>1, <1>3, <2>1, <3>2 DEF EmptyDir
    <3>4. Mapped(x)' = {}
      BY <3>3, NothingMapped
    <3> QED
      BY <1>2, <1>3, <3>4 DEF Mapped, Walk, Table
  <2>6. ImageFits(p)'
    BY <2>3, <2>5 DEF ImageFits
  <2>7. Building(p)' => ProgramFits(p)'
    <3>1. Building(p)' => Building(p) /\ pc'[p] = "segment"
      BY <1>3, <2>3 DEF Building
    <3>2. pc'[p] = "segment" => ~Stacking(p)' /\ ~Stacking(p) /\ ~Looping(p)'
      BY <1>3 DEF Stacking, Looping
    <3> QED
      BY <1>1, <1>3, <3>1, <3>2, ProgramSame
  <2>8. ImageInv'
    BY <1>1, <1>3, <2>2, <2>4, <2>6, <2>7, ImageFrame
  <2> QED
    BY <1>1, <1>2, <1>3, <2>2, <2>8, OthersImages
<1> QED
  BY <1>4, <1>5 DEF KvmTable

-----------------------------------------------------------------------------
(* The loops of allocuvm and copyuvm *)

LEMMA GetPageImages ==
    ASSUME ImageInv, NEW p \in Procs, GetPage(p), SpaceInv'
    PROVE  ImageInv' /\ \A r \in Procs : ImageStep(r)
<1>1. /\ SpaceInv /\ MemInv /\ TypeOK /\ CallFits(p) /\ LoopFits(p)
      /\ prog \in [Procs -> Seq(Segments)] /\ ImageFits(p)
      /\ DOMAIN page = Pages /\ (Building(p) => ProgramFits(p)) /\ TypeOK'
  BY ImageParts, SpaceParts, MemParts DEF PageTypes, SpaceInv
<1>2. PICK x : x = d[p]
  OBVIOUS
<1>3. PICK y : y = pgdir[p]
  OBVIOUS
<1>4. /\ pc[p] = "alloc" /\ Looping(p) /\ a[p] * PgSize < hi[p] /\ x # None /\ y # None
      /\ x \in Dirs /\ y \in Dirs /\ op[p] \in {"fork", "exec", "grow"}
      /\ (op[p] = "fork" => x # y)
  BY <1>1, <1>2, <1>3, DirInUse DEF GetPage, CallFits, Looping
<1>5. /\ pgdir' = pgdir /\ sz' = sz /\ op' = op /\ child' = child /\ segs' = segs
      /\ lo' = lo /\ hi' = hi /\ a' = a /\ d' = d /\ prog' = prog
  BY DEF GetPage, image, call, loop
<1>6. CASE free = {} /\ Goto(p, FailsTo(p)) /\ UNCHANGED <<memory, mem>>
  <2>1. PICK s \in {"dealloc", "drop", "fail", "freevm"} : s = FailsTo(p)
    BY DEF FailsTo
  <2>2. Goto(p, s) /\ UNCHANGED <<page, pgdir, sz, op, child, segs, prog, d, lo, hi, a, mem>>
    BY <1>5, <1>6, <2>1 DEF memory
  <2> QED
    BY <2>2, QuietGoto
<1>7. CASE CopyPanics(p) /\ Goto(p, "panic")
  <2>1. pc'[p] = "panic"
    BY <1>1, <1>7 DEF Goto, TypeOK
  <2> QED
    BY <1>1, <2>1 DEF TypeOK
<1>8. CASE /\ \E g \in Pages :
                 /\ First(g)
                 /\ free' = free \ {g}
                 /\ page' = [page EXCEPT ![g] = Fill(p)]
                 /\ mem' = [mem EXCEPT ![p] = g]
           /\ Goto(p, "map")
  <2>1. PICK g \in Pages :
           /\ g \in free
           /\ page' = [page EXCEPT ![g] = Fill(p)]
           /\ mem' = [mem EXCEPT ![p] = g]
    BY <1>8 DEF First
  <2>2. \A h \in Pages : h # g => page'[h] = page[h]
    BY <1>1, <2>1
  <2>3. Written(p)
    BY <2>1, <2>2 DEF Written
  <2>4. /\ g \notin Dirs /\ g \notin Tables /\ g \notin Leaves
        /\ Dirs \subseteq Pages /\ Tables \subseteq Pages /\ Leaves \subseteq Pages
    BY <1>1, <2>1, MemParts DEF PagesApart
  <2>5. ASSUME NEW e \in Dirs PROVE TreeKept(e) /\ DataKept(e)
    <3>1. TreeKept(e)
      BY <1>1, <2>2, <2>4, DirContents DEF TreeKept
    <3>2. \A v \in Mapped(e) : Walk(e, v).pg \in Leaves
      BY <1>1, MappedPages, WalkTypes
    <3>3. DataKept(e)
      BY <2>2, <2>4, <3>2 DEF DataKept
    <3> QED
      BY <3>1, <3>3
  <2>6. pc'[p] = "map" /\ mem'[p] = g /\ page'[g] = Fill(p)
    BY <1>1, <1>8, <2>1 DEF Goto, TypeOK
  <2>7. \A q \in Procs \ {p} : Same(q) /\ prog'[q] = prog[q]
    BY <1>1, <1>5, <1>8, <2>1 DEF Goto, TypeOK, Same
  <2>8. Fill(p)' = Fill(p)
    BY <1>1, <1>3, <1>4, <1>5, <2>5, FillSame
  <2>9. /\ Mapped(x)' = Mapped(x) /\ \A v \in Mapped(x) : Seen(x, v)' = Seen(x, v)
    BY <1>1, <1>4, <2>5, SeenSame
  <2>10. \A v \in Mapped(y) : Seen(y, v)' = Seen(y, v)
    BY <1>1, <1>4, <2>5, SeenSame
  <2>11. /\ Mapped(d[p])' = Mapped(x)'
         /\ \A v \in UserPages : Seen(d[p], v)' = Seen(x, v)' /\ Seen(pgdir[p], v)' = Seen(y, v)'
    BY <1>2, <1>3, <1>5 DEF Mapped, Seen, Walk, Table
  <2>12. Done(p)' = Done(p) /\ Looping(p)'
    BY <1>5, <2>6 DEF Done, Looping
  <2>13. ASSUME op[p] = "fork", NEW v \in Mapped(x)
         PROVE  Seen(x, v)' = Seen(y, v)'
    <3>1. Seen(x, v) = Seen(y, v)
      BY <1>1, <1>2, <1>3, <1>4, <2>13 DEF ImageFits
    <3>2. v \in Mapped(y)
      BY <1>1, <1>2, <1>3, <1>4, <2>13, ForkBelow
    <3> QED
      BY <2>9, <2>10, <3>1, <3>2
  <2>14. ASSUME op[p] = "exec", NEW v \in Mapped(x)
         PROVE  Seen(x, v)' = <<Content(prog[p], Done(p), v), TRUE>>
    BY <1>1, <1>2, <1>4, <2>9, <2>14 DEF ImageFits
  <2>15. ImageFits(p)'
    <3>1. pc'[p] = "map" => page'[mem'[p]] = Fill(p)'
      BY <2>6, <2>8
    <3>2. ASSUME op'[p] = "fork"
          PROVE  \A v \in Mapped(d[p])' : Seen(d[p], v)' = Seen(pgdir[p], v)'
      BY <1>5, <2>9, <2>11, <2>13, <3>2, MappedPages
    <3>3. ASSUME op'[p] = "exec"
          PROVE  \A v \in Mapped(d[p])' :
                    Seen(d[p], v)' = <<Content(prog[p], Done(p), v), TRUE>>'
      BY <1>5, <2>9, <2>11, <2>12, <2>14, <3>3, MappedPages
    <3> QED
      BY <1>5, <2>6, <3>1, <3>2, <3>3 DEF ImageFits
  <2>16. Building(p)' => ProgramFits(p)'
    <3>1. Building(p)' => Building(p)
      BY <1>4, <1>5 DEF Building
    <3>2. Stacking(p)' <=> Stacking(p)
      BY <1>4, <1>5, <2>6 DEF Stacking, Looping
    <3> QED
      BY <1>1, <1>4, <1>5, <2>6, <3>1, <3>2, ProgramSame
  <2>17. ImageInv'
    BY <1>1, <1>5, <2>3, <2>7, <2>15, <2>16, ImageFrame
  <2>18. ImageStep(p)
    <3>1. Image(p)' = Image(p)
      BY <1>1, <1>3, <1>4, <1>5, <2>5, ImageSame
    <3> QED
      BY <1>3, <1>4, <1>5, <3>1 DEF ImageStep
  <2> QED
    BY <1>1, <1>5, <2>3, <2>17, <2>18, OthersImages
<1> QED
  BY <1>6, <1>7, <1>8 DEF GetPage

(* A page above what exec has of its program is a page of zeros.           *)
LEMMA ZeroAbove ==
    ASSUME NEW s \in Seq(Segments), NEW n \in 0..Len(s), NEW l \in Nat, NEW v \in Nat,
           \A j \in 1..n : s[j].filesz <= s[j].memsz /\ Limit(s[j]) <= l,
           PgRoundUp(l) <= v
    PROVE  Content(s, n, v) = Zero
<1>1. ASSUME NEW j \in 1..n PROVE v \notin Loaded(s[j])
  <2>1. PICK e : e = s[j]
    OBVIOUS
  <2>2. e \in Segments /\ e.filesz <= e.memsz /\ Limit(e) <= l
    BY <2>1
  <2>3. e.vaddr \in Nat /\ e.memsz \in Nat /\ e.filesz \in Nat
    BY <2>2 DEF Segments
  <2>4. e.vaddr + e.filesz <= l
    BY <2>2, <2>3 DEF Limit
  <2>5. PICK y : y = v * PgSize
    OBVIOUS
  <2>6. y \in Nat
    BY <2>5, Sizes
  <2>7. ~(y < l)
    BY <2>5, RoundUp
  <2>8. ~(y < e.vaddr + e.filesz)
    BY <2>3, <2>4, <2>6, <2>7
  <2> QED
    BY <2>1, <2>5, <2>8 DEF Loaded
<1>2. Loads(s, n, v) = {}
  BY <1>1 DEF Loads
<1> QED
  BY <1>2 DEF Content

(* What has been loaded is a part of the program. *)
LEMMA DonePart ==
    ASSUME NEW p \in Procs, prog[p] \in Seq(Segments), segs[p] \in Seq(Segments),
           ProgramFits(p)
    PROVE  Done(p) \in 0..Len(prog[p]) /\ Len(prog[p]) \in Nat /\ Len(segs[p]) \in Nat
<1>1. Len(prog[p]) \in Nat /\ Len(segs[p]) \in Nat
  OBVIOUS
<1>2. Len(segs[p]) <= Len(prog[p])
  BY DEF ProgramFits
<1>3. PICK m, n : m = Len(prog[p]) /\ n = Len(segs[p])
  OBVIOUS
<1>4. m \in Nat /\ n \in Nat /\ n <= m
  BY <1>1, <1>2, <1>3
<1>5. m - n \in 0..m
  BY <1>4
<1> QED
  BY <1>1, <1>3, <1>5 DEF Done

(* The page is mapped: what copyuvm copied or allocuvm zeroed is seen.     *)
LEMMA MappedImages ==
    ASSUME ImageInv, NEW p \in Procs, pc[p] = "map", MapsPage(p), SpaceInv', Written(p),
           pgdir' = pgdir, sz' = sz, op' = op, child' = child, d' = d, lo' = lo, hi' = hi,
           segs' = segs, prog' = prog,
           page'[mem[p]] = page[mem[p]], \A g \in Leaves : page'[g] = page[g]
    PROVE  ImageInv' /\ \A r \in Procs : ImageStep(r)
<1>1. /\ SpaceInv /\ MemInv /\ TypeOK /\ CallFits(p) /\ LoopFits(p)
      /\ prog \in [Procs -> Seq(Segments)] /\ segs \in [Procs -> Seq(Segments)]
      /\ ImageFits(p) /\ (Building(p) => ProgramFits(p))
  BY ImageParts, SpaceParts
<1>2. PICK x : x = d[p]
  OBVIOUS
<1>3. PICK y : y = pgdir[p]
  OBVIOUS
<1>4. PICK v : v = a[p]
  OBVIOUS
<1>5. PICK h, u : h = mem[p] /\ u = Flags(p)
  OBVIOUS
<1>6. /\ Looping(p) /\ v * PgSize < hi[p] /\ x # None /\ y # None
      /\ x \in Dirs /\ y \in Dirs /\ op[p] \in {"fork", "exec", "grow"}
      /\ (op[p] \in {"fork", "exec"} => x # y)
      /\ page[h] = Fill(p)
  BY <1>1, <1>2, <1>3, <1>4, <1>5, DirInUse DEF LoopFits, CallFits, Looping, ImageFits
<1>7. /\ v \in UserPages /\ v \in Nat /\ v \notin Mapped(x)
  <2>1. v \in UserPages /\ Walk(x, v) = None
    BY <1>1, <1>2, <1>4, PageAtHand, ZenonT(60)
  <2> QED
    BY <2>1, MappedPages, Sizes DEF UserPages
<1>8. /\ \A w \in UserPages : w # v => Walk(x, w)' = Walk(x, w)
      /\ Walk(x, v)' = Pte(h, u) /\ Pte(h, u) # None
  <2>1. \A w \in UserPages : Walk(x, w)' = Walk(d[p], w)'
    BY <1>2 DEF Walk, Table
  <2> QED
    BY <1>2, <1>4, <1>5, <1>7, <2>1 DEF MapsPage
<1>9. Mapped(x)' = Mapped(x) \cup {v}
  BY <1>7, <1>8 DEF Mapped
<1>10. ASSUME NEW w \in Mapped(x) PROVE Seen(x, w)' = Seen(x, w)
  <2>1. w \in UserPages /\ Walk(x, w)' = Walk(x, w)
    BY <1>7, <1>8, MappedPages
  <2>2. Walk(x, w).pg \in Leaves
    BY <1>1, <1>6, MappedPages, WalkTypes
  <2> QED
    BY <2>1, <2>2 DEF Seen
<1>11. Seen(x, v)' = <<Fill(p), u>>
  <2>1. Pte(h, u).pg = h /\ Pte(h, u).user = u
    BY DEF Pte
  <2> QED
    BY <1>5, <1>6, <1>8, <2>1 DEF Seen
<1>12. op[p] # "fork" => Fill(p) = Zero /\ u = TRUE
  BY <1>5 DEF Fill, Flags
<1>13. /\ Mapped(d[p])' = Mapped(x)'
       /\ \A w \in UserPages : Seen(d[p], w)' = Seen(x, w)' /\ Seen(pgdir[p], w)' = Seen(y, w)'
  BY <1>2, <1>3 DEF Mapped, Seen, Walk, Table
<1>14. /\ pc'[p] = "alloc" /\ a'[p] = v + 1 /\ Looping(p)' /\ Done(p)' = Done(p)
       /\ \A q \in Procs \ {p} : Same(q) /\ prog'[q] = prog[q]
  BY <1>1, <1>4 DEF MapsPage, Goto, TypeOK, Same, Looping, Done
<1>15. ASSUME op[p] = "fork", NEW w \in Mapped(x)'
       PROVE  Seen(x, w)' = Seen(y, w)'
  <2>1. /\ TreeKept(y) /\ DataKept(y)
    BY <1>1, <1>2, <1>6, <1>15, OthersUntouched
  <2>2. \A z \in Mapped(y) : Seen(y, z)' = Seen(y, z)
    BY <1>1, <1>6, <2>1, SeenSame
  <2>3. CASE w = v
    <3>1. v \in Mapped(y)
      BY <1>1, <1>3, <1>4, <1>6, <1>15, FillMapped
    <3>2. Walk(y, v) \in Entries
      BY <1>1, <1>6, <1>7, <3>1, MappedPages, WalkTypes
    <3>3. Walk(y, v).user \in BOOLEAN
      BY <3>2 DEF Entries
    <3>4. Fill(p) = page[Walk(y, v).pg] /\ u = Walk(y, v).user
      <4>1. Fill(p) = page[Walk(y, v).pg]
        BY <1>3, <1>4, <1>15 DEF Fill
      <4>2. Flags(p) = (op[p] = "fork" => Walk(y, v).user)
        BY <1>3, <1>4 DEF Flags
      <4> QED
        BY <1>5, <1>15, <3>3, <4>1, <4>2
    <3> QED
      BY <1>11, <2>2, <2>3, <3>1, <3>4 DEF Seen
  <2>4. CASE w # v
    <3>1. w \in Mapped(x) /\ Seen(x, w) = Seen(y, w)
      BY <1>1, <1>2, <1>3, <1>6, <1>9, <1>15, <2>4 DEF ImageFits
    <3>2. w \in Mapped(y)
      BY <1>1, <1>2, <1>3, <1>6, <1>15, <3>1, ForkBelow
    <3> QED
      BY <1>10, <2>2, <3>1, <3>2
  <2> QED
    BY <2>3, <2>4
<1>16. ASSUME op[p] = "exec", NEW w \in Mapped(x)'
       PROVE  Seen(x, w)' = <<Content(prog[p], Done(p), w), TRUE>>
  <2>1. CASE w = v
    <3>1. ProgramFits(p)
      BY <1>1, <1>6, <1>16 DEF Building, Looping
    <3>2. lo[p] \in Nat /\ PgRoundUp(lo[p]) <= v
      BY <1>1, <1>4, <1>6, <3>1, ProcTypes DEF ProgramFits
    <3>3. \A j \in 1..Done(p) :
             prog[p][j].filesz <= prog[p][j].memsz /\ Limit(prog[p][j]) <= lo[p]
      BY <3>1 DEF ProgramFits
    <3>4. prog[p] \in Seq(Segments) /\ Done(p) \in 0..Len(prog[p])
      BY <1>1, <3>1, DonePart
    <3>5. Content(prog[p], Done(p), v) = Zero
      BY <1>7, <3>2, <3>3, <3>4, ZeroAbove
    <3> QED
      BY <1>11, <1>12, <1>16, <2>1, <3>5
  <2>2. CASE w # v
    <3>1. w \in Mapped(x)
      BY <1>9, <1>16, <2>2
    <3>2. Seen(x, w) = <<Content(prog[p], Done(p), w), TRUE>>
      BY <1>1, <1>2, <1>6, <1>16, <3>1 DEF ImageFits
    <3> QED
      BY <1>10, <3>1, <3>2
  <2> QED
    BY <2>1, <2>2
<1>17. ImageFits(p)'
  <2>1. \A w \in Mapped(x)' : w \in UserPages
    BY <1>7, <1>9, MappedPages
  <2> QED
    BY <1>13, <1>14, <1>15, <1>16, <2>1 DEF ImageFits
<1>18. Building(p)' => ProgramFits(p)'
  <2>1. Building(p)' => Building(p)
    BY <1>6 DEF Building, Looping
  <2>2. Stacking(p)' <=> Stacking(p)
    BY <1>6, <1>14 DEF Stacking, Looping
  <2>3. PgRoundUp(lo[p]) <= a[p] => PgRoundUp(lo[p]) <= a'[p]
    <3>1. PgRoundUp(lo[p]) \in Nat
      BY <1>1, ProcTypes, RoundUp
    <3> QED
      BY <1>4, <1>7, <1>14, <3>1
  <2> QED
    BY <1>1, <1>6, <1>14, <2>1, <2>2, <2>3, ProgramSame
<1>19. ImageInv'
  BY <1>1, <1>14, <1>17, <1>18, ImageFrame
<1>20. ASSUME x = y PROVE ImageStep(p)
  <2>1. op[p] = "grow" /\ lo[p] = sz[p]
    BY <1>1, <1>6, <1>20 DEF LoopFits
  <2>2. Below(sz[p]) \subseteq Mapped(x)
    BY <1>1, <1>2, <1>6, <2>1, GrowBounds
  <2>3. Image(p) = [w \in Mapped(x) |-> Seen(x, w)]
    BY <1>3, <1>20, ImageNow
  <2>4. Image(p)' = [w \in Mapped(x)' |-> Seen(x, w)']
    BY <1>3, <1>20, ImageNext
  <2>5. \A w \in Below(sz[p]) :
           w \in DOMAIN Image(p) /\ w \in DOMAIN Image(p)' /\ Image(p)'[w] = Image(p)[w]
    BY <1>9, <1>10, <2>2, <2>3, <2>4
  <2>6. KeepsBelow(p, sz[p])
    BY <2>5 DEF KeepsBelow, Below
  <2>7. \A w \in DOMAIN Image(p)' \ DOMAIN Image(p) : Image(p)'[w] = <<Zero, TRUE>>
    BY <1>9, <1>11, <1>12, <2>1, <2>3, <2>4
  <2>8. AddsZeros(p)
    BY <2>7 DEF AddsZeros
  <2> QED
    BY <1>3, <1>6, <2>1, <2>6, <2>8 DEF ImageStep
<1>21. \A r \in Procs : ImageStep(r)
  BY <1>1, <1>2, <1>3, <1>20, OthersImages
<1> QED
  BY <1>19, <1>21

LEMMA MapImages ==
    ASSUME ImageInv, NEW p \in Procs, Map(p), SpaceInv'
    PROVE  ImageInv' /\ \A r \in Procs : ImageStep(r)
<1>1. SpaceInv /\ MemInv /\ TypeOK /\ DOMAIN page = Pages
  BY ImageParts, SpaceParts, MemParts DEF PageTypes
<1>2. MapsPage(p) /\ pc[p] = "map"
  BY <1>1, MapEffect DEF Map
<1>3. PICK x : x = d[p]
  OBVIOUS
<1>4. PICK t : t = Table(x, a[p])
  OBVIOUS
<1>5. /\ x \in Dirs /\ x # None /\ a[p] \in UserPages /\ mem[p] # None
      /\ a[p] \div PerTable \in Pdes /\ t # None
  BY <1>1, <1>2, <1>3, <1>4, PageAtHand DEF Map
<1>6. t \in Tables /\ t = page[x][a[p] \div PerTable]
  BY <1>1, <1>4, <1>5, WalkTypes
<1>7. \A g \in Pages : g # t => page'[g] = page[g]
  BY <1>1, <1>3, <1>4 DEF Map
<1>8. Written(p)
  <2>1. OfTree(x, t)
    BY <1>5, <1>6 DEF OfTree
  <2> QED
    BY <1>3, <1>7, <2>1 DEF Written
<1>9. mem[p] \in Hands
  BY <1>5, HandOf
<1>10. page'[mem[p]] = page[mem[p]] /\ \A g \in Leaves : page'[g] = page[g]
  BY <1>1, <1>6, <1>7, <1>9, MemParts DEF PagesApart
<1>11. /\ pgdir' = pgdir /\ sz' = sz /\ op' = op /\ child' = child /\ d' = d
       /\ lo' = lo /\ hi' = hi /\ segs' = segs /\ prog' = prog
  BY DEF Map, image, call
<1> QED
  BY <1>2, <1>8, <1>10, <1>11, MappedImages

LEMMA MapTableImages ==
    ASSUME ImageInv, NEW p \in Procs, MapTable(p), SpaceInv'
    PROVE  ImageInv' /\ \A r \in Procs : ImageStep(r)
<1>1. SpaceInv /\ MemInv /\ TypeOK /\ DOMAIN page = Pages
  BY ImageParts, SpaceParts, MemParts DEF PageTypes
<1>2. /\ pgdir' = pgdir /\ sz' = sz /\ op' = op /\ child' = child /\ d' = d
      /\ lo' = lo /\ hi' = hi /\ segs' = segs /\ prog' = prog /\ pc[p] = "map"
  BY DEF MapTable, image, call
<1>3. CASE free = {}
  <2>1. PICK s \in {"dealloc", "drop", "fail", "freevm"} : Goto(p, s)
    BY <1>3 DEF MapTable, First
  <2>2. UNCHANGED <<memory, mem, a>>
    BY <1>3 DEF MapTable, First
  <2>3. UNCHANGED <<page, pgdir, sz, op, child, segs, prog, d, lo, hi, a, mem>>
    BY <1>2, <2>2 DEF memory
  <2> QED
    BY <2>1, <2>3, QuietGoto
<1>4. CASE free # {}
  <2>1. PICK x : x = d[p]
    OBVIOUS
  <2>2. PICK g0 : g0 \in free
    BY <1>4
  <2>3. MapsPage(p)
    BY <1>1, <2>2, MapTableEffect
  <2>4. x \in Dirs /\ x # None /\ mem[p] # None
    BY <1>1, <1>2, <2>1, PageAtHand
  <2>5. PICK t \in free :
           page' = [page EXCEPT
                      ![t] = [EmptyTable EXCEPT ![a[p] % PerTable] = Pte(mem[p], Flags(p))],
                      ![x][a[p] \div PerTable] = t]
    BY <2>1, <2>2 DEF MapTable, First
  <2>6. \A g \in Pages : g # t /\ g # x => page'[g] = page[g]
    BY <1>1, <2>5
  <2>7. Written(p)
    <3>1. OfTree(x, x)
      BY <2>4 DEF OfTree
    <3> QED
      BY <2>1, <2>5, <2>6, <3>1 DEF Written
  <2>8. mem[p] \in Hands
    BY <2>4, HandOf
  <2>9. page'[mem[p]] = page[mem[p]] /\ \A g \in Leaves : page'[g] = page[g]
    BY <1>1, <2>4, <2>5, <2>6, <2>8, MemParts DEF PagesApart
  <2> QED
    BY <1>2, <2>3, <2>7, <2>9, MappedImages
<1> QED
  BY <1>3, <1>4

-----------------------------------------------------------------------------
(* exec *)

(* Only the sizes of the loop change. *)
LEMMA BuildingGoesOn ==
    ASSUME ImageInv, NEW p \in Procs, SpaceInv',
           op[p] = "exec", Looping(p) \/ pc[p] \in {"segment", "load"},
           page' = page, pgdir' = pgdir, d' = d, op' = op, segs' = segs, prog' = prog,
           pc'[p] \in {"alloc", "load"},
           \A q \in Procs \ {p} : Same(q),
           ProgramFits(p)'
    PROVE  ImageInv' /\ \A r \in Procs : ImageStep(r)
<1>1. SpaceInv /\ prog \in [Procs -> Seq(Segments)] /\ ImageFits(p)
  BY ImageParts
<1>2. /\ Mapped(d[p])' = Mapped(d[p]) /\ Done(p)' = Done(p)
      /\ \A v \in UserPages : Seen(d[p], v)' = Seen(d[p], v)
  BY DEF Mapped, Seen, Walk, Table, Done
<1>3. ImageFits(p)'
  BY <1>1, <1>2, MappedPages DEF ImageFits
<1>4. ImageInv'
  <2>1. Written(p)
    BY DEF Written
  <2> QED
    BY <1>1, <1>3, <2>1, ImageFrame
<1> QED
  BY <1>1, <1>4, ImageStill

LEMMA SegmentImages ==
    ASSUME ImageInv, NEW p \in Procs, Segment(p), SpaceInv'
    PROVE  ImageInv' /\ \A r \in Procs : ImageStep(r)
<1>1. /\ TypeOK /\ CallFits(p) /\ prog \in [Procs -> Seq(Segments)]
      /\ Building(p) => ProgramFits(p)
  BY ImageParts, SpaceParts
<1>2. /\ pc[p] = "segment" /\ op[p] = "exec" /\ segs[p] # <<>>
      /\ page' = page /\ pgdir' = pgdir /\ sz' = sz /\ op' = op /\ child' = child
      /\ segs' = segs /\ prog' = prog /\ d' = d /\ mem' = mem
  BY <1>1 DEF Segment, CallFits, memory, image, call
<1>3. ProgramFits(p) /\ ~Stacking(p)
  BY <1>1, <1>2 DEF Building, Stacking, Looping
<1>4. PICK end : end = Limit(Head(segs[p]))
  OBVIOUS
<1>5. CASE Goto(p, "freevm") /\ UNCHANGED loop
  <2>1. PICK s \in {"dealloc", "drop", "fail", "freevm"} : s = "freevm"
    OBVIOUS
  <2>2. Goto(p, s) /\ UNCHANGED <<page, pgdir, sz, op, child, segs, prog, d, lo, hi, a, mem>>
    BY <1>2, <1>5, <2>1 DEF loop
  <2> QED
    BY <2>2, QuietGoto
<1>6. Done(p)' = Done(p)
  BY <1>2 DEF Done
<1>7. CASE /\ lo[p] <= end
           /\ hi' = [hi EXCEPT ![p] = end]
           /\ a' = [a EXCEPT ![p] = AllocFrom(lo[p])]
           /\ Goto(p, "alloc")
           /\ UNCHANGED lo
  <2>1. pc'[p] = "alloc" /\ hi'[p] = end /\ a'[p] = PgRoundUp(lo[p]) /\ lo' = lo
    BY <1>1, <1>7 DEF Goto, TypeOK, AllocFrom
  <2>2. \A q \in Procs \ {p} : Same(q)
    BY <1>1, <1>2, <1>7 DEF Goto, TypeOK, Same
  <2>3. ~Stacking(p)'
    BY <1>2, <2>1 DEF Stacking
  <2>4. PgRoundUp(lo[p])' <= a'[p]
    <3>1. PgRoundUp(lo[p]) \in Nat
      BY <1>1, ProcTypes, RoundUp
    <3> QED
      BY <2>1, <3>1 DEF PgRoundUp
  <2>5. ProgramFits(p)'
    BY <1>2, <1>3, <1>6, <1>7, <2>1, <2>3, <2>4 DEF ProgramFits, Limit
  <2> QED
    BY <1>2, <2>1, <2>2, <2>5, BuildingGoesOn
<1>8. CASE Goto(p, "load") /\ UNCHANGED loop
  <2>1. pc'[p] = "load" /\ lo' = lo
    BY <1>1, <1>8 DEF Goto, TypeOK, loop
  <2>2. \A q \in Procs \ {p} : Same(q)
    BY <1>1, <1>2, <1>8 DEF Goto, TypeOK, Same, loop
  <2>3. ~Stacking(p)' /\ ~Looping(p)'
    BY <2>1 DEF Stacking, Looping
  <2>4. ProgramFits(p)'
    BY <1>2, <1>3, <1>6, <2>1, <2>3 DEF ProgramFits, Limit
  <2> QED
    BY <1>2, <2>1, <2>2, <2>4, BuildingGoesOn
<1> QED
  BY <1>4, <1>5, <1>7, <1>8 DEF Segment, Limit

LEMMA LimitTyped ==
    ASSUME NEW s \in Seq(Segments), NEW j \in 1..Len(s)
    PROVE  Limit(s[j]) \in Nat
<1>1. s[j] \in Segments
  OBVIOUS
<1> QED
  BY <1>1 DEF Segments, Limit

LEMMA SegmentDoneImages ==
    ASSUME ImageInv, NEW p \in Procs, SegmentDone(p), SpaceInv'
    PROVE  ImageInv' /\ \A r \in Procs : ImageStep(r)
<1>1. /\ TypeOK /\ ExecFits(p) /\ prog \in [Procs -> Seq(Segments)]
      /\ prog[p] \in Seq(Segments) /\ segs[p] \in Seq(Segments)
      /\ Building(p) => ProgramFits(p)
  BY ImageParts, SpaceParts
<1>2. /\ pc[p] = "alloc" /\ op[p] = "exec" /\ segs[p] # <<>> /\ Looping(p)
      /\ page' = page /\ pgdir' = pgdir /\ sz' = sz /\ op' = op /\ child' = child
      /\ segs' = segs /\ prog' = prog /\ d' = d /\ mem' = mem /\ hi' = hi /\ a' = a
      /\ lo' = [lo EXCEPT ![p] = hi[p]]
  BY DEF SegmentDone, memory, image, call, Looping
<1>3. ProgramFits(p) /\ ~Stacking(p)
  BY <1>1, <1>2 DEF Building, Stacking
<1>4. \A q \in Procs \ {p} : Same(q)
  BY <1>1, <1>2 DEF SegmentDone, Goto, TypeOK, Same
<1>5. CASE hi[p] = 0
  <2>1. pc'[p] = "freevm"
    BY <1>1, <1>5 DEF SegmentDone, Goto, TypeOK
  <2>2. Resting(p)'
    BY <2>1 DEF Resting, Looping, Building
  <2> QED
    BY <1>1, <1>2, <1>4, <2>2, QuietStep
<1>6. CASE hi[p] # 0
  <2>1. pc'[p] = "load" /\ lo'[p] = hi[p] /\ hi[p] = End(p)
    BY <1>1, <1>2, <1>6 DEF SegmentDone, Goto, TypeOK, ExecFits
  <2>2. ~Stacking(p)' /\ ~Looping(p)'
    BY <2>1 DEF Stacking, Looping
  <2>3. Done(p)' = Done(p) /\ End(p)' = End(p)
    BY <1>2 DEF Done, End, Limit
  <2>4. ASSUME NEW j \in 1..Done(p) PROVE Limit(prog[p][j]) <= hi[p]
    <3>1. Done(p) \in 0..Len(prog[p]) /\ Len(prog[p]) \in Nat
      BY <1>1, <1>3, DonePart
    <3>2. j \in 1..Len(prog[p])
      BY <3>1
    <3>3. Limit(prog[p][j]) \in Nat /\ lo[p] \in Nat /\ hi[p] \in Nat
      BY <1>1, <3>2, LimitTyped, ProcTypes
    <3>4. Limit(prog[p][j]) <= lo[p] /\ lo[p] <= hi[p]
      BY <1>2, <1>3 DEF ProgramFits
    <3> QED
      BY <3>3, <3>4
  <2>5. ProgramFits(p)'
    BY <1>2, <1>3, <2>1, <2>2, <2>3, <2>4 DEF ProgramFits, Limit
  <2> QED
    BY <1>2, <1>4, <2>1, <2>5, BuildingGoesOn
<1> QED
  BY <1>5, <1>6

(* The largest limit of the segments. *)
LEMMA TopOf ==
    ASSUME NEW s \in Seq(Segments), NEW l \in Nat,
           \A j \in 1..Len(s) : Limit(s[j]) <= l,
           l = 0 \/ \E j \in 1..Len(s) : l = Limit(s[j])
    PROVE  Top(s) = PgRoundUp(l)
<1> DEFINE S == {Limit(s[k]) : k \in DOMAIN s} \cup {0}
           Most(e) == \A k \in DOMAIN s : Limit(s[k]) <= e
<1>1. DOMAIN s = 1..Len(s) /\ \A k \in DOMAIN s : Limit(s[k]) \in Nat
  BY LimitTyped
<1>2. l \in S /\ Most(l)
  BY <1>1
<1>3. ASSUME NEW e \in S, Most(e) PROVE e = l
  <2>1. e \in Nat /\ e <= l
    BY <1>1
  <2>2. l <= e
    BY <1>1, <1>3, <2>1
  <2> QED
    BY <2>1, <2>2
<1>4. (CHOOSE e \in S : Most(e)) = l
  BY <1>2, <1>3
<1> QED
  BY <1>4 DEF Top

LEMMA StackImages ==
    ASSUME ImageInv, NEW p \in Procs, Stack(p), SpaceInv'
    PROVE  ImageInv' /\ \A r \in Procs : ImageStep(r)
<1>1. /\ TypeOK /\ CallFits(p) /\ prog \in [Procs -> Seq(Segments)]
      /\ prog[p] \in Seq(Segments) /\ segs[p] \in Seq(Segments)
      /\ Building(p) => ProgramFits(p)
  BY ImageParts, SpaceParts
<1>2. /\ pc[p] = "segment" /\ op[p] = "exec" /\ segs[p] = <<>>
      /\ page' = page /\ pgdir' = pgdir /\ sz' = sz /\ op' = op /\ child' = child
      /\ segs' = segs /\ prog' = prog /\ d' = d /\ mem' = mem
  BY <1>1 DEF Stack, CallFits, memory, image, call
<1>3. ProgramFits(p) /\ ~Stacking(p)
  BY <1>1, <1>2 DEF Building, Stacking, Looping
<1>4. PICK k : k = PgRoundUp(lo[p])
  OBVIOUS
<1>5. PICK top : top = k * PgSize
  OBVIOUS
<1>6. k \in Nat /\ top \in Nat /\ lo[p] \in Nat /\ lo[p] <= top /\ PgRoundUp(top) = k
  <2>1. lo[p] \in Nat /\ k \in Nat
    BY <1>1, <1>4, ProcTypes, RoundUp
  <2>2. \A m \in Nat : m * PgSize \in Nat
    BY Sizes
  <2>3. top \in Nat
    BY <1>5, <2>1, <2>2
  <2>4. ~(k * PgSize < lo[p])
    BY <1>4, <2>1, RoundUp
  <2> QED
    BY <1>5, <2>1, <2>3, <2>4, RoundUpExact
<1>7. Done(p) = Len(prog[p]) /\ Len(prog[p]) \in Nat
  BY <1>1, <1>2 DEF Done
<1>8. Top(prog[p]) = k
  <2>1. \A j \in 1..Len(prog[p]) : Limit(prog[p][j]) <= lo[p]
    BY <1>3, <1>7 DEF ProgramFits
  <2>2. lo[p] = 0 \/ \E j \in 1..Len(prog[p]) : lo[p] = Limit(prog[p][j])
    BY <1>2, <1>3, <1>7 DEF ProgramFits
  <2> QED
    BY <1>1, <1>4, <1>6, <2>1, <2>2, TopOf
<1>9. CASE Goto(p, "freevm") /\ UNCHANGED loop
  <2>1. PICK s \in {"dealloc", "drop", "fail", "freevm"} : s = "freevm"
    OBVIOUS
  <2>2. Goto(p, s) /\ UNCHANGED <<page, pgdir, sz, op, child, segs, prog, d, lo, hi, a, mem>>
    BY <1>2, <1>9, <2>1 DEF loop
  <2> QED
    BY <2>2, QuietGoto
<1>10. CASE /\ lo' = [lo EXCEPT ![p] = top]
            /\ hi' = [hi EXCEPT ![p] = top + 2 * PgSize]
            /\ a' = [a EXCEPT ![p] = AllocFrom(top)]
            /\ Goto(p, "alloc")
  <2>1. /\ pc'[p] = "alloc" /\ lo'[p] = top /\ hi'[p] = top + 2 * PgSize /\ a'[p] = k
        /\ \A q \in Procs \ {p} : Same(q)
    BY <1>1, <1>2, <1>6, <1>10 DEF Goto, TypeOK, AllocFrom, Same
  <2>2. Stacking(p)' /\ Done(p)' = Done(p) /\ Top(prog[p])' = Top(prog[p])
    BY <1>2, <2>1 DEF Stacking, Looping, Done, Top, Limit, PgRoundUp
  <2>3. lo'[p] <= hi'[p] /\ PgRoundUp(lo[p])' <= a'[p]
    <3>1. 2 * PgSize \in Nat
      BY Sizes
    <3>2. PgRoundUp(lo[p])' = PgRoundUp(top)
      BY <2>1 DEF PgRoundUp
    <3> QED
      BY <1>6, <2>1, <3>1, <3>2
  <2>4. ASSUME NEW j \in 1..Done(p) PROVE Limit(prog[p][j]) <= top
    <3>1. Limit(prog[p][j]) \in Nat /\ Limit(prog[p][j]) <= lo[p]
      BY <1>1, <1>3, <1>7, LimitTyped DEF ProgramFits
    <3> QED
      BY <1>6, <3>1
  <2>5. ProgramFits(p)'
    BY <1>2, <1>3, <1>5, <1>6, <1>8, <2>1, <2>2, <2>3, <2>4 DEF ProgramFits, Limit
  <2> QED
    BY <1>2, <2>1, <2>5, BuildingGoesOn
<1> QED
  BY <1>4, <1>5, <1>9, <1>10 DEF Stack

(* The last segment to load a page wins. *)
LEMMA ContentNext ==
    ASSUME NEW s, NEW n \in Nat, NEW v
    PROVE  Content(s, n + 1, v) =
             IF v \in Loaded(s[n + 1]) THEN s[n + 1].data ELSE Content(s, n, v)
<1>1. \A k : k \in 1..(n + 1) <=> k \in 1..n \/ k = n + 1
  OBVIOUS
<1>2. CASE v \in Loaded(s[n + 1])
  <2>1. n + 1 \in Loads(s, n + 1, v) /\ \A j \in Loads(s, n + 1, v) : j \in Int /\ j <= n + 1
    BY <1>1, <1>2 DEF Loads
  <2>2. \A k \in Loads(s, n + 1, v) :
           (\A j \in Loads(s, n + 1, v) : j <= k) => k = n + 1
    BY <2>1
  <2>3. Latest(Loads(s, n + 1, v)) = n + 1
    BY <2>1, <2>2 DEF Latest
  <2> QED
    BY <1>2, <2>1, <2>3 DEF Content
<1>3. CASE v \notin Loaded(s[n + 1])
  <2>1. Loads(s, n + 1, v) = Loads(s, n, v)
    BY <1>1, <1>3 DEF Loads
  <2>2. Content(s, n + 1, v) = Content(s, n, v)
    BY <2>1 DEF Content
  <2> QED
    BY <1>3, <2>2
<1> QED
  BY <1>2, <1>3

(* What is left to load is the end of the program. *)
LEMMA NextSegment ==
    ASSUME NEW s \in Seq(Segments), NEW t \in Seq(Segments), t # <<>>, Len(t) <= Len(s),
           \A i \in 1..Len(t) : t[i] = s[Len(s) - Len(t) + i]
    PROVE  /\ Tail(t) \in Seq(Segments) /\ Len(Tail(t)) \in Nat /\ Len(s) \in Nat
           /\ Len(Tail(t)) <= Len(s)
           /\ Len(s) - Len(t) \in Nat
           /\ Len(s) - Len(Tail(t)) = (Len(s) - Len(t)) + 1
           /\ Head(t) = s[(Len(s) - Len(t)) + 1]
           /\ \A i \in 1..Len(Tail(t)) : Tail(t)[i] = s[Len(s) - Len(Tail(t)) + i]
<1>1. PICK m, n : m = Len(s) /\ n = Len(t)
  OBVIOUS
<1>2. m \in Nat /\ n \in Nat /\ n # 0 /\ n <= m
  BY <1>1
<1>3. /\ Tail(t) \in Seq(Segments) /\ Len(Tail(t)) = n - 1 /\ Head(t) = t[1]
      /\ \A i \in 1..(n - 1) : Tail(t)[i] = t[i + 1]
  BY <1>1
<1>4. Head(t) = s[(m - n) + 1]
  <2>1. 1 \in 1..n
    BY <1>2
  <2> QED
    BY <1>1, <1>3, <2>1
<1>5. ASSUME NEW i \in 1..(n - 1) PROVE Tail(t)[i] = s[m - (n - 1) + i]
  <2>1. i + 1 \in 1..n /\ m - n + (i + 1) = m - (n - 1) + i
    BY <1>2
  <2>2. t[i + 1] = s[m - n + (i + 1)]
    BY <1>1, <2>1
  <2> QED
    BY <1>3, <2>1, <2>2
<1>6. n - 1 \in Nat /\ n - 1 <= m /\ m - n \in Nat /\ m - (n - 1) = (m - n) + 1
  BY <1>2
<1> QED
  BY <1>1, <1>2, <1>3, <1>4, <1>5, <1>6

(* What a segment occupies lies below its limit. *)
LEMMA LoadedBelow ==
    ASSUME SpaceInv, NEW p \in Procs, pc[p] = "load"
    PROVE  Loaded(Head(segs[p])) \subseteq Mapped(d[p])
<1>1. TypeOK /\ ExecFits(p) /\ segs \in [Procs -> Seq(Segments)]
  BY SpaceParts
<1>2. PICK s : s = Head(segs[p])
  OBVIOUS
<1>3. /\ Mapped(d[p]) = Below(lo[p]) /\ s.vaddr \in Nat /\ s.filesz \in Nat
      /\ s.memsz \in Nat /\ lo[p] \in Nat /\ s.vaddr + s.filesz <= lo[p]
  <2>1. segs[p] # <<>> /\ Mapped(d[p]) = Below(lo[p]) /\ End(p) <= lo[p] /\ s.filesz <= s.memsz
    BY <1>1, <1>2 DEF ExecFits
  <2> QED
    BY <1>1, <1>2, <2>1, HeadOf, ProcTypes
<1>4. ASSUME NEW v \in UserPages, NEW y \in Nat, y = v * PgSize, y < s.vaddr + s.filesz
      PROVE  y < lo[p]
  BY <1>3, <1>4
<1>5. \A v \in UserPages : v * PgSize \in Nat
  BY Sizes DEF UserPages
<1>6. Loaded(s) \subseteq Below(lo[p])
  BY <1>4, <1>5 DEF Loaded, Below
<1> QED
  BY <1>2, <1>3, <1>6

(* The pages L of the tree of x get the content c. *)
Puts(x, L, c) ==
    page' = [g \in Pages |-> IF \E v \in L : Walk(x, v).pg = g THEN c ELSE page[g]]

(* loaduvm and copyout write to their pages and to no other.               *)
LEMMA DataSeen ==
    ASSUME SpaceInv, NEW p \in Procs, NEW x, x = d[p], x # None, NEW L, NEW c,
           L \subseteq Mapped(x),
           Puts(x, L, c),
           free' = free, mem' = mem, d' = d, pgdir' = pgdir
    PROVE  /\ Written(p)
           /\ Mapped(x)' = Mapped(x)
           /\ \A v \in Mapped(x) :
                 Seen(x, v)' = <<IF v \in L THEN c ELSE Seen(x, v)[1],
                                 Seen(x, v)[2]>>
<1>1. MemInv /\ x \in Dirs
  BY SpaceMem, DirInUse
<1>2. ASSUME NEW v \in Mapped(x) PROVE Walk(x, v).pg \in Leaves
  BY <1>1, WalkTypes, MappedPages
<1>3. DOMAIN page' = Pages /\ \A g \in Pages \ Leaves : page'[g] = page[g]
  BY <1>2 DEF Puts
<1>4. TreeKept(x)
  <2>1. MemInv' /\ \A e \in Dirs : TreeKept(e)
    BY <1>1, <1>3, DataWritten
  <2> QED
    BY <1>1, <2>1
<1>5. Mapped(x)' = Mapped(x)
  BY <1>1, <1>4, KeptMapped
<1>6. Written(p)
  <2>1. ASSUME NEW g \in Pages, page'[g] # page[g] PROVE OfTree(x, g)
    BY <2>1 DEF OfTree, Puts
  <2> QED
    BY <2>1 DEF Written
<1>7. ASSUME NEW v \in Mapped(x)
      PROVE  Seen(x, v)' = <<IF v \in L THEN c ELSE Seen(x, v)[1], Seen(x, v)[2]>>
  <2>1. PICK w : w = Walk(x, v)
    OBVIOUS
  <2>2. Walk(x, v)' = w
    BY <1>1, <1>4, <2>1, KeptWalk, MappedPages
  <2>3. w.pg \in Pages
    BY <1>1, <1>2, <2>1, MemParts DEF PagesApart
  <2>4. (\E u \in L : Walk(x, u).pg = w.pg) <=> v \in L
    <3>1. ASSUME NEW u \in L, Walk(x, u).pg = w.pg PROVE u = v
      BY <1>1, <2>1, <3>1, DataApart
    <3> QED
      BY <2>1, <3>1
  <2>5. page'[w.pg] = IF v \in L THEN c ELSE page[w.pg]
    BY <2>3, <2>4 DEF Puts
  <2>6. Seen(x, v)' = <<page'[w.pg], w.user>>
    BY <2>2 DEF Seen
  <2>7. Seen(x, v) = <<page[w.pg], w.user>>
    BY <2>1 DEF Seen
  <2> QED
    BY <2>5, <2>6, <2>7
<1> QED
  BY <1>5, <1>6, <1>7

LEMMA LoadImages ==
    ASSUME ImageInv, NEW p \in Procs, Load(p), SpaceInv'
    PROVE  ImageInv' /\ \A r \in Procs : ImageStep(r)
<1>1. /\ SpaceInv /\ MemInv /\ TypeOK /\ ExecFits(p) /\ prog \in [Procs -> Seq(Segments)]
      /\ prog[p] \in Seq(Segments) /\ segs \in [Procs -> Seq(Segments)]
      /\ segs[p] \in Seq(Segments)
      /\ CallFits(p) /\ ImageFits(p) /\ (Building(p) => ProgramFits(p))
  BY ImageParts, SpaceParts
<1>2. PICK x : x = d[p]
  OBVIOUS
<1>3. PICK s : s = Head(segs[p])
  OBVIOUS
<1>4. /\ pc[p] = "load" /\ op[p] = "exec" /\ segs[p] # <<>> /\ ProgramFits(p)
      /\ End(p) <= lo[p] /\ s.filesz <= s.memsz
  BY <1>1, <1>3 DEF Load, CallFits, ExecFits, Building
<1>5. x # None /\ pgdir[p] # x
  BY <1>1, <1>2, <1>4, ExecHolds
<1>6. /\ free' = free /\ pgdir' = pgdir /\ sz' = sz /\ op' = op /\ child' = child /\ d' = d
      /\ lo' = lo /\ hi' = hi /\ a' = a /\ mem' = mem /\ prog' = prog
  BY DEF Load, image, loop
<1>7. Loaded(s) \subseteq Mapped(x)
  BY <1>1, <1>2, <1>3, <1>4, LoadedBelow
<1>8. CASE Goto(p, "freevm") /\ UNCHANGED <<page, segs>>
  <2>1. PICK c \in {"dealloc", "drop", "fail", "freevm"} : c = "freevm"
    OBVIOUS
  <2>2. Goto(p, c) /\ UNCHANGED <<page, pgdir, sz, op, child, segs, prog, d, lo, hi, a, mem>>
    BY <1>6, <1>8, <2>1
  <2> QED
    BY <2>2, QuietGoto
<1>9. CASE /\ page' = [g \in Pages |->
                         IF \E v \in Loaded(s) : Walk(x, v).pg = g THEN s.data ELSE page[g]]
           /\ Goto(p, "segment")
           /\ segs' = [segs EXCEPT ![p] = Tail(@)]
  <2>1. /\ Written(p)
        /\ Mapped(x)' = Mapped(x)
        /\ \A v \in Mapped(x) :
              Seen(x, v)' = <<IF v \in Loaded(s) THEN s.data ELSE Seen(x, v)[1], Seen(x, v)[2]>>
    <3>1. Puts(x, Loaded(s), s.data)
      BY <1>9 DEF Puts
    <3>2. SpaceInv /\ x = d[p] /\ x # None /\ Loaded(s) \subseteq Mapped(x)
      BY <1>1, <1>2, <1>5, <1>7
    <3>3. free' = free /\ mem' = mem /\ d' = d /\ pgdir' = pgdir
      BY <1>6
    <3> QED
      BY <3>1, <3>2, <3>3, DataSeen
  <2>2. /\ pc'[p] = "segment" /\ segs'[p] = Tail(segs[p])
        /\ \A q \in Procs \ {p} : Same(q)
    BY <1>1, <1>6, <1>9 DEF Goto, TypeOK, Same
  <2>3. PICK n : n = Done(p)
    OBVIOUS
  <2>4. /\ n \in Nat /\ Done(p)' = n + 1 /\ s = prog[p][n + 1]
        /\ Len(segs'[p]) <= Len(prog[p])
        /\ \A i \in 1..Len(segs'[p]) : segs'[p][i] = prog[p][n + 1 + i]
    <3>1. /\ Len(segs[p]) <= Len(prog[p])
          /\ \A i \in 1..Len(segs[p]) : segs[p][i] = prog[p][Len(prog[p]) - Len(segs[p]) + i]
      BY <1>4 DEF ProgramFits, Done
    <3>2. /\ Len(Tail(segs[p])) <= Len(prog[p])
          /\ Len(prog[p]) - Len(segs[p]) \in Nat
          /\ Len(prog[p]) - Len(Tail(segs[p])) = (Len(prog[p]) - Len(segs[p])) + 1
          /\ Head(segs[p]) = prog[p][(Len(prog[p]) - Len(segs[p])) + 1]
          /\ \A i \in 1..Len(Tail(segs[p])) :
                Tail(segs[p])[i] = prog[p][Len(prog[p]) - Len(Tail(segs[p])) + i]
      BY <1>1, <1>4, <3>1, NextSegment
    <3> QED
      BY <1>3, <1>6, <2>2, <2>3, <3>2 DEF Done
  <2>5. ~Looping(p)' /\ ~Stacking(p)'
    BY <2>2 DEF Looping, Stacking
  <2>6. ASSUME NEW v \in Mapped(x)
        PROVE  Seen(x, v)' = <<Content(prog[p], n + 1, v), TRUE>>
    <3>1. Seen(x, v) = <<Content(prog[p], n, v), TRUE>>
      BY <1>1, <1>2, <1>4, <2>3, <2>6 DEF ImageFits
    <3>2. Content(prog[p], n + 1, v) =
            IF v \in Loaded(s) THEN s.data ELSE Content(prog[p], n, v)
      BY <2>4, ContentNext
    <3>3. Seen(x, v)[1] = Content(prog[p], n, v) /\ Seen(x, v)[2] = TRUE
      BY <3>1
    <3>4. Seen(x, v)' = <<IF v \in Loaded(s) THEN s.data ELSE Seen(x, v)[1], Seen(x, v)[2]>>
      BY <2>1, <2>6
    <3> QED
      BY <3>2, <3>3, <3>4
  <2>7. ImageFits(p)'
    <3>1. /\ Mapped(d[p])' = Mapped(x)'
          /\ \A v \in UserPages : Seen(d[p], v)' = Seen(x, v)'
      BY <1>2, <1>6 DEF Mapped, Seen, Walk, Table
    <3> QED
      BY <1>4, <1>6, <2>1, <2>2, <2>4, <2>5, <2>6, <3>1, MappedPages DEF ImageFits
  <2>8. ProgramFits(p)'
    <3>1. \A j : j \in 1..(n + 1) <=> j \in 1..n \/ j = n + 1
      BY <2>4
    <3>2. \A j \in 1..(n + 1) :
             prog[p][j].filesz <= prog[p][j].memsz /\ Limit(prog[p][j]) <= lo[p]
      BY <1>3, <1>4, <2>3, <2>4, <3>1 DEF ProgramFits, End
    <3>3. lo[p] = 0 \/ \E j \in 1..(n + 1) : lo[p] = Limit(prog[p][j])
      <4>1. ~Stacking(p)
        BY <1>4 DEF Stacking, Looping
      <4>2. \/ lo[p] = 0
            \/ lo[p] = End(p)
            \/ \E j \in 1..n : lo[p] = Limit(prog[p][j])
        BY <1>4, <2>3, <4>1 DEF ProgramFits
      <4>3. End(p) = Limit(prog[p][n + 1])
        BY <1>3, <2>4 DEF End
      <4> QED
        BY <3>1, <4>2, <4>3
    <3> QED
      BY <1>6, <2>4, <2>5, <3>2, <3>3 DEF ProgramFits, Limit
  <2>9. ImageInv'
    BY <1>1, <1>6, <2>1, <2>2, <2>7, <2>8, ImageFrame
  <2> QED
    BY <1>1, <1>2, <1>5, <1>6, <2>1, <2>9, OthersImages
<1> QED
  BY <1>2, <1>3, <1>7, <1>8, <1>9 DEF Load, LoadPanics

(* The guard page and the stack are the two above the segments.            *)
LEMMA StackTop ==
    ASSUME ImageInv, NEW p \in Procs, op[p] = "exec", pc[p] = "alloc" \/ Stacking(p),
           segs[p] = <<>>, a[p] = PgRoundUp(hi[p])
    PROVE  /\ Top(prog[p]) \in Nat /\ a[p] = Top(prog[p]) + 2
           /\ Stacking(p) /\ ProgramFits(p)
           /\ hi[p] >= 2 * PgSize
           /\ Done(p) = Len(prog[p])
<1>1. TypeOK /\ prog[p] \in Seq(Segments) /\ (Building(p) => ProgramFits(p))
  BY ImageParts, SpaceParts
<1>2. Stacking(p) /\ ProgramFits(p)
  BY <1>1 DEF Stacking, Building, Looping
<1>3. PICK k : k = Top(prog[p])
  OBVIOUS
<1>4. k \in Nat /\ hi[p] = k * PgSize + 2 * PgSize
  BY <1>2, <1>3 DEF ProgramFits
<1>5. k + 2 \in Nat /\ k * PgSize \in Nat /\ 2 * PgSize \in Nat /\ (k + 2) * PgSize = k * PgSize + 2 * PgSize
  BY <1>4, Sizes
<1>6. a[p] = k + 2
  <2>1. PgRoundUp((k + 2) * PgSize) = k + 2
    BY <1>5, RoundUpExact
  <2> QED
    BY <1>4, <1>5, <2>1
<1>7. hi[p] >= 2 * PgSize
  BY <1>4, <1>5
<1>8. Done(p) = Len(prog[p])
  BY <1>1 DEF Done
<1> QED
  BY <1>2, <1>3, <1>4, <1>6, <1>7, <1>8

LEMMA GuardImages ==
    ASSUME ImageInv, NEW p \in Procs, Guard(p), SpaceInv'
    PROVE  ImageInv' /\ \A r \in Procs : ImageStep(r)
<1>1. /\ SpaceInv /\ MemInv /\ TypeOK /\ prog \in [Procs -> Seq(Segments)]
      /\ prog[p] \in Seq(Segments) /\ ImageFits(p) /\ DOMAIN page = Pages
  BY ImageParts, SpaceParts, MemParts DEF PageTypes
<1>2. PICK x : x = d[p]
  OBVIOUS
<1>3. /\ pc[p] = "alloc" /\ op[p] = "exec" /\ segs[p] = <<>> /\ Looping(p)
      /\ a[p] = PgRoundUp(hi[p])
  BY <1>1, LoopDone DEF Guard, Looping
<1>4. x # None /\ x \in Dirs /\ pgdir[p] # x
  BY <1>1, <1>2, <1>3, ExecHolds, DirInUse
<1>5. /\ pgdir' = pgdir /\ sz' = sz /\ op' = op /\ child' = child /\ d' = d
      /\ lo' = lo /\ hi' = hi /\ a' = a /\ mem' = mem /\ segs' = segs /\ prog' = prog
      /\ Goto(p, "args")
  BY DEF Guard, image, call, loop
<1>6. PICK top : top = Top(prog[p])
  OBVIOUS
<1>7. /\ top \in Nat /\ a[p] = top + 2 /\ Stacking(p) /\ ProgramFits(p)
      /\ Done(p) = Len(prog[p])
  BY <1>3, <1>6, StackTop
<1>8. PICK v : v = a[p] - 2
  OBVIOUS
<1>9. v = top
  BY <1>7, <1>8
<1>10. /\ Mapped(x)' = Mapped(x)
       /\ v \in Mapped(x) /\ v \in UserPages
       /\ \A w \in UserPages :
             Walk(x, w)' = IF w = v THEN Pte(Walk(x, v).pg, FALSE) ELSE Walk(x, w)
       /\ \A g \in Leaves : page'[g] = page[g]
  <2>1. PICK u \in Mapped(x) :
           /\ u = a[p] - 2
           /\ \A w \in UserPages :
                 Walk(x, w)' = IF w = u THEN Pte(Walk(x, u).pg, FALSE) ELSE Walk(x, w)
    BY <1>1, <1>2, GuardEffect
  <2>2. Mapped(x)' = Mapped(x) /\ \A g \in Leaves : page'[g] = page[g]
    BY <1>1, <1>2, GuardEffect
  <2>3. u = v
    BY <1>8, <2>1
  <2> QED
    BY <2>1, <2>2, <2>3, MappedPages
<1>11. Written(p)
  <2>1. PICK t : t = Table(x, v)
    OBVIOUS
  <2>2. PICK k : k = v % PerTable
    OBVIOUS
  <2>3. page' = [page EXCEPT ![t][k].user = FALSE]
    BY <1>2, <1>8, <2>1, <2>2 DEF Guard
  <2>4. \A g \in Pages : g # t => page'[g] = page[g]
    BY <1>1, <2>3
  <2>5. OfTree(x, t)
    BY <1>4, <1>10, <2>1, Slots DEF OfTree, Table
  <2> QED
    BY <1>2, <2>4, <2>5 DEF Written
<1>12. ASSUME NEW w \in Mapped(x)
       PROVE  Seen(x, w)' = <<Content(prog[p], Len(prog[p]), w), w # top>>
  <2>1. PICK e : e = Walk(x, w)
    OBVIOUS
  <2>2. e \in Entries /\ e.pg \in Leaves
    BY <1>1, <1>4, <2>1, WalkTypes, MappedPages
  <2>3. Seen(x, w) = <<Content(prog[p], Len(prog[p]), w), TRUE>>
    BY <1>1, <1>2, <1>3, <1>7 DEF ImageFits
  <2>4. Seen(x, w) = <<page[e.pg], e.user>>
    BY <2>1 DEF Seen
  <2>5. page[e.pg] = Content(prog[p], Len(prog[p]), w) /\ e.user = TRUE
    <3>1. Seen(x, w)[1] = Content(prog[p], Len(prog[p]), w) /\ Seen(x, w)[2] = TRUE
      BY <2>3
    <3>2. Seen(x, w)[1] = page[e.pg] /\ Seen(x, w)[2] = e.user
      BY <2>4
    <3> QED
      BY <3>1, <3>2
  <2>6. PICK f : f = Walk(x, w)'
    OBVIOUS
  <2>7. f.pg = e.pg /\ f.user = (w # v)
    <3>1. CASE w = v
      <4>1. f = Pte(e.pg, FALSE)
        BY <1>10, <2>1, <2>6, <3>1
      <4> QED
        BY <3>1, <4>1 DEF Pte
    <3>2. CASE w # v
      <4>1. f = e
        BY <1>10, <2>1, <2>6, <3>2, MappedPages
      <4> QED
        BY <2>5, <3>2, <4>1
    <3> QED
      BY <3>1, <3>2
  <2>8. Seen(x, w)' = <<page'[f.pg], f.user>>
    BY <2>6 DEF Seen
  <2>9. page'[f.pg] = page[e.pg]
    BY <1>10, <2>2, <2>7
  <2> QED
    BY <1>9, <2>5, <2>7, <2>8, <2>9
<1>13. /\ pc'[p] = "args" /\ Stacking(p)' /\ ~Looping(p)'
       /\ \A q \in Procs \ {p} : Same(q) /\ prog'[q] = prog[q]
  BY <1>1, <1>5 DEF Guard, Goto, TypeOK, Same, Stacking, Looping
<1>14. ImageFits(p)'
  <2>1. /\ Mapped(d[p])' = Mapped(x)'
        /\ \A w \in UserPages : Seen(d[p], w)' = Seen(x, w)'
    BY <1>2, <1>5 DEF Mapped, Seen, Walk, Table
  <2>2. Top(prog[p])' = top
    BY <1>5, <1>6 DEF Top, Limit, PgRoundUp
  <2> QED
    BY <1>5, <1>10, <1>12, <1>13, <2>1, <2>2, MappedPages DEF ImageFits
<1>15. ProgramFits(p)'
  BY <1>3, <1>5, <1>7, <1>13, ProgramSame
<1>16. ImageInv'
  BY <1>1, <1>5, <1>11, <1>13, <1>14, <1>15, ImageFrame
<1> QED
  BY <1>1, <1>2, <1>4, <1>5, <1>11, <1>16, OthersImages

LEMMA PushArgsImages ==
    ASSUME ImageInv, NEW p \in Procs, PushArgs(p), SpaceInv'
    PROVE  ImageInv' /\ \A r \in Procs : ImageStep(r)
<1>1. /\ SpaceInv /\ MemInv /\ TypeOK /\ CallFits(p) /\ ExecFits(p)
      /\ prog \in [Procs -> Seq(Segments)] /\ prog[p] \in Seq(Segments)
      /\ ImageFits(p) /\ (Building(p) => ProgramFits(p)) /\ DOMAIN page = Pages
  BY ImageParts, SpaceParts, MemParts DEF PageTypes
<1>2. PICK x : x = d[p]
  OBVIOUS
<1>3. /\ pc[p] = "args" /\ op[p] = "exec" /\ Stacking(p) /\ ProgramFits(p) /\ segs[p] = <<>>
      /\ a[p] = PgRoundUp(hi[p]) /\ Mapped(x) = Below(hi[p])
  BY <1>1, <1>2 DEF PushArgs, CallFits, ExecFits, Stacking, Building, ProgramFits
<1>4. x # None /\ x \in Dirs /\ pgdir[p] # x
  BY <1>1, <1>2, <1>3, ExecHolds, DirInUse
<1>5. /\ free' = free /\ pgdir' = pgdir /\ sz' = sz /\ op' = op /\ child' = child /\ d' = d
      /\ lo' = lo /\ hi' = hi /\ a' = a /\ mem' = mem /\ segs' = segs /\ prog' = prog
  BY DEF PushArgs, image, call, loop
<1>6. PICK top : top = Top(prog[p])
  OBVIOUS
<1>7. PICK v : v = a[p] - 1
  OBVIOUS
<1>8. top \in Nat /\ v = top + 1 /\ a[p] = top + 2 /\ hi[p] >= 2 * PgSize
  BY <1>3, <1>6, <1>7, StackTop
<1>9. v \in UserPages /\ v \in Mapped(x)
  BY <1>1, <1>2, <1>3, <1>7, <1>8, StackPages
<1>10. CASE Goto(p, "freevm") /\ UNCHANGED page
  <2>1. PICK c \in {"dealloc", "drop", "fail", "freevm"} : c = "freevm"
    OBVIOUS
  <2>2. Goto(p, c) /\ UNCHANGED <<page, pgdir, sz, op, child, segs, prog, d, lo, hi, a, mem>>
    BY <1>5, <1>10, <2>1
  <2> QED
    BY <2>2, QuietGoto
<1>11. CASE /\ page' = [page EXCEPT ![Walk(x, v).pg] = Args]
            /\ Goto(p, "commit")
  <2>1. PICK L : L = {v}
    OBVIOUS
  <2>2. Puts(x, L, Args)
    BY <1>1, <1>11, <2>1 DEF Puts
  <2>3. /\ Written(p)
        /\ Mapped(x)' = Mapped(x)
        /\ \A u \in Mapped(x) :
              Seen(x, u)' = <<IF u \in L THEN Args ELSE Seen(x, u)[1], Seen(x, u)[2]>>
    <3>1. SpaceInv /\ x = d[p] /\ x # None /\ L \subseteq Mapped(x)
      BY <1>1, <1>2, <1>4, <1>9, <2>1
    <3>2. free' = free /\ mem' = mem /\ d' = d /\ pgdir' = pgdir
      BY <1>5
    <3>3. PICK c : c = Args
      OBVIOUS
    <3>4. Puts(x, L, c)
      BY <2>2, <3>3
    <3>5. /\ Written(p)
          /\ Mapped(x)' = Mapped(x)
          /\ \A u \in Mapped(x) :
                Seen(x, u)' = <<IF u \in L THEN c ELSE Seen(x, u)[1], Seen(x, u)[2]>>
      BY <3>1, <3>2, <3>4, DataSeen
    <3> QED
      BY <3>3, <3>5
  <2>4. /\ pc'[p] = "commit" /\ Stacking(p)' /\ ~Looping(p)'
        /\ \A q \in Procs \ {p} : Same(q) /\ prog'[q] = prog[q]
    BY <1>1, <1>5, <1>11 DEF Goto, TypeOK, Same, Stacking, Looping
  <2>5. ASSUME NEW w \in Mapped(x)
        PROVE  Seen(x, w)' = ExecImage(prog[p])[w]
    <3>1. w \in 0..(top + 1)
      <4>1. hi[p] \in Nat
        BY <1>1, ProcTypes
      <4>2. w \in UserPages /\ w < top + 2
        BY <1>3, <1>8, <4>1, BelowRoundUp DEF Upto
      <4> QED
        BY <1>8, <4>2, Sizes DEF UserPages
    <3>2. ExecImage(prog[p])[w] =
            <<IF w > top THEN Args ELSE Content(prog[p], Len(prog[p]), w), w # top>>
      BY <1>6, <3>1 DEF ExecImage
    <3>3. Seen(x, w) = <<Content(prog[p], Len(prog[p]), w), w # top>>
      BY <1>1, <1>2, <1>3, <1>6 DEF ImageFits
    <3>4. Seen(x, w)[1] = Content(prog[p], Len(prog[p]), w) /\ Seen(x, w)[2] = (w # top)
      BY <3>3
    <3>5. w \in L <=> w > top
      BY <1>8, <2>1, <3>1
    <3>6. Seen(x, w)' = <<IF w \in L THEN Args ELSE Seen(x, w)[1], Seen(x, w)[2]>>
      BY <2>3
    <3> QED
      BY <3>2, <3>4, <3>5, <3>6
  <2>6. ImageFits(p)'
    <3>1. /\ Mapped(d[p])' = Mapped(x)'
          /\ \A w \in UserPages : Seen(d[p], w)' = Seen(x, w)'
      BY <1>2, <1>5 DEF Mapped, Seen, Walk, Table
    <3>2. ExecImage(prog[p])' = ExecImage(prog[p])
      BY <1>5 DEF ExecImage, Content, Loads, Loaded, Top, Limit, PgRoundUp
    <3> QED
      BY <1>5, <2>3, <2>4, <2>5, <3>1, <3>2, MappedPages DEF ImageFits
  <2>7. ProgramFits(p)'
    BY <1>3, <1>5, <2>4, ProgramSame
  <2>8. ImageInv'
    BY <1>1, <1>5, <2>3, <2>4, <2>6, <2>7, ImageFrame
  <2> QED
    BY <1>1, <1>2, <1>4, <1>5, <2>3, <2>8, OthersImages
<1> QED
  BY <1>2, <1>7, <1>10, <1>11 DEF PushArgs

LEMMA CommitImages ==
    ASSUME ImageInv, NEW p \in Procs, Commit(p), SpaceInv'
    PROVE  ImageInv' /\ \A r \in Procs : ImageStep(r)
<1>1. /\ SpaceInv /\ TypeOK /\ CallFits(p) /\ ExecFits(p)
      /\ prog \in [Procs -> Seq(Segments)] /\ ImageFits(p) /\ (Building(p) => ProgramFits(p))
  BY ImageParts, SpaceParts
<1>2. PICK x : x = d[p]
  OBVIOUS
<1>3. /\ pc[p] = "commit" /\ op[p] = "exec" /\ Stacking(p) /\ segs[p] = <<>>
      /\ a[p] = PgRoundUp(hi[p]) /\ Mapped(x) = Below(hi[p])
  BY <1>1, <1>2 DEF Commit, CallFits, ExecFits, Stacking, Building, ProgramFits
<1>4. page' = page /\ prog' = prog
  BY DEF Commit, memory, call
<1>5. /\ pgdir'[p] = x /\ pc'[p] = "freevm"
      /\ \A q \in Procs \ {p} : Same(q) /\ prog'[q] = prog[q] /\ pgdir'[q] = pgdir[q]
  BY <1>1, <1>2, <1>4 DEF Commit, Goto, TypeOK, Same, call, loop
<1>6. Resting(p)'
  BY <1>5 DEF Resting, Looping, Building
<1>7. ImageInv'
  <2>1. Written(p)
    BY <1>4 DEF Written
  <2> QED
    BY <1>1, <1>4, <1>5, <1>6, <2>1, AtRest, ImageFrame
<1>8. Image(p)' = ExecImage(prog[p])
  <2>1. PICK top : top = Top(prog[p])
    OBVIOUS
  <2>2. top \in Nat /\ a[p] = top + 2
    BY <1>3, <2>1, StackTop
  <2>3. Mapped(x) = 0..(top + 1)
    <3>1. hi[p] \in Nat /\ a[p] <= UserTables * PerTable /\ UserTables * PerTable \in Nat
      BY <1>1, ProcTypes, Sizes
    <3>2. Mapped(x) = Upto(top + 2)
      BY <1>3, <2>2, <3>1, BelowRoundUp
    <3>3. PICK u : u = UserTables * PerTable
      OBVIOUS
    <3>4. UserPages = 0..(u - 1) /\ u \in Nat /\ top + 2 <= u
      BY <2>2, <3>1, <3>3 DEF UserPages
    <3> QED
      BY <2>2, <3>2, <3>4 DEF Upto
  <2>4. Mapped(x)' = Mapped(x) /\ \A w \in UserPages : Seen(x, w)' = Seen(x, w)
    BY <1>4 DEF Mapped, Seen, Walk, Table
  <2>5. Image(p)' = [w \in Mapped(x)' |-> Seen(x, w)']
    BY <1>5, ImageNext
  <2>6. \A w \in 0..(top + 1) : Seen(x, w)' = ExecImage(prog[p])[w]
    BY <1>1, <1>2, <1>3, <2>3, <2>4, MappedPages DEF ImageFits
  <2>7. ExecImage(prog[p]) = [w \in 0..(top + 1) |-> ExecImage(prog[p])[w]]
    BY <2>1 DEF ExecImage
  <2>8. Image(p)' = [w \in 0..(top + 1) |-> Seen(x, w)']
    BY <2>3, <2>4, <2>5
  <2> QED
    BY <2>6, <2>7, <2>8
<1>9. ImageStep(p)
  <2>1. pgdir[p] # None
    BY <1>1, <1>3 DEF CallFits
  <2> QED
    BY <1>3, <1>8, <2>1 DEF ImageStep
<1>10. \A r \in Procs \ {p} : ImageStep(r)
  BY <1>1, <1>4, <1>5, ImageStill
<1> QED
  BY <1>7, <1>9, <1>10

-----------------------------------------------------------------------------
LEMMA ImageInit ==
    ASSUME Init
    PROVE  ImageInv
<1>1. SpaceInv
  BY InitInv
<1>2. prog \in [Procs -> Seq(Segments)]
  BY DEF Init
<1>3. ASSUME NEW p \in Procs PROVE ImageFits(p) /\ ~Building(p)
  <2>1. op[p] = "none" /\ pc[p] \in {"user", "unused"}
    BY DEF Init
  <2> QED
    BY <2>1 DEF ImageFits, Building, Looping
<1> QED
  BY <1>1, <1>2, <1>3 DEF ImageInv

LEMMA ImageNextInv ==
    ASSUME ImageInv, [Next]_vars
    PROVE  ImageInv' /\ [\A p \in Procs : ImageStep(p)]_vars
<1>1. SpaceInv /\ SpaceInv'
  BY NextInv DEF ImageInv
<1>2. CASE UNCHANGED vars
  <2>1. /\ page' = page /\ pgdir' = pgdir /\ sz' = sz /\ pc' = pc /\ op' = op
        /\ child' = child /\ segs' = segs /\ prog' = prog /\ d' = d /\ lo' = lo /\ hi' = hi
        /\ a' = a /\ mem' = mem
    BY <1>2 DEF vars, memory, image, loop
  <2>2. ASSUME NEW q \in Procs PROVE ImageFits(q)' /\ (Building(q)' => ProgramFits(q)')
    <3>1. Same(q)
      BY <2>1 DEF Same
    <3>2. \A e \in Roots(q) : TreeKept(e) /\ DataKept(e)
      BY <2>1 DEF TreeKept, DataKept
    <3> QED
      BY <2>1, <3>1, <3>2, OtherImage
  <2>3. ImageInv'
    BY <1>1, <2>1, <2>2 DEF ImageInv
  <2> QED
    BY <1>2, <2>3
<1>3. ASSUME NEW p \in Procs,
             Call(p) \/ Setupkvm(p) \/ Allocuvm(p) \/ Deallocuvm(p) \/ Freevm(p) \/ ExecStep(p)
      PROVE  ImageInv' /\ \A r \in Procs : ImageStep(r)
  <2>1. CASE Call(p)
    BY <1>1, <2>1, ForkImages, ExecImages, SbrkImages, ExitImages DEF Call
  <2>2. CASE Setupkvm(p)
    BY <1>1, <2>2, KvmDirImages, KvmTableImages DEF Setupkvm
  <2>3. CASE Allocuvm(p)
    BY <1>1, <2>3, GetPageImages, MapImages, MapTableImages, ForkDoneImages, SbrkDoneImages
       DEF Allocuvm
  <2>4. CASE Deallocuvm(p)
    BY <1>1, <2>4, DeallocImages, SbrkDoneImages, AllocFailedImages, DropImages, FailImages
       DEF Deallocuvm
  <2>5. CASE Freevm(p)
    BY <1>1, <2>5, FreePageImages, FreeTableImages, FreeDirImages DEF Freevm
  <2>6. CASE ExecStep(p)
    BY <1>1, <2>6, SegmentImages, SegmentDoneImages, LoadImages, StackImages, GuardImages,
       PushArgsImages, CommitImages DEF ExecStep
  <2> QED
    BY <1>3, <2>1, <2>2, <2>3, <2>4, <2>5, <2>6
<1> QED
  BY <1>2, <1>3 DEF Next

(* What each call has built at each step is the image it promises so far.  *)
THEOREM ImageInvariant == Spec => []ImageInv
<1>1. Init => ImageInv
  BY ImageInit
<1>2. ImageInv /\ [Next]_vars => ImageInv'
  BY ImageNextInv
<1> QED
  BY <1>1, <1>2, PTL DEF Spec

(* A process finds its memory as it left it, whatever fails in its own     *)
(* call or in another's; only a whole exec replaces it, sbrk touches       *)
(* nothing below the smaller size, and fork's child starts with a copy.    *)
THEOREM ImagesStay == Spec => ImagesKept
<1>1. ImageInv /\ [Next]_vars => [\A p \in Procs : ImageStep(p)]_vars
  BY ImageNextInv
<1> QED
  BY <1>1, ImageInvariant, PTL DEF Spec, ImagesKept
===============================================================================

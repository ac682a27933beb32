---------------------------- MODULE KernelProofs ----------------------------
EXTENDS MCKernel, FiniteSetTheorems, SequenceTheorems, WellFoundedInduction, TLAPS

-----------------------------------------------------------------------------
(* sys_sleep *)

(* Modulo TickW the counter has gone as far as the count of interrupts.    *)
InStep(p) ==
    \E q \in Int : ticks - ticks0[p] = (count - since[p]) + TickW * q

SleepInv ==
    /\ ticks \in 0..(TickW - 1) /\ count \in Nat
    /\ tpc \in [Procs -> {"user", "test", "sleep", "asleep", "ok", "failed"}]
    /\ n \in [Procs -> Int] /\ ticks0 \in [Procs -> 0..(TickW - 1)]
    /\ since \in [Procs -> Nat] /\ killed \in [Procs -> BOOLEAN]
    /\ \A p \in Procs :
          /\ tpc[p] # "user" => since[p] <= count /\ InStep(p)
          /\ tpc[p] = "ok" => count - since[p] >= n[p] % TickW
          /\ tpc[p] = "failed" => killed[p]
          /\ tpc[p] \in {"sleep", "asleep"} => ~T!Due(p)

LEMMA SleepInitially == T!Init => SleepInv
<1> SUFFICES ASSUME T!Init PROVE SleepInv
  OBVIOUS
<1>1. ticks \in 0..(TickW - 1) /\ count = 0
  BY SleepAssumption DEF T!Init
<1>2. /\ tpc = [p \in Procs |-> "user"] /\ n \in [Procs -> Int]
      /\ ticks0 = [p \in Procs |-> 0] /\ since = [p \in Procs |-> 0]
      /\ killed = [p \in Procs |-> FALSE]
  BY SleepAssumption DEF T!Init
<1>3. ticks0 \in [Procs -> 0..(TickW - 1)]
  BY <1>2, SleepAssumption
<1> QED
  BY <1>1, <1>2, <1>3 DEF SleepInv

(* What the counter has gone, the interrupts have.                         *)
LEMMA TicksPassed ==
    ASSUME NEW a \in 0..(TickW - 1), NEW b \in 0..(TickW - 1), NEW c \in Nat,
           NEW q \in Int, a - b = c + TickW * q
    PROVE  (a - b) % TickW <= c
<1>1. TickW \in Nat \ {0} /\ TickW * q \in Int
  BY SleepAssumption
<1>2. CASE a >= b
  <2>1. (a - b) % TickW = a - b
    BY <1>1, <1>2
  <2>2. q >= 1 => TickW * q >= TickW
    BY <1>1
  <2>3. q <= 0 => TickW * q <= 0
    BY <1>1
  <2> QED
    BY <1>1, <2>1, <2>2, <2>3
<1>3. CASE a < b
  <2>1. (a - b) % TickW = (a - b) + TickW
    BY <1>1, <1>3
  <2>2. q >= 0 => TickW * q >= 0
    BY <1>1
  <2>3. q <= -1 => TickW * q <= -TickW
    BY <1>1
  <2> QED
    BY <1>1, <1>3, <2>1, <2>2, <2>3
<1> QED
  BY <1>2, <1>3

LEMMA DueInTime ==
    ASSUME SleepInv, NEW p \in Procs, tpc[p] # "user", T!Due(p)
    PROVE  count - since[p] >= n[p] % TickW
<1>1. /\ ticks \in 0..(TickW - 1) /\ ticks0[p] \in 0..(TickW - 1) /\ n[p] \in Int
      /\ count - since[p] \in Nat /\ InStep(p)
  BY DEF SleepInv
<1>2. (ticks - ticks0[p]) % TickW <= count - since[p]
  BY <1>1, TicksPassed DEF InStep
<1>3. (ticks - ticks0[p]) % TickW \in Int /\ n[p] % TickW \in Int
  BY <1>1, SleepAssumption
<1>4. (ticks - ticks0[p]) % TickW >= n[p] % TickW
  BY DEF T!Due
<1> QED
  BY <1>1, <1>2, <1>3, <1>4

LEMMA SleepTick ==
    ASSUME SleepInv, T!Tick
    PROVE  SleepInv'
<1>1. /\ ticks' = (ticks + 1) % TickW /\ count' = count + 1
      /\ tpc' = [p \in Procs |-> IF tpc[p] = "asleep" THEN "test" ELSE tpc[p]]
      /\ n' = n /\ ticks0' = ticks0 /\ since' = since /\ killed' = killed
      /\ \A p \in Procs : tpc[p] # "sleep"
  BY DEF T!Tick
<1>2. ticks' \in 0..(TickW - 1) /\ count' \in Nat
  BY <1>1, SleepAssumption DEF SleepInv
<1>3. tpc' \in [Procs -> {"user", "test", "sleep", "asleep", "ok", "failed"}]
  BY <1>1 DEF SleepInv
<1>4. ASSUME NEW p \in Procs, tpc'[p] # "user" PROVE InStep(p)'
  <2>1. /\ ticks \in 0..(TickW - 1) /\ ticks0[p] \in Int /\ count \in Nat
        /\ since[p] \in Int /\ tpc[p] # "user"
    BY <1>1, <1>4 DEF SleepInv
  <2>2. PICK q \in Int : ticks - ticks0[p] = (count - since[p]) + TickW * q
    BY <2>1 DEF SleepInv, InStep
  <2>3. TickW \in Nat \ {0} /\ TickW * q \in Int /\ TickW * (q - 1) = TickW * q - TickW
    BY SleepAssumption
  <2>4. ticks' = ticks + 1 \/ ticks' = ticks + 1 - TickW
    BY <1>1, <2>1, <2>3
  <2>5. \/ ticks' - ticks0[p] = (count' - since[p]) + TickW * q
        \/ ticks' - ticks0[p] = (count' - since[p]) + TickW * (q - 1)
    <3>1. PICK w \in Int : w = TickW * q
      BY <2>3
    <3>2. PICK a, b, c, d \in Int : a = ticks /\ b = ticks0[p] /\ c = count /\ d = since[p]
      BY <2>1
    <3>3. count' = c + 1 /\ (ticks' = a + 1 \/ ticks' = a + 1 - TickW)
      BY <1>1, <2>4, <3>2
    <3>4. a - b = (c - d) + w /\ TickW * (q - 1) = w - TickW
      BY <2>2, <2>3, <3>1, <3>2
    <3>5. /\ (a + 1) - b = ((c + 1) - d) + w
          /\ (a + 1 - TickW) - b = ((c + 1) - d) + (w - TickW)
      BY <2>3, <3>4
    <3> QED
      BY <3>1, <3>2, <3>3, <3>4, <3>5
  <2>6. q - 1 \in Int
    OBVIOUS
  <2> QED
    BY <1>1, <2>5, <2>6 DEF InStep
<1>5. ASSUME NEW p \in Procs
      PROVE  /\ tpc'[p] # "user" => since'[p] <= count'
             /\ tpc'[p] = "ok" => count' - since'[p] >= n'[p] % TickW
             /\ tpc'[p] = "failed" => killed'[p]
             /\ tpc'[p] \notin {"sleep", "asleep"}
  <2>1. since[p] \in Nat /\ count \in Nat /\ n[p] % TickW \in Int
    BY SleepAssumption DEF SleepInv
  <2> QED
    BY <1>1, <2>1 DEF SleepInv
<1> QED
  BY <1>1, <1>2, <1>3, <1>4, <1>5 DEF SleepInv

LEMMA SleepStep ==
    ASSUME SleepInv, T!Next
    PROVE  SleepInv'
<1>1. ASSUME NEW p \in Procs, T!Sleep(p) PROVE SleepInv'
  <2>1. /\ ticks' = ticks /\ count' = count /\ n' = n /\ killed' = killed
        /\ tpc' = [tpc EXCEPT ![p] = "test"] /\ ticks0' = [ticks0 EXCEPT ![p] = ticks]
        /\ since' = [since EXCEPT ![p] = count]
    BY <1>1 DEF T!Sleep, T!Goto
  <2>2. InStep(p)'
    <3>1. ticks - ticks = (count - count) + TickW * 0
      BY SleepAssumption DEF SleepInv
    <3> QED
      BY <2>1, <3>1 DEF InStep, SleepInv
  <2> QED
    BY <2>1, <2>2 DEF SleepInv, InStep, T!Due
<1>2. ASSUME NEW p \in Procs, T!Test(p) PROVE SleepInv'
  <2>1. T!Due(p) => count - since[p] >= n[p] % TickW
    BY <1>2, DueInTime DEF T!Test
  <2> QED
    BY <1>2, <2>1 DEF T!Test, T!Goto, SleepInv, InStep, T!Due
<1>3. ASSUME NEW p \in Procs, T!FallAsleep(p) PROVE SleepInv'
  BY <1>3 DEF T!FallAsleep, T!Goto, SleepInv, InStep, T!Due
<1>4. ASSUME NEW p \in Procs, T!Kill(p) PROVE SleepInv'
  BY <1>4 DEF T!Kill, T!Goto, SleepInv, InStep, T!Due
<1>5. CASE T!Tick
  BY <1>5, SleepTick
<1>6. CASE T!Over
  BY <1>6 DEF T!Over, T!tvars, SleepInv, InStep, T!Due
<1> QED
  BY <1>1, <1>2, <1>3, <1>4, <1>5, <1>6 DEF T!Next

LEMMA SleepProperty == SleepInv => T!SleepSound
  BY DEF SleepInv, T!SleepSound
-----------------------------------------------------------------------------
(* cmostime *)

(* How often the seconds have been counted up in this call, and what they  *)
(* are after k times if they began with s.                                 *)
Counted == IF uip = "second" THEN updates - 1 ELSE updates

After(s, k) == (s + k) % Seconds

(* They have come round after the first d times.                           *)
CameRound(s, d) == \E k \in 0..Counted : k > d /\ After(s, k) = 0

ClockTypeOK ==
    /\ second \in Nat /\ year \in Nat /\ bcd \in BOOLEAN
    /\ uip \in {"no", "second", "year"} /\ updates \in 0..MaxUpdates
    /\ (uip # "no" => updates > 0)
    /\ rpc \in {"second1", "year1", "stata", "second2", "year2", "memcmp", "done"}
    /\ t1 \in [second : Nat, year : Nat] /\ t2 \in [second : Nat, year : Nat]

(* The seconds were counted up u times when t1.second was read.            *)
First(s, u) == u <= Counted /\ t1.second = R!Encode(After(s, u))

(* The year y was read next.  It is the year still, unless the reads fell  *)
(* into an update that came round.                                         *)
Next1(s, u, y) ==
    /\ t1.year = R!Encode(y)
    /\ year # y /\ Counted = u => After(s, u) = 0 /\ uip # "year"

(* No update was under way after d times, in the year z.                   *)
Quiet(s, u, y, d, z) ==
    /\ u <= d /\ d <= Counted /\ <<After(s, d), z>> \in shown
    /\ t1.year = R!Encode(y)
    /\ y # z /\ u = d => After(s, u) = 0
    /\ uip = "year" => Counted > d
    /\ year # z => CameRound(s, d)

(* The seconds were read again after e times, and then the year x.         *)
Again(s, d, e) == d <= e /\ e <= Counted /\ t2.second = R!Encode(After(s, e))

Next2(s, d, z, x) == t2.year = R!Encode(x) /\ (x # z => CameRound(s, d))

Reads(s, u, y, d, z, e, x) ==
    /\ second = After(s, Counted)
    /\ rpc \in {"year1", "stata", "second2", "year2", "memcmp"} => First(s, u)
    /\ rpc = "stata" => Next1(s, u, y)
    /\ rpc \in {"second2", "year2", "memcmp"} => Quiet(s, u, y, d, z)
    /\ rpc \in {"year2", "memcmp"} => Again(s, d, e)
    /\ rpc = "memcmp" => Next2(s, d, z, x)

ClockInv ==
    /\ ClockTypeOK
    /\ uip = "no" => <<second, year>> \in shown
    /\ R!TimeWasShown
    /\ \E s, u, y, d, z, e, x \in Nat : s < Seconds /\ Reads(s, u, y, d, z, e, x)

LEMMA CountedType ==
    ASSUME ClockTypeOK
    PROVE  Counted \in Nat /\ Counted <= MaxUpdates /\ Counted < Seconds
  BY ClockAssumption DEF ClockTypeOK, Counted

(* The seconds do not come round to the same value in one call.            *)
LEMMA AfterApart ==
    ASSUME NEW s \in Nat, s < Seconds, NEW j \in Nat, NEW k \in Nat,
           j < Seconds, k < Seconds, After(s, j) = After(s, k)
    PROVE  j = k
<1>1. Seconds \in Nat \ {0}
  BY ClockAssumption
<1>2. After(s, j) = s + j \/ After(s, j) = s + j - Seconds
  BY <1>1 DEF After
<1>3. After(s, k) = s + k \/ After(s, k) = s + k - Seconds
  BY <1>1 DEF After
<1> QED
  BY <1>1, <1>2, <1>3

LEMMA AfterType ==
    ASSUME NEW s \in Nat, NEW k \in Nat
    PROVE  Seconds \in Nat \ {0} => After(s, k) \in Nat
  BY DEF After

LEMMA AfterOne ==
    ASSUME NEW s \in Nat, s < Seconds, NEW k \in Nat, k + 1 < Seconds
    PROVE  After(s, k + 1) = (After(s, k) + 1) % Seconds
<1>1. Seconds \in Nat \ {0}
  BY ClockAssumption
<1>2. CASE s + k < Seconds
  <2>1. After(s, k) = s + k
    BY <1>1, <1>2 DEF After
  <2> QED
    BY <2>1 DEF After
<1>3. CASE s + k >= Seconds
  <2>1. After(s, k) = s + k - Seconds
    BY <1>1, <1>3 DEF After
  <2>2. After(s, k + 1) = s + k + 1 - Seconds
    BY <1>1, <1>3 DEF After
  <2>3. s + k - Seconds + 1 = s + k + 1 - Seconds
    BY <1>1
  <2>4. (s + k - Seconds + 1) % Seconds = s + k - Seconds + 1
    BY <1>1, <1>3
  <2> QED
    BY <2>1, <2>2, <2>3, <2>4
<1> QED
  BY <1>1, <1>2, <1>3

(* CONV undoes what the chip's registers do to a number.                   *)
LEMMA ConvEncode ==
    ASSUME NEW x \in Nat
    PROVE  R!Encode(x) \in Nat /\ R!Conv(R!Encode(x)) = x
<1>1. CASE bcd
  <2>1. PICK a \in Nat, b \in 0..9 : x \div 10 = a /\ x % 10 = b /\ x = 10 * a + b
    OBVIOUS
  <2>2. (a * 16 + b) \div 16 = a /\ (a * 16 + b) % 16 = b
    BY <2>1
  <2>3. R!Encode(x) = a * 16 + b
    BY <1>1, <2>1 DEF R!Encode
  <2>4. R!Conv(a * 16 + b) = a * 10 + b
    BY <1>1, <2>2 DEF R!Conv
  <2> QED
    BY <2>1, <2>3, <2>4
<1>2. CASE ~bcd
  BY <1>2 DEF R!Encode, R!Conv
<1> QED
  BY <1>1, <1>2

LEMMA ClockTypeStep ==
    ASSUME ClockTypeOK, R!Next
    PROVE  ClockTypeOK'
<1>1. CASE R!UpdateBegins
  BY <1>1, ClockAssumption DEF R!UpdateBegins, ClockTypeOK
<1>2. CASE R!UpdateSecond
  <2>1. (second + 1) % Seconds \in Nat
    BY ClockAssumption, CountedType DEF ClockTypeOK
  <2> QED
    BY <1>2, <2>1 DEF R!UpdateSecond, ClockTypeOK
<1>3. CASE R!UpdateEnds
  <2>1. (year + 1) % Years \in Nat
    BY ClockAssumption DEF ClockTypeOK
  <2> QED
    BY <1>3, <2>1, ClockAssumption DEF R!UpdateEnds, ClockTypeOK
<1>4. CASE R!Fill1
  <2>1. R!Encode(second) \in Nat /\ R!Encode(year) \in Nat
    BY ConvEncode DEF ClockTypeOK
  <2> QED
    BY <1>4, <2>1 DEF R!Fill1, R!chip, ClockTypeOK
<1>5. CASE R!StatA
  BY <1>5 DEF R!StatA, R!chip, ClockTypeOK
<1>6. CASE R!Fill2
  <2>1. R!Encode(second) \in Nat /\ R!Encode(year) \in Nat
    BY ConvEncode DEF ClockTypeOK
  <2> QED
    BY <1>6, <2>1 DEF R!Fill2, R!chip, ClockTypeOK
<1>7. CASE R!Compare
  <2>1. \A w \in Nat : R!Conv(w) \in Nat
    BY DEF R!Conv
  <2> QED
    BY <1>7, <2>1 DEF R!Compare, R!chip, ClockTypeOK
<1>8. CASE R!Returned
  BY <1>8 DEF R!Returned, R!rvars, ClockTypeOK
<1> QED
  BY <1>1, <1>2, <1>3, <1>4, <1>5, <1>6, <1>7, <1>8 DEF R!Next

LEMMA ClockChip ==
    ASSUME ClockTypeOK, NEW s \in Nat, s < Seconds, NEW u \in Nat, NEW y \in Nat,
           NEW d \in Nat, NEW z \in Nat, NEW e \in Nat, NEW x \in Nat,
           Reads(s, u, y, d, z, e, x),
           R!UpdateBegins \/ R!UpdateSecond \/ R!UpdateEnds
    PROVE  Reads(s, u, y, d, z, e, x)'
<1> USE DEF ClockTypeOK
<1>1. Counted \in Nat /\ Counted < Seconds
  BY CountedType
<1>2. /\ rpc' = rpc /\ t1' = t1 /\ t2' = t2 /\ bcd' = bcd
      /\ shown \subseteq shown'
  BY DEF R!UpdateBegins, R!UpdateSecond, R!UpdateEnds
<1>3. \A w : R!Encode(w)' = R!Encode(w)
  BY <1>2 DEF R!Encode
<1>4. CASE R!UpdateBegins
  <2>1. Counted' = Counted /\ second' = second /\ year' = year /\ uip' = "second"
    BY <1>4 DEF R!UpdateBegins, Counted
  <2> QED
    BY <1>2, <1>3, <2>1 DEF Reads, First, Next1, Quiet, Again, Next2, CameRound, After
<1>5. CASE R!UpdateSecond
  <2>1. /\ Counted' = Counted + 1 /\ year' = year /\ uip' = "year"
        /\ second' = (second + 1) % Seconds
    BY <1>5 DEF R!UpdateSecond, Counted
  <2>2. Counted + 1 < Seconds
    BY <1>5, ClockAssumption DEF R!UpdateSecond, Counted
  <2>3. second' = After(s, Counted')
    BY <1>1, <2>1, <2>2, AfterOne DEF Reads
  <2>4. \A k : CameRound(s, k) => CameRound(s, k)'
    BY <1>1, <2>1 DEF CameRound, After
  <2>5. First(s, u) => First(s, u)'
    BY <1>1, <1>2, <1>3, <2>1 DEF First, After
  <2>6. Quiet(s, u, y, d, z) => Quiet(s, u, y, d, z)'
    BY <1>1, <1>2, <1>3, <2>1, <2>4 DEF Quiet, After
  <2>7. /\ Again(s, d, e) => Again(s, d, e)'
        /\ Next2(s, d, z, x) => Next2(s, d, z, x)'
    BY <1>1, <1>2, <1>3, <2>1, <2>4 DEF Again, Next2, After
  <2>8. Next1(s, u, y) /\ First(s, u) => Next1(s, u, y)'
    BY <1>1, <1>2, <1>3, <2>1 DEF First, Next1, After
  <2> QED
    BY <1>2, <2>3, <2>5, <2>6, <2>7, <2>8 DEF Reads, After
<1>6. CASE R!UpdateEnds
  <2>1. /\ Counted' = Counted /\ second' = second /\ uip' = "no" /\ uip = "year"
        /\ year' # year => second = 0
    BY <1>6 DEF R!UpdateEnds, Counted
  <2>2. year' # year => After(s, Counted) = 0
    BY <2>1 DEF Reads
  <2>3. \A k : CameRound(s, k) => CameRound(s, k)'
    BY <2>1 DEF CameRound, After
  <2>4. First(s, u) => First(s, u)'
    BY <1>2, <1>3, <2>1 DEF First, After
  <2>5. Next1(s, u, y) => Next1(s, u, y)'
    BY <1>2, <1>3, <2>1, <2>2 DEF Next1, After
  <2>6. Quiet(s, u, y, d, z) => Quiet(s, u, y, d, z)'
    <3>1. Quiet(s, u, y, d, z) /\ year' # year => CameRound(s, d)
      BY <1>1, <2>1, <2>2 DEF Quiet, CameRound
    <3> QED
      BY <1>1, <1>2, <1>3, <2>1, <2>3, <3>1 DEF Quiet, After
  <2>7. /\ Again(s, d, e) => Again(s, d, e)'
        /\ Next2(s, d, z, x) => Next2(s, d, z, x)'
    BY <1>2, <1>3, <2>1, <2>3 DEF Again, Next2, After
  <2> QED
    BY <1>2, <2>1, <2>4, <2>5, <2>6, <2>7 DEF Reads, After
<1> QED
  BY <1>4, <1>5, <1>6

(* Two equal sets of reads are of one time.                                *)
LEMMA SameReads ==
    ASSUME ClockTypeOK, NEW s \in Nat, s < Seconds, NEW u \in Nat, NEW y \in Nat,
           NEW d \in Nat, NEW z \in Nat, NEW e \in Nat, NEW x \in Nat,
           Reads(s, u, y, d, z, e, x), rpc = "memcmp", t1 = t2
    PROVE  <<R!Conv(t1.second), R!Conv(t1.year)>> \in shown
<1>1. Seconds \in Nat \ {0} /\ Counted \in Nat /\ Counted < Seconds
  BY CountedType, ClockAssumption
<1>2. /\ u <= d /\ d <= e /\ e <= Counted /\ u < Seconds /\ d < Seconds /\ e < Seconds
      /\ t1.second = R!Encode(After(s, u)) /\ t1.year = R!Encode(y)
      /\ t2.second = R!Encode(After(s, e)) /\ t2.year = R!Encode(x)
      /\ <<After(s, d), z>> \in shown
      /\ y # z /\ u = d => After(s, u) = 0
      /\ x # z => CameRound(s, d)
  BY <1>1 DEF Reads, First, Quiet, Again, Next2
<1>3. R!Conv(t1.second) = After(s, u) /\ R!Conv(t2.second) = After(s, e)
  BY <1>1, <1>2, AfterType, ConvEncode
<1>4. R!Conv(t1.year) = y /\ R!Conv(t2.year) = x
  BY <1>2, ConvEncode
<1>5. u = e /\ u = d /\ x = y
  <2>1. After(s, u) = After(s, e) /\ x = y
    BY <1>3, <1>4
  <2>2. u = e
    BY <1>2, <2>1, AfterApart
  <2> QED
    BY <1>2, <2>1, <2>2
<1>6. y = z
  <2> SUFFICES ASSUME y # z PROVE FALSE
    OBVIOUS
  <2>1. PICK k \in 0..Counted : k > d /\ After(s, k) = 0
    BY <1>2, <1>5 DEF CameRound
  <2>2. After(s, d) = 0
    BY <1>2, <1>5
  <2>3. k \in Nat /\ k < Seconds
    BY <1>1, <2>1
  <2>4. k = d
    BY <1>2, <2>1, <2>2, <2>3, AfterApart
  <2> QED
    BY <2>1, <2>4
<1> QED
  BY <1>2, <1>3, <1>4, <1>5, <1>6

(* A cmos_read. *)
LEMMA ClockReads ==
    ASSUME ClockTypeOK, uip = "no" => <<second, year>> \in shown,
           NEW s \in Nat, s < Seconds, NEW u \in Nat, NEW y \in Nat,
           NEW d \in Nat, NEW z \in Nat, NEW e \in Nat, NEW x \in Nat,
           Reads(s, u, y, d, z, e, x),
           R!Fill1 \/ R!StatA \/ R!Fill2 \/ R!Compare
    PROVE  \E a, b, c, f, g, h \in Nat : Reads(s, a, b, c, f, g, h)'
<1> USE DEF ClockTypeOK
<1>1. Counted \in Nat /\ Counted < Seconds /\ year \in Nat
  BY CountedType
<1>2. /\ second' = second /\ year' = year /\ uip' = uip /\ bcd' = bcd
      /\ shown' = shown /\ updates' = updates
  BY DEF R!Fill1, R!StatA, R!Fill2, R!Compare, R!chip
<1>3. Counted' = Counted
  BY <1>2 DEF Counted
<1>4. \A w : R!Encode(w)' = R!Encode(w)
  BY <1>2 DEF R!Encode
<1>5. second = After(s, Counted)
  BY DEF Reads
<1>6. \A k : CameRound(s, k)' <=> CameRound(s, k)
  BY <1>3 DEF CameRound, After
<1>7. CASE R!Fill1 /\ rpc = "second1"
  <2>1. rpc' = "year1" /\ t1'.second = R!Encode(second)
    BY <1>7 DEF R!Fill1
  <2>2. Reads(s, Counted, y, d, z, e, x)'
    BY <1>1, <1>2, <1>3, <1>4, <1>5, <2>1 DEF Reads, First, After
  <2>3. PICK a \in Nat : a = Counted'
    BY <1>1, <1>3
  <2>4. Reads(s, a, y, d, z, e, x)'
    BY <1>1, <1>2, <1>3, <1>4, <1>5, <2>1, <2>3 DEF Reads, First, After
  <2> QED
    BY <2>4
<1>8. CASE R!Fill1 /\ rpc = "year1"
  <2>1. /\ rpc' = "stata" /\ t1'.second = t1.second
        /\ t1'.year = R!Encode(year)
    BY <1>8 DEF R!Fill1
  <2>2. PICK b \in Nat : b = year
    BY <1>1
  <2>3. Reads(s, u, b, d, z, e, x)'
    BY <1>1, <1>2, <1>3, <1>4, <1>8, <2>1, <2>2 DEF Reads, First, Next1, After
  <2> QED
    BY <2>3
<1>9. CASE R!StatA
  <2>1. rpc = "stata" /\ t1' = t1 /\ t2' = t2
    BY <1>9 DEF R!StatA
  <2>2. CASE uip = "no"
    <3>1. rpc' = "second2"
      BY <1>9, <2>2 DEF R!StatA
    <3>2. PICK a \in Nat, b \in Nat : a = Counted /\ b = year
      BY <1>1
    <3>3. <<After(s, a), b>> \in shown
      BY <1>5, <2>2, <3>2
    <3>4. First(s, u) /\ Next1(s, u, y)
      BY <2>1 DEF Reads
    <3>5. Quiet(s, u, y, a, b)'
      BY <1>1, <1>2, <1>3, <1>4, <2>1, <2>2, <3>2, <3>3, <3>4 DEF First, Next1, Quiet, After
    <3>6. Reads(s, u, y, a, b, e, x)'
      BY <1>2, <1>3, <1>4, <1>5, <2>1, <3>1, <3>4, <3>5 DEF Reads, First, After
    <3> QED
      BY <3>6
  <2>3. CASE uip # "no"
    <3>1. rpc' = "second1"
      BY <1>9, <2>3 DEF R!StatA
    <3>2. Reads(s, u, y, d, z, e, x)'
      BY <1>2, <1>3, <3>1 DEF Reads, After
    <3> QED
      BY <3>2
  <2> QED
    BY <2>2, <2>3
<1>10. ASSUME R!Fill2 PROVE Quiet(s, u, y, d, z) /\ Quiet(s, u, y, d, z)'
  <2>1. Quiet(s, u, y, d, z) /\ t1' = t1
    BY <1>10 DEF R!Fill2, Reads
  <2> QED
    BY <1>2, <1>3, <1>4, <1>6, <2>1 DEF Quiet, After
<1>11. ASSUME R!Fill2 PROVE First(s, u)'
  <2>1. First(s, u) /\ t1' = t1
    BY <1>11 DEF R!Fill2, Reads
  <2> QED
    BY <1>3, <1>4, <2>1 DEF First, After
<1>12. CASE R!Fill2 /\ rpc = "second2"
  <2>1. rpc' = "year2" /\ t2'.second = R!Encode(second)
    BY <1>12 DEF R!Fill2
  <2>2. PICK a \in Nat : a = Counted
    BY <1>1
  <2>3. Again(s, d, a)'
    BY <1>1, <1>3, <1>4, <1>5, <1>10, <1>12, <2>1, <2>2 DEF Again, Quiet, After
  <2>4. Reads(s, u, y, d, z, a, x)'
    BY <1>2, <1>3, <1>5, <1>10, <1>11, <1>12, <2>1, <2>3 DEF Reads, After
  <2> QED
    BY <2>4
<1>13. CASE R!Fill2 /\ rpc = "year2"
  <2>1. /\ rpc' = "memcmp" /\ t2'.second = t2.second
        /\ t2'.year = R!Encode(year)
    BY <1>13 DEF R!Fill2
  <2>2. PICK b \in Nat : b = year
    BY <1>1
  <2>3. Again(s, d, e)'
    BY <1>3, <1>4, <1>13, <2>1 DEF Reads, Again, After
  <2>4. Next2(s, d, z, b)'
    BY <1>4, <1>6, <1>10, <1>13, <2>1, <2>2 DEF Next2, Quiet
  <2>5. Reads(s, u, y, d, z, e, b)'
    BY <1>2, <1>3, <1>5, <1>10, <1>11, <1>13, <2>1, <2>3, <2>4 DEF Reads, After
  <2> QED
    BY <2>5
<1>14. CASE R!Compare
  <2>1. rpc' \in {"done", "second1"}
    BY <1>14 DEF R!Compare
  <2>2. Reads(s, u, y, d, z, e, x)'
    BY <1>2, <1>3, <2>1 DEF Reads, After
  <2> QED
    BY <2>2
<1> QED
  BY <1>7, <1>8, <1>9, <1>12, <1>13, <1>14 DEF R!Fill1, R!Fill2

LEMMA ClockInitially == R!Init => ClockInv
<1> SUFFICES ASSUME R!Init PROVE ClockInv
  OBVIOUS
<1>1. ClockTypeOK
  BY ClockAssumption DEF R!Init, R!Unread, ClockTypeOK
<1>2. (uip = "no" => <<second, year>> \in shown) /\ R!TimeWasShown
  BY DEF R!Init, R!TimeWasShown
<1>3. second \in Nat /\ second < Seconds /\ Counted = 0 /\ rpc = "second1"
  BY ClockAssumption DEF R!Init, Counted
<1>4. After(second, 0) = second
  BY <1>3, ClockAssumption DEF After
<1>5. PICK s \in Nat : s = second
  BY <1>3
<1>6. Reads(s, 0, 0, 0, 0, 0, 0) /\ s < Seconds
  BY <1>3, <1>4, <1>5 DEF Reads
<1> QED
  BY <1>1, <1>2, <1>6 DEF ClockInv

LEMMA ClockStep ==
    ASSUME ClockInv, R!Next
    PROVE  ClockInv'
<1>1. PICK s, u, y, d, z, e, x \in Nat : s < Seconds /\ Reads(s, u, y, d, z, e, x)
  BY DEF ClockInv
<1>2. ClockTypeOK /\ ClockTypeOK' /\ (uip = "no" => <<second, year>> \in shown)
      /\ R!TimeWasShown
  BY ClockTypeStep DEF ClockInv
<1>3. (uip = "no" => <<second, year>> \in shown)'
  BY <1>2 DEF R!Next, R!UpdateBegins, R!UpdateSecond, R!UpdateEnds, R!Fill1, R!StatA,
              R!Fill2, R!Compare, R!Returned, R!chip, R!rvars
<1>4. R!TimeWasShown'
  <2>1. CASE R!Compare /\ t1 = t2
    <3>1. <<R!Conv(t1.second), R!Conv(t1.year)>> \in shown
      <4>1. rpc = "memcmp" /\ t1 = t2
        BY <2>1 DEF R!Compare
      <4> QED
        BY <1>1, <1>2, <4>1, SameReads
    <3>2. R!Conv(t1.year) \in Nat
      BY <1>2 DEF ClockTypeOK, R!Conv
    <3>3. /\ t1'.second = R!Conv(t1.second) /\ t1'.year = R!Conv(t1.year) + 2000
          /\ shown' = shown
      BY <2>1 DEF R!Compare, R!chip
    <3>4. t1'.year - 2000 = R!Conv(t1.year)
      BY <3>2, <3>3
    <3> QED
      BY <3>1, <3>3, <3>4 DEF R!TimeWasShown
  <2>2. CASE ~(R!Compare /\ t1 = t2)
    BY <1>2, <2>2 DEF R!TimeWasShown, R!Next, R!UpdateBegins, R!UpdateSecond,
                      R!UpdateEnds, R!Fill1, R!StatA, R!Fill2, R!Compare, R!Returned,
                      R!chip, R!rvars
  <2> QED
    BY <2>1, <2>2
<1>5. \E a, b, c, f, g, h \in Nat : Reads(s, a, b, c, f, g, h)'
  <2>1. CASE R!UpdateBegins \/ R!UpdateSecond \/ R!UpdateEnds
    <3>1. Reads(s, u, y, d, z, e, x)'
      BY <1>1, <1>2, <2>1, ClockChip
    <3> QED
      BY <3>1
  <2>2. CASE R!Fill1 \/ R!StatA \/ R!Fill2 \/ R!Compare
    BY <1>1, <1>2, <2>2, ClockReads
  <2>3. CASE R!Returned
    BY <1>1, <2>3 DEF R!Returned, R!rvars, Reads, After, Counted
  <2> QED
    BY <2>1, <2>2, <2>3 DEF R!Next
<1> QED
  BY <1>1, <1>2, <1>3, <1>4, <1>5 DEF ClockInv
-----------------------------------------------------------------------------
(* What files contain *)

WriteCalls == [op : {"write"}, off : Nat, tot : Nat, src : Seq(Nat)]
ReadCalls == [op : {"read"}, off : Nat, tot : Nat, n : Nat, dst : Seq(Nat)]
TruncCalls == [op : {"trunc"}, next : Nat]
NoCalls == [op : {"none"}]

Slots == 0..NDIRECT
BlocksOr0 == Blocks \cup {0}
MaxBytes == C!MAXFILE * BSIZE

(* The block of a byte, its place in the block, and where a block begins.  *)
BlockAt(x) == x \div BSIZE
Within(x) == x % BSIZE
Start(k) == BSIZE * k

ContentTypeOK ==
    /\ bitmap \subseteq Blocks
    /\ data \in [Blocks -> [C!Cells -> Nat]]
    /\ addrs \in [Inodes -> [Slots -> BlocksOr0]]
    /\ size \in [Inodes -> 0..MaxBytes]
    /\ dinode \in [Inodes -> [Slots -> BlocksOr0] \X Nat]
    /\ holder \in [Inodes -> Procs \cup {NoProc}]
    /\ call \in [Inodes -> WriteCalls \cup ReadCalls \cup TruncCalls \cup NoCalls]
    /\ bno \in [Inodes -> Blocks \cup {NoBlock}]
    /\ panic \in {"no", "out of blocks"}
    /\ file \in [Inodes -> Seq(Nat)]

(* Nobody else has a block that a place of one inode names, and what is    *)
(* marked is what is named.                                                *)
Owned(names, marked) ==
    /\ \A q, r \in C!Places : names[q] # 0 /\ names[q] = names[r] => q = r
    /\ \A b \in Blocks : b \in marked <=> \E q \in C!Places : names[q] = b

AllNames == [q \in C!Places |-> C!Named(q[1], q[2])]

(* The call under way, and what it has still to do. *)
CallSound(i) ==
    /\ holder[i] = NoProc <=> call[i].op = "none"
    /\ bno[i] # NoBlock =>
          call[i].op = "write" /\ C!Left(i) > 0 /\ C!Mapped(i, C!Here(i)) = 0
    /\ call[i].op = "write" =>
          /\ call[i].tot <= Len(call[i].src) /\ call[i].tot <= call[i].off
          /\ call[i].off - call[i].tot <= size[i]
          /\ call[i].off + C!Left(i) <= MaxBytes
    /\ call[i].op = "read" =>
          /\ call[i].tot <= call[i].n /\ call[i].tot <= call[i].off
          /\ call[i].off + C!Left(i) <= size[i]
          /\ call[i].dst = SubSeq(file[i], call[i].off - call[i].tot + 1, call[i].off)
    /\ call[i].op = "trunc" =>
          /\ call[i].next <= C!MAXFILE
          /\ \A k \in 0..(NDIRECT - 1) : k < call[i].next => addrs[i][k] = 0

(* The bytes that are there: of the file, and of the call that writes.     *)
Reach(i) == IF call[i].op = "write" /\ call[i].off > size[i] THEN call[i].off ELSE size[i]

Expected(i, x) ==
    IF call[i].op = "write" /\ call[i].off - call[i].tot <= x /\ x < call[i].off
    THEN call[i].src[x - (call[i].off - call[i].tot) + 1]
    ELSE file[i][x + 1]

BytesSound(i) ==
    /\ size[i] = Len(file[i])
    /\ call[i].op # "trunc" =>
          \A x \in 0..(Reach(i) - 1) :
              C!Mapped(i, BlockAt(x)) # 0 /\ C!ByteAt(i, x) = Expected(i, x)

(* A call that has changed the inode grows the file when it is done.       *)
WillGrow(i) ==
    /\ call[i].op = "write" /\ call[i].off >= size[i]
    /\ C!Left(i) > 0 \/ call[i].off > size[i]

DinodeSound(i) ==
    call[i].op # "trunc" => dinode[i] = <<addrs[i], size[i]>> \/ WillGrow(i)

InodeSound(i) ==
    /\ \A k \in 0..(C!MAXFILE - 1) : C!Mapped(i, k) \in BlocksOr0
    /\ CallSound(i) /\ BytesSound(i) /\ DinodeSound(i)

ContentInv ==
    /\ ContentTypeOK
    /\ Owned(AllNames, bitmap)
    /\ \A i \in Inodes : InodeSound(i)

LEMMA ContentNumbers ==
    /\ BSIZE \in Nat \ {0} /\ NDIRECT \in Nat
    /\ C!MAXFILE \in Nat \ {0} /\ C!MAXFILE = NDIRECT + BSIZE
    /\ MaxBytes \in Nat /\ MaxBytes = C!MAXFILE * BSIZE
    /\ C!Cells = 0..(BSIZE - 1) /\ C!NINDIRECT = BSIZE
    /\ 0 \notin Blocks /\ Blocks \subseteq Nat
<1>1. BSIZE \in Nat \ {0} /\ NDIRECT \in Nat
  BY ContentAssumption
<1>2. C!MAXFILE \in Nat \ {0} /\ C!MAXFILE = NDIRECT + BSIZE
  BY <1>1 DEF C!MAXFILE, C!NINDIRECT
<1>3. \A a, b \in Nat : a * b \in Nat
  OBVIOUS
<1> QED
  BY <1>1, <1>2, <1>3, ContentAssumption DEF MaxBytes, C!Cells, C!NINDIRECT

LEMMA Division ==
    ASSUME NEW x \in Nat
    PROVE  /\ BlockAt(x) \in Nat /\ Within(x) \in Nat /\ Within(x) < BSIZE
           /\ Within(x) \in C!Cells
           /\ Start(BlockAt(x)) \in Nat /\ x = Start(BlockAt(x)) + Within(x)
<1>1. BSIZE \in Nat \ {0}
  BY ContentNumbers
<1>2. x \div BSIZE \in Nat /\ x % BSIZE \in 0..(BSIZE - 1)
      /\ x = BSIZE * (x \div BSIZE) + (x % BSIZE)
  BY <1>1
<1>3. \A a, b \in Nat : a * b \in Nat
  OBVIOUS
<1> QED
  BY <1>1, <1>2, <1>3 DEF C!Cells, BlockAt, Within, Start

LEMMA BlockOfByte ==
    ASSUME NEW x \in Nat, x < MaxBytes
    PROVE  BlockAt(x) \in 0..(C!MAXFILE - 1)
<1>1. PICK q \in Nat, r \in Nat : q = BlockAt(x) /\ x = BSIZE * q + r
  BY Division DEF Start
<1>2. PICK m \in Nat : m = C!MAXFILE /\ BSIZE * q + r < m * BSIZE
  BY <1>1, ContentNumbers
<1>3. BSIZE \in Nat \ {0}
  BY ContentNumbers
<1>4. q >= m => BSIZE * (q - m) >= 0
  BY <1>2, <1>3
<1>5. BSIZE * (q - m) = BSIZE * q - m * BSIZE
  BY <1>2, <1>3
<1>6. BSIZE * q \in Int /\ m * BSIZE \in Int
  BY <1>2, <1>3
<1>7. q < m
  BY <1>2, <1>4, <1>5, <1>6
<1> QED
  BY <1>1, <1>2, <1>7

(* Bytes that are apart in a block are as far apart in the file.           *)
LEMMA SameBlock ==
    ASSUME NEW x \in Nat, NEW y \in Nat, BlockAt(x) = BlockAt(y)
    PROVE  x - y = Within(x) - Within(y)
  BY Division

LEMMA InChunk ==
    ASSUME NEW x \in Nat, NEW y \in Nat, y <= x, Within(y) + (x - y) < BSIZE
    PROVE  BlockAt(x) = BlockAt(y) /\ Within(x) = Within(y) + (x - y)
<1>1. BSIZE \in Nat \ {0}
  BY ContentNumbers
<1>2. PICK q \in Nat, c \in 0..(BSIZE - 1) :
          q = BlockAt(y) /\ c = Within(y) + (x - y)
  BY <1>1, Division
<1>3. x = BSIZE * q + c
  <2>1. PICK m \in Nat : m = BSIZE * q /\ y = m + Within(y)
    BY <1>2, Division DEF Start
  <2>2. x = m + c
    BY <1>2, <2>1, Division
  <2> QED
    BY <2>1, <2>2
<1>4. (BSIZE * q + c) \div BSIZE = q /\ (BSIZE * q + c) % BSIZE = c
  BY <1>1
<1> QED
  BY <1>2, <1>3, <1>4 DEF BlockAt, Within

-----------------------------------------------------------------------------

LEMMA CallTypes ==
    ASSUME ContentTypeOK, NEW i \in Inodes
    PROVE  /\ call[i].op \in {"write", "read", "trunc", "none"}
           /\ call[i].op = "write" =>
                 /\ call[i] \in WriteCalls /\ call[i].off \in Nat /\ call[i].tot \in Nat
                 /\ call[i].src \in Seq(Nat) /\ Len(call[i].src) \in Nat
                 /\ C!Left(i) = Len(call[i].src) - call[i].tot
           /\ call[i].op = "read" =>
                 /\ call[i] \in ReadCalls /\ call[i].off \in Nat /\ call[i].tot \in Nat
                 /\ call[i].n \in Nat /\ call[i].dst \in Seq(Nat)
                 /\ C!Left(i) = call[i].n - call[i].tot
           /\ call[i].op = "trunc" =>
                 call[i] \in TruncCalls /\ call[i].next \in Nat /\ C!Left(i) = 0
           /\ call[i].op = "none" => call[i] \in NoCalls /\ C!Left(i) = 0
<1>1. call[i] \in WriteCalls \cup ReadCalls \cup TruncCalls \cup NoCalls
  BY DEF ContentTypeOK
<1>2. CASE call[i] \in WriteCalls
  BY <1>2 DEF WriteCalls, C!Left
<1>3. CASE call[i] \in ReadCalls
  BY <1>3 DEF ReadCalls, C!Left
<1>4. CASE call[i] \in TruncCalls
  BY <1>4 DEF TruncCalls, C!Left
<1>5. CASE call[i] \in NoCalls
  BY <1>5 DEF NoCalls, C!Left
<1> QED
  BY <1>1, <1>2, <1>3, <1>4, <1>5

LEMMA MappedCases ==
    ASSUME NEW i \in Inodes, NEW k \in 0..(C!MAXFILE - 1)
    PROVE  /\ k < NDIRECT => C!Mapped(i, k) = addrs[i][k] /\ k \in 0..(NDIRECT - 1)
           /\ k >= NDIRECT /\ C!Indirect(i) = 0 => C!Mapped(i, k) = 0
           /\ k >= NDIRECT /\ C!Indirect(i) # 0 =>
                 C!Mapped(i, k) = data[C!Indirect(i)][k - NDIRECT]
           /\ k >= NDIRECT => k - NDIRECT \in C!Cells
<1>1. k \in Int /\ NDIRECT \in Nat /\ k < NDIRECT + BSIZE
  BY ContentNumbers
<1> QED
  BY <1>1, ContentNumbers DEF C!Mapped

LEMMA NamedCases ==
    ASSUME NEW i \in Inodes, NEW k \in 0..(C!MAXFILE + 1)
    PROVE  /\ k = C!MAXFILE + 1 =>
                 C!Named(i, k) = IF bno[i] = NoBlock THEN 0 ELSE bno[i]
           /\ k = C!MAXFILE => C!Named(i, k) = C!Indirect(i)
           /\ k < C!MAXFILE /\ C!Freed(i, k) => C!Named(i, k) = 0
           /\ k < C!MAXFILE /\ ~C!Freed(i, k) => C!Named(i, k) = C!Mapped(i, k)
<1>1. C!MAXFILE \in Nat
  BY ContentNumbers
<1> QED
  BY <1>1 DEF C!Named

LEMMA NamedType ==
    ASSUME ContentInv, NEW i \in Inodes, NEW k \in 0..(C!MAXFILE + 1)
    PROVE  C!Named(i, k) \in BlocksOr0 /\ C!Indirect(i) \in BlocksOr0
<1>1. C!Indirect(i) \in BlocksOr0
  <2>1. NDIRECT \in Slots
    BY ContentNumbers DEF Slots
  <2>2. addrs[i] \in [Slots -> BlocksOr0]
    BY DEF ContentInv, ContentTypeOK
  <2> QED
    BY <2>1, <2>2 DEF C!Indirect
<1>2. bno[i] \in Blocks \cup {NoBlock} /\ C!MAXFILE \in Nat
  BY ContentNumbers DEF ContentInv, ContentTypeOK
<1>3. \A j \in 0..(C!MAXFILE - 1) : C!Mapped(i, j) \in BlocksOr0
  BY DEF ContentInv, InodeSound
<1>4. k = C!MAXFILE + 1 \/ k = C!MAXFILE \/ k \in 0..(C!MAXFILE - 1)
  BY <1>2
<1> QED
  BY <1>1, <1>2, <1>3, <1>4, NamedCases DEF BlocksOr0

-----------------------------------------------------------------------------
(* Who owns the blocks *)

LEMMA OwnedSame ==
    ASSUME NEW f, NEW g, NEW S, Owned(f, S), \A q \in C!Places : g[q] = f[q]
    PROVE  Owned(g, S)
  BY DEF Owned

(* balloc *)
LEMMA OwnedGain ==
    ASSUME NEW f, NEW g, NEW S, Owned(f, S), NEW b \in Blocks, b \notin S,
           NEW p \in C!Places, f[p] = 0, g[p] = b,
           \A q \in C!Places \ {p} : g[q] = f[q]
    PROVE  Owned(g, S \cup {b})
<1>1. b # 0
  BY ContentNumbers
<1>2. \A q \in C!Places : f[q] # b
  BY DEF Owned
<1>3. ASSUME NEW q \in C!Places, NEW r \in C!Places, g[q] # 0, g[q] = g[r] PROVE q = r
  BY <1>2, <1>3 DEF Owned
<1>4. ASSUME NEW a \in Blocks
      PROVE  a \in S \cup {b} <=> \E q \in C!Places : g[q] = a
  <2>1. CASE a = b
    BY <2>1
  <2>2. CASE a # b
    <3>1. a \in S <=> \E q \in C!Places : f[q] = a
      BY DEF Owned
    <3>2. a # 0
      BY ContentNumbers
    <3> QED
      BY <2>2, <3>1, <3>2
  <2> QED
    BY <2>1, <2>2
<1> QED
  BY <1>3, <1>4 DEF Owned

(* bfree *)
LEMMA OwnedLose ==
    ASSUME NEW f, NEW g, NEW S, Owned(f, S), NEW p \in C!Places, f[p] # 0, g[p] = 0,
           \A q \in C!Places \ {p} : g[q] = f[q]
    PROVE  Owned(g, S \ {f[p]})
<1>1. 0 \notin Blocks
  BY ContentNumbers
<1> QED
  BY <1>1 DEF Owned

(* bzero *)
LEMMA OwnedMove ==
    ASSUME NEW f, NEW g, NEW S, Owned(f, S), NEW p \in C!Places, NEW r \in C!Places,
           f[p] # 0, f[r] = 0, g[p] = 0, g[r] = f[p],
           \A q \in C!Places \ {p, r} : g[q] = f[q]
    PROVE  Owned(g, S)
<1>1. 0 \notin Blocks
  BY ContentNumbers
<1> QED
  BY <1>1 DEF Owned

LEMMA OwnerIsMarked ==
    ASSUME ContentInv, NEW i \in Inodes, NEW k \in 0..(C!MAXFILE + 1), C!Named(i, k) # 0
    PROVE  C!Named(i, k) \in bitmap
<1>1. <<i, k>> \in C!Places /\ AllNames[<<i, k>>] = C!Named(i, k)
  BY DEF C!Places, AllNames
<1>2. C!Named(i, k) \in Blocks
  BY NamedType DEF BlocksOr0
<1> QED
  BY <1>1, <1>2 DEF ContentInv, Owned

LEMMA OwnerIsOne ==
    ASSUME ContentInv, NEW i \in Inodes, NEW k \in 0..(C!MAXFILE + 1),
           NEW j \in Inodes, NEW l \in 0..(C!MAXFILE + 1),
           C!Named(i, k) # 0, C!Named(i, k) = C!Named(j, l)
    PROVE  i = j /\ k = l
<1>1. /\ <<i, k>> \in C!Places /\ AllNames[<<i, k>>] = C!Named(i, k)
      /\ <<j, l>> \in C!Places /\ AllNames[<<j, l>>] = C!Named(j, l)
  BY DEF C!Places, AllNames
<1>2. <<i, k>> = <<j, l>>
  BY <1>1 DEF ContentInv, Owned
<1> QED
  BY <1>2

-----------------------------------------------------------------------------
(* What a step leaves alone *)

LEMMA ByteIs ==
    ASSUME NEW i, NEW x
    PROVE  C!ByteAt(i, x) = data[C!Mapped(i, BlockAt(x))][Within(x)]
  BY DEF C!ByteAt, BlockAt, Within

LEMMA InodeTypes ==
    ASSUME ContentInv, NEW i \in Inodes
    PROVE  /\ CallSound(i) /\ BytesSound(i) /\ DinodeSound(i) /\ InodeSound(i)
           /\ \A k \in 0..(C!MAXFILE - 1) : C!Mapped(i, k) \in BlocksOr0
           /\ size[i] \in Nat /\ size[i] <= MaxBytes /\ MaxBytes \in Nat
           /\ addrs[i] \in [Slots -> BlocksOr0] /\ file[i] \in Seq(Nat)
<1>1. size[i] \in 0..MaxBytes /\ addrs[i] \in [Slots -> BlocksOr0] /\ file[i] \in Seq(Nat)
  BY DEF ContentInv, ContentTypeOK
<1> QED
  BY <1>1, ContentNumbers DEF ContentInv, InodeSound

LEMMA HereIs ==
    ASSUME ContentInv, NEW i \in Inodes, C!Left(i) > 0
    PROVE  /\ call[i].off \in Nat /\ C!Here(i) = BlockAt(call[i].off)
           /\ C!Here(i) \in 0..(C!MAXFILE - 1)
           /\ call[i].op \in {"write", "read"} /\ C!Left(i) \in Nat
           /\ call[i].tot \in Nat /\ call[i].tot <= call[i].off
<1>1. C!Here(i) = BlockAt(call[i].off)
  BY DEF C!Here, BlockAt
<1>2. CallSound(i) /\ size[i] \in Nat /\ size[i] <= MaxBytes /\ MaxBytes \in Nat
  BY InodeTypes
<1>3. call[i].op \in {"write", "read"} /\ call[i].off \in Nat /\ C!Left(i) \in Nat
      /\ call[i].tot \in Nat
  BY CallTypes DEF ContentInv
<1>4. call[i].off < MaxBytes /\ call[i].tot <= call[i].off
  BY <1>2, <1>3 DEF CallSound
<1> QED
  BY <1>1, <1>3, <1>4, BlockOfByte

LEMMA ReachIs ==
    ASSUME ContentInv, NEW i \in Inodes
    PROVE  /\ Reach(i) \in Nat /\ Reach(i) <= MaxBytes
           /\ \A x \in 0..(Reach(i) - 1) : x \in Nat /\ BlockAt(x) \in 0..(C!MAXFILE - 1)
<1>1. CallSound(i) /\ size[i] \in Nat /\ size[i] <= MaxBytes /\ MaxBytes \in Nat
  BY InodeTypes
<1>2. call[i].op = "write" =>
          /\ call[i].off \in Nat /\ call[i].off <= MaxBytes
          /\ C!Left(i) \in Int
  <2>1. call[i].op = "write" =>
            /\ call[i].off \in Nat /\ call[i].tot \in Nat /\ Len(call[i].src) \in Nat
            /\ C!Left(i) = Len(call[i].src) - call[i].tot
    BY CallTypes DEF ContentInv
  <2> QED
    BY <1>1, <2>1, SMTT(30) DEF CallSound
<1>3. Reach(i) \in Nat /\ Reach(i) <= MaxBytes
  BY <1>1, <1>2 DEF Reach
<1> QED
  BY <1>1, <1>3, BlockOfByte

(* Unless it is being truncated, an inode owns what it maps. *)
LEMMA MappedIsNamed ==
    ASSUME NEW i \in Inodes, NEW k \in 0..(C!MAXFILE - 1), ~C!Freed(i, k)
    PROVE  C!Named(i, k) = C!Mapped(i, k) /\ k \in 0..(C!MAXFILE + 1)
<1>1. k \in 0..(C!MAXFILE + 1) /\ k < C!MAXFILE
  BY ContentNumbers
<1> QED
  BY <1>1, NamedCases

(* Its path to its blocks. *)
LEMMA SameMap ==
    ASSUME ContentInv, NEW i \in Inodes, addrs'[i] = addrs[i],
           C!Indirect(i) # 0 => data'[C!Indirect(i)] = data[C!Indirect(i)]
    PROVE  \A k \in 0..(C!MAXFILE - 1) : C!Mapped(i, k)' = C!Mapped(i, k)
<1>1. C!Indirect(i)' = C!Indirect(i)
  BY DEF C!Indirect
<1>2. ASSUME NEW k \in 0..(C!MAXFILE - 1) PROVE C!Mapped(i, k)' = C!Mapped(i, k)
  <2>1. CASE k < NDIRECT
    BY <2>1, ContentNumbers DEF C!Mapped
  <2>2. CASE ~(k < NDIRECT) /\ C!Indirect(i) = 0
    BY <1>1, <2>2, ContentNumbers DEF C!Mapped
  <2>3. CASE ~(k < NDIRECT) /\ C!Indirect(i) # 0
    BY <1>1, <2>3, ContentNumbers DEF C!Mapped
  <2> QED
    BY <2>1, <2>2, <2>3
<1> QED
  BY <1>2

LEMMA Untouched ==
    ASSUME ContentInv, NEW i \in Inodes,
           addrs'[i] = addrs[i], size'[i] = size[i], dinode'[i] = dinode[i],
           holder'[i] = holder[i], call'[i] = call[i], bno'[i] = bno[i], file'[i] = file[i],
           \A k \in 0..(C!MAXFILE + 1) :
               C!Named(i, k) # 0 => data'[C!Named(i, k)] = data[C!Named(i, k)]
    PROVE  /\ InodeSound(i)'
           /\ \A k \in 0..(C!MAXFILE + 1) : C!Named(i, k)' = C!Named(i, k)
<1>1. C!Indirect(i)' = C!Indirect(i)
  BY DEF C!Indirect
<1>2. \A k \in 0..(C!MAXFILE - 1) : C!Mapped(i, k)' = C!Mapped(i, k)
  <2>1. C!MAXFILE \in 0..(C!MAXFILE + 1) /\ C!Named(i, C!MAXFILE) = C!Indirect(i)
    BY ContentNumbers, NamedCases
  <2> QED
    BY <2>1, SameMap
<1>3. C!Left(i)' = C!Left(i) /\ C!Here(i)' = C!Here(i) /\ Reach(i)' = Reach(i)
  BY DEF C!Left, C!Here, Reach
<1>4. InodeSound(i)
  BY DEF ContentInv
<1>5. CallSound(i)'
  <2>1. PICK h : h = C!Here(i)
    OBVIOUS
  <2>2. C!Left(i) > 0 => C!Mapped(i, h)' = C!Mapped(i, h)
    BY <1>2, <2>1, HereIs
  <2>3. C!Left(i) > 0 => C!Mapped(i, C!Here(i))' = C!Mapped(i, C!Here(i))
    BY <1>3, <2>1, <2>2
  <2> QED
    BY <1>3, <1>4, <2>3 DEF InodeSound, CallSound
<1>6. BytesSound(i)'
  <2>1. size'[i] = Len(file'[i])
    BY <1>4 DEF InodeSound, BytesSound
  <2>2. ASSUME call'[i].op # "trunc", NEW x \in 0..(Reach(i)' - 1)
        PROVE  C!Mapped(i, BlockAt(x))' # 0 /\ C!ByteAt(i, x)' = Expected(i, x)'
    <3>1. x \in 0..(Reach(i) - 1) /\ BlockAt(x) \in 0..(C!MAXFILE - 1)
      BY <1>3, <2>2, ReachIs
    <3>2. C!Mapped(i, BlockAt(x)) # 0 /\ C!ByteAt(i, x) = Expected(i, x)
      BY <1>4, <2>2, <3>1 DEF InodeSound, BytesSound
    <3>3. C!Mapped(i, BlockAt(x))' = C!Mapped(i, BlockAt(x))
      BY <1>2, <3>1
    <3>4. data'[C!Mapped(i, BlockAt(x))] = data[C!Mapped(i, BlockAt(x))]
      <4>1. ~C!Freed(i, BlockAt(x))
        BY <2>2 DEF C!Freed
      <4> QED
        BY <3>1, <3>2, <4>1, MappedIsNamed
    <3>5. C!ByteAt(i, x)' = C!ByteAt(i, x)
      BY <3>3, <3>4 DEF C!ByteAt, BlockAt
    <3>6. Expected(i, x)' = Expected(i, x)
      BY DEF Expected
    <3> QED
      BY <3>2, <3>3, <3>5, <3>6
  <2> QED
    BY <2>1, <2>2 DEF BytesSound
<1>7. DinodeSound(i)'
  BY <1>3, <1>4 DEF InodeSound, DinodeSound, WillGrow
<1>8. \A k \in 0..(C!MAXFILE - 1) : C!Mapped(i, k)' \in BlocksOr0
  BY <1>2, <1>4 DEF InodeSound
<1>9. InodeSound(i)'
  BY <1>5, <1>6, <1>7, <1>8 DEF InodeSound
<1>10. ASSUME NEW k \in 0..(C!MAXFILE + 1) PROVE C!Named(i, k)' = C!Named(i, k)
  <2>1. C!Freed(i, k)' = C!Freed(i, k)
    BY DEF C!Freed
  <2>2. k \in 0..(C!MAXFILE - 1) \/ k = C!MAXFILE \/ k = C!MAXFILE + 1
    BY ContentNumbers
  <2> QED
    BY <1>1, <1>2, <2>1, <2>2 DEF C!Named
<1> QED
  BY <1>9, <1>10

(* A step on one inode writes to blocks that it owns. *)
OnlyOwn(i) ==
    \A b \in Blocks : data'[b] # data[b] => \E k \in 0..(C!MAXFILE + 1) : C!Named(i, k) = b

LEMMA OthersUntouched ==
    ASSUME ContentInv, NEW i \in Inodes, OnlyOwn(i),
           \A j \in Inodes \ {i} :
              /\ addrs'[j] = addrs[j] /\ size'[j] = size[j] /\ dinode'[j] = dinode[j]
              /\ holder'[j] = holder[j] /\ call'[j] = call[j] /\ bno'[j] = bno[j]
              /\ file'[j] = file[j]
    PROVE  \A j \in Inodes \ {i} :
              /\ InodeSound(j)'
              /\ \A k \in 0..(C!MAXFILE + 1) : C!Named(j, k)' = C!Named(j, k)
<1> SUFFICES ASSUME NEW j \in Inodes, j # i
             PROVE  /\ InodeSound(j)'
                    /\ \A k \in 0..(C!MAXFILE + 1) : C!Named(j, k)' = C!Named(j, k)
  OBVIOUS
<1>1. ASSUME NEW k \in 0..(C!MAXFILE + 1), C!Named(j, k) # 0
      PROVE  data'[C!Named(j, k)] = data[C!Named(j, k)]
  <2>1. C!Named(j, k) \in Blocks
    BY <1>1, NamedType DEF BlocksOr0
  <2>2. \A l \in 0..(C!MAXFILE + 1) : C!Named(i, l) # C!Named(j, k)
    BY <1>1, OwnerIsOne
  <2> QED
    BY <2>1, <2>2 DEF OnlyOwn
<1>2. /\ addrs'[j] = addrs[j] /\ size'[j] = size[j] /\ dinode'[j] = dinode[j]
      /\ holder'[j] = holder[j] /\ call'[j] = call[j] /\ bno'[j] = bno[j]
      /\ file'[j] = file[j]
  OBVIOUS
<1> QED
  BY <1>1, <1>2, Untouched

(* The names in the next state. *)
NextNames == AllNames'

LEMMA NextNamesAre ==
    ASSUME NEW i \in Inodes, NEW k \in 0..(C!MAXFILE + 1)
    PROVE  /\ <<i, k>> \in C!Places
           /\ AllNames[<<i, k>>] = C!Named(i, k)
           /\ NextNames[<<i, k>>] = C!Named(i, k)'
<1>1. <<i, k>> \in C!Places
  BY DEF C!Places
<1>2. AllNames[<<i, k>>] = C!Named(i, k)
  BY <1>1 DEF AllNames
<1>3. NextNames[<<i, k>>] = C!Named(i, k)'
  BY <1>1 DEF AllNames, NextNames
<1> QED
  BY <1>1, <1>2, <1>3

LEMMA PlacesAre ==
    ASSUME NEW q \in C!Places
    PROVE  \E i \in Inodes, k \in 0..(C!MAXFILE + 1) : q = <<i, k>>
  BY DEF C!Places

LEMMA NoNameChanges ==
    ASSUME \A i \in Inodes : \A k \in 0..(C!MAXFILE + 1) : C!Named(i, k)' = C!Named(i, k)
    PROVE  \A q \in C!Places : NextNames[q] = AllNames[q]
<1> SUFFICES ASSUME NEW q \in C!Places PROVE NextNames[q] = AllNames[q]
  OBVIOUS
<1>1. PICK i \in Inodes, k \in 0..(C!MAXFILE + 1) : q = <<i, k>>
  BY PlacesAre
<1> QED
  BY <1>1, NextNamesAre

LEMMA OneNameChanges ==
    ASSUME NEW i \in Inodes, NEW l \in 0..(C!MAXFILE + 1),
           \A j \in Inodes \ {i} : \A k \in 0..(C!MAXFILE + 1) : C!Named(j, k)' = C!Named(j, k),
           \A k \in 0..(C!MAXFILE + 1) \ {l} : C!Named(i, k)' = C!Named(i, k)
    PROVE  \A q \in C!Places \ {<<i, l>>} : NextNames[q] = AllNames[q]
<1> SUFFICES ASSUME NEW q \in C!Places, q # <<i, l>> PROVE NextNames[q] = AllNames[q]
  OBVIOUS
<1>1. PICK j \in Inodes, k \in 0..(C!MAXFILE + 1) : q = <<j, k>>
  BY PlacesAre
<1>2. C!Named(j, k)' = C!Named(j, k)
  BY <1>1
<1> QED
  BY <1>1, <1>2, NextNamesAre

LEMMA ContentParts ==
    ASSUME NEW i \in Inodes, ContentTypeOK', Owned(NextNames, bitmap'), InodeSound(i)',
           \A j \in Inodes \ {i} : InodeSound(j)'
    PROVE  ContentInv'
<1>1. \A j \in Inodes : InodeSound(j)'
  OBVIOUS
<1>2. Owned(AllNames, bitmap)'
  BY DEF NextNames, Owned
<1> QED
  BY <1>1, <1>2 DEF ContentInv

(* A call that ends or begins keeps the blocks where they are. *)
LEMMA SameBlocks ==
    ASSUME ContentInv, NEW i \in Inodes, data' = data, addrs'[i] = addrs[i], bno'[i] = bno[i],
           call[i].op # "trunc", call'[i].op = "trunc" => call'[i].next = 0
    PROVE  /\ \A k \in 0..(C!MAXFILE - 1) : C!Mapped(i, k)' = C!Mapped(i, k)
           /\ \A k \in 0..(C!MAXFILE + 1) : C!Named(i, k)' = C!Named(i, k)
           /\ OnlyOwn(i)
<1>1. C!Indirect(i)' = C!Indirect(i)
  BY DEF C!Indirect
<1>2. \A k \in 0..(C!MAXFILE - 1) : C!Mapped(i, k)' = C!Mapped(i, k)
  BY SameMap
<1>3. ASSUME NEW k \in 0..(C!MAXFILE + 1) PROVE C!Named(i, k)' = C!Named(i, k)
  <2>1. ~C!Freed(i, k) /\ ~C!Freed(i, k)'
    BY ContentNumbers DEF C!Freed
  <2>2. k \in 0..(C!MAXFILE - 1) \/ k = C!MAXFILE \/ k = C!MAXFILE + 1
    BY ContentNumbers
  <2> QED
    BY <1>1, <1>2, <2>1, <2>2 DEF C!Named
<1>4. OnlyOwn(i)
  BY DEF OnlyOwn
<1> QED
  BY <1>2, <1>3, <1>4

(* Unsigned addition that does not wrap. *)
LEMMA PlusIs ==
    ASSUME NEW a \in 0..(W - 1), NEW b \in 0..(W - 1), C!Plus(a, b) >= a
    PROVE  C!Plus(a, b) = a + b
<1>1. W \in Nat \ {0}
  BY ContentAssumption
<1>2. a + b < W => (a + b) % W = a + b
  BY <1>1
<1>3. a + b >= W => (a + b) % W = a + b - W
  BY <1>1
<1> QED
  BY <1>1, <1>2, <1>3 DEF C!Plus

-----------------------------------------------------------------------------
(* Calls begin *)

LEMMA BeginStep ==
    ASSUME ContentInv, NEW p \in Procs, NEW i \in Inodes,
           NEW c \in WriteCalls \cup ReadCalls \cup TruncCalls, C!Begin(p, i, c),
           c.op = "write" =>
              c.tot = 0 /\ c.off <= size[i] /\ c.off + Len(c.src) <= MaxBytes,
           c.op = "read" => c.tot = 0 /\ c.off + c.n <= size[i] /\ c.dst = <<>>,
           c.op = "trunc" => c.next = 0
    PROVE  ContentInv'
<1>1. /\ holder[i] = NoProc /\ panic' = panic /\ file' = file /\ bitmap' = bitmap
      /\ data' = data /\ addrs' = addrs /\ size' = size /\ dinode' = dinode /\ bno' = bno
      /\ holder' = [holder EXCEPT ![i] = p] /\ call' = [call EXCEPT ![i] = c]
  BY DEF C!Begin
<1>2. call[i].op = "none" /\ bno[i] = NoBlock
  BY <1>1, InodeTypes DEF CallSound
<1>3. call'[i] = c /\ holder'[i] = p /\ p # NoProc
  BY <1>1, ContentAssumption DEF ContentInv, ContentTypeOK
<1>4. c.op \in {"write", "read", "trunc"}
  BY DEF WriteCalls, ReadCalls, TruncCalls
<1>5. ContentTypeOK'
  <2>1. holder' \in [Inodes -> Procs \cup {NoProc}]
    BY <1>1 DEF ContentInv, ContentTypeOK
  <2>2. call' \in [Inodes -> WriteCalls \cup ReadCalls \cup TruncCalls \cup NoCalls]
    BY <1>1 DEF ContentInv, ContentTypeOK
  <2> QED
    BY <1>1, <2>1, <2>2 DEF ContentInv, ContentTypeOK
<1>6. /\ \A k \in 0..(C!MAXFILE - 1) : C!Mapped(i, k)' = C!Mapped(i, k)
      /\ \A k \in 0..(C!MAXFILE + 1) : C!Named(i, k)' = C!Named(i, k)
      /\ OnlyOwn(i)
  BY <1>1, <1>2, <1>3, SameBlocks
<1>7. \A j \in Inodes \ {i} :
         InodeSound(j)' /\ \A k \in 0..(C!MAXFILE + 1) : C!Named(j, k)' = C!Named(j, k)
  BY <1>1, <1>6, OthersUntouched DEF ContentInv, ContentTypeOK
<1>8. Owned(NextNames, bitmap')
  BY <1>1, <1>6, <1>7, NoNameChanges, OwnedSame DEF ContentInv
<1>9. CallSound(i)'
  <2>1. c.op = "write" => c.off \in Nat /\ c.tot = 0 /\ Len(c.src) \in Nat
    BY <1>4 DEF WriteCalls, ReadCalls, TruncCalls
  <2>2. c.op = "write" => C!Left(i)' = Len(c.src)
    BY <1>3, <2>1 DEF C!Left
  <2>3. c.op = "read" => c.off \in Nat /\ c.tot = 0 /\ c.n \in Nat
    BY <1>4 DEF WriteCalls, ReadCalls, TruncCalls
  <2>4. c.op = "read" => C!Left(i)' = c.n
    BY <1>3, <2>3 DEF C!Left
  <2>5. c.op = "read" => c.dst = SubSeq(file[i], c.off - c.tot + 1, c.off)
    <3> SUFFICES ASSUME c.op = "read" PROVE c.dst = SubSeq(file[i], c.off - c.tot + 1, c.off)
      OBVIOUS
    <3>1. c.off \in Int /\ c.off - c.tot + 1 \in Int /\ c.off < c.off - c.tot + 1
      BY <2>3
    <3>2. SubSeq(file[i], c.off - c.tot + 1, c.off) = <<>>
      BY <3>1, SubSeqEmpty
    <3> QED
      BY <3>2
  <2>6. c.op = "trunc" => 0 <= C!MAXFILE /\ \A k \in 0..(NDIRECT - 1) : ~(k < 0)
    BY ContentNumbers
  <2> QED
    BY <1>1, <1>2, <1>3, <1>4, <2>1, <2>2, <2>3, <2>4, <2>5, <2>6, InodeTypes DEF CallSound
<1>10. BytesSound(i)'
  <2>1. Reach(i) = size[i] /\ Reach(i)' = size[i]
    <3>1. c.op = "write" => c.off \in Nat /\ c.off <= size[i]
      BY <1>4 DEF WriteCalls, ReadCalls, TruncCalls
    <3> QED
      BY <1>1, <1>2, <1>3, <3>1, InodeTypes DEF Reach
  <2>2. ASSUME NEW x \in 0..(size[i] - 1)
        PROVE  C!Mapped(i, BlockAt(x))' # 0 /\ C!ByteAt(i, x)' = Expected(i, x)'
    <3>1. C!Mapped(i, BlockAt(x)) # 0 /\ C!ByteAt(i, x) = Expected(i, x)
      BY <1>2, <2>1, <2>2, InodeTypes DEF BytesSound
    <3>2. C!Mapped(i, BlockAt(x))' = C!Mapped(i, BlockAt(x))
      BY <1>6, <2>1, ReachIs
    <3>3. C!ByteAt(i, x)' = C!ByteAt(i, x)
      BY <1>1, <3>2 DEF C!ByteAt, BlockAt
    <3>4. Expected(i, x) = file[i][x + 1]
      BY <1>2 DEF Expected
    <3>5. Expected(i, x)' = file[i][x + 1]
      <4>1. c.op = "write" => c.off \in Nat /\ c.off - c.tot = c.off
        BY <1>4 DEF WriteCalls, ReadCalls, TruncCalls
      <4> QED
        BY <1>1, <1>3, <4>1 DEF Expected
    <3> QED
      BY <3>1, <3>2, <3>3, <3>4, <3>5
  <2> QED
    BY <1>1, <2>1, <2>2, InodeTypes DEF BytesSound
<1>11. DinodeSound(i)'
  BY <1>1, <1>2, InodeTypes DEF DinodeSound, WillGrow
<1>12. InodeSound(i)'
  BY <1>6, <1>9, <1>10, <1>11, InodeTypes DEF InodeSound
<1> QED
  BY <1>5, <1>7, <1>8, <1>12, ContentParts

LEMMA CallWriteStep ==
    ASSUME ContentInv, NEW p \in Procs, NEW i \in Inodes, C!CallWrite(p, i)
    PROVE  ContentInv'
<1>1. PICK off \in Offsets, src \in Sources :
         /\ C!Fits(i, off, Len(src))
         /\ C!Begin(p, i, [op |-> "write", off |-> off, tot |-> 0, src |-> src])
  BY DEF C!CallWrite
<1>2. PICK c : c = [op |-> "write", off |-> off, tot |-> 0, src |-> src]
  OBVIOUS
<1>3. off \in 0..(W - 1) /\ Len(src) \in 0..(W - 1) /\ src \in Seq(Nat) /\ off \in Nat
  BY ContentAssumption
<1>4. C!Plus(off, Len(src)) = off + Len(src)
  BY <1>1, <1>3, PlusIs DEF C!Fits
<1>5. off <= size[i] /\ off + Len(src) <= MaxBytes
  BY <1>1, <1>4 DEF C!Fits, MaxBytes
<1>6. c \in WriteCalls
  BY <1>2, <1>3 DEF WriteCalls
<1>7. c.op = "write" /\ c.tot = 0 /\ c.off <= size[i] /\ c.off + Len(c.src) <= MaxBytes
  BY <1>2, <1>5
<1>8. C!Begin(p, i, c)
  BY <1>1, <1>2
<1> QED
  BY <1>6, <1>7, <1>8, BeginStep

LEMMA CallReadStep ==
    ASSUME ContentInv, NEW p \in Procs, NEW i \in Inodes, C!CallRead(p, i)
    PROVE  ContentInv'
<1>1. PICK off \in Offsets, m \in Sizes :
         /\ off <= size[i] /\ C!Plus(off, m) >= off
         /\ C!Begin(p, i, [op |-> "read", off |-> off, tot |-> 0,
                           n |-> IF C!Plus(off, m) > size[i] THEN size[i] - off ELSE m,
                           dst |-> <<>>])
  BY DEF C!CallRead
<1>2. off \in 0..(W - 1) /\ m \in 0..(W - 1) /\ off \in Nat /\ m \in Nat /\ size[i] \in Nat
  BY ContentAssumption, InodeTypes
<1>3. C!Plus(off, m) = off + m
  BY <1>1, <1>2, PlusIs
<1>4. PICK l : l = IF C!Plus(off, m) > size[i] THEN size[i] - off ELSE m
  OBVIOUS
<1>5. l \in Nat /\ off + l <= size[i]
  BY <1>1, <1>2, <1>3, <1>4
<1>6. PICK c : c = [op |-> "read", off |-> off, tot |-> 0, n |-> l, dst |-> <<>>]
  OBVIOUS
<1>7. c \in ReadCalls
  BY <1>2, <1>5, <1>6 DEF ReadCalls
<1>8. c.op = "read" /\ c.tot = 0 /\ c.off + c.n <= size[i] /\ c.dst = <<>>
  BY <1>5, <1>6
<1>9. C!Begin(p, i, c)
  BY <1>1, <1>4, <1>6
<1> QED
  BY <1>7, <1>8, <1>9, BeginStep

LEMMA CallTruncStep ==
    ASSUME ContentInv, NEW p \in Procs, NEW i \in Inodes, C!CallTrunc(p, i)
    PROVE  ContentInv'
<1>1. PICK c : c = [op |-> "trunc", next |-> 0]
  OBVIOUS
<1>2. c \in TruncCalls /\ c.op = "trunc" /\ c.next = 0
  BY <1>1 DEF TruncCalls
<1>3. C!Begin(p, i, c)
  BY <1>1 DEF C!CallTrunc
<1> QED
  BY <1>2, <1>3, BeginStep

-----------------------------------------------------------------------------
(* Calls end *)

LEMMA ReadDoneStep ==
    ASSUME ContentInv, NEW p \in Procs, NEW i \in Inodes, C!ReadDone(p, i)
    PROVE  ContentInv'
<1>1. /\ panic' = panic /\ file' = file /\ bitmap' = bitmap
      /\ data' = data /\ addrs' = addrs /\ size' = size /\ dinode' = dinode /\ bno' = bno
      /\ holder' = [holder EXCEPT ![i] = NoProc]
      /\ call' = [call EXCEPT ![i] = [op |-> "none"]]
      /\ call[i].op = "read"
  BY DEF C!ReadDone, C!Unlock, C!Doing
<1>2. call'[i] = [op |-> "none"] /\ holder'[i] = NoProc /\ call'[i].op = "none"
  BY <1>1 DEF ContentInv, ContentTypeOK
<1>3. ContentTypeOK'
  <2>1. [op |-> "none"] \in NoCalls
    BY DEF NoCalls
  <2>2. holder' \in [Inodes -> Procs \cup {NoProc}]
    BY <1>1 DEF ContentInv, ContentTypeOK
  <2>3. call' \in [Inodes -> WriteCalls \cup ReadCalls \cup TruncCalls \cup NoCalls]
    BY <1>1, <2>1 DEF ContentInv, ContentTypeOK
  <2> QED
    BY <1>1, <2>2, <2>3 DEF ContentInv, ContentTypeOK
<1>4. /\ \A k \in 0..(C!MAXFILE - 1) : C!Mapped(i, k)' = C!Mapped(i, k)
      /\ \A k \in 0..(C!MAXFILE + 1) : C!Named(i, k)' = C!Named(i, k)
      /\ OnlyOwn(i)
  BY <1>1, <1>2, SameBlocks
<1>5. \A j \in Inodes \ {i} :
         InodeSound(j)' /\ \A k \in 0..(C!MAXFILE + 1) : C!Named(j, k)' = C!Named(j, k)
  BY <1>1, <1>4, OthersUntouched DEF ContentInv, ContentTypeOK
<1>6. Owned(NextNames, bitmap')
  BY <1>1, <1>4, <1>5, NoNameChanges, OwnedSame DEF ContentInv
<1>7. CallSound(i)'
  <2>1. bno[i] = NoBlock
    BY <1>1, InodeTypes DEF CallSound
  <2> QED
    BY <1>1, <1>2, <2>1 DEF CallSound
<1>8. BytesSound(i)'
  <2>1. Reach(i) = size[i] /\ Reach(i)' = size[i]
    BY <1>1, <1>2 DEF Reach
  <2>2. ASSUME NEW x \in 0..(size[i] - 1)
        PROVE  C!Mapped(i, BlockAt(x))' # 0 /\ C!ByteAt(i, x)' = Expected(i, x)'
    <3>1. C!Mapped(i, BlockAt(x)) # 0 /\ C!ByteAt(i, x) = Expected(i, x)
      BY <1>1, <2>1, <2>2, InodeTypes DEF BytesSound
    <3>2. C!Mapped(i, BlockAt(x))' = C!Mapped(i, BlockAt(x))
      BY <1>4, <2>1, ReachIs
    <3>3. C!ByteAt(i, x)' = C!ByteAt(i, x)
      BY <1>1, <3>2 DEF C!ByteAt, BlockAt
    <3>4. Expected(i, x) = file[i][x + 1] /\ Expected(i, x)' = file[i][x + 1]
      BY <1>1, <1>2 DEF Expected
    <3> QED
      BY <3>1, <3>2, <3>3, <3>4
  <2> QED
    BY <1>1, <2>1, <2>2, InodeTypes DEF BytesSound
<1>9. DinodeSound(i)'
  BY <1>1, InodeTypes DEF DinodeSound, WillGrow
<1>10. InodeSound(i)'
  BY <1>4, <1>7, <1>8, <1>9, InodeTypes DEF InodeSound
<1> QED
  BY <1>3, <1>5, <1>6, <1>10, ContentParts

LEMMA FunctionIsSeq ==
    ASSUME NEW m \in Nat, NEW g \in [1..m -> Nat]
    PROVE  g \in Seq(Nat) /\ Len(g) = m
  OBVIOUS

(* The file that writei promises. *)
LEMMA OverwrittenIs ==
    ASSUME NEW f \in Seq(Nat), NEW from \in Nat, NEW src \in Seq(Nat), from <= Len(f)
    PROVE  /\ C!Overwritten(f, from, src) \in Seq(Nat)
           /\ from + Len(src) > Len(f) => Len(C!Overwritten(f, from, src)) = from + Len(src)
           /\ ~(from + Len(src) > Len(f)) => Len(C!Overwritten(f, from, src)) = Len(f)
           /\ \A x \in 0..(Len(C!Overwritten(f, from, src)) - 1) :
                 C!Overwritten(f, from, src)[x + 1] =
                    IF from <= x /\ x < from + Len(src) THEN src[x - from + 1] ELSE f[x + 1]
<1> DEFINE g == C!Overwritten(f, from, src)
<1>1. PICK to : to = from + Len(src)
  OBVIOUS
<1>2. PICK m : m = IF to > Len(f) THEN to ELSE Len(f)
  OBVIOUS
<1>3. to \in Nat /\ m \in Nat /\ Len(f) \in Nat /\ Len(src) \in Nat
  BY <1>1, <1>2
<1>4. g = [x \in 1..m |-> IF x \in (from + 1)..to THEN src[x - from] ELSE f[x]]
  BY <1>1, <1>2 DEF C!Overwritten
<1> HIDE DEF g
<1>5. ASSUME NEW x \in 1..m
      PROVE  (IF x \in (from + 1)..to THEN src[x - from] ELSE f[x]) \in Nat
  <2>1. CASE x \in (from + 1)..to
    <3>1. x - from \in 1..Len(src)
      BY <1>1, <1>2, <1>3, <2>1
    <3>2. src[x - from] \in Nat
      BY <3>1
    <3> QED
      BY <2>1, <3>2
  <2>2. CASE x \notin (from + 1)..to
    <3>1. x \in 1..Len(f)
      BY <1>1, <1>2, <1>3, <2>2
    <3>2. f[x] \in Nat
      BY <3>1
    <3> QED
      BY <2>2, <3>2
  <2> QED
    BY <2>1, <2>2
<1>6. g \in [1..m -> Nat]
  BY <1>4, <1>5
<1>7. g \in Seq(Nat) /\ Len(g) = m
  BY <1>3, <1>6, FunctionIsSeq
<1>8. ASSUME NEW x \in 0..(m - 1)
      PROVE  g[x + 1] = IF from <= x /\ x < to THEN src[x - from + 1] ELSE f[x + 1]
  <2>1. /\ x + 1 \in 1..m /\ (x + 1 \in (from + 1)..to <=> from <= x /\ x < to)
        /\ x + 1 - from = x - from + 1
    BY <1>3
  <2>2. PICK z : z = x + 1
    OBVIOUS
  <2>3. g[z] = IF z \in (from + 1)..to THEN src[z - from] ELSE f[z]
    BY <1>4, <2>1, <2>2
  <2> QED
    BY <2>1, <2>2, <2>3
<1> QED
  BY <1>1, <1>2, <1>3, <1>7, <1>8 DEF g

LEMMA WriteDoneStep ==
    ASSUME ContentInv, NEW p \in Procs, NEW i \in Inodes, C!WriteDone(p, i)
    PROVE  ContentInv'
<1>1. /\ panic' = panic /\ bitmap' = bitmap
      /\ data' = data /\ addrs' = addrs /\ bno' = bno
      /\ holder' = [holder EXCEPT ![i] = NoProc]
      /\ call' = [call EXCEPT ![i] = [op |-> "none"]]
      /\ call[i].op = "write" /\ C!Left(i) = 0 /\ C!Grows(i)
      /\ file' = [file EXCEPT ![i] = C!Overwritten(file[i], call[i].off - call[i].tot,
                                                   call[i].src)]
  BY DEF C!WriteDone, C!Unlock, C!Doing
<1>2. call'[i] = [op |-> "none"] /\ holder'[i] = NoProc /\ call'[i].op = "none"
  BY <1>1 DEF ContentInv, ContentTypeOK
<1>3. PICK off, from, src :
        /\ off = call[i].off /\ from = call[i].off - call[i].tot /\ src = call[i].src
  OBVIOUS
<1>4. /\ off \in Nat /\ from \in Nat /\ src \in Seq(Nat) /\ Len(src) \in Nat
      /\ call[i].tot = Len(src) /\ from + Len(src) = off /\ from <= size[i]
      /\ size[i] \in Nat /\ size[i] = Len(file[i]) /\ file[i] \in Seq(Nat)
  <2>1. /\ off \in Nat /\ src \in Seq(Nat) /\ Len(src) \in Nat /\ call[i].tot \in Nat
        /\ C!Left(i) = Len(src) - call[i].tot
    BY <1>1, <1>3, CallTypes DEF ContentInv
  <2>2. call[i].tot <= off /\ from <= size[i] /\ size[i] \in Nat
    BY <1>1, <1>3, InodeTypes DEF CallSound
  <2>3. size[i] = Len(file[i]) /\ file[i] \in Seq(Nat)
    BY InodeTypes DEF BytesSound
  <2>4. PICK l, tot \in Nat : l = Len(src) /\ tot = call[i].tot
    BY <2>1
  <2>5. tot = l /\ tot <= off /\ from = off - tot
    BY <1>1, <1>3, <2>1, <2>2, <2>4
  <2>6. from \in Nat /\ from + l = off
    BY <2>1, <2>5
  <2> QED
    BY <2>1, <2>2, <2>3, <2>4, <2>5, <2>6
<1>5. PICK g : g = C!Overwritten(file[i], from, src)
  OBVIOUS
<1>6. PICK m : m = IF off > size[i] THEN off ELSE size[i]
  OBVIOUS
<1>7. /\ g \in Seq(Nat) /\ Len(g) = m
      /\ \A x \in 0..(m - 1) :
            g[x + 1] = IF from <= x /\ x < off THEN src[x - from + 1] ELSE file[i][x + 1]
  <2>1. off = from + Len(src) /\ from <= Len(file[i])
        /\ m = IF off > Len(file[i]) THEN off ELSE Len(file[i])
    BY <1>4, <1>6
  <2> QED
    <3>1. PICK f : f = file[i]
      OBVIOUS
    <3>2. /\ f \in Seq(Nat) /\ from <= Len(f) /\ off = from + Len(src)
          /\ from \in Nat /\ src \in Seq(Nat) /\ g = C!Overwritten(f, from, src)
      BY <1>4, <1>5, <3>1
    <3>3. /\ g \in Seq(Nat) /\ (off > Len(f) => Len(g) = off)
          /\ (~(off > Len(f)) => Len(g) = Len(f))
          /\ \A x \in 0..(Len(g) - 1) :
                g[x + 1] = IF from <= x /\ x < off THEN src[x - from + 1] ELSE f[x + 1]
      BY <3>2, OverwrittenIs, SMTT(30)
    <3>4. Len(g) = m
      BY <2>1, <3>1, <3>3
    <3> QED
      BY <3>1, <3>3, <3>4
<1>8. file'[i] = g /\ file' \in [Inodes -> Seq(Nat)] /\ \A j \in Inodes \ {i} : file'[j] = file[j]
  BY <1>1, <1>3, <1>5, <1>7 DEF ContentInv, ContentTypeOK
<1>9. m = Reach(i) /\ m \in 0..MaxBytes
  BY <1>1, <1>3, <1>4, <1>6, ReachIs, ContentNumbers DEF Reach
<1>10. /\ size' \in [Inodes -> 0..MaxBytes] /\ dinode' \in [Inodes -> [Slots -> BlocksOr0] \X Nat]
       /\ size'[i] = m /\ dinode'[i] = <<addrs[i], m>>
       /\ \A j \in Inodes \ {i} : size'[j] = size[j] /\ dinode'[j] = dinode[j]
  <2>1. size \in [Inodes -> 0..MaxBytes] /\ dinode \in [Inodes -> [Slots -> BlocksOr0] \X Nat]
    BY DEF ContentInv, ContentTypeOK
  <2>2. CASE off > size[i]
    <3>1. call[i].tot > 0 /\ call[i].off > size[i] /\ m = off
      BY <1>3, <1>4, <1>6, <2>2
    <3>2. /\ size' = [size EXCEPT ![i] = m]
          /\ dinode' = [dinode EXCEPT ![i] = <<addrs[i], m>>]
      BY <1>1, <1>3, <3>1 DEF C!Grows, C!Iupdate
    <3>3. <<addrs[i], m>> \in [Slots -> BlocksOr0] \X Nat
      BY <1>4, <3>1, InodeTypes
    <3> QED
      BY <1>9, <2>1, <3>2, <3>3
  <2>3. CASE ~(off > size[i])
    <3>1. size' = size /\ dinode' = dinode /\ m = size[i]
      BY <1>1, <1>3, <1>6, <2>3 DEF C!Grows
    <3>2. ~WillGrow(i)
      BY <1>1, <1>3, <2>3 DEF WillGrow
    <3>3. dinode[i] = <<addrs[i], size[i]>>
      BY <1>1, <3>2, InodeTypes DEF DinodeSound
    <3> QED
      BY <2>1, <3>1, <3>3
  <2> QED
    BY <2>2, <2>3
<1>11. ContentTypeOK'
  <2>1. [op |-> "none"] \in NoCalls
    BY DEF NoCalls
  <2>2. holder' \in [Inodes -> Procs \cup {NoProc}]
    BY <1>1 DEF ContentInv, ContentTypeOK
  <2>3. call' \in [Inodes -> WriteCalls \cup ReadCalls \cup TruncCalls \cup NoCalls]
    BY <1>1, <2>1 DEF ContentInv, ContentTypeOK
  <2>4. /\ bitmap' \subseteq Blocks /\ data' \in [Blocks -> [C!Cells -> Nat]]
        /\ addrs' \in [Inodes -> [Slots -> BlocksOr0]]
        /\ bno' \in [Inodes -> Blocks \cup {NoBlock}] /\ panic' \in {"no", "out of blocks"}
    BY <1>1 DEF ContentInv, ContentTypeOK
  <2> QED
    BY <1>8, <1>10, <2>2, <2>3, <2>4 DEF ContentTypeOK
<1>12. /\ \A k \in 0..(C!MAXFILE - 1) : C!Mapped(i, k)' = C!Mapped(i, k)
       /\ \A k \in 0..(C!MAXFILE + 1) : C!Named(i, k)' = C!Named(i, k)
       /\ OnlyOwn(i)
  BY <1>1, <1>2, SameBlocks
<1>13. \A j \in Inodes \ {i} :
          InodeSound(j)' /\ \A k \in 0..(C!MAXFILE + 1) : C!Named(j, k)' = C!Named(j, k)
  <2>1. \A j \in Inodes \ {i} :
              /\ addrs'[j] = addrs[j] /\ size'[j] = size[j] /\ dinode'[j] = dinode[j]
              /\ holder'[j] = holder[j] /\ call'[j] = call[j] /\ bno'[j] = bno[j]
              /\ file'[j] = file[j]
    BY <1>1, <1>8, <1>10 DEF ContentInv, ContentTypeOK
  <2> QED
    BY <1>12, <2>1, OthersUntouched
<1>14. Owned(NextNames, bitmap')
  BY <1>1, <1>12, <1>13, NoNameChanges, OwnedSame DEF ContentInv
<1>15. CallSound(i)'
  <2>1. bno[i] = NoBlock
    BY <1>1, InodeTypes DEF CallSound
  <2> QED
    BY <1>1, <1>2, <2>1 DEF CallSound
<1>16. BytesSound(i)'
  <2>1. Reach(i)' = m
    BY <1>2, <1>10 DEF Reach
  <2>2. ASSUME NEW x \in 0..(m - 1)
        PROVE  C!Mapped(i, BlockAt(x))' # 0 /\ C!ByteAt(i, x)' = Expected(i, x)'
    <3>1. C!Mapped(i, BlockAt(x)) # 0 /\ C!ByteAt(i, x) = Expected(i, x)
      BY <1>1, <1>9, <2>2, InodeTypes DEF BytesSound
    <3>2. C!Mapped(i, BlockAt(x))' = C!Mapped(i, BlockAt(x))
      BY <1>9, <1>12, ReachIs
    <3>3. C!ByteAt(i, x)' = C!ByteAt(i, x)
      BY <1>1, <3>2 DEF C!ByteAt, BlockAt
    <3>4. Expected(i, x)' = g[x + 1]
      BY <1>2, <1>8 DEF Expected
    <3>5. x \in Nat /\ x + 1 \in 1..m /\ (x + 1 \in (from + 1)..off <=> from <= x /\ x < off)
          /\ x - from + 1 = x + 1 - from
      BY <1>4, <1>9
    <3>6. Expected(i, x) = g[x + 1]
      <4>1. Expected(i, x) = IF from <= x /\ x < off THEN src[x - from + 1] ELSE file[i][x + 1]
        BY <1>1, <1>3 DEF Expected
      <4> QED
        BY <1>7, <4>1
    <3> QED
      BY <3>1, <3>2, <3>3, <3>4, <3>6
  <2> QED
    BY <1>7, <1>8, <1>10, <2>1, <2>2 DEF BytesSound
<1>17. DinodeSound(i)'
  BY <1>1, <1>10 DEF DinodeSound
<1>18. InodeSound(i)'
  BY <1>12, <1>15, <1>16, <1>17, InodeTypes DEF InodeSound
<1> QED
  BY <1>11, <1>13, <1>14, <1>18, ContentParts

-----------------------------------------------------------------------------
(* bmap *)

(* While its blocks stay as they are, an inode contains the same bytes. *)
LEMMA SameBytes ==
    ASSUME ContentInv, NEW i \in Inodes, data' = data, addrs'[i] = addrs[i],
           size'[i] = size[i], dinode'[i] = dinode[i], call'[i] = call[i], file'[i] = file[i]
    PROVE  /\ \A k \in 0..(C!MAXFILE - 1) : C!Mapped(i, k)' = C!Mapped(i, k)
           /\ \A k \in 0..C!MAXFILE : C!Named(i, k)' = C!Named(i, k)
           /\ C!Left(i)' = C!Left(i) /\ C!Here(i)' = C!Here(i)
           /\ BytesSound(i)' /\ DinodeSound(i)'
<1>1. C!Indirect(i)' = C!Indirect(i)
  BY DEF C!Indirect
<1>2. \A k \in 0..(C!MAXFILE - 1) : C!Mapped(i, k)' = C!Mapped(i, k)
  BY SameMap
<1>3. C!Left(i)' = C!Left(i) /\ C!Here(i)' = C!Here(i) /\ Reach(i)' = Reach(i)
  BY DEF C!Left, C!Here, Reach
<1>4. ASSUME NEW k \in 0..C!MAXFILE PROVE C!Named(i, k)' = C!Named(i, k)
  <2>1. C!Freed(i, k)' <=> C!Freed(i, k)
    BY DEF C!Freed
  <2>2. k \in 0..(C!MAXFILE - 1) \/ k = C!MAXFILE
    BY ContentNumbers
  <2>3. C!MAXFILE \in Nat /\ k \in Nat
    BY ContentNumbers
  <2>4. CASE k \in 0..(C!MAXFILE - 1)
    <3>1. ~(k > C!MAXFILE) /\ k # C!MAXFILE /\ k < C!MAXFILE
      BY <2>3, <2>4
    <3> QED
      BY <1>2, <2>1, <2>4, <3>1 DEF C!Named
  <2>5. CASE k = C!MAXFILE
    <3>1. ~(k > C!MAXFILE) /\ ~(k < C!MAXFILE)
      BY <2>3, <2>5
    <3> QED
      BY <1>1, <2>5, <3>1 DEF C!Named
  <2> QED
    BY <2>2, <2>4, <2>5
<1>5. BytesSound(i)'
  <2>1. size'[i] = Len(file'[i])
    BY InodeTypes DEF BytesSound
  <2>2. ASSUME call[i].op # "trunc", NEW x \in 0..(Reach(i) - 1)
        PROVE  C!Mapped(i, BlockAt(x))' # 0 /\ C!ByteAt(i, x)' = Expected(i, x)'
    <3>1. C!Mapped(i, BlockAt(x)) # 0 /\ C!ByteAt(i, x) = Expected(i, x)
      BY <2>2, InodeTypes DEF BytesSound
    <3>2. C!Mapped(i, BlockAt(x))' = C!Mapped(i, BlockAt(x))
      BY <1>2, ReachIs
    <3>3. C!ByteAt(i, x)' = C!ByteAt(i, x)
      BY <3>2 DEF C!ByteAt, BlockAt
    <3>4. Expected(i, x)' = Expected(i, x)
      BY DEF Expected
    <3> QED
      BY <3>1, <3>2, <3>3, <3>4
  <2> QED
    BY <1>3, <2>1, <2>2 DEF BytesSound
<1>6. DinodeSound(i)'
  BY <1>3, InodeTypes DEF DinodeSound, WillGrow
<1> QED
  BY <1>2, <1>3, <1>4, <1>5, <1>6

LEMMA BmapStep ==
    ASSUME ContentInv, NEW p \in Procs, NEW i \in Inodes, C!Bmap(p, i)
    PROVE  ContentInv'
<1>1. /\ C!Left(i) > 0 /\ bno[i] = NoBlock /\ C!Mapped(i, C!Here(i)) = 0 /\ C!Balloc(i)
      /\ data' = data /\ addrs' = addrs /\ size' = size /\ dinode' = dinode
      /\ holder' = holder /\ call' = call /\ file' = file
  BY DEF C!Bmap
<1>2. call[i].op = "write"
  <2>1. call[i].op \in {"write", "read"}
    BY <1>1, HereIs
  <2>2. call[i].op # "read"
    <3> SUFFICES ASSUME call[i].op = "read" PROVE FALSE
      OBVIOUS
    <3>1. call[i].off + C!Left(i) <= size[i] /\ Reach(i) = size[i] /\ size[i] \in Nat
      BY InodeTypes DEF CallSound, Reach
    <3>2. call[i].off \in 0..(Reach(i) - 1) /\ C!Here(i) = BlockAt(call[i].off)
      BY <1>1, <3>1, HereIs
    <3> QED
      BY <1>1, <3>2, InodeTypes DEF BytesSound
  <2> QED
    BY <2>1, <2>2
<1>3. CASE Blocks \subseteq bitmap
  <2>1. panic' = "out of blocks" /\ bitmap' = bitmap /\ bno' = bno
    BY <1>1, <1>3 DEF C!Balloc
  <2>2. ContentTypeOK'
    BY <1>1, <2>1 DEF ContentInv, ContentTypeOK
  <2>3. \A j \in Inodes :
           InodeSound(j)' /\ \A k \in 0..(C!MAXFILE + 1) : C!Named(j, k)' = C!Named(j, k)
    BY <1>1, <2>1, Untouched
  <2>4. Owned(NextNames, bitmap')
    BY <2>1, <2>3, NoNameChanges, OwnedSame DEF ContentInv
  <2> QED
    BY <2>2, <2>3, <2>4, ContentParts
<1>4. CASE ~(Blocks \subseteq bitmap)
  <2>1. PICK b \in Blocks \ bitmap :
           bitmap' = bitmap \cup {b} /\ bno' = [bno EXCEPT ![i] = b] /\ panic' = panic
    BY <1>1, <1>4 DEF C!Balloc
  <2>2. bno'[i] = b /\ b \in Blocks /\ b \notin bitmap /\ b # NoBlock
        /\ \A j \in Inodes \ {i} : bno'[j] = bno[j]
    BY <2>1, ContentAssumption DEF ContentInv, ContentTypeOK
  <2>3. ContentTypeOK'
    <3>1. bno' \in [Inodes -> Blocks \cup {NoBlock}] /\ bitmap' \subseteq Blocks
      BY <2>1 DEF ContentInv, ContentTypeOK
    <3> QED
      BY <1>1, <2>1, <3>1 DEF ContentInv, ContentTypeOK
  <2>4. /\ \A k \in 0..(C!MAXFILE - 1) : C!Mapped(i, k)' = C!Mapped(i, k)
        /\ \A k \in 0..C!MAXFILE : C!Named(i, k)' = C!Named(i, k)
        /\ C!Left(i)' = C!Left(i) /\ C!Here(i)' = C!Here(i)
        /\ BytesSound(i)' /\ DinodeSound(i)'
    BY <1>1, SameBytes
  <2>5. \A j \in Inodes \ {i} :
           InodeSound(j)' /\ \A k \in 0..(C!MAXFILE + 1) : C!Named(j, k)' = C!Named(j, k)
    BY <1>1, <2>2, OthersUntouched DEF OnlyOwn
  <2>6. PICK l : l = C!MAXFILE + 1
    OBVIOUS
  <2>7. l \in 0..(C!MAXFILE + 1) /\ \A k \in 0..(C!MAXFILE + 1) \ {l} : k \in 0..C!MAXFILE
    BY <2>6, ContentNumbers
  <2>8. C!Named(i, l) = 0 /\ C!Named(i, l)' = b
    <3>1. l > C!MAXFILE /\ l # C!MAXFILE /\ ~(l < C!MAXFILE)
      BY <2>6, ContentNumbers
    <3> QED
      BY <1>1, <2>2, <3>1 DEF C!Named
  <2>9. Owned(NextNames, bitmap')
    <3>1. \A k \in 0..(C!MAXFILE + 1) \ {l} : C!Named(i, k)' = C!Named(i, k)
      BY <2>4, <2>7
    <3>2. \A q \in C!Places \ {<<i, l>>} : NextNames[q] = AllNames[q]
      BY <2>5, <2>7, <3>1, OneNameChanges
    <3>3. <<i, l>> \in C!Places /\ AllNames[<<i, l>>] = 0 /\ NextNames[<<i, l>>] = b
      BY <2>7, <2>8, NextNamesAre
    <3>4. Owned(AllNames, bitmap)
      BY DEF ContentInv
    <3> QED
      BY <2>1, <2>2, <3>2, <3>3, <3>4, OwnedGain
  <2>10. CallSound(i)'
    <3>1. C!Mapped(i, C!Here(i))' = 0
      <4>1. PICK h : h = C!Here(i)
        OBVIOUS
      <4>2. C!Mapped(i, h)' = 0 /\ C!Here(i)' = h
        BY <1>1, <2>4, <4>1, HereIs
      <4> QED
        BY <4>2
    <3> QED
      BY <1>1, <1>2, <2>2, <2>4, <3>1, InodeTypes DEF CallSound
  <2>11. InodeSound(i)'
    BY <2>4, <2>10, InodeTypes DEF InodeSound
  <2> QED
    BY <2>3, <2>5, <2>9, <2>11, ContentParts
<1> QED
  BY <1>3, <1>4

-----------------------------------------------------------------------------
(* One turn of the loops of readi and writei *)

LEMMA ChunkIs ==
    ASSUME ContentInv, NEW i \in Inodes, C!Left(i) > 0
    PROVE  /\ C!Chunk(i) \in Nat /\ C!Chunk(i) > 0 /\ C!Chunk(i) <= C!Left(i)
           /\ Within(call[i].off) + C!Chunk(i) <= BSIZE
<1>1. call[i].off \in Nat /\ C!Left(i) \in Nat
  BY HereIs
<1>2. BSIZE \in Nat /\ Within(call[i].off) \in Nat /\ Within(call[i].off) < BSIZE
  BY <1>1, Division, ContentNumbers
<1>3. C!Chunk(i) = IF C!Left(i) < BSIZE - Within(call[i].off) THEN C!Left(i)
                   ELSE BSIZE - Within(call[i].off)
  BY DEF C!Chunk, Within
<1> QED
  BY <1>1, <1>2, <1>3

LEMMA AdvanceIs ==
    ASSUME ContentTypeOK, NEW i \in Inodes, NEW m \in Nat, call[i].op \in {"write", "read"}
    PROVE  /\ C!Advance(i, m).op = call[i].op
           /\ C!Advance(i, m).off = call[i].off + m /\ C!Advance(i, m).tot = call[i].tot + m
           /\ call[i].op = "write" =>
                 C!Advance(i, m) \in WriteCalls /\ C!Advance(i, m).src = call[i].src
           /\ call[i].op = "read" =>
                 /\ C!Advance(i, m) \in ReadCalls /\ C!Advance(i, m).n = call[i].n
                 /\ C!Advance(i, m).dst = call[i].dst
<1>1. PICK r : r = call[i]
  OBVIOUS
<1>2. C!Advance(i, m) = [r EXCEPT !.off = r.off + m, !.tot = r.tot + m]
  BY <1>1 DEF C!Advance
<1>3. CASE r.op = "write"
  <2>1. r \in WriteCalls
    BY <1>1, <1>3, CallTypes
  <2>2. PICK o \in Nat, u \in Nat, s \in Seq(Nat) :
           r = [op |-> "write", off |-> o, tot |-> u, src |-> s]
    BY <1>3, <2>1 DEF WriteCalls
  <2>3. C!Advance(i, m) = [op |-> "write", off |-> o + m, tot |-> u + m, src |-> s]
    BY <1>2, <2>2
  <2>4. o + m \in Nat /\ u + m \in Nat
    OBVIOUS
  <2>5. C!Advance(i, m) \in WriteCalls
    BY <2>3, <2>4 DEF WriteCalls
  <2> QED
    BY <1>1, <1>3, <2>2, <2>3, <2>5
<1>4. CASE r.op = "read"
  <2>1. r \in ReadCalls
    BY <1>1, <1>4, CallTypes
  <2>2. PICK o \in Nat, u \in Nat, l \in Nat, s \in Seq(Nat) :
           r = [op |-> "read", off |-> o, tot |-> u, n |-> l, dst |-> s]
    BY <1>4, <2>1 DEF ReadCalls
  <2>3. C!Advance(i, m) = [op |-> "read", off |-> o + m, tot |-> u + m, n |-> l, dst |-> s]
    BY <1>2, <2>2
  <2>4. o + m \in Nat /\ u + m \in Nat
    OBVIOUS
  <2>5. C!Advance(i, m) \in ReadCalls
    BY <2>3, <2>4 DEF ReadCalls
  <2> QED
    BY <1>1, <1>4, <2>2, <2>3, <2>5
<1> QED
  BY <1>1, <1>3, <1>4

(* What has been read, and what a turn adds. *)
LEMMA ReadMore ==
    ASSUME NEW f \in Seq(Nat), NEW a \in Nat, NEW o \in Nat, NEW m \in Nat,
           a <= o, o + m <= Len(f), NEW g \in [1..m -> Nat],
           \A k \in 1..m : g[k] = f[o + k]
    PROVE  SubSeq(f, a + 1, o) \o g = SubSeq(f, a + 1, o + m)
<1>1. g \in Seq(Nat) /\ Len(g) = m /\ Len(f) \in Nat /\ o - a \in Nat
  BY FunctionIsSeq, SMTT(30)
<1>2. PICK s : s = SubSeq(f, a + 1, o)
  OBVIOUS
<1>3. PICK t : t = SubSeq(f, a + 1, o + m)
  OBVIOUS
<1>4. s \in Seq(Nat) /\ Len(s) = o - a /\ \A k \in 1..(o - a) : s[k] = f[a + k]
  <2>1. a + 1 \in 1..(Len(f) + 1) /\ o \in a..Len(f) /\ a + 1 <= o + 1
    BY <1>1
  <2>2. s \in Seq(Nat) /\ Len(s) = o - a
    BY <1>1, <1>2, <2>1
  <2>3. ASSUME NEW k \in 1..(o - a) PROVE s[k] = f[a + k]
    <3>1. s[k] = f[a + 1 + k - 1] /\ a + 1 + k - 1 = a + k
      BY <1>1, <1>2, <2>1
    <3> QED
      BY <3>1
  <2> QED
    BY <2>2, <2>3
<1>5. t \in Seq(Nat) /\ Len(t) = o - a + m /\ \A k \in 1..(o - a + m) : t[k] = f[a + k]
  <2>1. a + 1 \in 1..(Len(f) + 1) /\ o + m \in a..Len(f) /\ a + 1 <= o + m + 1
    BY <1>1
  <2>2. t \in Seq(Nat) /\ Len(t) = o - a + m
    BY <1>1, <1>3, <2>1, SMTT(30)
  <2>3. ASSUME NEW k \in 1..(o - a + m) PROVE t[k] = f[a + k]
    <3>1. t[k] = f[a + 1 + k - 1] /\ a + 1 + k - 1 = a + k
      BY <1>1, <1>3, <2>1
    <3> QED
      BY <3>1
  <2> QED
    BY <2>2, <2>3
<1>6. /\ s \o g \in Seq(Nat) /\ Len(s \o g) = o - a + m
      /\ \A k \in 1..(o - a + m) :
            (s \o g)[k] = IF k <= o - a THEN s[k] ELSE g[k - (o - a)]
  <2>1. Len(s \o g) = Len(s) + Len(g) /\ s \o g \in Seq(Nat)
        /\ \A k \in 1..(Len(s) + Len(g)) :
              (s \o g)[k] = IF k <= Len(s) THEN s[k] ELSE g[k - Len(s)]
    BY <1>1, <1>4, ConcatProperties, ZenonT(60)
  <2>2. Len(s) = o - a /\ Len(g) = m
    BY <1>1, <1>4
  <2> QED
    BY <2>1, <2>2
<1>7. ASSUME NEW k \in 1..(o - a + m) PROVE (s \o g)[k] = t[k]
  <2>1. CASE k <= o - a
    <3>1. k \in 1..(o - a) /\ (s \o g)[k] = s[k]
      BY <1>1, <1>6, <2>1
    <3> QED
      BY <1>4, <1>5, <2>1, <3>1
  <2>2. CASE k > o - a
    <3>1. k - (o - a) \in 1..m /\ o + (k - (o - a)) = a + k
      BY <2>2
    <3>2. (s \o g)[k] = g[k - (o - a)]
      BY <1>1, <1>6, <2>2, SMTT(30)
    <3>3. g[k - (o - a)] = f[o + (k - (o - a))]
      BY <3>1
    <3> QED
      BY <1>5, <3>1, <3>2, <3>3
  <2>3. k <= o - a \/ k > o - a
    BY <1>1
  <2> QED
    BY <2>1, <2>2, <2>3
<1>8. s \o g = t
  BY <1>5, <1>6, <1>7, SeqEqual
<1> QED
  BY <1>2, <1>3, <1>8

(* The bytes that a turn of readi finds. *)
LEMMA BytesRead ==
    ASSUME ContentInv, NEW i \in Inodes, call[i].op = "read", NEW m \in Nat,
           Within(call[i].off) + m <= BSIZE, C!Left(i) > 0, m <= C!Left(i)
    PROVE  \A k \in 1..m :
              data[C!Mapped(i, C!Here(i))][Within(call[i].off) + k - 1]
                 = file[i][call[i].off + k]
<1>1. /\ call[i].off \in Nat /\ C!Here(i) = BlockAt(call[i].off)
      /\ C!Left(i) \in Nat
  BY HereIs
<1>2. PICK off : off = call[i].off
  OBVIOUS
<1>3. off + C!Left(i) <= size[i] /\ Reach(i) = size[i] /\ size[i] \in Nat
  BY <1>2, InodeTypes DEF CallSound, Reach
<1>4. Within(off) \in Nat /\ BSIZE \in Nat
  BY <1>1, <1>2, Division, ContentNumbers
<1>5. ASSUME NEW k \in 1..m
      PROVE  data[C!Mapped(i, BlockAt(off))][Within(off) + k - 1] = file[i][off + k]
  <2>1. PICK x : x = off + k - 1
    OBVIOUS
  <2>2. x \in 0..(Reach(i) - 1) /\ x \in Nat /\ off <= x /\ x - off = k - 1 /\ x + 1 = off + k
    BY <1>1, <1>2, <1>3, <2>1
  <2>3. Within(off) + (x - off) < BSIZE
    BY <1>2, <1>4, <2>2
  <2>4. BlockAt(x) = BlockAt(off) /\ Within(x) = Within(off) + (x - off)
    BY <1>1, <1>2, <2>2, <2>3, InChunk
  <2>5. Within(x) = Within(off) + k - 1
    BY <1>4, <2>2, <2>4
  <2>6. C!ByteAt(i, x) = Expected(i, x)
    BY <2>2, InodeTypes DEF BytesSound
  <2>7. Expected(i, x) = file[i][off + k]
    BY <2>2 DEF Expected
  <2> QED
    BY <2>4, <2>5, <2>6, <2>7, ByteIs
<1> QED
  BY <1>1, <1>2, <1>5

LEMMA ReadiStep ==
    ASSUME ContentInv, NEW p \in Procs, NEW i \in Inodes, C!Readi(p, i)
    PROVE  ContentInv'
<1>1. PICK m, b, c :
        m = C!Chunk(i) /\ b = C!Mapped(i, C!Here(i)) /\ c = Within(call[i].off)
  OBVIOUS
<1>2. /\ call[i].op = "read" /\ C!Left(i) > 0 /\ bno[i] = NoBlock /\ b # 0
      /\ panic' = panic /\ file' = file /\ bitmap' = bitmap /\ holder' = holder
      /\ data' = data /\ addrs' = addrs /\ size' = size /\ dinode' = dinode /\ bno' = bno
      /\ call' = [call EXCEPT ![i] = [C!Advance(i, m) EXCEPT !.dst =
                      C!Advance(i, m).dst \o [k \in 1..m |-> data[b][c + k - 1]]]]
  BY <1>1 DEF C!Readi, C!Ready, C!Doing, Within
<1>3. m \in Nat /\ m > 0 /\ m <= C!Left(i) /\ c + m <= BSIZE
  BY <1>1, <1>2, ChunkIs
<1>4. /\ call[i].off \in Nat /\ call[i].tot \in Nat /\ call[i].n \in Nat
      /\ call[i].dst \in Seq(Nat) /\ C!Left(i) = call[i].n - call[i].tot
  BY <1>2, CallTypes DEF ContentInv
<1>5. PICK off, tot, f : off = call[i].off /\ tot = call[i].tot /\ f = file[i]
  OBVIOUS
<1>6. /\ off \in Nat /\ tot \in Nat /\ off - tot \in Nat /\ off + C!Left(i) <= size[i]
      /\ C!Left(i) \in Nat /\ size[i] \in Nat /\ size[i] = Len(f) /\ f \in Seq(Nat)
      /\ call[i].dst = SubSeq(f, off - tot + 1, off)
  <2>1. tot <= off /\ off + C!Left(i) <= size[i] /\ call[i].dst = SubSeq(f, off - tot + 1, off)
    BY <1>2, <1>5, InodeTypes DEF CallSound
  <2>2. size[i] \in Nat /\ size[i] = Len(f) /\ f \in Seq(Nat)
    BY <1>5, InodeTypes DEF BytesSound
  <2>3. C!Left(i) \in Nat /\ off \in Nat /\ tot \in Nat
    BY <1>2, <1>4, <1>5, HereIs
  <2>4. tot <= off => off - tot \in Nat
    BY <2>3
  <2> QED
    BY <2>1, <2>2, <2>3, <2>4
<1>7. PICK g : g = [k \in 1..m |-> data[b][c + k - 1]]
  OBVIOUS
<1>8. \A k \in 1..m : data[b][c + k - 1] = f[off + k] /\ f[off + k] \in Nat
  <2>1. \A k \in 1..m : data[b][c + k - 1] = f[off + k]
    BY <1>1, <1>2, <1>3, <1>5, BytesRead
  <2>2. ASSUME NEW k \in 1..m PROVE f[off + k] \in Nat
    <3>1. off \in Nat /\ m \in Nat /\ off + m <= Len(f) /\ Len(f) \in Nat
      BY <1>3, <1>6
    <3>2. off + k \in 1..Len(f)
      BY <3>1
    <3>3. f \in Seq(Nat) => \A j \in 1..Len(f) : f[j] \in Nat
      OBVIOUS
    <3>4. f \in Seq(Nat)
      BY <1>6
    <3> QED
      BY <3>2, <3>3, <3>4
  <2> QED
    BY <2>1, <2>2
<1>9. g \in [1..m -> Nat] /\ \A k \in 1..m : g[k] = f[off + k]
  BY <1>7, <1>8
<1>10. call[i].dst \o g = SubSeq(f, off - tot + 1, off + m)
  <2>1. PICK a : a = off - tot
    OBVIOUS
  <2>2. a \in Nat /\ a <= off /\ off + m <= Len(f)
    BY <1>3, <1>6, <2>1
  <2>3. SubSeq(f, a + 1, off) \o g = SubSeq(f, a + 1, off + m)
    <3>1. f \in Seq(Nat) /\ off \in Nat /\ m \in Nat
      BY <1>3, <1>6
    <3> QED
      BY <1>9, <2>2, <3>1, ReadMore, ZenonT(60)
  <2> QED
    BY <1>6, <2>1, <2>3
<1>11. PICK a : a = [C!Advance(i, m) EXCEPT !.dst = C!Advance(i, m).dst \o g]
  OBVIOUS
<1>12. /\ a \in ReadCalls /\ a.op = "read" /\ a.off = off + m /\ a.tot = tot + m
       /\ a.n = call[i].n /\ a.dst = call[i].dst \o g
  <2>1. PICK d : d = C!Advance(i, m)
    OBVIOUS
  <2>2. /\ d \in ReadCalls /\ d.op = "read" /\ d.off = off + m /\ d.tot = tot + m
        /\ d.n = call[i].n /\ d.dst = call[i].dst
    BY <1>2, <1>3, <1>5, <2>1, AdvanceIs DEF ContentInv
  <2>3. g \in Seq(Nat)
    BY <1>3, <1>9, FunctionIsSeq
  <2>4. call[i].dst \o g \in Seq(Nat)
    BY <1>4, <2>3
  <2>5. a = [d EXCEPT !.dst = call[i].dst \o g]
    BY <1>11, <2>1, <2>2
  <2> QED
    BY <2>2, <2>4, <2>5 DEF ReadCalls
<1>13. call' = [call EXCEPT ![i] = a] /\ call'[i] = a
  BY <1>2, <1>7, <1>11 DEF ContentInv, ContentTypeOK
<1>14. ContentTypeOK'
  <2>1. call' \in [Inodes -> WriteCalls \cup ReadCalls \cup TruncCalls \cup NoCalls]
    BY <1>12, <1>13 DEF ContentInv, ContentTypeOK
  <2> QED
    BY <1>2, <2>1 DEF ContentInv, ContentTypeOK
<1>15. /\ \A k \in 0..(C!MAXFILE - 1) : C!Mapped(i, k)' = C!Mapped(i, k)
       /\ \A k \in 0..(C!MAXFILE + 1) : C!Named(i, k)' = C!Named(i, k)
       /\ OnlyOwn(i)
  BY <1>2, <1>12, <1>13, SameBlocks
<1>16. \A j \in Inodes \ {i} :
          InodeSound(j)' /\ \A k \in 0..(C!MAXFILE + 1) : C!Named(j, k)' = C!Named(j, k)
  BY <1>2, <1>13, <1>15, OthersUntouched DEF ContentInv, ContentTypeOK
<1>17. Owned(NextNames, bitmap')
  BY <1>2, <1>15, <1>16, NoNameChanges, OwnedSame DEF ContentInv
<1>18. CallSound(i)'
  <2>1. C!Left(i)' = call[i].n - (tot + m)
    BY <1>12, <1>13 DEF C!Left
  <2>2. /\ a.tot <= a.n /\ a.tot <= a.off /\ a.off + C!Left(i)' <= size[i]
        /\ a.off - a.tot = off - tot
    <3>1. /\ off \in Nat /\ tot \in Nat /\ off - tot \in Nat /\ off + C!Left(i) <= size[i]
          /\ C!Left(i) = call[i].n - tot /\ call[i].n \in Nat /\ m \in Nat
          /\ m <= C!Left(i) /\ size[i] \in Nat
      BY <1>3, <1>4, <1>5, <1>6
    <3>2. C!Left(i)' = C!Left(i) - m
      BY <2>1, <3>1
    <3> QED
      BY <1>12, <3>1, <3>2
  <2>3. a.dst = SubSeq(f, a.off - a.tot + 1, a.off)
    BY <1>10, <1>12, <2>2
  <2>4. holder'[i] # NoProc
    BY <1>2, InodeTypes DEF CallSound
  <2> QED
    BY <1>2, <1>5, <1>12, <1>13, <2>2, <2>3, <2>4 DEF CallSound
<1>19. BytesSound(i)'
  <2>1. Reach(i) = size[i] /\ Reach(i)' = size[i]
    BY <1>2, <1>12, <1>13 DEF Reach
  <2>2. ASSUME NEW x \in 0..(size[i] - 1)
        PROVE  C!Mapped(i, BlockAt(x))' # 0 /\ C!ByteAt(i, x)' = Expected(i, x)'
    <3>1. C!Mapped(i, BlockAt(x)) # 0 /\ C!ByteAt(i, x) = Expected(i, x)
      BY <1>2, <2>1, <2>2, InodeTypes DEF BytesSound
    <3>2. C!Mapped(i, BlockAt(x))' = C!Mapped(i, BlockAt(x))
      BY <1>15, <2>1, ReachIs
    <3>3. C!ByteAt(i, x)' = C!ByteAt(i, x)
      BY <1>2, <3>2 DEF C!ByteAt, BlockAt
    <3>4. Expected(i, x) = file[i][x + 1] /\ Expected(i, x)' = file[i][x + 1]
      BY <1>2, <1>12, <1>13 DEF Expected
    <3> QED
      BY <3>1, <3>2, <3>3, <3>4
  <2> QED
    BY <1>2, <2>1, <2>2, InodeTypes DEF BytesSound
<1>20. DinodeSound(i)'
  BY <1>2, InodeTypes DEF DinodeSound, WillGrow
<1>21. InodeSound(i)'
  BY <1>15, <1>18, <1>19, <1>20, InodeTypes DEF InodeSound
<1> QED
  BY <1>14, <1>16, <1>17, <1>21, ContentParts

(* A turn of writei: the block of the call, from the place of off on.      *)
LEMMA WriteiIs ==
    ASSUME ContentInv, NEW p \in Procs, NEW i \in Inodes, C!Writei(p, i),
           NEW m, m = C!Chunk(i), NEW h, h = C!Here(i), NEW b, b = C!Mapped(i, h),
           NEW off, off = call[i].off, NEW tot, tot = call[i].tot, NEW src, src = call[i].src
    PROVE  /\ call[i].op = "write" /\ C!Left(i) > 0 /\ bno[i] = NoBlock
           /\ b # 0 /\ b \in Blocks /\ h = BlockAt(off) /\ h \in 0..(C!MAXFILE - 1)
           /\ panic' = panic /\ file' = file /\ bitmap' = bitmap /\ holder' = holder
           /\ addrs' = addrs /\ size' = size /\ dinode' = dinode /\ bno' = bno
           /\ call' = [call EXCEPT ![i] = C!Advance(i, m)]
           /\ \A a \in Blocks \ {b} : data'[a] = data[a]
           /\ data' \in [Blocks -> [C!Cells -> Nat]]
           /\ m \in Nat /\ m > 0 /\ m <= C!Left(i) /\ Within(off) + m <= BSIZE
           /\ off \in Nat /\ tot \in Nat /\ src \in Seq(Nat) /\ Len(src) \in Nat
           /\ Within(off) \in Nat /\ C!Left(i) \in Nat /\ C!Left(i) = Len(src) - tot
<1>1. /\ call[i].op = "write" /\ C!Left(i) > 0 /\ bno[i] = NoBlock /\ b # 0
      /\ panic' = panic /\ file' = file /\ bitmap' = bitmap /\ holder' = holder
      /\ addrs' = addrs /\ size' = size /\ dinode' = dinode /\ bno' = bno
      /\ call' = [call EXCEPT ![i] = C!Advance(i, m)]
      /\ data' = [data EXCEPT ![b] =
                     [x \in C!Cells |-> IF x \in Within(off)..(Within(off) + m - 1)
                                        THEN src[tot + x - Within(off) + 1]
                                        ELSE data[b][x]]]
  BY DEF C!Writei, C!Ready, C!Doing, Within
<1>2. h = BlockAt(off) /\ h \in 0..(C!MAXFILE - 1) /\ off \in Nat /\ C!Left(i) \in Nat
  BY <1>1, HereIs
<1>3. b \in Blocks
  <2>1. C!Mapped(i, h) \in BlocksOr0
    BY <1>2, InodeTypes
  <2> QED
    BY <1>1, <2>1 DEF BlocksOr0
<1>4. m \in Nat /\ m > 0 /\ m <= C!Left(i) /\ Within(off) + m <= BSIZE
  BY <1>1, ChunkIs
<1>5. tot \in Nat /\ src \in Seq(Nat) /\ Len(src) \in Nat /\ C!Left(i) = Len(src) - tot
  BY <1>1, CallTypes DEF ContentInv
<1>6. Within(off) \in Nat
  BY <1>2, Division
<1>7. PICK cells : cells = [x \in C!Cells |-> IF x \in Within(off)..(Within(off) + m - 1)
                                              THEN src[tot + x - Within(off) + 1]
                                              ELSE data[b][x]]
  OBVIOUS
<1>8. data[b] \in [C!Cells -> Nat] /\ data \in [Blocks -> [C!Cells -> Nat]]
  BY <1>3 DEF ContentInv, ContentTypeOK
<1>9. cells \in [C!Cells -> Nat]
  <2>1. ASSUME NEW x \in C!Cells, x \in Within(off)..(Within(off) + m - 1)
        PROVE  src[tot + x - Within(off) + 1] \in Nat
    <3>1. tot + x - Within(off) + 1 \in 1..Len(src)
      <4>1. x - Within(off) \in 0..(m - 1)
        BY <1>4, <1>6, <2>1
      <4>2. tot + m <= Len(src)
        BY <1>4, <1>5
      <4>3. x \in Int
        BY <2>1, <1>6, <1>4
      <4>4. PICK d : d = x - Within(off)
        OBVIOUS
      <4>5. tot + x - Within(off) + 1 = tot + d + 1
        BY <1>5, <1>6, <4>3, <4>4
      <4>6. d \in 0..(m - 1)
        BY <4>1, <4>4
      <4>7. tot + d + 1 \in 1..Len(src)
        <5>1. PICK l : l = Len(src)
          OBVIOUS
        <5>2. l \in Nat /\ tot \in Nat /\ m \in Nat /\ tot + m <= l
          BY <1>4, <1>5, <4>2, <5>1
        <5>3. tot + d + 1 \in 1..l
          BY <4>6, <5>2
        <5> QED
          BY <5>1, <5>3
      <4> QED
        BY <4>5, <4>7
    <3> QED
      BY <1>5, <3>1, SMTT(30)
  <2>2. \A x \in C!Cells : data[b][x] \in Nat
    BY <1>8
  <2> QED
    BY <1>7, <2>1, <2>2
<1>10. data' = [data EXCEPT ![b] = cells] /\ data'[b] = cells
  BY <1>1, <1>3, <1>7, <1>8
<1>11. /\ \A a \in Blocks \ {b} : data'[a] = data[a]
       /\ data' \in [Blocks -> [C!Cells -> Nat]]
  BY <1>8, <1>9, <1>10
<1> QED
  BY <1>1, <1>2, <1>3, <1>4, <1>5, <1>6, <1>11

LEMMA WriteiCells ==
    ASSUME ContentInv, NEW p \in Procs, NEW i \in Inodes, C!Writei(p, i), NEW x \in C!Cells
    PROVE  LET b == C!Mapped(i, C!Here(i))
               c == Within(call[i].off)
           IN  data'[b][x] = IF x \in c..(c + C!Chunk(i) - 1)
                             THEN call[i].src[call[i].tot + x - c + 1] ELSE data[b][x]
<1> DEFINE b == C!Mapped(i, C!Here(i))
           c == Within(call[i].off)
           cells == [y \in C!Cells |-> IF y \in c..(c + C!Chunk(i) - 1)
                                       THEN call[i].src[call[i].tot + y - c + 1]
                                       ELSE data[b][y]]
<1>1. C!Left(i) > 0 /\ b # 0 /\ data' = [data EXCEPT ![b] = cells]
  BY DEF C!Writei, C!Ready, C!Doing, Within
<1>2. b \in Blocks
  <2>1. C!Here(i) \in 0..(C!MAXFILE - 1)
    BY <1>1, HereIs
  <2>2. b \in BlocksOr0
    BY <2>1, InodeTypes
  <2> QED
    BY <1>1, <2>2 DEF BlocksOr0
<1>3. data'[b] = cells
  BY <1>1, <1>2 DEF ContentInv, ContentTypeOK
<1>4. cells[x] = IF x \in c..(c + C!Chunk(i) - 1)
                 THEN call[i].src[call[i].tot + x - c + 1] ELSE data[b][x]
  OBVIOUS
<1> QED
  BY <1>3, <1>4

LEMMA WriteiStep ==
    ASSUME ContentInv, NEW p \in Procs, NEW i \in Inodes, C!Writei(p, i)
    PROVE  ContentInv'
<1>1. PICK m : m = C!Chunk(i)
  OBVIOUS
<1>2. PICK h : h = C!Here(i)
  OBVIOUS
<1>3. PICK b : b = C!Mapped(i, h)
  OBVIOUS
<1>4. PICK off, tot, src : off = call[i].off /\ tot = call[i].tot /\ src = call[i].src
  OBVIOUS
<1>5. /\ call[i].op = "write" /\ C!Left(i) > 0 /\ bno[i] = NoBlock
      /\ b # 0 /\ b \in Blocks /\ h = BlockAt(off) /\ h \in 0..(C!MAXFILE - 1)
      /\ panic' = panic /\ file' = file /\ bitmap' = bitmap /\ holder' = holder
      /\ addrs' = addrs /\ size' = size /\ dinode' = dinode /\ bno' = bno
      /\ call' = [call EXCEPT ![i] = C!Advance(i, m)]
      /\ \A a \in Blocks \ {b} : data'[a] = data[a]
      /\ data' \in [Blocks -> [C!Cells -> Nat]]
  BY <1>1, <1>2, <1>3, <1>4, WriteiIs
<1>6. \A x \in C!Cells :
         data'[b][x] = IF x \in Within(off)..(Within(off) + m - 1)
                       THEN src[tot + x - Within(off) + 1] ELSE data[b][x]
  <2> SUFFICES ASSUME NEW x \in C!Cells
               PROVE  data'[b][x] = IF x \in Within(off)..(Within(off) + m - 1)
                                    THEN src[tot + x - Within(off) + 1] ELSE data[b][x]
    OBVIOUS
  <2>1. data'[C!Mapped(i, C!Here(i))][x]
           = IF x \in Within(call[i].off)..(Within(call[i].off) + C!Chunk(i) - 1)
             THEN call[i].src[call[i].tot + x - Within(call[i].off) + 1]
             ELSE data[C!Mapped(i, C!Here(i))][x]
    BY WriteiCells
  <2> QED
    BY <1>1, <1>2, <1>3, <1>4, <2>1
<1>7. /\ m \in Nat /\ m > 0 /\ m <= C!Left(i) /\ Within(off) + m <= BSIZE
      /\ off \in Nat /\ tot \in Nat /\ src \in Seq(Nat) /\ Len(src) \in Nat
      /\ Within(off) \in Nat /\ C!Left(i) \in Nat /\ C!Left(i) = Len(src) - tot
  BY <1>1, <1>2, <1>3, <1>4, WriteiIs
<1>8. PICK a : a = C!Advance(i, m)
  OBVIOUS
<1>9. a \in WriteCalls /\ a.op = "write" /\ a.off = off + m /\ a.tot = tot + m /\ a.src = src
  BY <1>4, <1>5, <1>7, <1>8, AdvanceIs DEF ContentInv
<1>10. call'[i] = a /\ call'[i].op = "write"
  BY <1>5, <1>8, <1>9 DEF ContentInv, ContentTypeOK
<1>11. ContentTypeOK'
  <2>1. call' \in [Inodes -> WriteCalls \cup ReadCalls \cup TruncCalls \cup NoCalls]
    BY <1>5, <1>8, <1>9 DEF ContentInv, ContentTypeOK
  <2> QED
    BY <1>5, <2>1 DEF ContentInv, ContentTypeOK
<1>12. \A k \in 0..(C!MAXFILE - 1) : ~C!Freed(i, k)
  BY <1>5 DEF C!Freed
<1>13. C!Named(i, h) = b /\ h \in 0..(C!MAXFILE + 1)
  BY <1>3, <1>5, <1>12, MappedIsNamed
<1>14. OnlyOwn(i)
  BY <1>5, <1>13 DEF OnlyOwn
<1>15. C!Indirect(i) # 0 => data'[C!Indirect(i)] = data[C!Indirect(i)]
  <2> SUFFICES ASSUME C!Indirect(i) # 0 PROVE data'[C!Indirect(i)] = data[C!Indirect(i)]
    OBVIOUS
  <2>1. PICK l : l = C!MAXFILE
    OBVIOUS
  <2>2. l \in 0..(C!MAXFILE + 1) /\ l # h /\ C!Named(i, l) = C!Indirect(i)
    BY <1>5, <2>1, ContentNumbers, NamedCases
  <2>3. C!Indirect(i) # b
    BY <1>5, <1>13, <2>2, OwnerIsOne
  <2>4. C!Indirect(i) \in Blocks
    BY <2>2, NamedType DEF BlocksOr0
  <2> QED
    BY <1>5, <2>3, <2>4
<1>16. \A k \in 0..(C!MAXFILE - 1) : C!Mapped(i, k)' = C!Mapped(i, k)
  BY <1>5, <1>15, SameMap
<1>17. \A k \in 0..(C!MAXFILE + 1) : C!Named(i, k)' = C!Named(i, k)
  <2> SUFFICES ASSUME NEW k \in 0..(C!MAXFILE + 1) PROVE C!Named(i, k)' = C!Named(i, k)
    OBVIOUS
  <2>1. C!Indirect(i)' = C!Indirect(i)
    BY <1>5 DEF C!Indirect
  <2>2. ~C!Freed(i, k) /\ ~C!Freed(i, k)'
    BY <1>5, <1>10 DEF C!Freed
  <2>3. k \in 0..(C!MAXFILE - 1) \/ k = C!MAXFILE \/ k = C!MAXFILE + 1
    BY ContentNumbers
  <2>4. bno' = bno
    BY <1>5
  <2> QED
    BY <1>16, <2>1, <2>2, <2>3, <2>4 DEF C!Named
<1>18. \A j \in Inodes \ {i} :
          InodeSound(j)' /\ \A k \in 0..(C!MAXFILE + 1) : C!Named(j, k)' = C!Named(j, k)
  BY <1>5, <1>14, OthersUntouched DEF ContentInv, ContentTypeOK
<1>19. Owned(NextNames, bitmap')
  BY <1>5, <1>17, <1>18, NoNameChanges, OwnedSame DEF ContentInv
<1>20. tot <= off /\ off - tot <= size[i] /\ off + C!Left(i) <= MaxBytes /\ size[i] \in Nat
  BY <1>4, <1>5, InodeTypes DEF CallSound
<1>21. C!Left(i)' = C!Left(i) - m
  <2>1. C!Left(i)' = Len(src) - (tot + m)
    BY <1>9, <1>10 DEF C!Left
  <2> QED
    BY <1>7, <2>1
<1>22. CallSound(i)'
  <2>1. /\ a.tot <= Len(a.src) /\ a.tot <= a.off /\ a.off - a.tot <= size[i]
        /\ a.off + C!Left(i)' <= MaxBytes
    <3>1. tot + m <= Len(src) /\ tot + m <= off + m /\ (off + m) - (tot + m) = off - tot
          /\ off + m + (C!Left(i) - m) = off + C!Left(i)
      BY <1>7, <1>20
    <3> QED
      BY <1>9, <1>20, <1>21, <3>1
  <2>2. holder'[i] # NoProc
    BY <1>5, InodeTypes DEF CallSound
  <2> QED
    BY <1>5, <1>9, <1>10, <2>1, <2>2 DEF CallSound
<1>23. BytesSound(i)'
  <2>1. Reach(i)' = IF off + m > size[i] THEN off + m ELSE size[i]
    BY <1>5, <1>9, <1>10 DEF Reach
  <2>2. Reach(i) = IF off > size[i] THEN off ELSE size[i]
    BY <1>4, <1>5 DEF Reach
  <2>b. PICK to, done : to = off + m /\ done = tot + m
    OBVIOUS
  <2>a. /\ call'[i].op = "write" /\ call'[i].off = to /\ call'[i].tot = done
        /\ call'[i].src = src /\ file'[i] = file[i] /\ call[i].op = "write"
        /\ call[i].off = off /\ call[i].tot = tot /\ call[i].src = src
    BY <1>4, <1>5, <1>9, <1>10, <2>b
  <2>3. ASSUME NEW x \in 0..(Reach(i)' - 1), x < off \/ x >= off + m
        PROVE  C!Mapped(i, BlockAt(x))' # 0 /\ C!ByteAt(i, x)' = Expected(i, x)'
    <3>1. x \in 0..(Reach(i) - 1) /\ x \in Nat
      <4>1. PICK z \in Nat : z = size[i]
        BY <1>20
      <4>2. Reach(i) = IF off > z THEN off ELSE z
        BY <2>2, <4>1
      <4>3. Reach(i)' = IF off + m > z THEN off + m ELSE z
        BY <2>1, <4>1
      <4>4. x \in Nat /\ x < Reach(i)' /\ off \in Nat /\ m \in Nat
        <5>1. off \in Nat /\ m \in Nat
          BY <1>7
        <5>2. PICK a0 \in Nat : a0 = Reach(i)'
          BY <4>1, <4>3, <5>1
        <5>3. x \in 0..(a0 - 1)
          BY <2>3, <5>2
        <5>4. x \in Nat /\ x < a0
          BY <5>2, <5>3
        <5> QED
          BY <5>1, <5>2, <5>4
      <4>5. x < Reach(i)
        BY <2>3, <4>1, <4>2, <4>3, <4>4
      <4>6. Reach(i) \in Nat
        BY <4>1, <4>2, <4>4
      <4> QED
        BY <4>4, <4>5, <4>6
    <3>2. PICK k : k = BlockAt(x)
      OBVIOUS
    <3>3. k \in 0..(C!MAXFILE - 1)
      BY <3>1, <3>2, ReachIs
    <3>4. C!Mapped(i, k) # 0 /\ C!ByteAt(i, x) = Expected(i, x)
      BY <1>5, <3>1, <3>2, InodeTypes DEF BytesSound
    <3>5. C!Mapped(i, k)' = C!Mapped(i, k)
      BY <1>16, <3>3
    <3>6. data'[C!Mapped(i, k)][Within(x)] = data[C!Mapped(i, k)][Within(x)]
      <4>1. CASE k = h
        <5>1. x - off = Within(x) - Within(off)
          BY <1>5, <1>7, <3>1, <3>2, <4>1, SameBlock
        <5>2. Within(x) \in C!Cells /\ Within(x) \in Nat
          BY <3>1, Division
        <5>3. Within(x) \notin Within(off)..(Within(off) + m - 1)
          BY <1>7, <2>3, <3>1, <5>1, <5>2, SMTT(30)
        <5> QED
          BY <1>3, <1>6, <4>1, <5>2, <5>3
      <4>2. CASE k # h
        <5>1. C!Named(i, k) = C!Mapped(i, k) /\ k \in 0..(C!MAXFILE + 1)
          BY <1>12, <3>3, MappedIsNamed
        <5>2. C!Mapped(i, k) # b
          BY <1>5, <1>13, <4>2, <5>1, OwnerIsOne
        <5>3. C!Mapped(i, k) \in Blocks
          BY <3>3, <3>4, InodeTypes DEF BlocksOr0
        <5> QED
          BY <1>5, <5>2, <5>3
      <4> QED
        BY <4>1, <4>2
    <3>7. C!ByteAt(i, x)' = C!ByteAt(i, x)
      <4>1. C!ByteAt(i, x)' = data'[C!Mapped(i, k)'][Within(x)]
        BY <3>2 DEF C!ByteAt, BlockAt, Within
      <4>2. C!ByteAt(i, x) = data[C!Mapped(i, k)][Within(x)]
        BY <3>2, ByteIs
      <4> QED
        BY <3>5, <3>6, <4>1, <4>2
    <3>8. Expected(i, x)' = Expected(i, x)
      <4>1. Expected(i, x)' = IF to - done <= x /\ x < to
                              THEN src[x - (to - done) + 1] ELSE file[i][x + 1]
        BY <2>a, <2>b DEF Expected
      <4>2. Expected(i, x) = IF off - tot <= x /\ x < off
                             THEN src[x - (off - tot) + 1] ELSE file[i][x + 1]
        BY <2>a DEF Expected
      <4>3. to - done = off - tot
        BY <1>7, <2>b
      <4>4. off - tot <= x /\ x < to <=> off - tot <= x /\ x < off
        BY <1>7, <1>20, <2>3, <2>b, <3>1, SMTT(30)
      <4> QED
        BY <4>1, <4>2, <4>3, <4>4
    <3>9. C!Mapped(i, BlockAt(x))' # 0
      BY <3>2, <3>4, <3>5 DEF BlockAt
    <3> QED
      BY <3>4, <3>7, <3>8, <3>9
  <2>4. ASSUME NEW x \in 0..(Reach(i)' - 1), off <= x, x < off + m
        PROVE  C!Mapped(i, BlockAt(x))' # 0 /\ C!ByteAt(i, x)' = Expected(i, x)'
    <3>1. x \in Nat /\ Within(off) + (x - off) < BSIZE
      BY <1>7, <1>20, <2>1, <2>4, ContentNumbers, SMTT(30)
    <3>2. BlockAt(x) = h /\ Within(x) = Within(off) + (x - off)
      BY <1>5, <1>7, <2>4, <3>1, InChunk
    <3>3. C!Mapped(i, h)' = b /\ b # 0
      BY <1>3, <1>5, <1>16
    <3>4. Within(x) \in C!Cells /\ Within(x) \in Within(off)..(Within(off) + m - 1)
      <4>1. Within(x) \in C!Cells
        BY <3>1, Division
      <4>2. x - off \in 0..(m - 1)
        BY <1>7, <2>4, <3>1
      <4>3. Within(x) \in Within(off)..(Within(off) + m - 1)
        BY <1>7, <3>2, <4>2, SMTT(30)
      <4> QED
        BY <4>1, <4>3
    <3>5. data'[b][Within(x)] = src[tot + Within(x) - Within(off) + 1]
      BY <1>6, <3>4
    <3>6. tot + Within(x) - Within(off) + 1 = x - (to - done) + 1
      BY <1>7, <2>b, <3>1, <3>2, SMTT(30)
    <3>7. C!ByteAt(i, x)' = src[x - (to - done) + 1]
      <4>1. C!ByteAt(i, x)' = data'[C!Mapped(i, h)'][Within(x)]
        BY <3>2 DEF C!ByteAt, BlockAt, Within
      <4> QED
        BY <3>3, <3>5, <3>6, <4>1
    <3>8. to - done <= x /\ x < to
      BY <1>7, <1>20, <2>4, <2>b, <3>1
    <3>9. Expected(i, x)' = src[x - (to - done) + 1]
      BY <2>a, <3>8 DEF Expected
    <3>10. C!Mapped(i, BlockAt(x))' # 0
      BY <3>2, <3>3 DEF BlockAt
    <3> QED
      BY <3>7, <3>9, <3>10
  <2>5. \A x \in 0..(Reach(i)' - 1) : x \in Int
    OBVIOUS
  <2>6. \A x \in 0..(Reach(i)' - 1) :
           C!Mapped(i, BlockAt(x))' # 0 /\ C!ByteAt(i, x)' = Expected(i, x)'
    <3> SUFFICES ASSUME NEW x \in 0..(Reach(i)' - 1)
                 PROVE  C!Mapped(i, BlockAt(x))' # 0 /\ C!ByteAt(i, x)' = Expected(i, x)'
      OBVIOUS
    <3>1. (x < off \/ x >= off + m) \/ (off <= x /\ x < off + m)
      BY <1>7, <2>5
    <3> QED
      BY <2>3, <2>4, <3>1
  <2> QED
    BY <1>5, <2>6, InodeTypes DEF BytesSound
<1>24. DinodeSound(i)'
  <2>1. dinode[i] = <<addrs[i], size[i]>> \/ off >= size[i]
    BY <1>4, <1>5, InodeTypes DEF DinodeSound, WillGrow
  <2>2. off >= size[i] => off + m >= size[i] /\ off + m > size[i]
    BY <1>7, <1>20, SMTT(30)
  <2> QED
    BY <1>5, <1>9, <1>10, <2>1, <2>2 DEF DinodeSound, WillGrow
<1>25. InodeSound(i)'
  BY <1>16, <1>22, <1>23, <1>24, InodeTypes DEF InodeSound
<1> QED
  BY <1>11, <1>18, <1>19, <1>25, ContentParts

-----------------------------------------------------------------------------
(* bzero *)

LEMMA BzeroIs ==
    ASSUME ContentInv, NEW p \in Procs, NEW i \in Inodes, C!Bzero(p, i)
    PROVE  /\ call[i].op = "write" /\ C!Left(i) > 0
           /\ bno[i] \in Blocks /\ bno[i] # 0 /\ bno[i] # NoBlock
           /\ C!Here(i) \in 0..(C!MAXFILE - 1) /\ C!Mapped(i, C!Here(i)) = 0
           /\ call[i].off >= size[i]
           /\ C!Enter(i, bno[i], C!Zeroed(bno[i])) /\ bno' = [bno EXCEPT ![i] = NoBlock]
           /\ bitmap' = bitmap /\ size' = size /\ dinode' = dinode /\ holder' = holder
           /\ call' = call /\ panic' = panic /\ file' = file
<1>1. /\ bno[i] # NoBlock
      /\ C!Enter(i, bno[i], C!Zeroed(bno[i])) /\ bno' = [bno EXCEPT ![i] = NoBlock]
      /\ bitmap' = bitmap /\ size' = size /\ dinode' = dinode /\ holder' = holder
      /\ call' = call /\ panic' = panic /\ file' = file
  BY DEF C!Bzero
<1>2. call[i].op = "write" /\ C!Left(i) > 0 /\ C!Mapped(i, C!Here(i)) = 0
  BY <1>1, InodeTypes DEF CallSound
<1>3. bno[i] \in Blocks
  BY <1>1 DEF ContentInv, ContentTypeOK
<1>4. bno[i] # 0
  BY <1>3, ContentNumbers
<1>5. /\ C!Here(i) \in 0..(C!MAXFILE - 1) /\ C!Here(i) = BlockAt(call[i].off)
      /\ call[i].off \in Nat /\ size[i] \in Nat
  BY <1>2, HereIs, InodeTypes
<1>6. call[i].off >= size[i]
  <2> SUFFICES ASSUME ~(call[i].off >= size[i]) PROVE FALSE
    OBVIOUS
  <2>1. Reach(i) = size[i] /\ call[i].off \in 0..(size[i] - 1)
    BY <1>5 DEF Reach
  <2>2. C!Mapped(i, BlockAt(call[i].off)) # 0
    BY <1>2, <2>1, InodeTypes DEF BytesSound
  <2> QED
    BY <1>2, <1>5, <2>2
<1> QED
  BY <1>1, <1>2, <1>3, <1>4, <1>5, <1>6

(* The block that balloc gave to the call has no other name yet. *)
LEMMA FreshIsOne ==
    ASSUME ContentInv, NEW i \in Inodes, bno[i] # NoBlock, call[i].op = "write"
    PROVE  /\ \A k \in 0..(C!MAXFILE - 1) : C!Mapped(i, k) # bno[i]
           /\ C!Indirect(i) # bno[i]
           /\ \A k \in 0..C!MAXFILE : C!Named(i, k) # bno[i]
<1>1. PICK l : l = C!MAXFILE + 1
  OBVIOUS
<1>2. l \in 0..(C!MAXFILE + 1) /\ C!Named(i, l) = bno[i]
  BY <1>1, ContentNumbers, NamedCases
<1>3. bno[i] # 0
  <2>1. bno[i] \in Blocks
    BY DEF ContentInv, ContentTypeOK
  <2> QED
    BY <2>1, ContentNumbers
<1>4. ASSUME NEW k \in 0..C!MAXFILE PROVE C!Named(i, k) # bno[i]
  <2>1. k \in 0..(C!MAXFILE + 1) /\ k # l
    BY <1>1, ContentNumbers
  <2> QED
    BY <1>2, <1>3, <2>1, OwnerIsOne
<1>5. ASSUME NEW k \in 0..(C!MAXFILE - 1) PROVE C!Mapped(i, k) # bno[i]
  <2>1. k \in 0..C!MAXFILE /\ ~C!Freed(i, k)
    BY ContentNumbers DEF C!Freed
  <2> QED
    BY <1>4, <2>1, MappedIsNamed
<1>6. PICK k : k = C!MAXFILE
  OBVIOUS
<1>7. k \in 0..C!MAXFILE /\ C!Named(i, k) = C!Indirect(i)
  BY <1>6, ContentNumbers, NamedCases
<1> QED
  BY <1>4, <1>5, <1>7

(* What the inode's map is when the block b has a place for block h. *)
Entered(i, b, h) ==
    /\ data' \in [Blocks -> [C!Cells -> Nat]]
    /\ addrs' \in [Inodes -> [Slots -> BlocksOr0]]
    /\ \A j \in Inodes \ {i} : addrs'[j] = addrs[j]
    /\ \A a \in Blocks \ {b} : data'[a] # data[a] => a = C!Indirect(i)
    /\ \A k \in 0..(C!MAXFILE - 1) : k # h => C!Mapped(i, k)' = C!Mapped(i, k)
    /\ \/ C!Mapped(i, h)' = b /\ C!Indirect(i)' = C!Indirect(i)
       \/ C!Mapped(i, h)' = 0 /\ C!Indirect(i) = 0 /\ C!Indirect(i)' = b

LEMMA ZeroedIs ==
    ASSUME NEW b
    PROVE  C!Zeroed(b) \in [C!Cells -> Nat] /\ \A c \in C!Cells : C!Zeroed(b)[c] = 0
  BY DEF C!Zeroed

(* An entry of the indirect block. *)
LEMMA EnterEntry ==
    ASSUME ContentInv, NEW p \in Procs, NEW i \in Inodes, C!Bzero(p, i),
           NEW h, h = C!Here(i), NEW b, b = bno[i], h >= NDIRECT, C!Indirect(i) # 0
    PROVE  Entered(i, b, h)
<1>1. /\ b \in Blocks /\ b # 0 /\ b \in Nat /\ h \in 0..(C!MAXFILE - 1)
      /\ call[i].op = "write" /\ b # NoBlock
  BY BzeroIs, ContentNumbers
<1>2. PICK ind : ind = C!Indirect(i)
  OBVIOUS
<1>3. ind \in Blocks /\ ind # b
  <2>1. ind \in BlocksOr0
    BY <1>2, ContentNumbers, NamedType
  <2>2. ind # b
    BY <1>1, <1>2, FreshIsOne
  <2> QED
    BY <1>2, <2>1, <2>2 DEF BlocksOr0
<1>4. PICK e : e = h - NDIRECT
  OBVIOUS
<1>5. e \in C!Cells
  BY <1>1, <1>4, MappedCases
<1>6. PICK cells : cells = C!Zeroed(b)
  OBVIOUS
<1>7. cells \in [C!Cells -> Nat]
  BY <1>6, ZeroedIs
<1>8. addrs' = addrs /\ data' = [data EXCEPT ![b] = cells, ![ind][e] = b]
  <2>1. C!Enter(i, b, cells)
    BY <1>6, BzeroIs
  <2> QED
    BY <1>2, <1>4, <2>1 DEF C!Enter
<1>9. data \in [Blocks -> [C!Cells -> Nat]] /\ addrs \in [Inodes -> [Slots -> BlocksOr0]]
  BY DEF ContentInv, ContentTypeOK
<1>10. /\ data' \in [Blocks -> [C!Cells -> Nat]]
       /\ \A a \in Blocks \ {b, ind} : data'[a] = data[a]
       /\ data'[ind] = [data[ind] EXCEPT ![e] = b]
  BY <1>1, <1>3, <1>5, <1>7, <1>8, <1>9
<1>11. C!Indirect(i)' = ind
  BY <1>2, <1>8 DEF C!Indirect
<1>12. data[ind] \in [C!Cells -> Nat]
  BY <1>3, <1>9
<1>13. ASSUME NEW k \in 0..(C!MAXFILE - 1)
       PROVE  C!Mapped(i, k)' = IF k = h THEN b ELSE C!Mapped(i, k)
  <2>1. NDIRECT \in Nat /\ ind # 0
    BY <1>2, ContentNumbers
  <2>2. CASE k < NDIRECT
    <3>1. k # h /\ ~(k >= NDIRECT)
      BY <1>1, <2>1, <2>2
    <3> QED
      BY <1>8, <2>2, <3>1 DEF C!Mapped
  <2>3. CASE ~(k < NDIRECT)
    <3>1. k - NDIRECT \in C!Cells /\ (k - NDIRECT = e <=> k = h)
      BY <1>1, <1>4, <2>1, <2>3, MappedCases
    <3>2. C!Mapped(i, k)' = data'[ind][k - NDIRECT]
      BY <1>11, <2>1, <2>3 DEF C!Mapped
    <3>3. C!Mapped(i, k) = data[ind][k - NDIRECT]
      BY <1>2, <2>1, <2>3 DEF C!Mapped
    <3> QED
      BY <1>10, <1>12, <3>1, <3>2, <3>3
  <2> QED
    BY <2>2, <2>3
<1> QED
  BY <1>1, <1>2, <1>8, <1>9, <1>10, <1>11, <1>13 DEF Entered

(* A direct block, or the indirect one. *)
LEMMA EnterSlot ==
    ASSUME ContentInv, NEW p \in Procs, NEW i \in Inodes, C!Bzero(p, i),
           NEW h, h = C!Here(i), NEW b, b = bno[i], ~(h >= NDIRECT /\ C!Indirect(i) # 0)
    PROVE  Entered(i, b, h)
<1>1. /\ b \in Blocks /\ b # 0 /\ b \in Nat /\ h \in 0..(C!MAXFILE - 1) /\ h \in Nat
      /\ call[i].op = "write" /\ b # NoBlock /\ NDIRECT \in Nat /\ C!Mapped(i, h) = 0
  <2>1. C!Mapped(i, C!Here(i)) = 0
    BY BzeroIs
  <2>2. /\ b \in Blocks /\ b # 0 /\ h \in 0..(C!MAXFILE - 1)
        /\ call[i].op = "write" /\ b # NoBlock
    BY BzeroIs
  <2> QED
    BY <2>1, <2>2, ContentNumbers, SMTT(30)
<1>2. PICK slot : slot = IF h < NDIRECT THEN h ELSE NDIRECT
  OBVIOUS
<1>3. slot \in Slots /\ b \in BlocksOr0
  BY <1>1, <1>2 DEF Slots, BlocksOr0
<1>4. PICK cells : cells = C!Zeroed(b)
  OBVIOUS
<1>5. cells \in [C!Cells -> Nat] /\ \A c \in C!Cells : cells[c] = 0
  BY <1>4, ZeroedIs
<1>6. data' = [data EXCEPT ![b] = cells] /\ addrs' = [addrs EXCEPT ![i][slot] = b]
  <2>1. C!Enter(i, b, cells)
    BY <1>4, BzeroIs
  <2> QED
    BY <1>2, <2>1 DEF C!Enter
<1>7. data \in [Blocks -> [C!Cells -> Nat]] /\ addrs \in [Inodes -> [Slots -> BlocksOr0]]
  BY DEF ContentInv, ContentTypeOK
<1>8. /\ data' \in [Blocks -> [C!Cells -> Nat]] /\ data'[b] = cells
      /\ \A a \in Blocks \ {b} : data'[a] = data[a]
  BY <1>1, <1>5, <1>6, <1>7
<1>9. /\ addrs'[i] = [addrs[i] EXCEPT ![slot] = b]
      /\ \A j \in Inodes \ {i} : addrs'[j] = addrs[j]
      /\ addrs[i] \in [Slots -> BlocksOr0]
  BY <1>6, <1>7
<1>10. addrs' \in [Inodes -> [Slots -> BlocksOr0]]
  BY <1>3, <1>6, <1>7
<1>11. CASE h < NDIRECT
  <2>1. slot = h /\ NDIRECT \in Slots /\ NDIRECT # h
    BY <1>1, <1>2, <1>11 DEF Slots
  <2>2. C!Indirect(i)' = C!Indirect(i)
    BY <1>9, <2>1 DEF C!Indirect
  <2>3. C!Indirect(i) # 0 => data'[C!Indirect(i)] = data[C!Indirect(i)]
    <3>1. C!Indirect(i) \in BlocksOr0 /\ C!Indirect(i) # b
      BY <1>1, ContentNumbers, NamedType, FreshIsOne, SMTT(30)
    <3> QED
      BY <1>8, <3>1 DEF BlocksOr0
  <2>4. ASSUME NEW k \in 0..(C!MAXFILE - 1)
        PROVE  C!Mapped(i, k)' = IF k = h THEN b ELSE C!Mapped(i, k)
    <3>1. CASE k < NDIRECT
      <4>1. k \in Slots /\ ~(k >= NDIRECT)
        BY <1>1, <3>1 DEF Slots
      <4>2. C!Mapped(i, k)' = addrs'[i][k] /\ C!Mapped(i, k) = addrs[i][k]
        BY <3>1, <4>1 DEF C!Mapped
      <4> QED
        BY <1>9, <2>1, <4>1, <4>2
    <3>2. CASE ~(k < NDIRECT)
      <4>1. k # h /\ k >= NDIRECT
        BY <1>1, <1>11, <3>2
      <4>2. CASE C!Indirect(i) = 0
        BY <2>2, <3>2, <4>1, <4>2 DEF C!Mapped
      <4>3. CASE C!Indirect(i) # 0
        BY <2>2, <2>3, <3>2, <4>1, <4>3 DEF C!Mapped
      <4> QED
        BY <4>1, <4>2, <4>3
    <3> QED
      BY <3>1, <3>2
  <2> QED
    BY <1>1, <1>7, <1>8, <1>9, <1>10, <2>2, <2>4 DEF Entered
<1>12. CASE ~(h < NDIRECT)
  <2>1. slot = NDIRECT /\ NDIRECT \in Slots /\ C!Indirect(i) = 0
    BY <1>1, <1>2, <1>12 DEF Slots
  <2>2. C!Indirect(i)' = b
    BY <1>9, <2>1 DEF C!Indirect
  <2>3. ASSUME NEW k \in 0..(C!MAXFILE - 1)
        PROVE  C!Mapped(i, k)' = C!Mapped(i, k)
    <3>1. CASE k < NDIRECT
      <4>1. k \in Slots /\ ~(k >= NDIRECT) /\ k # NDIRECT
        BY <1>1, <3>1 DEF Slots
      <4>2. C!Mapped(i, k)' = addrs'[i][k] /\ C!Mapped(i, k) = addrs[i][k]
        BY <3>1, <4>1 DEF C!Mapped
      <4> QED
        BY <1>9, <2>1, <4>1, <4>2
    <3>2. CASE ~(k < NDIRECT)
      <4>1. k >= NDIRECT
        BY <1>1, <3>2
      <4>2. k - NDIRECT \in C!Cells /\ C!Mapped(i, k) = 0
        BY <2>1, <4>1, MappedCases
      <4>3. C!Mapped(i, k)' = data'[b][k - NDIRECT]
        BY <1>1, <2>2, <3>2, <4>1 DEF C!Mapped
      <4> QED
        BY <1>5, <1>8, <4>2, <4>3
    <3> QED
      BY <3>1, <3>2
  <2> QED
    BY <1>1, <1>7, <1>8, <1>9, <1>10, <2>1, <2>2, <2>3 DEF Entered
<1> QED
  BY <1>11, <1>12

LEMMA BzeroStep ==
    ASSUME ContentInv, NEW p \in Procs, NEW i \in Inodes, C!Bzero(p, i)
    PROVE  ContentInv'
<1>1. PICK h : h = C!Here(i)
  OBVIOUS
<1>2. PICK b : b = bno[i]
  OBVIOUS
<1>3. Entered(i, b, h)
  BY <1>1, <1>2, EnterEntry, EnterSlot
<1>4. /\ call[i].op = "write" /\ C!Left(i) > 0 /\ call[i].off >= size[i]
      /\ bno' = [bno EXCEPT ![i] = NoBlock]
      /\ bitmap' = bitmap /\ size' = size /\ dinode' = dinode /\ holder' = holder
      /\ call' = call /\ panic' = panic /\ file' = file
  BY BzeroIs
<1>5. /\ b \in Blocks /\ b # 0 /\ b # NoBlock /\ h \in 0..(C!MAXFILE - 1) /\ h \in Nat
      /\ C!Mapped(i, h) = 0
  <2>1. C!Mapped(i, C!Here(i)) = 0 /\ C!Here(i) \in 0..(C!MAXFILE - 1)
    BY BzeroIs
  <2>2. b \in Blocks /\ b # 0 /\ b # NoBlock
    BY <1>2, BzeroIs
  <2> QED
    BY <1>1, <2>1, <2>2, ContentNumbers
<1>6. bno'[i] = NoBlock /\ \A j \in Inodes \ {i} : bno'[j] = bno[j]
  BY <1>4 DEF ContentInv, ContentTypeOK
<1>7. ContentTypeOK'
  <2>1. bno' \in [Inodes -> Blocks \cup {NoBlock}]
    BY <1>4 DEF ContentInv, ContentTypeOK
  <2>2. data' \in [Blocks -> [C!Cells -> Nat]] /\ addrs' \in [Inodes -> [Slots -> BlocksOr0]]
    BY <1>3 DEF Entered
  <2> QED
    BY <1>4, <2>1, <2>2 DEF ContentInv, ContentTypeOK
<1>8. PICK last, top : top = C!MAXFILE /\ last = C!MAXFILE + 1
  OBVIOUS
<1>9. /\ last \in 0..(C!MAXFILE + 1) /\ top \in 0..(C!MAXFILE + 1) /\ last # top
      /\ h \in 0..(C!MAXFILE + 1) /\ h # top /\ h # last
      /\ \A k \in 0..(C!MAXFILE + 1) \ {top, last} : k \in 0..(C!MAXFILE - 1)
  BY <1>5, <1>8, ContentNumbers
<1>10. \A k \in 0..(C!MAXFILE + 1) : ~C!Freed(i, k) /\ ~C!Freed(i, k)'
  BY <1>4 DEF C!Freed
<1>11. /\ C!Named(i, last) = b /\ C!Named(i, last)' = 0
       /\ C!Named(i, top) = C!Indirect(i) /\ C!Named(i, top)' = C!Indirect(i)'
       /\ C!Named(i, h) = 0 /\ C!Named(i, h)' = C!Mapped(i, h)'
       /\ \A k \in 0..(C!MAXFILE + 1) \ {top, last} :
             C!Named(i, k) = C!Mapped(i, k) /\ C!Named(i, k)' = C!Mapped(i, k)'
  <2>1. /\ last > C!MAXFILE /\ last # C!MAXFILE /\ ~(last < C!MAXFILE)
        /\ ~(top > C!MAXFILE) /\ ~(top < C!MAXFILE)
    BY <1>8, ContentNumbers
  <2>2. ASSUME NEW k \in 0..(C!MAXFILE + 1) \ {top, last}
        PROVE  C!Named(i, k) = C!Mapped(i, k) /\ C!Named(i, k)' = C!Mapped(i, k)'
    <3>1. ~(k > C!MAXFILE) /\ k # C!MAXFILE /\ k < C!MAXFILE
      <4>1. k \in 0..(C!MAXFILE - 1) /\ C!MAXFILE \in Nat
        BY <1>9, ContentNumbers
      <4> QED
        BY <4>1
    <3> QED
      BY <1>10, <3>1 DEF C!Named
  <2>3. C!Named(i, last) = b /\ C!Named(i, last)' = 0
    BY <1>2, <1>5, <1>6, <2>1 DEF C!Named
  <2>4. C!Named(i, top) = C!Indirect(i) /\ C!Named(i, top)' = C!Indirect(i)'
    BY <1>8, <2>1 DEF C!Named
  <2> QED
    BY <1>5, <1>9, <2>2, <2>3, <2>4
<1>12. \A k \in 0..(C!MAXFILE - 1) : k # h => C!Mapped(i, k)' = C!Mapped(i, k)
  BY <1>3 DEF Entered
<1>13. OnlyOwn(i)
  <2> SUFFICES ASSUME NEW a \in Blocks, data'[a] # data[a]
               PROVE  \E k \in 0..(C!MAXFILE + 1) : C!Named(i, k) = a
    BY DEF OnlyOwn
  <2>1. a = b \/ a = C!Indirect(i)
    BY <1>3 DEF Entered
  <2> QED
    BY <1>9, <1>11, <2>1
<1>14. \A j \in Inodes \ {i} :
          InodeSound(j)' /\ \A k \in 0..(C!MAXFILE + 1) : C!Named(j, k)' = C!Named(j, k)
  <2>1. \A j \in Inodes \ {i} :
              /\ addrs'[j] = addrs[j] /\ size'[j] = size[j] /\ dinode'[j] = dinode[j]
              /\ holder'[j] = holder[j] /\ call'[j] = call[j] /\ bno'[j] = bno[j]
              /\ file'[j] = file[j]
    BY <1>3, <1>4, <1>6 DEF Entered
  <2> QED
    BY <1>13, <2>1, OthersUntouched
<1>15. Owned(NextNames, bitmap')
  <2>1. PICK t \in {h, top} :
           /\ C!Named(i, t) = 0 /\ C!Named(i, t)' = b
           /\ \A k \in 0..(C!MAXFILE + 1) \ {t, last} : C!Named(i, k)' = C!Named(i, k)
    <3>1. CASE C!Mapped(i, h)' = b /\ C!Indirect(i)' = C!Indirect(i)
      <4>1. ASSUME NEW k \in 0..(C!MAXFILE + 1) \ {h, last}
            PROVE  C!Named(i, k)' = C!Named(i, k)
        <5>1. CASE k = top
          BY <1>11, <3>1, <5>1
        <5>2. CASE k # top
          BY <1>9, <1>11, <1>12, <5>2
        <5> QED
          BY <5>1, <5>2
      <4> QED
        BY <1>11, <3>1, <4>1
    <3>2. CASE C!Mapped(i, h)' = 0 /\ C!Indirect(i) = 0 /\ C!Indirect(i)' = b
      <4>1. ASSUME NEW k \in 0..(C!MAXFILE + 1) \ {top, last}
            PROVE  C!Named(i, k)' = C!Named(i, k)
        <5>1. CASE k = h
          BY <1>11, <3>2, <5>1
        <5>2. CASE k # h
          BY <1>9, <1>11, <1>12, <5>2
        <5> QED
          BY <5>1, <5>2
      <4> QED
        BY <1>11, <3>2, <4>1
    <3> QED
      BY <1>3, <3>1, <3>2 DEF Entered
  <2>2. t \in 0..(C!MAXFILE + 1) /\ t # last
    BY <1>9
  <2>3. PICK q, r : q = <<i, last>> /\ r = <<i, t>>
    OBVIOUS
  <2>4. /\ q \in C!Places /\ r \in C!Places /\ AllNames[q] = b /\ NextNames[q] = 0
        /\ AllNames[r] = 0 /\ NextNames[r] = b
    BY <1>9, <1>11, <2>1, <2>2, <2>3, NextNamesAre
  <2>5. ASSUME NEW s \in C!Places \ {q, r} PROVE NextNames[s] = AllNames[s]
    <3>1. PICK j \in Inodes, k \in 0..(C!MAXFILE + 1) : s = <<j, k>>
      BY PlacesAre
    <3>2. C!Named(j, k)' = C!Named(j, k)
      <4>1. CASE j = i
        <5>1. k # last /\ k # t
          BY <2>3, <2>5, <3>1, <4>1
        <5> QED
          BY <2>1, <4>1, <5>1
      <4>2. CASE j # i
        BY <1>14, <4>2
      <4> QED
        BY <4>1, <4>2
    <3> QED
      BY <3>1, <3>2, NextNamesAre
  <2>6. Owned(AllNames, bitmap)
    BY DEF ContentInv
  <2>7. Owned(NextNames, bitmap)
    BY <1>5, <2>4, <2>5, <2>6, OwnedMove
  <2> QED
    BY <1>4, <2>7
<1>16. /\ C!Left(i)' = C!Left(i) /\ Reach(i)' = Reach(i)
       /\ \A x : Expected(i, x)' = Expected(i, x)
  BY <1>4 DEF C!Left, Reach, Expected
<1>17. CallSound(i)'
  <2>1. /\ call[i].tot <= Len(call[i].src) /\ call[i].tot <= call[i].off
        /\ call[i].off - call[i].tot <= size[i]
        /\ call[i].off + C!Left(i) <= MaxBytes /\ holder[i] # NoProc
    BY <1>4, InodeTypes DEF CallSound
  <2> QED
    BY <1>4, <1>6, <1>16, <2>1 DEF CallSound
<1>18. BytesSound(i)'
  <2>1. size'[i] = Len(file'[i])
    BY <1>4, InodeTypes DEF BytesSound
  <2>2. ASSUME NEW x \in 0..(Reach(i) - 1)
        PROVE  C!Mapped(i, BlockAt(x))' # 0 /\ C!ByteAt(i, x)' = Expected(i, x)'
    <3>1. PICK k : k = BlockAt(x)
      OBVIOUS
    <3>2. k \in 0..(C!MAXFILE - 1)
      BY <3>1, ReachIs
    <3>3. C!Mapped(i, k) # 0 /\ C!ByteAt(i, x) = Expected(i, x)
      BY <1>4, <3>1, InodeTypes DEF BytesSound
    <3>4. C!Mapped(i, k)' = C!Mapped(i, k)
      BY <1>5, <1>12, <3>2, <3>3
    <3>5. data'[C!Mapped(i, k)] = data[C!Mapped(i, k)]
      <4>1. k \in 0..(C!MAXFILE + 1) /\ k # top /\ k # last /\ C!Named(i, k) = C!Mapped(i, k)
        BY <1>8, <1>10, <3>2, ContentNumbers, MappedIsNamed
      <4>2. C!Mapped(i, k) # b
        BY <1>9, <1>11, <3>3, <4>1, OwnerIsOne
      <4>3. C!Mapped(i, k) # C!Indirect(i)
        BY <1>9, <1>11, <3>3, <4>1, OwnerIsOne
      <4>4. C!Mapped(i, k) \in Blocks
        BY <3>2, <3>3, InodeTypes DEF BlocksOr0
      <4> QED
        BY <1>3, <4>2, <4>3, <4>4 DEF Entered
    <3>6. C!ByteAt(i, x)' = C!ByteAt(i, x)
      <4>1. C!ByteAt(i, x)' = data'[C!Mapped(i, k)'][Within(x)]
        BY <3>1 DEF C!ByteAt, BlockAt, Within
      <4>2. C!ByteAt(i, x) = data[C!Mapped(i, k)][Within(x)]
        BY <3>1, ByteIs
      <4> QED
        BY <3>4, <3>5, <4>1, <4>2
    <3>7. C!Mapped(i, BlockAt(x))' # 0
      BY <3>1, <3>3, <3>4 DEF BlockAt
    <3> QED
      BY <1>16, <3>3, <3>6, <3>7
  <2> QED
    BY <1>4, <1>16, <2>1, <2>2 DEF BytesSound
<1>19. DinodeSound(i)'
  BY <1>4, <1>16 DEF DinodeSound, WillGrow
<1>20. \A k \in 0..(C!MAXFILE - 1) : C!Mapped(i, k)' \in BlocksOr0
  <2>1. C!Mapped(i, h)' \in BlocksOr0
    BY <1>3, <1>5 DEF Entered, BlocksOr0
  <2>2. ASSUME NEW k \in 0..(C!MAXFILE - 1), k # h PROVE C!Mapped(i, k)' \in BlocksOr0
    BY <1>12, <2>2, InodeTypes
  <2>3. ASSUME NEW k \in 0..(C!MAXFILE - 1), k = h PROVE C!Mapped(i, k)' \in BlocksOr0
    BY <2>1, <2>3
  <2> QED
    BY <2>2, <2>3
<1>21. InodeSound(i)'
  BY <1>17, <1>18, <1>19, <1>20 DEF InodeSound
<1> QED
  BY <1>7, <1>14, <1>15, <1>21, ContentParts

-----------------------------------------------------------------------------
(* itrunc *)

(* bfree finds the block marked. *)
LEMMA BfreeIs ==
    ASSUME ContentInv, NEW i \in Inodes, NEW k \in 0..(C!MAXFILE + 1), C!Named(i, k) # 0,
           C!Bfree(C!Named(i, k))
    PROVE  bitmap' = bitmap \ {C!Named(i, k)} /\ panic' = panic
<1>1. C!Named(i, k) \in bitmap
  BY OwnerIsMarked
<1> QED
  BY <1>1 DEF C!Bfree

LEMMA OneNameLost ==
    ASSUME ContentInv, NEW i \in Inodes, NEW l \in 0..(C!MAXFILE + 1), C!Named(i, l)' = 0,
           \A j \in Inodes \ {i} : \A k \in 0..(C!MAXFILE + 1) : C!Named(j, k)' = C!Named(j, k),
           \A k \in 0..(C!MAXFILE + 1) \ {l} : C!Named(i, k)' = C!Named(i, k),
           \/ C!Named(i, l) = 0 /\ bitmap' = bitmap
           \/ C!Named(i, l) # 0 /\ bitmap' = bitmap \ {C!Named(i, l)}
    PROVE  Owned(NextNames, bitmap')
<1>1. \A q \in C!Places \ {<<i, l>>} : NextNames[q] = AllNames[q]
  BY OneNameChanges
<1>2. PICK q : q = <<i, l>>
  OBVIOUS
<1>3. q \in C!Places /\ AllNames[q] = C!Named(i, l) /\ NextNames[q] = 0
  BY <1>2, NextNamesAre
<1>4. Owned(AllNames, bitmap)
  BY DEF ContentInv
<1>5. CASE C!Named(i, l) = 0 /\ bitmap' = bitmap
  <2>1. \A r \in C!Places : NextNames[r] = AllNames[r]
    BY <1>1, <1>2, <1>3, <1>5
  <2> QED
    BY <1>4, <1>5, <2>1, OwnedSame
<1>6. CASE C!Named(i, l) # 0 /\ bitmap' = bitmap \ {C!Named(i, l)}
  <2>1. AllNames[q] # 0 /\ \A r \in C!Places \ {q} : NextNames[r] = AllNames[r]
    BY <1>1, <1>2, <1>3, <1>6
  <2>2. Owned(NextNames, bitmap \ {AllNames[q]})
    BY <1>3, <1>4, <2>1, OwnedLose
  <2> QED
    BY <1>3, <1>6, <2>2
<1> QED
  BY <1>5, <1>6

(* itrunc goes on to the next block. *)
LEMMA NextBlockIs ==
    ASSUME ContentInv, NEW i \in Inodes, NEW k \in Nat, call[i].op = "trunc",
           call[i].next = k, C!NextBlock(i)
    PROVE  /\ call'[i].op = "trunc" /\ call'[i].next = k + 1
           /\ call' \in [Inodes -> WriteCalls \cup ReadCalls \cup TruncCalls \cup NoCalls]
           /\ \A j \in Inodes \ {i} : call'[j] = call[j]
           /\ \A l \in Nat : (C!Freed(i, l) <=> l < k) /\ (C!Freed(i, l)' <=> l < k + 1)
<1>1. call \in [Inodes -> WriteCalls \cup ReadCalls \cup TruncCalls \cup NoCalls]
  BY DEF ContentInv, ContentTypeOK
<1>2. call[i] \in TruncCalls
  BY CallTypes DEF ContentInv
<1>3. call[i] = [op |-> "trunc", next |-> k]
  BY <1>2 DEF TruncCalls
<1>4. PICK c : c = [op |-> "trunc", next |-> k + 1]
  OBVIOUS
<1>5. call' = [call EXCEPT ![i] = c]
  <2>1. call' = [call EXCEPT ![i] = [call[i] EXCEPT !.next = call[i].next + 1]]
    BY <1>1 DEF C!NextBlock
  <2>2. [call[i] EXCEPT !.next = call[i].next + 1] = c
    <3>1. PICK r : r = call[i]
      OBVIOUS
    <3>2. [r EXCEPT !.next = k + 1] = c
      BY <1>3, <1>4, <3>1
    <3>3. call[i].next + 1 = k + 1
      OBVIOUS
    <3> QED
      BY <3>1, <3>2, <3>3
  <2> QED
    BY <2>1, <2>2
<1>6. c \in TruncCalls /\ c.op = "trunc" /\ c.next = k + 1
  BY <1>4 DEF TruncCalls
<1>7. call'[i] = c /\ \A j \in Inodes \ {i} : call'[j] = call[j]
  BY <1>1, <1>5
<1>8. call' \in [Inodes -> WriteCalls \cup ReadCalls \cup TruncCalls \cup NoCalls]
  BY <1>1, <1>5, <1>6
<1>9. \A l \in Nat : (C!Freed(i, l) <=> l < k) /\ (C!Freed(i, l)' <=> l < k + 1)
  BY <1>6, <1>7 DEF C!Freed
<1> QED
  BY <1>6, <1>7, <1>8, <1>9

(* One block of a truncated file, direct or not: the k-th. *)
LEMMA TruncatedPart ==
    ASSUME ContentInv, NEW i \in Inodes, NEW k \in 0..(C!MAXFILE - 1),
           call[i].op = "trunc", call[i].next = k, C!NextBlock(i),
           data' = data, size' = size, dinode' = dinode, holder' = holder, bno' = bno,
           file' = file, panic' = panic,
           addrs' \in [Inodes -> [Slots -> BlocksOr0]],
           \A j \in Inodes \ {i} : addrs'[j] = addrs[j],
           C!Indirect(i)' = C!Indirect(i),
           \A l \in 0..(C!MAXFILE - 1) \ {k} : C!Mapped(i, l)' = C!Mapped(i, l),
           C!Mapped(i, k)' \in BlocksOr0,
           \A l \in 0..(NDIRECT - 1) : l < k + 1 => addrs'[i][l] = 0,
           \/ C!Mapped(i, k) = 0 /\ bitmap' = bitmap
           \/ C!Mapped(i, k) # 0 /\ bitmap' = bitmap \ {C!Mapped(i, k)}
    PROVE  ContentInv'
<1>1. /\ k \in Nat /\ C!MAXFILE \in Nat /\ k + 1 \in Nat /\ k + 1 <= C!MAXFILE
      /\ k \in 0..(C!MAXFILE + 1)
  BY ContentNumbers
<1>2. /\ call'[i].op = "trunc" /\ call'[i].next = k + 1
      /\ call' \in [Inodes -> WriteCalls \cup ReadCalls \cup TruncCalls \cup NoCalls]
      /\ \A j \in Inodes \ {i} : call'[j] = call[j]
      /\ \A l \in Nat : (C!Freed(i, l) <=> l < k) /\ (C!Freed(i, l)' <=> l < k + 1)
  BY <1>1, NextBlockIs
<1>3. ContentTypeOK'
  <2>1. bitmap' \subseteq Blocks
    BY DEF ContentInv, ContentTypeOK
  <2> QED
    BY <1>2, <2>1 DEF ContentInv, ContentTypeOK
<1>4. C!Named(i, k) = C!Mapped(i, k) /\ C!Named(i, k)' = 0
  <2>1. ~C!Freed(i, k) /\ C!Freed(i, k)'
    BY <1>1, <1>2
  <2>2. ~(k > C!MAXFILE) /\ k # C!MAXFILE /\ k < C!MAXFILE
    BY <1>1
  <2> QED
    BY <2>1, <2>2 DEF C!Named
<1>5. ASSUME NEW l \in 0..(C!MAXFILE + 1) \ {k} PROVE C!Named(i, l)' = C!Named(i, l)
  <2>1. l \in Nat /\ l # k
    OBVIOUS
  <2>2. C!Freed(i, l)' <=> C!Freed(i, l)
    BY <1>1, <1>2, <2>1
  <2>3. CASE l < C!MAXFILE
    <3>1. ~(l > C!MAXFILE) /\ l # C!MAXFILE /\ l \in 0..(C!MAXFILE - 1) \ {k}
      BY <1>1, <2>1, <2>3
    <3> QED
      BY <2>2, <2>3, <3>1 DEF C!Named
  <2>4. CASE ~(l < C!MAXFILE)
    BY <2>4 DEF C!Named
  <2> QED
    BY <2>3, <2>4
<1>6. OnlyOwn(i)
  BY DEF OnlyOwn
<1>7. \A j \in Inodes \ {i} :
         InodeSound(j)' /\ \A l \in 0..(C!MAXFILE + 1) : C!Named(j, l)' = C!Named(j, l)
  BY <1>2, <1>6, OthersUntouched
<1>8. Owned(NextNames, bitmap')
  BY <1>1, <1>4, <1>5, <1>7, OneNameLost
<1>9. InodeSound(i)'
  <2>1. holder[i] # NoProc /\ bno[i] = NoBlock
    BY InodeTypes DEF CallSound
  <2>2. CallSound(i)'
    BY <1>1, <1>2, <2>1 DEF CallSound
  <2>3. BytesSound(i)' /\ DinodeSound(i)'
    BY <1>2, InodeTypes DEF BytesSound, DinodeSound
  <2>4. \A l \in 0..(C!MAXFILE - 1) : C!Mapped(i, l)' \in BlocksOr0
    <3> SUFFICES ASSUME NEW l \in 0..(C!MAXFILE - 1) PROVE C!Mapped(i, l)' \in BlocksOr0
      OBVIOUS
    <3>1. C!Mapped(i, l) \in BlocksOr0
      BY InodeTypes
    <3>2. CASE l = k
      BY <3>2
    <3>3. CASE l # k
      BY <3>1, <3>3
    <3> QED
      BY <3>2, <3>3
  <2> QED
    BY <2>2, <2>3, <2>4 DEF InodeSound
<1> QED
  BY <1>3, <1>7, <1>8, <1>9, ContentParts

LEMMA TruncDirectStep ==
    ASSUME ContentInv, NEW p \in Procs, NEW i \in Inodes, C!TruncDirect(p, i)
    PROVE  ContentInv'
<1>1. PICK k \in 0..(NDIRECT - 1) :
        /\ call[i].op = "trunc" /\ call[i].next = k /\ C!NextBlock(i)
        /\ \/ addrs[i][k] = 0 /\ UNCHANGED <<bitmap, addrs, panic>>
           \/ /\ addrs[i][k] # 0 /\ C!Bfree(addrs[i][k])
              /\ addrs' = [addrs EXCEPT ![i][k] = 0]
        /\ data' = data /\ size' = size /\ dinode' = dinode /\ holder' = holder
        /\ bno' = bno /\ file' = file
  BY DEF C!TruncDirect, C!Truncating, C!Doing
<1>2. /\ k \in 0..(C!MAXFILE - 1) /\ k \in Nat /\ k < NDIRECT /\ NDIRECT \in Nat
      /\ k \in Slots /\ NDIRECT \in Slots /\ k # NDIRECT
  BY ContentNumbers DEF Slots
<1>3. C!Mapped(i, k) = addrs[i][k] /\ C!Named(i, k) = addrs[i][k] /\ k \in 0..(C!MAXFILE + 1)
  <2>1. ~C!Freed(i, k)
    BY <1>1, <1>2 DEF C!Freed
  <2> QED
    BY <1>2, <2>1, MappedCases, MappedIsNamed
<1>4. addrs \in [Inodes -> [Slots -> BlocksOr0]] /\ addrs[i] \in [Slots -> BlocksOr0]
  BY DEF ContentInv, ContentTypeOK
<1>5. /\ addrs'[i] = [addrs[i] EXCEPT ![k] = 0] /\ panic' = panic
      /\ addrs' \in [Inodes -> [Slots -> BlocksOr0]]
      /\ \A j \in Inodes \ {i} : addrs'[j] = addrs[j]
      /\ \/ C!Mapped(i, k) = 0 /\ bitmap' = bitmap
         \/ C!Mapped(i, k) # 0 /\ bitmap' = bitmap \ {C!Mapped(i, k)}
  <2>1. CASE addrs[i][k] = 0 /\ UNCHANGED <<bitmap, addrs, panic>>
    <3>1. addrs' = addrs /\ bitmap' = bitmap /\ panic' = panic
      BY <2>1
    <3>2. addrs[i] = [addrs[i] EXCEPT ![k] = 0]
      BY <1>2, <1>4, <2>1
    <3> QED
      BY <1>3, <1>4, <2>1, <3>1, <3>2
  <2>2. CASE /\ addrs[i][k] # 0 /\ C!Bfree(addrs[i][k])
             /\ addrs' = [addrs EXCEPT ![i][k] = 0]
    <3>1. bitmap' = bitmap \ {addrs[i][k]} /\ panic' = panic
      BY <1>3, <2>2, BfreeIs
    <3>2. 0 \in BlocksOr0
      BY DEF BlocksOr0
    <3>3. /\ addrs'[i] = [addrs[i] EXCEPT ![k] = 0]
          /\ addrs' \in [Inodes -> [Slots -> BlocksOr0]]
          /\ \A j \in Inodes \ {i} : addrs'[j] = addrs[j]
      BY <1>2, <1>4, <2>2, <3>2
    <3> QED
      BY <1>3, <2>2, <3>1, <3>3
  <2> QED
    BY <1>1, <2>1, <2>2
<1>6. C!Indirect(i)' = C!Indirect(i)
  BY <1>2, <1>4, <1>5 DEF C!Indirect
<1>7. ASSUME NEW l \in 0..(C!MAXFILE - 1)
      PROVE  C!Mapped(i, l)' = IF l = k THEN 0 ELSE C!Mapped(i, l)
  <2>1. CASE l < NDIRECT
    <3>1. l \in Slots /\ ~(l >= NDIRECT)
      BY <1>2, <2>1 DEF Slots
    <3>2. C!Mapped(i, l)' = addrs'[i][l] /\ C!Mapped(i, l) = addrs[i][l]
      BY <2>1, <3>1 DEF C!Mapped
    <3> QED
      BY <1>2, <1>4, <1>5, <3>1, <3>2
  <2>2. CASE ~(l < NDIRECT)
    <3>1. l >= NDIRECT /\ l # k
      BY <1>2, <2>2
    <3>2. data' = data
      BY <1>1
    <3> QED
      BY <1>6, <2>2, <3>1, <3>2 DEF C!Mapped
  <2> QED
    BY <2>1, <2>2
<1>8. ASSUME NEW l \in 0..(NDIRECT - 1), l < k + 1 PROVE addrs'[i][l] = 0
  <2>1. l \in Slots /\ (l = k \/ l < k)
    BY <1>2, <1>8 DEF Slots
  <2>2. l < k => addrs[i][l] = 0
    BY <1>1, InodeTypes DEF CallSound
  <2> QED
    BY <1>4, <1>5, <2>1, <2>2
<1>9. \A l \in 0..(C!MAXFILE - 1) \ {k} : C!Mapped(i, l)' = C!Mapped(i, l)
  BY <1>7
<1>10. C!Mapped(i, k)' \in BlocksOr0
  BY <1>2, <1>7 DEF BlocksOr0
<1> QED
  BY <1>1, <1>2, <1>5, <1>6, <1>8, <1>9, <1>10, TruncatedPart

LEMMA TruncIndirectStep ==
    ASSUME ContentInv, NEW p \in Procs, NEW i \in Inodes, C!TruncIndirect(p, i)
    PROVE  ContentInv'
<1>1. PICK e \in 0..(C!NINDIRECT - 1) :
        /\ call[i].op = "trunc" /\ call[i].next = NDIRECT + e /\ C!NextBlock(i)
        /\ \/ C!Mapped(i, NDIRECT + e) = 0 /\ UNCHANGED <<bitmap, panic>>
           \/ C!Mapped(i, NDIRECT + e) # 0 /\ C!Bfree(C!Mapped(i, NDIRECT + e))
        /\ data' = data /\ addrs' = addrs /\ size' = size /\ dinode' = dinode
        /\ holder' = holder /\ bno' = bno /\ file' = file
  BY DEF C!TruncIndirect, C!Truncating, C!Doing
<1>2. PICK k : k = NDIRECT + e
  OBVIOUS
<1>3. k \in 0..(C!MAXFILE - 1) /\ k \in Nat /\ NDIRECT \in Nat /\ k >= NDIRECT
  BY <1>2, ContentNumbers
<1>4. C!Named(i, k) = C!Mapped(i, k) /\ k \in 0..(C!MAXFILE + 1)
  <2>1. ~C!Freed(i, k)
    BY <1>1, <1>2, <1>3 DEF C!Freed
  <2> QED
    BY <1>3, <2>1, MappedIsNamed
<1>5. /\ panic' = panic
      /\ \/ C!Mapped(i, k) = 0 /\ bitmap' = bitmap
         \/ C!Mapped(i, k) # 0 /\ bitmap' = bitmap \ {C!Mapped(i, k)}
  <2>1. CASE C!Mapped(i, k) = 0 /\ UNCHANGED <<bitmap, panic>>
    BY <2>1
  <2>2. CASE C!Mapped(i, k) # 0 /\ C!Bfree(C!Mapped(i, k))
    BY <1>4, <2>2, BfreeIs
  <2> QED
    BY <1>1, <1>2, <2>1, <2>2
<1>6. C!Indirect(i)' = C!Indirect(i) /\ data' = data /\ addrs' = addrs
  BY <1>1 DEF C!Indirect
<1>7. \A l \in 0..(C!MAXFILE - 1) : C!Mapped(i, l)' = C!Mapped(i, l)
  BY <1>6, SameMap
<1>8. ASSUME NEW l \in 0..(NDIRECT - 1), l < k + 1 PROVE addrs'[i][l] = 0
  <2>1. l < k
    BY <1>3
  <2>2. addrs[i][l] = 0
    BY <1>1, <1>2, <2>1, InodeTypes DEF CallSound
  <2> QED
    BY <1>6, <2>2
<1>9. C!Mapped(i, k)' \in BlocksOr0
  BY <1>3, <1>7, InodeTypes
<1>10. addrs' \in [Inodes -> [Slots -> BlocksOr0]]
  BY <1>6 DEF ContentInv, ContentTypeOK
<1>11. \A l \in 0..(C!MAXFILE - 1) \ {k} : C!Mapped(i, l)' = C!Mapped(i, l)
  BY <1>7
<1> QED
  BY <1>1, <1>2, <1>3, <1>5, <1>6, <1>8, <1>9, <1>10, <1>11, TruncatedPart

LEMMA TruncDoneStep ==
    ASSUME ContentInv, NEW p \in Procs, NEW i \in Inodes, C!TruncDone(p, i)
    PROVE  ContentInv'
<1>1. /\ call[i].op = "trunc" /\ call[i].next = C!MAXFILE
      /\ \/ C!Indirect(i) = 0 /\ UNCHANGED <<bitmap, addrs, panic>>
         \/ /\ C!Indirect(i) # 0 /\ C!Bfree(C!Indirect(i))
            /\ addrs' = [addrs EXCEPT ![i][NDIRECT] = 0]
      /\ size' = [size EXCEPT ![i] = 0]
      /\ dinode' = [dinode EXCEPT ![i] = <<addrs'[i], 0>>]
      /\ file' = [file EXCEPT ![i] = <<>>]
      /\ holder' = [holder EXCEPT ![i] = NoProc]
      /\ call' = [call EXCEPT ![i] = [op |-> "none"]]
      /\ data' = data /\ bno' = bno
  BY DEF C!TruncDone, C!Truncating, C!Doing, C!Iupdate, C!Unlock
<1>2. PICK top : top = C!MAXFILE
  OBVIOUS
<1>3. /\ top \in 0..(C!MAXFILE + 1) /\ top \in Nat /\ NDIRECT \in Nat /\ NDIRECT \in Slots
      /\ C!Named(i, top) = C!Indirect(i) /\ C!Indirect(i) = addrs[i][NDIRECT]
  BY <1>2, ContentNumbers, NamedCases DEF Slots, C!Indirect
<1>4. addrs \in [Inodes -> [Slots -> BlocksOr0]] /\ addrs[i] \in [Slots -> BlocksOr0]
  BY DEF ContentInv, ContentTypeOK
<1>5. /\ addrs'[i] = [addrs[i] EXCEPT ![NDIRECT] = 0] /\ panic' = panic
      /\ addrs' \in [Inodes -> [Slots -> BlocksOr0]]
      /\ \A j \in Inodes \ {i} : addrs'[j] = addrs[j]
      /\ \/ C!Named(i, top) = 0 /\ bitmap' = bitmap
         \/ C!Named(i, top) # 0 /\ bitmap' = bitmap \ {C!Named(i, top)}
  <2>1. CASE C!Indirect(i) = 0 /\ UNCHANGED <<bitmap, addrs, panic>>
    <3>1. addrs' = addrs /\ bitmap' = bitmap /\ panic' = panic
      BY <2>1
    <3>2. addrs[i] = [addrs[i] EXCEPT ![NDIRECT] = 0]
      BY <1>3, <1>4, <2>1
    <3> QED
      BY <1>3, <1>4, <2>1, <3>1, <3>2
  <2>2. CASE /\ C!Indirect(i) # 0 /\ C!Bfree(C!Indirect(i))
             /\ addrs' = [addrs EXCEPT ![i][NDIRECT] = 0]
    <3>1. bitmap' = bitmap \ {C!Named(i, top)} /\ panic' = panic
      BY <1>3, <2>2, BfreeIs
    <3>2. 0 \in BlocksOr0
      BY DEF BlocksOr0
    <3>3. /\ addrs'[i] = [addrs[i] EXCEPT ![NDIRECT] = 0]
          /\ addrs' \in [Inodes -> [Slots -> BlocksOr0]]
          /\ \A j \in Inodes \ {i} : addrs'[j] = addrs[j]
      BY <1>3, <1>4, <2>2, <3>2
    <3> QED
      BY <1>3, <2>2, <3>1, <3>3
  <2> QED
    BY <1>1, <2>1, <2>2
<1>6. call'[i] = [op |-> "none"] /\ call'[i].op = "none" /\ holder'[i] = NoProc
      /\ size'[i] = 0 /\ file'[i] = <<>> /\ dinode'[i] = <<addrs'[i], 0>>
  BY <1>1 DEF ContentInv, ContentTypeOK
<1>7. ContentTypeOK'
  <2>1. [op |-> "none"] \in NoCalls
    BY DEF NoCalls
  <2>2. holder' \in [Inodes -> Procs \cup {NoProc}] /\ bitmap' \subseteq Blocks
    BY <1>1, <1>5 DEF ContentInv, ContentTypeOK
  <2>3. call' \in [Inodes -> WriteCalls \cup ReadCalls \cup TruncCalls \cup NoCalls]
    BY <1>1, <2>1 DEF ContentInv, ContentTypeOK
  <2>4. size' \in [Inodes -> 0..MaxBytes]
    <3>1. 0 \in 0..MaxBytes
      BY ContentNumbers
    <3> QED
      BY <1>1, <3>1 DEF ContentInv, ContentTypeOK
  <2>5. file' \in [Inodes -> Seq(Nat)]
    <3>1. <<>> \in Seq(Nat)
      OBVIOUS
    <3> QED
      BY <1>1, <3>1 DEF ContentInv, ContentTypeOK
  <2>6. dinode' \in [Inodes -> [Slots -> BlocksOr0] \X Nat]
    <3>1. addrs'[i] \in [Slots -> BlocksOr0]
      BY <1>5
    <3>2. <<addrs'[i], 0>> \in [Slots -> BlocksOr0] \X Nat
      BY <3>1
    <3> QED
      BY <1>1, <3>2 DEF ContentInv, ContentTypeOK
  <2> QED
    BY <1>1, <1>5, <2>2, <2>3, <2>4, <2>5, <2>6 DEF ContentInv, ContentTypeOK
<1>8. bno[i] = NoBlock /\ \A k \in 0..(NDIRECT - 1) : addrs[i][k] = 0
  <2>1. NDIRECT - 1 < C!MAXFILE
    BY ContentNumbers
  <2>2. \A k \in 0..(NDIRECT - 1) : k < C!MAXFILE
    BY <1>3, <2>1, ContentNumbers
  <2> QED
    BY <1>1, <2>2, InodeTypes DEF CallSound
<1>9. C!Indirect(i)' = 0
  BY <1>3, <1>4, <1>5 DEF C!Indirect
<1>10. \A k \in 0..(C!MAXFILE - 1) : C!Mapped(i, k)' = 0
  <2> SUFFICES ASSUME NEW k \in 0..(C!MAXFILE - 1) PROVE C!Mapped(i, k)' = 0
    OBVIOUS
  <2>1. CASE k < NDIRECT
    <3>1. k \in Slots /\ k \in 0..(NDIRECT - 1) /\ k # NDIRECT /\ ~(k >= NDIRECT)
      BY <1>3, <2>1 DEF Slots
    <3>2. C!Mapped(i, k)' = addrs'[i][k]
      BY <2>1, <3>1 DEF C!Mapped
    <3> QED
      BY <1>4, <1>5, <1>8, <3>1, <3>2
  <2>2. CASE ~(k < NDIRECT)
    <3>1. k >= NDIRECT
      BY <1>3, <2>2
    <3> QED
      BY <1>9, <2>2, <3>1 DEF C!Mapped
  <2> QED
    BY <2>1, <2>2
<1>11. C!Named(i, top)' = 0
  <2>1. ~(top > C!MAXFILE) /\ top = C!MAXFILE
    BY <1>2, <1>3
  <2> QED
    BY <1>9, <2>1 DEF C!Named
<1>12. ASSUME NEW k \in 0..(C!MAXFILE + 1) \ {top} PROVE C!Named(i, k)' = C!Named(i, k)
  <2>1. C!MAXFILE \in Nat
    BY ContentNumbers
  <2>2. CASE k < C!MAXFILE
    <3>1. k \in 0..(C!MAXFILE - 1) /\ ~(k > C!MAXFILE) /\ k # C!MAXFILE
      BY <2>1, <2>2
    <3>2. C!Freed(i, k)
      BY <1>1, <2>2 DEF C!Freed
    <3>3. ~C!Freed(i, k)'
      BY <1>6 DEF C!Freed
    <3>4. C!Named(i, k) = 0
      BY <2>2, <3>1, <3>2 DEF C!Named
    <3>5. C!Named(i, k)' = C!Mapped(i, k)'
      BY <2>2, <3>1, <3>3 DEF C!Named
    <3> QED
      BY <1>10, <3>1, <3>4, <3>5
  <2>3. CASE ~(k < C!MAXFILE)
    <3>1. k > C!MAXFILE /\ k # C!MAXFILE
      BY <1>2, <2>1, <2>3
    <3>2. bno' = bno
      BY <1>1
    <3> QED
      BY <2>3, <3>1, <3>2 DEF C!Named
  <2> QED
    BY <2>2, <2>3
<1>13. OnlyOwn(i)
  BY <1>1 DEF OnlyOwn
<1>14. \A j \in Inodes \ {i} :
          InodeSound(j)' /\ \A k \in 0..(C!MAXFILE + 1) : C!Named(j, k)' = C!Named(j, k)
  <2>1. \A j \in Inodes \ {i} :
              /\ addrs'[j] = addrs[j] /\ size'[j] = size[j] /\ dinode'[j] = dinode[j]
              /\ holder'[j] = holder[j] /\ call'[j] = call[j] /\ bno'[j] = bno[j]
              /\ file'[j] = file[j]
    BY <1>1, <1>5 DEF ContentInv, ContentTypeOK
  <2> QED
    BY <1>13, <2>1, OthersUntouched
<1>15. Owned(NextNames, bitmap')
  BY <1>3, <1>5, <1>11, <1>12, <1>14, OneNameLost
<1>16. InodeSound(i)'
  <2>1. CallSound(i)'
    BY <1>1, <1>6, <1>8 DEF CallSound
  <2>2. Reach(i)' = 0
    BY <1>6 DEF Reach
  <2>3. size'[i] = Len(file'[i])
    BY <1>6
  <2>4. BytesSound(i)'
    BY <2>2, <2>3 DEF BytesSound
  <2>5. DinodeSound(i)'
    BY <1>6 DEF DinodeSound
  <2>6. \A k \in 0..(C!MAXFILE - 1) : C!Mapped(i, k)' \in BlocksOr0
    BY <1>10 DEF BlocksOr0
  <2> QED
    BY <2>1, <2>4, <2>5, <2>6 DEF InodeSound
<1> QED
  BY <1>7, <1>14, <1>15, <1>16, ContentParts

LEMMA ContentUnchanged ==
    ASSUME ContentInv, bitmap' = bitmap, data' = data, addrs' = addrs, size' = size,
           dinode' = dinode, holder' = holder, call' = call, bno' = bno, panic' = panic,
           file' = file
    PROVE  ContentInv'
<1>1. ContentTypeOK'
  BY DEF ContentInv, ContentTypeOK
<1>2. \A j \in Inodes :
         InodeSound(j)' /\ \A k \in 0..(C!MAXFILE + 1) : C!Named(j, k)' = C!Named(j, k)
  BY Untouched
<1>3. Owned(NextNames, bitmap')
  BY <1>2, NoNameChanges, OwnedSame DEF ContentInv
<1>4. Owned(AllNames, bitmap)'
  BY <1>3 DEF NextNames, Owned
<1> QED
  BY <1>1, <1>2, <1>4 DEF ContentInv

-----------------------------------------------------------------------------
(* Every step *)

LEMMA ContentStep ==
    ASSUME ContentInv, C!Next
    PROVE  ContentInv'
<1>1. ASSUME NEW p \in Procs, NEW i \in Inodes, C!Step(p, i) PROVE ContentInv'
  <2>1. CASE C!CallWrite(p, i)
    BY <2>1, CallWriteStep
  <2>2. CASE C!CallRead(p, i)
    BY <2>2, CallReadStep
  <2>3. CASE C!CallTrunc(p, i)
    BY <2>3, CallTruncStep
  <2>4. CASE C!Bmap(p, i)
    BY <2>4, BmapStep
  <2>5. CASE C!Bzero(p, i)
    BY <2>5, BzeroStep
  <2>6. CASE C!Writei(p, i)
    BY <2>6, WriteiStep
  <2>7. CASE C!WriteDone(p, i)
    BY <2>7, WriteDoneStep
  <2>8. CASE C!Readi(p, i)
    BY <2>8, ReadiStep
  <2>9. CASE C!ReadDone(p, i)
    BY <2>9, ReadDoneStep
  <2>10. CASE C!TruncDirect(p, i)
    BY <2>10, TruncDirectStep
  <2>11. CASE C!TruncIndirect(p, i)
    BY <2>11, TruncIndirectStep
  <2>12. CASE C!TruncDone(p, i)
    BY <2>12, TruncDoneStep
  <2> QED
    BY <1>1, <2>1, <2>2, <2>3, <2>4, <2>5, <2>6, <2>7, <2>8, <2>9, <2>10, <2>11, <2>12
       DEF C!Step
<1>2. ASSUME C!Halted PROVE ContentInv'
  BY <1>2, ContentUnchanged DEF C!Halted, C!cvars
<1> QED
  BY <1>1, <1>2 DEF C!Next

LEMMA ContentInitially ==
    ASSUME C!Init
    PROVE  ContentInv
<1>1. /\ bitmap = {} /\ data = [b \in Blocks |-> [c \in C!Cells |-> 0]]
      /\ addrs = [i \in Inodes |-> [k \in Slots |-> 0]]
      /\ size = [i \in Inodes |-> 0] /\ dinode = [i \in Inodes |-> <<addrs[i], 0>>]
      /\ holder = [i \in Inodes |-> NoProc]
      /\ call = [i \in Inodes |-> [op |-> "none"]]
      /\ bno = [i \in Inodes |-> NoBlock] /\ panic = "no"
      /\ file = [i \in Inodes |-> <<>>]
  BY DEF C!Init, Slots
<1>2. addrs \in [Inodes -> [Slots -> BlocksOr0]] /\ \A i \in Inodes : \A k \in Slots : addrs[i][k] = 0
  BY <1>1 DEF BlocksOr0
<1>3. ContentTypeOK
  <2>1. [op |-> "none"] \in NoCalls
    BY DEF NoCalls
  <2>2. size \in [Inodes -> 0..MaxBytes]
    BY <1>1, ContentNumbers
  <2>3. file \in [Inodes -> Seq(Nat)]
    <3>1. <<>> \in Seq(Nat)
      OBVIOUS
    <3> QED
      BY <1>1, <3>1
  <2>4. dinode \in [Inodes -> [Slots -> BlocksOr0] \X Nat]
    <3>1. \A i \in Inodes : <<addrs[i], 0>> \in [Slots -> BlocksOr0] \X Nat
      BY <1>2
    <3> QED
      BY <1>1, <3>1
  <2>5. data \in [Blocks -> [C!Cells -> Nat]]
    BY <1>1
  <2>6. call \in [Inodes -> WriteCalls \cup ReadCalls \cup TruncCalls \cup NoCalls]
    BY <1>1, <2>1
  <2> QED
    BY <1>1, <1>2, <2>2, <2>3, <2>4, <2>5, <2>6 DEF ContentTypeOK
<1>4. ASSUME NEW i \in Inodes
      PROVE  /\ C!Indirect(i) = 0
             /\ \A k \in 0..(C!MAXFILE - 1) : C!Mapped(i, k) = 0
             /\ \A k \in 0..(C!MAXFILE + 1) : C!Named(i, k) = 0
  <2>1. C!Indirect(i) = 0
    BY <1>2, ContentNumbers DEF C!Indirect, Slots
  <2>2. ASSUME NEW k \in 0..(C!MAXFILE - 1) PROVE C!Mapped(i, k) = 0
    <3>1. k < NDIRECT => k \in Slots
      BY ContentNumbers DEF Slots
    <3>2. k < NDIRECT \/ k >= NDIRECT
      BY ContentNumbers
    <3> QED
      BY <1>2, <2>1, <3>1, <3>2, MappedCases
  <2>3. ASSUME NEW k \in 0..(C!MAXFILE + 1) PROVE C!Named(i, k) = 0
    <3>1. k < C!MAXFILE => k \in 0..(C!MAXFILE - 1)
      BY ContentNumbers
    <3>2. k < C!MAXFILE \/ k = C!MAXFILE \/ k = C!MAXFILE + 1
      BY ContentNumbers
    <3> QED
      BY <1>1, <2>1, <2>2, <3>1, <3>2, NamedCases
  <2> QED
    BY <2>1, <2>2, <2>3
<1>5. Owned(AllNames, bitmap)
  <2>1. ASSUME NEW q \in C!Places PROVE AllNames[q] = 0
    <3>1. PICK i \in Inodes, k \in 0..(C!MAXFILE + 1) : q = <<i, k>>
      BY PlacesAre
    <3> QED
      BY <1>4, <3>1, NextNamesAre
  <2> QED
    BY <1>1, <2>1, ContentNumbers DEF Owned
<1>6. ASSUME NEW i \in Inodes PROVE InodeSound(i)
  <2>1. call[i].op = "none" /\ bno[i] = NoBlock /\ holder[i] = NoProc /\ size[i] = 0
        /\ dinode[i] = <<addrs[i], 0>> /\ file[i] = <<>>
    BY <1>1
  <2>2. CallSound(i)
    BY <2>1 DEF CallSound
  <2>3. Reach(i) = 0
    BY <2>1 DEF Reach
  <2>4. size[i] = Len(file[i])
    BY <2>1
  <2>5. BytesSound(i)
    BY <2>3, <2>4 DEF BytesSound
  <2>6. DinodeSound(i)
    BY <2>1 DEF DinodeSound
  <2>7. \A k \in 0..(C!MAXFILE - 1) : C!Mapped(i, k) \in BlocksOr0
    BY <1>4 DEF BlocksOr0
  <2> QED
    BY <2>2, <2>5, <2>6, <2>7 DEF InodeSound
<1> QED
  BY <1>3, <1>5, <1>6 DEF ContentInv

-----------------------------------------------------------------------------
(* What the invariant says of blocks and files *)

LEMMA SameCount ==
    ASSUME NEW O, NEW S, IsFiniteSet(S), NEW f \in [O -> S],
           \A q, r \in O : f[q] = f[r] => q = r, \A b \in S : \E q \in O : f[q] = b
    PROVE  Cardinality(O) = Cardinality(S)
<1>1. f \in Injection(O, S)
  BY DEF Injection, IsInjective
<1>2. f \in Surjection(O, S)
  BY DEF Surjection
<1> QED
  BY <1>1, <1>2, FS_Injection

LEMMA ContentCounts == \A S : C!Cardinality(S) = Cardinality(S)
  BY DEF C!Cardinality, Cardinality

LEMMA BlocksAreOwnedOnce ==
    ASSUME ContentInv
    PROVE  C!BlocksOwnedOnce
<1> DEFINE own == {q \in C!Places : C!Named(q[1], q[2]) # 0}
<1>1. \A q : q \in own <=> q \in C!Places /\ C!Named(q[1], q[2]) # 0
  OBVIOUS
<1> HIDE DEF own
<1>2. PICK f : f = [q \in own |-> C!Named(q[1], q[2])]
  OBVIOUS
<1>3. ASSUME NEW q \in C!Places
      PROVE  AllNames[q] = C!Named(q[1], q[2]) /\ AllNames[q] \in BlocksOr0
  <2>1. PICK i \in Inodes, k \in 0..(C!MAXFILE + 1) : q = <<i, k>>
    BY PlacesAre
  <2> QED
    BY <2>1, NextNamesAre, NamedType
<1>4. /\ \A q, r \in C!Places : AllNames[q] # 0 /\ AllNames[q] = AllNames[r] => q = r
      /\ \A b \in Blocks : b \in bitmap <=> \E q \in C!Places : AllNames[q] = b
      /\ bitmap \subseteq Blocks
  BY DEF ContentInv, Owned, ContentTypeOK
<1>5. \A q \in own : f[q] = AllNames[q] /\ q \in C!Places /\ AllNames[q] # 0
                        /\ AllNames[q] \in Blocks
  BY <1>1, <1>2, <1>3 DEF BlocksOr0
<1>6. \A b \in bitmap : \E q \in own : f[q] = b
  <2> SUFFICES ASSUME NEW b \in bitmap PROVE \E q \in own : f[q] = b
    OBVIOUS
  <2>1. PICK q \in C!Places : AllNames[q] = b
    BY <1>4
  <2>2. b # 0
    BY <1>4, ContentNumbers
  <2>3. q \in own
    BY <1>1, <1>3, <2>1, <2>2
  <2> QED
    BY <1>5, <2>1, <2>3
<1>7. \A q \in own : f[q] \in bitmap
  BY <1>4, <1>5
<1>8. f \in [own -> bitmap]
  BY <1>2, <1>7
<1>9. \A q, r \in own : f[q] = f[r] => q = r
  BY <1>4, <1>5
<1>10. IsFiniteSet(bitmap)
  BY <1>4, ContentAssumption, FS_Subset
<1>11. Cardinality(own) = Cardinality(bitmap)
  BY <1>6, <1>8, <1>9, <1>10, SameCount
<1>12. bitmap = {C!Named(q[1], q[2]) : q \in own}
  <2>1. \A q \in own : f[q] = C!Named(q[1], q[2])
    BY <1>2
  <2> QED
    BY <1>6, <1>7, <2>1
<1> QED
  BY <1>11, <1>12, ContentCounts DEF C!BlocksOwnedOnce, own

LEMMA ContentIsSound ==
    ASSUME ContentInv
    PROVE  C!NoPanic /\ C!ContentKept /\ C!DinodeWritten /\ C!ReadsBack
<1>1. C!NoPanic
  BY DEF ContentInv, ContentTypeOK, C!NoPanic
<1>2. ASSUME NEW i \in Inodes, holder[i] = NoProc
      PROVE  /\ size[i] = Len(file[i]) /\ dinode[i] = <<addrs[i], size[i]>>
             /\ \A x \in 0..(size[i] - 1) : C!ByteAt(i, x) = file[i][x + 1]
  <2>1. call[i].op = "none"
    BY <1>2, InodeTypes DEF CallSound
  <2>2. Reach(i) = size[i]
    BY <2>1 DEF Reach
  <2>3. dinode[i] = <<addrs[i], size[i]>>
    BY <2>1, InodeTypes DEF DinodeSound, WillGrow
  <2>4. \A x : Expected(i, x) = file[i][x + 1]
    BY <2>1 DEF Expected
  <2> QED
    BY <2>1, <2>2, <2>3, <2>4, InodeTypes DEF BytesSound
<1>3. ASSUME NEW i \in Inodes, call[i].op = "read"
      PROVE  /\ bno[i] = NoBlock
             /\ call[i].dst = SubSeq(file[i], call[i].off - call[i].tot + 1, call[i].off)
  BY <1>3, InodeTypes DEF CallSound
<1> QED
  BY <1>1, <1>2, <1>3 DEF C!ContentKept, C!DinodeWritten, C!ReadsBack

-----------------------------------------------------------------------------
(* Directories and path names *)

WithIp == {"locked", "use", "create", "unlink", "victim", "both"}
WithChild == {"both", "keep", "drop"}
Reaching == {"next", "victim", "both", "keep", "drop", "putchild"}
Standing == {"user", "walk", "open", "put", "parent", "panic"} \cup WithIp \cup Reaching

(* Those that the calls bring with them, and the kernel's own.             *)
FileNames == STRING \cup {".", "..", "/"}

DirTypeOK ==
    /\ type \in [Inums -> {"free", "dir", "file"}]
    /\ linked \in [Inums -> BOOLEAN]
    /\ entries \in [Inums -> Seq([name : FileNames, inum : Inums \cup {0}])]
    /\ dholder \in [Inums -> Procs \cup {NoProc}]
    /\ dpc \in [Procs -> Standing]
    /\ path \in [Procs -> Seq(FileNames)]
    /\ cwd \in [Procs -> Inums]
    /\ ip \in [Procs -> Inums \cup {0}] /\ child \in [Procs -> Inums \cup {0}]
    /\ elem \in [Procs -> FileNames]

(* A directory begins with its own entries; nothing else has any.          *)
FormSound(d) ==
    /\ type[d] # "dir" => entries[d] = <<>>
    /\ type[d] = "dir" =>
          /\ Len(entries[d]) >= 2
          /\ entries[d][1] = [name |-> ".", inum |-> d]
          /\ entries[d][2].name = ".." /\ entries[d][2].inum # 0
          /\ \A k \in 3..Len(entries[d]) :
                entries[d][k].inum # 0 => entries[d][k].name \notin D!Fixed

NameSound(d, k) ==
    LET m == entries[d][k].inum IN
    /\ type[m] # "free" /\ linked[m] /\ m # D!Root
    /\ type[m] = "dir" => entries[m][2].inum = d

(* One entry of a name, and one that leads to an inode.                    *)
OneEntry(d, j, e, k) ==
    /\ entries[d][j].inum = entries[e][k].inum => d = e /\ j = k
    /\ d = e /\ entries[d][j].name = entries[e][k].name => j = k

TreeInv ==
    /\ type[D!Root] = "dir" /\ linked[D!Root]
    /\ \A d \in Inums : FormSound(d)
    /\ \A d \in Inums : \A k \in D!Names(d) : NameSound(d, k)
    /\ \A d, e \in Inums : \A j \in D!Names(d), k \in D!Names(e) : OneEntry(d, j, e, k)

(* Entries lead downwards: the tree has no circle.                         *)
Ranked ==
    \E top \in Nat : \E r \in [Inums -> 0..top] :
        \A d \in Inums : \A k \in D!Names(d) : r[d] < r[entries[d][k].inum]

(* The locks that a process has, by where it stands.                       *)
Holds(p) == (IF dpc[p] \in WithIp THEN {ip[p]} ELSE {})
               \cup (IF dpc[p] \in WithChild THEN {child[p]} ELSE {})

LocksHeld == \A p \in Procs, m \in Inums : dholder[m] = p <=> m \in Holds(p)

(* What a process has a reference to is not free, unless it came by "..".  *)
RefsSound(p) ==
    /\ ip[p] # 0 <=> dpc[p] # "user"
    /\ child[p] # 0 <=> dpc[p] \in Reaching
    /\ type[cwd[p]] # "free"
    /\ ip[p] # 0 /\ type[ip[p]] = "free" => elem[p] = ".." /\ dpc[p] \in {"walk", "open", "put"}
    /\ child[p] # 0 /\ type[child[p]] = "free" => elem[p] = ".." /\ dpc[p] = "next"

(* What a walk has left, and what create and unlink have found.            *)
FoundSound(p) ==
    /\ dpc[p] = "locked" => path[p] # <<>>
    /\ dpc[p] \in {"parent", "create", "unlink", "victim", "both"} => type[ip[p]] = "dir"
    /\ dpc[p] \in {"victim", "both"} =>
          \E k \in D!Names(ip[p]) : /\ entries[ip[p]][k].inum = child[p]
                                    /\ entries[ip[p]][k].name = elem[p]
    /\ dpc[p] = "drop" =>
          /\ child[p] # D!Root
          /\ \A d \in Inums : \A k \in D!Names(d) : entries[d][k].inum # child[p]

DirInv ==
    /\ DirTypeOK /\ TreeInv /\ Ranked /\ D!PanicsAtDotDot
    /\ ~D!Halted => /\ LocksHeld
                    /\ \A p \in Procs : RefsSound(p) /\ FoundSound(p)

Entry == [name : FileNames, inum : Inums \cup {0}]

(* Numbers have a least one.                                               *)
LEMMA Least ==
    ASSUME NEW S \in SUBSET Nat, S # {}
    PROVE  \E a \in S : \A b \in S : a <= b
<1> DEFINE Less == OpToRel(<, Nat)
<1>1. IsWellFoundedOn(Less, Nat)
  BY NatLessThanWellFounded
<1>2. \A b, c \in Nat : b < c => <<b, c>> \in Less
  BY DEF OpToRel
<1> HIDE DEF Less
<1>3. PICK a \in S : \A b \in S : ~(<<b, a>> \in Less)
  BY <1>1, WFMin
<1>4. \A b \in S : ~(b < a)
  BY <1>2, <1>3
<1> QED
  BY <1>4

LEMMA DirConstants ==
    /\ D!Root \in Inums /\ 0 \notin Inums /\ NoProc \notin Procs
    /\ D!Fixed = {".", ".."}
  BY DirectoriesAssumption, ContentAssumption DEF D!Root, D!Fixed

LEMMA EntryTypes ==
    ASSUME DirTypeOK, NEW d \in Inums
    PROVE  /\ entries[d] \in Seq(Entry) /\ Len(entries[d]) \in Nat
           /\ \A k \in 1..Len(entries[d]) :
                 /\ entries[d][k] \in Entry
                 /\ entries[d][k].inum \in Inums \cup {0} /\ entries[d][k].name \in FileNames
           /\ D!Names(d) \subseteq 1..Len(entries[d])
           /\ \A k \in D!Names(d) :
                 /\ entries[d][k].inum \in Inums /\ entries[d][k].inum # 0
                 /\ entries[d][k].name \notin D!Fixed
<1>1. entries[d] \in Seq(Entry)
  BY DEF DirTypeOK, Entry
<1>2. Len(entries[d]) \in Nat /\ \A k \in 1..Len(entries[d]) : entries[d][k] \in Entry
  BY <1>1
<1>3. \A k \in 1..Len(entries[d]) :
         entries[d][k].inum \in Inums \cup {0} /\ entries[d][k].name \in FileNames
  BY <1>2 DEF Entry
<1>4. \A k \in D!Names(d) : k \in 1..Len(entries[d]) /\ entries[d][k].inum # 0
                            /\ entries[d][k].name \notin D!Fixed
  BY DEF D!Names
<1> QED
  BY <1>1, <1>2, <1>3, <1>4

(* dirlookup answers with an entry of the name, or 0.                      *)
LEMMA LookupAnswer ==
    ASSUME DirTypeOK, NEW d \in Inums, NEW nm
    PROVE  \/ D!Matches(d, nm) = {} /\ D!Lookup(d, nm) = 0
           \/ /\ D!Lookup(d, nm) \in Inums /\ D!Lookup(d, nm) # 0
              /\ \E k \in D!Matches(d, nm) : D!Lookup(d, nm) = entries[d][k].inum
<1>1. D!Matches(d, nm) \in SUBSET Nat
  BY EntryTypes DEF D!Matches
<1>2. CASE D!Matches(d, nm) = {}
  BY <1>2 DEF D!Lookup
<1>3. CASE D!Matches(d, nm) # {}
  <2>1. \E a \in D!Matches(d, nm) : \A b \in D!Matches(d, nm) : a <= b
    BY <1>1, <1>3, Least
  <2>2. PICK k \in D!Matches(d, nm) : D!Lookup(d, nm) = entries[d][k].inum
    BY <1>3, <2>1 DEF D!Lookup
  <2>3. k \in 1..Len(entries[d]) /\ entries[d][k].inum # 0
    BY <2>2 DEF D!Matches
  <2>4. entries[d][k].inum \in Inums
    BY <2>3, EntryTypes
  <2> QED
    BY <2>2, <2>3, <2>4
<1> QED
  BY <1>2, <1>3

LEMMA LookupOf ==
    ASSUME DirTypeOK, NEW d \in Inums, NEW nm, D!Lookup(d, nm) # 0
    PROVE  \E k \in 1..Len(entries[d]) :
              /\ entries[d][k].inum = D!Lookup(d, nm) /\ entries[d][k].name = nm
              /\ nm \notin D!Fixed => k \in D!Names(d)
<1>1. PICK k \in D!Matches(d, nm) : D!Lookup(d, nm) = entries[d][k].inum
  BY LookupAnswer
<1>2. k \in 1..Len(entries[d]) /\ entries[d][k].inum # 0 /\ entries[d][k].name = nm
  BY <1>1 DEF D!Matches
<1>3. nm \notin D!Fixed => k \in D!Names(d)
  BY <1>2 DEF D!Names
<1> QED
  BY <1>1, <1>2, <1>3

LEMMA LookupNone ==
    ASSUME DirTypeOK, NEW d \in Inums, NEW nm, D!Lookup(d, nm) = 0,
           NEW k \in 1..Len(entries[d]), entries[d][k].name = nm
    PROVE  entries[d][k].inum = 0
<1>1. D!Matches(d, nm) = {}
  BY LookupAnswer
<1> QED
  BY <1>1 DEF D!Matches

(* "." leads to the directory itself, and ".." wherever its entry leads.   *)
LEMMA LookupFixed ==
    ASSUME DirTypeOK, NEW d \in Inums, type[d] = "dir", FormSound(d)
    PROVE  /\ D!Lookup(d, ".") = d
           /\ D!Lookup(d, "..") = entries[d][2].inum /\ entries[d][2].inum \in Inums
<1>1. /\ Len(entries[d]) \in Nat /\ Len(entries[d]) >= 2
      /\ entries[d][1].name = "." /\ entries[d][1].inum = d
      /\ entries[d][2].name = ".." /\ entries[d][2].inum # 0
      /\ \A k \in 3..Len(entries[d]) : entries[d][k].inum # 0 => entries[d][k].name \notin {".", ".."}
  BY EntryTypes, DirConstants DEF FormSound
<1>2. entries[d][2].inum \in Inums
  BY <1>1, EntryTypes
<1>3. 1 \in D!Matches(d, ".") /\ 2 \in D!Matches(d, "..")
  BY <1>1, DirConstants DEF D!Matches
<1>4. ASSUME NEW k \in 1..Len(entries[d]), entries[d][k].inum # 0
      PROVE  (entries[d][k].name = "." => k = 1) /\ (entries[d][k].name = ".." => k = 2)
  BY <1>1, <1>4
<1>5. \A k \in D!Matches(d, ".") : k = 1
  BY <1>4 DEF D!Matches
<1>6. \A k \in D!Matches(d, "..") : k = 2
  BY <1>4 DEF D!Matches
<1>7. D!Lookup(d, ".") = entries[d][1].inum
  BY <1>3, <1>5, LookupAnswer
<1>8. D!Lookup(d, "..") = entries[d][2].inum
  BY <1>3, <1>6, LookupAnswer
<1> QED
  BY <1>1, <1>2, <1>7, <1>8

LEMMA NamesOf ==
    ASSUME DirTypeOK, NEW d \in Inums, FormSound(d)
    PROVE  /\ type[d] # "dir" => D!Names(d) = {}
           /\ \A k \in D!Names(d) : k \in 3..Len(entries[d])
<1>1. CASE type[d] # "dir"
  <2>1. Len(entries[d]) = 0
    BY <1>1 DEF FormSound
  <2> QED
    BY <2>1 DEF D!Names
<1>2. CASE type[d] = "dir"
  <2>1. /\ Len(entries[d]) \in Nat /\ entries[d][1].name = "." /\ entries[d][2].name = ".."
    BY <1>2, EntryTypes DEF FormSound
  <2>2. \A k \in D!Names(d) : k \in 1..Len(entries[d]) /\ k # 1 /\ k # 2
    BY <2>1, DirConstants DEF D!Names
  <2> QED
    BY <1>2, <2>1, <2>2
<1> QED
  BY <1>1, <1>2

LEMMA NamesKept ==
    ASSUME NEW d, entries'[d] = entries[d]
    PROVE  D!Names(d)' = D!Names(d)
  BY DEF D!Names

LEMMA FormKept ==
    ASSUME NEW d, FormSound(d), entries'[d] = entries[d], type'[d] = type[d]
    PROVE  FormSound(d)'
  BY DEF FormSound

(* After a step, all names are old ones, or lead to m.                     *)
NamesAdded(m) ==
    \A d \in Inums : \A k \in D!Names(d)' :
        \/ k \in D!Names(d) /\ entries'[d][k] = entries[d][k]
        \/ entries'[d][k].inum = m

(* All are old ones, and none leads to m.                                  *)
NamesTaken(m) ==
    \A d \in Inums : \A k \in D!Names(d)' :
        /\ k \in D!Names(d) /\ entries'[d][k] = entries[d][k]
        /\ entries'[d][k].inum # m

(* A step that only takes names away, and leaves alone what is named.      *)
LEMMA TreeShrinks ==
    ASSUME DirTypeOK, TreeInv, Ranked,
           \A d \in Inums : FormSound(d)',
           type'[D!Root] = "dir", linked'[D!Root],
           \A d \in Inums : \A k \in D!Names(d)' :
              k \in D!Names(d) /\ entries'[d][k] = entries[d][k],
           \A d \in Inums : \A k \in D!Names(d)' :
              LET x == entries[d][k].inum
              IN  /\ type'[x] = type[x] /\ linked'[x] = linked[x]
                  /\ entries'[x][2] = entries[x][2]
    PROVE  TreeInv' /\ Ranked'
<1>1. ASSUME NEW d \in Inums, NEW k \in D!Names(d)'
      PROVE  NameSound(d, k)'
  <2>1. k \in D!Names(d) /\ entries'[d][k] = entries[d][k]
    OBVIOUS
  <2>2. PICK x : x = entries[d][k].inum
    OBVIOUS
  <2>3. type'[x] = type[x] /\ linked'[x] = linked[x] /\ entries'[x][2] = entries[x][2]
    BY <2>2
  <2>4. type[x] # "free" /\ linked[x] /\ x # D!Root /\ (type[x] = "dir" => entries[x][2].inum = d)
    BY <2>1, <2>2 DEF TreeInv, NameSound
  <2>5. entries'[d][k].inum = x
    BY <2>1, <2>2
  <2> QED
    BY <2>3, <2>4, <2>5 DEF NameSound, D!Root
<1>2. ASSUME NEW d \in Inums, NEW e \in Inums, NEW j \in D!Names(d)', NEW k \in D!Names(e)'
      PROVE  OneEntry(d, j, e, k)'
  <2>1. /\ j \in D!Names(d) /\ entries'[d][j] = entries[d][j]
        /\ k \in D!Names(e) /\ entries'[e][k] = entries[e][k]
    OBVIOUS
  <2>2. OneEntry(d, j, e, k)
    BY <2>1 DEF TreeInv
  <2> QED
    BY <2>1, <2>2 DEF OneEntry
<1>3. TreeInv'
  BY <1>1, <1>2 DEF TreeInv, D!Root
<1>4. Ranked'
  <2>0. PICK top \in Nat : \E r \in [Inums -> 0..top] :
            \A d \in Inums : \A k \in D!Names(d) : r[d] < r[entries[d][k].inum]
    BY DEF Ranked
  <2>1. PICK r \in [Inums -> 0..top] :
            \A d \in Inums : \A k \in D!Names(d) : r[d] < r[entries[d][k].inum]
    BY <2>0
  <2>2. \A d \in Inums : \A k \in D!Names(d)' : r[d] < r[entries'[d][k].inum]
    BY <2>1
  <2> QED
    BY <2>2 DEF Ranked
<1> QED
  BY <1>3, <1>4

LEMMA TreeStays ==
    ASSUME DirTypeOK, TreeInv, Ranked, type' = type, linked' = linked, entries' = entries
    PROVE  TreeInv' /\ Ranked'
<1>1. \A d \in Inums : FormSound(d)'
  BY FormKept DEF TreeInv
<1>2. \A d \in Inums : D!Names(d)' = D!Names(d)
  BY NamesKept
<1>3. type'[D!Root] = "dir" /\ linked'[D!Root]
  BY DEF TreeInv
<1>4. \A d \in Inums : \A k \in D!Names(d)' :
              k \in D!Names(d) /\ entries'[d][k] = entries[d][k]
  BY <1>2
<1>5. \A d \in Inums : \A k \in D!Names(d)' :
              LET x == entries[d][k].inum
              IN  /\ type'[x] = type[x] /\ linked'[x] = linked[x]
                  /\ entries'[x][2] = entries[x][2]
  OBVIOUS
<1> QED
  BY <1>1, <1>3, <1>4, <1>5, TreeShrinks

(* iput frees an inode that is not linked, so has no name.                 *)
LEMMA TreeFrees ==
    ASSUME DirTypeOK, TreeInv, Ranked, NEW m \in Inums, ~linked[m],
           type' = [type EXCEPT ![m] = "free"], entries' = [entries EXCEPT ![m] = <<>>],
           linked' = linked
    PROVE  TreeInv' /\ Ranked'
<1>1. /\ \A d \in Inums \ {m} : type'[d] = type[d] /\ entries'[d] = entries[d]
      /\ type'[m] = "free" /\ entries'[m] = <<>>
  BY DEF DirTypeOK
<1>2. \A d \in Inums : FormSound(d)'
  <2>1. FormSound(m)'
    BY <1>1 DEF FormSound
  <2>2. \A d \in Inums \ {m} : FormSound(d)'
    BY <1>1, FormKept DEF TreeInv
  <2> QED
    BY <2>1, <2>2
<1>3. m # D!Root
  BY DEF TreeInv
<1>4. type'[D!Root] = "dir" /\ linked'[D!Root]
  BY <1>1, <1>3, DirConstants DEF TreeInv
<1>5. \A d \in Inums : \A k \in D!Names(d)' :
              d # m /\ k \in D!Names(d) /\ entries'[d][k] = entries[d][k]
  <2>1. D!Names(m)' = {}
    <3>1. Len(entries'[m]) = 0
      BY <1>1
    <3> QED
      BY <3>1 DEF D!Names
  <2>2. \A d \in Inums \ {m} : D!Names(d)' = D!Names(d)
    BY <1>1, NamesKept
  <2> QED
    BY <1>1, <2>1, <2>2
<1>6. ASSUME NEW d \in Inums, NEW k \in D!Names(d)'
      PROVE  LET x == entries[d][k].inum
             IN  /\ type'[x] = type[x] /\ linked'[x] = linked[x]
                 /\ entries'[x][2] = entries[x][2]
  <2>1. k \in D!Names(d)
    BY <1>5
  <2>2. PICK x \in Inums : x = entries[d][k].inum
    BY <2>1, EntryTypes
  <2>3. linked[x]
    BY <2>1, <2>2 DEF TreeInv, NameSound
  <2>4. x # m
    BY <2>3
  <2> QED
    BY <1>1, <2>2, <2>4
<1> QED
  BY <1>2, <1>4, <1>5, <1>6, TreeShrinks

(* unlink counts the link of an inode off when no entry leads to it.       *)
LEMMA TreeUnlinks ==
    ASSUME DirTypeOK, TreeInv, Ranked, NEW m \in Inums, NEW b \in BOOLEAN, m # D!Root \/ b = linked[m],
           b # linked[m] => \A d \in Inums : \A k \in D!Names(d) : entries[d][k].inum # m,
           linked' = [linked EXCEPT ![m] = b], type' = type, entries' = entries
    PROVE  TreeInv' /\ Ranked'
<1>1. \A d \in Inums : FormSound(d)'
  BY FormKept DEF TreeInv
<1>2. \A d \in Inums : D!Names(d)' = D!Names(d)
  BY NamesKept
<1>3. type'[D!Root] = "dir" /\ linked'[D!Root]
  BY DirConstants DEF TreeInv, DirTypeOK
<1>4. \A d \in Inums : \A k \in D!Names(d)' :
              k \in D!Names(d) /\ entries'[d][k] = entries[d][k]
  BY <1>2
<1>5. ASSUME NEW d \in Inums, NEW k \in D!Names(d)'
      PROVE  LET x == entries[d][k].inum
             IN  /\ type'[x] = type[x] /\ linked'[x] = linked[x]
                 /\ entries'[x][2] = entries[x][2]
  <2>1. PICK x \in Inums : x = entries[d][k].inum
    BY <1>2, EntryTypes
  <2>2. linked'[x] = linked[x]
    BY <1>2, <2>1 DEF DirTypeOK
  <2> QED
    BY <2>1, <2>2
<1> QED
  BY <1>1, <1>3, <1>4, <1>5, TreeShrinks

(* unlink overwrites an entry.                                             *)
LEMMA EntryOverwritten ==
    ASSUME DirTypeOK, NEW d \in Inums, NEW k \in 1..Len(entries[d]),
           entries' = [entries EXCEPT ![d][k].inum = 0]
    PROVE  /\ entries' \in [Inums -> Seq(Entry)]
           /\ \A e \in Inums \ {d} : entries'[e] = entries[e]
           /\ Len(entries'[d]) = Len(entries[d])
           /\ entries'[d][k].inum = 0
           /\ \A j \in 1..Len(entries[d]) \ {k} : entries'[d][j] = entries[d][j]
<1>1. entries \in [Inums -> Seq(Entry)]
  BY DEF DirTypeOK, Entry
<1>2. PICK s \in Seq(Entry) : s = entries[d]
  BY <1>1
<1>3. PICK x \in Entry : x = [s[k] EXCEPT !.inum = 0] /\ x.inum = 0
  <2>1. s[k] \in Entry
    BY <1>2
  <2>2. [s[k] EXCEPT !.inum = 0] \in Entry /\ [s[k] EXCEPT !.inum = 0].inum = 0
    BY <2>1 DEF Entry
  <2> QED
    BY <2>2
<1>4. entries' = [entries EXCEPT ![d] = [s EXCEPT ![k] = x]]
  BY <1>2, <1>3
<1>5. [s EXCEPT ![k] = x] \in Seq(Entry) /\ Len([s EXCEPT ![k] = x]) = Len(s)
  BY <1>2
<1>6. entries'[d] = [s EXCEPT ![k] = x] /\ entries' \in [Inums -> Seq(Entry)]
  BY <1>1, <1>4, <1>5
<1>7. \A j \in 1..Len(s) : [s EXCEPT ![k] = x][j] = IF j = k THEN x ELSE s[j]
  BY <1>2
<1> QED
  BY <1>1, <1>2, <1>3, <1>4, <1>5, <1>6, <1>7

LEMMA TreeForgets ==
    ASSUME DirTypeOK, TreeInv, Ranked, NEW d \in Inums, NEW k \in D!Names(d),
           entries' = [entries EXCEPT ![d][k].inum = 0], type' = type, linked' = linked
    PROVE  /\ entries' \in [Inums -> Seq(Entry)]
           /\ TreeInv' /\ Ranked'
           /\ \A e \in Inums \ {d} : entries'[e] = entries[e]
           /\ NamesTaken(entries[d][k].inum)
<1>1. k \in 1..Len(entries[d]) /\ k \in 3..Len(entries[d]) /\ Len(entries[d]) \in Nat /\ type[d] = "dir"
  BY EntryTypes, NamesOf DEF TreeInv
<1>2. /\ entries' \in [Inums -> Seq(Entry)]
      /\ \A e \in Inums \ {d} : entries'[e] = entries[e]
      /\ Len(entries'[d]) = Len(entries[d])
      /\ entries'[d][k].inum = 0
      /\ \A j \in 1..Len(entries[d]) \ {k} : entries'[d][j] = entries[d][j]
  BY <1>1, EntryOverwritten
<1>3. \A e \in Inums : entries'[e][2] = entries[e][2]
  BY <1>1, <1>2
<1>4. \A e \in Inums : FormSound(e)'
  <2>1. \A e \in Inums \ {d} : FormSound(e)'
    BY <1>2, FormKept DEF TreeInv
  <2>2. FormSound(d)'
    <3>1. FormSound(d)
      BY DEF TreeInv
    <3>2. entries'[d][1] = entries[d][1] /\ entries'[d][2] = entries[d][2]
      BY <1>1, <1>2
    <3>3. ASSUME NEW j \in 3..Len(entries'[d]), entries'[d][j].inum # 0
          PROVE  entries'[d][j].name \notin D!Fixed
      <4>1. j \in 3..Len(entries[d]) /\ j # k
        BY <1>2, <3>3
      <4>2. entries'[d][j] = entries[d][j]
        BY <1>2, <4>1
      <4> QED
        BY <1>1, <3>1, <3>3, <4>1, <4>2 DEF FormSound
    <3>4. \A j \in 3..Len(entries'[d]) : entries'[d][j].inum # 0 => entries'[d][j].name \notin D!Fixed
      BY <3>3
    <3>5. /\ Len(entries'[d]) >= 2 /\ type'[d] = "dir"
          /\ entries'[d][1] = [name |-> ".", inum |-> d]
          /\ entries'[d][2].name = ".." /\ entries'[d][2].inum # 0
      BY <1>1, <1>2, <3>1, <3>2 DEF FormSound
    <3> QED
      BY <3>4, <3>5 DEF FormSound, D!Fixed
  <2> QED
    BY <2>1, <2>2
<1>5. ASSUME NEW e \in Inums, NEW j \in D!Names(e)'
      PROVE  /\ j \in D!Names(e) /\ entries'[e][j] = entries[e][j]
             /\ entries'[e][j].inum # entries[d][k].inum
  <2>1. j \in D!Names(e) /\ entries'[e][j] = entries[e][j] /\ ~(e = d /\ j = k)
    <3>1. CASE e # d
      BY <1>2, <3>1, NamesKept
    <3>2. CASE e = d
      <4>1. j \in 1..Len(entries'[d]) /\ entries'[d][j].inum # 0 /\ entries'[d][j].name \notin D!Fixed
        BY <3>2 DEF D!Names, D!Fixed
      <4>2. j \in 1..Len(entries[d]) \ {k}
        BY <1>2, <4>1
      <4>3. entries'[d][j] = entries[d][j]
        BY <1>2, <4>2
      <4> QED
        BY <3>2, <4>1, <4>2, <4>3 DEF D!Names
    <3> QED
      BY <3>1, <3>2
  <2>2. OneEntry(e, j, d, k)
    BY <2>1 DEF TreeInv
  <2> QED
    BY <2>1, <2>2 DEF OneEntry
<1>6. \A e \in Inums : \A j \in D!Names(e)' : j \in D!Names(e) /\ entries'[e][j] = entries[e][j]
  BY <1>5
<1>7. \A e \in Inums : \A j \in D!Names(e)' :
         LET x == entries[e][j].inum
         IN  /\ type'[x] = type[x] /\ linked'[x] = linked[x]
             /\ entries'[x][2] = entries[x][2]
  <2>1. \A e \in Inums : \A j \in D!Names(e)' : entries[e][j].inum \in Inums
    BY <1>6, EntryTypes
  <2> QED
    BY <1>3, <2>1
<1>8. type'[D!Root] = "dir" /\ linked'[D!Root]
  BY DEF TreeInv
<1>9. TreeInv' /\ Ranked'
  BY <1>4, <1>6, <1>7, <1>8, TreeShrinks
<1> QED
  BY <1>2, <1>5, <1>9 DEF NamesTaken

(* dirlink writes one slot, which was empty or is new.                     *)
Adds(t, s, k, x) ==
    /\ Len(s) >= Len(t) /\ k \in 1..Len(s) /\ s[k] = x
    /\ k \in 1..Len(t) => t[k].inum = 0
    /\ \A j \in 1..Len(s) \ {k} : j \in 1..Len(t) /\ s[j] = t[j]

LEMMA LinkedAdds ==
    ASSUME DirTypeOK, NEW d \in Inums, NEW nm \in FileNames, NEW m \in Inums
    PROVE  \E s \in Seq(Entry), k \in Nat :
              s = D!Linked(d, nm, m) /\ Adds(entries[d], s, k, [name |-> nm, inum |-> m])
<1>1. PICK t \in Seq(Entry) : t = entries[d]
  BY DEF DirTypeOK, Entry
<1>2. PICK x \in Entry : x = [name |-> nm, inum |-> m]
  BY DEF Entry
<1>3. PICK empty \in SUBSET Nat : empty = {k \in 1..Len(t) : t[k].inum = 0}
  <2>1. {k \in 1..Len(t) : t[k].inum = 0} \in SUBSET Nat
    OBVIOUS
  <2> QED
    BY <2>1
<1>4. D!Linked(d, nm, m) = IF empty = {} THEN Append(t, x)
                           ELSE [t EXCEPT ![CHOOSE k \in empty : \A j \in empty : k <= j] = x]
  BY <1>1, <1>2, <1>3 DEF D!Linked
<1>5. CASE empty = {}
  <2>1. /\ Append(t, x) \in Seq(Entry) /\ Len(Append(t, x)) = Len(t) + 1
        /\ Len(t) \in Nat /\ Append(t, x)[Len(t) + 1] = x
        /\ \A j \in 1..Len(t) : Append(t, x)[j] = t[j]
    BY <1>1, <1>2
  <2>2. \A j \in 1..(Len(t) + 1) \ {Len(t) + 1} : j \in 1..Len(t)
    BY <2>1
  <2>3. PICK k \in Nat : k = Len(t) + 1
    BY <2>1
  <2>4. PICK s \in Seq(Entry) : s = D!Linked(d, nm, m) /\ s = Append(t, x)
    BY <1>4, <1>5, <2>1
  <2>5. Len(s) = k /\ s[k] = x /\ \A j \in 1..Len(t) : s[j] = t[j]
    BY <2>1, <2>3, <2>4
  <2>6. k \notin 1..Len(t) /\ k \in 1..k /\ k >= Len(t) /\ \A j \in 1..k \ {k} : j \in 1..Len(t)
    BY <2>1, <2>3
  <2>7. /\ Len(s) >= Len(entries[d]) /\ k \in 1..Len(s) /\ s[k] = [name |-> nm, inum |-> m]
        /\ k \notin 1..Len(entries[d])
    BY <1>1, <1>2, <2>5, <2>6
  <2>8. \A j \in 1..Len(s) \ {k} : j \in 1..Len(entries[d]) /\ s[j] = entries[d][j]
    BY <1>1, <2>5, <2>6
  <2> QED
    BY <2>4, <2>7, <2>8 DEF Adds
<1>6. CASE empty # {}
  <2>1. \E a \in empty : \A b \in empty : a <= b
    BY <1>3, <1>6, Least
  <2>2. PICK k \in empty : k = CHOOSE a \in empty : \A b \in empty : a <= b
    BY <2>1
  <2>3. k \in 1..Len(t) /\ t[k].inum = 0 /\ k \in Nat
    BY <1>3, <2>2
  <2>4. D!Linked(d, nm, m) = [t EXCEPT ![k] = x]
    BY <1>4, <1>6, <2>2
  <2>5. /\ [t EXCEPT ![k] = x] \in Seq(Entry) /\ Len([t EXCEPT ![k] = x]) = Len(t)
        /\ \A j \in 1..Len(t) : [t EXCEPT ![k] = x][j] = IF j = k THEN x ELSE t[j]
    BY <1>1, <1>2, <2>3
  <2>6. \A j \in 1..Len(t) \ {k} : [t EXCEPT ![k] = x][j] = t[j]
    BY <2>5
  <2>7. [t EXCEPT ![k] = x][k] = x /\ Len(t) \in Nat
    BY <1>1, <2>3, <2>5
  <2> QED
    BY <1>1, <1>2, <2>3, <2>4, <2>5, <2>6, <2>7, SMTT(30) DEF Adds
<1> QED
  BY <1>5, <1>6

(* create puts a new inode under a directory.                              *)
LEMMA TreeGrows ==
    ASSUME DirTypeOK, TreeInv, Ranked,
           NEW d \in Inums, type[d] = "dir", NEW m \in Inums, type[m] = "free",
           NEW nm \in FileNames, D!Lookup(d, nm) = 0, NEW t \in {"dir", "file"},
           type' = [type EXCEPT ![m] = t], linked' = [linked EXCEPT ![m] = TRUE],
           entries' = [entries EXCEPT ![m] = IF t = "dir" THEN D!NewDir(m, d) ELSE <<>>,
                                      ![d] = D!Linked(d, nm, m)]
    PROVE  /\ entries' \in [Inums -> Seq(Entry)]
           /\ TreeInv' /\ Ranked'
           /\ \A e \in Inums \ {d, m} : entries'[e] = entries[e]
           /\ NamesAdded(m)
<1>b. PICK s \in Seq(Entry), k \in Nat :
          s = D!Linked(d, nm, m) /\ Adds(entries[d], s, k, [name |-> nm, inum |-> m])
  BY LinkedAdds
<1>1. /\ s = D!Linked(d, nm, m) /\ Len(s) >= Len(entries[d])
      /\ k \in 1..Len(s) /\ s[k] = [name |-> nm, inum |-> m]
      /\ k \in 1..Len(entries[d]) => entries[d][k].inum = 0
      /\ \A j \in 1..Len(s) \ {k} :
            j \in 1..Len(entries[d]) /\ s[j] = entries[d][j]
  BY <1>b DEF Adds
<1>2. PICK own \in Seq(Entry) :
          /\ own = IF t = "dir" THEN D!NewDir(m, d) ELSE <<>>
          /\ t = "dir" => /\ Len(own) = 2 /\ own[1] = [name |-> ".", inum |-> m]
                          /\ own[2] = [name |-> "..", inum |-> d]
  <2>1. [name |-> ".", inum |-> m] \in Entry /\ [name |-> "..", inum |-> d] \in Entry
    BY DEF Entry, FileNames
  <2>2. D!NewDir(m, d) = <<[name |-> ".", inum |-> m], [name |-> "..", inum |-> d]>>
    BY DEF D!NewDir
  <2>3. /\ D!NewDir(m, d) \in Seq(Entry) /\ Len(D!NewDir(m, d)) = 2
        /\ D!NewDir(m, d)[1] = [name |-> ".", inum |-> m]
        /\ D!NewDir(m, d)[2] = [name |-> "..", inum |-> d]
    BY <2>1, <2>2
  <2>4. <<>> \in Seq(Entry)
    OBVIOUS
  <2> QED
    BY <2>3, <2>4
<1>3. d # m /\ entries \in [Inums -> Seq(Entry)]
  BY DEF DirTypeOK, Entry
<1>4. /\ entries'[d] = s /\ entries'[m] = own /\ entries' \in [Inums -> Seq(Entry)]
      /\ \A e \in Inums \ {d, m} : entries'[e] = entries[e]
  BY <1>1, <1>2, <1>3
<1>5. /\ type'[m] = t /\ linked'[m] /\ \A e \in Inums \ {m} : type'[e] = type[e] /\ linked'[e] = linked[e]
  BY DEF DirTypeOK
<1>6. /\ FormSound(d) /\ Len(entries[d]) \in Nat /\ Len(s) \in Nat /\ Len(entries[d]) >= 2
      /\ entries[d][1].inum # 0 /\ entries[d][2].inum # 0
  <2>1. FormSound(d) /\ Len(entries[d]) \in Nat /\ Len(s) \in Nat
    BY EntryTypes DEF TreeInv
  <2>2. /\ Len(entries[d]) >= 2 /\ entries[d][1] = [name |-> ".", inum |-> d]
        /\ entries[d][2].inum # 0
    BY <2>1 DEF FormSound
  <2> QED
    BY <2>1, <2>2, DirConstants
<1>7. k # 1 /\ k # 2 /\ s[1] = entries[d][1] /\ s[2] = entries[d][2] /\ Len(s) >= 2
  <2>1. 1 \in 1..Len(entries[d]) /\ 2 \in 1..Len(entries[d]) /\ 1 \in 1..Len(s) /\ 2 \in 1..Len(s)
    BY <1>1, <1>6
  <2>2. k # 1 /\ k # 2
    BY <1>1, <1>6, <2>1
  <2> QED
    BY <1>1, <1>6, <2>1, <2>2
<1>8. nm \notin D!Fixed
  <2>1. D!Lookup(d, ".") # 0 /\ D!Lookup(d, "..") # 0
    BY <1>6, LookupFixed, DirConstants
  <2> QED
    BY <2>1, DirConstants
<1>9. D!Names(m)' = {}
  <2>1. CASE t = "dir"
    <3>1. Len(entries'[m]) = 2 /\ entries'[m][1].name = "." /\ entries'[m][2].name = ".."
      BY <1>2, <1>4, <2>1
    <3> QED
      BY <3>1 DEF D!Names, D!Fixed
  <2>2. CASE t = "file"
    <3>1. Len(entries'[m]) = 0
      BY <1>2, <1>4, <2>2
    <3> QED
      BY <3>1 DEF D!Names
  <2> QED
    BY <2>1, <2>2
<1>10. ASSUME NEW j \in D!Names(d)', j # k
       PROVE  j \in D!Names(d) /\ entries'[d][j] = entries[d][j]
  <2>1. j \in 1..Len(s) /\ s[j].inum # 0 /\ s[j].name \notin D!Fixed
    BY <1>4 DEF D!Names, D!Fixed
  <2>2. j \in 1..Len(entries[d]) /\ s[j] = entries[d][j]
    BY <1>1, <1>10, <2>1
  <2> QED
    BY <1>4, <2>1, <2>2 DEF D!Names
<1>11. entries'[d][k].inum = m /\ entries'[d][k].name = nm
  BY <1>1, <1>4
<1>12. ASSUME NEW e \in Inums, NEW j \in D!Names(e)'
       PROVE  \/ j \in D!Names(e) /\ entries'[e][j] = entries[e][j]
              \/ e = d /\ j = k
  <2>1. CASE e \notin {d, m}
    BY <1>4, <2>1, NamesKept
  <2>2. CASE e = d
    BY <1>10, <2>2
  <2> QED
    BY <1>9, <2>1, <2>2
<1>13. NamesAdded(m)
  BY <1>11, <1>12 DEF NamesAdded
(* What was named goes on as it was, and the new inode was not.            *)
<1>14. ASSUME NEW e \in Inums, NEW j \in D!Names(e)
       PROVE  /\ entries[e][j].inum # m /\ entries[e][j].inum \in Inums
              /\ type'[entries[e][j].inum] = type[entries[e][j].inum]
              /\ linked'[entries[e][j].inum] = linked[entries[e][j].inum]
              /\ entries'[entries[e][j].inum][2] = entries[entries[e][j].inum][2]
  <2>1. PICK x \in Inums : x = entries[e][j].inum
    BY EntryTypes
  <2>2. type[x] # "free"
    BY <2>1 DEF TreeInv, NameSound
  <2>3. x # m
    BY <2>2
  <2>4. entries'[x][2] = entries[x][2]
    <3>1. CASE x = d
      BY <1>4, <1>7, <3>1
    <3>2. CASE x # d
      BY <1>4, <2>1, <2>3, <3>2
    <3> QED
      BY <3>1, <3>2
  <2> QED
    BY <1>5, <2>1, <2>3, <2>4
<1>15. \A e \in Inums : FormSound(e)'
  <2>1. \A e \in Inums \ {d, m} : FormSound(e)'
    BY <1>4, <1>5, FormKept DEF TreeInv
  <2>2. FormSound(m)'
    <3>1. CASE t = "dir"
      <4>1. /\ type'[m] = "dir" /\ Len(entries'[m]) = 2
            /\ entries'[m][1] = [name |-> ".", inum |-> m]
            /\ entries'[m][2].name = ".." /\ entries'[m][2].inum # 0
        BY <1>2, <1>4, <1>5, <3>1, DirConstants
      <4>2. \A l \in Nat : l = 2 => 3..l = {} /\ l >= 2
        OBVIOUS
      <4>3. 3..Len(entries'[m]) = {} /\ Len(entries'[m]) >= 2
        BY <4>1, <4>2
      <4> QED
        BY <4>1, <4>3 DEF FormSound
    <3>2. CASE t = "file"
      BY <1>2, <1>4, <1>5, <3>2 DEF FormSound
    <3> QED
      BY <3>1, <3>2
  <2>3. FormSound(d)'
    <3>1. type'[d] = "dir"
      BY <1>3, <1>5
    <3>2. /\ entries'[d][1] = [name |-> ".", inum |-> d] /\ Len(entries'[d]) >= 2
          /\ entries'[d][2].name = ".." /\ entries'[d][2].inum # 0
      BY <1>4, <1>6, <1>7 DEF FormSound
    <3>3. ASSUME NEW j \in 3..Len(s), s[j].inum # 0 PROVE s[j].name \notin D!Fixed
      <4>1. CASE j = k
        BY <1>1, <1>8, <4>1
      <4>2. CASE j # k
        <5>1. j \in 3..Len(entries[d]) /\ s[j] = entries[d][j]
          BY <1>1, <1>6, <4>2
        <5> QED
          BY <1>6, <3>3, <5>1 DEF FormSound
      <4> QED
        BY <4>1, <4>2
    <3>4. \A j \in 3..Len(entries'[d]) : entries'[d][j].inum # 0 => entries'[d][j].name \notin D!Fixed
      BY <1>4, <3>3
    <3> QED
      BY <3>1, <3>2, <3>4 DEF FormSound, D!Fixed
  <2> QED
    BY <2>1, <2>2, <2>3
<1>16. ASSUME NEW e \in Inums, NEW j \in D!Names(e)'
       PROVE  NameSound(e, j)'
  <2>1. CASE j \in D!Names(e) /\ entries'[e][j] = entries[e][j]
    <3>1. PICK x : x = entries[e][j].inum
      OBVIOUS
    <3>a. /\ type'[entries[e][j].inum] = type[entries[e][j].inum]
          /\ linked'[entries[e][j].inum] = linked[entries[e][j].inum]
          /\ entries'[entries[e][j].inum][2] = entries[entries[e][j].inum][2]
      BY <1>14, <2>1, Zenon
    <3>2. type'[x] = type[x] /\ linked'[x] = linked[x] /\ entries'[x][2] = entries[x][2]
      BY <3>1, <3>a, Zenon
    <3>3. type[x] # "free" /\ linked[x] /\ x # D!Root /\ (type[x] = "dir" => entries[x][2].inum = e)
      BY <2>1, <3>1 DEF TreeInv, NameSound
    <3>4. entries'[e][j].inum = x
      BY <2>1, <3>1
    <3> QED
      BY <3>2, <3>3, <3>4 DEF NameSound, D!Root
  <2>2. CASE e = d /\ j = k
    <3>1. entries'[e][j].inum = m
      BY <1>11, <2>2
    <3>2. type'[m] # "free" /\ linked'[m] /\ m # D!Root
      BY <1>5 DEF TreeInv
    <3>3. type'[m] = "dir" => entries'[m][2].inum = e
      BY <1>2, <1>4, <1>5, <2>2
    <3> QED
      BY <3>1, <3>2, <3>3 DEF NameSound, D!Root
  <2> QED
    BY <1>12, <2>1, <2>2
<1>17. ASSUME NEW e \in Inums, NEW f \in Inums, NEW i \in D!Names(e)', NEW j \in D!Names(f)'
       PROVE  OneEntry(e, i, f, j)'
  <2>1. CASE /\ i \in D!Names(e) /\ entries'[e][i] = entries[e][i]
             /\ j \in D!Names(f) /\ entries'[f][j] = entries[f][j]
    <3>1. OneEntry(e, i, f, j)
      BY <2>1 DEF TreeInv
    <3> QED
      BY <2>1, <3>1 DEF OneEntry
  <2>2. ASSUME NEW g \in Inums, NEW l \in D!Names(g), entries'[g][l] = entries[g][l]
        PROVE  /\ entries'[g][l].inum # entries'[d][k].inum
               /\ g = d => entries'[g][l].name # entries'[d][k].name
    <3>1. entries[g][l].inum # m
      BY <1>14
    <3>2. l \in 1..Len(entries[g]) /\ entries[g][l].inum # 0
      BY EntryTypes
    <3>3. g = d => entries[g][l].name # nm
      BY <3>2, LookupNone
    <3> QED
      BY <1>11, <2>2, <3>1, <3>3
  <2>3. CASE e = d /\ i = k /\ f = d /\ j = k
    BY <2>3 DEF OneEntry
  <2>4. CASE i \in D!Names(e) /\ entries'[e][i] = entries[e][i] /\ f = d /\ j = k
    BY <2>2, <2>4 DEF OneEntry
  <2>5. CASE j \in D!Names(f) /\ entries'[f][j] = entries[f][j] /\ e = d /\ i = k
    BY <2>2, <2>5 DEF OneEntry
  <2> QED
    BY <1>12, <2>1, <2>3, <2>4, <2>5
<1>18. TreeInv'
  <2>1. type'[D!Root] = "dir" /\ linked'[D!Root]
    BY <1>5, DirConstants DEF TreeInv
  <2> QED
    BY <1>15, <1>16, <1>17, <2>1 DEF TreeInv, D!Root
<1>19. Ranked'
  <2>1. PICK top \in Nat : \E r \in [Inums -> 0..top] :
            \A e \in Inums : \A j \in D!Names(e) : r[e] < r[entries[e][j].inum]
    BY DEF Ranked
  <2>2. PICK r \in [Inums -> 0..top] :
            \A e \in Inums : \A j \in D!Names(e) : r[e] < r[entries[e][j].inum]
    BY <2>1
  <2>3. PICK q : q = [r EXCEPT ![m] = r[d] + 1]
    OBVIOUS
  <2>4. q \in [Inums -> 0..(top + 1)] /\ q[m] = r[d] + 1 /\ \A x \in Inums \ {m} : q[x] = r[x]
    BY <2>3
  <2>5. ASSUME NEW e \in Inums, NEW j \in D!Names(e)'
        PROVE  q[e] < q[entries'[e][j].inum]
    <3>1. e # m
      BY <1>9
    <3>2. CASE j \in D!Names(e) /\ entries'[e][j] = entries[e][j]
      <4>a. entries[e][j].inum \in Inums /\ entries[e][j].inum # m
        BY <1>14, <3>2, Zenon
      <4>1. PICK x \in Inums : x = entries[e][j].inum /\ x # m
        BY <4>a, Zenon
      <4>2. r[e] < r[x]
        BY <2>2, <3>2, <4>1
      <4> QED
        BY <2>4, <3>1, <3>2, <4>1, <4>2
    <3>3. CASE e = d /\ j = k
      <4>1. r[d] \in Nat /\ q[d] = r[d]
        BY <1>3, <2>4
      <4> QED
        BY <1>11, <2>4, <3>3, <4>1
    <3> QED
      BY <1>12, <3>2, <3>3
  <2>6. PICK up \in Nat : up = top + 1
    OBVIOUS
  <2>7. q \in [Inums -> 0..up]
    BY <2>4, <2>6
  <2> QED
    BY <2>5, <2>7 DEF Ranked
<1> QED
  BY <1>4, <1>13, <1>18, <1>19

-----------------------------------------------------------------------------
(* A step is one process's.                                                *)

Moves(p) ==
    \A q \in Procs \ {p} :
        /\ dpc'[q] = dpc[q] /\ ip'[q] = ip[q] /\ child'[q] = child[q]
        /\ cwd'[q] = cwd[q] /\ elem'[q] = elem[q] /\ path'[q] = path[q]

(* It leaves to q what q has found.                                        *)
Spares(q) ==
    /\ \A x \in Inums : x \in {cwd[q], ip[q], child[q]} /\ type[x] # "free" => type'[x] = type[x]
    /\ dpc[q] \in {"victim", "both"} => entries'[ip[q]] = entries[ip[q]]
    /\ dpc[q] = "drop" => \A d \in Inums : \A k \in D!Names(d)' : entries'[d][k].inum # child[q]

LEMMA OthersStand ==
    ASSUME DirTypeOK, NEW p \in Procs, NEW q \in Procs, q # p, Moves(p), Spares(q),
           RefsSound(q), FoundSound(q)
    PROVE  RefsSound(q)' /\ FoundSound(q)' /\ Holds(q)' = Holds(q)
<1>1. /\ dpc'[q] = dpc[q] /\ ip'[q] = ip[q] /\ child'[q] = child[q]
      /\ cwd'[q] = cwd[q] /\ elem'[q] = elem[q] /\ path'[q] = path[q]
  BY DEF Moves
<1>2. /\ cwd[q] \in Inums /\ ip[q] \in Inums \cup {0} /\ child[q] \in Inums \cup {0}
  BY DEF DirTypeOK
<1>3. /\ type[cwd[q]] # "free" => type'[cwd[q]] = type[cwd[q]]
      /\ ip[q] # 0 /\ type[ip[q]] # "free" => type'[ip[q]] = type[ip[q]]
      /\ child[q] # 0 /\ type[child[q]] # "free" => type'[child[q]] = type[child[q]]
  BY <1>2 DEF Spares
<1>4. RefsSound(q)'
  BY <1>1, <1>3 DEF RefsSound, Reaching
<1>5. FoundSound(q)'
  <2>1. dpc[q] \in {"parent", "create", "unlink", "victim", "both"} => type'[ip[q]] = "dir"
    <3>1. dpc[q] \in {"parent", "create", "unlink", "victim", "both"} => ip[q] # 0 /\ type[ip[q]] = "dir"
      BY DEF RefsSound, FoundSound
    <3> QED
      BY <1>3, <3>1
  <2>2. ASSUME dpc[q] \in {"victim", "both"}
        PROVE  \E k \in D!Names(ip[q])' : /\ entries'[ip[q]][k].inum = child[q]
                                          /\ entries'[ip[q]][k].name = elem[q]
    <3>1. entries'[ip[q]] = entries[ip[q]]
      BY <2>2 DEF Spares
    <3>2. PICK k \in D!Names(ip[q]) : entries[ip[q]][k].inum = child[q] /\ entries[ip[q]][k].name = elem[q]
      BY <2>2 DEF FoundSound
    <3>3. k \in 1..Len(entries'[ip[q]]) /\ entries'[ip[q]][k].inum # 0 /\ entries'[ip[q]][k].name \notin D!Fixed
      BY <3>1, <3>2 DEF D!Names
    <3>4. PICK c : c = ip[q]
      OBVIOUS
    <3>5. D!Names(c)' = D!Names(c)
      BY <3>1, <3>4, NamesKept
    <3> QED
      BY <3>1, <3>2, <3>4, <3>5, <1>1 DEF D!Names, D!Fixed
  <2>3. dpc[q] = "drop" =>
          /\ child[q] # D!Root
          /\ \A d \in Inums : \A k \in D!Names(d)' : entries'[d][k].inum # child[q]
    BY DEF Spares, FoundSound
  <2> QED
    <3>1. dpc'[q] = "locked" => path'[q] # <<>>
      BY <1>1 DEF FoundSound
    <3> QED
      BY <1>1, <2>1, <2>2, <2>3, <3>1 DEF FoundSound, D!Root, D!Names, D!Fixed
<1>6. Holds(q)' = Holds(q)
  BY <1>1 DEF Holds, WithIp, WithChild
<1> QED
  BY <1>4, <1>5, <1>6

LEMMA SparesAll ==
    ASSUME type' = type, entries' = entries, NEW q \in Procs, FoundSound(q)
    PROVE  Spares(q)
<1>1. \A d \in Inums : D!Names(d)' = D!Names(d)
  BY NamesKept
<1> QED
  BY <1>1 DEF Spares, FoundSound

(* What is to be shown of a step of p that is no panic.                    *)
LEMMA StepHolds ==
    ASSUME DirInv, ~D!Halted, NEW p \in Procs, DirTypeOK', TreeInv', Ranked',
           Moves(p), dpc'[p] # "panic",
           \A q \in Procs \ {p} : Spares(q),
           (\A q \in Procs \ {p} : Holds(q)' = Holds(q)) => LocksHeld',
           RefsSound(p)', FoundSound(p)'
    PROVE  DirInv'
<1>1. \A q \in Procs \ {p} : RefsSound(q)' /\ FoundSound(q)' /\ Holds(q)' = Holds(q)
  BY OthersStand DEF DirInv
<1>2. \A q \in Procs : RefsSound(q)' /\ FoundSound(q)'
  BY <1>1
<1>3. \A q \in Procs : dpc'[q] # "panic"
  BY DEF Moves, D!Halted
<1>4. D!PanicsAtDotDot'
  BY <1>3 DEF D!PanicsAtDotDot
<1> QED
  BY <1>1, <1>2, <1>4 DEF DirInv

LEMMA QuietHolds ==
    ASSUME DirInv, ~D!Halted, NEW p \in Procs, DirTypeOK',
           type' = type, linked' = linked, entries' = entries,
           Moves(p), dpc'[p] # "panic",
           (\A q \in Procs \ {p} : Holds(q)' = Holds(q)) => LocksHeld',
           RefsSound(p)', FoundSound(p)'
    PROVE  DirInv'
<1>1. TreeInv' /\ Ranked'
  BY TreeStays DEF DirInv
<1>2. \A q \in Procs \ {p} : Spares(q)
  BY SparesAll DEF DirInv
<1> QED
  BY <1>1, <1>2, StepHolds

LEMMA LockStays ==
    ASSUME DirInv, ~D!Halted, NEW p \in Procs, dholder' = dholder,
           Holds(p)' = Holds(p), \A q \in Procs \ {p} : Holds(q)' = Holds(q)
    PROVE  LocksHeld'
  BY DEF DirInv, LocksHeld

LEMMA LockTaken ==
    ASSUME DirInv, ~D!Halted, NEW p \in Procs, NEW m \in Inums, dholder[m] = NoProc,
           dholder' = [dholder EXCEPT ![m] = p],
           Holds(p)' = Holds(p) \cup {m}, \A q \in Procs \ {p} : Holds(q)' = Holds(q)
    PROVE  LocksHeld'
<1>1. \A q \in Procs, x \in Inums : dholder[x] = q <=> x \in Holds(q)
  BY DEF DirInv, LocksHeld
<1>2. dholder'[m] = p /\ \A x \in Inums \ {m} : dholder'[x] = dholder[x]
  BY DEF DirInv, DirTypeOK
<1>3. \A q \in Procs : q # NoProc
  BY DirConstants
<1>4. ASSUME NEW q \in Procs, NEW x \in Inums PROVE dholder'[x] = q <=> x \in Holds(q)'
  <2>1. CASE q = p
    BY <1>1, <1>2, <1>3, <2>1
  <2>2. CASE q # p
    BY <1>1, <1>2, <1>3, <2>2
  <2> QED
    BY <2>1, <2>2
<1> QED
  BY <1>4 DEF LocksHeld

LEMMA LockGiven ==
    ASSUME DirInv, ~D!Halted, NEW p \in Procs, NEW m \in Inums, m \in Holds(p),
           dholder' = [dholder EXCEPT ![m] = NoProc],
           Holds(p)' = Holds(p) \ {m}, \A q \in Procs \ {p} : Holds(q)' = Holds(q)
    PROVE  LocksHeld'
<1>1. \A q \in Procs, x \in Inums : dholder[x] = q <=> x \in Holds(q)
  BY DEF DirInv, LocksHeld
<1>2. dholder'[m] = NoProc /\ \A x \in Inums \ {m} : dholder'[x] = dholder[x]
  BY DEF DirInv, DirTypeOK
<1>3. \A q \in Procs : q # NoProc
  BY DirConstants
<1>4. ASSUME NEW q \in Procs, NEW x \in Inums PROVE dholder'[x] = q <=> x \in Holds(q)'
  <2>1. CASE q = p
    BY <1>1, <1>2, <1>3, <2>1
  <2>2. CASE q # p
    <3>1. dholder[m] = p
      BY <1>1
    <3> QED
      BY <1>1, <1>2, <1>3, <2>2, <3>1
  <2> QED
    BY <2>1, <2>2
<1> QED
  BY <1>4 DEF LocksHeld

LEMMA DirTypes ==
    ASSUME DirTypeOK, NEW p \in Procs
    PROVE  /\ cwd[p] \in Inums /\ ip[p] \in Inums \cup {0} /\ child[p] \in Inums \cup {0}
           /\ path[p] \in Seq(FileNames) /\ elem[p] \in FileNames /\ dpc[p] \in Standing
           /\ \A x : dpc' = [dpc EXCEPT ![p] = x] => dpc'[p] = x
           /\ \A x : ip' = [ip EXCEPT ![p] = x] => ip'[p] = x
           /\ \A x : child' = [child EXCEPT ![p] = x] => child'[p] = x
           /\ \A x : cwd' = [cwd EXCEPT ![p] = x] => cwd'[p] = x
           /\ \A x : elem' = [elem EXCEPT ![p] = x] => elem'[p] = x
  BY DEF DirTypeOK

-----------------------------------------------------------------------------
(* ilock *)

LEMMA PanicHolds ==
    ASSUME DirInv, ~D!Halted, NEW p \in Procs, NEW m \in Inums, type[m] = "free",
           \/ dpc[p] \in {"walk", "open", "parent"} /\ m = ip[p]
           \/ dpc[p] = "victim" /\ m = child[p],
           dpc' = [dpc EXCEPT ![p] = "panic"], dholder' = dholder,
           type' = type, linked' = linked, entries' = entries, path' = path,
           ip' = ip, child' = child, cwd' = cwd, elem' = elem
    PROVE  DirInv'
<1>1. m # 0 /\ elem[p] = ".."
  <2>1. m # 0
    BY DirConstants
  <2>2. RefsSound(p)
    BY DEF DirInv
  <2> QED
    BY <2>1, <2>2 DEF RefsSound
<1>2. TreeInv' /\ Ranked'
  BY TreeStays DEF DirInv
<1>3. DirTypeOK'
  <2>1. dpc' \in [Procs -> Standing]
    BY DEF DirInv, DirTypeOK, Standing
  <2> QED
    BY <2>1 DEF DirInv, DirTypeOK, Standing, WithIp, Reaching, FileNames
<1>4. D!PanicsAtDotDot'
  <2>1. \A q \in Procs : dpc'[q] = "panic" => q = p
    BY DEF DirInv, DirTypeOK, D!Halted
  <2> QED
    BY <1>1, <2>1 DEF D!PanicsAtDotDot
<1>5. D!Halted'
  <2>1. dpc'[p] = "panic"
    BY DirTypes DEF DirInv
  <2> QED
    BY <2>1 DEF D!Halted
<1> QED
  BY <1>2, <1>3, <1>4, <1>5 DEF DirInv

LEMMA IlockHolds ==
    ASSUME DirInv, ~D!Halted, NEW p \in Procs, NEW m, NEW t, D!Ilock(p, m, t),
           \/ /\ dpc[p] \in {"walk", "open", "parent"} /\ m = ip[p]
              /\ t \in {"locked", "use", "create", "unlink"}
              /\ t \in {"create", "unlink"} => dpc[p] = "parent"
              /\ t = "locked" => path[p] # <<>>
           \/ dpc[p] = "victim" /\ m = child[p] /\ t = "both",
           type' = type, linked' = linked, entries' = entries, path' = path,
           ip' = ip, child' = child, cwd' = cwd, elem' = elem
    PROVE  DirInv'
<1>1. RefsSound(p) /\ FoundSound(p)
  BY DEF DirInv
<1>2. m \in Inums
  <2>1. m # 0
    BY <1>1 DEF RefsSound, Reaching
  <2> QED
    BY <2>1, DirTypes DEF DirInv
<1>3. CASE type[m] = "free"
  <2>1. dpc' = [dpc EXCEPT ![p] = "panic"] /\ dholder' = dholder
    BY <1>3 DEF D!Ilock, D!Goto
  <2> QED
    BY <1>2, <1>3, <2>1, PanicHolds
<1>4. CASE type[m] # "free"
  <2>1. /\ dpc' = [dpc EXCEPT ![p] = t] /\ dholder' = [dholder EXCEPT ![m] = p]
        /\ dholder[m] = NoProc
    BY <1>4 DEF D!Ilock, D!Goto
  <2>2. dpc'[p] = t /\ t \in Standing /\ Moves(p)
    BY <2>1, DirTypes DEF DirInv, DirTypeOK, Moves, Standing, WithIp
  <2>3. DirTypeOK'
    <3>1. dpc' \in [Procs -> Standing] /\ dholder' \in [Inums -> Procs \cup {NoProc}]
      BY <2>1, <2>2 DEF DirInv, DirTypeOK
    <3> QED
      BY <3>1 DEF DirInv, DirTypeOK, Standing, WithIp, Reaching, FileNames
  <2>4. Holds(p)' = Holds(p) \cup {m}
    BY <2>2 DEF Holds, WithIp, WithChild
  <2>5. (\A q \in Procs \ {p} : Holds(q)' = Holds(q)) => LocksHeld'
    BY <1>2, <2>1, <2>4, LockTaken
  <2>6. RefsSound(p)'
    BY <1>1, <1>4, <2>2 DEF RefsSound, Reaching
  <2>7. FoundSound(p)'
    BY <1>1, <2>2 DEF FoundSound, D!Names, D!Fixed
  <2>8. dpc'[p] # "panic"
    BY <2>2
  <2> QED
    BY <2>2, <2>3, <2>5, <2>6, <2>7, <2>8, QuietHolds
<1> QED
  BY <1>3, <1>4

LEMMA IlockSteps ==
    ASSUME DirInv, NEW p \in Procs,
           D!WalkLock(p) \/ D!Open(p) \/ D!LockParent(p) \/ D!LockVictim(p)
    PROVE  DirInv'
<1>1. ~D!Halted
  BY DEF D!WalkLock, D!Open, D!LockParent, D!LockVictim, D!At
<1>2. /\ type' = type /\ linked' = linked /\ entries' = entries /\ path' = path
      /\ ip' = ip /\ child' = child /\ cwd' = cwd /\ elem' = elem
  BY DEF D!WalkLock, D!Open, D!LockParent, D!LockVictim, D!tree
<1>3. CASE D!WalkLock(p)
  <2>1. dpc[p] = "walk" /\ path[p] # <<>> /\ D!Ilock(p, ip[p], "locked")
    BY <1>3 DEF D!WalkLock, D!At
  <2> QED
    BY <1>1, <1>2, <2>1, IlockHolds
<1>4. CASE D!Open(p)
  <2>1. dpc[p] = "open" /\ D!Ilock(p, ip[p], "use")
    BY <1>4 DEF D!Open, D!At
  <2> QED
    BY <1>1, <1>2, <2>1, IlockHolds
<1>5. CASE D!LockParent(p)
  <2>1. PICK t \in {"unlink", "create"} : t = IF op[p] = "unlink" THEN "unlink" ELSE "create"
    OBVIOUS
  <2>2. dpc[p] = "parent" /\ D!Ilock(p, ip[p], t)
    BY <1>5, <2>1 DEF D!LockParent, D!At
  <2> QED
    BY <1>1, <1>2, <2>2, IlockHolds
<1>6. CASE D!LockVictim(p)
  <2>1. dpc[p] = "victim" /\ D!Ilock(p, child[p], "both")
    BY <1>6 DEF D!LockVictim, D!At
  <2> QED
    BY <1>1, <1>2, <2>1, IlockHolds
<1> QED
  BY <1>3, <1>4, <1>5, <1>6

-----------------------------------------------------------------------------
(* The steps that leave the tree alone                                     *)

LEMMA CallHolds ==
    ASSUME DirInv, NEW p \in Procs, D!Call(p)
    PROVE  DirInv'
<1>1. /\ ~D!Halted /\ dpc[p] = "user" /\ dpc' = [dpc EXCEPT ![p] = "walk"]
      /\ type' = type /\ linked' = linked /\ entries' = entries
      /\ dholder' = dholder /\ child' = child /\ cwd' = cwd
      /\ elem' = [elem EXCEPT ![p] = "/"]
  BY DEF D!Call, D!At, D!Goto, D!tree
<1>2. PICK c \in Calls : path' = [path EXCEPT ![p] = c[2]]
  BY DEF D!Call
<1>3. PICK d \in {D!Root, cwd[p]} : ip' = [ip EXCEPT ![p] = d]
  BY DEF D!Call
<1>4. /\ dpc'[p] = "walk" /\ ip'[p] = d /\ elem'[p] = "/" /\ cwd[p] \in Inums
      /\ RefsSound(p) /\ d \in Inums
  BY <1>1, <1>3, DirTypes, DirConstants DEF DirInv
<1>5. DirTypeOK'
  <2>1. c[2] \in Seq(FileNames)
    <3>1. c[2] \in Seq(STRING)
      BY DirectoriesAssumption
    <3> QED
      BY <3>1 DEF FileNames
  <2>2. dpc' \in [Procs -> Standing] /\ elem' \in [Procs -> FileNames]
    BY <1>1 DEF DirInv, DirTypeOK, Standing, FileNames
  <2>3. path' \in [Procs -> Seq(FileNames)] /\ ip' \in [Procs -> Inums \cup {0}]
    BY <1>2, <1>3, <1>4, <2>1 DEF DirInv, DirTypeOK
  <2> QED
    BY <1>1, <2>2, <2>3 DEF DirInv, DirTypeOK, Standing, WithIp, Reaching, FileNames
<1>6. Moves(p)
  BY <1>1, <1>2, <1>3 DEF Moves, DirInv, DirTypeOK
<1>7. Holds(p)' = Holds(p)
  BY <1>1, <1>4 DEF Holds, WithIp, WithChild
<1>8. (\A q \in Procs \ {p} : Holds(q)' = Holds(q)) => LocksHeld'
  BY <1>1, <1>7, LockStays
<1>9. type[d] # "free" /\ d # 0
  BY <1>4, DirConstants DEF RefsSound, DirInv, TreeInv
<1>10. RefsSound(p)'
  BY <1>1, <1>4, <1>9 DEF RefsSound, Reaching
<1>11. FoundSound(p)'
  BY <1>4 DEF FoundSound
<1> QED
  BY <1>1, <1>4, <1>5, <1>6, <1>8, <1>10, <1>11, QuietHolds

LEMMA WalkEndsHolds ==
    ASSUME DirInv, NEW p \in Procs, D!WalkEnds(p)
    PROVE  DirInv'
<1>1. /\ ~D!Halted /\ dpc[p] = "walk"
      /\ type' = type /\ linked' = linked /\ entries' = entries /\ path' = path
      /\ dholder' = dholder /\ ip' = ip /\ child' = child /\ cwd' = cwd /\ elem' = elem
  BY DEF D!WalkEnds, D!At, D!tree
<1>2. PICK t \in {"put", "open"} : dpc' = [dpc EXCEPT ![p] = t]
  BY DEF D!WalkEnds, D!Goto
<1>3. dpc'[p] = t /\ RefsSound(p)
  BY <1>1, <1>2 DEF DirInv, DirTypeOK
<1>4. DirTypeOK'
  <2>1. dpc' \in [Procs -> Standing]
    BY <1>2 DEF DirInv, DirTypeOK, Standing
  <2> QED
    BY <1>1, <2>1 DEF DirInv, DirTypeOK, Standing, WithIp, Reaching, FileNames
<1>5. Moves(p)
  BY <1>1, <1>2 DEF Moves, DirInv, DirTypeOK
<1>6. Holds(p)' = Holds(p)
  BY <1>1, <1>3 DEF Holds, WithIp, WithChild
<1>7. (\A q \in Procs \ {p} : Holds(q)' = Holds(q)) => LocksHeld'
  BY <1>1, <1>6, LockStays
<1>8. RefsSound(p)' /\ FoundSound(p)'
  BY <1>1, <1>3 DEF RefsSound, Reaching, FoundSound
<1> QED
  BY <1>1, <1>3, <1>4, <1>5, <1>7, <1>8, QuietHolds

(* Whoever has locked one inode unlocks it.                                *)
LEMMA UnlockHolds ==
    ASSUME DirInv, ~D!Halted, NEW p \in Procs, NEW t \in {"put", "parent", "next"},
           dpc[p] \in {"locked", "use", "create", "unlink"}, D!Unlock(ip[p]),
           dpc' = [dpc EXCEPT ![p] = t], Moves(p),
           type' = type, linked' = linked, entries' = entries,
           path' \in [Procs -> Seq(FileNames)], elem' \in [Procs -> FileNames],
           cwd' \in [Procs -> Inums], ip' \in [Procs -> Inums \cup {0}],
           child' \in [Procs -> Inums \cup {0}],
           RefsSound(p)', FoundSound(p)'
    PROVE  DirInv'
<1>1. dholder' = [dholder EXCEPT ![ip[p]] = NoProc] /\ dpc'[p] = t
  BY DirTypes DEF D!Unlock, DirInv
<1>2. ip[p] \in Inums
  <2>1. ip[p] # 0
    BY DEF DirInv, RefsSound
  <2> QED
    BY <2>1, DirTypes DEF DirInv
<1>3. DirTypeOK'
  <2>1. dpc' \in [Procs -> Standing]
    BY DEF DirInv, DirTypeOK, Standing, Reaching
  <2>2. dholder' \in [Inums -> Procs \cup {NoProc}]
    BY <1>1 DEF DirInv, DirTypeOK
  <2> QED
    BY <2>1, <2>2 DEF DirInv, DirTypeOK, Standing, WithIp, Reaching, FileNames
<1>4. Holds(p) = {ip[p]} /\ Holds(p)' = {}
  BY <1>1 DEF Holds, WithIp, WithChild
<1>5. (\A q \in Procs \ {p} : Holds(q)' = Holds(q)) => LocksHeld'
  BY <1>1, <1>2, <1>4, LockGiven
<1>6. dpc'[p] # "panic"
  BY <1>1
<1> QED
  BY <1>3, <1>5, <1>6, QuietHolds

(* The walk, create or unlink fails.                                       *)
LEMMA FailHolds ==
    ASSUME DirInv, NEW p \in Procs, D!WalkFails(p) \/ D!CreateFails(p) \/ D!UnlinkFails(p)
    PROVE  DirInv'
<1>1. /\ ~D!Halted /\ dpc[p] \in {"locked", "create", "unlink"}
      /\ type' = type /\ linked' = linked /\ entries' = entries /\ path' = path
      /\ ip' = ip /\ child' = child /\ cwd' = cwd /\ elem' = elem
      /\ D!Unlock(ip[p]) /\ dpc' = [dpc EXCEPT ![p] = "put"]
  BY DEF D!WalkFails, D!CreateFails, D!UnlinkFails, D!At, D!tree, D!Goto
<1>2. dpc'[p] = "put" /\ RefsSound(p)
  BY <1>1, DirTypes DEF DirInv
<1>3. Moves(p)
  BY <1>1 DEF Moves, DirInv, DirTypeOK
<1>4. RefsSound(p)' /\ FoundSound(p)'
  BY <1>1, <1>2 DEF RefsSound, Reaching, FoundSound
<1>5. /\ path' \in [Procs -> Seq(FileNames)] /\ elem' \in [Procs -> FileNames]
      /\ cwd' \in [Procs -> Inums] /\ ip' \in [Procs -> Inums \cup {0}]
      /\ child' \in [Procs -> Inums \cup {0}]
  BY <1>1 DEF DirInv, DirTypeOK
<1> QED
  BY <1>1, <1>3, <1>4, <1>5, UnlockHolds

LEMMA WalkStopsHolds ==
    ASSUME DirInv, NEW p \in Procs, D!WalkStops(p)
    PROVE  DirInv'
<1>1. /\ ~D!Halted /\ dpc[p] = "locked" /\ type[ip[p]] = "dir" /\ Len(path[p]) = 1
      /\ type' = type /\ linked' = linked /\ entries' = entries /\ path' = path
      /\ ip' = ip /\ child' = child /\ cwd' = cwd
      /\ elem' = [elem EXCEPT ![p] = Head(path[p])]
      /\ D!Unlock(ip[p]) /\ dpc' = [dpc EXCEPT ![p] = "parent"]
  BY DEF D!WalkStops, D!Early, D!At, D!tree, D!Goto
<1>2. dpc'[p] = "parent" /\ RefsSound(p)
  BY <1>1, DirTypes DEF DirInv
<1>3. Moves(p)
  BY <1>1 DEF Moves, DirInv, DirTypeOK
<1>4. RefsSound(p)' /\ FoundSound(p)'
  BY <1>1, <1>2 DEF RefsSound, Reaching, FoundSound
<1>5. Head(path[p]) \in FileNames
  <2>1. path[p] \in Seq(FileNames) /\ path[p] # <<>>
    BY <1>1, DirTypes, SMTT(30) DEF DirInv
  <2> QED
    BY <2>1
<1>6. /\ path' \in [Procs -> Seq(FileNames)] /\ elem' \in [Procs -> FileNames]
      /\ cwd' \in [Procs -> Inums] /\ ip' \in [Procs -> Inums \cup {0}]
      /\ child' \in [Procs -> Inums \cup {0}]
  BY <1>1, <1>5 DEF DirInv, DirTypeOK
<1> QED
  BY <1>1, <1>3, <1>4, <1>6, UnlockHolds

(* What a walk finds is allocated, unless it went up.                      *)
LEMMA FoundInode ==
    ASSUME DirInv, NEW d \in Inums, type[d] = "dir", NEW nm, D!Lookup(d, nm) # 0
    PROVE  D!Lookup(d, nm) \in Inums /\ (type[D!Lookup(d, nm)] = "free" => nm = "..")
<1>1. D!Lookup(d, nm) \in Inums
  BY LookupAnswer DEF DirInv
<1>2. CASE nm \in D!Fixed
  <2>1. D!Lookup(d, ".") = d
    BY LookupFixed DEF DirInv, TreeInv
  <2> QED
    BY <1>1, <1>2, <2>1, DirConstants
<1>3. CASE nm \notin D!Fixed
  <2>1. PICK k \in D!Names(d) : entries[d][k].inum = D!Lookup(d, nm)
    BY <1>3, LookupOf DEF DirInv
  <2>2. type[entries[d][k].inum] # "free"
    BY DEF DirInv, TreeInv, NameSound
  <2> QED
    BY <1>1, <2>1, <2>2
<1> QED
  BY <1>2, <1>3

LEMMA WalkFindsHolds ==
    ASSUME DirInv, NEW p \in Procs, D!WalkFinds(p)
    PROVE  DirInv'
<1>1. PICK c, s : c = D!Lookup(ip[p], Head(path[p])) /\ s = Head(path[p])
  OBVIOUS
<1>2. /\ ~D!Halted /\ dpc[p] = "locked" /\ type[ip[p]] = "dir"
      /\ type' = type /\ linked' = linked /\ entries' = entries
      /\ ip' = ip /\ cwd' = cwd /\ c # 0
      /\ child' = [child EXCEPT ![p] = c] /\ elem' = [elem EXCEPT ![p] = s]
      /\ D!Unlock(ip[p]) /\ dpc' = [dpc EXCEPT ![p] = "next"]
  BY <1>1 DEF D!WalkFinds, D!Finds, D!At, D!tree, D!Goto
<1>3. path' = [path EXCEPT ![p] = Tail(path[p])] /\ path[p] # <<>>
  BY <1>2 DEF D!WalkFinds, D!Finds, DirInv, FoundSound
<1>4. s \in FileNames /\ Tail(path[p]) \in Seq(FileNames)
  <2>1. path[p] \in Seq(FileNames)
    BY DirTypes DEF DirInv
  <2> QED
    BY <1>1, <1>3, <2>1
<1>5. RefsSound(p) /\ ip[p] # 0 /\ ip[p] \in Inums
  <2>1. RefsSound(p)
    BY <1>2 DEF DirInv
  <2>2. ip[p] # 0
    BY <1>2, <2>1 DEF RefsSound
  <2> QED
    BY <2>1, <2>2, DirTypes DEF DirInv
<1>6. c \in Inums /\ (type[c] = "free" => s = "..")
  BY <1>1, <1>2, <1>5, FoundInode
<1>7. dpc'[p] = "next" /\ child'[p] = c /\ elem'[p] = s
  BY <1>2 DEF DirInv, DirTypeOK
<1>8. Moves(p)
  BY <1>2, <1>3 DEF Moves, DirInv, DirTypeOK
<1>9. RefsSound(p)' /\ FoundSound(p)'
  BY <1>2, <1>5, <1>6, <1>7 DEF RefsSound, Reaching, FoundSound
<1>10. /\ path' \in [Procs -> Seq(FileNames)] /\ elem' \in [Procs -> FileNames]
       /\ cwd' \in [Procs -> Inums] /\ ip' \in [Procs -> Inums \cup {0}]
       /\ child' \in [Procs -> Inums \cup {0}]
  BY <1>2, <1>3, <1>4, <1>6 DEF DirInv, DirTypeOK
<1> QED
  BY <1>2, <1>8, <1>9, <1>10, UnlockHolds

(* chdir takes the inode it has locked, so not a free one.                 *)
LEMMA UnuseHolds ==
    ASSUME DirInv, NEW p \in Procs, D!Unuse(p)
    PROVE  DirInv'
<1>1. /\ ~D!Halted /\ dpc[p] = "use"
      /\ type' = type /\ linked' = linked /\ entries' = entries
      /\ path' = path /\ child' = child /\ elem' = elem
      /\ D!Unlock(ip[p]) /\ dpc' = [dpc EXCEPT ![p] = "put"]
  BY DEF D!Unuse, D!At, D!tree, D!Goto
<1>2. \/ cwd' = [cwd EXCEPT ![p] = ip[p]] /\ ip' = [ip EXCEPT ![p] = cwd[p]]
      \/ cwd' = cwd /\ ip' = ip
  BY DEF D!Unuse
<1>3. RefsSound(p) /\ ip[p] # 0 /\ ip[p] \in Inums /\ cwd[p] \in Inums /\ cwd[p] # 0
  <2>1. RefsSound(p)
    BY <1>1 DEF DirInv
  <2>2. ip[p] # 0
    BY <1>1, <2>1 DEF RefsSound
  <2> QED
    BY <2>1, <2>2, DirTypes, DirConstants DEF DirInv
<1>4. type[ip[p]] # "free" /\ type[cwd[p]] # "free" /\ child[p] = 0
  BY <1>1, <1>3 DEF RefsSound, Reaching
<1>5. /\ dpc'[p] = "put"
      /\ cwd'[p] \in {cwd[p], ip[p]} /\ ip'[p] \in {cwd[p], ip[p]}
      /\ cwd' \in [Procs -> Inums] /\ ip' \in [Procs -> Inums \cup {0}]
  BY <1>1, <1>2, <1>3 DEF DirInv, DirTypeOK
<1>6. Moves(p)
  BY <1>1, <1>2 DEF Moves, DirInv, DirTypeOK
<1>7. RefsSound(p)' /\ FoundSound(p)'
  BY <1>1, <1>3, <1>4, <1>5 DEF RefsSound, Reaching, FoundSound
<1>8. /\ path' \in [Procs -> Seq(FileNames)] /\ elem' \in [Procs -> FileNames]
      /\ child' \in [Procs -> Inums \cup {0}]
  BY <1>1 DEF DirInv, DirTypeOK
<1> QED
  BY <1>1, <1>5, <1>6, <1>7, <1>8, UnlockHolds

LEMMA UnlinkFindsHolds ==
    ASSUME DirInv, NEW p \in Procs, D!UnlinkFinds(p)
    PROVE  DirInv'
<1>1. PICK c : c = D!Lookup(ip[p], elem[p])
  OBVIOUS
<1>2. /\ ~D!Halted /\ dpc[p] = "unlink" /\ elem[p] \notin D!Fixed /\ c # 0
      /\ type' = type /\ linked' = linked /\ entries' = entries /\ dholder' = dholder
      /\ path' = path /\ ip' = ip /\ cwd' = cwd /\ elem' = elem
      /\ child' = [child EXCEPT ![p] = c] /\ dpc' = [dpc EXCEPT ![p] = "victim"]
  BY <1>1 DEF D!UnlinkFinds, D!At, D!tree, D!Goto
<1>3. RefsSound(p) /\ FoundSound(p) /\ ip[p] # 0 /\ ip[p] \in Inums /\ type[ip[p]] = "dir"
  <2>1. RefsSound(p) /\ FoundSound(p)
    BY <1>2 DEF DirInv
  <2>2. ip[p] # 0 /\ type[ip[p]] = "dir"
    BY <1>2, <2>1 DEF RefsSound, FoundSound
  <2> QED
    BY <2>1, <2>2, DirTypes DEF DirInv
<1>4. PICK k \in D!Names(ip[p]) : entries[ip[p]][k].inum = c /\ entries[ip[p]][k].name = elem[p]
  BY <1>1, <1>2, <1>3, LookupOf, SMTT(30) DEF DirInv
<1>5. c \in Inums /\ type[c] # "free"
  <2>1. c \in Inums
    BY <1>3, <1>4, EntryTypes DEF DirInv
  <2>2. type[entries[ip[p]][k].inum] # "free"
    BY <1>3 DEF DirInv, TreeInv, NameSound
  <2> QED
    BY <1>4, <2>1, <2>2
<1>6. dpc'[p] = "victim" /\ child'[p] = c
  BY <1>2 DEF DirInv, DirTypeOK
<1>7. Moves(p)
  BY <1>2 DEF Moves, DirInv, DirTypeOK
<1>8. DirTypeOK'
  <2>1. dpc' \in [Procs -> Standing] /\ child' \in [Procs -> Inums \cup {0}]
    BY <1>2, <1>5 DEF DirInv, DirTypeOK, Standing, Reaching
  <2> QED
    BY <1>2, <2>1 DEF DirInv, DirTypeOK, Standing, WithIp, Reaching, FileNames
<1>9. Holds(p)' = Holds(p)
  BY <1>2, <1>6 DEF Holds, WithIp, WithChild
<1>10. (\A q \in Procs \ {p} : Holds(q)' = Holds(q)) => LocksHeld'
  BY <1>2, <1>9, LockStays
<1>11. RefsSound(p)'
  BY <1>2, <1>3, <1>5, <1>6 DEF RefsSound, Reaching
<1>12. FoundSound(p)'
  <2>1. D!Names(ip[p])' = D!Names(ip[p])
    BY <1>2 DEF D!Names
  <2>2. k \in D!Names(ip[p])' /\ entries'[ip'[p]][k].inum = child'[p] /\ entries'[ip'[p]][k].name = elem'[p]
    BY <1>2, <1>4, <1>6, <2>1
  <2>3. type'[ip'[p]] = "dir"
    BY <1>2, <1>3
  <2> QED
    BY <1>2, <1>6, <2>2, <2>3 DEF FoundSound, D!Names, D!Fixed
<1> QED
  BY <1>2, <1>6, <1>7, <1>8, <1>10, <1>11, <1>12, QuietHolds

-----------------------------------------------------------------------------
(* iput *)

LEMMA DirCounts == \A S : D!Cardinality(S) = Cardinality(S)
  BY DEF D!Cardinality, Cardinality

LEMMA CountAtLeast ==
    ASSUME NEW S \in SUBSET Procs
    PROVE  /\ Cardinality(S) \in Nat
           /\ \A x \in S : Cardinality(S) >= 1
           /\ \A x, y \in S : x # y => Cardinality(S) >= 2
<1>1. IsFiniteSet(S)
  BY DirectoriesAssumption, FS_Subset
<1>2. Cardinality(S) \in Nat
  BY <1>1, FS_CardinalityType
<1>3. ASSUME NEW x \in S PROVE Cardinality(S) >= 1
  <2>1. Cardinality(S) # 0
    BY <1>1, <1>3, FS_EmptySet
  <2> QED
    BY <1>2, <2>1
<1>4. ASSUME NEW x \in S, NEW y \in S, x # y PROVE Cardinality(S) >= 2
  <2>1. Cardinality(S) # 0
    BY <1>1, <1>4, FS_EmptySet
  <2>2. Cardinality(S) # 1
    <3>1. ASSUME Cardinality(S) = 1 PROVE FALSE
      <4>1. PICK z : S = {z}
        BY <1>1, <3>1, FS_Singleton
      <4> QED
        BY <1>4, <4>1
    <3> QED
      BY <3>1
  <2> QED
    BY <1>2, <2>1, <2>2
<1> QED
  BY <1>2, <1>3, <1>4

(* The last reference is the one that is dropped.                          *)
Alone(p, m) ==
    /\ \A q \in Procs : cwd[q] # m
    /\ \A q \in Procs \ {p} : ip[q] # m /\ child[q] # m
    /\ ~(ip[p] = m /\ child[p] = m)

LEMMA LastReference ==
    ASSUME NEW p \in Procs, NEW m, ip[p] = m \/ child[p] = m, ~(D!Ref(m) > 1)
    PROVE  Alone(p, m)
<1>1. PICK A \in SUBSET Procs, B \in SUBSET Procs, G \in SUBSET Procs :
          /\ A = {q \in Procs : cwd[q] = m} /\ B = {q \in Procs : ip[q] = m}
          /\ G = {q \in Procs : child[q] = m}
  OBVIOUS
<1>2. PICK a, b, g \in Nat : a = Cardinality(A) /\ b = Cardinality(B) /\ g = Cardinality(G)
  BY CountAtLeast
<1>3. D!Ref(m) = a + b + g
  BY <1>1, <1>2, DirCounts DEF D!Ref
<1>4. a + b + g <= 1
  BY <1>3
<1>5. /\ (\E q \in A : TRUE) => a >= 1
      /\ (\E q \in B : TRUE) => b >= 1
      /\ (\E q \in G : TRUE) => g >= 1
  BY <1>2, CountAtLeast
<1>6. /\ (\E q, r \in B : q # r) => b >= 2
      /\ (\E q, r \in G : q # r) => g >= 2
  BY <1>2, CountAtLeast
<1>7. p \in B \/ p \in G
  BY <1>1
<1>8. b >= 1 \/ g >= 1
  BY <1>5, <1>7
<1>9. a < 1 /\ ~(b >= 1 /\ g >= 1) /\ b < 2 /\ g < 2
  BY <1>2, <1>4, <1>8
<1>10. \A q \in Procs : q \notin A
  BY <1>5, <1>9
<1>11. \A q \in Procs \ {p} : q \notin B /\ q \notin G
  BY <1>5, <1>6, <1>7, <1>9
<1>12. ~(p \in B /\ p \in G)
  BY <1>5, <1>9
<1> QED
  BY <1>1, <1>10, <1>11, <1>12 DEF Alone

LEMMA IputTree ==
    ASSUME DirInv, NEW p \in Procs, NEW m \in Inums, ip[p] = m \/ child[p] = m, D!Iput(m)
    PROVE  /\ type' \in [Inums -> {"free", "dir", "file"}]
           /\ linked' \in [Inums -> BOOLEAN] /\ entries' \in [Inums -> Seq(Entry)]
           /\ TreeInv' /\ Ranked'
           /\ \/ type' = type /\ entries' = entries
              \/ /\ type[m] # "free" /\ Alone(p, m)
                 /\ \A x \in Inums \ {m} : type'[x] = type[x] /\ entries'[x] = entries[x]
                 /\ \A d \in Inums : \A k \in D!Names(d)' :
                       k \in D!Names(d) /\ entries'[d][k] = entries[d][k]
<1>1. CASE linked[m] \/ D!Ref(m) > 1 \/ type[m] = "free"
  <2>1. type' = type /\ linked' = linked /\ entries' = entries
    BY <1>1 DEF D!Iput, D!tree
  <2> QED
    BY <2>1, TreeStays DEF DirInv, DirTypeOK, Entry
<1>2. CASE ~(linked[m] \/ D!Ref(m) > 1 \/ type[m] = "free")
  <2>1. /\ type' = [type EXCEPT ![m] = "free"] /\ linked' = linked
        /\ entries' = [entries EXCEPT ![m] = <<>>]
    BY <1>2 DEF D!Iput
  <2>2. TreeInv' /\ Ranked'
    BY <1>2, <2>1, TreeFrees DEF DirInv
  <2>3. /\ type' \in [Inums -> {"free", "dir", "file"}]
        /\ linked' \in [Inums -> BOOLEAN] /\ entries' \in [Inums -> Seq(Entry)]
        /\ entries'[m] = <<>>
        /\ \A x \in Inums \ {m} : type'[x] = type[x] /\ entries'[x] = entries[x]
    <3>1. <<>> \in Seq(Entry)
      OBVIOUS
    <3> QED
      BY <2>1, <3>1 DEF DirInv, DirTypeOK, Entry
  <2>4. Alone(p, m)
    BY <1>2, LastReference
  <2>5. ASSUME NEW d \in Inums, NEW k \in D!Names(d)'
        PROVE  k \in D!Names(d) /\ entries'[d][k] = entries[d][k]
    <3>1. CASE d = m
      <4>1. Len(entries'[m]) = 0
        BY <2>3
      <4> QED
        BY <3>1, <4>1 DEF D!Names
    <3>2. CASE d # m
      BY <2>3, <3>2, NamesKept
    <3> QED
      BY <3>1, <3>2
  <2> QED
    BY <1>2, <2>2, <2>3, <2>4, <2>5
<1> QED
  BY <1>1, <1>2

LEMMA IputSpares ==
    ASSUME DirInv, ~D!Halted, NEW p \in Procs, NEW m \in Inums, ip[p] = m \/ child[p] = m,
           D!Iput(m), NEW q \in Procs, q # p
    PROVE  Spares(q)
<1>1. RefsSound(q) /\ FoundSound(q)
  BY DEF DirInv
<1>2. CASE type' = type /\ entries' = entries
  BY <1>1, <1>2, SparesAll
<1>3. CASE /\ type[m] # "free" /\ Alone(p, m)
           /\ \A x \in Inums \ {m} : type'[x] = type[x] /\ entries'[x] = entries[x]
           /\ \A d \in Inums : \A k \in D!Names(d)' :
                 k \in D!Names(d) /\ entries'[d][k] = entries[d][k]
  <2>1. cwd[q] # m /\ ip[q] # m /\ child[q] # m
    BY <1>3 DEF Alone
  <2>2. \A x \in Inums : x \in {cwd[q], ip[q], child[q]} => type'[x] = type[x]
    BY <1>3, <2>1
  <2>3. dpc[q] \in {"victim", "both"} => entries'[ip[q]] = entries[ip[q]]
    <3>1. dpc[q] \in {"victim", "both"} => ip[q] # 0
      BY <1>1 DEF RefsSound
    <3> QED
      BY <1>3, <2>1, <3>1, DirTypes DEF DirInv
  <2>4. dpc[q] = "drop" => \A d \in Inums : \A k \in D!Names(d)' : entries'[d][k].inum # child[q]
    BY <1>1, <1>3 DEF FoundSound
  <2> QED
    BY <2>2, <2>3, <2>4 DEF Spares
<1> QED
  BY <1>2, <1>3, IputTree

LEMMA WalkNextHolds ==
    ASSUME DirInv, NEW p \in Procs, D!WalkNext(p)
    PROVE  DirInv'
<1>1. /\ ~D!Halted /\ dpc[p] = "next" /\ D!Iput(ip[p])
      /\ dholder' = dholder /\ path' = path /\ cwd' = cwd /\ elem' = elem
      /\ ip' = [ip EXCEPT ![p] = child[p]] /\ child' = [child EXCEPT ![p] = 0]
      /\ dpc' = [dpc EXCEPT ![p] = "walk"]
  BY DEF D!WalkNext, D!At, D!Goto
<1>2. PICK m \in Inums : m = ip[p] /\ D!Iput(m)
  <2>1. ip[p] # 0
    BY <1>1 DEF DirInv, RefsSound
  <2> QED
    BY <1>1, <2>1, DirTypes DEF DirInv
<1>3. RefsSound(p) /\ child[p] # 0 /\ child[p] \in Inums /\ cwd[p] \in Inums
  <2>1. RefsSound(p)
    BY <1>1 DEF DirInv
  <2>2. child[p] # 0
    BY <1>1, <2>1 DEF RefsSound, Reaching
  <2> QED
    BY <2>1, <2>2, DirTypes DEF DirInv
<1>4. dpc'[p] = "walk" /\ ip'[p] = child[p] /\ child'[p] = 0
  BY <1>1 DEF DirInv, DirTypeOK
<1>5. Moves(p)
  BY <1>1 DEF Moves, DirInv, DirTypeOK
<1>6. DirTypeOK'
  <2>1. /\ dpc' \in [Procs -> Standing]
        /\ ip' \in [Procs -> Inums \cup {0}] /\ child' \in [Procs -> Inums \cup {0}]
    BY <1>1, <1>3 DEF DirInv, DirTypeOK, Standing
  <2>2. /\ type' \in [Inums -> {"free", "dir", "file"}]
        /\ linked' \in [Inums -> BOOLEAN] /\ entries' \in [Inums -> Seq(Entry)]
    BY <1>2, IputTree
  <2> QED
    BY <1>1, <2>1, <2>2 DEF DirInv, DirTypeOK, Standing, WithIp, Reaching, FileNames, Entry
<1>7. TreeInv' /\ Ranked'
  BY <1>2, IputTree
<1>8. \A q \in Procs \ {p} : Spares(q)
  BY <1>1, <1>2, IputSpares
<1>9. Holds(p)' = Holds(p)
  BY <1>1, <1>4 DEF Holds, WithIp, WithChild
<1>10. (\A q \in Procs \ {p} : Holds(q)' = Holds(q)) => LocksHeld'
  BY <1>1, <1>9, LockStays
<1>11. /\ type[child[p]] # "free" => type'[child[p]] # "free"
       /\ type'[cwd[p]] # "free"
  <2>1. \/ type' = type
        \/ Alone(p, m) /\ \A x \in Inums \ {m} : type'[x] = type[x]
    BY <1>2, IputTree
  <2>2. type[cwd[p]] # "free"
    BY <1>3 DEF RefsSound
  <2>3. CASE type' = type
    BY <2>2, <2>3
  <2>4. CASE Alone(p, m) /\ \A x \in Inums \ {m} : type'[x] = type[x]
    <3>1. cwd[p] # m /\ child[p] # m
      BY <1>2, <2>4 DEF Alone
    <3> QED
      BY <1>3, <2>2, <2>4, <3>1
  <2> QED
    BY <2>1, <2>3, <2>4
<1>12. RefsSound(p)'
  BY <1>1, <1>3, <1>4, <1>11 DEF RefsSound, Reaching
<1>13. FoundSound(p)'
  BY <1>4 DEF FoundSound
<1>14. dpc'[p] # "panic"
  BY <1>4
<1> QED
  BY <1>1, <1>5, <1>6, <1>7, <1>8, <1>10, <1>12, <1>13, <1>14, StepHolds

LEMMA PutHolds ==
    ASSUME DirInv, NEW p \in Procs, D!Put(p) \/ D!PutChild(p)
    PROVE  DirInv'
<1>1. PICK m, t : \/ D!Put(p) /\ m = ip[p] /\ t = "user"
                  \/ D!PutChild(p) /\ m = child[p] /\ t = "put"
  OBVIOUS
<1>2. /\ ~D!Halted /\ D!Iput(m) /\ dholder' = dholder /\ cwd' = cwd
      /\ dpc' = [dpc EXCEPT ![p] = t]
  BY <1>1 DEF D!Put, D!PutChild, D!At, D!Goto
<1>3. \/ /\ dpc[p] = "put" /\ t = "user" /\ m = ip[p]
         /\ ip' = [ip EXCEPT ![p] = 0] /\ child' = child
         /\ path' = [path EXCEPT ![p] = <<>>] /\ elem' = [elem EXCEPT ![p] = "/"]
      \/ /\ dpc[p] = "putchild" /\ t = "put" /\ m = child[p]
         /\ child' = [child EXCEPT ![p] = 0] /\ ip' = ip /\ path' = path /\ elem' = elem
  BY <1>1 DEF D!Put, D!PutChild, D!At, D!Goto
<1>4. RefsSound(p) /\ m \in Inums /\ cwd[p] \in Inums /\ (ip[p] = m \/ child[p] = m)
  <2>1. RefsSound(p)
    BY <1>2 DEF DirInv
  <2>2. m # 0
    BY <1>3, <2>1 DEF RefsSound, Reaching
  <2> QED
    BY <1>3, <2>1, <2>2, DirTypes DEF DirInv
<1>5. /\ dpc'[p] = t
      /\ t = "user" => ip'[p] = 0 /\ child'[p] = child[p]
      /\ t = "put" => ip'[p] = ip[p] /\ child'[p] = 0 /\ elem'[p] = elem[p]
  BY <1>2, <1>3 DEF DirInv, DirTypeOK
<1>6. Moves(p)
  BY <1>2, <1>3 DEF Moves, DirInv, DirTypeOK
<1>7. DirTypeOK'
  <2>1. /\ dpc' \in [Procs -> Standing]
        /\ ip' \in [Procs -> Inums \cup {0}] /\ child' \in [Procs -> Inums \cup {0}]
    BY <1>2, <1>3 DEF DirInv, DirTypeOK, Standing
  <2>2. /\ type' \in [Inums -> {"free", "dir", "file"}]
        /\ linked' \in [Inums -> BOOLEAN] /\ entries' \in [Inums -> Seq(Entry)]
    BY <1>2, <1>4, IputTree
  <2>3. path' \in [Procs -> Seq(FileNames)] /\ elem' \in [Procs -> FileNames]
    <3>1. <<>> \in Seq(FileNames) /\ "/" \in FileNames
      BY DEF FileNames
    <3> QED
      BY <1>3, <3>1, ZenonT(60) DEF DirInv, DirTypeOK
  <2> QED
    BY <1>2, <2>1, <2>2, <2>3 DEF DirInv, DirTypeOK, Standing, WithIp, Reaching, FileNames, Entry
<1>8. TreeInv' /\ Ranked'
  BY <1>2, <1>4, IputTree
<1>9. \A q \in Procs \ {p} : Spares(q)
  BY <1>2, <1>4, IputSpares
<1>10. Holds(p)' = Holds(p)
  BY <1>3, <1>5 DEF Holds, WithIp, WithChild
<1>11. (\A q \in Procs \ {p} : Holds(q)' = Holds(q)) => LocksHeld'
  BY <1>2, <1>10, LockStays
<1>12. \/ type' = type
       \/ Alone(p, m) /\ \A x \in Inums \ {m} : type'[x] = type[x]
  BY <1>2, <1>4, IputTree
<1>13. type'[cwd[p]] # "free"
  <2>1. type[cwd[p]] # "free"
    BY <1>4 DEF RefsSound
  <2> QED
    BY <1>4, <1>12, <2>1 DEF Alone
<1>14. RefsSound(p)'
  <2>1. CASE t = "user"
    <3>1. child[p] = 0
      BY <1>3, <1>4, <2>1 DEF RefsSound, Reaching
    <3> QED
      BY <1>2, <1>5, <1>13, <2>1, <3>1 DEF RefsSound, Reaching
  <2>2. CASE t = "put"
    <3>1. ip[p] # 0 /\ ip[p] \in Inums /\ type[ip[p]] # "free"
      <4>1. ip[p] # 0 /\ type[ip[p]] # "free"
        BY <1>3, <1>4, <2>2 DEF RefsSound, Reaching
      <4> QED
        BY <4>1, DirTypes DEF DirInv
    <3>2. m = child[p]
      BY <1>3, <2>2
    <3>3. type'[ip[p]] # "free"
      BY <1>12, <3>1, <3>2 DEF Alone
    <3> QED
      BY <1>2, <1>5, <1>13, <2>2, <3>1, <3>3 DEF RefsSound, Reaching
  <2> QED
    BY <1>3, <2>1, <2>2
<1>15. FoundSound(p)' /\ dpc'[p] # "panic"
  BY <1>3, <1>5 DEF FoundSound
<1> QED
  BY <1>2, <1>6, <1>7, <1>8, <1>9, <1>11, <1>14, <1>15, StepHolds

-----------------------------------------------------------------------------
(* create and unlink                                                       *)

(* No two processes hold the same inode.                                   *)
LEMMA LocksApart ==
    ASSUME DirInv, ~D!Halted, NEW p \in Procs, NEW q \in Procs, q # p,
           NEW m \in Inums, m \in Holds(p)
    PROVE  m \notin Holds(q)
  BY DEF DirInv, LocksHeld

LEMMA CreateHolds ==
    ASSUME DirInv, NEW p \in Procs, D!Create(p)
    PROVE  DirInv'
<1>1. /\ ~D!Halted /\ dpc[p] = "create" /\ D!Lookup(ip[p], elem[p]) = 0
      /\ path' = path /\ ip' = ip /\ child' = child /\ cwd' = cwd /\ elem' = elem
      /\ D!Unlock(ip[p]) /\ dpc' = [dpc EXCEPT ![p] = "put"]
  BY DEF D!Create, D!At, D!Goto
<1>2. PICK m \in Inums : type[m] = "free" /\ D!Adds(p, ip[p], m)
  BY DEF D!Create
<1>3. RefsSound(p) /\ FoundSound(p)
  BY <1>1 DEF DirInv
<1>4. PICK d \in Inums : d = ip[p] /\ type[d] = "dir"
  <2>1. ip[p] # 0 /\ type[ip[p]] = "dir"
    BY <1>1, <1>3 DEF RefsSound, FoundSound
  <2> QED
    BY <2>1, DirTypes DEF DirInv
<1>5. PICK t \in {"dir", "file"}, nm \in FileNames :
          t = (IF op[p] = "mkdir" THEN "dir" ELSE "file") /\ nm = elem[p]
  BY DirTypes DEF DirInv
<1>6. /\ type' = [type EXCEPT ![m] = t] /\ linked' = [linked EXCEPT ![m] = TRUE]
      /\ entries' = [entries EXCEPT ![m] = IF t = "dir" THEN D!NewDir(m, d) ELSE <<>>,
                                    ![d] = D!Linked(d, nm, m)]
  BY <1>2, <1>4, <1>5 DEF D!Adds
<1>7. DirTypeOK /\ TreeInv /\ Ranked /\ type[m] = "free" /\ type[d] = "dir" /\ D!Lookup(d, nm) = 0
  BY <1>1, <1>2, <1>4, <1>5 DEF DirInv
<1>8. /\ entries' \in [Inums -> Seq(Entry)]
      /\ TreeInv' /\ Ranked'
      /\ \A e \in Inums \ {d, m} : entries'[e] = entries[e]
      /\ \A e \in Inums : \A j \in D!Names(e)' :
            \/ j \in D!Names(e) /\ entries'[e][j] = entries[e][j]
            \/ entries'[e][j].inum = m
  <2>1. /\ entries' \in [Inums -> Seq(Entry)] /\ TreeInv' /\ Ranked'
        /\ \A e \in Inums \ {d, m} : entries'[e] = entries[e]
        /\ NamesAdded(m)
    BY <1>6, <1>7, TreeGrows
  <2> QED
    BY <2>1 DEF NamesAdded
<1>9. /\ type' \in [Inums -> {"free", "dir", "file"}] /\ linked' \in [Inums -> BOOLEAN]
      /\ type'[m] # "free" /\ \A x \in Inums \ {m} : type'[x] = type[x]
  BY <1>6, <1>7 DEF DirTypeOK
<1>10. dholder' = [dholder EXCEPT ![d] = NoProc] /\ dpc'[p] = "put"
  BY <1>1, <1>4, <1>7 DEF D!Unlock, DirTypeOK
<1>11. Moves(p)
  BY <1>1, <1>7 DEF Moves, DirTypeOK
<1>12. DirTypeOK'
  <2>1. dpc' \in [Procs -> Standing] /\ dholder' \in [Inums -> Procs \cup {NoProc}]
    BY <1>1, <1>7, <1>10 DEF DirTypeOK, Standing
  <2> QED
    BY <1>1, <1>7, <1>8, <1>9, <2>1 DEF DirTypeOK, Standing, WithIp, Reaching, FileNames, Entry
<1>13. Holds(p) = {d} /\ Holds(p)' = {}
  BY <1>1, <1>4, <1>10 DEF Holds, WithIp, WithChild
<1>14. (\A q \in Procs \ {p} : Holds(q)' = Holds(q)) => LocksHeld'
  BY <1>1, <1>10, <1>13, LockGiven
<1>15. ASSUME NEW q \in Procs \ {p} PROVE Spares(q)
  <2>1. RefsSound(q) /\ FoundSound(q)
    BY <1>1 DEF DirInv
  <2>2. \A x \in Inums : x \in {cwd[q], ip[q], child[q]} /\ type[x] # "free" => type'[x] = type[x]
    BY <1>2, <1>9
  <2>3. dpc[q] \in {"victim", "both"} => entries'[ip[q]] = entries[ip[q]]
    <3> SUFFICES ASSUME dpc[q] \in {"victim", "both"} PROVE entries'[ip[q]] = entries[ip[q]]
      OBVIOUS
    <3>1. ip[q] # 0 /\ type[ip[q]] = "dir" /\ ip[q] \in Holds(q)
      BY <2>1 DEF RefsSound, FoundSound, Holds, WithIp
    <3>2. ip[q] \in Inums
      BY <1>7, <3>1, DirTypes
    <3>3. d \notin Holds(q)
      BY <1>1, <1>13, LocksApart
    <3> QED
      BY <1>2, <1>8, <3>1, <3>2, <3>3
  <2>4. dpc[q] = "drop" => \A e \in Inums : \A j \in D!Names(e)' : entries'[e][j].inum # child[q]
    <3> SUFFICES ASSUME dpc[q] = "drop", NEW e \in Inums, NEW j \in D!Names(e)'
                 PROVE  entries'[e][j].inum # child[q]
      OBVIOUS
    <3>1. type[child[q]] # "free"
      BY <2>1 DEF RefsSound, Reaching
    <3>2. child[q] # m
      BY <1>2, <3>1
    <3>3. j \in D!Names(e) => entries[e][j].inum # child[q]
      BY <2>1 DEF FoundSound
    <3> QED
      BY <1>8, <3>2, <3>3
  <2> QED
    BY <2>2, <2>3, <2>4 DEF Spares
<1>16. RefsSound(p)'
  <2>1. type[cwd[p]] # "free" /\ cwd[p] \in Inums /\ ip[p] # 0 /\ child[p] = 0
    BY <1>1, <1>3, <1>7, DirTypes DEF RefsSound, Reaching
  <2>2. type'[cwd[p]] # "free" /\ type'[ip[p]] # "free"
    BY <1>2, <1>4, <1>9, <2>1
  <2> QED
    BY <1>1, <1>10, <2>1, <2>2 DEF RefsSound, Reaching
<1>17. FoundSound(p)' /\ dpc'[p] # "panic"
  BY <1>10 DEF FoundSound
<1>18. \A q \in Procs \ {p} : Spares(q)
  BY <1>15
<1> QED
  BY <1>1, <1>8, <1>11, <1>12, <1>14, <1>16, <1>17, <1>18, StepHolds

(* Of what unlink has locked, the entry is the only one.                   *)
LEMMA UnlinkEntry ==
    ASSUME DirInv, ~D!Halted, NEW p \in Procs, dpc[p] = "both"
    PROVE  /\ ip[p] \in Inums /\ child[p] \in Inums /\ ip[p] # child[p] /\ child[p] # D!Root
           /\ type[child[p]] # "free"
           /\ \A k \in D!Matches(ip[p], elem[p]) :
                 k \in D!Names(ip[p]) /\ entries[ip[p]][k].inum = child[p]
<1>1. RefsSound(p) /\ FoundSound(p) /\ DirTypeOK
  BY DEF DirInv
<1>2. ip[p] \in Inums /\ child[p] \in Inums
  <2>1. ip[p] # 0 /\ child[p] # 0
    BY <1>1 DEF RefsSound, Reaching
  <2> QED
    BY <1>1, <2>1, DirTypes
<1>3. PICK k \in D!Names(ip[p]) : entries[ip[p]][k].inum = child[p] /\ entries[ip[p]][k].name = elem[p]
  BY <1>1 DEF FoundSound
<1>4. NameSound(ip[p], k)
  BY <1>2 DEF DirInv, TreeInv
<1>5. type[child[p]] # "free" /\ child[p] # D!Root
  BY <1>3, <1>4 DEF NameSound
<1>6. ip[p] # child[p]
  <2>1. PICK top \in Nat : \E r \in [Inums -> 0..top] :
            \A e \in Inums : \A j \in D!Names(e) : r[e] < r[entries[e][j].inum]
    BY DEF DirInv, Ranked
  <2>2. PICK r \in [Inums -> 0..top] :
            \A e \in Inums : \A j \in D!Names(e) : r[e] < r[entries[e][j].inum]
    BY <2>1
  <2>3. r[ip[p]] < r[child[p]] /\ r[ip[p]] \in Nat
    BY <1>2, <1>3, <2>2
  <2> QED
    BY <2>3
<1>7. ASSUME NEW j \in D!Matches(ip[p], elem[p])
      PROVE  j \in D!Names(ip[p]) /\ entries[ip[p]][j].inum = child[p]
  <2>1. j \in 1..Len(entries[ip[p]]) /\ entries[ip[p]][j].inum # 0 /\ entries[ip[p]][j].name = elem[p]
    BY DEF D!Matches
  <2>2. elem[p] \notin D!Fixed
    BY <1>1, <1>2, <1>3, EntryTypes
  <2>3. j \in D!Names(ip[p])
    BY <2>1, <2>2 DEF D!Names
  <2>4. OneEntry(ip[p], k, ip[p], j)
    BY <1>2, <2>3 DEF DirInv, TreeInv
  <2> QED
    BY <1>3, <2>1, <2>3, <2>4 DEF OneEntry
<1> QED
  BY <1>2, <1>5, <1>6, <1>7

LEMMA UnlinkHolds ==
    ASSUME DirInv, NEW p \in Procs, D!Unlink(p)
    PROVE  DirInv'
<1>1. /\ ~D!Halted /\ dpc[p] = "both" /\ type' = type /\ linked' = linked
      /\ path' = path /\ ip' = ip /\ child' = child /\ cwd' = cwd /\ elem' = elem
      /\ D!Unlock(ip[p])
  BY DEF D!Unlink, D!At
<1>2. PICK t : /\ dpc' = [dpc EXCEPT ![p] = t]
               /\ \/ t = "keep" /\ entries' = entries
                  \/ /\ t = "drop"
                     /\ \E k \in D!Matches(ip[p], elem[p]) :
                           entries' = [entries EXCEPT ![ip[p]][k].inum = 0]
  BY DEF D!Unlink, D!Goto
<1>3. RefsSound(p) /\ FoundSound(p) /\ DirTypeOK /\ TreeInv /\ Ranked
  BY <1>1 DEF DirInv
<1>4. PICK d, c \in Inums : d = ip[p] /\ c = child[p] /\ d # c /\ c # D!Root /\ type[c] # "free"
  BY <1>1, UnlinkEntry
<1>5. /\ entries' \in [Inums -> Seq(Entry)] /\ TreeInv' /\ Ranked'
      /\ \A e \in Inums \ {d} : entries'[e] = entries[e]
      /\ \A e \in Inums : \A j \in D!Names(e)' :
            /\ j \in D!Names(e) /\ entries'[e][j] = entries[e][j]
            /\ t = "drop" => entries'[e][j].inum # c
  <2>1. CASE t = "keep" /\ entries' = entries
    BY <1>1, <1>3, <2>1, TreeStays, NamesKept DEF DirTypeOK, Entry
  <2>2. CASE t = "drop" /\ \E k \in D!Matches(ip[p], elem[p]) :
                              entries' = [entries EXCEPT ![ip[p]][k].inum = 0]
    <3>1. PICK k \in D!Matches(ip[p], elem[p]) :
              entries' = [entries EXCEPT ![ip[p]][k].inum = 0]
      BY <2>2
    <3>2. k \in D!Names(d) /\ entries[d][k].inum = c
      BY <1>1, <1>4, UnlinkEntry
    <3>3. entries' = [entries EXCEPT ![d][k].inum = 0]
      BY <1>4, <3>1
    <3>4. /\ entries' \in [Inums -> Seq(Entry)] /\ TreeInv' /\ Ranked'
          /\ \A e \in Inums \ {d} : entries'[e] = entries[e]
          /\ NamesTaken(entries[d][k].inum)
      BY <1>1, <1>3, <3>2, <3>3, TreeForgets
    <3> QED
      BY <3>2, <3>4 DEF NamesTaken
  <2> QED
    BY <1>2, <2>1, <2>2
<1>6. /\ dholder' = [dholder EXCEPT ![d] = NoProc] /\ dpc'[p] = t /\ t \in {"keep", "drop"}
  BY <1>1, <1>2, <1>3, <1>4 DEF D!Unlock, DirTypeOK
<1>7. Moves(p)
  BY <1>1, <1>2, <1>3 DEF Moves, DirTypeOK
<1>8. DirTypeOK'
  <2>1. dpc' \in [Procs -> Standing] /\ dholder' \in [Inums -> Procs \cup {NoProc}]
    BY <1>2, <1>3, <1>6 DEF DirTypeOK, Standing, Reaching
  <2> QED
    BY <1>1, <1>3, <1>5, <2>1 DEF DirTypeOK, Standing, WithIp, Reaching, FileNames, Entry
<1>9. Holds(p) = {d, c} /\ Holds(p)' = {c}
  BY <1>1, <1>4, <1>6 DEF Holds, WithIp, WithChild
<1>10. (\A q \in Procs \ {p} : Holds(q)' = Holds(q)) => LocksHeld'
  <2>1. d \in Holds(p) /\ Holds(p)' = Holds(p) \ {d}
    BY <1>4, <1>9
  <2> QED
    BY <1>1, <1>6, <2>1, LockGiven
<1>11. ASSUME NEW q \in Procs \ {p} PROVE Spares(q)
  <2>1. RefsSound(q) /\ FoundSound(q)
    BY <1>1 DEF DirInv
  <2>2. dpc[q] \in {"victim", "both"} => entries'[ip[q]] = entries[ip[q]]
    <3> SUFFICES ASSUME dpc[q] \in {"victim", "both"} PROVE entries'[ip[q]] = entries[ip[q]]
      OBVIOUS
    <3>1. ip[q] # 0 /\ ip[q] \in Holds(q)
      BY <2>1 DEF RefsSound, Holds, WithIp
    <3>2. ip[q] \in Inums
      BY <1>3, <3>1, DirTypes
    <3>3. d \notin Holds(q)
      BY <1>1, <1>9, LocksApart
    <3> QED
      BY <1>5, <3>1, <3>2, <3>3
  <2>3. dpc[q] = "drop" => \A e \in Inums : \A j \in D!Names(e)' : entries'[e][j].inum # child[q]
    BY <1>5, <2>1 DEF FoundSound
  <2> QED
    BY <1>1, <2>2, <2>3 DEF Spares
<1>12. RefsSound(p)'
  BY <1>1, <1>3, <1>4, <1>6 DEF RefsSound, Reaching
<1>13. FoundSound(p)' /\ dpc'[p] # "panic"
  <2>1. t = "drop" => \A e \in Inums : \A j \in D!Names(e)' : entries'[e][j].inum # child'[p]
    BY <1>1, <1>4, <1>5
  <2> QED
    BY <1>1, <1>4, <1>6, <2>1 DEF FoundSound, D!Names, D!Fixed, D!Root
<1>14. \A q \in Procs \ {p} : Spares(q)
  BY <1>11
<1> QED
  BY <1>1, <1>5, <1>7, <1>8, <1>10, <1>12, <1>13, <1>14, StepHolds

LEMMA DropLinkHolds ==
    ASSUME DirInv, NEW p \in Procs, D!DropLink(p)
    PROVE  DirInv'
<1>1. /\ ~D!Halted /\ dpc[p] \in {"keep", "drop"} /\ type' = type /\ entries' = entries
      /\ path' = path /\ ip' = ip /\ child' = child /\ cwd' = cwd /\ elem' = elem
      /\ D!Unlock(child[p]) /\ dpc' = [dpc EXCEPT ![p] = "putchild"]
  BY DEF D!DropLink, D!Goto
<1>2. RefsSound(p) /\ FoundSound(p) /\ DirTypeOK /\ TreeInv /\ Ranked
  BY <1>1 DEF DirInv
<1>3. PICK c \in Inums : c = child[p]
  <2>1. child[p] # 0
    BY <1>1, <1>2 DEF RefsSound, Reaching
  <2> QED
    BY <1>2, <2>1, DirTypes
<1>4. PICK b \in BOOLEAN : b = (linked[c] /\ dpc[p] = "keep")
  OBVIOUS
<1>5. linked' = [linked EXCEPT ![c] = b]
  <2>1. linked' = [linked EXCEPT ![child[p]] = @ /\ dpc[p] = "keep"]
    BY DEF D!DropLink
  <2>2. [linked EXCEPT ![child[p]] = @ /\ dpc[p] = "keep"]
           = [linked EXCEPT ![child[p]] = (linked[child[p]] /\ dpc[p] = "keep")]
    OBVIOUS
  <2> QED
    BY <1>3, <1>4, <2>1, <2>2
<1>6. /\ c # D!Root \/ b = linked[c]
      /\ b # linked[c] => \A d \in Inums : \A k \in D!Names(d) : entries[d][k].inum # c
  <2>1. linked[c] \in BOOLEAN
    BY <1>2 DEF DirTypeOK
  <2>2. CASE dpc[p] = "keep"
    BY <1>4, <2>1, <2>2
  <2>3. CASE dpc[p] = "drop"
    BY <1>2, <1>3, <2>3 DEF FoundSound
  <2> QED
    BY <1>1, <2>2, <2>3
<1>7. TreeInv' /\ Ranked'
  BY <1>1, <1>2, <1>5, <1>6, TreeUnlinks
<1>8. dholder' = [dholder EXCEPT ![c] = NoProc] /\ dpc'[p] = "putchild"
  BY <1>1, <1>2, <1>3 DEF D!Unlock, DirTypeOK
<1>9. Moves(p)
  BY <1>1, <1>2 DEF Moves, DirTypeOK
<1>10. DirTypeOK'
  <2>1. /\ dpc' \in [Procs -> Standing] /\ dholder' \in [Inums -> Procs \cup {NoProc}]
        /\ linked' \in [Inums -> BOOLEAN]
    BY <1>1, <1>2, <1>5, <1>8 DEF DirTypeOK, Standing, Reaching
  <2> QED
    BY <1>1, <1>2, <2>1 DEF DirTypeOK, Standing, WithIp, Reaching, FileNames
<1>11. Holds(p) = {c} /\ Holds(p)' = {}
  BY <1>1, <1>3, <1>8 DEF Holds, WithIp, WithChild
<1>12. (\A q \in Procs \ {p} : Holds(q)' = Holds(q)) => LocksHeld'
  BY <1>1, <1>8, <1>11, LockGiven
<1>13. \A q \in Procs \ {p} : Spares(q)
  BY <1>1, SparesAll DEF DirInv
<1>14. RefsSound(p)'
  BY <1>1, <1>2, <1>8 DEF RefsSound, Reaching
<1>15. FoundSound(p)' /\ dpc'[p] # "panic"
  BY <1>8 DEF FoundSound
<1> QED
  BY <1>1, <1>7, <1>9, <1>10, <1>12, <1>13, <1>14, <1>15, StepHolds

-----------------------------------------------------------------------------
LEMMA DirInitially == D!Init => DirInv
<1> SUFFICES ASSUME D!Init PROVE DirInv
  OBVIOUS
<1>1. /\ type = [m \in Inums |-> IF m = D!Root THEN "dir" ELSE "free"]
      /\ linked = [m \in Inums |-> m = D!Root]
      /\ entries = [m \in Inums |-> IF m = D!Root THEN D!NewDir(D!Root, D!Root) ELSE <<>>]
      /\ dholder = [m \in Inums |-> NoProc]
      /\ dpc = [p \in Procs |-> "user"] /\ path = [p \in Procs |-> <<>>]
      /\ cwd = [p \in Procs |-> D!Root] /\ ip = [p \in Procs |-> 0]
      /\ child = [p \in Procs |-> 0] /\ elem = [p \in Procs |-> "/"]
  BY DEF D!Init
<1>2. D!Root \in Inums /\ D!Root # 0 /\ 0 \notin Inums /\ NoProc \notin Procs
  BY DirConstants
<1>3. PICK own \in Seq(Entry) :
          /\ own = D!NewDir(D!Root, D!Root) /\ Len(own) = 2
          /\ own[1] = [name |-> ".", inum |-> D!Root] /\ own[2] = [name |-> "..", inum |-> D!Root]
  <2>1. [name |-> ".", inum |-> D!Root] \in Entry /\ [name |-> "..", inum |-> D!Root] \in Entry
    BY <1>2 DEF Entry, FileNames
  <2>2. D!NewDir(D!Root, D!Root)
           = <<[name |-> ".", inum |-> D!Root], [name |-> "..", inum |-> D!Root]>>
    BY DEF D!NewDir
  <2>3. PICK x \in Entry, y \in Entry :
            x = [name |-> ".", inum |-> D!Root] /\ y = [name |-> "..", inum |-> D!Root]
    BY <2>1
  <2>4. /\ <<x, y>> \in Seq(Entry) /\ Len(<<x, y>>) = 2
        /\ <<x, y>>[1] = x /\ <<x, y>>[2] = y
    OBVIOUS
  <2>5. D!NewDir(D!Root, D!Root) = <<x, y>>
    BY <2>2, <2>3
  <2> QED
    BY <2>3, <2>4, <2>5
<1>4. /\ entries[D!Root] = own /\ \A d \in Inums \ {D!Root} : entries[d] = <<>> /\ type[d] = "free"
      /\ type[D!Root] = "dir" /\ linked[D!Root]
  BY <1>1, <1>2, <1>3
<1>5. DirTypeOK
  <2>1. entries \in [Inums -> Seq(Entry)]
    <3>1. <<>> \in Seq(Entry)
      OBVIOUS
    <3> QED
      BY <1>1, <1>3, <3>1
  <2>2. /\ type \in [Inums -> {"free", "dir", "file"}] /\ linked \in [Inums -> BOOLEAN]
        /\ dholder \in [Inums -> Procs \cup {NoProc}] /\ dpc \in [Procs -> Standing]
        /\ cwd \in [Procs -> Inums] /\ ip \in [Procs -> Inums \cup {0}]
        /\ child \in [Procs -> Inums \cup {0}]
    BY <1>1, <1>2 DEF Standing
  <2>3. path \in [Procs -> Seq(FileNames)] /\ elem \in [Procs -> FileNames]
    <3>1. <<>> \in Seq(FileNames) /\ "/" \in FileNames
      BY DEF FileNames
    <3> QED
      BY <1>1, <3>1
  <2> QED
    BY <2>1, <2>2, <2>3 DEF DirTypeOK, Entry
<1>6. \A d \in Inums : D!Names(d) = {}
  <2>1. D!Names(D!Root) = {}
    <3>1. \A k \in 1..Len(own) : k = 1 \/ k = 2
      BY <1>3
    <3>2. own[1].name \in D!Fixed /\ own[2].name \in D!Fixed
      BY <1>3 DEF D!Fixed
    <3> QED
      BY <1>4, <3>1, <3>2 DEF D!Names
  <2>2. ASSUME NEW d \in Inums \ {D!Root} PROVE D!Names(d) = {}
    <3>1. Len(entries[d]) = 0
      BY <1>4
    <3> QED
      BY <3>1 DEF D!Names
  <2> QED
    BY <2>1, <2>2
<1>7. \A d \in Inums : FormSound(d)
  <2>1. FormSound(D!Root)
    <3>1. \A l \in Nat : l = 2 => 3..l = {} /\ l >= 2
      OBVIOUS
    <3>2. 3..Len(entries[D!Root]) = {} /\ Len(entries[D!Root]) >= 2
      BY <1>3, <1>4, <3>1
    <3> QED
      BY <1>2, <1>3, <1>4, <3>2 DEF FormSound
  <2>2. \A d \in Inums \ {D!Root} : FormSound(d)
    BY <1>4 DEF FormSound
  <2> QED
    BY <2>1, <2>2
<1>8. TreeInv
  BY <1>4, <1>6, <1>7 DEF TreeInv
<1>9. Ranked
  <2>0. 0 \in 0..0
    OBVIOUS
  <2>1. PICK r \in [Inums -> 0..0] : r = [x \in Inums |-> 0]
    BY <2>0
  <2>2. \A d \in Inums : \A k \in D!Names(d) : r[d] < r[entries[d][k].inum]
    BY <1>6
  <2>3. 0 \in Nat
    OBVIOUS
  <2> QED
    BY <2>2, <2>3 DEF Ranked
<1>10. D!PanicsAtDotDot
  BY <1>1 DEF D!PanicsAtDotDot
<1>11. LocksHeld
  BY <1>1, <1>2 DEF LocksHeld, Holds, WithIp, WithChild
<1>12. \A p \in Procs : RefsSound(p) /\ FoundSound(p)
  BY <1>1, <1>2, <1>4 DEF RefsSound, FoundSound, Reaching
<1> QED
  BY <1>5, <1>8, <1>9, <1>10, <1>11, <1>12 DEF DirInv

LEMMA DirUnchanged == DirInv /\ UNCHANGED directories => DirInv'
<1> SUFFICES ASSUME DirInv, UNCHANGED directories PROVE DirInv'
  OBVIOUS
<1>1. /\ type' = type /\ linked' = linked /\ entries' = entries /\ dholder' = dholder
      /\ dpc' = dpc /\ path' = path /\ cwd' = cwd /\ ip' = ip /\ child' = child /\ elem' = elem
  BY DEF directories
<1>2. TreeInv' /\ Ranked'
  BY <1>1, TreeStays DEF DirInv
<1>3. DirTypeOK'
  BY <1>1 DEF DirInv, DirTypeOK, Standing, WithIp, Reaching, FileNames
<1>4. D!PanicsAtDotDot'
  BY <1>1 DEF DirInv, D!PanicsAtDotDot
<1>5. D!Halted' <=> D!Halted
  BY <1>1 DEF D!Halted
<1>6. LocksHeld' <=> LocksHeld
  BY <1>1 DEF LocksHeld, Holds, WithIp, WithChild
<1>7. \A p \in Procs : RefsSound(p)' <=> RefsSound(p)
  BY <1>1 DEF RefsSound, Reaching
<1>8. ASSUME NEW p \in Procs, FoundSound(p) PROVE FoundSound(p)'
  <2>1. \A d : D!Names(d)' = D!Names(d)
    BY <1>1 DEF D!Names
  <2> QED
    BY <1>1, <1>8, <2>1 DEF FoundSound, D!Root, D!Names, D!Fixed
<1> QED
  BY <1>2, <1>3, <1>4, <1>5, <1>6, <1>7, <1>8 DEF DirInv

LEMMA DirStep == DirInv /\ D!Next => DirInv'
<1> SUFFICES ASSUME DirInv, D!Next PROVE DirInv'
  OBVIOUS
<1>1. CASE D!Stopped
  <2>1. UNCHANGED directories
    BY <1>1 DEF D!Stopped, D!dvars, directories
  <2> QED
    BY <2>1, DirUnchanged
<1>2. ASSUME NEW p \in Procs, D!Step(p) PROVE DirInv'
  <2>1. CASE D!WalkLock(p) \/ D!Open(p) \/ D!LockParent(p) \/ D!LockVictim(p)
    BY <2>1, IlockSteps
  <2>2. CASE D!Call(p)
    BY <2>2, CallHolds
  <2>3. CASE D!WalkEnds(p)
    BY <2>3, WalkEndsHolds
  <2>4. CASE D!WalkFails(p) \/ D!CreateFails(p) \/ D!UnlinkFails(p)
    BY <2>4, FailHolds
  <2>5. CASE D!WalkStops(p)
    BY <2>5, WalkStopsHolds
  <2>6. CASE D!WalkFinds(p)
    BY <2>6, WalkFindsHolds
  <2>7. CASE D!WalkNext(p)
    BY <2>7, WalkNextHolds
  <2>8. CASE D!Unuse(p)
    BY <2>8, UnuseHolds
  <2>9. CASE D!Put(p) \/ D!PutChild(p)
    BY <2>9, PutHolds
  <2>10. CASE D!Create(p)
    BY <2>10, CreateHolds
  <2>11. CASE D!UnlinkFinds(p)
    BY <2>11, UnlinkFindsHolds
  <2>12. CASE D!Unlink(p)
    BY <2>12, UnlinkHolds
  <2>13. CASE D!DropLink(p)
    BY <2>13, DropLinkHolds
  <2> QED
    BY <1>2, <2>1, <2>2, <2>3, <2>4, <2>5, <2>6, <2>7, <2>8, <2>9, <2>10, <2>11, <2>12, <2>13
       DEF D!Step
<1> QED
  BY <1>1, <1>2 DEF D!Next

-----------------------------------------------------------------------------
(* Whoever waits and holds an inode waits for one below it.                *)
LEMMA WaitsBelow ==
    ASSUME DirInv, ~D!Halted, NEW p \in Procs, D!Blocked(p), NEW q \in Procs, D!Blocked(q),
           dholder[D!WaitsFor(p)] = q
    PROVE  /\ D!WaitsFor(p) \in Inums /\ D!WaitsFor(q) \in Inums
           /\ \E k \in D!Names(D!WaitsFor(p)) : entries[D!WaitsFor(p)][k].inum = D!WaitsFor(q)
<1>1. ASSUME NEW s \in Procs, D!WaitsFor(s) # 0
      PROVE  /\ D!WaitsFor(s) \in Inums
             /\ \/ dpc[s] \in {"walk", "open", "parent"} /\ D!WaitsFor(s) = ip[s]
                \/ dpc[s] = "victim" /\ D!WaitsFor(s) = child[s]
  <2>1. CASE dpc[s] \in {"walk", "open", "parent"}
    <3>1. D!WaitsFor(s) = ip[s]
      BY <2>1 DEF D!WaitsFor
    <3> QED
      BY <1>1, <2>1, <3>1, DirTypes DEF DirInv
  <2>2. CASE dpc[s] = "victim"
    <3>1. D!WaitsFor(s) = child[s]
      BY <2>2 DEF D!WaitsFor
    <3> QED
      BY <1>1, <2>2, <3>1, DirTypes DEF DirInv
  <2>3. CASE dpc[s] \notin {"walk", "open", "parent"} /\ dpc[s] # "victim"
    <3>1. D!WaitsFor(s) = 0
      BY <2>3 DEF D!WaitsFor
    <3> QED
      BY <1>1, <3>1
  <2> QED
    BY <2>1, <2>2, <2>3
<1>2. D!WaitsFor(p) # 0 /\ D!WaitsFor(q) # 0
  BY DEF D!Blocked
<1>3. D!WaitsFor(p) \in Inums /\ D!WaitsFor(q) \in Inums
  BY <1>1, <1>2
<1>4. D!WaitsFor(p) \in Holds(q)
  BY <1>3 DEF DirInv, LocksHeld
<1>5. dpc[q] = "victim" /\ D!WaitsFor(q) = child[q] /\ D!WaitsFor(p) = ip[q]
  BY <1>1, <1>2, <1>4 DEF Holds, WithIp, WithChild
<1>6. \E k \in D!Names(ip[q]) : entries[ip[q]][k].inum = child[q]
  BY <1>5 DEF DirInv, FoundSound
<1> QED
  BY <1>3, <1>5, <1>6

LEMMA NobodyWaitsInACircle ==
    ASSUME DirInv
    PROVE  D!NoWaitCycle
<1> SUFFICES ASSUME ~D!Halted, NEW S \in SUBSET Procs, S # {},
                    \A p \in S : D!Blocked(p) /\ dholder[D!WaitsFor(p)] \in S
             PROVE  FALSE
  BY DEF D!NoWaitCycle
<1>1. PICK top \in Nat : \E r \in [Inums -> 0..top] :
          \A d \in Inums : \A k \in D!Names(d) : r[d] < r[entries[d][k].inum]
  BY DEF DirInv, Ranked
<1>2. PICK r \in [Inums -> 0..top] :
          \A d \in Inums : \A k \in D!Names(d) : r[d] < r[entries[d][k].inum]
  BY <1>1
<1>3. ASSUME NEW p \in S
      PROVE  \E q \in S : /\ D!WaitsFor(p) \in Inums /\ D!WaitsFor(q) \in Inums
                          /\ r[D!WaitsFor(p)] < r[D!WaitsFor(q)]
  <2>1. PICK q \in S : q = dholder[D!WaitsFor(p)]
    OBVIOUS
  <2>2. PICK a, b : a = D!WaitsFor(p) /\ b = D!WaitsFor(q)
    OBVIOUS
  <2>3. a \in Inums /\ b \in Inums /\ \E k \in D!Names(a) : entries[a][k].inum = b
    BY <2>1, <2>2, WaitsBelow
  <2>4. r[a] < r[b]
    BY <1>2, <2>3
  <2> QED
    BY <2>2, <2>3, <2>4
<1>4. PICK H \in SUBSET Nat : H = {top - r[D!WaitsFor(p)] : p \in S}
  <2>1. ASSUME NEW p \in S PROVE top - r[D!WaitsFor(p)] \in Nat
    <3>1. D!WaitsFor(p) \in Inums
      BY <1>3
    <3>2. r[D!WaitsFor(p)] \in 0..top
      BY <3>1
    <3> QED
      BY <3>2
  <2> QED
    BY <2>1
<1>5. PICK a \in H : \A b \in H : a <= b
  <2>1. H # {}
    BY <1>4
  <2> QED
    BY <2>1, Least
<1>6. PICK p \in S : a = top - r[D!WaitsFor(p)]
  BY <1>4
<1>7. PICK q \in S : /\ D!WaitsFor(p) \in Inums /\ D!WaitsFor(q) \in Inums
                     /\ r[D!WaitsFor(p)] < r[D!WaitsFor(q)]
  BY <1>3
<1>8. top - r[D!WaitsFor(q)] \in H
  BY <1>4
<1>9. a <= top - r[D!WaitsFor(q)]
  BY <1>5, <1>8
<1>10. PICK x, y \in 0..top : x = r[D!WaitsFor(p)] /\ y = r[D!WaitsFor(q)]
  BY <1>7
<1> QED
  BY <1>6, <1>7, <1>9, <1>10

LEMMA TreeIsSound ==
    ASSUME DirInv
    PROVE  D!TreeSound
<1>1. ASSUME NEW d \in Inums, NEW e \in Inums, NEW j \in D!Names(d), NEW k \in D!Names(e)
      PROVE  /\ entries[d][j].inum = entries[e][k].inum => <<d, j>> = <<e, k>>
             /\ d = e /\ entries[d][j].name = entries[e][k].name => j = k
             /\ type[entries[d][j].inum] # "free"
             /\ type[entries[d][j].inum] = "dir" => D!Lookup(entries[d][j].inum, "..") = d
  <2>1. OneEntry(d, j, e, k) /\ NameSound(d, j)
    BY DEF DirInv, TreeInv
  <2>2. PICK m \in Inums : m = entries[d][j].inum
    BY EntryTypes DEF DirInv
  <2>3. type[m] # "free" /\ (type[m] = "dir" => entries[m][2].inum = d)
    BY <2>1, <2>2 DEF NameSound
  <2>4. type[m] = "dir" => D!Lookup(m, "..") = entries[m][2].inum
    BY LookupFixed DEF DirInv, TreeInv
  <2> QED
    BY <2>1, <2>2, <2>3, <2>4 DEF OneEntry
<1> QED
  BY <1>1 DEF D!TreeSound

-----------------------------------------------------------------------------
(* The arguments of exec *)

(* A recursion over the numbers from 0 on defines a function: here are its *)
(* beginnings, ...                                                         *)
Begins(g, f, m) == f = [k \in 0..m |-> IF k = 0 THEN 0 ELSE f[k - 1] - g[k]]

LEMMA BeginningExists ==
    ASSUME NEW g, NEW m \in Nat
    PROVE  \E f : Begins(g, f, m)
<1> DEFINE Bad == {j \in Nat : ~\E f : Begins(g, f, j)}
<1>1. ASSUME NEW a \in Bad, \A b \in Bad : a <= b PROVE FALSE
  <2>1. a \in Nat /\ ~\E f : Begins(g, f, a)
    OBVIOUS
  <2>2. CASE a = 0
    <3>1. Begins(g, [k \in 0..0 |-> 0], 0)
      BY DEF Begins
    <3> QED
      BY <2>1, <2>2, <3>1
  <2>3. CASE a # 0
    <3>1. a - 1 \in Nat /\ a - 1 \notin Bad
      BY <1>1, <2>1, <2>3
    <3>2. PICK f : Begins(g, f, a - 1)
      BY <3>1
    <3> DEFINE h == [k \in 0..a |-> IF k = 0 THEN 0 ELSE f[k - 1] - g[k]]
    <3>3. \A k \in 0..(a - 1) : f[k] = IF k = 0 THEN 0 ELSE f[k - 1] - g[k]
      BY <3>2 DEF Begins
    <3>4. \A k \in 0..(a - 1) : k \in 0..a /\ h[k] = f[k]
      BY <2>1, <3>3
    <3>5. \A k \in 0..a : k # 0 => k - 1 \in 0..(a - 1)
      BY <2>1
    <3>6. h = [k \in 0..a |-> IF k = 0 THEN 0 ELSE h[k - 1] - g[k]]
      BY <3>4, <3>5
    <3>7. Begins(g, h, a)
      BY <3>6 DEF Begins
    <3> QED
      BY <2>1, <3>7
  <2> QED
    BY <2>2, <2>3
<1>2. Bad \in SUBSET Nat
  OBVIOUS
<1>3. Bad = {}
  BY <1>1, <1>2, Least
<1> QED
  BY <1>3

(* ... of which each goes on where a shorter one ends.                     *)
LEMMA BeginningsAgree ==
    ASSUME NEW g, NEW f, NEW h, NEW m \in Nat, NEW k \in 0..m,
           Begins(g, f, m), Begins(g, h, k)
    PROVE  \A j \in 0..k : f[j] = h[j]
<1> DEFINE Bad == {j \in 0..k : f[j] # h[j]}
<1>1. ASSUME NEW a \in Bad, \A b \in Bad : a <= b PROVE FALSE
  <2>1. a \in 0..k /\ a \in 0..m /\ f[a] # h[a]
    OBVIOUS
  <2>2. f[a] = IF a = 0 THEN 0 ELSE f[a - 1] - g[a]
    BY <2>1 DEF Begins
  <2>3. h[a] = IF a = 0 THEN 0 ELSE h[a - 1] - g[a]
    BY <2>1 DEF Begins
  <2>4. CASE a = 0
    BY <2>1, <2>2, <2>3, <2>4
  <2>5. CASE a # 0
    <3>1. a - 1 \in 0..k /\ a - 1 \notin Bad
      BY <1>1, <2>1, <2>5
    <3> QED
      BY <2>1, <2>2, <2>3, <2>5, <3>1
  <2> QED
    BY <2>4, <2>5
<1>2. Bad \in SUBSET Nat
  OBVIOUS
<1>3. Bad = {}
  BY <1>1, <1>2, Least
<1> QED
  BY <1>3

LEMMA RecursionDefines ==
    ASSUME NEW g
    PROVE  \E f : f = [k \in Nat |-> IF k = 0 THEN 0 ELSE f[k - 1] - g[k]]
<1> DEFINE B(m) == CHOOSE f : Begins(g, f, m)
           F == [k \in Nat |-> B(k)[k]]
<1>1. \A m \in Nat : Begins(g, B(m), m)
  BY BeginningExists
<1> HIDE DEF B
<1>2. ASSUME NEW k \in Nat PROVE F[k] = IF k = 0 THEN 0 ELSE F[k - 1] - g[k]
  <2>1. B(k)[k] = IF k = 0 THEN 0 ELSE B(k)[k - 1] - g[k]
    BY <1>1 DEF Begins
  <2>2. ASSUME k # 0 PROVE B(k)[k - 1] = B(k - 1)[k - 1]
    <3>1. k - 1 \in Nat /\ k - 1 \in 0..k /\ k - 1 \in 0..(k - 1)
      BY <2>2
    <3>2. Begins(g, B(k), k) /\ Begins(g, B(k - 1), k - 1)
      BY <1>1, <3>1
    <3> QED
      BY <3>1, <3>2, BeginningsAgree
  <2> QED
    BY <2>1, <2>2
<1>3. F = [k \in Nat |-> IF k = 0 THEN 0 ELSE F[k - 1] - g[k]]
  BY <1>2
<1> QED
  BY <1>3

(* So the bytes that the strings take add up.                              *)
LEMMA NeedAdds ==
    \A k \in Nat : E!Need[k] = IF k = 0 THEN 0 ELSE E!Need[k - 1] - E!Down(-(Len(argv[k]) + 1))
<1> DEFINE g == [k \in Nat |-> E!Down(-(Len(argv[k]) + 1))]
<1>1. PICK f : f = [k \in Nat |-> IF k = 0 THEN 0 ELSE f[k - 1] - g[k]]
  BY RecursionDefines
<1>2. f = [k \in Nat |-> IF k = 0 THEN 0 ELSE f[k - 1] - E!Down(-(Len(argv[k]) + 1))]
  BY <1>1
<1>3. E!Need = [k \in Nat |-> IF k = 0 THEN 0 ELSE E!Need[k - 1] - E!Down(-(Len(argv[k]) + 1))]
  BY <1>2 DEF E!Need
<1> QED
  BY <1>3

(* Words are of four bytes.                                                *)
LEMMA DownIs ==
    ASSUME NEW a \in Int
    PROVE  /\ E!Down(a) \in Int /\ E!Down(a) <= a /\ a - E!Down(a) < 4 /\ E!Down(a) % 4 = 0
           /\ \A b \in Int : b % 4 = 0 => E!Down(b + a) = b + E!Down(a)
  BY DEF E!Down

(* The stack page begins at Stack, below it is the guard page.             *)
Stack == 2 * PGSIZE

LEMMA Pages ==
    /\ PGSIZE \in Nat /\ PGSIZE > 0 /\ Stack \in Nat /\ E!sz \in Nat /\ Stack = PGSIZE + PGSIZE
    /\ E!sz = Stack + PGSIZE /\ Stack % 4 = 0 /\ E!sz % 4 = 0
    /\ \A a \in Stack..(E!sz - 1) : E!User(a)
    /\ ~E!User(Stack - 1)
    /\ \A a \in Int : a % 4 = 0 /\ a > Stack => a >= Stack + 4
<1>1. PGSIZE \in Nat /\ PGSIZE > 0 /\ PGSIZE % 4 = 0
  BY ArgumentsAssumption
<1>2. Stack = PGSIZE + PGSIZE /\ E!sz = Stack + PGSIZE
  BY <1>1 DEF Stack, E!sz
<1>3. Stack % 4 = 0 /\ E!sz % 4 = 0
  BY <1>1, <1>2
<1>4. ASSUME NEW a \in Stack..(E!sz - 1) PROVE E!User(a)
  <2>1. a \div PGSIZE = 2
    BY <1>1, <1>2
  <2> QED
    BY <1>1, <1>2, <2>1 DEF E!User
<1>5. (Stack - 1) \div PGSIZE = 1
  BY <1>1, <1>2
<1>6. ~E!User(Stack - 1)
  BY <1>5 DEF E!User
<1>7. \A a \in Int : a % 4 = 0 /\ a > Stack => a >= Stack + 4
  BY <1>1, <1>2, <1>3
<1> QED
  BY <1>1, <1>2, <1>3, <1>4, <1>6, <1>7

(* What is copied to an address below sp has its last byte next to sp or at*)
(* most three bytes below; so all of it is the user's if it is above the   *)
(* guard page, and only then.                                              *)
LEMMA UserIffStack ==
    ASSUME NEW a \in Int, NEW b \in Int, NEW l \in Nat \ {0}, b \in Stack..E!sz, b % 4 = 0,
           a + l <= b, b - (a + l) < 4
    PROVE  (\A k \in 0..(l - 1) : E!User(a + k)) <=> a >= Stack
<1>1. ASSUME a >= Stack, NEW k \in 0..(l - 1) PROVE E!User(a + k)
  <2>1. a + k \in Stack..(E!sz - 1)
    BY <1>1, Pages
  <2> QED
    BY <2>1, Pages
<1>2. ASSUME a < Stack PROVE \E k \in 0..(l - 1) : ~E!User(a + k)
  <2>1. CASE b = Stack
    <3>1. E!User(a + (l - 1)) => a + (l - 1) < 0 \/ a + (l - 1) \in (Stack - 4)..(Stack - 1)
      BY <2>1, Pages
    <3>2. \A c \in (Stack - 4)..(Stack - 1) : ~E!User(c)
      <4>1. ASSUME NEW c \in (Stack - 4)..(Stack - 1) PROVE ~E!User(c)
        <5>1. c >= PGSIZE /\ c < PGSIZE + PGSIZE
          <6>1. PGSIZE >= 4
            BY ArgumentsAssumption
          <6> QED
            BY <6>1, Pages
        <5>2. c \div PGSIZE = 1
          BY <5>1, Pages
        <5> QED
          BY <5>2 DEF E!User
      <4> QED
        BY <4>1
    <3>3. \A c \in Int : c < 0 => ~E!User(c)
      BY Pages DEF E!User
    <3>4. a + (l - 1) \in Int /\ l - 1 \in 0..(l - 1)
      OBVIOUS
    <3> QED
      BY <3>1, <3>2, <3>3, <3>4
  <2>2. CASE b # Stack
    <3>1. b >= Stack + 4
      BY <2>2, Pages
    <3>2. Stack - 1 - a \in 0..(l - 1) /\ a + (Stack - 1 - a) = Stack - 1
      BY <1>2, <3>1, Pages
    <3> QED
      BY <3>2, Pages
  <2> QED
    BY <2>1, <2>2
<1>3. a >= Stack \/ a < Stack
  BY Pages
<1> QED
  BY <1>1, <1>2, <1>3

(* While strings are pushed: below sp nothing is written, and the strings  *)
(* are where ustack says.                                                  *)
StringAt(k) ==
    /\ ustack[k] \in Nat /\ ustack[k] >= sp /\ ustack[k] + Len(argv[k]) < E!sz
    /\ \A j \in 1..(Len(argv[k]) + 1) : mem[ustack[k] + j - 1] = Append(argv[k], 0)[j]

Pushing ==
    /\ argc \in 0..Len(argv) /\ argc <= MAXARG
    /\ sp \in Stack..E!sz /\ sp % 4 = 0
    /\ E!Need[argc] \in Int /\ sp = E!sz - E!Need[argc]
    /\ ustack \in Seq(Nat) /\ Len(ustack) = argc
    /\ \A a \in 0..(sp - 1) : mem[a] = 0
    /\ \A k \in 1..argc : StringAt(k)

ExecInv ==
    /\ argv \in Seq(Seq(Nat)) /\ epc \in {"push", "commit", "bad"}
    /\ mem \in [0..(E!sz - 1) -> Int]
    /\ epc = "push" => Pushing
    /\ E!MainGetsArguments /\ E!RefusesTooMuch

LEMMA Argument ==
    ASSUME argv \in Seq(Seq(Nat)), NEW k \in 1..Len(argv)
    PROVE  /\ argv[k] \in Seq(Nat) /\ Len(argv[k]) \in Nat
           /\ Append(argv[k], 0) \in Seq(Nat) /\ Len(Append(argv[k], 0)) = Len(argv[k]) + 1
           /\ E!Down(-(Len(argv[k]) + 1)) \in Int /\ E!Down(-(Len(argv[k]) + 1)) < 0
           /\ E!Down(-(Len(argv[k]) + 1)) % 4 = 0
<1>1. argv[k] \in Seq(Nat)
  OBVIOUS
<1>2. Len(argv[k]) \in Nat /\ Append(argv[k], 0) \in Seq(Nat) /\ Len(Append(argv[k], 0)) = Len(argv[k]) + 1
  BY <1>1
<1>3. PICK a \in Int : a = -(Len(argv[k]) + 1) /\ a < 0
  <2>1. PICK i \in Nat : i = Len(argv[k])
    BY <1>2
  <2>2. -(i + 1) \in Int /\ -(i + 1) < 0
    OBVIOUS
  <2> QED
    BY <2>1, <2>2
<1>4. E!Down(a) \in Int /\ E!Down(a) <= a /\ E!Down(a) % 4 = 0
  BY DownIs
<1>5. E!Down(a) < 0
  BY <1>3, <1>4
<1> QED
  BY <1>1, <1>2, <1>3, <1>4, <1>5

(* More arguments need no less.                                            *)
LEMMA NeedGrows ==
    ASSUME argv \in Seq(Seq(Nat)), NEW k \in 0..Len(argv), E!Need[k] \in Int
    PROVE  E!Need[Len(argv)] \in Int /\ E!Need[Len(argv)] >= E!Need[k]
<1> DEFINE Good(j) == E!Need[j] \in Int /\ E!Need[j] >= E!Need[k]
           Bad == {j \in k..Len(argv) : ~Good(j)}
<1>1. Len(argv) \in Nat
  OBVIOUS
<1>2. ASSUME NEW a \in Bad, \A b \in Bad : a <= b PROVE FALSE
  <2>1. a \in k..Len(argv) /\ ~Good(a) /\ a \in Nat /\ k \in Nat
    BY <1>1
  <2>2. a # k
    BY <2>1
  <2>3. a - 1 \in k..Len(argv) /\ a - 1 \notin Bad
    BY <1>1, <1>2, <2>1, <2>2
  <2>4. Good(a - 1)
    BY <2>3
  <2>5. E!Need[a] = E!Need[a - 1] - E!Down(-(Len(argv[a]) + 1))
    BY <2>1, <2>2, NeedAdds
  <2>6. E!Down(-(Len(argv[a]) + 1)) \in Int /\ E!Down(-(Len(argv[a]) + 1)) < 0
    BY <1>1, <2>1, <2>2, Argument
  <2> QED
    BY <2>1, <2>4, <2>5, <2>6
<1>3. Bad \in SUBSET Nat
  BY <1>1
<1>4. Bad = {}
  BY <1>2, <1>3, Least
<1>5. Len(argv) \in k..Len(argv)
  BY <1>1
<1> QED
  BY <1>4, <1>5

LEMMA ExecInitially == E!Init => ExecInv
<1> SUFFICES ASSUME E!Init PROVE ExecInv
  OBVIOUS
<1>1. /\ argv \in Seq(Seq(Nat)) /\ argc = 0 /\ sp = E!sz /\ ustack = <<>>
      /\ mem = [a \in 0..(E!sz - 1) |-> 0] /\ epc = "push"
  BY ArgumentsAssumption DEF E!Init
<1>2. E!Need[0] = 0
  BY NeedAdds
<1>3. Pushing
  BY <1>1, <1>2, Pages, ArgumentsAssumption DEF Pushing
<1>4. E!MainGetsArguments /\ E!RefusesTooMuch
  BY <1>1 DEF E!MainGetsArguments, E!RefusesTooMuch
<1> QED
  BY <1>1, <1>3, <1>4 DEF ExecInv

(* A string is copied below the others, or exec fails.                     *)
LEMMA PushKeeps ==
    ASSUME ExecInv, E!Push
    PROVE  ExecInv'
<1>1. /\ epc = "push" /\ argc < Len(argv) /\ argv' = argv /\ Pushing
      /\ argv \in Seq(Seq(Nat)) /\ mem \in [0..(E!sz - 1) -> Int]
  BY DEF E!Push, ExecInv
<1>2. /\ argc \in Nat /\ Len(argv) \in Nat /\ argc + 1 \in 1..Len(argv) /\ argc <= MAXARG /\ MAXARG \in Nat
      /\ sp \in Stack..E!sz /\ sp % 4 = 0 /\ sp \in Int
  <2>1. argc \in 0..Len(argv) /\ argc <= MAXARG /\ sp \in Stack..E!sz /\ sp % 4 = 0
    BY <1>1 DEF Pushing
  <2>2. Len(argv) \in Nat
    BY <1>1
  <2>3. argc \in Nat /\ argc + 1 \in 1..Len(argv)
    BY <1>1, <2>1, <2>2
  <2>4. sp \in Int
    BY <2>1, Pages
  <2> QED
    BY <1>1, <2>1, <2>2, <2>3, <2>4, ArgumentsAssumption
<1> DEFINE s == Append(argv[argc + 1], 0)
           l == Len(argv[argc + 1]) + 1
           to == E!Down(sp - Len(s))
<1>3. /\ s \in Seq(Nat) /\ Len(s) = l /\ l \in Nat \ {0}
  BY <1>1, <1>2, Argument, SMTT(30)
<1>4. to \in Int /\ to + l <= sp /\ sp - (to + l) < 4 /\ to % 4 = 0
  <2>1. sp - Len(s) \in Int
    BY <1>2, <1>3
  <2>2. to \in Int /\ to <= sp - Len(s) /\ (sp - Len(s)) - to < 4 /\ to % 4 = 0
    BY <2>1, DownIs
  <2> HIDE DEF to, s, l
  <2> QED
    BY <1>2, <1>3, <2>2
<1>5. E!Need[argc + 1] \in Int /\ to = E!sz - E!Need[argc + 1]
  <2>1. E!Need[argc + 1] = E!Need[argc] - E!Down(-l)
    BY <1>2, NeedAdds
  <2>2. PICK a \in Int : a = -l /\ sp - Len(s) = sp + a
    <3>1. PICK i \in Nat : i = l /\ Len(s) = i
      BY <1>3
    <3>2. -i \in Int /\ -i = -l /\ sp - Len(s) = sp + (-i)
      BY <1>2, <3>1
    <3> QED
      BY <3>2
  <2>3. E!Down(sp + a) = sp + E!Down(a) /\ E!Down(a) \in Int
    BY <1>2, DownIs
  <2>4. E!Need[argc] = E!sz - sp
    <3>1. sp = E!sz - E!Need[argc] /\ E!Need[argc] \in Int
      BY <1>1 DEF Pushing
    <3> QED
      BY <1>2, <3>1, Pages
  <2> QED
    <3>1. PICK d \in Int : d = E!Down(a)
      BY <2>3
    <3>2. PICK z \in Int : z = E!sz /\ E!Need[argc + 1] = (z - sp) - d
      BY <2>1, <2>2, <2>4, <3>1, Pages
    <3>3. to = sp + d
      BY <2>2, <2>3, <3>1
    <3>4. (z - sp) - d \in Int /\ sp + d = z - ((z - sp) - d)
      BY <1>2
    <3> QED
      BY <3>2, <3>3, <3>4
<1>6. E!Terminated(argv[argc + 1]) = s
  BY DEF E!Terminated
<1> HIDE DEF s, l, to
<1>7. (\A k \in 0..(Len(s) - 1) : E!User(to + k)) <=> to >= Stack
  BY <1>2, <1>3, <1>4, UserIffStack
<1>8. CASE argc >= MAXARG \/ to < Stack
  <2>1. epc' = "bad" /\ mem' = mem
    BY <1>4, <1>6, <1>7, <1>8, Pages DEF E!Push, s, to
  <2>2. Len(argv) > MAXARG \/ E!Need[Len(argv)] + 4 * (Len(argv) + 4) > PGSIZE
    <3>1. CASE argc >= MAXARG
      BY <1>2, <1>1, <3>1
    <3>2. CASE to < Stack
      <4>1. E!Need[Len(argv)] \in Int /\ E!Need[Len(argv)] >= E!Need[argc + 1]
        BY <1>1, <1>2, <1>5, NeedGrows
      <4>2. E!Need[argc + 1] > PGSIZE
        BY <1>4, <1>5, <3>2, Pages
      <4> QED
        BY <1>2, <1>5, <4>1, <4>2, Pages, SMTT(30)
    <3> QED
      BY <1>8, <3>1, <3>2
  <2>3. \A k : (E!Need[k])' = E!Need[k]
    BY <1>1 DEF E!Need, E!Down
  <2>4. (E!RefusesTooMuch)'
    BY <1>1, <2>2, <2>3 DEF E!RefusesTooMuch
  <2>5. (E!MainGetsArguments)'
    BY <2>1 DEF E!MainGetsArguments
  <2> QED
    BY <1>1, <2>1, <2>4, <2>5 DEF ExecInv, E!sz
<1>9. CASE ~(argc >= MAXARG \/ to < Stack)
  <2>1. /\ epc' = "push" /\ sp' = to /\ ustack' = Append(ustack, to) /\ argc' = argc + 1
        /\ mem' = [a \in 0..(E!sz - 1) |-> IF a \in to..(to + Len(s) - 1)
                                           THEN s[a - to + 1] ELSE mem[a]]
    <3>1. ~(argc >= MAXARG \/ \E k \in 0..(Len(s) - 1) : ~E!User(to + k))
      BY <1>4, <1>7, <1>9, Pages
    <3>2. E!Copyout(to, s) /\ ustack' = Append(ustack, to) /\ argc' = argc + 1 /\ epc' = epc
      BY <1>6, <3>1 DEF E!Push, s, to
    <3>3. \A k \in 0..(Len(s) - 1) : E!User(to + k)
      BY <3>1
    <3> QED
      BY <1>1, <3>2, <3>3 DEF E!Copyout
  <2>2. to >= Stack /\ argc < MAXARG /\ to \in Nat
    BY <1>2, <1>4, <1>9, Pages
  <2>3. \A k : (E!Need[k])' = E!Need[k]
    BY <1>1 DEF E!Need, E!Down
  <2>4. \A a \in 0..(E!sz - 1) : a \notin to..(to + l - 1) => mem'[a] = mem[a]
    BY <1>3, <2>1
  <2>5. \A j \in 1..l : mem'[to + j - 1] = s[j]
    <3> TAKE j \in 1..l
    <3>1. to + j - 1 \in 0..(E!sz - 1) /\ to + j - 1 \in to..(to + l - 1) /\ (to + j - 1) - to + 1 = j
      BY <1>2, <1>3, <1>4, <2>2, Pages
    <3> QED
      BY <1>3, <2>1, <3>1
  <2>6. mem' \in [0..(E!sz - 1) -> Int]
    <3>1. \A a \in to..(to + l - 1) : a - to + 1 \in 1..Len(s)
      BY <1>3, <1>4
    <3>2. \A a \in to..(to + l - 1) : s[a - to + 1] \in Int
      BY <1>3, <3>1
    <3> QED
      BY <1>1, <1>3, <2>1, <3>2
  <2>7. \A a \in 0..(to - 1) : mem'[a] = 0
    <3>1. \A a \in 0..(to - 1) : a \in 0..(sp - 1) /\ a \in 0..(E!sz - 1) /\ a \notin to..(to + l - 1)
      BY <1>2, <1>3, <1>4, <2>2, Pages
    <3> QED
      BY <1>1, <2>4, <3>1 DEF Pushing
  <2>8. /\ ustack' \in Seq(Nat) /\ Len(ustack') = argc + 1 /\ ustack'[argc + 1] = to
        /\ \A k \in 1..argc : ustack'[k] = ustack[k]
    BY <1>1, <2>1, <2>2, SMTT(30) DEF Pushing
  <2>9. ASSUME NEW k \in 1..(argc + 1) PROVE StringAt(k)'
    <3>1. CASE k = argc + 1
      <4>1. to + Len(argv[k]) < E!sz
        <5>1. to + l <= E!sz /\ to \in Int /\ E!sz \in Int
          BY <1>2, <1>3, <1>4, Pages
        <5>2. PICK i \in Nat : i = Len(argv[k]) /\ l = i + 1
          BY <1>1, <1>2, <3>1, Argument DEF l
        <5> QED
          BY <5>1, <5>2
      <4>2. \A j \in 1..(Len(argv[k]) + 1) : mem'[to + j - 1] = Append(argv[k], 0)[j]
        BY <2>5, <3>1 DEF s, l
      <4>3. ustack'[k] = to /\ to >= sp' /\ (E!sz)' = E!sz
        BY <1>4, <2>1, <2>8, <3>1 DEF E!sz
      <4> QED
        BY <1>1, <2>2, <4>1, <4>2, <4>3 DEF StringAt
    <3>2. CASE k # argc + 1
      <4>1. k \in 1..argc /\ k \in 1..Len(argv)
        BY <1>2, <3>2
      <4>2. StringAt(k) /\ Len(argv[k]) \in Nat
        BY <1>1, <4>1, Argument DEF Pushing
      <4>3. PICK u \in Nat, i \in Nat : /\ u = ustack[k] /\ i = Len(argv[k]) /\ u >= sp /\ u + i < E!sz
                                        /\ ustack'[k] = u
        BY <2>8, <4>1, <4>2 DEF StringAt
      <4>4. ASSUME NEW j \in 1..(Len(argv[k]) + 1)
            PROVE  mem'[u + j - 1] = Append(argv[k], 0)[j]
        <5>1. j \in Int /\ j >= 1 /\ j <= i + 1
          BY <4>3
        <5>2. PICK a \in Int : a = u + j - 1 /\ a >= sp /\ a >= 0 /\ a < E!sz
          <6>1. u >= sp /\ u + i < E!sz /\ sp \in Int /\ E!sz \in Int
            BY <1>2, <4>3, Pages
          <6>2. u + j - 1 \in Int /\ u + j - 1 >= u /\ u + j - 1 <= u + i
            BY <5>1
          <6> QED
            BY <6>1, <6>2
        <5>3. a \in 0..(E!sz - 1) /\ a \notin to..(to + l - 1)
          BY <1>2, <1>3, <1>4, <5>2, Pages
        <5>4. mem'[a] = mem[a]
          BY <2>4, <5>3
        <5>5. mem[ustack[k] + j - 1] = Append(argv[k], 0)[j]
          BY <4>2 DEF StringAt
        <5> QED
          BY <4>3, <5>2, <5>4, <5>5
      <4>5. u >= to /\ sp' = to /\ (E!sz)' = E!sz
        <5>1. u >= sp /\ to <= sp
          BY <1>2, <1>3, <1>4, <4>3
        <5> QED
          BY <1>2, <1>4, <2>1, <5>1 DEF E!sz
      <4>6. u >= sp' /\ u + Len(argv[k]) < (E!sz)'
        BY <4>3, <4>5
      <4> QED
        BY <1>1, <4>3, <4>4, <4>6 DEF StringAt
    <3> QED
      BY <3>1, <3>2
  <2>10. Pushing'
    <3>1. argc + 1 \in 0..Len(argv) /\ argc + 1 <= MAXARG
      BY <1>2, <2>2
    <3>2. to \in Stack..E!sz
      BY <1>2, <1>3, <1>4, <2>2, Pages
    <3> QED
      BY <1>1, <1>4, <1>5, <2>1, <2>3, <2>7, <2>8, <2>9, <3>1, <3>2 DEF Pushing, Stack, E!sz
  <2> QED
    BY <1>1, <2>1, <2>6, <2>10 DEF ExecInv, E!MainGetsArguments, E!RefusesTooMuch, E!sz
<1> QED
  BY <1>2, <1>4, <1>8, <1>9, Pages

LEMMA ExecUnchanged == ExecInv /\ UNCHANGED <<argv, argc, sp, ustack, mem, epc>> => ExecInv'
<1> SUFFICES ASSUME ExecInv, UNCHANGED <<argv, argc, sp, ustack, mem, epc>> PROVE ExecInv'
  OBVIOUS
<1>1. argv' = argv /\ argc' = argc /\ sp' = sp /\ ustack' = ustack /\ mem' = mem /\ epc' = epc
  OBVIOUS
<1>2. \A k : (E!Need[k])' = E!Need[k]
  BY <1>1 DEF E!Need, E!Down
<1>3. Pushing' <=> Pushing
  <2>1. Stack' = Stack /\ (E!sz)' = E!sz
    BY DEF Stack, E!sz
  <2>2. \A k : StringAt(k)' <=> StringAt(k)
    BY <1>1, <2>1 DEF StringAt
  <2>3. (E!Need[argc])' = E!Need[argc]
    BY <1>1 DEF E!Need, E!Down
  <2> QED
    BY <1>1, <2>1, <2>2, <2>3 DEF Pushing
<1>4. (E!MainGetsArguments)' <=> E!MainGetsArguments
  BY <1>1 DEF E!MainGetsArguments, E!At, E!Byte, E!Bytes, E!Fake, E!sz
<1>5. (E!RefusesTooMuch)' <=> E!RefusesTooMuch
  BY <1>1, <1>2 DEF E!RefusesTooMuch
<1> QED
  BY <1>1, <1>3, <1>4, <1>5 DEF ExecInv, E!sz

(* The words of ustack: the first is the fake return address, argc, argv,  *)
(* the strings' addresses and 0 follow.                                    *)
LEMMA BytesAre == \A w \in Int : E!Bytes(w) \in Seq(Int) /\ Len(E!Bytes(w)) = 4
<1> TAKE w \in Int
<1>1. /\ w % 256 \in Int /\ (w \div 256) % 256 \in Int /\ (w \div 65536) % 256 \in Int
      /\ (w \div 16777216) % 256 \in Int
  OBVIOUS
<1> QED
  BY <1>1 DEF E!Bytes

LEMMA FourBytes ==
    ASSUME NEW w \in Int, NEW j \in 1..4
    PROVE  E!Bytes(w)[j] \in Int
<1>1. PICK f \in Seq(Int) : f = E!Bytes(w) /\ Len(f) = 4
  BY BytesAre
<1>2. j \in 1..Len(f)
  BY <1>1
<1>3. f[j] \in Int
  BY <1>2, ElementOfSeq
<1> QED
  BY <1>1, <1>3

LEMMA FakeIs == E!Fake \in Seq(Int) /\ Len(E!Fake) = 4 /\ \A j \in 1..4 : E!Fake[j] = 255
<1>1. \A j \in 1..4 : j = 1 \/ j = 2 \/ j = 3 \/ j = 4
  OBVIOUS
<1> QED
  BY <1>1 DEF E!Fake

WordAt(f, a, w) == \A j \in 1..4 : f[a + j] = E!Bytes(w)[j]

LaidOut(f, words, c) ==
    /\ f \in Seq(Int) /\ Len(f) = 4 * c + 4 /\ \A j \in 1..4 : f[j] = 255
    /\ \A w \in 1..c : WordAt(f, 4 * w, words[w])

LEMMA BlockOf ==
    ASSUME NEW c \in Nat, NEW words, words \in Seq(Int), Len(words) = c
    PROVE  LaidOut(E!Fake \o [k \in 1..(4 * c) |-> E!Bytes(words[((k - 1) \div 4) + 1])[((k - 1) % 4) + 1]],
                   words, c)
<1> DEFINE g == [k \in 1..(4 * c) |-> E!Bytes(words[((k - 1) \div 4) + 1])[((k - 1) % 4) + 1]]
           f == E!Fake \o g
<1>1. ASSUME NEW w \in 1..c, NEW j \in 1..4
      PROVE  4 * w + j - 4 \in 1..(4 * c) /\ g[4 * w + j - 4] = E!Bytes(words[w])[j]
  <2>1. PICK k \in Int : k = 4 * w + j - 4 /\ k \in 1..(4 * c)
    OBVIOUS
  <2>2. ((k - 1) \div 4) + 1 = w /\ ((k - 1) % 4) + 1 = j
    BY <2>1
  <2>3. g[k] = E!Bytes(words[w])[j]
    BY <2>1, <2>2
  <2> QED
    BY <2>1, <2>3
<1>2. ASSUME NEW k \in 1..(4 * c) PROVE g[k] \in Int
  <2>1. PICK w \in Int : w = ((k - 1) \div 4) + 1 /\ w \in 1..c
    OBVIOUS
  <2>2. PICK j \in Int : j = ((k - 1) % 4) + 1 /\ j \in 1..4
    OBVIOUS
  <2>3. g[k] = E!Bytes(words[w])[j]
    BY <2>1, <2>2
  <2>4. words[w] \in Int
    BY <2>1
  <2> QED
    BY <2>2, <2>3, <2>4, FourBytes
<1>3. g \in Seq(Int) /\ Len(g) = 4 * c
  <2>1. g \in [1..(4 * c) -> Int]
    BY <1>2
  <2>2. 4 * c \in Nat
    OBVIOUS
  <2> HIDE DEF g
  <2>3. g \in Seq(Int)
    BY <2>1, <2>2
  <2> QED
    BY <2>1, <2>2, <2>3
<1>4. E!Fake \in Seq(Int) /\ Len(E!Fake) = 4 /\ \A j \in 1..4 : E!Fake[j] = 255
  BY FakeIs
<1> HIDE DEF g
<1>5. /\ f \in Seq(Int) /\ Len(f) = Len(E!Fake) + Len(g)
      /\ \A i \in 1..(Len(E!Fake) + Len(g)) : f[i] = IF i <= Len(E!Fake) THEN E!Fake[i] ELSE g[i - Len(E!Fake)]
  <2>1. g \in Seq(Int) /\ E!Fake \in Seq(Int)
    BY <1>3, <1>4
  <2> QED
    BY <2>1, ConcatProperties
<1>6. Len(f) = 4 * c + 4 /\ \A j \in 1..4 : f[j] = 255
  BY <1>3, <1>4, <1>5
<1>7. \A k \in 1..(4 * c) : f[k + 4] = g[k]
  <2> TAKE k \in 1..(4 * c)
  <2>1. k + 4 \in 1..(Len(E!Fake) + Len(g)) /\ ~(k + 4 <= Len(E!Fake)) /\ (k + 4) - Len(E!Fake) = k
    <3>1. Len(E!Fake) = 4 /\ Len(g) = 4 * c
      BY <1>3, <1>4
    <3> QED
      BY <3>1
  <2> HIDE DEF f
  <2> QED
    BY <1>5, <2>1
<1>8. ASSUME NEW w \in 1..c, NEW j \in 1..4 PROVE f[4 * w + j] = E!Bytes(words[w])[j]
  <2>1. PICK k \in Int : k = 4 * w + j - 4 /\ k + 4 = 4 * w + j
    OBVIOUS
  <2>2. k \in 1..(4 * c) /\ g[k] = E!Bytes(words[w])[j]
    BY <1>1, <2>1
  <2> QED
    BY <1>7, <2>1, <2>2
<1> QED
  BY <1>3, <1>4, <1>5, <1>6, <1>8 DEF g, LaidOut, WordAt

LEMMA BlockIs ==
    ASSUME argc \in Nat, sp \in Int, ustack \in Seq(Nat), Len(ustack) = argc
    PROVE  /\ E!Block \in Seq(Int) /\ Len(E!Block) = 4 * (argc + 4) /\ \A j \in 1..4 : E!Block[j] = 255
           /\ WordAt(E!Block, 4, argc) /\ WordAt(E!Block, 8, sp - (argc + 1) * 4)
           /\ WordAt(E!Block, 4 * (argc + 3), 0)
           /\ \A k \in 1..argc : WordAt(E!Block, 4 * (k + 2), ustack[k])
<1> DEFINE words == <<argc, sp - (argc + 1) * 4>> \o ustack \o <<0>>
           c == argc + 3
<1>1. words \in Seq(Int) /\ Len(words) = c /\ c \in Nat
  OBVIOUS
<1>2. words[1] = argc /\ words[2] = sp - (argc + 1) * 4 /\ words[c] = 0
  OBVIOUS
<1>3. \A k \in 1..argc : words[k + 2] = ustack[k]
  OBVIOUS
<1>4. E!Block = E!Fake \o [k \in 1..(4 * Len(words)) |-> E!Bytes(words[((k - 1) \div 4) + 1])[((k - 1) % 4) + 1]]
  BY DEF E!Block
<1> HIDE DEF words
<1>5. E!Block = E!Fake \o [k \in 1..(4 * c) |-> E!Bytes(words[((k - 1) \div 4) + 1])[((k - 1) % 4) + 1]]
  BY <1>1, <1>4
<1> HIDE DEF c
<1>6. LaidOut(E!Block, words, c)
  <2>1. LaidOut(E!Fake \o [k \in 1..(4 * c) |-> E!Bytes(words[((k - 1) \div 4) + 1])[((k - 1) % 4) + 1]],
                words, c)
    BY <1>1, BlockOf
  <2> QED
    BY <1>5, <2>1, Zenon
<1>7. c = argc + 3 /\ 4 * c + 4 = 4 * (argc + 4) /\ 1 \in 1..c /\ 2 \in 1..c /\ c \in 1..c
  BY DEF c
<1>8. \A w \in 1..c : WordAt(E!Block, 4 * w, words[w])
  BY <1>6 DEF LaidOut
<1>9. ASSUME NEW w \in 1..c, NEW a, NEW v, a = 4 * w, v = words[w] PROVE WordAt(E!Block, a, v)
  BY <1>8, <1>9, Zenon
<1>10. WordAt(E!Block, 4, argc) /\ WordAt(E!Block, 8, sp - (argc + 1) * 4)
  <2>1. 4 = 4 * 1 /\ 8 = 4 * 2
    OBVIOUS
  <2> QED
    BY <1>2, <1>7, <1>9, <2>1, Zenon
<1>11. WordAt(E!Block, 4 * (argc + 3), 0)
  BY <1>2, <1>7, <1>9, Zenon
<1>12. \A k \in 1..argc : WordAt(E!Block, 4 * (k + 2), ustack[k])
  <2> TAKE k \in 1..argc
  <2>1. k + 2 \in 1..c
    BY <1>7
  <2> QED
    BY <1>3, <1>9, <2>1, Zenon
<1>13. E!Block \in Seq(Int) /\ Len(E!Block) = 4 * (argc + 4) /\ \A j \in 1..4 : E!Block[j] = 255
  BY <1>6, <1>7 DEF LaidOut
<1> QED
  BY <1>13, <1>10, <1>11, <1>12

(* Then ustack is copied, and main runs, or exec fails.                    *)
LEMMA PushUstackKeeps ==
    ASSUME ExecInv, E!PushUstack
    PROVE  ExecInv'
<1>1. /\ epc = "push" /\ argc = Len(argv) /\ argv' = argv /\ Pushing /\ argc' = argc /\ ustack' = ustack
      /\ argv \in Seq(Seq(Nat)) /\ mem \in [0..(E!sz - 1) -> Int]
  BY DEF E!PushUstack, ExecInv
<1>2. /\ argc \in Nat /\ sp \in Int /\ sp >= Stack /\ sp <= E!sz /\ Stack \in Nat /\ E!sz \in Nat
      /\ E!sz = Stack + PGSIZE /\ PGSIZE \in Nat
  BY <1>1, Pages DEF Pushing
<1>3. /\ sp % 4 = 0 /\ E!Need[argc] \in Int /\ sp = E!sz - E!Need[argc]
      /\ ustack \in Seq(Nat) /\ Len(ustack) = argc
      /\ \A a \in 0..(sp - 1) : mem[a] = 0
  <2>1. argc \in 0..Len(argv)
    BY <1>1, <1>2
  <2> QED
    BY <1>1, <2>1 DEF Pushing
<1> DEFINE l == 4 * (argc + 4)
           to == sp - l
<1>4. E!Block \in Seq(Int) /\ Len(E!Block) = l
  BY <1>2, <1>3, BlockIs
<1>5. l \in Nat \ {0} /\ to \in Int /\ to + l = sp /\ to # sp /\ to = sp - (3 + argc + 1) * 4
  BY <1>2
<1>6. to % 4 = 0
  BY <1>2, <1>3
<1> HIDE DEF l, to
<1>7. E!Copyout(to, E!Block) /\ epc' = IF sp' = to THEN "commit" ELSE "bad"
  BY <1>5 DEF E!PushUstack
<1>8. (\A k \in 0..(Len(E!Block) - 1) : E!User(to + k)) <=> to >= Stack
  <2>1. to + l <= sp /\ sp - (to + l) < 4
    BY <1>2, <1>5
  <2>2. (\A k \in 0..(l - 1) : E!User(to + k)) <=> to >= Stack
    <3>1. sp \in Stack..E!sz /\ sp % 4 = 0
      BY <1>2, <1>3
    <3> QED
      BY <1>2, <1>5, <2>1, <3>1, UserIffStack
  <2> QED
    BY <1>4, <2>2
<1>9. CASE to < Stack
  <2>1. ~(to >= Stack)
    BY <1>5, <1>9, Pages
  <2>2. mem' = mem /\ sp' = sp
    BY <1>7, <1>8, <2>1 DEF E!Copyout
  <2>3. epc' = "bad"
    BY <1>5, <1>7, <2>2
  <2>4. E!Need[Len(argv)] + 4 * (Len(argv) + 4) > PGSIZE
    <3>1. PICK m \in Int : m = E!Need[argc] /\ sp = E!sz - m
      BY <1>3
    <3>2. m + l > PGSIZE
      BY <1>2, <1>5, <1>9, <3>1
    <3> QED
      BY <1>1, <3>1, <3>2 DEF l
  <2>5. (E!Need[Len(argv)])' = E!Need[Len(argv)]
    BY <1>1 DEF E!Need, E!Down
  <2>6. (E!RefusesTooMuch)'
    BY <1>1, <2>4, <2>5 DEF E!RefusesTooMuch
  <2>7. (E!MainGetsArguments)'
    BY <2>3 DEF E!MainGetsArguments
  <2> QED
    BY <1>1, <2>2, <2>3, <2>6, <2>7 DEF ExecInv, E!sz
<1>10. CASE to >= Stack
  <2>1. /\ mem' = [a \in 0..(E!sz - 1) |-> IF a \in to..(to + l - 1) THEN E!Block[a - to + 1] ELSE mem[a]]
        /\ sp' = to
    BY <1>4, <1>7, <1>8, <1>10 DEF E!Copyout
  <2>2. epc' = "commit"
    BY <1>7, <2>1
  <2>3. mem' \in [0..(E!sz - 1) -> Int]
    <3>1. \A a \in to..(to + l - 1) : a - to + 1 \in 1..Len(E!Block)
      BY <1>4, <1>5, SMTT(30)
    <3>2. \A a \in to..(to + l - 1) : E!Block[a - to + 1] \in Int
      BY <1>4, <3>1
    <3> QED
      BY <1>1, <2>1, <3>2
  <2>4. ASSUME NEW j \in 1..l PROVE to + j - 1 \in 0..(E!sz - 1) /\ mem'[to + j - 1] = E!Block[j]
    <3>1. to + j - 1 \in 0..(E!sz - 1) /\ to + j - 1 \in to..(to + l - 1) /\ (to + j - 1) - to + 1 = j
      BY <1>2, <1>5, <1>10
    <3> QED
      BY <2>1, <3>1
  <2>5. ASSUME NEW a \in 0..(E!sz - 1), a < to \/ a >= sp PROVE mem'[a] = mem[a]
    <3>1. a \notin to..(to + l - 1)
      BY <1>2, <1>5, <2>5
    <3> QED
      BY <2>1, <3>1
  <2>6. (E!MainGetsArguments)'
    <3>1. PICK t \in Nat, c \in Nat : t = to /\ argc = c
      BY <1>2, <1>5, <1>10
    <3>2. /\ c = Len(argv) /\ (Len(argv))' = c /\ sp' = t /\ l = 4 * (c + 4) /\ t + l = sp /\ t % 4 = 0
          /\ t >= Stack /\ (E!sz)' = E!sz
      BY <1>1, <1>5, <1>10, <1>6, <2>1, <3>1 DEF l, E!sz
    <3>3. ASSUME NEW j \in 1..(4 * (c + 4)) PROVE E!Byte(t + j - 1)' = E!Block[j]
      <4>1. t + j - 1 \in 0..(E!sz - 1) /\ mem'[t + j - 1] = E!Block[j]
        BY <2>4, <3>1, <3>2
      <4> QED
        BY <3>2, <4>1 DEF E!Byte
    <3> DEFINE Starts(a) == \A j \in 1..4 : E!Byte(t + a + j - 1)' = E!Block[a + j]
    <3>4. ASSUME NEW a \in 0..(4 * (c + 3)) PROVE Starts(a)
      <4> TAKE j \in 1..4
      <4>1. PICK k \in 1..(4 * (c + 4)) : k = a + j
        BY <3>1
      <4>2. t + a + j - 1 = t + k - 1
        BY <3>1, <4>1
      <4> QED
        BY <3>3, <4>1, <4>2
    <3>5. ASSUME NEW a \in 0..(4 * (c + 3)), NEW w \in Int, WordAt(E!Block, a, w)
          PROVE  E!At(t + a, E!Bytes(w))'
      <4>1. \A j \in 1..4 : E!Byte(t + a + j - 1)' = E!Bytes(w)[j]
        BY <3>4, <3>5 DEF WordAt
      <4>2. Len(E!Bytes(w)) = 4
        BY BytesAre
      <4> QED
        BY <4>1, <4>2 DEF E!At, E!Bytes
    <3> HIDE DEF Starts
    <3>6. /\ \A j \in 1..4 : E!Block[j] = 255
          /\ WordAt(E!Block, 4, c) /\ WordAt(E!Block, 8, t + 12) /\ WordAt(E!Block, 4 * (c + 3), 0)
          /\ \A k \in 1..c : WordAt(E!Block, 4 * (k + 2), ustack[k])
      <4>1. sp - (argc + 1) * 4 = t + 12
        BY <1>2, <3>1, <3>2
      <4>2. /\ \A j \in 1..4 : E!Block[j] = 255
            /\ WordAt(E!Block, 4, argc) /\ WordAt(E!Block, 8, sp - (argc + 1) * 4)
            /\ WordAt(E!Block, 4 * (argc + 3), 0)
            /\ \A k \in 1..argc : WordAt(E!Block, 4 * (k + 2), ustack[k])
        BY <1>2, <1>3, BlockIs
      <4> QED
        BY <3>1, <4>1, <4>2, Zenon
    <3>7. E!At(t, E!Fake)'
      <4>1. Len(E!Fake) = 4 /\ \A j \in 1..4 : E!Fake[j] = 255
        BY FakeIs
      <4>2. \A j \in 1..4 : E!Byte(t + j - 1)' = E!Fake[j]
        BY <3>1, <3>3, <3>6, <4>1
      <4>3. (E!Fake)' = E!Fake
        BY DEF E!Fake
      <4> QED
        BY <4>1, <4>2, <4>3 DEF E!At
    <3>8. E!At(t + 4, E!Bytes(c))' /\ E!At(t + 8, E!Bytes(t + 12))'
      <4>1. 4 \in 0..(4 * (c + 3)) /\ 8 \in 0..(4 * (c + 3)) /\ c \in Int /\ t + 12 \in Int
        BY <3>1
      <4> QED
        BY <3>5, <3>6, <4>1
    <3>9. ASSUME NEW k \in 1..c PROVE E!At(ustack[k], Append(argv[k], 0))' /\ ustack[k] \in Stack..(E!sz - 1)
      <4>1. StringAt(k)
        BY <1>1, <3>1 DEF Pushing
      <4>2. PICK u \in Nat, i \in Nat : u = ustack[k] /\ i = Len(argv[k]) /\ u >= sp /\ u + i < E!sz
        <5>1. k \in 1..Len(argv)
          BY <3>2
        <5> QED
          BY <1>1, <4>1, <5>1, Argument DEF StringAt
      <4>3. ASSUME NEW j \in 1..(i + 1) PROVE E!Byte(u + j - 1)' = Append(argv[k], 0)[j]
        <5>1. PICK a \in 0..(E!sz - 1) : a = u + j - 1 /\ a >= sp
          BY <1>2, <4>2, SMTT(30)
        <5>2. mem'[a] = mem[a]
          BY <2>5, <5>1
        <5>3. mem[a] = Append(argv[k], 0)[j]
          BY <4>1, <4>2, <5>1 DEF StringAt
        <5>4. E!Byte(a)' = mem'[a]
          BY <3>2, <5>1 DEF E!Byte
        <5> QED
          BY <5>1, <5>2, <5>3, <5>4
      <4>4. Len(Append(argv[k], 0)) = i + 1
        BY <1>1, <3>2, <4>2, Argument
      <4>5. E!At(u, Append(argv[k], 0))'
        BY <1>1, <4>3, <4>4 DEF E!At
      <4>6. u \in Stack..(E!sz - 1)
        BY <1>2, <4>2
      <4> QED
        BY <1>1, <4>2, <4>5, <4>6
    <3>10. ASSUME NEW k \in 1..c PROVE E!At(t + 8 + 4 * k, E!Bytes(ustack[k]))'
      <4>1. PICK a \in 0..(4 * (c + 3)) : a = 4 * (k + 2) /\ t + 8 + 4 * k = t + a
        BY <3>1
      <4>2. PICK u \in Int : u = ustack[k]
        BY <3>9
      <4>3. WordAt(E!Block, a, u)
        BY <3>6, <4>1, <4>2
      <4>4. E!At(t + a, E!Bytes(u))'
        BY <3>5, <4>3
      <4> QED
        BY <1>1, <4>1, <4>2, <4>4
    <3>11. E!At(t + 12 + 4 * c, E!Bytes(0))'
      <4>1. PICK a \in 0..(4 * (c + 3)) : a = 4 * (c + 3) /\ t + 12 + 4 * c = t + a
        BY <3>1
      <4>2. WordAt(E!Block, a, 0)
        BY <3>6, <4>1
      <4>3. E!At(t + a, E!Bytes(0))'
        BY <3>5, <4>2, SMTT(30)
      <4> QED
        BY <4>1, <4>3
    <3>12. \A a \in 0..(2 * PGSIZE - 1) : mem'[a] = 0
      <4> TAKE a \in 0..(2 * PGSIZE - 1)
      <4>1. a \in 0..(E!sz - 1) /\ a < to /\ a \in 0..(sp - 1)
        BY <1>2, <1>5, <1>10, Pages DEF Stack
      <4> QED
        BY <1>3, <2>5, <4>1
    <3>13. t >= 2 * PGSIZE
      BY <3>2 DEF Stack
    <3>14. ASSUME NEW k \in 1..c
           PROVE  \E a \in Stack..(E!sz - 1) : (E!At(t + 8 + 4 * k, E!Bytes(a)) /\ E!At(a, Append(argv[k], 0)))'
      <4>1. PICK u \in Stack..(E!sz - 1) : u = ustack[k]
        BY <3>9
      <4>2. E!At(t + 8 + 4 * k, E!Bytes(u))' /\ E!At(u, Append(argv[k], 0))'
        BY <1>1, <3>9, <3>10, <4>1
      <4> QED
        BY <4>2
    <3> QED
      BY <1>1, <1>6, <2>1, <3>1, <3>2, <3>7, <3>8, <3>11, <3>12, <3>13, <3>14
      DEF E!MainGetsArguments, Stack
  <2>7. (E!RefusesTooMuch)'
    BY <2>2 DEF E!RefusesTooMuch
  <2> QED
    BY <1>1, <2>2, <2>3, <2>6, <2>7 DEF ExecInv, E!sz
<1> QED
  BY <1>5, <1>9, <1>10, Pages

LEMMA ExecStep == ExecInv /\ E!Next => ExecInv'
<1> SUFFICES ASSUME ExecInv, E!Next PROVE ExecInv'
  OBVIOUS
<1>1. CASE E!Push
  BY <1>1, PushKeeps
<1>2. CASE E!PushUstack
  BY <1>2, PushUstackKeeps
<1>3. CASE E!Over
  BY <1>3, ExecUnchanged DEF E!Over, E!evars
<1> QED
  BY <1>1, <1>2, <1>3 DEF E!Next

-----------------------------------------------------------------------------
(* One part alone moves: the others have their invariants to spare.        *)

KernelInv ==
    /\ part = "content" => ContentInv
    /\ part = "directories" => DirInv
    /\ part = "clock" => ClockInv
    /\ part = "sleep" => SleepInv
    /\ part = "exec" => ExecInv

vars == <<part, content, directories, clock, sleep, exec>>

LEMMA KernelInitially == Init => KernelInv
<1> SUFFICES ASSUME Init PROVE KernelInv
  OBVIOUS
<1>1. /\ C!Init /\ D!Init /\ (part = "clock" => R!Init) /\ (part = "sleep" => T!Init)
      /\ (part = "exec" => E!Init)
  BY DEF Init
<1> QED
  BY <1>1, ContentInitially, DirInitially, ClockInitially, SleepInitially, ExecInitially DEF KernelInv

LEMMA ContentPart == KernelInv /\ [Next]_vars => (part = "content" => ContentInv)'
<1> SUFFICES ASSUME KernelInv, [Next]_vars, part' = "content" PROVE ContentInv'
  OBVIOUS
<1>1. part' = part
  BY DEF Next, vars
<1>2. ContentInv
  BY <1>1 DEF KernelInv
<1>3. CASE C!Next
  BY <1>2, <1>3, ContentStep
<1>4. CASE UNCHANGED content
  BY <1>2, <1>4, ContentUnchanged DEF content
<1> QED
  BY <1>1, <1>3, <1>4 DEF Next, vars

LEMMA DirectoriesPart == KernelInv /\ [Next]_vars => (part = "directories" => DirInv)'
<1> SUFFICES ASSUME KernelInv, [Next]_vars, part' = "directories" PROVE DirInv'
  OBVIOUS
<1>1. part' = part
  BY DEF Next, vars
<1>2. DirInv
  BY <1>1 DEF KernelInv
<1>3. CASE D!Next
  BY <1>2, <1>3, DirStep
<1>4. CASE UNCHANGED directories
  BY <1>2, <1>4, DirUnchanged
<1> QED
  BY <1>1, <1>3, <1>4 DEF Next, vars

LEMMA ClockPart == KernelInv /\ [Next]_vars => (part = "clock" => ClockInv)'
<1> SUFFICES ASSUME KernelInv, [Next]_vars, part' = "clock" PROVE ClockInv'
  OBVIOUS
<1>1. part' = part
  BY DEF Next, vars
<1>2. ClockInv
  BY <1>1 DEF KernelInv
<1>3. CASE R!Next
  BY <1>2, <1>3, ClockStep
<1>4. CASE UNCHANGED clock
  <2>1. /\ second' = second /\ year' = year /\ uip' = uip /\ bcd' = bcd /\ rpc' = rpc
        /\ t1' = t1 /\ t2' = t2 /\ shown' = shown /\ updates' = updates
    BY <1>4 DEF clock
  <2>2. PICK s, u, y, d, z, e, x \in Nat : s < Seconds /\ Reads(s, u, y, d, z, e, x)
    BY <1>2 DEF ClockInv
  <2>3. Counted' = Counted
    BY <2>1 DEF Counted
  <2>4. CameRound(s, d)' <=> CameRound(s, d)
    BY <2>3 DEF CameRound, After
  <2>5. \A v : R!Encode(v)' = R!Encode(v)
    BY <2>1 DEF R!Encode
  <2>6. Reads(s, u, y, d, z, e, x)'
    BY <2>1, <2>2, <2>3, <2>4, <2>5 DEF Reads, First, Next1, Quiet, Again, Next2, After
  <2>7. \E a, b, c, f, g, h, k \in Nat : a < Seconds /\ Reads(a, b, c, f, g, h, k)'
    BY <2>2, <2>6
  <2> QED
    <3>1. ClockTypeOK'
      BY <1>2, <2>1 DEF ClockInv, ClockTypeOK
    <3>2. R!TimeWasShown'
      BY <1>2, <2>1 DEF ClockInv, R!TimeWasShown
    <3>3. (uip = "no" => <<second, year>> \in shown)'
      BY <1>2, <2>1 DEF ClockInv
    <3> QED
      BY <2>7, <3>1, <3>2, <3>3 DEF ClockInv
<1> QED
  BY <1>1, <1>3, <1>4 DEF Next, vars

LEMMA SleepPart == KernelInv /\ [Next]_vars => (part = "sleep" => SleepInv)'
<1> SUFFICES ASSUME KernelInv, [Next]_vars, part' = "sleep" PROVE SleepInv'
  OBVIOUS
<1>1. part' = part
  BY DEF Next, vars
<1>2. SleepInv
  BY <1>1 DEF KernelInv
<1>3. CASE T!Next
  BY <1>2, <1>3, SleepStep
<1>4. CASE UNCHANGED sleep
  BY <1>2, <1>4 DEF sleep, SleepInv, InStep, T!Due
<1> QED
  BY <1>1, <1>3, <1>4 DEF Next, vars

LEMMA ExecPart == KernelInv /\ [Next]_vars => (part = "exec" => ExecInv)'
<1> SUFFICES ASSUME KernelInv, [Next]_vars, part' = "exec" PROVE ExecInv'
  OBVIOUS
<1>1. part' = part
  BY DEF Next, vars
<1>2. ExecInv
  BY <1>1 DEF KernelInv
<1>3. CASE E!Next
  BY <1>2, <1>3, ExecStep
<1>4. CASE UNCHANGED exec
  BY <1>2, <1>4, ExecUnchanged DEF exec
<1> QED
  BY <1>1, <1>3, <1>4 DEF Next, vars

LEMMA KernelStep == KernelInv /\ [Next]_vars => KernelInv'
  BY ContentPart, DirectoriesPart, ClockPart, SleepPart, ExecPart DEF KernelInv

LEMMA KernelHolds == Spec => []KernelInv
  BY KernelInitially, KernelStep, PTL DEF Spec, vars

LEMMA KernelSound ==
    KernelInv => BlocksSound /\ ContentSound /\ DirectoriesSound /\ TimeSound /\ ArgumentsSound
<1> SUFFICES ASSUME KernelInv
             PROVE  BlocksSound /\ ContentSound /\ DirectoriesSound /\ TimeSound /\ ArgumentsSound
  OBVIOUS
<1>1. BlocksSound
  BY BlocksAreOwnedOnce, ContentIsSound DEF KernelInv, BlocksSound
<1>2. ContentSound
  BY ContentIsSound DEF KernelInv, ContentSound
<1>3. DirectoriesSound
  BY NobodyWaitsInACircle, TreeIsSound DEF KernelInv, DirInv, DirectoriesSound
<1>4. TimeSound
  BY SleepProperty DEF KernelInv, ClockInv, TimeSound
<1>5. ArgumentsSound
  BY DEF KernelInv, ExecInv, ArgumentsSound
<1> QED
  BY <1>1, <1>2, <1>3, <1>4, <1>5

(* A block that is marked has one owner, and bfree never finds one free    *)
(* (fs.c: balloc, bfree, bmap, itrunc), whatever the inodes, the blocks and*)
(* the processes that work on them.                                        *)
THEOREM BlocksHaveOneOwner == Spec => []BlocksSound
  BY KernelHolds, KernelSound, PTL

(* Between calls a file has the bytes that were written to it, in memory   *)
(* and by its dinode, and readi returns them (fs.c: writei, readi, itrunc).*)
THEOREM FilesKeepTheirContent == Spec => []ContentSound
  BY KernelHolds, KernelSound, PTL

(* No processes wait for each other's inodes in a circle, every name leads *)
(* to an inode of its own that is not free, and only who came by ".." finds*)
(* one freed (fs.c: namex, dirlookup, dirlink; sysfile.c: create, unlink). *)
THEOREM DirectoriesStaySound == Spec => []DirectoriesSound
  BY KernelHolds, KernelSound, PTL

(* cmostime returns a time that the clock has shown (lapic.c), and sleep   *)
(* ends when its ticks have passed, or for who is killed (sysproc.c).      *)
THEOREM TimesAreKept == Spec => []TimeSound
  BY KernelHolds, KernelSound, PTL

(* The new program finds its arguments whole and where it looks for them,  *)
(* and exec fails on them only when they are too many or longer than the   *)
(* stack page (exec.c: exec; vm.c: copyout), whatever the arguments and the*)
(* size of a page.                                                         *)
THEOREM MainFindsItsArguments == Spec => []ArgumentsSound
  BY KernelHolds, KernelSound, PTL
=============================================================================

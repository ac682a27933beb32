------------------------------ MODULE PipeProofs ------------------------------
(***************************************************************************)
(* Proofs about Pipe.tla, for any number of readers and writers and any    *)
(* pipe size: PipeInv is inductive, the invariants the runs check follow   *)
(* from it, and Pipe implements ByteStream for counters of any width that  *)
(* PIPESIZE divides.                                                       *)
(***************************************************************************)
EXTENDS Pipe, SequenceTheorems, TLAPS

(* The unsigned counters: the pipe is empty at distance 0, full at         *)
(* distance PipeSize, and Inc moves the distance by one, also when a       *)
(* counter wraps.                                                          *)
LEMMA CountTests ==
    ASSUME TypeOK
    PROVE  /\ Empty <=> Count = 0
           /\ Full <=> Count = PipeSize
  BY PipeAssumption DEF TypeOK, Empty, Full, Plus, Count

LEMMA CountUp ==
    ASSUME TypeOK, ~Full, nwrite' = Inc(nwrite), nread' = nread
    PROVE  nwrite' \in 0..(W - 1) /\ Count' = Count + 1 /\ Count' \in 0..PipeSize
<1>1. nwrite' \in 0..(W - 1)
  BY PipeAssumption DEF TypeOK, Inc
<1>2. Count < PipeSize
  BY CountTests, PipeAssumption DEF TypeOK
<1>3. Count' = Count + 1
  BY <1>2, PipeAssumption DEF TypeOK, Inc, Count
<1> QED
  BY <1>1, <1>2, <1>3, PipeAssumption DEF TypeOK

LEMMA CountDown ==
    ASSUME TypeOK, ~Empty, nread' = Inc(nread), nwrite' = nwrite
    PROVE  nread' \in 0..(W - 1) /\ Count' = Count - 1 /\ Count' \in 0..PipeSize
<1>1. nread' \in 0..(W - 1)
  BY PipeAssumption DEF TypeOK, Inc
<1>2. Count > 0
  BY CountTests, PipeAssumption DEF TypeOK
<1>3. Count' = Count - 1
  BY <1>2, PipeAssumption DEF TypeOK, Inc, Count
<1> QED
  BY <1>1, <1>2, <1>3, PipeAssumption DEF TypeOK

-----------------------------------------------------------------------------
(* The types, in three parts: the ring, the program counters, the calls. *)

RingTyped ==
    /\ data \in [0..(PipeSize - 1) -> Bytes]
    /\ nread \in 0..(W - 1) /\ nwrite \in 0..(W - 1)
    /\ Count \in 0..PipeSize

CodesTyped ==
    /\ pc \in [Procs -> WriterCodes \cup ReaderCodes \cup CommonCodes]
    /\ \A r \in Readers : pc[r] \notin WriterCodes
    /\ \A w \in Writers : pc[w] \notin ReaderCodes

CallsTyped ==
    /\ readopen \in BOOLEAN /\ writeopen \in BOOLEAN /\ freed \in BOOLEAN
    /\ lock \in Procs \cup {NoProc}
    /\ holders \subseteq Procs /\ eof \subseteq Readers
    /\ n \in [Procs -> Nat]
    /\ i \in [Procs -> Nat] /\ \A p \in Procs : i[p] <= n[p]
    /\ killed \in [Procs -> BOOLEAN]
    /\ writes \in [Writers -> 0..MaxWrites]

LEMMA TypeParts ==
    ASSUME PipeInv
    PROVE  TypeOK /\ RingTyped /\ CodesTyped /\ CallsTyped
BY DEF PipeInv, TypeOK, RingTyped, CodesTyped, CallsTyped

LEMMA TypePartsNext ==
    ASSUME RingTyped', CodesTyped', CallsTyped'
    PROVE  TypeOK'
BY DEF TypeOK, RingTyped, CodesTyped, CallsTyped

(* pipealloc *)
LEMMA InitInv == Init => PipeInv
<1> SUFFICES ASSUME Init PROVE PipeInv
  OBVIOUS
<1> USE PipeAssumption DEF Init
<1>1. TypeOK
  <2>1. data \in [0..(PipeSize - 1) -> Bytes]
    OBVIOUS
  <2>2. nread \in 0..(W - 1) /\ nwrite \in 0..(W - 1) /\ Count \in 0..PipeSize
    BY DEF Count
  <2>3. /\ pc \in [Procs -> WriterCodes \cup ReaderCodes \cup CommonCodes]
        /\ \A r \in Readers : pc[r] \notin WriterCodes
        /\ \A w \in Writers : pc[w] \notin ReaderCodes
    BY DEF CommonCodes, WriterCodes, ReaderCodes, Procs
  <2>4. /\ n \in [Procs -> Nat] /\ i \in [Procs -> Nat]
        /\ \A p \in Procs : i[p] <= n[p]
        /\ killed \in [Procs -> BOOLEAN]
        /\ writes \in [Writers -> 0..MaxWrites]
    OBVIOUS
  <2>5. /\ readopen \in BOOLEAN /\ writeopen \in BOOLEAN /\ freed \in BOOLEAN
        /\ lock \in Procs \cup {NoProc}
        /\ holders \subseteq Procs /\ eof \subseteq Readers
    OBVIOUS
  <2> QED
    BY <2>1, <2>2, <2>3, <2>4, <2>5 DEF TypeOK
<1>2. LockHeld
  BY DEF LockHeld
<1>3. EndsOpen
  BY DEF EndsOpen, Keeps, Procs
<1>4. AboutToSleep /\ SleepReason
  BY DEF AboutToSleep, SleepReason, Procs
<1>5. NoUseAfterFree
  BY DEF NoUseAfterFree
<1> QED
  BY <1>1, <1>2, <1>3, <1>4, <1>5 DEF PipeInv

(* WriteCall *)
LEMMA WriteCallStep ==
    ASSUME PipeInv, NEW w \in Writers, NEW size \in Sizes, WriteCall(w, size)
    PROVE  PipeInv'
<1> USE PipeAssumption DEF WriteCall, pipe
<1>1. TypeOK'
  <2>1. RingTyped'
    BY TypeParts DEF RingTyped, Count
  <2>2. CodesTyped'
    BY TypeParts DEF CodesTyped, Procs, CommonCodes, WriterCodes, ReaderCodes
  <2>3. CallsTyped'
    BY TypeParts DEF CallsTyped, Procs
  <2> QED
    BY <2>1, <2>2, <2>3, TypePartsNext
<1>2. LockHeld'
  BY DEF PipeInv, TypeOK, LockHeld, Procs
<1>3. EndsOpen'
  BY DEF PipeInv, TypeOK, LockHeld, EndsOpen, Keeps, Procs, Sharers
<1>4. AboutToSleep'
  BY DEF PipeInv, TypeOK, LockHeld, AboutToSleep, Procs, Full, Empty
<1>5. SleepReason'
  BY DEF PipeInv, TypeOK, LockHeld, AboutToSleep, SleepReason, Procs, Full, Empty
<1>6. NoUseAfterFree'
  BY DEF PipeInv, TypeOK, NoUseAfterFree, Procs
<1> QED
  BY <1>1, <1>2, <1>3, <1>4, <1>5, <1>6 DEF PipeInv

(* WriteByte *)
LEMMA WriteByteStep ==
    ASSUME PipeInv, NEW w \in Writers, NEW b \in Bytes, WriteByte(w, b)
    PROVE  PipeInv'
<1> USE PipeAssumption DEF WriteByte, pipe
<1>1. TypeOK'
  <2>1. nwrite' \in 0..(W - 1) /\ Count' \in 0..PipeSize
    BY CountUp DEF PipeInv
  <2>2. data' \in [0..(PipeSize - 1) -> Bytes]
    BY DEF PipeInv, TypeOK
  <2>3. RingTyped'
    BY <2>1, <2>2, TypeParts DEF RingTyped
  <2>4. CodesTyped'
    BY TypeParts DEF CodesTyped, Procs
  <2>5. CallsTyped'
    BY TypeParts DEF CallsTyped, Procs
  <2> QED
    BY <2>3, <2>4, <2>5, TypePartsNext
<1>2. LockHeld'
  BY DEF PipeInv, TypeOK, LockHeld, Procs
<1>3. EndsOpen'
  BY DEF PipeInv, TypeOK, LockHeld, EndsOpen, Keeps, Procs, Sharers
<1>4. AboutToSleep'
  BY DEF PipeInv, TypeOK, LockHeld, AboutToSleep, Procs, Full, Empty
<1>5. SleepReason'
  BY DEF PipeInv, TypeOK, LockHeld, AboutToSleep, SleepReason, Procs, Full, Empty
<1>6. NoUseAfterFree'
  BY DEF PipeInv, TypeOK, NoUseAfterFree, Procs
<1> QED
  BY <1>1, <1>2, <1>3, <1>4, <1>5, <1>6 DEF PipeInv

(* WriteFails *)
LEMMA WriteFailsStep ==
    ASSUME PipeInv, NEW w \in Writers, WriteFails(w)
    PROVE  PipeInv'
<1> USE PipeAssumption DEF WriteFails, Return, pipe
<1>1. TypeOK'
  <2>1. RingTyped'
    BY TypeParts DEF RingTyped, Count
  <2>2. CodesTyped'
    BY TypeParts DEF CodesTyped, Procs, CommonCodes, WriterCodes, ReaderCodes
  <2>3. CallsTyped'
    BY TypeParts DEF CallsTyped, Procs
  <2> QED
    BY <2>1, <2>2, <2>3, TypePartsNext
<1>2. LockHeld'
  BY DEF PipeInv, TypeOK, LockHeld, Procs
<1>3. EndsOpen'
  BY DEF PipeInv, TypeOK, LockHeld, EndsOpen, Keeps, Procs, Sharers
<1>4. AboutToSleep'
  BY DEF PipeInv, TypeOK, LockHeld, AboutToSleep, Procs, Full, Empty
<1>5. SleepReason'
  <2>1. CASE killed[w]
    BY <2>1
    DEF PipeInv, TypeOK, LockHeld, AboutToSleep, SleepReason, Procs, Full, Empty
  <2>2. CASE ~readopen
    <3>1. \A p \in Procs : pc[p] # "r_asleep" /\ pc[p] # "w_asleep"
      BY <2>2 DEF PipeInv, TypeOK, EndsOpen, Keeps, SleepReason, Procs,
         WriterCodes, ReaderCodes, CommonCodes
    <3> QED
      BY <3>1 DEF PipeInv, TypeOK, SleepReason, Procs
  <2> QED
    BY <2>1, <2>2
<1>6. NoUseAfterFree'
  BY DEF PipeInv, TypeOK, NoUseAfterFree, Procs
<1> QED
  BY <1>1, <1>2, <1>3, <1>4, <1>5, <1>6 DEF PipeInv

(* WriteBlocks *)
LEMMA WriteBlocksStep ==
    ASSUME PipeInv, NEW w \in Writers, WriteBlocks(w)
    PROVE  PipeInv'
<1> USE PipeAssumption DEF WriteBlocks, WakeReaders, Awakened, pipe
<1>1. TypeOK'
  <2>1. RingTyped'
    BY TypeParts DEF RingTyped, Count
  <2>2. CodesTyped'
    BY TypeParts DEF CodesTyped, Procs, CommonCodes, WriterCodes, ReaderCodes
  <2>3. CallsTyped'
    BY TypeParts DEF CallsTyped, Procs
  <2> QED
    BY <2>1, <2>2, <2>3, TypePartsNext
<1>2. LockHeld'
  BY DEF PipeInv, TypeOK, LockHeld, Procs
<1>3. EndsOpen'
  BY DEF PipeInv, TypeOK, LockHeld, EndsOpen, Keeps, Procs, Sharers
<1>4. AboutToSleep'
  BY DEF PipeInv, TypeOK, LockHeld, AboutToSleep, Procs, Full, Empty
<1>5. SleepReason'
  BY DEF PipeInv, TypeOK, LockHeld, AboutToSleep, SleepReason, Procs, Full, Empty
<1>6. NoUseAfterFree'
  BY DEF PipeInv, TypeOK, NoUseAfterFree, Procs
<1> QED
  BY <1>1, <1>2, <1>3, <1>4, <1>5, <1>6 DEF PipeInv

(* WriteSleep *)
LEMMA WriteSleepStep ==
    ASSUME PipeInv, NEW w \in Writers, Sleep(w, "w_sleep", "w_asleep")
    PROVE  PipeInv'
<1> USE PipeAssumption DEF Sleep, pipe
<1>1. TypeOK'
  <2>1. RingTyped'
    BY TypeParts DEF RingTyped, Count
  <2>2. CodesTyped'
    BY TypeParts DEF CodesTyped, Procs, CommonCodes, WriterCodes, ReaderCodes
  <2>3. CallsTyped'
    BY TypeParts DEF CallsTyped, Procs
  <2> QED
    BY <2>1, <2>2, <2>3, TypePartsNext
<1>2. LockHeld'
  BY DEF PipeInv, TypeOK, LockHeld, Procs
<1>3. EndsOpen'
  BY DEF PipeInv, TypeOK, LockHeld, EndsOpen, Keeps, Procs, Sharers
<1>4. AboutToSleep'
  BY DEF PipeInv, TypeOK, LockHeld, AboutToSleep, Procs, Full, Empty
<1>5. SleepReason'
  BY DEF PipeInv, TypeOK, LockHeld, AboutToSleep, SleepReason, Procs, Full, Empty
<1>6. NoUseAfterFree'
  BY DEF PipeInv, TypeOK, NoUseAfterFree, Procs
<1> QED
  BY <1>1, <1>2, <1>3, <1>4, <1>5, <1>6 DEF PipeInv

(* WriteResume *)
LEMMA WriteResumeStep ==
    ASSUME PipeInv, NEW w \in Writers, Resume(w, "w_woken", "w_loop")
    PROVE  PipeInv'
<1> USE PipeAssumption DEF Resume, pipe
<1>1. TypeOK'
  <2>1. RingTyped'
    BY TypeParts DEF RingTyped, Count
  <2>2. CodesTyped'
    BY TypeParts DEF CodesTyped, Procs, CommonCodes, WriterCodes, ReaderCodes
  <2>3. CallsTyped'
    BY TypeParts DEF CallsTyped, Procs
  <2> QED
    BY <2>1, <2>2, <2>3, TypePartsNext
<1>2. LockHeld'
  BY DEF PipeInv, TypeOK, LockHeld, Procs
<1>3. EndsOpen'
  BY DEF PipeInv, TypeOK, LockHeld, EndsOpen, Keeps, Procs, Sharers
<1>4. AboutToSleep'
  BY DEF PipeInv, TypeOK, LockHeld, AboutToSleep, Procs, Full, Empty
<1>5. SleepReason'
  BY DEF PipeInv, TypeOK, LockHeld, AboutToSleep, SleepReason, Procs, Full, Empty
<1>6. NoUseAfterFree'
  BY DEF PipeInv, TypeOK, NoUseAfterFree, Procs
<1> QED
  BY <1>1, <1>2, <1>3, <1>4, <1>5, <1>6 DEF PipeInv

(* WriteReturns *)
LEMMA WriteReturnsStep ==
    ASSUME PipeInv, NEW w \in Writers, WriteReturns(w)
    PROVE  PipeInv'
<1> USE PipeAssumption DEF WriteReturns, Return, WakeReaders, Awakened, pipe
<1>1. TypeOK'
  <2>1. RingTyped'
    BY TypeParts DEF RingTyped, Count
  <2>2. CodesTyped'
    BY TypeParts DEF CodesTyped, Procs, CommonCodes, WriterCodes, ReaderCodes
  <2>3. CallsTyped'
    BY TypeParts DEF CallsTyped, Procs
  <2> QED
    BY <2>1, <2>2, <2>3, TypePartsNext
<1>2. LockHeld'
  BY DEF PipeInv, TypeOK, LockHeld, Procs
<1>3. EndsOpen'
  BY DEF PipeInv, TypeOK, LockHeld, EndsOpen, Keeps, Procs, Sharers
<1>4. AboutToSleep'
  BY DEF PipeInv, TypeOK, LockHeld, AboutToSleep, Procs, Full, Empty
<1>5. SleepReason'
  BY DEF PipeInv, TypeOK, LockHeld, AboutToSleep, SleepReason, Procs, Full, Empty
<1>6. NoUseAfterFree'
  BY DEF PipeInv, TypeOK, NoUseAfterFree, Procs
<1> QED
  BY <1>1, <1>2, <1>3, <1>4, <1>5, <1>6 DEF PipeInv

(* ReadCall *)
LEMMA ReadCallStep ==
    ASSUME PipeInv, NEW r \in Readers, NEW size \in Sizes, ReadCall(r, size)
    PROVE  PipeInv'
<1> USE PipeAssumption DEF ReadCall, pipe
<1>1. TypeOK'
  <2>1. RingTyped'
    BY TypeParts DEF RingTyped, Count
  <2>2. CodesTyped'
    BY TypeParts DEF CodesTyped, Procs, CommonCodes, WriterCodes, ReaderCodes
  <2>3. CallsTyped'
    BY TypeParts DEF CallsTyped, Procs
  <2> QED
    BY <2>1, <2>2, <2>3, TypePartsNext
<1>2. LockHeld'
  BY DEF PipeInv, TypeOK, LockHeld, Procs
<1>3. EndsOpen'
  BY DEF PipeInv, TypeOK, LockHeld, EndsOpen, Keeps, Procs, Sharers
<1>4. AboutToSleep'
  BY DEF PipeInv, TypeOK, LockHeld, AboutToSleep, Procs, Full, Empty
<1>5. SleepReason'
  BY DEF PipeInv, TypeOK, LockHeld, AboutToSleep, SleepReason, Procs, Full, Empty
<1>6. NoUseAfterFree'
  BY DEF PipeInv, TypeOK, NoUseAfterFree, Procs
<1> QED
  BY <1>1, <1>2, <1>3, <1>4, <1>5, <1>6 DEF PipeInv

(* ReadFails *)
LEMMA ReadFailsStep ==
    ASSUME PipeInv, NEW r \in Readers, ReadFails(r)
    PROVE  PipeInv'
<1> USE PipeAssumption DEF ReadFails, Return, pipe
<1>1. TypeOK'
  <2>1. RingTyped'
    BY TypeParts DEF RingTyped, Count
  <2>2. CodesTyped'
    BY TypeParts DEF CodesTyped, Procs, CommonCodes, WriterCodes, ReaderCodes
  <2>3. CallsTyped'
    BY TypeParts DEF CallsTyped, Procs
  <2> QED
    BY <2>1, <2>2, <2>3, TypePartsNext
<1>2. LockHeld'
  BY DEF PipeInv, TypeOK, LockHeld, Procs
<1>3. EndsOpen'
  BY DEF PipeInv, TypeOK, LockHeld, EndsOpen, Keeps, Procs, Sharers
<1>4. AboutToSleep'
  BY DEF PipeInv, TypeOK, LockHeld, AboutToSleep, Procs, Full, Empty
<1>5. SleepReason'
  BY DEF PipeInv, TypeOK, LockHeld, AboutToSleep, SleepReason, Procs, Full, Empty
<1>6. NoUseAfterFree'
  BY DEF PipeInv, TypeOK, NoUseAfterFree, Procs
<1> QED
  BY <1>1, <1>2, <1>3, <1>4, <1>5, <1>6 DEF PipeInv

(* ReadBlocks *)
LEMMA ReadBlocksStep ==
    ASSUME PipeInv, NEW r \in Readers, ReadBlocks(r)
    PROVE  PipeInv'
<1> USE PipeAssumption DEF ReadBlocks, pipe
<1>1. TypeOK'
  <2>1. RingTyped'
    BY TypeParts DEF RingTyped, Count
  <2>2. CodesTyped'
    BY TypeParts DEF CodesTyped, Procs, CommonCodes, WriterCodes, ReaderCodes
  <2>3. CallsTyped'
    BY TypeParts DEF CallsTyped, Procs
  <2> QED
    BY <2>1, <2>2, <2>3, TypePartsNext
<1>2. LockHeld'
  BY DEF PipeInv, TypeOK, LockHeld, Procs
<1>3. EndsOpen'
  BY DEF PipeInv, TypeOK, LockHeld, EndsOpen, Keeps, Procs, Sharers
<1>4. AboutToSleep'
  BY DEF PipeInv, TypeOK, LockHeld, AboutToSleep, Procs, Full, Empty
<1>5. SleepReason'
  BY DEF PipeInv, TypeOK, LockHeld, AboutToSleep, SleepReason, Procs, Full, Empty
<1>6. NoUseAfterFree'
  BY DEF PipeInv, TypeOK, NoUseAfterFree, Procs
<1> QED
  BY <1>1, <1>2, <1>3, <1>4, <1>5, <1>6 DEF PipeInv

(* ReadSleep *)
LEMMA ReadSleepStep ==
    ASSUME PipeInv, NEW r \in Readers, Sleep(r, "r_sleep", "r_asleep")
    PROVE  PipeInv'
<1> USE PipeAssumption DEF Sleep, pipe
<1>1. TypeOK'
  <2>1. RingTyped'
    BY TypeParts DEF RingTyped, Count
  <2>2. CodesTyped'
    BY TypeParts DEF CodesTyped, Procs, CommonCodes, WriterCodes, ReaderCodes
  <2>3. CallsTyped'
    BY TypeParts DEF CallsTyped, Procs
  <2> QED
    BY <2>1, <2>2, <2>3, TypePartsNext
<1>2. LockHeld'
  BY DEF PipeInv, TypeOK, LockHeld, Procs
<1>3. EndsOpen'
  BY DEF PipeInv, TypeOK, LockHeld, EndsOpen, Keeps, Procs, Sharers
<1>4. AboutToSleep'
  BY DEF PipeInv, TypeOK, LockHeld, AboutToSleep, Procs, Full, Empty
<1>5. SleepReason'
  BY DEF PipeInv, TypeOK, LockHeld, AboutToSleep, SleepReason, Procs, Full, Empty
<1>6. NoUseAfterFree'
  BY DEF PipeInv, TypeOK, NoUseAfterFree, Procs
<1> QED
  BY <1>1, <1>2, <1>3, <1>4, <1>5, <1>6 DEF PipeInv

(* ReadResume *)
LEMMA ReadResumeStep ==
    ASSUME PipeInv, NEW r \in Readers, Resume(r, "r_woken", "r_wait")
    PROVE  PipeInv'
<1> USE PipeAssumption DEF Resume, pipe
<1>1. TypeOK'
  <2>1. RingTyped'
    BY TypeParts DEF RingTyped, Count
  <2>2. CodesTyped'
    BY TypeParts DEF CodesTyped, Procs, CommonCodes, WriterCodes, ReaderCodes
  <2>3. CallsTyped'
    BY TypeParts DEF CallsTyped, Procs
  <2> QED
    BY <2>1, <2>2, <2>3, TypePartsNext
<1>2. LockHeld'
  BY DEF PipeInv, TypeOK, LockHeld, Procs
<1>3. EndsOpen'
  BY DEF PipeInv, TypeOK, LockHeld, EndsOpen, Keeps, Procs, Sharers
<1>4. AboutToSleep'
  BY DEF PipeInv, TypeOK, LockHeld, AboutToSleep, Procs, Full, Empty
<1>5. SleepReason'
  BY DEF PipeInv, TypeOK, LockHeld, AboutToSleep, SleepReason, Procs, Full, Empty
<1>6. NoUseAfterFree'
  BY DEF PipeInv, TypeOK, NoUseAfterFree, Procs
<1> QED
  BY <1>1, <1>2, <1>3, <1>4, <1>5, <1>6 DEF PipeInv

(* ReadStarts *)
LEMMA ReadStartsStep ==
    ASSUME PipeInv, NEW r \in Readers, ReadStarts(r)
    PROVE  PipeInv'
<1> USE PipeAssumption DEF ReadStarts, pipe
<1>1. TypeOK'
  <2>1. RingTyped'
    BY TypeParts DEF RingTyped, Count
  <2>2. CodesTyped'
    BY TypeParts DEF CodesTyped, Procs, CommonCodes, WriterCodes, ReaderCodes
  <2>3. CallsTyped'
    BY TypeParts DEF CallsTyped, Procs
  <2> QED
    BY <2>1, <2>2, <2>3, TypePartsNext
<1>2. LockHeld'
  BY DEF PipeInv, TypeOK, LockHeld, Procs
<1>3. EndsOpen'
  BY DEF PipeInv, TypeOK, LockHeld, EndsOpen, Keeps, Procs, Sharers
<1>4. AboutToSleep'
  BY DEF PipeInv, TypeOK, LockHeld, AboutToSleep, Procs, Full, Empty
<1>5. SleepReason'
  BY DEF PipeInv, TypeOK, LockHeld, AboutToSleep, SleepReason, Procs, Full, Empty
<1>6. NoUseAfterFree'
  BY DEF PipeInv, TypeOK, NoUseAfterFree, Procs
<1> QED
  BY <1>1, <1>2, <1>3, <1>4, <1>5, <1>6 DEF PipeInv

(* ReadByte *)
LEMMA ReadByteStep ==
    ASSUME PipeInv, NEW r \in Readers, ReadByte(r)
    PROVE  PipeInv'
<1> USE PipeAssumption DEF ReadByte, pipe
<1>1. TypeOK'
  <2>1. nread' \in 0..(W - 1) /\ Count' \in 0..PipeSize
    BY CountDown DEF PipeInv
  <2>2. RingTyped'
    BY <2>1, TypeParts DEF RingTyped
  <2>3. CodesTyped'
    BY TypeParts DEF CodesTyped, Procs
  <2>4. CallsTyped'
    BY TypeParts DEF CallsTyped, Procs
  <2> QED
    BY <2>2, <2>3, <2>4, TypePartsNext
<1>2. LockHeld'
  BY DEF PipeInv, TypeOK, LockHeld, Procs
<1>3. EndsOpen'
  BY DEF PipeInv, TypeOK, LockHeld, EndsOpen, Keeps, Procs, Sharers
<1>4. AboutToSleep'
  BY DEF PipeInv, TypeOK, LockHeld, AboutToSleep, Procs, Full, Empty
<1>5. SleepReason'
  BY DEF PipeInv, TypeOK, LockHeld, AboutToSleep, SleepReason, Procs, Full, Empty
<1>6. NoUseAfterFree'
  BY DEF PipeInv, TypeOK, NoUseAfterFree, Procs
<1> QED
  BY <1>1, <1>2, <1>3, <1>4, <1>5, <1>6 DEF PipeInv

(* ReadReturns *)
LEMMA ReadReturnsStep ==
    ASSUME PipeInv, NEW r \in Readers, ReadReturns(r)
    PROVE  PipeInv'
<1> USE PipeAssumption DEF ReadReturns, Return, WakeWriters, Awakened, pipe
<1>1. TypeOK'
  <2>1. RingTyped'
    BY TypeParts DEF RingTyped, Count
  <2>2. CodesTyped'
    BY TypeParts DEF CodesTyped, Procs, CommonCodes, WriterCodes, ReaderCodes
  <2>3. CallsTyped'
    BY TypeParts DEF CallsTyped, Procs
  <2> QED
    BY <2>1, <2>2, <2>3, TypePartsNext
<1>2. LockHeld'
  BY DEF PipeInv, TypeOK, LockHeld, Procs
<1>3. EndsOpen'
  BY DEF PipeInv, TypeOK, LockHeld, EndsOpen, Keeps, Procs, Sharers
<1>4. AboutToSleep'
  BY DEF PipeInv, TypeOK, LockHeld, AboutToSleep, Procs, Full, Empty
<1>5. SleepReason'
  BY DEF PipeInv, TypeOK, LockHeld, AboutToSleep, SleepReason, Procs, Full, Empty
<1>6. NoUseAfterFree'
  BY DEF PipeInv, TypeOK, NoUseAfterFree, Procs
<1> QED
  BY <1>1, <1>2, <1>3, <1>4, <1>5, <1>6 DEF PipeInv

(* CloseFile *)
LEMMA CloseFileStep ==
    ASSUME PipeInv, NEW p \in Procs, CloseFile(p)
    PROVE  PipeInv'
<1> USE PipeAssumption DEF CloseFile, pipe
<1>1. TypeOK'
  <2>1. RingTyped'
    BY TypeParts DEF RingTyped, Count
  <2>2. CodesTyped'
    BY TypeParts DEF CodesTyped, Procs, CommonCodes, WriterCodes, ReaderCodes
  <2>3. CallsTyped'
    BY TypeParts DEF CallsTyped, Procs
  <2> QED
    BY <2>1, <2>2, <2>3, TypePartsNext
<1>2. LockHeld'
  BY DEF PipeInv, TypeOK, LockHeld, Procs
<1>3. EndsOpen'
  <2>1. holders' = holders \ {p} /\ p \in holders /\ pc[p] = "user"
    OBVIOUS
  <2>2. PICK s \in {"close", "gone"} :
           /\ pc' = [pc EXCEPT ![p] = s]
           /\ s = "close" <=> holders \cap Sharers(p) = {p}
    OBVIOUS
  <2>3. \A q \in Procs : pc'[q] = IF q = p THEN s ELSE pc[q]
    BY <2>2 DEF PipeInv, TypeOK
  <2>4. \A q \in Procs :
           Keeps(q)' <=> IF q = p THEN s = "close" ELSE Keeps(q)
    BY <2>1, <2>3 DEF Keeps
  <2>5. p \in Sharers(p) /\ Sharers(p) \subseteq Procs
    BY DEF Sharers, Procs
  <2>6. \A q \in Procs : pc[q] = "close" => q \notin Sharers(p)
    BY <2>1 DEF PipeInv, EndsOpen, Keeps, Sharers, Procs
  <2>7. s = "close" => \A q \in Sharers(p) \ {p} : ~Keeps(q)
    BY <2>2, <2>5, <2>6 DEF Keeps
  <2>8. s = "gone" => \E q \in Sharers(p) \ {p} : Keeps(q)
    BY <2>1, <2>2, <2>5 DEF Keeps
  <2>9. \A q \in Procs : q \in holders' <=> pc'[q] \notin {"close", "free", "gone"}
    BY <2>1, <2>3 DEF PipeInv, EndsOpen
  <2>10. readopen' <=> \E r \in Readers : Keeps(r)'
    BY <2>1, <2>4, <2>7, <2>8 DEF PipeInv, EndsOpen, Keeps, Sharers, Procs
  <2>11. writeopen' <=> \E w \in Writers : Keeps(w)'
    BY <2>1, <2>4, <2>7, <2>8 DEF PipeInv, EndsOpen, Keeps, Sharers, Procs
  <2>12. \A q \in Procs :
            pc'[q] = "close" => \A o \in Sharers(q) \ {q} : ~Keeps(o)'
    BY <2>1, <2>3, <2>4, <2>7 DEF PipeInv, EndsOpen, Keeps, Sharers, Procs
  <2> QED
    BY <2>9, <2>10, <2>11, <2>12 DEF EndsOpen, Sharers
<1>4. AboutToSleep'
  BY DEF PipeInv, TypeOK, LockHeld, AboutToSleep, Procs, Full, Empty
<1>5. SleepReason'
  BY DEF PipeInv, TypeOK, LockHeld, AboutToSleep, SleepReason, Procs, Full, Empty
<1>6. NoUseAfterFree'
  BY DEF PipeInv, TypeOK, NoUseAfterFree, Procs
<1> QED
  BY <1>1, <1>2, <1>3, <1>4, <1>5, <1>6 DEF PipeInv

(* A process reads or writes, and only one of the two. *)
LEMMA OneSide ==
    ASSUME NEW p \in Procs
    PROVE  p \in Readers <=> p \notin Writers
<1>1. p \in Readers \cup Writers
  BY DEF Procs
<1>2. Readers \cap Writers = {}
  BY PipeAssumption
<1> QED
  BY <1>1, <1>2

(* PipeClose *)
LEMMA PipeCloseStep ==
    ASSUME PipeInv, NEW p \in Procs, PipeClose(p)
    PROVE  PipeInv'
<1> USE PipeAssumption DEF PipeClose, WakeReaders, WakeWriters, Awakened, pipe
<1>1. TypeOK'
  <2>1. RingTyped'
    BY TypeParts DEF RingTyped, Count
  <2>2. CodesTyped'
    BY TypeParts DEF CodesTyped, Procs, CommonCodes, WriterCodes, ReaderCodes
  <2>3. CallsTyped'
    BY TypeParts DEF CallsTyped, Procs
  <2> QED
    BY <2>1, <2>2, <2>3, TypePartsNext
<1>2. LockHeld'
  BY DEF PipeInv, TypeOK, LockHeld, Procs
<1>3. EndsOpen'
  <2>1. /\ \A q \in Procs \ {p} : Keeps(q)' <=> Keeps(q)
        /\ \A q \in Procs \ {p}, s \in {"close", "free", "gone"} : pc'[q] = s <=> pc[q] = s
    BY TypeParts DEF CodesTyped, Procs, Keeps
  <2>2. p \in Readers <=> p \notin Writers
    BY OneSide
  <2>3. pc'[p] \in {"gone", "free"} /\ ~Keeps(p)'
    <3>1. p \notin holders
      BY DEF PipeInv, EndsOpen
    <3>2. pc'[p] \in {"gone", "free"}
      BY TypeParts DEF CodesTyped, Procs
    <3> QED
      BY <3>1, <3>2 DEF Keeps
  <2>4. \A q \in Sharers(p) \ {p} : ~Keeps(q)
    BY DEF PipeInv, EndsOpen
  <2>5. /\ readopen <=> \E r \in Readers : Keeps(r)
        /\ writeopen <=> \E w \in Writers : Keeps(w)
    BY DEF PipeInv, EndsOpen
  <2>6. readopen' <=> \E r \in Readers : Keeps(r)'
    BY <2>1, <2>2, <2>3, <2>4, <2>5 DEF Procs, Sharers
  <2>7. writeopen' <=> \E w \in Writers : Keeps(w)'
    BY <2>1, <2>2, <2>3, <2>4, <2>5 DEF Procs, Sharers
  <2>8. ASSUME NEW q \in Procs PROVE q \in holders' <=> pc'[q] \notin {"close", "free", "gone"}
    BY <2>1, <2>3 DEF PipeInv, EndsOpen
  <2>9. ASSUME NEW q \in Procs, pc'[q] = "close", NEW u \in Sharers(q) \ {q}
        PROVE  ~Keeps(u)'
    <3>1. q # p /\ pc[q] = "close" /\ u \in Procs
      BY <2>1, <2>3, <2>9 DEF Sharers, Procs
    <3>2. ~Keeps(u)
      BY <2>9, <3>1 DEF PipeInv, EndsOpen
    <3> QED
      BY <2>1, <2>3, <3>1, <3>2
  <2> QED
    BY <2>6, <2>7, <2>8, <2>9 DEF EndsOpen
<1>4. AboutToSleep'
  BY DEF PipeInv, TypeOK, LockHeld, AboutToSleep, Procs, Full, Empty
<1>5. SleepReason'
  BY DEF PipeInv, TypeOK, LockHeld, AboutToSleep, SleepReason, Procs, Full, Empty
<1>6. NoUseAfterFree'
  <2>1. ~freed
    BY DEF PipeInv, NoUseAfterFree
  <2>2. \A q \in Procs : q # p => pc[q] # "free"
    BY DEF PipeInv, NoUseAfterFree
  <2>3. ASSUME pc'[p] = "free", NEW q \in Procs \ {p}
        PROVE  pc'[q] = "gone"
    <3>1. ~readopen' /\ ~writeopen'
      BY <2>3 DEF PipeInv, TypeOK
    <3>2. \A o \in Procs : ~Keeps(o)'
      BY <1>3, <3>1 DEF EndsOpen, Procs
    <3>3. q \notin holders' /\ pc'[q] # "close"
      BY <3>2 DEF Keeps
    <3>4. pc'[q] \in {"close", "free", "gone"}
      BY <1>3, <3>3 DEF EndsOpen
    <3>5. pc'[q] # "free"
      BY <2>2 DEF PipeInv, TypeOK
    <3> QED
      BY <3>3, <3>4, <3>5
  <2>4. \A q \in Procs \ {p} : pc'[q] # "free"
    BY <2>2 DEF PipeInv, TypeOK
  <2> QED
    BY <2>1, <2>3, <2>4 DEF NoUseAfterFree
<1> QED
  BY <1>1, <1>2, <1>3, <1>4, <1>5, <1>6 DEF PipeInv

(* Kfree *)
LEMMA KfreeStep ==
    ASSUME PipeInv, NEW p \in Procs, Kfree(p)
    PROVE  PipeInv'
<1> USE PipeAssumption DEF Kfree, pipe
<1>1. TypeOK'
  <2>1. RingTyped'
    BY TypeParts DEF RingTyped, Count
  <2>2. CodesTyped'
    BY TypeParts DEF CodesTyped, Procs, CommonCodes, WriterCodes, ReaderCodes
  <2>3. CallsTyped'
    BY TypeParts DEF CallsTyped, Procs
  <2> QED
    BY <2>1, <2>2, <2>3, TypePartsNext
<1>2. LockHeld'
  BY DEF PipeInv, TypeOK, LockHeld, Procs
<1>3. EndsOpen'
  BY DEF PipeInv, TypeOK, LockHeld, EndsOpen, Keeps, Procs, Sharers
<1>4. AboutToSleep'
  BY DEF PipeInv, TypeOK, LockHeld, AboutToSleep, Procs, Full, Empty
<1>5. SleepReason'
  BY DEF PipeInv, TypeOK, LockHeld, AboutToSleep, SleepReason, Procs, Full, Empty
<1>6. NoUseAfterFree'
  BY DEF PipeInv, TypeOK, NoUseAfterFree, Procs
<1> QED
  BY <1>1, <1>2, <1>3, <1>4, <1>5, <1>6 DEF PipeInv

(* Kill *)
LEMMA KillStep ==
    ASSUME PipeInv, NEW p \in Procs, Kill(p)
    PROVE  PipeInv'
<1> USE PipeAssumption DEF Kill, pipe
<1>1. TypeOK'
  <2>1. RingTyped'
    BY TypeParts DEF RingTyped, Count
  <2>2. CodesTyped'
    BY TypeParts DEF CodesTyped, Procs, CommonCodes, WriterCodes, ReaderCodes
  <2>3. CallsTyped'
    BY TypeParts DEF CallsTyped, Procs
  <2> QED
    BY <2>1, <2>2, <2>3, TypePartsNext
<1>2. LockHeld'
  BY DEF PipeInv, TypeOK, LockHeld, Procs
<1>3. EndsOpen'
  BY DEF PipeInv, TypeOK, LockHeld, EndsOpen, Keeps, Procs, Sharers
<1>4. AboutToSleep'
  BY DEF PipeInv, TypeOK, LockHeld, AboutToSleep, Procs, Full, Empty
<1>5. SleepReason'
  BY DEF PipeInv, TypeOK, LockHeld, AboutToSleep, SleepReason, Procs, Full, Empty
<1>6. NoUseAfterFree'
  BY DEF PipeInv, TypeOK, NoUseAfterFree, Procs
<1> QED
  BY <1>1, <1>2, <1>3, <1>4, <1>5, <1>6 DEF PipeInv

-----------------------------------------------------------------------------

(* Every step preserves PipeInv. *)
LEMMA StepInv == PipeInv /\ [Next]_vars => PipeInv'
<1> SUFFICES ASSUME PipeInv, [Next]_vars PROVE PipeInv'
  OBVIOUS
<1>1. ASSUME NEW w \in Writers, Write(w) PROVE PipeInv'
  BY <1>1, WriteCallStep, WriteByteStep, WriteFailsStep, WriteBlocksStep,
     WriteSleepStep, WriteResumeStep, WriteReturnsStep
  DEF Write
<1>2. ASSUME NEW r \in Readers, Read(r) PROVE PipeInv'
  BY <1>2, ReadCallStep, ReadFailsStep, ReadBlocksStep, ReadSleepStep,
     ReadResumeStep, ReadStartsStep, ReadByteStep, ReadReturnsStep
  DEF Read
<1>3. ASSUME NEW p \in Procs, Close(p) \/ Kill(p) PROVE PipeInv'
  BY <1>3, CloseFileStep, PipeCloseStep, KfreeStep, KillStep DEF Close
<1>4. CASE Finished \/ UNCHANGED vars
  <2>1. UNCHANGED vars
    BY <1>4 DEF Finished
  <2>2. TypeOK' /\ LockHeld' /\ EndsOpen' /\ NoUseAfterFree'
    BY <2>1 DEF vars, PipeInv, TypeOK, Count, LockHeld, EndsOpen, Keeps,
       NoUseAfterFree
  <2>3. AboutToSleep' /\ SleepReason'
    BY <2>1 DEF vars, PipeInv, AboutToSleep, SleepReason, Empty, Full
  <2> QED
    BY <2>2, <2>3 DEF PipeInv
<1> QED
  BY <1>1, <1>2, <1>3, <1>4 DEF Next

(* PipeInv holds in every reachable state of a pipe. *)
THEOREM PipeInvariant == Spec => []PipeInv
BY InitInv, StepInv, PTL DEF Spec

(* The variables keep their types and the pipe never holds more than       *)
(* PIPESIZE bytes, wherever its counters have wrapped to.                  *)
THEOREM PipeTypes == Spec => []TypeOK
<1>1. PipeInv => TypeOK
  BY DEF PipeInv
<1> QED
  BY <1>1, PipeInvariant, PTL

(* No reader sleeps on bytes, or on a closed write end, and no writer on   *)
(* room, but for the readers a killed writer forgot.                       *)
THEOREM PipeWakeups == Spec => []NoLostWakeup
<1>1. PipeInv => NoLostWakeup
  <2> SUFFICES ASSUME PipeInv, lock = NoProc PROVE NoLostWakeup
    BY DEF NoLostWakeup
  <2>1. \A p \in Procs : pc[p] # "w_loop" /\ pc[p] # "r_copy"
    BY PipeAssumption DEF PipeInv, LockHeld
  <2> QED
    BY <2>1 DEF PipeInv, SleepReason, NoLostWakeup, Procs
<1> QED
  BY <1>1, PipeInvariant, PTL

(* The page of the pipe is freed once, and not under anybody's feet. *)
THEOREM PipeFreedOnce == Spec => []NoUseAfterFree
<1>1. PipeInv => NoUseAfterFree
  BY DEF PipeInv
<1> QED
  BY <1>1, PipeInvariant, PTL

-----------------------------------------------------------------------------
(* The stream: its byte k lies in the cell (nread + k - 1) % PIPESIZE.     *)

(* What % means. *)
LEMMA Division ==
    ASSUME NEW P \in Nat \ {0}, NEW x \in Nat
    PROVE  /\ x \div P \in Nat
           /\ x % P \in 0..(P - 1)
           /\ x = P * (x \div P) + (x % P)
  OBVIOUS

LEMMA DivisionUnique ==
    ASSUME NEW P \in Nat \ {0}, NEW q \in Nat, NEW r \in 0..(P - 1)
    PROVE  (P * q + r) % P = r
  OBVIOUS

(* A counter that wraps at a multiple of PIPESIZE goes on in the same cell.*)
LEMMA ModAdd ==
    ASSUME NEW P \in Nat \ {0}, NEW x \in Nat, NEW w \in Nat, w % P = 0
    PROVE  (x + w) % P = x % P
<1> DEFINE a == x \div P
           b == w \div P
           r == x % P
<1>1. a \in Nat /\ b \in Nat /\ r \in 0..(P - 1) /\ x = P * a + r /\ w = P * b
  BY Division
<1> HIDE DEF a, b, r
<1>2. x + w = P * (a + b) + r
  BY <1>1
<1>3. (P * (a + b) + r) % P = r
  BY <1>1, DivisionUnique
<1> QED
  BY <1>2, <1>3 DEF r

(* Numbers less than PIPESIZE apart are in different cells. *)
LEMMA ModApart ==
    ASSUME NEW P \in Nat \ {0}, NEW x \in Nat, NEW y \in Nat, x < y, y < x + P
    PROVE  x % P # y % P
<1> DEFINE a == x \div P
           b == y \div P
           r == x % P
<1> SUFFICES ASSUME x % P = y % P PROVE FALSE
  OBVIOUS
<1>1. a \in Nat /\ b \in Nat /\ r \in 0..(P - 1) /\ x = P * a + r /\ y = P * b + r
  BY Division
<1> HIDE DEF a, b, r
<1>2. P * (b - a) > 0 /\ P * (b - a) < P
  BY <1>1
<1>3. b - a \in Int
  BY <1>1
<1>4. CASE b - a <= 0
  <2>1. P * (b - a) <= 0
    BY <1>3, <1>4
  <2> QED
    BY <1>2, <2>1, <1>3
<1>5. CASE b - a >= 1
  <2>1. P * (b - a) >= P
    BY <1>3, <1>5
  <2> QED
    BY <1>2, <2>1, <1>3
<1> QED
  BY <1>3, <1>4, <1>5

-----------------------------------------------------------------------------
(* The queue of the stream *)

Cell(r, k) == (r + k - 1) % PipeSize

Queue(d, r, c) == [k \in 1..c |-> d[(r + k - 1) % PipeSize]]

LEMMA QueueType ==
    ASSUME NEW d \in [0..(PipeSize - 1) -> Bytes], NEW r \in Nat, NEW c \in Nat
    PROVE  /\ Queue(d, r, c) \in Seq(Bytes)
           /\ Len(Queue(d, r, c)) = c
           /\ \A k \in 1..c : Queue(d, r, c)[k] = d[Cell(r, k)]
<1> DEFINE q == Queue(d, r, c)
<1>1. \A k \in 1..c : (r + k - 1) % PipeSize \in 0..(PipeSize - 1)
  <2> TAKE k \in 1..c
  <2>1. r + k - 1 \in Nat
    OBVIOUS
  <2> QED
    BY <2>1, PipeAssumption, Division
<1>2. q \in [1..c -> Bytes]
  BY <1>1 DEF Queue
<1>3. \A k \in 1..c : q[k] = d[Cell(r, k)]
  BY DEF Queue, Cell
<1> HIDE DEF q
<1>4. q \in Seq(Bytes)
  BY <1>2, SeqDef
<1>5. Len(q) = c
  BY <1>2, <1>4, LenProperties
<1> QED
  BY <1>3, <1>4, <1>5 DEF q

(* The counters wrap at W, and the cells with them. *)
LEMMA CellWraps ==
    ASSUME NEW x \in Nat
    PROVE  (x + W) % PipeSize = x % PipeSize
BY PipeAssumption, ModAdd

(* The cell that is written next comes after the last byte of the queue. *)
LEMMA NextCell ==
    ASSUME TypeOK
    PROVE  nwrite % PipeSize = Cell(nread, Count + 1)
<1>1. CASE nwrite >= nread
  BY <1>1, PipeAssumption DEF TypeOK, Count, Cell
<1>2. CASE nwrite < nread
  <2>1. nread + (Count + 1) - 1 = nwrite + W
    BY <1>2, PipeAssumption DEF TypeOK, Count
  <2>2. (nwrite + W) % PipeSize = nwrite % PipeSize
    BY CellWraps DEF TypeOK
  <2> QED
    BY <2>1, <2>2 DEF Cell
<1> QED
  BY <1>1, <1>2, PipeAssumption DEF TypeOK

(* It is none of the cells of the queue. *)
LEMMA CellsApart ==
    ASSUME TypeOK, Count < PipeSize, NEW k \in 1..Count
    PROVE  Cell(nread, k) # Cell(nread, Count + 1)
<1> DEFINE x == nread + k - 1
           y == nread + (Count + 1) - 1
<1>1. x \in Nat /\ y \in Nat /\ x < y /\ y < x + PipeSize
  BY PipeAssumption DEF TypeOK
<1>2. x % PipeSize # y % PipeSize
  BY <1>1, PipeAssumption, ModApart
<1> QED
  BY <1>2 DEF Cell

(* pipewrite appends, ... *)
LEMMA Appended ==
    ASSUME TypeOK, TypeOK', ~Full, NEW b \in Bytes,
           data' = [data EXCEPT ![nwrite % PipeSize] = b],
           nwrite' = Inc(nwrite), nread' = nread
    PROVE  Contents' = Append(Contents, b)
<1> DEFINE c == Count
           d == data'
           q == Queue(data, nread, c)
           t == Queue(d, nread, c + 1)
<1>1. Count' = c + 1 /\ c < PipeSize /\ c \in Nat
  <2>1. Count' = Count + 1
    BY CountUp
  <2>2. Count \in 0..PipeSize /\ Count # PipeSize
    BY CountTests DEF TypeOK
  <2> QED
    BY <2>1, <2>2, PipeAssumption
<1>2. Contents = q /\ Contents' = t
  BY <1>1 DEF Contents, Queue
<1>3. \A k \in 1..c : Cell(nread, k) # Cell(nread, c + 1)
  BY <1>1, CellsApart
<1>4. Cell(nread, c + 1) = nwrite % PipeSize
  BY NextCell
<1>5. nread \in Nat /\ data \in [0..(PipeSize - 1) -> Bytes]
                    /\ d \in [0..(PipeSize - 1) -> Bytes]
  <2>1. nread \in 0..(W - 1) /\ data \in [0..(PipeSize - 1) -> Bytes]
                             /\ data' \in [0..(PipeSize - 1) -> Bytes]
    BY Zenon DEF TypeOK
  <2> QED
    BY <2>1
<1>6. /\ q \in Seq(Bytes) /\ Len(q) = c
      /\ \A k \in 1..c : q[k] = data[Cell(nread, k)]
  <2>1. c \in Nat /\ nread \in Nat /\ data \in [0..(PipeSize - 1) -> Bytes]
    BY <1>1, <1>5
  <2> HIDE DEF c
  <2> QED
    BY <2>1, QueueType
<1>7. /\ t \in Seq(Bytes) /\ Len(t) = c + 1
      /\ \A k \in 1..(c + 1) : t[k] = d[Cell(nread, k)]
  <2>1. c + 1 \in Nat /\ nread \in Nat /\ d \in [0..(PipeSize - 1) -> Bytes]
    BY <1>1, <1>5
  <2> HIDE DEF c, d
  <2> QED
    BY <2>1, QueueType
<1>8. \A k \in 1..(c + 1) : Cell(nread, k) \in 0..(PipeSize - 1)
  <2> TAKE k \in 1..(c + 1)
  <2>1. nread + k - 1 \in Nat
    BY <1>1, <1>5
  <2> QED
    BY <2>1, PipeAssumption, Division DEF Cell
<1>9. \A k \in 1..(c + 1) : d[Cell(nread, k)] =
                               IF k = c + 1 THEN b ELSE data[Cell(nread, k)]
  BY <1>1, <1>3, <1>4, <1>5, <1>8
<1> HIDE DEF c, d, q, t
<1>10. /\ Append(q, b) \in Seq(Bytes) /\ Len(Append(q, b)) = c + 1
       /\ \A k \in 1..(c + 1) : Append(q, b)[k] = IF k = c + 1 THEN b ELSE q[k]
  BY <1>1, <1>6
<1>11. \A k \in 1..Len(t) : t[k] = Append(q, b)[k]
  BY <1>1, <1>6, <1>7, <1>9, <1>10
<1>12. t = Append(q, b)
  BY <1>7, <1>10, <1>11, SeqEqual
<1> QED
  BY <1>2, <1>12

(* ... and piperead takes from the front. *)
LEMMA Taken ==
    ASSUME TypeOK, TypeOK', ~Empty, data' = data,
           nread' = Inc(nread), nwrite' = nwrite
    PROVE  Contents # <<>> /\ Contents' = Tail(Contents)
<1> DEFINE c == Count
           r == nread'
           q == Queue(data, nread, c)
           t == Queue(data, r, c - 1)
<1>1. Count' = c - 1 /\ c > 0 /\ c \in Nat
  <2>1. c \in Nat /\ c # 0
    BY CountTests, PipeAssumption DEF TypeOK
  <2> QED
    BY <2>1, CountDown
<1>2. Contents = q /\ Contents' = t
  BY <1>1 DEF Contents, Queue
<1>3. nread \in Nat /\ r \in Nat /\ data \in [0..(PipeSize - 1) -> Bytes]
  BY DEF TypeOK
<1>4. \A k \in 1..(c - 1) : Cell(r, k) = Cell(nread, k + 1)
  <2>1. CASE r = nread + 1
    BY <2>1, <1>1, <1>3 DEF Cell
  <2>2. CASE r # nread + 1
    <3> SUFFICES ASSUME NEW k \in 1..(c - 1) PROVE Cell(r, k) = Cell(nread, k + 1)
      OBVIOUS
    <3>1. r = 0 /\ nread + 1 = W
      BY <2>2 DEF Inc
    <3>2. nread + (k + 1) - 1 = (k - 1) + W
      BY <3>1, <1>1, <1>3, PipeAssumption
    <3>3. ((k - 1) + W) % PipeSize = (k - 1) % PipeSize
      <4>1. k - 1 \in Nat
        BY <1>1
      <4> QED
        BY <4>1, CellWraps
    <3> QED
      BY <3>1, <3>2, <3>3, <1>1 DEF Cell
  <2> QED
    BY <2>1, <2>2
<1>5. /\ q \in Seq(Bytes) /\ Len(q) = c
      /\ \A k \in 1..c : q[k] = data[Cell(nread, k)]
  <2>1. c \in Nat /\ c - 1 \in Nat
    BY <1>1
  <2> QED
    BY <2>1, <1>3, QueueType
<1>6. /\ t \in Seq(Bytes) /\ Len(t) = c - 1
      /\ \A k \in 1..(c - 1) : t[k] = data[Cell(r, k)]
  <2>1. c \in Nat /\ c - 1 \in Nat
    BY <1>1
  <2> QED
    BY <2>1, <1>3, QueueType
<1> HIDE DEF c, q, t, r
<1>7. q # <<>>
  BY <1>1, <1>5
<1>8. /\ Tail(q) \in Seq(Bytes) /\ Len(Tail(q)) = c - 1
      /\ \A k \in 1..(c - 1) : Tail(q)[k] = q[k + 1]
  BY <1>1, <1>5, <1>7, HeadTailProperties
<1>9. \A k \in 1..Len(t) : t[k] = Tail(q)[k]
  BY <1>1, <1>4, <1>5, <1>6, <1>8
<1>10. t = Tail(q)
  BY <1>6, <1>8, <1>9, SeqEqual
<1> QED
  BY <1>2, <1>7, <1>10

-----------------------------------------------------------------------------
(* CopyReason: what a reader saw when it began to copy is still so, for it *)
(* has held the lock since.                                                *)
LEMMA InitCopy == Init => CopyReason
BY PipeAssumption DEF Init, CopyReason, Procs

LEMMA StepCopy == PipeInv /\ CopyReason /\ [Next]_vars => CopyReason'
<1> SUFFICES ASSUME PipeInv, CopyReason, [Next]_vars PROVE CopyReason'
  OBVIOUS
<1> USE PipeAssumption DEF PipeInv, TypeOK, LockHeld, CopyReason, Procs, Empty, pipe
<1>1. ASSUME NEW w \in Writers, Write(w) PROVE CopyReason'
  <2>1. ASSUME NEW b \in Bytes, WriteByte(w, b) PROVE CopyReason'
    BY <2>1 DEF WriteByte
  <2>2. CASE \E size \in Sizes : WriteCall(w, size)
    BY <2>2 DEF WriteCall
  <2>3. CASE WriteFails(w)
    BY <2>3 DEF WriteFails, Return
  <2>4. CASE WriteBlocks(w)
    BY <2>4 DEF WriteBlocks, WakeReaders, Awakened
  <2>5. CASE Sleep(w, "w_sleep", "w_asleep") \/ Resume(w, "w_woken", "w_loop")
    BY <2>5 DEF Sleep, Resume
  <2>6. CASE WriteReturns(w)
    BY <2>6 DEF WriteReturns, Return, WakeReaders, Awakened
  <2> QED
    BY <1>1, <2>1, <2>2, <2>3, <2>4, <2>5, <2>6 DEF Write
<1>2. ASSUME NEW r \in Readers, Read(r) PROVE CopyReason'
  <2>1. CASE \E size \in Sizes : ReadCall(r, size)
    BY <2>1 DEF ReadCall
  <2>2. CASE ReadFails(r)
    BY <2>2 DEF ReadFails, Return
  <2>3. CASE ReadBlocks(r) \/ ReadStarts(r)
    BY <2>3 DEF ReadBlocks, ReadStarts
  <2>4. CASE Sleep(r, "r_sleep", "r_asleep") \/ Resume(r, "r_woken", "r_wait")
    BY <2>4 DEF Sleep, Resume
  <2>5. CASE ReadByte(r)
    BY <2>5 DEF ReadByte
  <2>6. CASE ReadReturns(r)
    BY <2>6 DEF ReadReturns, Return, WakeWriters, Awakened
  <2> QED
    BY <1>2, <2>1, <2>2, <2>3, <2>4, <2>5, <2>6 DEF Read
<1>3. ASSUME NEW p \in Procs, Close(p) \/ Kill(p) PROVE CopyReason'
  <2>1. CASE CloseFile(p)
    BY <2>1 DEF CloseFile
  <2>2. CASE PipeClose(p)
    BY <2>2 DEF PipeClose, WakeReaders, WakeWriters, Awakened
  <2>3. CASE Kfree(p)
    BY <2>3 DEF Kfree
  <2>4. CASE Kill(p)
    BY <2>4 DEF Kill
  <2> QED
    BY <1>3, <2>1, <2>2, <2>3, <2>4 DEF Close
<1>4. CASE Finished \/ UNCHANGED vars
  BY <1>4 DEF Finished, vars
<1> QED
  BY <1>1, <1>2, <1>3, <1>4 DEF Next

-----------------------------------------------------------------------------
(* The steps of a pipe, as steps of the stream *)

Stutter == UNCHANGED <<data, nread, nwrite, readopen, writeopen, eof>>

LEMMA StutterStep == Stutter => UNCHANGED Stream!streamVars
BY DEF Stutter, Stream!streamVars, Contents, Count

LEMMA SendStep ==
    ASSUME PipeInv, PipeInv', NEW w \in Writers, NEW b \in Bytes, WriteByte(w, b)
    PROVE  Stream!Send(b)
<1>1. writeopen
  BY PipeAssumption DEF WriteByte, PipeInv, TypeOK, EndsOpen, Keeps, Procs
<1>2. Contents' = Append(Contents, b)
  BY Appended DEF WriteByte, PipeInv
<1>3. Len(Contents) < PipeSize
  <2>1. /\ data \in [0..(PipeSize - 1) -> Bytes] /\ nread \in Nat
        /\ Count \in Nat /\ Count < PipeSize
    <3>1. TypeOK /\ ~Full
      BY DEF PipeInv, WriteByte
    <3>2. /\ data \in [0..(PipeSize - 1) -> Bytes] /\ nread \in 0..(W - 1)
          /\ Count \in 0..PipeSize
      BY <3>1 DEF TypeOK
    <3>3. Count # PipeSize
      BY <3>1, CountTests
    <3> HIDE DEF Count
    <3> QED
      BY <3>2, <3>3, PipeAssumption
  <2>2. Len(Queue(data, nread, Count)) = Count
    BY <2>1, QueueType
  <2> QED
    BY <2>1, <2>2 DEF Queue, Contents
<1> QED
  BY <1>1, <1>2, <1>3 DEF Stream!Send, WriteByte

LEMMA ReceiveStep ==
    ASSUME PipeInv, PipeInv', NEW r \in Readers, ReadByte(r)
    PROVE  Stream!Receive
<1>1. readopen
  BY PipeAssumption DEF ReadByte, PipeInv, TypeOK, EndsOpen, Keeps, Procs
<1>2. Contents # <<>> /\ Contents' = Tail(Contents)
  BY Taken DEF ReadByte, PipeInv
<1> QED
  BY <1>1, <1>2 DEF Stream!Receive, ReadByte

LEMMA ReturnStep ==
    ASSUME PipeInv, CopyReason, NEW r \in Readers, ReadReturns(r)
    PROVE  Stream!TellOver(r) \/ Stutter
<1>1. CASE ~(i[r] = 0 /\ n[r] > 0)
  BY <1>1 DEF ReadReturns, Stutter, pipe
<1>2. CASE i[r] = 0 /\ n[r] > 0
  <2>1. Empty /\ ~writeopen /\ readopen
    <3>1. pc[r] = "r_copy" /\ (i[r] = n[r] \/ Empty)
      BY DEF ReadReturns
    <3>2. Empty
      BY <1>2, <3>1
    <3>3. ~writeopen
      BY <1>2, <3>1, <3>2 DEF CopyReason
    <3>4. r \in holders
      BY <3>1 DEF PipeInv, EndsOpen, Procs
    <3>5. readopen
      BY <3>4 DEF PipeInv, EndsOpen, Keeps
    <3> QED
      BY <3>2, <3>3, <3>5
  <2>2. Contents = <<>>
    <3>1. Count = 0
      BY <2>1, CountTests DEF PipeInv
    <3> QED
      BY <3>1 DEF Contents
  <2>3. Contents' = Contents
    BY DEF ReadReturns, pipe, Contents, Count
  <2> QED
    BY <1>2, <2>1, <2>2, <2>3 DEF ReadReturns, pipe, Stream!TellOver
<1> QED
  BY <1>1, <1>2

LEMMA CloseStep ==
    ASSUME PipeInv, NEW p \in Procs, PipeClose(p)
    PROVE  Stream!CloseSender \/ Stream!CloseReceiver
<1>1. Contents' = Contents
  BY DEF PipeClose, Contents, Count
<1>2. CASE p \in Writers
  BY <1>1, <1>2, PipeAssumption DEF PipeClose, PipeInv, TypeOK, Stream!CloseSender
<1>3. CASE p \in Readers
  BY <1>1, <1>3, PipeAssumption DEF PipeClose, PipeInv, TypeOK, Stream!CloseReceiver
<1> QED
  BY <1>2, <1>3 DEF Procs

LEMMA StreamStep ==
    PipeInv /\ PipeInv' /\ CopyReason /\ [Next]_vars
        => [Stream!StreamNext]_(Stream!streamVars)
<1> SUFFICES ASSUME PipeInv, PipeInv', CopyReason, [Next]_vars
             PROVE  Stream!StreamNext \/ Stutter
  BY StutterStep
<1>1. ASSUME NEW w \in Writers, Write(w) PROVE Stream!StreamNext \/ Stutter
  <2>1. ASSUME NEW b \in Bytes, WriteByte(w, b) PROVE Stream!StreamNext
    BY <2>1, SendStep DEF Stream!StreamNext
  <2>2. ASSUME \/ \E size \in Sizes : WriteCall(w, size)
               \/ WriteFails(w) \/ WriteBlocks(w) \/ WriteReturns(w)
               \/ Sleep(w, "w_sleep", "w_asleep") \/ Resume(w, "w_woken", "w_loop")
        PROVE  Stutter
    BY <2>2 DEF WriteCall, WriteFails, WriteBlocks, WriteReturns, Sleep, Resume,
                Stutter, pipe
  <2> QED
    BY <1>1, <2>1, <2>2 DEF Write
<1>2. ASSUME NEW r \in Readers, Read(r) PROVE Stream!StreamNext \/ Stutter
  <2>1. CASE ReadByte(r)
    BY <2>1, ReceiveStep DEF Stream!StreamNext
  <2>2. CASE ReadReturns(r)
    BY <2>2, ReturnStep DEF Stream!StreamNext
  <2>3. ASSUME \/ \E size \in Sizes : ReadCall(r, size)
               \/ ReadFails(r) \/ ReadBlocks(r) \/ ReadStarts(r)
               \/ Sleep(r, "r_sleep", "r_asleep") \/ Resume(r, "r_woken", "r_wait")
        PROVE  Stutter
    BY <2>3 DEF ReadCall, ReadFails, ReadBlocks, ReadStarts, Sleep, Resume,
                Stutter, pipe
  <2> QED
    BY <1>2, <2>1, <2>2, <2>3 DEF Read
<1>3. ASSUME NEW p \in Procs, Close(p) \/ Kill(p)
      PROVE  Stream!StreamNext \/ Stutter
  <2>1. CASE PipeClose(p)
    BY <2>1, CloseStep DEF Stream!StreamNext
  <2>2. CASE CloseFile(p) \/ Kfree(p) \/ Kill(p)
    BY <2>2 DEF CloseFile, Kfree, Kill, Stutter, pipe
  <2> QED
    BY <1>3, <2>1, <2>2 DEF Close
<1>4. CASE Finished \/ UNCHANGED vars
  BY <1>4 DEF Finished, vars, Stutter
<1> QED
  BY <1>1, <1>2, <1>3, <1>4 DEF Next

LEMMA InitStream == Init => Stream!StreamInit
<1> SUFFICES ASSUME Init PROVE Stream!StreamInit
  OBVIOUS
<1>1. Contents = <<>>
  <2>1. Count = 0
    BY DEF Init, Count
  <2> QED
    BY <2>1 DEF Contents
<1> QED
  BY <1>1 DEF Init, Stream!StreamInit

(* A pipe is a bounded byte stream: bytes come out once and in the order   *)
(* they went in, none is overwritten before it was read, wherever the      *)
(* counters wrap, and a reader is told of the end only when there is no    *)
(* writer and no byte left.                                                *)
THEOREM PipeStream == Spec => ImplementsStream
<1>1. Init /\ [][Next]_vars => [](PipeInv /\ CopyReason)
  BY InitInv, StepInv, InitCopy, StepCopy, PTL
<1>2. Init /\ [][Next]_vars => Stream!StreamInit /\ [][Stream!StreamNext]_(Stream!streamVars)
  BY <1>1, InitStream, StreamStep, PTL
<1> QED
  BY <1>2 DEF Spec, ImplementsStream, Stream!StreamSpec
===============================================================================

------------------------------- MODULE Station -------------------------------
(***************************************************************************)
(* The petrol station (Assignment4/q1_temp.c; "q1_changig names1.c" is the *)
(* same program).  Cars queue in the order of their ids under `mutex`; the *)
(* ATM is used under mutexATM, and every section under it is one step.     *)
(*                                                                         *)
(* main waits on cond without owning `mutex`: pthread_cond_wait frees it   *)
(* whoever has it, and main owns it when it returns.  So `mutex` protects  *)
(* little, and what is done under it is split at every access.  Waits end  *)
(* by a broadcast.                                                         *)
(***************************************************************************)
EXTENDS Integers, FiniteSets

CONSTANTS CarLength,  \* the cars have the ids 0..CarLength-1
          Attenders,
          QueueSize,  \* 4 in the code
          Pumps,      \* 3 in the code
          Main        \* the main thread, among those who wait on cond

Cars == 0..(CarLength - 1)
Amount == 100

VARIABLES pc,                \* of cars, attenders and main
          locked, condQ,     \* mutex, and who waits on cond
          condATM,           \* who waits on condATM
          queLow, queHigh, carCompleted,
          serving, reg,      \* reg: serving as a thread has loaded it
          ATM, ATMBUSY

stvars == <<pc, locked, condQ, condATM, queLow, queHigh, carCompleted,
            serving, reg, ATM, ATMBUSY>>
queue == <<queLow, queHigh, carCompleted>>
atm == <<condATM, ATM, ATMBUSY>>
pump == <<serving, reg>>

Threads == Cars \cup Attenders \cup {Main}

Init ==
    /\ pc = [t \in Threads |-> IF t = Main THEN "enter"
                               ELSE IF t \in Attenders THEN "serve" ELSE "none"]
    /\ locked = FALSE /\ condQ = {} /\ condATM = {}
    /\ queLow = 0 /\ queHigh = 0 /\ carCompleted = 0
    /\ serving = 0 /\ reg = [t \in Threads |-> 0]
    /\ ATM = 0 /\ ATMBUSY = 0

Goto(t, s) == pc' = [pc EXCEPT ![t] = s]

(* The process ends when main returns. *)
At(t, s) == pc[t] = s /\ pc[Main] # "exited"

-----------------------------------------------------------------------------
(* enterStation *)

Enter ==
    /\ At(Main, "enter")
    /\ IF carCompleted = CarLength
       THEN condQ' = {} /\ Goto(Main, "drain")
       ELSE /\ UNCHANGED condQ
            /\ IF queHigh - queLow \in 0..(QueueSize - 1)
               THEN pc' = [pc EXCEPT ![queHigh] = "start", ![Main] = "count"]
               ELSE Goto(Main, "full")
    /\ UNCHANGED <<locked, queue, pump, atm>>

(* Only main reads queHigh. *)
Count ==
    /\ At(Main, "count")
    /\ carCompleted' = carCompleted + 1 /\ queHigh' = queHigh + 1
    /\ Goto(Main, "enter")
    /\ UNCHANGED <<locked, condQ, queLow, pump, atm>>

Drain ==
    /\ At(Main, "drain")
    /\ Goto(Main, IF queLow = queHigh THEN "join" ELSE "undrained")
    /\ UNCHANGED <<locked, condQ, queue, pump, atm>>

MainWaits ==
    /\ pc[Main] \in {"full", "undrained"}
    /\ condQ' = condQ \cup {Main} /\ locked' = FALSE
    /\ Goto(Main, IF pc[Main] = "full" THEN "wakeEnter" ELSE "wakeDrain")
    /\ UNCHANGED <<queue, pump, atm>>

MainWakes ==
    /\ pc[Main] \in {"wakeEnter", "wakeDrain"}
    /\ Main \notin condQ /\ ~locked /\ locked' = TRUE
    /\ Goto(Main, IF pc[Main] = "wakeEnter" THEN "enter" ELSE "drain")
    /\ UNCHANGED <<condQ, queue, pump, atm>>

Join ==
    /\ At(Main, "join") /\ \A c \in Cars : pc[c] = "done"
    /\ Goto(Main, "exited")
    /\ UNCHANGED <<locked, condQ, queue, pump, atm>>

-----------------------------------------------------------------------------
(* car: waitInLine and goToPump *)

CarLock(c) ==
    /\ At(c, "start") \/ At(c, "restart")
    /\ c \notin condQ /\ ~locked /\ locked' = TRUE
    /\ Goto(c, IF pc[c] = "start" THEN "line" ELSE "pump")
    /\ UNCHANGED <<condQ, queue, pump, atm>>

WaitInLine(c) ==
    /\ At(c, "line")
    /\ Goto(c, IF c = queLow THEN "pump" ELSE "wait")
    /\ UNCHANGED <<locked, condQ, queue, pump, atm>>

GoToPump(c) ==
    /\ At(c, "pump")
    /\ IF serving = Pumps
       THEN condQ' = {} /\ Goto(c, "rewait")
       ELSE UNCHANGED condQ /\ Goto(c, "load")
    /\ UNCHANGED <<locked, queue, pump, atm>>

CarWaits(c) ==
    /\ At(c, "wait") \/ At(c, "rewait")
    /\ condQ' = condQ \cup {c} /\ locked' = FALSE
    /\ Goto(c, IF pc[c] = "wait" THEN "start" ELSE "restart")
    /\ UNCHANGED <<queue, pump, atm>>

(* serving++ of a car and serving-- of an attender. *)
LoadServing(t) ==
    /\ At(t, "load")
    /\ reg' = [reg EXCEPT ![t] = serving]
    /\ Goto(t, "store")
    /\ UNCHANGED <<locked, condQ, queue, serving, atm>>

StoreServing(t) ==
    /\ At(t, "store")
    /\ serving' = IF t \in Cars THEN reg[t] + 1 ELSE reg[t] - 1
    /\ reg' = [reg EXCEPT ![t] = 0]
    /\ Goto(t, IF t \in Cars THEN "advance" ELSE "accept")
    /\ UNCHANGED <<locked, condQ, queue, atm>>

Advance(c) ==
    /\ At(c, "advance")
    /\ queLow' = queLow + 1
    /\ Goto(c, "unlock")
    /\ UNCHANGED <<locked, condQ, queHigh, carCompleted, pump, atm>>

CarUnlock(c) ==
    /\ At(c, "unlock")
    /\ locked' = FALSE
    /\ Goto(c, "pay")
    /\ UNCHANGED <<condQ, queue, pump, atm>>

-----------------------------------------------------------------------------
(* The ATM *)

(* A wait without the broadcast before it: a mutation. *)
SleepSilently(t) == condATM' = condATM \cup {t}

(* pthread_cond_broadcast(&condATM); pthread_cond_wait(&condATM, ...) *)
WakeAllAndSleep(t) == condATM' = {t}

(* The first loop of pay, and with ATMBUSY = 1 at once the second. *)
Pay(c) ==
    /\ At(c, "pay") /\ c \notin condATM
    /\ WakeAllAndSleep(c)
    /\ IF ATMBUSY # 0 THEN UNCHANGED <<pc, ATMBUSY>>
       ELSE ATMBUSY' = 1 /\ Goto(c, "paying")
    /\ UNCHANGED <<locked, condQ, queue, pump, ATM>>

Paying(c) ==
    /\ At(c, "paying") /\ c \notin condATM
    /\ IF ATMBUSY # 2 THEN WakeAllAndSleep(c) /\ UNCHANGED <<pc, ATMBUSY>>
       ELSE ATMBUSY' = 0 /\ Goto(c, "exit") /\ UNCHANGED condATM
    /\ UNCHANGED <<locked, condQ, queue, pump, ATM>>

(* exitStation compares with the global carLength, which stays 0. *)
ExitStation(c) ==
    /\ At(c, "exit")
    /\ condQ' = {}
    /\ Goto(c, IF carCompleted = 0 THEN "joining" ELSE "done")
    /\ UNCHANGED <<locked, queue, pump, atm>>

AcceptPayment(a) ==
    /\ At(a, "accept") /\ a \notin condATM
    /\ IF ATMBUSY # 1 THEN WakeAllAndSleep(a) /\ UNCHANGED <<pc, ATM, ATMBUSY>>
       ELSE /\ ATM' = ATM + Amount /\ ATMBUSY' = 2
            /\ condATM' = {} /\ Goto(a, "serve")
    /\ UNCHANGED <<locked, condQ, queue, pump>>

(* serveCar's test, if nobody else has mutexServe. *)
ServeCar(a) ==
    /\ At(a, "serve")
    /\ \A b \in Attenders : pc[b] \notin {"load", "store"}
    /\ Goto(a, IF serving > 0 THEN "load" ELSE "accept")
    /\ UNCHANGED <<locked, condQ, queue, pump, atm>>

-----------------------------------------------------------------------------
Next ==
    \/ Enter \/ Count \/ Drain \/ MainWaits \/ MainWakes \/ Join
    \/ \E t \in Cars \cup Attenders : LoadServing(t) \/ StoreServing(t)
    \/ \E c \in Cars :
          \/ CarLock(c) \/ WaitInLine(c) \/ GoToPump(c) \/ CarWaits(c) \/ Advance(c)
          \/ CarUnlock(c) \/ Pay(c) \/ Paying(c) \/ ExitStation(c)
    \/ \E a \in Attenders : ServeCar(a) \/ AcceptPayment(a)

-----------------------------------------------------------------------------
(* Properties *)

AtPump == {"pump", "rewait", "restart", "load", "store", "advance"}
Left == {"unlock", "pay", "paying", "exit", "joining", "done"}

(* The cars are served one at a time in the order of their ids although    *)
(* two may own `mutex` at once, and no more than QueueSize are inside; so  *)
(* serving stays within the pumps although increments under `mutex` and    *)
(* decrements under mutexServe overwrite each other.                       *)
InLine ==
    /\ \A c \in Cars : /\ pc[c] \in AtPump => c = queLow
                       /\ pc[c] \in Left <=> c < queLow
    /\ queHigh - queLow \in -1..QueueSize
    /\ serving \in 0..Pumps

(* One car at a time has the ATM, and what the ATM holds is what the cars  *)
(* paid that left it, and the payment they have not seen accepted yet.     *)
Paid == {c \in Cars : pc[c] \in {"exit", "joining", "done"}}

PaidOnce ==
    /\ Cardinality({c \in Cars : pc[c] = "paying"}) = (IF ATMBUSY = 0 THEN 0 ELSE 1)
    /\ ATM = Amount * (Cardinality(Paid) + IF ATMBUSY = 2 THEN 1 ELSE 0)

(* A car that leaves wakes nobody: nobody is left asleep at the ATM for    *)
(* good, as an attender is awake who will broadcast, or serve.             *)
NobodyStranded == \E a \in Attenders : a \notin condATM
=============================================================================

------------------------------ MODULE CmosTime ------------------------------
(***************************************************************************)
(* cmostime of lapic.c reads the real-time clock while it runs.  Of the    *)
(* six fields there are the one that is read first and changes at every    *)
(* update, and the one that is read last and changes when the first wraps. *)
(* The chip updates one after the other, with its UIP bit set.             *)
(***************************************************************************)
EXTENDS Integers

CONSTANTS Seconds, Years,  \* the fields run from 0 to Seconds-1 and Years-1
          MaxUpdates       \* of the clock during one call, less than Seconds

VARIABLES second, year,    \* the registers
          uip, bcd,        \* bits of the status registers
          pc,              \* the cmos_read that comes next
          t1, t2,          \* what has been read
          shown, updates   \* history: the times the clock showed, in numbers

rvars == <<second, year, uip, bcd, pc, t1, t2, shown, updates>>

(* Binary coded decimal, and CONV. *)
Encode(x) == IF bcd THEN (x \div 10) * 16 + (x % 10) ELSE x
Conv(x) == IF bcd THEN (x \div 16) * 10 + (x % 16) ELSE x

Unread == [second |-> 0, year |-> 0]

(* The hardware counts in plain numbers. *)
Init ==
    /\ second \in 0..(Seconds - 1) /\ year \in 0..(Years - 1)
    /\ bcd \in BOOLEAN
    /\ uip = "no" /\ updates = 0
    /\ shown = {<<second, year>>}
    /\ pc = "second1" /\ t1 = Unread /\ t2 = Unread

-----------------------------------------------------------------------------
(* The chip *)

UpdateBegins ==
    /\ uip = "no" /\ updates < MaxUpdates /\ pc # "done"
    /\ uip' = "second" /\ updates' = updates + 1
    /\ UNCHANGED <<second, year, bcd, pc, t1, t2, shown>>

UpdateSecond ==
    /\ uip = "second"
    /\ second' = (second + 1) % Seconds
    /\ uip' = "year"
    /\ UNCHANGED <<year, bcd, pc, t1, t2, shown, updates>>

UpdateEnds ==
    /\ uip = "year"
    /\ year' = IF second = 0 THEN (year + 1) % Years ELSE year
    /\ uip' = "no"
    /\ shown' = shown \cup {<<second, year'>>}
    /\ UNCHANGED <<second, bcd, pc, t1, t2, updates>>

-----------------------------------------------------------------------------
(* cmostime: a step is one cmos_read *)

chip == <<second, year, uip, bcd, shown, updates>>

Fill1 ==
    /\ \/ pc = "second1" /\ t1' = [t1 EXCEPT !.second = Encode(second)] /\ pc' = "year1"
       \/ pc = "year1" /\ t1' = [t1 EXCEPT !.year = Encode(year)] /\ pc' = "stata"
    /\ UNCHANGED <<chip, t2>>

(* cmostime without the test of CMOS_UIP: a mutation. *)
StatAIgnored ==
    /\ pc = "stata" /\ pc' = "second2"
    /\ UNCHANGED <<chip, t1, t2>>

(* continue, while an update is in progress. *)
StatA ==
    /\ pc = "stata"
    /\ pc' = IF uip = "no" THEN "second2" ELSE "second1"
    /\ UNCHANGED <<chip, t1, t2>>

Fill2 ==
    /\ \/ pc = "second2" /\ t2' = [t2 EXCEPT !.second = Encode(second)] /\ pc' = "year2"
       \/ pc = "year2" /\ t2' = [t2 EXCEPT !.year = Encode(year)] /\ pc' = "memcmp"
    /\ UNCHANGED <<chip, t1>>

(* Twice the same: convert and return. *)
Compare ==
    /\ pc = "memcmp"
    /\ IF t1 = t2
       THEN /\ t1' = [second |-> Conv(t1.second), year |-> Conv(t1.year) + 2000]
            /\ pc' = "done"
       ELSE pc' = "second1" /\ UNCHANGED t1
    /\ UNCHANGED <<chip, t2>>

Returned == pc = "done" /\ uip = "no" /\ UNCHANGED rvars

Next == \/ UpdateBegins \/ UpdateSecond \/ UpdateEnds
        \/ Fill1 \/ StatA \/ Fill2 \/ Compare \/ Returned

-----------------------------------------------------------------------------
(* The time that cmostime returns is one that the clock has shown during   *)
(* the call, never a mixture of two, whenever the clock ticks, if the field*)
(* that is read first does not come round to the same value meanwhile.     *)
TimeWasShown == pc = "done" => <<t1.second, t1.year - 2000>> \in shown
=============================================================================

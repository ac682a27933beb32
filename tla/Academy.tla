------------------------------- MODULE Academy -------------------------------
(***************************************************************************)
(* The badminton academy (Assignment4/q1.c).  Players and referees meet the*)
(* organiser under meetOrganiserMutex; a referee who makes up a team with  *)
(* two players wakes those who wait for one, and then sets flag, without   *)
(* the mutex under which they test it (teamFormationMutex).                *)
(*                                                                         *)
(* A step is a section under a mutex, cut where another thread can see the *)
(* difference.  main joins threads it never created (its arrays are filled *)
(* from index 1), so nothing is assumed of when the process ends.          *)
(***************************************************************************)
EXTENDS Integers, FiniteSets

CONSTANT N  \* 2*N players and N referees come

Threads == 1..(3 * N)

VARIABLES kind,      \* "player", "refree", or "none" of who has not come yet
          pc,
          playerWithOrganiser, refreeWithOrganiser, flag,
          condPlayer, condRefree, condEnterCourt,  \* who waits
          teams, alone  \* history: teams formed; referees who met too early

avars == <<kind, pc, playerWithOrganiser, refreeWithOrganiser, flag, condPlayer,
           condRefree, condEnterCourt, teams, alone>>
organiser == <<playerWithOrganiser, refreeWithOrganiser, condPlayer, condRefree,
               teams, alone>>

Init ==
    /\ kind = [t \in Threads |-> "none"]
    /\ pc = [t \in Threads |-> "none"]
    /\ playerWithOrganiser = 0 /\ refreeWithOrganiser = 0 /\ flag = 0
    /\ condPlayer = {} /\ condRefree = {} /\ condEnterCourt = {}
    /\ teams = 0 /\ alone = {}

Goto(t, s) == pc' = [pc EXCEPT ![t] = s]

Players == {t \in Threads : kind[t] = "player"}
Refrees == {t \in Threads : kind[t] = "refree"}

-----------------------------------------------------------------------------
(* main: a player comes if at least half of those to come are players. *)
Create ==
    /\ Threads \ (Players \cup Refrees) # {}
    /\ LET players == 2 * N - Cardinality(Players)
           refrees == N - Cardinality(Refrees)
           t == Cardinality(Players \cup Refrees) + 1
       IN  /\ kind' = [kind EXCEPT ![t] = IF players >= refrees THEN "player"
                                          ELSE "refree"]
           /\ Goto(t, "meet")
    /\ UNCHANGED <<organiser, flag, condEnterCourt>>

-----------------------------------------------------------------------------
(* meetOrganiser *)

Meeting(t) == /\ pc[t] = "meet" /\ t \notin condPlayer \cup condRefree
              /\ \A u \in Threads : pc[u] # "forming"

MeetPlayer(t) ==
    /\ Meeting(t) /\ kind[t] = "player"
    /\ IF playerWithOrganiser = 2
       THEN condPlayer' = condPlayer \cup {t} /\ UNCHANGED <<pc, playerWithOrganiser>>
       ELSE /\ playerWithOrganiser' = playerWithOrganiser + 1 /\ Goto(t, "test")
            /\ UNCHANGED condPlayer
    /\ UNCHANGED <<kind, flag, refreeWithOrganiser, condRefree, condEnterCourt,
                   teams, alone>>

MeetRefree(t) ==
    /\ Meeting(t) /\ kind[t] = "refree"
    /\ IF refreeWithOrganiser = 1
       THEN /\ condRefree' = condRefree \cup {t}
            /\ UNCHANGED <<pc, refreeWithOrganiser, condEnterCourt, alone>>
       ELSE /\ refreeWithOrganiser' = 1
            /\ UNCHANGED condRefree
            /\ IF playerWithOrganiser = 2
               THEN condEnterCourt' = {} /\ Goto(t, "forming") /\ UNCHANGED alone
               ELSE /\ alone' = alone \cup {t} /\ Goto(t, "test")
                    /\ UNCHANGED condEnterCourt
    /\ UNCHANGED <<kind, flag, playerWithOrganiser, condPlayer, teams>>

(* pthread_cond_signal: one of those who wait, if any. *)
Signal(Q, R) == IF Q = {} THEN R = {} ELSE \E t \in Q : R = Q \ {t}

FormTeam(t) ==
    /\ pc[t] = "forming"
    /\ flag' = 1
    /\ condPlayer' \in {R \in SUBSET condPlayer : Signal(condPlayer, R)}
    /\ condRefree' \in {R \in SUBSET condRefree : Signal(condRefree, R)}
    /\ refreeWithOrganiser' = 0 /\ playerWithOrganiser' = 0
    /\ teams' = teams + 1
    /\ Goto(t, "test")
    /\ UNCHANGED <<kind, condEnterCourt, alone>>

-----------------------------------------------------------------------------
(* teamFormation and enterCourt *)

(* teamFormationMutex is kept from the test to the wait, or to flag = 0. *)
Inside(t) == pc[t] \in {"nap", "clear"}

(* The test without teamFormationMutex: a mutation. *)
TestFlagUnlocked(t) ==
    /\ pc[t] = "test" /\ t \notin condEnterCourt
    /\ Goto(t, IF flag = 0 THEN "nap"
               ELSE IF kind[t] = "refree" THEN "clear" ELSE "court")
    /\ UNCHANGED <<kind, organiser, flag, condEnterCourt>>

TestFlag(t) ==
    /\ pc[t] = "test" /\ t \notin condEnterCourt /\ \A u \in Threads : ~Inside(u)
    /\ Goto(t, IF flag = 0 THEN "nap"
               ELSE IF kind[t] = "refree" THEN "clear" ELSE "court")
    /\ UNCHANGED <<kind, organiser, flag, condEnterCourt>>

WaitForTeam(t) ==
    /\ pc[t] = "nap"
    /\ condEnterCourt' = condEnterCourt \cup {t}
    /\ Goto(t, "test")
    /\ UNCHANGED <<kind, organiser, flag>>

ClearFlag(t) ==
    /\ pc[t] = "clear"
    /\ flag' = 0
    /\ Goto(t, "court")
    /\ UNCHANGED <<kind, organiser, condEnterCourt>>

Next ==
    \/ Create
    \/ \E t \in Threads : \/ MeetPlayer(t) \/ MeetRefree(t) \/ FormTeam(t)
                          \/ TestFlag(t) \/ WaitForTeam(t) \/ ClearFlag(t)

-----------------------------------------------------------------------------
(* Properties *)

Met == {t \in Threads : pc[t] \in {"test", "nap", "clear", "court", "forming"}}

(* The organiser sees two players and one referee at most, whoever is woken*)
(* and whoever comes in between; and those who met the organiser are those *)
(* of the teams, those who are with the organiser, and nobody else.        *)
TeamsAreThree ==
    /\ playerWithOrganiser \in 0..2 /\ refreeWithOrganiser \in 0..1
    /\ Cardinality(Met \cap Players) = 2 * teams + playerWithOrganiser
    /\ Cardinality(Met \cap Refrees) = teams + refreeWithOrganiser

(* A team lets one referee onto the court, and nobody is there before the  *)
(* first team, although flag is set and cleared under different mutexes and*)
(* a flag set twice is cleared once.                                       *)
OnCourt(S) == {t \in S : pc[t] = "court"}

CourtAfterTeams ==
    /\ Cardinality(OnCourt(Refrees)) + flag <= teams
    /\ OnCourt(Players) # {} => teams > 0

(* A referee who meets the organiser before two players is the last to meet*)
(* him: no team is formed after that.                                      *)
EarlyIsLast ==
    /\ Cardinality(alone) <= 1
    /\ alone # {} => /\ refreeWithOrganiser = 1
                     /\ \A t \in Threads : pc[t] # "forming"
=============================================================================

-------------------------------- MODULE Booth --------------------------------
(***************************************************************************)
(* The polling booth of Assignment4/q2.c: robots bring voters to the booth,*)
(* EVMs (voting machines) publish themselves one at a time in              *)
(* single_booth.free_evm, a robot takes a slot of the published EVM, and   *)
(* the vote frees the slot again.                                          *)
(*                                                                         *)
(* Each section between booth_lock and booth_unlock is one action.  The    *)
(* reads the code makes without the mutex (booth_get_voter's test, the     *)
(* loop test of evm_fn, its test of number_occupied, main's loop) are      *)
(* actions of their own, so that a section of another thread may run       *)
(* between such a read and the section that relies on it.                  *)
(***************************************************************************)
EXTENDS Integers, FiniteSets

CONSTANTS Evms,     \* single_booth.evms
          Robots,   \* single_booth.robots
          Voters,   \* number_of_unassigned_voters that main starts with
          Slots,    \* number_of_slots of every EVM
          NoEvm     \* the NULL pointer

VARIABLES mainpc,      \* main: "starting" threads, "waiting" for votes, "exited"
          unassigned,  \* single_booth.number_of_unassigned_voters
          votes,       \* single_booth.n_votes_to_cast
          free,        \* single_booth.free_evm
          occupied,    \* evms[e].number_occupied
          epc,         \* where the thread of each EVM stands in evm_fn
          rpc,         \* where the thread of each robot stands in robot_fn
          voterID,     \* robots[r].voterID
          assigned,    \* robots[r].assigned_evm
          voted        \* history: the voter IDs whose vote was cast

vars == <<mainpc, unassigned, votes, free, occupied, epc, rpc, voterID,
          assigned, voted>>

-----------------------------------------------------------------------------
(* booth_new, get_new_evm and robot_new, and main before its loops.        *)

Init ==
    /\ mainpc = "starting"
    /\ unassigned = Voters
    /\ votes = Voters
    /\ free = NoEvm
    /\ occupied = [e \in Evms |-> 0]
    /\ epc = [e \in Evms |-> "new"]
    /\ rpc = [r \in Robots |-> "new"]
    /\ voterID = [r \in Robots |-> -1]
    /\ assigned = [r \in Robots |-> NoEvm]
    /\ voted = {}

(* main creates the EVM threads, then the robot threads, then spins on     *)
(* n_votes_to_cast; when it returns the process and every thread end.      *)
StartEvm(e) ==
    /\ mainpc = "starting"
    /\ epc[e] = "new"
    /\ epc' = [epc EXCEPT ![e] = "loop"]
    /\ UNCHANGED <<mainpc, unassigned, votes, free, occupied, rpc, voterID,
                   assigned, voted>>

StartRobot(r) ==
    /\ mainpc = "starting"
    /\ rpc[r] = "new"
    /\ \A e \in Evms : epc[e] # "new"
    /\ rpc' = [rpc EXCEPT ![r] = "check"]
    /\ UNCHANGED <<mainpc, unassigned, votes, free, occupied, epc, voterID,
                   assigned, voted>>

MainWait ==
    /\ mainpc = "starting"
    /\ \A e \in Evms : epc[e] # "new"
    /\ \A r \in Robots : rpc[r] # "new"
    /\ mainpc' = "waiting"
    /\ UNCHANGED <<unassigned, votes, free, occupied, epc, rpc, voterID,
                   assigned, voted>>

MainExit ==
    /\ mainpc = "waiting"
    /\ votes <= 0
    /\ mainpc' = "exited"
    /\ UNCHANGED <<unassigned, votes, free, occupied, epc, rpc, voterID,
                   assigned, voted>>

-----------------------------------------------------------------------------
(* evm_fn *)

(* while(n_votes_to_cast > 0), read without the mutex. *)
EvmLoop(e) ==
    /\ mainpc # "exited"
    /\ epc[e] = "loop"
    /\ epc' = [epc EXCEPT ![e] = IF votes > 0 THEN "look" ELSE "done"]
    /\ UNCHANGED <<mainpc, unassigned, votes, free, occupied, rpc, voterID,
                   assigned, voted>>

(* if(number_occupied < number_of_slots), read without the mutex. *)
EvmLook(e) ==
    /\ mainpc # "exited"
    /\ epc[e] = "look"
    /\ epc' = [epc EXCEPT ![e] = IF occupied[e] < Slots THEN "publish" ELSE "loop"]
    /\ UNCHANGED <<mainpc, unassigned, votes, free, occupied, rpc, voterID,
                   assigned, voted>>

(* polling_ready_evm that empties the EVM it publishes: a mutation.        *)
EvmPublishEmpties(e) ==
    /\ mainpc # "exited"
    /\ epc[e] = "publish"
    /\ free = NoEvm
    /\ free' = e
    /\ occupied' = [occupied EXCEPT ![e] = 0]
    /\ epc' = [epc EXCEPT ![e] = "loop"]
    /\ UNCHANGED <<mainpc, unassigned, votes, rpc, voterID, assigned, voted>>

(* polling_ready_evm that trusts the unlocked test of number_occupied: a   *)
(* mutation.                                                               *)
EvmPublishUntested(e) ==
    /\ mainpc # "exited"
    /\ epc[e] = "publish"
    /\ free = NoEvm
    /\ free' = e
    /\ epc' = [epc EXCEPT ![e] = "loop"]
    /\ UNCHANGED <<mainpc, unassigned, votes, occupied, rpc, voterID,
                   assigned, voted>>

(* polling_ready_evm: give up when the EVM is full, publish it when no EVM *)
(* is published, otherwise unlock and try again (a step that changes       *)
(* nothing).                                                               *)
EvmPublish(e) ==
    /\ mainpc # "exited"
    /\ epc[e] = "publish"
    /\ \/ /\ occupied[e] = Slots
          /\ UNCHANGED free
       \/ /\ occupied[e] # Slots
          /\ free = NoEvm
          /\ free' = e
    /\ epc' = [epc EXCEPT ![e] = "loop"]
    /\ UNCHANGED <<mainpc, unassigned, votes, occupied, rpc, voterID,
                   assigned, voted>>

-----------------------------------------------------------------------------
(* robot_fn *)

(* booth_get_voter that leaves the last voter behind: a mutation. *)
RobotCheckEarly(r) ==
    /\ mainpc # "exited"
    /\ rpc[r] = "check"
    /\ voterID' = [voterID EXCEPT ![r] = IF unassigned <= 1 THEN -1 ELSE @]
    /\ rpc' = [rpc EXCEPT ![r] = IF unassigned <= 1 THEN "done" ELSE "take"]
    /\ UNCHANGED <<mainpc, unassigned, votes, free, occupied, epc, assigned,
                   voted>>

(* booth_get_voter's test, made without the mutex: -1 ends the robot. *)
RobotCheck(r) ==
    /\ mainpc # "exited"
    /\ rpc[r] = "check"
    /\ IF unassigned = 0
       THEN /\ voterID' = [voterID EXCEPT ![r] = -1]
            /\ rpc' = [rpc EXCEPT ![r] = "done"]
       ELSE /\ rpc' = [rpc EXCEPT ![r] = "take"]
            /\ UNCHANGED voterID
    /\ UNCHANGED <<mainpc, unassigned, votes, free, occupied, epc, assigned,
                   voted>>

(* booth_get_voter with the counter left as it was: a mutation. *)
RobotTakeKeepsCount(r) ==
    /\ mainpc # "exited"
    /\ rpc[r] = "take"
    /\ voterID' = [voterID EXCEPT ![r] = unassigned]
    /\ rpc' = [rpc EXCEPT ![r] = IF unassigned <= -1 THEN "done" ELSE "wait"]
    /\ UNCHANGED <<mainpc, unassigned, votes, free, occupied, epc, assigned,
                   voted>>

(* booth_get_voter's section and robot_fn's test of its result.  The       *)
(* section does not test the counter again.                                *)
RobotTake(r) ==
    /\ mainpc # "exited"
    /\ rpc[r] = "take"
    /\ voterID' = [voterID EXCEPT ![r] = unassigned]
    /\ unassigned' = unassigned - 1
    /\ rpc' = [rpc EXCEPT ![r] = IF unassigned <= -1 THEN "done" ELSE "wait"]
    /\ UNCHANGED <<mainpc, votes, free, occupied, epc, assigned, voted>>

(* voter_wait_for_evm that leaves a full EVM published: a mutation. *)
RobotWaitKeepsFree(r) ==
    /\ mainpc # "exited"
    /\ rpc[r] = "wait"
    /\ free # NoEvm
    /\ occupied' = [occupied EXCEPT ![free] = @ + 1]
    /\ assigned' = [assigned EXCEPT ![r] = free]
    /\ rpc' = [rpc EXCEPT ![r] = "vote"]
    /\ UNCHANGED <<mainpc, unassigned, votes, free, epc, voterID, voted>>

(* voter_wait_for_evm: take a slot of the published EVM, and unpublish it  *)
(* when that was its last slot.  With none published the loop unlocks and  *)
(* tries again (a step that changes nothing).                              *)
RobotWait(r) ==
    /\ mainpc # "exited"
    /\ rpc[r] = "wait"
    /\ free # NoEvm
    /\ occupied' = [occupied EXCEPT ![free] = @ + 1]
    /\ free' = IF occupied[free] + 1 = Slots THEN NoEvm ELSE free
    /\ assigned' = [assigned EXCEPT ![r] = free]
    /\ rpc' = [rpc EXCEPT ![r] = "vote"]
    /\ UNCHANGED <<mainpc, unassigned, votes, epc, voterID, voted>>

(* voter_in_slot that does not give the slot back: a mutation. *)
RobotVoteKeepsSlot(r) ==
    /\ mainpc # "exited"
    /\ rpc[r] = "vote"
    /\ votes' = votes - 1
    /\ assigned' = [assigned EXCEPT ![r] = NoEvm]
    /\ voted' = voted \cup {voterID[r]}
    /\ rpc' = [rpc EXCEPT ![r] = "check"]
    /\ UNCHANGED <<mainpc, unassigned, free, occupied, epc, voterID>>

(* voter_in_slot: the vote frees the slot and counts. *)
RobotVote(r) ==
    /\ mainpc # "exited"
    /\ rpc[r] = "vote"
    /\ occupied' = [occupied EXCEPT ![assigned[r]] = @ - 1]
    /\ assigned' = [assigned EXCEPT ![r] = NoEvm]
    /\ votes' = votes - 1
    /\ voted' = voted \cup {voterID[r]}
    /\ rpc' = [rpc EXCEPT ![r] = "check"]
    /\ UNCHANGED <<mainpc, unassigned, free, epc, voterID>>

-----------------------------------------------------------------------------
(* The process is over: nothing runs any more. *)
Exited == mainpc = "exited" /\ UNCHANGED vars

EvmStep(e) == EvmLoop(e) \/ EvmLook(e) \/ EvmPublish(e)

RobotStep(r) == RobotCheck(r) \/ RobotTake(r) \/ RobotWait(r) \/ RobotVote(r)

Next ==
    \/ \E e \in Evms : StartEvm(e) \/ EvmStep(e)
    \/ \E r \in Robots : StartRobot(r) \/ RobotStep(r)
    \/ MainWait
    \/ MainExit
    \/ Exited

Spec == Init /\ [][Next]_vars

(* Every thread keeps running: nothing in q2.c sleeps on a condition, each *)
(* thread spins, so it is scheduled again and again.                       *)
Fairness ==
    /\ WF_vars(MainWait) /\ WF_vars(MainExit)
    /\ \A e \in Evms : WF_vars(StartEvm(e)) /\ WF_vars(EvmStep(e))
    /\ \A r \in Robots : WF_vars(StartRobot(r)) /\ WF_vars(RobotStep(r))

-----------------------------------------------------------------------------
(* Properties *)

(* The robots that sit in a slot of EVM e. *)
Seated(e) == {r \in Robots : assigned[r] = e}

(* The robots that hold a voter whose vote is still to be cast. *)
Holding == {r \in Robots : rpc[r] \in {"wait", "vote"}}

(* Types of every variable.  number_of_unassigned_voters may run below     *)
(* zero, number_occupied may not (the assertions of evm_fn and             *)
(* voter_wait_for_evm).                                                    *)
TypeOK ==
    /\ mainpc \in {"starting", "waiting", "exited"}
    /\ unassigned \in Int
    /\ votes \in Int
    /\ free \in Evms \cup {NoEvm}
    /\ occupied \in [Evms -> Nat]
    /\ epc \in [Evms -> {"new", "loop", "look", "publish", "done"}]
    /\ rpc \in [Robots -> {"new", "check", "take", "wait", "vote", "done"}]
    /\ voterID \in [Robots -> Int]
    /\ assigned \in [Robots -> Evms \cup {NoEvm}]
    /\ voted \in SUBSET Int

(* number_occupied counts exactly the robots in the EVM's slots, so the    *)
(* slots neither leak nor are given back twice, and never more robots sit  *)
(* in an EVM than it has slots (the assertion of evm_fn).                  *)
SlotAccounting ==
    \A e \in Evms : /\ occupied[e] = Cardinality(Seated(e))
                    /\ occupied[e] <= Slots

(* The EVM in free_evm has a free slot: the assertions voter_wait_for_evm  *)
(* makes before it takes the slot, although EVMs publish themselves after  *)
(* an unlocked test of number_occupied.                                    *)
PublishedHasRoom ==
    free # NoEvm => occupied[free] \in 0..(Slots - 1)

(* A voter ID is handed out once: two robots never hold the same voter, and*)
(* no robot holds a voter who has voted.                                   *)
VoterOnce ==
    /\ \A r, s \in Holding : voterID[r] = voterID[s] => r = s
    /\ \A r \in Holding : voterID[r] \notin voted

(* n_votes_to_cast is the number of voters minus the votes cast, and only  *)
(* registered voters vote, but for one: the unlocked test of               *)
(* booth_get_voter lets at most the one phantom voter with ID 0 through,   *)
(* however many robots race past it.                                       *)
AtMostOnePhantom ==
    /\ voted \subseteq 0..Voters
    /\ votes = Voters - Cardinality(voted)

(* The slots of an EVM neither leak nor are given back twice, and the EVM  *)
(* a robot finds in free_evm always has one for it.                        *)
SlotsSound == SlotAccounting /\ PublishedHasRoom

(* A voter votes once, and one voter at most is not on the roll.           *)
VotersSound == VoterOnce /\ AtMostOnePhantom

(* What the invariants above rest on.  A robot sits in a slot exactly      *)
(* while it is between voter_wait_for_evm and voter_in_slot; the counter   *)
(* number_of_unassigned_voters stays below every ID handed out so far.     *)
SeatedWhileVoting ==
    \A r \in Robots : rpc[r] = "vote" <=> assigned[r] # NoEvm

IdsAboveCounter ==
    /\ unassigned <= Voters
    /\ \A r \in Holding : voterID[r] \in 0..Voters /\ voterID[r] > unassigned
    /\ \A v \in voted : v > unassigned

BoothInv ==
    /\ TypeOK
    /\ SlotAccounting
    /\ PublishedHasRoom
    /\ SeatedWhileVoting
    /\ IdsAboveCounter
    /\ VoterOnce
    /\ AtMostOnePhantom

(* The votes are counted and main returns. *)
PollingEnds == <>(mainpc = "exited")

(* The assertion that stands, commented out, at the head of                *)
(* booth_get_voter: assert (number_of_unassigned_voters >= 0).  It fails.  *)
UnassignedNonNegative == unassigned >= 0
=============================================================================
